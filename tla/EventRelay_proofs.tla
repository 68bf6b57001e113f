-------------------------- MODULE EventRelay_proofs --------------------------
(***************************************************************************)
(* Proofs about EventRelay, for any event names, events and topics.        *)
(***************************************************************************)
EXTENDS EventRelay, TLAPS

(* The topic in the process-wide mapping is one that a caller has given    *)
(* under that name.                                                        *)
MappedWasAsked == \A n \in Names : topics[n] # NoTopic => topics[n] \in AskedTopics(n)

(* What Supports has accepted Convert will find a topic for, unless one of *)
(* the two calls that take topics away is made: the configuration is       *)
(* fixed, and the mapping otherwise only goes from one topic to another.   *)
TakenAway(n) == n \in removed \/ NoTopic \in AskedTopics(n)

AcceptedHasTopic ==
    \A e \in Events : stage[e] = "supported" =>
       TopicOf(EventName[e]) # NoTopic \/ TakenAway(EventName[e])

(* A call of PublishToTopic is recorded once. *)
NewIsUnasked == \A e \in Events : stage[e] = "new" => asked[e] = {}

IInv == TypeOK /\ MappedWasAsked /\ AcceptedHasTopic /\ NewIsUnasked
               /\ TopicHasAReason /\ SupportedIsRoutable

LEMMA NameIsAName == \A e \in Events : EventName[e] \in Names /\ TypeName[e] \in Names
  BY NamesAssumption

LEMMA AskedOf ==
    \A n, t : t \in AskedTopics(n) <=> \E e \in Events : TypeName[e] = n /\ t \in asked[e]
  BY DEF AskedTopics

(* Topics asked for stay asked for when no caller's record changes. *)
LEMMA AskedSame == ASSUME asked' = asked, NEW n PROVE AskedTopics(n)' = AskedTopics(n)
  BY DEF AskedTopics

LEMMA InitInv == Init => IInv
<1> SUFFICES ASSUME Init PROVE IInv
  OBVIOUS
<1>1. TypeOK
  BY DEF Init, TypeOK, Stages, MaybeTopic
<1>2. MappedWasAsked /\ AcceptedHasTopic /\ NewIsUnasked
  BY DEF Init, MappedWasAsked, AcceptedHasTopic, NewIsUnasked
<1>3. TopicHasAReason /\ SupportedIsRoutable
  BY DEF Init, TopicHasAReason, SupportedIsRoutable
<1> QED BY <1>1, <1>2, <1>3 DEF IInv

(* A step that moves one event on and changes neither mapping nor message. *)
LEMMA MoveInv ==
    ASSUME IInv, NEW e \in Events, NEW to \in Stages,
           stage' = [stage EXCEPT ![e] = to],
           UNCHANGED <<mapping, topics, asked, message, removed>>,
           message[e] # NoTopic <=> to \in {"converted", "sent", "failed"},
           to = "supported" => TopicOf(EventName[e]) # NoTopic,
           to \notin {"unroutable", "new"}
    PROVE  IInv'
<1> USE DEF IInv
<1>1. TypeOK'
  BY DEF TypeOK
<1>2. \A n : AskedTopics(n)' = AskedTopics(n)
  BY AskedSame
<1>3. MappedWasAsked'
  BY <1>2 DEF MappedWasAsked
<1>4. TopicHasAReason'
  BY <1>2 DEF TopicHasAReason
<1>5. AcceptedHasTopic'
  BY <1>2 DEF AcceptedHasTopic, TopicOf, GetTopic, TypeOK, TakenAway
<1>6. SupportedIsRoutable'
  BY <1>2 DEF SupportedIsRoutable, TypeOK
<1>7. NewIsUnasked'
  BY DEF NewIsUnasked, TypeOK
<1> QED BY <1>1, <1>3, <1>4, <1>5, <1>6, <1>7

LEMMA PublishToTopicInv ==
    ASSUME IInv, NEW e \in Events, NEW t \in MaybeTopic, PublishToTopic(e, t)
    PROVE  IInv'
<1> USE DEF IInv
<1>1. /\ stage[e] = "new" /\ stage' = [stage EXCEPT ![e] = "mapped"]
      /\ asked' = [asked EXCEPT ![e] = {t}]
      /\ topics' = [topics EXCEPT ![TypeName[e]] = t]
      /\ UNCHANGED <<mapping, message, removed>>
  BY DEF PublishToTopic, SetTopic, Move
<1>2. TypeOK'
  BY <1>1 DEF TypeOK, Stages
<1>3. /\ \A n : AskedTopics(n) \subseteq AskedTopics(n)'
      /\ t \in AskedTopics(TypeName[e])'
  <2>1. asked[e] = {}
    BY <1>1 DEF NewIsUnasked
  <2>2. \A d \in Events : asked[d] \subseteq asked'[d]
    BY <1>1, <2>1 DEF TypeOK
  <2>3. asked'[e] = {t}
    BY <1>1 DEF TypeOK
  <2> QED BY <2>2, <2>3 DEF AskedTopics
<1>4. MappedWasAsked'
  <2> SUFFICES ASSUME NEW n \in Names, topics'[n] # NoTopic
               PROVE  topics'[n] \in AskedTopics(n)'
    BY DEF MappedWasAsked
  <2>1. CASE n = TypeName[e]
    BY <1>1, <1>3, <2>1 DEF TypeOK
  <2>2. CASE n # TypeName[e]
    BY <1>1, <1>3, <2>2 DEF TypeOK, MappedWasAsked
  <2> QED BY <2>1, <2>2
<1>5. \A n : TakenAway(n) => TakenAway(n)'
  BY <1>1, <1>3 DEF TakenAway
<1>6. AcceptedHasTopic'
  <2> SUFFICES ASSUME NEW d \in Events, stage'[d] = "supported"
               PROVE  TopicOf(EventName[d])' # NoTopic \/ TakenAway(EventName[d])'
    BY DEF AcceptedHasTopic
  <2>1. stage[d] = "supported"
    BY <1>1 DEF TypeOK
  <2>2. TopicOf(EventName[d]) # NoTopic \/ TakenAway(EventName[d])
    BY <2>1 DEF AcceptedHasTopic
  <2>3. \/ topics'[EventName[d]] = topics[EventName[d]]
        \/ EventName[d] = TypeName[e] /\ topics'[EventName[d]] = t
    BY <1>1, NameIsAName DEF TypeOK
  <2>4. t = NoTopic => TakenAway(TypeName[e])'
    BY <1>3 DEF TakenAway
  <2> QED BY <1>1, <1>5, <2>2, <2>3, <2>4 DEF TopicOf, GetTopic
<1>7. TopicHasAReason'
  BY <1>1, <1>3 DEF TopicHasAReason
<1>8. SupportedIsRoutable'
  BY <1>1, <1>3 DEF SupportedIsRoutable, TypeOK
<1>9. NewIsUnasked'
  BY <1>1 DEF NewIsUnasked, TypeOK
<1> QED BY <1>2, <1>4, <1>6, <1>7, <1>8, <1>9

LEMMA UnsetTopicInv == ASSUME IInv, NEW n \in Names, UnsetTopic(n) PROVE IInv'
<1> USE DEF IInv
<1>1. /\ topics' = [topics EXCEPT ![n] = NoTopic]
      /\ removed' = removed \cup {n}
      /\ UNCHANGED <<mapping, stage, asked, message>>
  BY DEF UnsetTopic
<1>2. TypeOK'
  BY <1>1 DEF TypeOK, MaybeTopic
<1>3. \A k : AskedTopics(k)' = AskedTopics(k)
  BY <1>1, AskedSame
<1>4. MappedWasAsked'
  BY <1>1, <1>3 DEF MappedWasAsked, TypeOK
<1>5. AcceptedHasTopic'
  <2> SUFFICES ASSUME NEW d \in Events, stage'[d] = "supported"
               PROVE  TopicOf(EventName[d])' # NoTopic \/ TakenAway(EventName[d])'
    BY DEF AcceptedHasTopic
  <2>1. TopicOf(EventName[d]) # NoTopic \/ TakenAway(EventName[d])
    BY <1>1 DEF AcceptedHasTopic
  <2>2. EventName[d] = n \/ topics'[EventName[d]] = topics[EventName[d]]
    BY <1>1, NameIsAName DEF TypeOK
  <2> QED BY <1>1, <1>3, <2>1, <2>2 DEF TopicOf, GetTopic, TakenAway
<1>6. TopicHasAReason' /\ NewIsUnasked'
  BY <1>1, <1>3 DEF TopicHasAReason, NewIsUnasked
<1>7. SupportedIsRoutable'
  BY <1>1, <1>3 DEF SupportedIsRoutable
<1> QED BY <1>2, <1>4, <1>5, <1>6, <1>7

LEMMA ConvertInv == ASSUME IInv, NEW e \in Events, Convert(e) PROVE IInv'
<1> USE DEF IInv
<1> DEFINE topic == TopicOf(EventName[e])
<1>1. /\ stage[e] = "supported"
      /\ message' = [message EXCEPT ![e] = topic]
      /\ UNCHANGED <<mapping, topics, asked, removed>>
  BY DEF Convert, Move
<1>2. \/ topic = NoTopic /\ stage' = [stage EXCEPT ![e] = "unroutable"]
      \/ topic # NoTopic /\ stage' = [stage EXCEPT ![e] = "converted"]
  BY DEF Convert, Move
<1>3. topic \in MaybeTopic
  <2>1. mapping[EventName[e]] \in Mappings /\ topics[EventName[e]] \in MaybeTopic
    BY NameIsAName DEF TypeOK
  <2>2. ASSUME NEW r \in Mappings PROVE r.topic \in MaybeTopic
    <3>1. CASE r \in [listed : {TRUE}, topic : MaybeTopic, disable : BOOLEAN]
      BY <3>1
    <3>2. CASE r = [listed |-> FALSE, topic |-> NoTopic, disable |-> FALSE]
      BY <3>2 DEF MaybeTopic
    <3> QED BY <3>1, <3>2 DEF Mappings
  <2> QED BY <2>1, <2>2 DEF TopicOf, GetTopic
<1> HIDE DEF topic
<1>4. TypeOK'
  <2>1. message' \in [Events -> MaybeTopic]
    BY <1>1, <1>3 DEF TypeOK
  <2>2. stage' \in [Events -> Stages]
    BY <1>2 DEF TypeOK, Stages
  <2>3. ASSUME NEW d \in Events
        PROVE  message'[d] # NoTopic <=> stage'[d] \in {"converted", "sent", "failed"}
    BY <1>1, <1>2 DEF TypeOK
  <2> QED BY <1>1, <2>1, <2>2, <2>3 DEF TypeOK
<1>5. \A n : AskedTopics(n)' = AskedTopics(n)
  BY <1>1, AskedSame
<1>6. MappedWasAsked'
  BY <1>1, <1>5 DEF MappedWasAsked
<1>7. AcceptedHasTopic' /\ NewIsUnasked'
  BY <1>1, <1>2, <1>5 DEF AcceptedHasTopic, NewIsUnasked, TopicOf, GetTopic, TypeOK, TakenAway
<1>8. TopicHasAReason'
  <2> SUFFICES ASSUME NEW d \in Events, message'[d] # NoTopic
               PROVE  IF mapping[EventName[d]].topic # NoTopic
                      THEN message'[d] = mapping[EventName[d]].topic
                      ELSE message'[d] \in AskedTopics(EventName[d])
    BY <1>1, <1>5 DEF TopicHasAReason
  <2>1. CASE d = e
    <3>1. message'[d] = TopicOf(EventName[d])
      BY <1>1, <2>1 DEF TypeOK, topic
    <3> QED BY <3>1, NameIsAName DEF TopicOf, GetTopic, MappedWasAsked
  <2>2. CASE d # e
    BY <1>1, <2>2 DEF TopicHasAReason, TypeOK
  <2> QED BY <2>1, <2>2
<1>9. SupportedIsRoutable'
  <2>1. topic = NoTopic => TakenAway(EventName[e])
    BY <1>1 DEF AcceptedHasTopic, topic
  <2> QED BY <1>1, <1>2, <1>5, <2>1 DEF SupportedIsRoutable, TypeOK, TakenAway
<1> QED BY <1>4, <1>6, <1>7, <1>8, <1>9

LEMMA NextInv == IInv /\ [Next]_vars => IInv'
<1> SUFFICES ASSUME IInv, [Next]_vars PROVE IInv'
  OBVIOUS
<1>0. \A e \in Events :
         message[e] # NoTopic <=> stage[e] \in {"converted", "sent", "failed"}
  BY DEF IInv, TypeOK
<1>1. ASSUME NEW e \in Events, PublishEvent(e) \/ PublishMapped(e) PROVE IInv'
  BY <1>0, <1>1, MoveInv DEF PublishEvent, PublishMapped, Move, Stages
<1>2. ASSUME NEW e \in Events, Support(e) PROVE IInv'
  <2>1. CASE Supported(EventName[e])
    <3>1. TopicOf(EventName[e]) # NoTopic
      BY <2>1 DEF Supported, TopicOf, GetTopic
    <3> QED BY <1>0, <1>2, <2>1, <3>1, MoveInv DEF Support, Move, Stages
  <2>2. CASE ~Supported(EventName[e])
    BY <1>0, <1>2, <2>2, MoveInv DEF Support, Move, Stages
  <2> QED BY <2>1, <2>2
<1>3. ASSUME NEW e \in Events, Convert(e) PROVE IInv'
  BY <1>3, ConvertInv
<1>4. ASSUME NEW e \in Events, ConvertFails(e) PROVE IInv'
  BY <1>0, <1>4, MoveInv DEF ConvertFails, Move, Stages
<1>5. ASSUME NEW e \in Events, Send(e) PROVE IInv'
  BY <1>0, <1>5, MoveInv DEF Send, Move, Stages
<1>6. ASSUME NEW e \in Events, NEW t \in MaybeTopic, PublishToTopic(e, t) PROVE IInv'
  BY <1>6, PublishToTopicInv
<1>7. ASSUME NEW n \in Names, UnsetTopic(n) PROVE IInv'
  BY <1>7, UnsetTopicInv
<1>8. CASE UNCHANGED vars
  BY <1>8 DEF vars, IInv, TypeOK, MappedWasAsked, AcceptedHasTopic, NewIsUnasked,
              TopicHasAReason, SupportedIsRoutable, AskedTopics, TopicOf, GetTopic, TakenAway
<1> QED BY <1>1, <1>2, <1>3, <1>4, <1>5, <1>6, <1>7, <1>8 DEF Next

THEOREM Invariance == Spec => []IInv
  BY InitInv, NextInv, PTL DEF Spec

(* The variables have their types, and a message has a topic. *)
THEOREM TypeCorrect == Spec => []TypeOK
  BY Invariance, PTL DEF IInv

(* No message goes to a topic nobody has named for its event. *)
THEOREM TopicsAreNamed == Spec => []TopicHasAReason
  BY Invariance, PTL DEF IInv

(* Supports accepts nothing Convert cannot route, as long as UnsetTopic is *)
(* not called for the name nor PublishToTopic with the empty topic.        *)
THEOREM SupportsAgreesWithConvert == Spec => []SupportedIsRoutable
  BY Invariance, PTL DEF IInv

-----------------------------------------------------------------------------
(* What callers of PublishToTopic can rely on *)

(* A name that callers have given topics, and never the empty one, keeps   *)
(* one until UnsetTopic; an event that goes by it is not skipped.          *)
AskedIsMapped ==
    /\ \A n \in Names :
          AskedTopics(n) # {} /\ topics[n] = NoTopic => TakenAway(n)
    /\ \A e \in Events :
          asked[e] # {} /\ TypeName[e] = EventName[e] /\ stage[e] = "skipped"
          => TakenAway(EventName[e])

(* A disabled event is on its way only for a caller's sake. *)
DisabledWasAsked ==
    \A e \in Events :
       /\ stage[e] \in {"supported", "converted", "sent", "failed"}
       /\ mapping[EventName[e]].disable
       => ~(AskedTopics(EventName[e]) \subseteq {NoTopic})

LEMMA AskedGrows ==
    ASSUME IInv, [Next]_vars, NEW n
    PROVE  AskedTopics(n) \subseteq AskedTopics(n)' /\ (TakenAway(n) => TakenAway(n)')
<1>1. \A e \in Events : asked[e] \subseteq asked'[e]
  <2>1. ASSUME NEW e \in Events, NEW t \in MaybeTopic, PublishToTopic(e, t)
        PROVE  asked[e] = {} /\ asked' = [asked EXCEPT ![e] = {t}]
    BY <2>1 DEF PublishToTopic, Move, IInv, NewIsUnasked
  <2>2. asked' = asked \/ \E e \in Events, t \in MaybeTopic : PublishToTopic(e, t)
    BY DEF Next, vars, PublishEvent, PublishMapped, Support, Convert, ConvertFails, Send, UnsetTopic
  <2> QED BY <2>1, <2>2 DEF IInv, TypeOK
<1>2. removed \subseteq removed'
  BY DEF Next, vars, PublishEvent, PublishMapped, Support, Convert, ConvertFails, Send,
         PublishToTopic, UnsetTopic
<1> QED BY <1>1, <1>2 DEF AskedTopics, TakenAway

LEMMA AskedIsMappedInv == IInv /\ AskedIsMapped /\ [Next]_vars => AskedIsMapped'
<1> SUFFICES ASSUME IInv, AskedIsMapped, [Next]_vars PROVE AskedIsMapped'
  OBVIOUS
<1>0. \A n : TakenAway(n) => TakenAway(n)'
  BY AskedGrows
<1>1. ASSUME NEW e \in Events, NEW t \in MaybeTopic, PublishToTopic(e, t) PROVE AskedIsMapped'
  <2>1. /\ asked' = [asked EXCEPT ![e] = {t}]
        /\ topics' = [topics EXCEPT ![TypeName[e]] = t]
        /\ stage' = [stage EXCEPT ![e] = "mapped"]
    BY <1>1 DEF PublishToTopic, SetTopic, Move
  <2>2. t \in AskedTopics(TypeName[e])'
    BY <2>1, AskedOf DEF IInv, TypeOK, AskedTopics
  <2>3. ASSUME NEW n \in Names, AskedTopics(n)' # {}, topics'[n] = NoTopic
        PROVE  TakenAway(n)'
    <3>1. CASE n = TypeName[e]
      BY <2>1, <2>2, <2>3, <3>1 DEF TakenAway, IInv, TypeOK
    <3>2. CASE n # TypeName[e]
      <4>1. topics[n] = NoTopic
        BY <2>1, <2>3, <3>2 DEF IInv, TypeOK
      <4>2. AskedTopics(n)' = AskedTopics(n)
        BY <2>1, <3>2 DEF AskedTopics, IInv, TypeOK
      <4> QED BY <1>0, <2>3, <4>1, <4>2 DEF AskedIsMapped
    <3> QED BY <3>1, <3>2
  <2>4. ASSUME NEW d \in Events, asked'[d] # {}, TypeName[d] = EventName[d], stage'[d] = "skipped"
        PROVE  TakenAway(EventName[d])'
    BY <1>0, <2>1, <2>4 DEF AskedIsMapped, IInv, TypeOK
  <2> QED BY <2>3, <2>4 DEF AskedIsMapped
<1>2. ASSUME NEW e \in Events, Support(e) PROVE AskedIsMapped'
  <2>1. asked' = asked /\ topics' = topics /\ \A n : AskedTopics(n)' = AskedTopics(n)
    BY <1>2, AskedSame DEF Support
  <2>2. ASSUME NEW d \in Events, asked[d] # {}, TypeName[d] = EventName[d], stage'[d] = "skipped"
        PROVE  TakenAway(EventName[d])'
    <3>1. CASE stage[d] = "skipped"
      BY <1>0, <2>2, <3>1 DEF AskedIsMapped
    <3>2. CASE stage[d] # "skipped"
      <4>1. d = e /\ ~Supported(EventName[e])
        BY <1>2, <2>2, <3>2 DEF Support, Move, IInv, TypeOK
      <4>2. topics[EventName[d]] = NoTopic
        BY <4>1 DEF Supported, GetTopic
      <4>3. AskedTopics(EventName[d]) # {}
        BY <2>2, AskedOf
      <4> QED BY <1>0, <4>2, <4>3, NameIsAName DEF AskedIsMapped
    <3> QED BY <3>1, <3>2
  <2> QED BY <1>0, <2>1, <2>2 DEF AskedIsMapped
<1>3. ASSUME NEW n \in Names, UnsetTopic(n) PROVE AskedIsMapped'
  <2>1. /\ topics' = [topics EXCEPT ![n] = NoTopic]
        /\ asked' = asked /\ stage' = stage /\ n \in removed'
    BY <1>3 DEF UnsetTopic
  <2>2. \A k : AskedTopics(k)' = AskedTopics(k)
    BY <2>1, AskedSame
  <2> QED BY <1>0, <2>1, <2>2 DEF AskedIsMapped, TakenAway, IInv, TypeOK
<1>4. ASSUME NEW e \in Events,
             PublishEvent(e) \/ PublishMapped(e) \/ ConvertFails(e) \/ Send(e) \/ Convert(e)
      PROVE  AskedIsMapped'
  <2>1. /\ asked' = asked /\ topics' = topics
        /\ \A d \in Events : stage'[d] = "skipped" => stage[d] = "skipped"
    BY <1>4 DEF PublishEvent, PublishMapped, ConvertFails, Send, Convert, Move, IInv, TypeOK
  <2>2. \A k : AskedTopics(k)' = AskedTopics(k)
    BY <2>1, AskedSame
  <2> QED BY <1>0, <2>1, <2>2 DEF AskedIsMapped
<1>5. CASE UNCHANGED vars
  BY <1>5 DEF vars, AskedIsMapped, AskedTopics, TakenAway
<1> QED BY <1>1, <1>2, <1>3, <1>4, <1>5 DEF Next

LEMMA DisabledWasAskedInv == IInv /\ DisabledWasAsked /\ [Next]_vars => DisabledWasAsked'
<1> SUFFICES ASSUME IInv, DisabledWasAsked, [Next]_vars, NEW e \in Events,
                    stage'[e] \in {"supported", "converted", "sent", "failed"},
                    mapping'[EventName[e]].disable
             PROVE  ~(AskedTopics(EventName[e])' \subseteq {NoTopic})
  BY DEF DisabledWasAsked
<1>1. mapping' = mapping
  BY DEF Next, vars, PublishEvent, PublishMapped, Support, Convert, ConvertFails, Send,
         PublishToTopic, UnsetTopic
<1>2. CASE stage[e] \in {"supported", "converted", "sent", "failed"}
  BY <1>1, <1>2, AskedGrows DEF DisabledWasAsked
<1>3. CASE stage[e] \notin {"supported", "converted", "sent", "failed"}
  <2>1. Support(e)
    BY <1>3 DEF Next, vars, PublishEvent, PublishMapped, Support, Convert, ConvertFails, Send,
                PublishToTopic, UnsetTopic, Move, IInv, TypeOK
  <2>2. Supported(EventName[e])
    BY <1>3, <2>1 DEF Support, Move, IInv, TypeOK
  <2>3. topics[EventName[e]] # NoTopic
    BY <1>1, <2>2 DEF Supported, GetTopic
  <2> QED BY <2>3, AskedGrows, NameIsAName DEF IInv, MappedWasAsked
<1> QED BY <1>2, <1>3

THEOREM CallersAreRecorded == Spec => [](IInv /\ AskedIsMapped /\ DisabledWasAsked)
<1>1. Init => AskedIsMapped /\ DisabledWasAsked
  BY DEF Init, AskedIsMapped, DisabledWasAsked, AskedTopics
<1> QED BY <1>1, InitInv, NextInv, AskedIsMappedInv, DisabledWasAskedInv, PTL DEF Spec

(* An event that goes by the name of its type is not skipped, and goes to  *)
(* its caller's topic, if that is the only one ever given under the name.  *)
THEOREM SoleCallersAreServed == Spec => []SoleTopicIsServed
<1>1. IInv /\ AskedIsMapped => SoleTopicIsServed
  BY NoTopicAssumption DEF IInv, AskedIsMapped, TakenAway, TopicHasAReason, SoleTopicIsServed
<1> QED BY <1>1, CallersAreRecorded, PTL

(* A disabled event that nobody asked for is not sent. *)
THEOREM DisabledIsSilent == Spec => []DisabledUnlessAsked
<1>1. IInv /\ DisabledWasAsked => DisabledUnlessAsked
  BY DEF IInv, TypeOK, DisabledWasAsked, DisabledUnlessAsked
<1> QED BY <1>1, CallersAreRecorded, PTL
=============================================================================
