----------------------------- MODULE EventRelay -----------------------------
(***************************************************************************)
(* From PublishEvent and PublishToTopic (publisher.go) over the event bus  *)
(* to the topic of a Kafka message: the process-wide mapping from event    *)
(* name to topic (kafka/global/event_topic.go), EventMessageRelayer        *)
(* .Supports and .Handle (kafka/relayer/event_message_relayer.go) and      *)
(* DefaultEventConverter.Convert (kafka/relayer/default_event_converter    *)
(* .go).  The bus is external: it asks Supports at some time after the     *)
(* event was published and runs Handle at some time after that, for        *)
(* several events at once and in any order.                                *)
(***************************************************************************)
EXTENDS Integers, FiniteSets

CONSTANTS
    Events,     \* the events that are published
    Names,      \* names in lower case, the keys of both mappings
    EventName,  \* EventName[e]: what event.Name() says
    TypeName,   \* TypeName[e]: reflect.TypeOf(e).Name(), the same for all pointers
    Topics,     \* topic names
    NoTopic     \* the empty topic name

ASSUME NoTopicAssumption == NoTopic \notin Topics
ASSUME NamesAssumption ==
    EventName \in [Events -> Names] /\ TypeName \in [Events -> Names]

MaybeTopic == Topics \cup {NoTopic}

(* What app.kafka.producer.eventMappings may hold for a name.  Nothing, to *)
(* Convert, is the same as an entry without a topic name.                  *)
Mappings == [listed : {TRUE}, topic : MaybeTopic, disable : BOOLEAN]
            \cup {[listed |-> FALSE, topic |-> NoTopic, disable |-> FALSE]}

VARIABLES
    mapping,   \* mapping[n]: entry for n in the configuration, which is fixed
    topics,    \* topics[n]: eventTopicMapping.topics, NoTopic when it has no n
    stage,     \* stage[e]: what has become of e
    asked,     \* asked[e]: the topic given to PublishToTopic, as a set; {} if none
    message,   \* message[e]: topic of the message Convert has made of e
    removed    \* history: names UnsetTopic was called for

vars == <<mapping, topics, stage, asked, message, removed>>

Stages == {"new", "mapped", "published", "skipped", "supported",
           "converted", "unroutable", "invalid", "sent", "failed"}

(* Type invariant; there is a message, with a topic, from Convert on. *)
TypeOK ==
    /\ mapping \in [Names -> Mappings]
    /\ topics \in [Names -> MaybeTopic]
    /\ stage \in [Events -> Stages]
    /\ asked \in [Events -> SUBSET MaybeTopic]
    /\ message \in [Events -> MaybeTopic]
    /\ removed \subseteq Names
    /\ \A e \in Events :
          message[e] # NoTopic <=> stage[e] \in {"converted", "sent", "failed"}

Init ==
    /\ mapping \in [Names -> Mappings]
    /\ topics = [n \in Names |-> NoTopic]
    /\ stage = [e \in Events |-> "new"]
    /\ asked = [e \in Events |-> {}]
    /\ message = [e \in Events |-> NoTopic]
    /\ removed = {}

(* eventTopicMapping.GetTopic and SetTopic *)
GetTopic(n) == topics[n]
SetTopic(n, t) == topics' = [topics EXCEPT ![n] = t]

Move(e, from, to) == stage[e] = from /\ stage' = [stage EXCEPT ![e] = to]

-----------------------------------------------------------------------------
PublishEvent(e) ==
    /\ Move(e, "new", "published")
    /\ UNCHANGED <<mapping, topics, asked, message, removed>>

(* Faulty variant of PublishToTopic: the mapping is not set. *)
PublishToTopicUnmapped(e, t) ==
    /\ Move(e, "new", "mapped")
    /\ asked' = [asked EXCEPT ![e] = {t}]
    /\ UNCHANGED <<mapping, topics, message, removed>>

(* PublishToTopic first sets the topic, the empty one as well, under the   *)
(* name of the type of its argument, which need not be that of the event:  *)
(* an event may be named otherwise, and the type of a pointer has no name. *)
PublishToTopic(e, t) ==
    /\ Move(e, "new", "mapped")
    /\ asked' = [asked EXCEPT ![e] = {t}]
    /\ SetTopic(TypeName[e], t)
    /\ UNCHANGED <<mapping, message, removed>>

(* ... and then publishes the event. *)
PublishMapped(e) ==
    /\ Move(e, "mapped", "published")
    /\ UNCHANGED <<mapping, topics, asked, message, removed>>

UnsetTopic(n) ==
    /\ topics[n] # NoTopic
    /\ topics' = [topics EXCEPT ![n] = NoTopic]
    /\ removed' = removed \cup {n}
    /\ UNCHANGED <<mapping, stage, asked, message>>

-----------------------------------------------------------------------------
(* Faulty variants of Supported: Disable is not looked at; an entry without *)
(* a topic name is taken for one with a topic.                              *)
SupportedDisabled(n) ==
    \/ GetTopic(n) # NoTopic
    \/ mapping[n].listed /\ mapping[n].topic # NoTopic
SupportedNameless(n) ==
    \/ GetTopic(n) # NoTopic
    \/ mapping[n].listed /\ ~mapping[n].disable

(* EventMessageRelayer.Supports *)
Supported(n) ==
    \/ GetTopic(n) # NoTopic
    \/ mapping[n].listed /\ ~mapping[n].disable /\ mapping[n].topic # NoTopic

Support(e) ==
    /\ Move(e, "published", IF Supported(EventName[e]) THEN "supported" ELSE "skipped")
    /\ UNCHANGED <<mapping, topics, asked, message, removed>>

(* Faulty variant of TopicOf: the mapping set at run time goes first. *)
TopicOfCaller(n) == IF GetTopic(n) # NoTopic THEN GetTopic(n) ELSE mapping[n].topic

(* The topic Convert decides for. *)
TopicOf(n) == IF mapping[n].topic # NoTopic THEN mapping[n].topic ELSE GetTopic(n)

(* Faulty variant of Convert: the empty topic name is not an error. *)
ConvertAnyway(e) ==
    /\ Move(e, "supported", "converted")
    /\ message' = [message EXCEPT ![e] = TopicOf(EventName[e])]
    /\ UNCHANGED <<mapping, topics, asked, removed>>

(* Handle asks the converter, which looks at both mappings once more; an   *)
(* error is logged and the event dropped.                                  *)
Convert(e) ==
    LET topic == TopicOf(EventName[e]) IN
    /\ Move(e, "supported", IF topic = NoTopic THEN "unroutable" ELSE "converted")
    /\ message' = [message EXCEPT ![e] = topic]
    /\ UNCHANGED <<mapping, topics, asked, removed>>

(* The event cannot be marshalled: dropped as well. *)
ConvertFails(e) ==
    /\ Move(e, "supported", "invalid")
    /\ UNCHANGED <<mapping, topics, asked, message, removed>>

(* Handle sends the message; an error is logged and the message dropped.   *)
Send(e) ==
    /\ Move(e, "converted", "sent") \/ Move(e, "converted", "failed")
    /\ UNCHANGED <<mapping, topics, asked, message, removed>>

Next ==
    \/ \E e \in Events :
          \/ PublishEvent(e) \/ PublishMapped(e)
          \/ Support(e) \/ Convert(e) \/ ConvertFails(e) \/ Send(e)
    \/ \E e \in Events, t \in MaybeTopic : PublishToTopic(e, t)
    \/ \E n \in Names : UnsetTopic(n)

Spec == Init /\ [][Next]_vars

-----------------------------------------------------------------------------
(* Properties *)

(* Topics that were given to PublishToTopic under the name n. *)
AskedTopics(n) == UNION {asked[e] : e \in {d \in Events : TypeName[d] = n}}

(* HAZARD the mapping is process-wide and read again after the event was   *)
(* published: still, a message never goes to a topic that neither the      *)
(* configuration nor a caller has named for that event, and never to a     *)
(* caller's when the configuration names one.                              *)
TopicHasAReason ==
    \A e \in Events : message[e] # NoTopic =>
       IF mapping[EventName[e]].topic # NoTopic
       THEN message[e] = mapping[EventName[e]].topic
       ELSE message[e] \in AskedTopics(EventName[e])

(* HAZARD Supports and Convert each look the topic up, with different      *)
(* rules and at different times: what Supports accepts Convert can route,  *)
(* unless the topic was taken away in between, by UnsetTopic or by a       *)
(* PublishToTopic of some event with the empty topic.                      *)
SupportedIsRoutable ==
    \A e \in Events : stage[e] = "unroutable" =>
       EventName[e] \in removed \/ NoTopic \in AskedTopics(EventName[e])

(* What a caller of PublishToTopic can rely on: if its event goes by the   *)
(* name of its type, every caller who uses that name gives the same topic, *)
(* not the empty one, the configuration gives none and nobody unsets it,   *)
(* then the event is not dropped and gets to that topic.                   *)
SoleTopicIsServed ==
    \A e \in Events, t \in Topics :
       /\ asked[e] = {t}
       /\ TypeName[e] = EventName[e]
       /\ AskedTopics(EventName[e]) = {t}
       /\ mapping[EventName[e]].topic = NoTopic
       /\ EventName[e] \notin removed
       => stage[e] # "skipped" /\ message[e] \in {NoTopic, t}

(* Unless PublishToTopic was given a topic under the name of the event,    *)
(* the configuration alone decides: a disabled event is not sent.          *)
DisabledUnlessAsked ==
    \A e \in Events :
       mapping[EventName[e]].disable /\ AskedTopics(EventName[e]) \subseteq {NoTopic}
       => message[e] = NoTopic

(* PublishToTopic(ctx, "orders", e): if a message comes of e, and the      *)
(* configuration names no other, it is one on the topic its caller named.  *)
PublishedWhereAsked ==
    \A e \in Events, t \in Topics :
       asked[e] = {t} /\ mapping[EventName[e]].topic = NoTopic /\ stage[e] = "sent"
       => message[e] = t
=============================================================================
