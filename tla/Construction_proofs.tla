-------------------------- MODULE Construction_proofs --------------------------
(***************************************************************************)
(* Proofs about Construction, for any names, subscribers, handlers and     *)
(* configurations.                                                         *)
(***************************************************************************)
EXTENDS Construction, TLAPS

(* Before the loop there is nothing to be found. *)
IdleState ==
    pc = "idle" => /\ snapshot = Nothing /\ consumers = Nothing
                   /\ todo = {} /\ opened \subseteq {Producer}

(* Each handler of the registry registered for its topic, and those of the *)
(* snapshot have made way for later ones only.                             *)
RegistryState ==
    /\ \A t \in DOMAIN mapping : topicOf[mapping[t].handler] = t
    /\ \A t \in DOMAIN snapshot : snapshot[t].options.enable
    /\ pc # "idle" => \A t \in DOMAIN snapshot :
          /\ t \in DOMAIN mapping
          /\ mapping[t].handler = snapshot[t].handler \/ mapping[t].handler \in late

(* A consumer was made from a key behind the loop. *)
MadeFrom(k) ==
    LET c == consumers[k]
    IN /\ c.from \in DOMAIN HandlerMappings \ todo
       /\ HandlerMappings[c.from].enable
       /\ Norm(c.from) = k
       /\ c.topics = TopicsOf(HandlerMappings[c.from])
       /\ c.from \in opened
       /\ k \in DOMAIN handlerMap => c.handler = handlerMap[k]
       /\ k \notin DOMAIN handlerMap =>
             /\ c.handler \in Subscribers /\ topicOf[c.handler] = k
             /\ k \in DOMAIN snapshot => c.handler = snapshot[k].handler \/ c.handler \in late
ConsumerState == \A k \in DOMAIN consumers : MadeFrom(k)

(* Keys behind the loop have the consumers they should have, and clients   *)
(* are open for such keys only.                                            *)
LoopState ==
    /\ pc # "idle" => todo \subseteq DOMAIN HandlerMappings
    /\ pc = "init" => \A n \in DOMAIN HandlerMappings \ todo :
          /\ HandlerMappings[n].enable /\ Norm(n) \in DOMAIN handlerMap \cup DOMAIN snapshot =>
                Norm(n) \in DOMAIN consumers
    /\ pc = "init" => \A n \in opened \ {Producer} :
          /\ n \in DOMAIN HandlerMappings /\ HandlerMappings[n].enable
          /\ Norm(n) \in DOMAIN consumers

(* Nobody has registered since the snapshot: every key behind the loop,    *)
(* and every consumer, is what it would be if it were made now.            *)
MadeAsNow ==
    pc = "init" /\ late = {} =>
       /\ \A k \in DOMAIN consumers : HasHandler(k) /\ consumers[k].handler = HandlerOf(k)
       /\ \A n \in DOMAIN HandlerMappings \ todo :
             HandlerMappings[n].enable /\ HasHandler(Norm(n)) => Norm(n) \in DOMAIN consumers

IInv == /\ TypeOK /\ IdleState /\ RegistryState /\ ConsumerState /\ LoopState
        /\ ClientsGetTheirModes

-----------------------------------------------------------------------------
LEMMA NormType == \A n \in Names : Norm(n) \in Names /\ Norm(Norm(n)) = Norm(n)
  BY NamesAssumption DEF Norm

LEMMA MappingsType ==
    ASSUME TypeOK
    PROVE  /\ DOMAIN HandlerMappings = DOMAIN configured \cup DOMAIN snapshot
           /\ DOMAIN HandlerMappings \subseteq Names
           /\ \A n \in DOMAIN HandlerMappings :
                 /\ HandlerMappings[n] \in Options
                 /\ TopicsOf(HandlerMappings[n]) \subseteq Names
<1>1. DOMAIN configured \subseteq Names /\ configured \in [DOMAIN configured -> Options]
  BY InputsAssumption DEF TypeOK
<1>2. \A n \in DOMAIN HandlerMappings : HandlerMappings[n] \in Options
  BY <1>1 DEF TypeOK, HandlerMappings, Registrations
<1>3. \A options \in Options : TopicsOf(options) \subseteq Names
  BY NamesAssumption DEF TopicsOf, Options
<1> QED BY <1>1, <1>2, <1>3 DEF TypeOK, HandlerMappings

(* The shared sarama.Config only gains what a constructor writes. *)
Gains(new) ==
    /\ new \in Settings
    /\ config.tls => new.tls
    /\ config.returns => new.returns
    /\ new.autoCommit \in {config.autoCommit, autoCommit}

LEMMA ConfigGains ==
    ASSUME TypeOK
    PROVE  /\ \A section : Gains(CreateCommonSaramaConfig(section))
           /\ Gains(ProducerConfig) /\ Gains(ConsumerConfig) /\ Gains(config)
<1>1. config \in Settings /\ autoCommit \in BOOLEAN
  BY DEF TypeOK
<1>2. ASSUME NEW section PROVE Gains(CreateCommonSaramaConfig(section))
  BY <1>1 DEF Gains, CreateCommonSaramaConfig, Settings
<1>3. Gains(ProducerConfig)
  BY <1>1 DEF Gains, ProducerConfig, CreateCommonSaramaConfig, Settings
<1>4. Gains(ConsumerConfig)
  BY <1>1 DEF Gains, ConsumerConfig, CreateCommonSaramaConfig, Settings
<1> QED BY <1>1, <1>2, <1>3, <1>4 DEF Gains

LEMMA WritesKeepModes ==
    ASSUME TypeOK, ClientsGetTheirModes, UNCHANGED <<given, autoCommit>>,
           \/ opened' = opened /\ config' = config
           \/ /\ config' \in {CreateCommonSaramaConfig(PostBinding(given.producer)), ProducerConfig}
              /\ opened' = opened
           \/ /\ config' \in {CreateCommonSaramaConfig(PostBinding(given.consumer)), ConsumerConfig}
              /\ opened' = opened
           \/ config' = ProducerConfig /\ opened' = opened \cup {Producer}
           \/ config' = ConsumerConfig /\ \E n \in Names : opened' = opened \cup {n}
    PROVE  ClientsGetTheirModes' /\ config' \in Settings
<1>1. /\ config' \in Settings
      /\ config.tls => config'.tls
      /\ config.returns => config'.returns
      /\ config'.autoCommit \in {config.autoCommit, autoCommit}
  <2>1. Gains(config')
    BY ConfigGains
  <2> QED BY <2>1 DEF Gains
<1>2. \A section \in Sections :
         AsksForTls(section) <=> PostBinding(section).protocol = "TLS"
  BY DEF AsksForTls, PostBinding, Sections, TypeOK
<1>3. config' = ProducerConfig =>
         config'.returns /\ (AsksForTls(given.producer) => config'.tls)
  BY <1>2 DEF TypeOK, ProducerConfig, CreateCommonSaramaConfig, Settings
<1>4. config' = ConsumerConfig =>
         config'.autoCommit = autoCommit /\ (AsksForTls(given.consumer) => config'.tls)
  BY <1>2 DEF TypeOK, ConsumerConfig, CreateCommonSaramaConfig, Settings
<1>5. \A section : AsksForTls(section)' = AsksForTls(section)
  BY DEF AsksForTls
<1>6. Producer \in opened' =>
         config'.returns /\ (AsksForTls(given.producer) => config'.tls)
  <2> SUFFICES ASSUME Producer \in opened' PROVE config'.returns /\ (AsksForTls(given.producer) => config'.tls)
    OBVIOUS
  <2>1. Producer \in opened \/ config' = ProducerConfig
    BY NamesAssumption
  <2> QED BY <1>1, <1>3, <2>1 DEF ClientsGetTheirModes
<1>7. opened' \ {Producer} # {} =>
         config'.autoCommit = autoCommit /\ (AsksForTls(given.consumer) => config'.tls)
  <2> SUFFICES ASSUME opened' \ {Producer} # {}
               PROVE  config'.autoCommit = autoCommit /\ (AsksForTls(given.consumer) => config'.tls)
    OBVIOUS
  <2>1. opened \ {Producer} # {} \/ config' = ConsumerConfig
    OBVIOUS
  <2> QED BY <1>1, <1>4, <2>1 DEF ClientsGetTheirModes
<1> QED BY <1>1, <1>5, <1>6, <1>7 DEF ClientsGetTheirModes

LEMMA InitInv == Init => IInv
<1> SUFFICES ASSUME Init PROVE IInv
  OBVIOUS
<1>1. DOMAIN Nothing = {}
  BY DEF Nothing
<1>2. Nothing \in [{} -> Registrations] /\ Nothing \in [{} -> Handlers] /\ Nothing \in [{} -> Consumers]
  BY DEF Nothing
<1>3. TypeOK
  BY <1>1, <1>2, InputsAssumption DEF Init, TypeOK
<1>4. IdleState /\ RegistryState /\ ConsumerState /\ LoopState /\ ClientsGetTheirModes
  BY <1>1 DEF Init, IdleState, RegistryState, ConsumerState, LoopState, ClientsGetTheirModes
<1> QED BY <1>3, <1>4 DEF IInv

-----------------------------------------------------------------------------
LEMMA StoreInv ==
    ASSUME IInv, NEW s \in Subscribers, NEW topic \in Names, NEW options \in Options,
           Store(s, topic, options)
    PROVE  IInv'
<1> DEFINE entry == [handler |-> s, options |-> options]
<1>1. /\ topicOf[s] = NoName
      /\ DOMAIN mapping' = DOMAIN mapping \cup {topic}
      /\ mapping'[topic] = entry
      /\ \A t \in DOMAIN mapping \ {topic} : mapping'[t] = mapping[t]
      /\ mapping' \in [DOMAIN mapping' -> Registrations]
      /\ topicOf' = [topicOf EXCEPT ![s] = topic]
      /\ late \subseteq late' /\ late' \subseteq late \cup {s}
      /\ pc # "idle" => s \in late'
      /\ UNCHANGED <<given, autoCommit, configured, config, snapshot, handlerMap, todo,
                     consumers, pc, opened>>
  BY DEF IInv, TypeOK, Store, inputs, loop, Registrations
<1>2. HandlerMappings' = HandlerMappings /\ \A options2 : TopicsOf(options2)' = TopicsOf(options2)
  BY <1>1 DEF HandlerMappings, TopicsOf
<1>3. TypeOK'
  BY <1>1 DEF IInv, TypeOK
<1>4. \A r \in Subscribers : r # s => topicOf'[r] = topicOf[r]
  BY <1>1 DEF IInv, TypeOK
<1>5. NoName \notin Names
  BY NamesAssumption
<1>6. \A t \in DOMAIN mapping : t \in Names /\ mapping[t].handler \in Subscribers /\ mapping[t].handler # s
  BY <1>1, <1>5 DEF IInv, TypeOK, RegistryState, Registrations
<1>7. IdleState'
  BY <1>1 DEF IInv, IdleState
<1>8. RegistryState'
  <2>1. \A t \in DOMAIN mapping' : topicOf'[mapping'[t].handler] = t
    BY <1>1, <1>4, <1>6 DEF IInv, TypeOK, RegistryState
  <2> QED BY <1>1, <2>1 DEF IInv, RegistryState
<1>9. ConsumerState'
  <2> SUFFICES ASSUME NEW k \in DOMAIN consumers PROVE MadeFrom(k)'
    BY <1>1 DEF ConsumerState
  <2>1. MadeFrom(k) /\ k \in Names
    BY NormType DEF IInv, TypeOK, ConsumerState
  <2>2. k \notin DOMAIN handlerMap => consumers[k].handler # s
    BY <1>1, <1>5, <2>1 DEF MadeFrom
  <2> QED BY <1>1, <1>2, <1>4, <2>1, <2>2 DEF MadeFrom
<1>10. LoopState'
  BY <1>1, <1>2 DEF IInv, LoopState
<1>11. ClientsGetTheirModes'
  BY <1>1 DEF IInv, ClientsGetTheirModes, AsksForTls
<1> QED BY <1>3, <1>7, <1>8, <1>9, <1>10, <1>11 DEF IInv

LEMMA NewSaramaConsumersInv == ASSUME IInv, NewSaramaConsumers PROVE IInv'
<1>1. /\ pc = "idle" /\ pc' = "init"
      /\ snapshot' = GetTopicConsumerMap /\ handlerMap' \in HandlerMaps
      /\ todo' = DOMAIN configured \cup DOMAIN snapshot'
      /\ consumers = Nothing /\ opened \subseteq {Producer}
      /\ UNCHANGED <<given, autoCommit, configured, config, mapping, topicOf, late,
                     consumers, opened>>
  BY DEF IInv, IdleState, NewSaramaConsumers, inputs, registry
<1>2. DOMAIN consumers' = {}
  BY <1>1 DEF Nothing
<1>3. /\ DOMAIN snapshot' \subseteq DOMAIN mapping
      /\ \A t \in DOMAIN snapshot' : snapshot'[t] = mapping[t]
      /\ snapshot' \in [DOMAIN snapshot' -> Registrations]
  BY <1>1 DEF IInv, TypeOK, GetTopicConsumerMap
<1>4. handlerMap' \in [DOMAIN handlerMap' -> Handlers]
  BY <1>1 DEF HandlerMaps
<1>5. DOMAIN configured \subseteq Names
  BY InputsAssumption DEF IInv, TypeOK
<1>6. TypeOK'
  BY <1>1, <1>3, <1>4, <1>5 DEF IInv, TypeOK
<1>7. IdleState' /\ RegistryState' /\ ConsumerState'
  <2>1. \A t \in DOMAIN snapshot' : snapshot'[t].options.enable
    BY <1>1 DEF GetTopicConsumerMap
  <2> QED BY <1>1, <1>2, <1>3, <2>1 DEF IInv, IdleState, RegistryState, ConsumerState
<1>8. DOMAIN HandlerMappings' = todo'
  BY <1>1 DEF HandlerMappings
<1>9. LoopState'
  BY <1>1, <1>8 DEF LoopState
<1>10. ClientsGetTheirModes'
  BY <1>1 DEF IInv, ClientsGetTheirModes, AsksForTls
<1> QED BY <1>6, <1>7, <1>9, <1>10 DEF IInv

-----------------------------------------------------------------------------
(* What no step of the loop disturbs. *)
LEMMA ReachInv ==
    ASSUME IInv, NEW key \in Names, Reach(key)
    PROVE  /\ pc = "init" /\ key \in todo /\ todo' = todo \ {key}
           /\ UNCHANGED <<given, autoCommit, configured, mapping, topicOf, late,
                          snapshot, handlerMap>>
           /\ HandlerMappings' = HandlerMappings
           /\ \A options : TopicsOf(options)' = TopicsOf(options)
           /\ pc' # "idle" => IdleState' /\ RegistryState'
           /\ todo' \subseteq DOMAIN HandlerMappings
           /\ key \in DOMAIN HandlerMappings
<1>1. /\ pc = "init" /\ key \in todo /\ todo' = todo \ {key}
      /\ UNCHANGED <<given, autoCommit, configured, mapping, topicOf, late,
                     snapshot, handlerMap>>
  BY DEF Reach, inputs, registry
<1>2. HandlerMappings' = HandlerMappings
  BY <1>1 DEF HandlerMappings
<1> QED BY <1>1, <1>2 DEF IInv, TopicsOf, IdleState, RegistryState, LoopState

(* Consumers that a step keeps stay what they were made. *)
LEMMA KeptConsumers ==
    ASSUME IInv, NEW key \in Names, Reach(key), opened \subseteq opened',
           NEW k \in DOMAIN consumers, consumers'[k] = consumers[k]
    PROVE  MadeFrom(k)'
<1>1. MadeFrom(k)
  BY DEF IInv, ConsumerState
<1> QED BY <1>1, ReachInv DEF MadeFrom

LEMMA SkipInv ==
    ASSUME IInv, NEW key \in Names, SkipDisabled(key) \/ SkipUnknown(key) PROVE IInv'
<1>1. Reach(key) /\ UNCHANGED <<config, pc, consumers, opened>>
  BY DEF SkipDisabled, SkipUnknown
<1>2. ~HandlerMappings[key].enable \/ ~HasHandler(Norm(key))
  BY DEF SkipDisabled, SkipUnknown
<1>3. TypeOK'
  BY <1>1, ReachInv DEF IInv, TypeOK
<1>4. IdleState' /\ RegistryState'
  BY <1>1, ReachInv
<1>5. ConsumerState'
  BY <1>1, KeptConsumers DEF ConsumerState
<1>6. LoopState'
  <2>1. DOMAIN snapshot \subseteq DOMAIN mapping
    BY <1>1, ReachInv DEF IInv, RegistryState
  <2> QED BY <1>1, <1>2, <2>1, ReachInv DEF IInv, LoopState, HasHandler
<1>7. ClientsGetTheirModes'
  BY <1>1, ReachInv DEF IInv, ClientsGetTheirModes, AsksForTls
<1> QED BY <1>3, <1>4, <1>5, <1>6, <1>7 DEF IInv

LEMMA MakeInv == ASSUME IInv, NEW key \in Names, Make(key) PROVE IInv'
<1> DEFINE k == Norm(key)
<1>1. /\ Reach(key) /\ pc' = pc
      /\ HandlerMappings[key].enable /\ k \in DOMAIN handlerMap \cup DOMAIN mapping
      /\ config' = ConsumerConfig
      /\ opened' = opened \cup {key}
      /\ DOMAIN consumers' = DOMAIN consumers \cup {k}
      /\ consumers'[k] = ConsumerFrom(key)
      /\ \A j \in DOMAIN consumers \ {k} : consumers'[j] = consumers[j]
      /\ consumers' = [j \in DOMAIN consumers' |-> consumers'[j]]
  BY DEF Make, HasHandler
<1>2. /\ pc = "init" /\ key \in todo /\ todo' = todo \ {key}
      /\ UNCHANGED <<given, autoCommit, configured, mapping, topicOf, late,
                     snapshot, handlerMap>>
      /\ HandlerMappings' = HandlerMappings /\ key \in DOMAIN HandlerMappings
      /\ \A options : TopicsOf(options)' = TopicsOf(options)
  BY <1>1, ReachInv
<1>3. IdleState' /\ RegistryState'
  BY <1>1, <1>2, ReachInv
<1>4. ClientsGetTheirModes' /\ config' \in Settings
  BY <1>1, <1>2, WritesKeepModes DEF IInv
<1>5. /\ HandlerOf(k) \in Handlers \cup Subscribers
      /\ k \in DOMAIN handlerMap => HandlerOf(k) = handlerMap[k]
      /\ k \notin DOMAIN handlerMap =>
            k \in DOMAIN mapping /\ HandlerOf(k) = mapping[k].handler /\ mapping[k].handler \in Subscribers
  BY <1>1 DEF HandlerOf, IInv, TypeOK, Registrations
<1>6. ConsumerFrom(key) \in Consumers
  <2>1. TopicsOf(HandlerMappings[key]) \subseteq Names
    BY <1>2, MappingsType DEF IInv
  <2> QED BY <1>5, <2>1 DEF ConsumerFrom, Consumers
<1>7. TypeOK'
  <2>1. consumers' \in [DOMAIN consumers' -> Consumers]
    BY <1>1, <1>6 DEF IInv, TypeOK
  <2>2. DOMAIN consumers' \subseteq {Norm(n) : n \in Names}
    BY <1>1 DEF IInv, TypeOK
  <2> QED BY <1>1, <1>2, <1>4, <2>1, <2>2 DEF IInv, TypeOK
<1>8. ConsumerState'
  <2>1. MadeFrom(k)'
    <3>1. /\ consumers'[k].from = key /\ consumers'[k].handler = HandlerOf(k)
          /\ consumers'[k].topics = TopicsOf(HandlerMappings[key])
      BY <1>1 DEF ConsumerFrom
    <3>2. k \notin DOMAIN handlerMap =>
             /\ HandlerOf(k) \in Subscribers /\ topicOf[HandlerOf(k)] = k
             /\ k \in DOMAIN snapshot => HandlerOf(k) = snapshot[k].handler \/ HandlerOf(k) \in late
      BY <1>2, <1>5 DEF IInv, RegistryState
    <3> QED BY <1>1, <1>2, <1>5, <3>1, <3>2 DEF MadeFrom
  <2>2. ASSUME NEW j \in DOMAIN consumers, j # k PROVE MadeFrom(j)'
    BY <1>1, <2>2, KeptConsumers
  <2> QED BY <1>1, <2>1, <2>2 DEF ConsumerState
<1>9. LoopState'
  BY <1>1, <1>2, ReachInv DEF IInv, LoopState
<1> QED BY <1>3, <1>4, <1>7, <1>8, <1>9 DEF IInv

LEMMA MakeFailsInv == ASSUME IInv, NEW key \in Names, MakeFails(key) PROVE IInv'
<1>1. /\ Reach(key) /\ pc' = "failed" /\ consumers' = consumers
      /\ \/ opened' = opened /\ config' = config
         \/ /\ config' \in {CreateCommonSaramaConfig(PostBinding(given.consumer)), ConsumerConfig}
            /\ opened' = opened
         \/ config' = ConsumerConfig /\ opened' = opened \cup {key}
  BY DEF MakeFails, WrittenBy
<1>2. ClientsGetTheirModes' /\ config' \in Settings
  BY <1>1, ReachInv, WritesKeepModes DEF IInv
<1>3. TypeOK'
  BY <1>1, <1>2, ReachInv DEF IInv, TypeOK
<1>4. ConsumerState'
  BY <1>1, KeptConsumers DEF ConsumerState
<1>5. LoopState'
  BY <1>1, ReachInv DEF LoopState
<1> QED BY <1>1, <1>2, <1>3, <1>4, <1>5, ReachInv DEF IInv

LEMMA ProducerInv ==
    ASSUME IInv, NewSaramaProducerClient \/ NewSaramaProducerClientFails PROVE IInv'
<1>1. /\ UNCHANGED <<given, autoCommit, configured, mapping, topicOf, late,
                     snapshot, handlerMap, todo, consumers>>
      /\ pc' = pc \/ pc' = "failed"
      /\ opened' = opened \/ opened' = opened \cup {Producer}
      /\ \/ opened' = opened /\ config' = config
         \/ /\ config' \in {CreateCommonSaramaConfig(PostBinding(given.producer)), ProducerConfig}
            /\ opened' = opened
         \/ config' = ProducerConfig /\ opened' = opened \cup {Producer}
  BY DEF NewSaramaProducerClient, NewSaramaProducerClientFails, WrittenBy, inputs, registry, loop
<1>2. ClientsGetTheirModes' /\ config' \in Settings
  BY <1>1, WritesKeepModes DEF IInv
<1>3. HandlerMappings' = HandlerMappings /\ \A options : TopicsOf(options)' = TopicsOf(options)
  BY <1>1 DEF HandlerMappings, TopicsOf
<1>4. TypeOK'
  BY <1>1, <1>2 DEF IInv, TypeOK
<1>5. IdleState'
  BY <1>1 DEF IInv, IdleState
<1>6. RegistryState'
  <2>1. pc = "idle" => DOMAIN snapshot = {}
    BY DEF IInv, IdleState, Nothing
  <2> QED BY <1>1, <2>1 DEF IInv, RegistryState
<1>7. ConsumerState'
  BY <1>1, <1>3 DEF IInv, ConsumerState, MadeFrom
<1>8. LoopState'
  <2>1. pc = "idle" => todo = {}
    BY DEF IInv, IdleState
  <2> QED BY <1>1, <1>3, <2>1 DEF IInv, LoopState
<1> QED BY <1>2, <1>4, <1>5, <1>6, <1>7, <1>8 DEF IInv

LEMMA NextInv == IInv /\ [Next]_vars => IInv'
<1> SUFFICES ASSUME IInv, [Next]_vars PROVE IInv'
  OBVIOUS
<1>1. CASE UNCHANGED vars
  <2> USE <1>1 DEF vars, inputs, registry, loop
  <2>1. HandlerMappings' = HandlerMappings /\ \A options : TopicsOf(options)' = TopicsOf(options)
    BY DEF HandlerMappings, TopicsOf
  <2>2. TypeOK' /\ IdleState' /\ RegistryState'
    BY DEF IInv, TypeOK, IdleState, RegistryState
  <2>3. ConsumerState' /\ LoopState'
    BY <2>1 DEF IInv, ConsumerState, MadeFrom, LoopState
  <2>4. ClientsGetTheirModes'
    BY DEF IInv, ClientsGetTheirModes, AsksForTls
  <2> QED BY <2>2, <2>3, <2>4 DEF IInv
<1>2. CASE \E s \in Subscribers, topic \in Names :
             Register(s, topic) \/ \E options \in Requests : RegisterWithOption(s, topic, options)
  <2>1. PICK s \in Subscribers, topic \in Names, options \in Options : Store(s, topic, options)
    BY <1>2, InputsAssumption DEF Register, RegisterWithOption, Options
  <2> QED BY <2>1, StoreInv
<1>3. CASE \E key \in Names : Iterate(key)
  BY <1>3, SkipInv, MakeInv, MakeFailsInv DEF Iterate
<1> QED BY <1>1, <1>2, <1>3, NewSaramaConsumersInv, ProducerInv DEF Next

THEOREM Invariance == Spec => []IInv
  BY InitInv, NextInv, PTL DEF Spec

-----------------------------------------------------------------------------
(* The registry, the loop and the configuration keep their types. *)
THEOREM TypeCorrect == Spec => []TypeOK
  BY Invariance, PTL DEF IInv

(* A subscriber of a topic in normal form that nobody else claims has its  *)
(* consumer, whoever registers meanwhile.                                  *)
THEOREM SubscribersAreServed == Spec => []SubscriberIsServed
<1>1. IInv => SubscriberIsServed
  <2> SUFFICES ASSUME IInv, Done,
                      NEW t \in DOMAIN snapshot \ (DOMAIN configured \cup DOMAIN handlerMap),
                      Norm(t) = t, Sole(t)
               PROVE  /\ t \in DOMAIN consumers
                      /\ consumers[t].topics = TopicsOf(snapshot[t].options)
                      /\ \/ consumers[t].handler = snapshot[t].handler
                         \/ consumers[t].handler \in late /\ topicOf[consumers[t].handler] = t
    BY DEF SubscriberIsServed
  <2>1. /\ t \in DOMAIN HandlerMappings /\ HandlerMappings[t] = snapshot[t].options
        /\ HandlerMappings[t].enable
    BY DEF HandlerMappings, IInv, RegistryState
  <2>2. t \in DOMAIN consumers
    BY <2>1 DEF IInv, LoopState, Done
  <2>3. MadeFrom(t)
    BY <2>2 DEF IInv, ConsumerState
  <2>4. consumers[t].from = t
    BY <2>3 DEF MadeFrom, Sole
  <2> QED BY <2>1, <2>2, <2>3, <2>4 DEF MadeFrom
<1> QED BY <1>1, Invariance, PTL

(* A configured key that nobody else claims decides alone, and an fx       *)
(* handler that is enabled has its consumer.                               *)
THEOREM ConfigurationIsObeyed == Spec => []ConfigurationDecides
<1>1. IInv => ConfigurationDecides
  <2> SUFFICES ASSUME IInv, NEW n \in DOMAIN configured, pc # "idle", Sole(n)
               PROVE  /\ Norm(n) \in DOMAIN consumers =>
                            /\ configured[n].enable
                            /\ consumers[Norm(n)].topics = TopicsOf(configured[n])
                      /\ Done /\ configured[n].enable /\ Norm(n) \in DOMAIN handlerMap =>
                            /\ Norm(n) \in DOMAIN consumers
                            /\ consumers[Norm(n)].handler = handlerMap[Norm(n)]
    BY DEF ConfigurationDecides
  <2>1. n \in DOMAIN HandlerMappings /\ HandlerMappings[n] = configured[n]
    BY DEF HandlerMappings
  <2>2. ASSUME Norm(n) \in DOMAIN consumers
        PROVE  MadeFrom(Norm(n)) /\ consumers[Norm(n)].from = n
    <3>1. MadeFrom(Norm(n))
      BY <2>2 DEF IInv, ConsumerState
    <3> QED BY <3>1 DEF MadeFrom, Sole
  <2>3. Done /\ configured[n].enable /\ Norm(n) \in DOMAIN handlerMap =>
           Norm(n) \in DOMAIN consumers
    BY <2>1 DEF IInv, LoopState, Done
  <2> QED BY <2>1, <2>2, <2>3 DEF MadeFrom
<1> QED BY <1>1, Invariance, PTL

(* Unless keys collide or the construction fails, no client is without a   *)
(* consumer that closes it.                                                *)
THEOREM NoClientLeaks == Spec => []ClientsAreOwned
<1>1. IInv => ClientsAreOwned
  <2> SUFFICES ASSUME IInv, pc # "failed",
                      \A n \in DOMAIN HandlerMappings : HandlerMappings[n].enable => Sole(n)
               PROVE  opened \ {Producer} = {consumers[k].from : k \in DOMAIN consumers}
    BY DEF ClientsAreOwned
  <2>1. CASE pc = "idle"
    BY <2>1 DEF IInv, IdleState, Nothing
  <2>2. CASE pc = "init"
    <3>1. \A k \in DOMAIN consumers : consumers[k].from \in opened \ {Producer}
      BY NamesAssumption, MappingsType DEF IInv, ConsumerState, MadeFrom
    <3>2. ASSUME NEW n \in opened \ {Producer}
          PROVE  Norm(n) \in DOMAIN consumers /\ consumers[Norm(n)].from = n
      <4>1. /\ n \in DOMAIN HandlerMappings /\ HandlerMappings[n].enable
            /\ Norm(n) \in DOMAIN consumers
        BY <2>2 DEF IInv, LoopState
      <4>2. MadeFrom(Norm(n))
        BY <4>1 DEF IInv, ConsumerState
      <4> QED BY <4>1, <4>2 DEF MadeFrom, Sole
    <3> QED BY <3>1, <3>2
  <2> QED BY <2>1, <2>2 DEF IInv, TypeOK
<1> QED BY <1>1, Invariance, PTL

(* MadeAsNow is inductive relative to IInv. *)
LEMMA MadeAsNowInit == Init => MadeAsNow
  BY DEF Init, MadeAsNow

LEMMA MadeAsNowNext == IInv /\ MadeAsNow /\ [Next]_vars => MadeAsNow'
<1> SUFFICES ASSUME IInv, MadeAsNow, [Next]_vars, pc' = "init", late' = {}
             PROVE  /\ \A k \in DOMAIN consumers' :
                          HasHandler(k)' /\ consumers'[k].handler = HandlerOf(k)'
                    /\ \A n \in DOMAIN HandlerMappings' \ todo' :
                          HandlerMappings'[n].enable /\ HasHandler(Norm(n))'
                             => Norm(n) \in DOMAIN consumers'
  BY DEF MadeAsNow
<1> DEFINE Same == /\ pc = "init" /\ late = {} /\ HandlerMappings' = HandlerMappings
                   /\ \A k : HasHandler(k)' = HasHandler(k) /\ HandlerOf(k)' = HandlerOf(k)
<1>1. ASSUME pc = "init", UNCHANGED <<configured, snapshot, handlerMap, mapping, late>> PROVE Same
  BY <1>1 DEF HandlerMappings, HasHandler, HandlerOf
<1>2. CASE UNCHANGED <<configured, snapshot, handlerMap, mapping, late, todo, consumers, pc>>
  <2>1. Same
    BY <1>1, <1>2
  <2> QED BY <1>2, <2>1 DEF MadeAsNow
<1>3. CASE NewSaramaConsumers
  <2>1. DOMAIN consumers' = {}
    BY <1>3 DEF NewSaramaConsumers, IInv, IdleState, Nothing
  <2>2. DOMAIN HandlerMappings' = todo'
    BY <1>3 DEF NewSaramaConsumers, HandlerMappings, inputs
  <2> QED BY <2>1, <2>2
<1>4. ASSUME NEW key \in Names, Iterate(key)
      PROVE  /\ \A k \in DOMAIN consumers' :
                   HasHandler(k)' /\ consumers'[k].handler = HandlerOf(k)'
             /\ \A n \in DOMAIN HandlerMappings' \ todo' :
                   HandlerMappings'[n].enable /\ HasHandler(Norm(n))'
                      => Norm(n) \in DOMAIN consumers'
  <2>1. Reach(key)
    BY <1>4 DEF Iterate, SkipDisabled, SkipUnknown, Make, MakeFails
  <2>2. Same /\ todo' = todo \ {key}
    BY <1>1, <2>1, ReachInv
  <2>3. CASE SkipDisabled(key) \/ SkipUnknown(key)
    <3>1. consumers' = consumers /\ ~(HandlerMappings[key].enable /\ HasHandler(Norm(key)))
      BY <2>3 DEF SkipDisabled, SkipUnknown
    <3> QED BY <2>2, <3>1 DEF MadeAsNow
  <2>4. CASE Make(key)
    <3>1. /\ HasHandler(Norm(key))
          /\ DOMAIN consumers' = DOMAIN consumers \cup {Norm(key)}
          /\ consumers'[Norm(key)].handler = HandlerOf(Norm(key))
          /\ \A k \in DOMAIN consumers \ {Norm(key)} : consumers'[k] = consumers[k]
      BY <2>4 DEF Make, ConsumerFrom
    <3> QED BY <2>2, <3>1 DEF MadeAsNow
  <2>5. ~MakeFails(key)
    BY DEF MakeFails
  <2> QED BY <1>4, <2>3, <2>4, <2>5 DEF Iterate
<1>5. CASE \E s \in Subscribers, topic \in Names :
             Register(s, topic) \/ \E options \in Requests : RegisterWithOption(s, topic, options)
  <2>1. PICK s \in Subscribers, topic \in Names, options \in Options : Store(s, topic, options)
    BY <1>5, InputsAssumption DEF Register, RegisterWithOption, Options
  <2>2. pc' = pc /\ late' = (IF pc = "idle" THEN late ELSE late \cup {s})
    BY <2>1 DEF Store
  <2> QED BY <2>2
<1>6. CASE NewSaramaProducerClient \/ NewSaramaProducerClientFails
  BY <1>2, <1>6 DEF NewSaramaProducerClient, NewSaramaProducerClientFails, inputs, registry, loop
<1>7. CASE UNCHANGED vars
  BY <1>2, <1>7 DEF vars, inputs, registry, loop
<1> QED BY <1>3, <1>4, <1>5, <1>6, <1>7 DEF Next

(* Which consumers an application has follows from its configuration, its  *)
(* registrations and its fx handlers: the order in which init came to them *)
(* does not show, unless keys collide or someone registers late.           *)
THEOREM OrderDoesNotShow == Spec => []InputsDecide
<1>1. IInv /\ MadeAsNow => InputsDecide
  <2> DEFINE enabled == {n \in DOMAIN HandlerMappings : HandlerMappings[n].enable}
             served == {n \in enabled : HasHandler(Norm(n))}
  <2> SUFFICES ASSUME IInv, MadeAsNow, Done, late = {}, \A n \in enabled : Sole(n)
               PROVE  /\ DOMAIN consumers = {Norm(n) : n \in served}
                      /\ \A n \in served : consumers[Norm(n)] = ConsumerFrom(n)
    BY DEF InputsDecide
  <2>1. ASSUME NEW k \in DOMAIN consumers
        PROVE  /\ consumers[k].from \in served /\ k = Norm(consumers[k].from)
               /\ consumers[k] = ConsumerFrom(consumers[k].from)
    <3>1. MadeFrom(k) /\ consumers[k] \in Consumers
      BY DEF IInv, ConsumerState, TypeOK
    <3>2. HasHandler(k) /\ consumers[k].handler = HandlerOf(k)
      BY DEF MadeAsNow, Done
    <3> QED BY <3>1, <3>2 DEF MadeFrom, ConsumerFrom, Consumers
  <2>2. ASSUME NEW n \in served
        PROVE  Norm(n) \in DOMAIN consumers /\ consumers[Norm(n)].from = n
    <3>1. Norm(n) \in DOMAIN consumers
      BY DEF MadeAsNow, Done
    <3> QED BY <2>1, <3>1 DEF Sole
  <2> QED BY <2>1, <2>2
<1>2. Spec => []MadeAsNow
  BY Invariance, MadeAsNowInit, MadeAsNowNext, PTL DEF Spec
<1> QED BY <1>1, <1>2, Invariance, PTL

(* Every open client finds the modes it asked for in the shared            *)
(* sarama.Config, whoever wrote to it since.                               *)
THEOREM ModesSurvive == Spec => []ClientsGetTheirModes
  BY Invariance, PTL DEF IInv
=============================================================================
