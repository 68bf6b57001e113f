----------------------------- MODULE Construction -----------------------------
(***************************************************************************)
(* How an application gets its consumers and its clients: the process-wide *)
(* registry of subscribers (kafka/global/subscriber_topic.go), the merge   *)
(* with the configured handlers (kafka.go, NewSaramaConsumers) and the     *)
(* loop that makes a consumer for each key (kafka/impl), together with the *)
(* sarama.Config that all clients of the application share: every          *)
(* constructor writes to it and every client reads it as it is now.        *)
(*                                                                         *)
(* fx (external) runs one constructor at a time, and that of the producer  *)
(* client before or after that of the consumers; packages may register     *)
(* subscribers from any goroutine at any time.                             *)
(***************************************************************************)
EXTENDS FiniteSets

CONSTANTS
    Names,           \* of topics and of handlers, as they are written
    Trim, Lower,     \* strings.TrimSpace and strings.ToLower of each name
    NoName,          \* the empty string
    Subscribers,     \* callbacks that are registered, each once
    Handlers,        \* core.ConsumerHandler provided through fx
    StructName,      \* StructName[h]: getStructShortName of h
    Configurations,  \* HandlerMappings that may be configured
    Requests,        \* options that may be given to RegisterWithOption
    Producer,        \* the producer client
    Presets          \* sarama.Config as configFn may leave it

Sections == [protocol : {"", "TLS"}, tls : BOOLEAN]
Options == [enable : BOOLEAN, topic : Names \cup {NoName}, topics : SUBSET Names]
Settings == [tls : BOOLEAN, returns : BOOLEAN, autoCommit : BOOLEAN]

Norm(n) == Lower[Trim[n]]

ASSUME NamesAssumption ==
    /\ Trim \in [Names -> Names] /\ Lower \in [Names -> Names]
    /\ \A n \in Names : Norm(Norm(n)) = Norm(n)
    /\ NoName \notin Names /\ Producer \notin Names
    /\ StructName \in [Handlers -> Names]
    /\ Subscribers \cap Handlers = {}
ASSUME InputsAssumption ==
    /\ \A f \in Configurations : DOMAIN f \subseteq Names /\ f \in [DOMAIN f -> Options]
    /\ Requests \subseteq Options
    /\ Presets \subseteq Settings

VARIABLES
    given,       \* properties.Client as bound, but for what PostBinding adds
    autoCommit,  \* CommitMode is AUTO_COMMIT_INTERVAL
    config,      \* the shared sarama.Config
    configured,  \* HandlerMappings as configured
    mapping,     \* SubscriberTopic.mapping
    snapshot,    \* what of it NewSaramaConsumers was given
    handlerMap,  \* fx handlers by lower-cased name
    pc,          \* "idle", "init" (the loop of init) or "failed"
    todo,        \* keys the loop has yet to reach
    consumers,   \* consumers[k]: from which key, handler and topics
    opened,      \* clients that are open, by key or Producer
    topicOf,     \* history: the topic each subscriber registered for
    late         \* history: subscribers that came after the snapshot

inputs == <<given, autoCommit, configured>>
registry == <<mapping, topicOf, late>>
loop == <<snapshot, handlerMap, todo, consumers>>
vars == <<inputs, config, registry, loop, pc, opened>>

-----------------------------------------------------------------------------
(* Configuration *)

(* PostBinding: what a section leaves out is that of the global section,   *)
(* each field for itself.                                                  *)
PostBinding(section) ==
    [protocol |-> IF section.protocol = "" THEN given.global.protocol ELSE section.protocol,
     tls |-> section.tls \/ given.global.tls]

(* Faulty variant of CreateCommonSaramaConfig: each client sets TLS anew. *)
SetTls(section) == [config EXCEPT !.tls = section.protocol = "TLS"]

(* CreateCommonSaramaConfig switches TLS on and never off ...              *)
CreateCommonSaramaConfig(section) ==
    [config EXCEPT !.tls = @ \/ section.protocol = "TLS"]

(* ... and TLS without certificates is an error.                           *)
Loadable(section) == section.protocol = "TLS" => section.tls

ProducerConfig ==
    [CreateCommonSaramaConfig(PostBinding(given.producer)) EXCEPT !.returns = TRUE]
ConsumerConfig ==
    [CreateCommonSaramaConfig(PostBinding(given.consumer)) EXCEPT !.autoCommit = autoCommit]

-----------------------------------------------------------------------------
(* What the loop works on *)

(* GetTopicConsumerMap: the enabled registrations, under the lock. *)
GetTopicConsumerMap ==
    [t \in {u \in DOMAIN mapping : mapping[u].options.enable} |-> mapping[t]]

(* Faulty variant of HandlerMappings: a registration replaces an entry. *)
RegistrationsFirst ==
    [n \in DOMAIN configured \cup DOMAIN snapshot |->
        IF n \in DOMAIN snapshot THEN snapshot[n].options ELSE configured[n]]

(* The merge goes by names as they are written. *)
HandlerMappings ==
    [n \in DOMAIN configured \cup DOMAIN snapshot |->
        IF n \in DOMAIN configured THEN configured[n] ELSE snapshot[n].options]

(* Of fx handlers with one name any may come last in the group. *)
HandlerMaps ==
    LET names == {Lower[StructName[h]] : h \in Handlers}
    IN {f \in [names -> Handlers] : \A n \in names : Lower[StructName[f[n]]] = n}

(* Topic has priority over Topics. *)
TopicsOf(options) ==
    IF options.topic # NoName THEN {Trim[options.topic]} ELSE {Trim[t] : t \in options.topics}

(* The handler of a key, which GetHandler looks up by the normal name.     *)
HasHandler(k) == k \in DOMAIN handlerMap \cup DOMAIN mapping
HandlerOf(k) == IF k \in DOMAIN handlerMap THEN handlerMap[k] ELSE mapping[k].handler

Done == pc = "init" /\ todo = {}

-----------------------------------------------------------------------------
Consumers == [from : Names, handler : Handlers \cup Subscribers, topics : SUBSET Names]
Registrations == [handler : Subscribers, options : Options]

(* Type invariant; consumers and fx handlers go by normal names. *)
TypeOK ==
    /\ given \in [global : Sections, producer : Sections, consumer : Sections]
    /\ autoCommit \in BOOLEAN
    /\ config \in Settings
    /\ configured \in Configurations
    /\ DOMAIN mapping \subseteq Names /\ mapping \in [DOMAIN mapping -> Registrations]
    /\ DOMAIN snapshot \subseteq Names /\ snapshot \in [DOMAIN snapshot -> Registrations]
    /\ handlerMap \in [DOMAIN handlerMap -> Handlers]
    /\ pc \in {"idle", "init", "failed"}
    /\ todo \subseteq Names
    /\ DOMAIN consumers \subseteq {Norm(n) : n \in Names}
    /\ consumers \in [DOMAIN consumers -> Consumers]
    /\ opened \subseteq Names \cup {Producer}
    /\ topicOf \in [Subscribers -> Names \cup {NoName}]
    /\ late \subseteq Subscribers

Nothing == [n \in {} |-> NoName]

Init ==
    /\ given \in [global : Sections, producer : Sections, consumer : Sections]
    /\ autoCommit \in BOOLEAN
    /\ config \in Presets
    /\ configured \in Configurations
    /\ mapping = Nothing /\ snapshot = Nothing /\ handlerMap = Nothing
    /\ pc = "idle" /\ todo = {}
    /\ consumers = Nothing
    /\ opened = {}
    /\ topicOf = [s \in Subscribers |-> NoName]
    /\ late = {}

-----------------------------------------------------------------------------
(* The registry: a later registration of a topic replaces the earlier. *)

Store(s, topic, options) ==
    /\ topicOf[s] = NoName
    /\ mapping' = [t \in DOMAIN mapping \cup {topic} |->
                      IF t = topic THEN [handler |-> s, options |-> options] ELSE mapping[t]]
    /\ topicOf' = [topicOf EXCEPT ![s] = topic]
    /\ late' = IF pc = "idle" THEN late ELSE late \cup {s}
    /\ UNCHANGED <<inputs, config, loop, pc, opened>>

(* Register, and RegisterWithClose likewise *)
Register(s, topic) == Store(s, topic, [enable |-> TRUE, topic |-> topic, topics |-> {}])

RegisterWithOption(s, topic, options) == Store(s, topic, options)

-----------------------------------------------------------------------------
(* Construction of the consumers *)

NewSaramaConsumers ==
    /\ pc = "idle"
    /\ snapshot' = GetTopicConsumerMap
    /\ handlerMap' \in HandlerMaps
    /\ todo' = DOMAIN configured \cup DOMAIN snapshot'
    /\ pc' = "init"
    /\ UNCHANGED <<inputs, config, registry, consumers, opened>>

(* The loop ranges over a map, in any order. *)
Reach(key) ==
    /\ pc = "init" /\ key \in todo
    /\ todo' = todo \ {key}
    /\ UNCHANGED <<inputs, registry, snapshot, handlerMap>>

SkipDisabled(key) ==
    /\ Reach(key)
    /\ ~HandlerMappings[key].enable
    /\ UNCHANGED <<config, pc, consumers, opened>>

(* Faulty variants of SkipUnknown: the client is made before the handler   *)
(* is looked up; subscribers are not looked up; the loop ends.             *)
SkipUnknownLate(key) ==
    /\ Reach(key)
    /\ HandlerMappings[key].enable /\ ~HasHandler(Norm(key))
    /\ opened' = opened \cup {key}
    /\ UNCHANGED <<config, pc, consumers>>

SkipSubscribers(key) ==
    /\ Reach(key)
    /\ HandlerMappings[key].enable /\ Norm(key) \notin DOMAIN handlerMap
    /\ UNCHANGED <<config, pc, consumers, opened>>

SkipRest(key) ==
    /\ pc = "init" /\ key \in todo /\ todo' = {}
    /\ HandlerMappings[key].enable /\ ~HasHandler(Norm(key))
    /\ UNCHANGED <<inputs, config, registry, snapshot, handlerMap, pc, consumers, opened>>

SkipUnknown(key) ==
    /\ Reach(key)
    /\ HandlerMappings[key].enable /\ ~HasHandler(Norm(key))
    /\ UNCHANGED <<config, pc, consumers, opened>>

ConsumerFrom(key) ==
    [from |-> key, handler |-> HandlerOf(Norm(key)), topics |-> TopicsOf(HandlerMappings[key])]

(* Faulty variant of Make: consumers are kept under the key as written. *)
MakeAsWritten(key) ==
    /\ Reach(key)
    /\ HandlerMappings[key].enable /\ HasHandler(Norm(key))
    /\ Loadable(PostBinding(given.consumer))
    /\ config' = ConsumerConfig
    /\ opened' = opened \cup {key}
    /\ consumers' = [k \in DOMAIN consumers \cup {key} |->
                        IF k = key THEN ConsumerFrom(key) ELSE consumers[k]]
    /\ UNCHANGED pc

(* NewSaramaConsumer, kept under the normal name: of two keys with one     *)
(* normal name the later replaces the earlier, whose client stays open.    *)
Make(key) ==
    /\ Reach(key)
    /\ HandlerMappings[key].enable /\ HasHandler(Norm(key))
    /\ Loadable(PostBinding(given.consumer))
    /\ config' = ConsumerConfig
    /\ opened' = opened \cup {key}
    /\ consumers' = [k \in DOMAIN consumers \cup {Norm(key)} |->
                        IF k = Norm(key) THEN ConsumerFrom(key) ELSE consumers[k]]
    /\ UNCHANGED pc

(* What a constructor that fails may have written by then. *)
WrittenBy(section, finished) ==
    IF Loadable(section)
    THEN {config, CreateCommonSaramaConfig(section), finished} ELSE {config}

(* Any error ends the loop, and the application with it.  The client is    *)
(* left open when it is the consumer group that cannot be made.            *)
MakeFails(key) ==
    /\ Reach(key)
    /\ HandlerMappings[key].enable /\ HasHandler(Norm(key))
    /\ \/ /\ config' \in WrittenBy(PostBinding(given.consumer), ConsumerConfig)
          /\ UNCHANGED opened
       \/ /\ Loadable(PostBinding(given.consumer))
          /\ config' = ConsumerConfig /\ opened' = opened \cup {key}
    /\ pc' = "failed"
    /\ UNCHANGED consumers

NewSaramaProducerClient ==
    /\ pc = "idle" \/ Done
    /\ Producer \notin opened /\ Loadable(PostBinding(given.producer))
    /\ config' = ProducerConfig
    /\ opened' = opened \cup {Producer}
    /\ UNCHANGED <<inputs, registry, loop, pc>>

NewSaramaProducerClientFails ==
    /\ pc = "idle" \/ Done
    /\ Producer \notin opened
    /\ config' \in WrittenBy(PostBinding(given.producer), ProducerConfig)
    /\ pc' = "failed"
    /\ UNCHANGED <<inputs, registry, loop, opened>>

Iterate(key) == SkipDisabled(key) \/ SkipUnknown(key) \/ Make(key) \/ MakeFails(key)

Next ==
    \/ NewSaramaConsumers \/ NewSaramaProducerClient \/ NewSaramaProducerClientFails
    \/ \E key \in Names : Iterate(key)
    \/ \E s \in Subscribers, topic \in Names :
          Register(s, topic) \/ \E options \in Requests : RegisterWithOption(s, topic, options)

Spec == Init /\ [][Next]_vars

-----------------------------------------------------------------------------
(* Properties *)

(* No other enabled key has the normal name of key. *)
Sole(key) ==
    \A n \in DOMAIN HandlerMappings \ {key} : HandlerMappings[n].enable => Norm(n) # Norm(key)

(* HAZARD Register keeps a topic as written, GetHandler looks it up by its *)
(* normal name, and subscribers come and go between GetTopicConsumerMap    *)
(* and GetHandler: a subscriber is served under a topic written in its     *)
(* normal form that nobody else claims, by the time the consumers are      *)
(* made, and nobody but a later subscriber of the topic takes its place.   *)
SubscriberIsServed ==
    Done => \A t \in DOMAIN snapshot \ (DOMAIN configured \cup DOMAIN handlerMap) :
       Norm(t) = t /\ Sole(t) =>
          /\ t \in DOMAIN consumers
          /\ consumers[t].topics = TopicsOf(snapshot[t].options)
          /\ LET s == consumers[t].handler
             IN s = snapshot[t].handler \/ (s \in late /\ topicOf[s] = t)

(* HAZARD configuration and code name the same topic: a configured key     *)
(* that no other enabled key collides with decides alone whether there is  *)
(* a consumer and for which topics; and every enabled one that has an fx   *)
(* handler is served by it, or the construction fails as a whole.          *)
ConfigurationDecides ==
    \A n \in DOMAIN configured : pc # "idle" /\ Sole(n) =>
       /\ Norm(n) \in DOMAIN consumers =>
             configured[n].enable /\ consumers[Norm(n)].topics = TopicsOf(configured[n])
       /\ Done /\ configured[n].enable /\ Norm(n) \in DOMAIN handlerMap =>
             /\ Norm(n) \in DOMAIN consumers
             /\ consumers[Norm(n)].handler = handlerMap[Norm(n)]

(* HAZARD Stop closes the clients of the consumers that were kept: those   *)
(* are all that were opened, unless keys collide or the construction fails.*)
ClientsAreOwned ==
    pc # "failed" /\ (\A n \in DOMAIN HandlerMappings : HandlerMappings[n].enable => Sole(n)) =>
       opened \ {Producer} = {consumers[k].from : k \in DOMAIN consumers}

(* HAZARD init ranges over a map, and a consumer's handler is looked up    *)
(* when its turn comes: without collisions, failure or late registrations  *)
(* the order shows nowhere.  The consumers are those of the enabled keys   *)
(* that have a handler, each with the topics and the handler of its key.   *)
InputsDecide ==
    LET enabled == {n \in DOMAIN HandlerMappings : HandlerMappings[n].enable}
        served == {n \in enabled : HasHandler(Norm(n))}
    IN Done /\ late = {} /\ (\A n \in enabled : Sole(n)) =>
          /\ DOMAIN consumers = {Norm(n) : n \in served}
          /\ \A n \in served : consumers[Norm(n)] = ConsumerFrom(n)

(* HAZARD all clients write to one sarama.Config and go on reading it:     *)
(* whatever the order, an open client finds TLS on if its section or, when *)
(* that has no protocol, the global one asks for it; answers returned if   *)
(* it is the producer's; and the commit mode asked for if a consumer's.    *)
AsksForTls(section) ==
    section.protocol = "TLS" \/ (section.protocol = "" /\ given.global.protocol = "TLS")
ClientsGetTheirModes ==
    /\ Producer \in opened => config.returns /\ (AsksForTls(given.producer) => config.tls)
    /\ opened \ {Producer} # {} =>
          config.autoCommit = autoCommit /\ (AsksForTls(given.consumer) => config.tls)
=============================================================================
