-------------------------------- MODULE Admin --------------------------------
(***************************************************************************)
(* SaramaAdmin (kafka/impl/sarama_admin.go): CreateTopics, DeleteTopics    *)
(* and DeleteGroups send the same request to each bootstrap server in turn *)
(* over a connection of its own and stop at the first that fails.  Callers *)
(* are the instances of an application that create their topics when they  *)
(* start (handler/create_kafka_topic.go), tests that reset their groups    *)
(* (testutil/fx.go), and whoever else is given the core.Admin.             *)
(*                                                                         *)
(* The brokers are external: only the controller creates and deletes       *)
(* topics, and only its coordinator deletes a group; any other broker      *)
(* refuses each name inside a response that is otherwise a success.  The   *)
(* code looks at no error inside a response.                               *)
(***************************************************************************)
EXTENDS Integers, Sequences, FiniteSets

CONSTANTS
    Brokers,
    Servers,         \* Admin.BootstrapServers
    Callers,         \* calls of the three operations, some after another
    Topics, Groups,
    Configurations,  \* sequences of TopicConfiguration that may be asked for
    Present, Absent, \* state of a group; Absent also of a topic
    Millisecond,     \* in the unit of Retention
    MaxMoves         \* bound: elections of a controller or coordinator

ASSUME ServersAssumption == Servers \in Seq(Brokers)
ASSUME NamesAssumption ==
    /\ Topics \cap Groups = {}
    /\ Present # Absent
    /\ \A confs \in Configurations :
          confs \in Seq([name : Topics, partitions : Int, retention : Int])
ASSUME BoundsAssumption == MaxMoves \in Nat /\ Millisecond \in Nat \ {0}

(* buildTopicDetails: without a positive retention there is no entry *)
Detail(conf) ==
    [partitions |-> conf.partitions,
     retentionMs |-> IF conf.retention > 0 THEN {conf.retention \div Millisecond} ELSE {}]

(* ... and the last configuration of a name counts. *)
TopicDetails(confs) ==
    [t \in {confs[i].name : i \in DOMAIN confs} |->
        Detail(confs[CHOOSE i \in DOMAIN confs :
                        /\ confs[i].name = t
                        /\ \A j \in i + 1 .. Len(confs) : confs[j].name # t])]

(* What a call asks for: a state for each of its names. *)
Deletion(names) == [r \in names |-> Absent]
Requests ==
    {TopicDetails(confs) : confs \in Configurations}
    \cup {Deletion(names) : names \in (SUBSET Topics) \cup (SUBSET Groups)}

Resources == Topics \cup Groups
States == {Present, Absent} \cup UNION {{w[r] : r \in DOMAIN w} : w \in Requests}

VARIABLES
    config,       \* CreateCommonSaramaConfig: "ok", "rejected", or "invalid" to Open
    controller,   \* external: the broker that decides on topics
    coordinator,  \* external: coordinator[g] decides on group g
    cluster,      \* external: state of each topic and group
    moves,        \* number of elections so far
    pc,           \* pc[k]: next step of call k
    wanted,       \* wanted[k]: what k asks for
    at,           \* at[k]: index in Servers of the loop of k
    open,         \* open[k]: k holds a connection
    failed,       \* failed[k]: the error of the request to the current server
    result,       \* result[k]: "none", "nil" or "error"
    excused       \* history: excused[k] are the names of k whose decider refused,
                  \* was elected during the call, or was asked otherwise by others

brokers == <<controller, coordinator, cluster, moves>>
vars == <<config, brokers, pc, wanted, at, open, failed, result, excused>>

Home(r) == IF r \in Topics THEN controller ELSE coordinator[r]

(* Type invariant, with what a label says of the loop and the connection. *)
TypeOK ==
    /\ config \in {"ok", "rejected", "invalid"}
    /\ controller \in Brokers
    /\ coordinator \in [Groups -> Brokers]
    /\ cluster \in [Resources -> States]
    /\ moves \in 0 .. MaxMoves
    /\ pc \in [Callers -> {"idle", "connect", "request", "answer", "close", "returned"}]
    /\ wanted \in [Callers -> Requests]
    /\ at \in [Callers -> 1 .. Len(Servers) + 1]
    /\ open \in [Callers -> BOOLEAN]
    /\ failed \in [Callers -> BOOLEAN]
    /\ result \in [Callers -> {"none", "nil", "error"}]
    /\ excused \in [Callers -> SUBSET Resources]
    /\ \A k \in Callers :
          /\ result[k] # "none" <=> pc[k] = "returned"
          /\ pc[k] \in {"connect", "request", "answer", "close"} => at[k] <= Len(Servers)

Init ==
    /\ config \in {"ok", "rejected", "invalid"}
    /\ controller \in Brokers
    /\ coordinator \in [Groups -> Brokers]
    /\ cluster \in {s \in [Resources -> States] :
                       \A r \in Resources : s[r] = Present => r \in Groups}
    /\ \A g \in Groups : cluster[g] \in {Present, Absent}
    /\ moves = 0
    /\ pc = [k \in Callers |-> "idle"]
    /\ wanted = [k \in Callers |-> Deletion({})]
    /\ at = [k \in Callers |-> 1]
    /\ open = [k \in Callers |-> FALSE]
    /\ failed = [k \in Callers |-> FALSE]
    /\ result = [k \in Callers |-> "none"]
    /\ excused = [k \in Callers |-> {}]

Goto(k, label) ==
    /\ pc' = [pc EXCEPT ![k] = label]
    /\ UNCHANGED result

Return(k, value) ==
    /\ pc' = [pc EXCEPT ![k] = "returned"]
    /\ result' = [result EXCEPT ![k] = value]

-----------------------------------------------------------------------------
(* The operations *)

(* Nothing asked for and no servers are answered with nil at once; with an *)
(* unusable version or TLS configuration there is an error.                *)
Call(k, request) ==
    /\ pc[k] = "idle"
    /\ wanted' = [wanted EXCEPT ![k] = request]
    /\ \/ DOMAIN request = {} /\ Return(k, "nil")
       \/ DOMAIN request # {} /\ config = "rejected" /\ Return(k, "error")
       \/ DOMAIN request # {} /\ config # "rejected" /\
             IF Servers = <<>> THEN Return(k, "nil") ELSE Goto(k, "connect")
    /\ UNCHANGED <<config, brokers, at, open, failed, excused>>

CreateTopics(k, confs) == Call(k, TopicDetails(confs))
DeleteTopics(k, names) == Call(k, Deletion(names))
DeleteGroups(k, names) == Call(k, Deletion(names))

(* connectBroker: Open connects in the background and fails only when the  *)
(* configuration is invalid; an unreachable server fails the request.      *)
Connect(k) ==
    /\ pc[k] = "connect" /\ config # "invalid"
    /\ open' = [open EXCEPT ![k] = TRUE]
    /\ Goto(k, "request")
    /\ UNCHANGED <<config, brokers, wanted, at, failed, excused>>

ConnectFails(k) ==
    /\ pc[k] = "connect" /\ config = "invalid"
    /\ Return(k, "error")
    /\ UNCHANGED <<config, brokers, wanted, at, open, failed, excused>>

(* External: the server decides on the names that are its own.  It creates *)
(* no topic that exists, and may refuse any name (a group with members, a  *)
(* policy); the refusals are inside the response.                          *)
Execute(k) ==
    /\ pc[k] = "request"
    /\ LET own == {r \in DOMAIN wanted[k] : Home(r) = Servers[at[k]]}
           creatable == {r \in own : wanted[k][r] # Absent => cluster[r] = Absent}
       IN \E done \in SUBSET creatable :
             /\ cluster' = [r \in Resources |-> IF r \in done THEN wanted[k][r] ELSE cluster[r]]
             /\ excused' = [j \in Callers |->
                               IF j = k THEN excused[k] \cup (own \ done)
                               ELSE excused[j] \cup {r \in done : cluster'[r] # cluster[r]}]
    /\ Goto(k, "answer")
    /\ UNCHANGED <<config, controller, coordinator, moves, wanted, at, open, failed>>

(* The response is dropped, with all it says of single names. *)
Answer(k) ==
    /\ pc[k] = "answer"
    /\ failed' = [failed EXCEPT ![k] = FALSE]
    /\ Goto(k, "close")
    /\ UNCHANGED <<config, brokers, wanted, at, open, excused>>

(* The server is away, or its answer does not come in time: in that case   *)
(* it may have done what it was asked.                                     *)
RequestFails(k) ==
    /\ pc[k] \in {"request", "answer"}
    /\ failed' = [failed EXCEPT ![k] = TRUE]
    /\ Goto(k, "close")
    /\ UNCHANGED <<config, brokers, wanted, at, open, excused>>

(* Faulty variants of Close: the loop ends at the first success; a failed  *)
(* request keeps its connection; the loop runs past the last server.       *)
CloseFirstSuccess(k) ==
    /\ pc[k] = "close"
    /\ open' = [open EXCEPT ![k] = FALSE]
    /\ Return(k, IF failed[k] THEN "error" ELSE "nil")
    /\ UNCHANGED <<config, brokers, wanted, at, failed, excused>>
CloseAfterSuccessOnly(k) ==
    /\ pc[k] = "close"
    /\ open' = [open EXCEPT ![k] = failed[k]]
    /\ at' = [at EXCEPT ![k] = IF failed[k] THEN @ ELSE @ + 1]
    /\ IF failed[k] THEN Return(k, "error")
       ELSE IF at[k] < Len(Servers) THEN Goto(k, "connect") ELSE Return(k, "nil")
    /\ UNCHANGED <<config, brokers, wanted, failed, excused>>
CloseOffByOne(k) ==
    /\ pc[k] = "close"
    /\ open' = [open EXCEPT ![k] = FALSE]
    /\ at' = [at EXCEPT ![k] = IF failed[k] THEN @ ELSE @ + 1]
    /\ IF failed[k] THEN Return(k, "error")
       ELSE IF at[k] <= Len(Servers) THEN Goto(k, "connect") ELSE Return(k, "nil")
    /\ UNCHANGED <<config, brokers, wanted, failed, excused>>

(* The deferred Close, and the loop over the servers. *)
Close(k) ==
    /\ pc[k] = "close"
    /\ open' = [open EXCEPT ![k] = FALSE]
    /\ at' = [at EXCEPT ![k] = IF failed[k] THEN @ ELSE @ + 1]
    /\ IF failed[k] THEN Return(k, "error")
       ELSE IF at[k] < Len(Servers) THEN Goto(k, "connect") ELSE Return(k, "nil")
    /\ UNCHANGED <<config, brokers, wanted, failed, excused>>

-----------------------------------------------------------------------------
(* External: another controller, or another coordinator, is elected. *)
Elect(names) ==
    /\ moves < MaxMoves
    /\ moves' = moves + 1
    /\ excused' = [k \in Callers |-> excused[k] \cup names]
    /\ UNCHANGED <<config, cluster, pc, wanted, at, open, failed, result>>

ElectController ==
    /\ Elect(Topics)
    /\ controller' \in Brokers
    /\ UNCHANGED coordinator

ElectCoordinator(g) ==
    /\ Elect({g})
    /\ \E b \in Brokers : coordinator' = [coordinator EXCEPT ![g] = b]
    /\ UNCHANGED controller

Operation(k) ==
    Connect(k) \/ ConnectFails(k) \/ Execute(k) \/ Answer(k) \/ RequestFails(k) \/ Close(k)

Next ==
    \/ \E k \in Callers :
          \/ Operation(k)
          \/ \E confs \in Configurations : CreateTopics(k, confs)
          \/ \E names \in SUBSET Topics : DeleteTopics(k, names)
          \/ \E names \in SUBSET Groups : DeleteGroups(k, names)
    \/ ElectController \/ \E g \in Groups : ElectCoordinator(g)

Spec == Init /\ [][Next]_vars

-----------------------------------------------------------------------------
(* Properties *)

AskedServers(k) == {Servers[i] : i \in 1 .. at[k] - 1}

(* HAZARD errors of single names inside a response are dropped, servers    *)
(* are asked one after the other, and other callers ask for other states:  *)
(* whatever a call has asked the server that decides on it, with an        *)
(* answer, is in the wanted state, unless that server refused it, was      *)
(* elected meanwhile, or another call changed it since.  This holds for    *)
(* the servers before the one that failed as well.                         *)
AnsweredMeansDecided ==
    \A k \in Callers : \A r \in DOMAIN wanted[k] \ excused[k] :
       Home(r) \in AskedServers(k) => cluster[r] = wanted[k][r]

(* ... so that nil means this of every name whose decider is one of the    *)
(* bootstrap servers.  (Of the others nil says nothing.)                   *)
NilMeansDecided ==
    \A k \in Callers : result[k] = "nil" =>
       \A r \in DOMAIN wanted[k] \ excused[k] :
          (\E i \in DOMAIN Servers : Servers[i] = Home(r)) => cluster[r] = wanted[k][r]

(* HAZARD a request that fails in the middle of the loop: whatever happens *)
(* to its requests, a call that has returned holds no connection.          *)
ConnectionsReleased == \A k \in Callers : result[k] # "none" => ~open[k]
=============================================================================
