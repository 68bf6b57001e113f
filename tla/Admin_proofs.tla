----------------------------- MODULE Admin_proofs -----------------------------
(***************************************************************************)
(* Proofs about Admin, for any brokers, bootstrap servers, callers, names  *)
(* and configurations.                                                     *)
(***************************************************************************)
EXTENDS Admin, TLAPS

(* The servers that have dealt with the request of k: those the loop is    *)
(* past, and the current one from its execution to the end of the request, *)
(* unless it failed.                                                       *)
Executed(k) ==
    {i \in DOMAIN Servers :
       \/ i < at[k]
       \/ i = at[k] /\ (pc[k] = "answer" \/ (pc[k] = "close" /\ ~failed[k]))}

Decided(k, r) ==
    Home(r) \in {Servers[i] : i \in Executed(k)} => cluster[r] = wanted[k][r]

ExecutedMeansDecided ==
    \A k \in Callers : \A r \in DOMAIN wanted[k] \ excused[k] : Decided(k, r)

(* Where a call returned, and when it holds a connection. *)
Outcome ==
    \A k \in Callers :
       /\ pc[k] = "idle" => at[k] = 1
       /\ result[k] = "nil" => at[k] = Len(Servers) + 1 \/ DOMAIN wanted[k] = {}
       /\ pc[k] \in {"idle", "connect", "returned"} => ~open[k]

IInv == TypeOK /\ ExecutedMeansDecided /\ Outcome

LEMMA MemberOfSeq == ASSUME NEW R, NEW s \in Seq(R), NEW i \in DOMAIN s PROVE s[i] \in R
  OBVIOUS

(* What can be asked for is a state for some topics or groups. *)
LEMMA RequestType ==
    \A w \in Requests : /\ DOMAIN w \subseteq Resources
                        /\ \A r \in DOMAIN w : w[r] \in States
<1>1. ASSUME NEW confs \in Configurations
      PROVE  DOMAIN TopicDetails(confs) \subseteq Resources
  <2>1. confs \in Seq([name : Topics, partitions : Int, retention : Int])
    BY NamesAssumption
  <2>2. ASSUME NEW i \in DOMAIN confs PROVE confs[i].name \in Topics
    <3>1. confs[i] \in [name : Topics, partitions : Int, retention : Int]
      BY <2>1, MemberOfSeq, Zenon
    <3> QED BY <3>1
  <2> QED BY <2>2 DEF TopicDetails, Resources
<1>2. ASSUME NEW names \in (SUBSET Topics) \cup (SUBSET Groups)
      PROVE  DOMAIN Deletion(names) \subseteq Resources
  BY DEF Deletion, Resources
<1>3. \A w \in Requests : DOMAIN w \subseteq Resources
  BY <1>1, <1>2 DEF Requests
<1>4. \A w \in Requests : \A r \in DOMAIN w : w[r] \in States
  BY DEF States
<1> QED BY <1>3, <1>4

LEMMA LenServers ==
    /\ Len(Servers) \in Nat
    /\ DOMAIN Servers = 1 .. Len(Servers)
    /\ Servers = <<>> <=> Len(Servers) = 0
  BY ServersAssumption

LEMMA InitInv == Init => IInv
<1> SUFFICES ASSUME Init PROVE IInv
  OBVIOUS
<1>1. Deletion({}) \in Requests /\ DOMAIN Deletion({}) = {}
  BY DEF Requests, Deletion
<1>2. TypeOK
  <2>1. cluster \in [Resources -> States]
    BY DEF Init
  <2>2. moves \in 0 .. MaxMoves /\ 1 \in 1 .. Len(Servers) + 1
    BY LenServers, BoundsAssumption DEF Init
  <2>3. /\ wanted \in [Callers -> Requests]
        /\ at \in [Callers -> 1 .. Len(Servers) + 1]
    BY <1>1, <2>2 DEF Init
  <2> QED BY <2>1, <2>2, <2>3 DEF Init, TypeOK
<1>3. ExecutedMeansDecided
  BY <1>1 DEF Init, ExecutedMeansDecided
<1>4. Outcome
  BY DEF Init, Outcome
<1> QED BY <1>2, <1>3, <1>4 DEF IInv

(* A step of call k that leaves the brokers and the names it answers for   *)
(* alone, and does not pretend that more servers have dealt with it.       *)
LEMMA QuietStep ==
    ASSUME IInv, NEW k \in Callers, UNCHANGED <<brokers, wanted, excused>>,
           \A j \in Callers \ {k} : /\ pc'[j] = pc[j] /\ at'[j] = at[j]
                                    /\ failed'[j] = failed[j],
           Executed(k)' \subseteq Executed(k)
    PROVE  ExecutedMeansDecided'
<1>1. ASSUME NEW j \in Callers PROVE Executed(j)' \subseteq Executed(j)
  <2>1. CASE j = k
    BY <2>1
  <2>2. CASE j # k
    BY <2>2 DEF Executed
  <2> QED BY <2>1, <2>2
<1>2. \A r : Home(r)' = Home(r)
  BY DEF Home, brokers
<1> QED BY <1>1, <1>2 DEF ExecutedMeansDecided, Decided, IInv, brokers

LEMMA CallInv ==
    ASSUME IInv, NEW k \in Callers, NEW request \in Requests, Call(k, request) PROVE IInv'
<1> USE DEF IInv
<1>1. TypeOK'
  <2>1. wanted' \in [Callers -> Requests]
    BY DEF Call, TypeOK
  <2>2. \/ Return(k, "nil") \/ Return(k, "error")
        \/ Goto(k, "connect") /\ at[k] <= Len(Servers)
    BY LenServers DEF Call, Outcome
  <2>3. /\ pc' \in [Callers -> {"idle", "connect", "request", "answer", "close", "returned"}]
        /\ result' \in [Callers -> {"none", "nil", "error"}]
        /\ \A j \in Callers :
              /\ result'[j] # "none" <=> pc'[j] = "returned"
              /\ pc'[j] \in {"connect", "request", "answer", "close"} => at[j] <= Len(Servers)
    BY <2>2 DEF Call, Return, Goto, TypeOK
  <2> QED BY <2>1, <2>3 DEF Call, TypeOK, brokers
<1>2. ExecutedMeansDecided'
  <2>1. Executed(k)' = {}
    BY LenServers DEF Call, Goto, Return, Executed, Outcome, TypeOK
  <2>2. ASSUME NEW j \in Callers, j # k, NEW r \in DOMAIN wanted'[j] \ excused'[j]
        PROVE  Decided(j, r)'
    <3>1. Executed(j)' = Executed(j) /\ wanted'[j] = wanted[j]
      BY <2>2 DEF Call, Goto, Return, Executed, TypeOK
    <3>2. Home(r)' = Home(r) /\ cluster' = cluster /\ excused' = excused
      BY DEF Call, Home, brokers
    <3>3. Decided(j, r)
      BY <2>2, <3>1, <3>2 DEF ExecutedMeansDecided
    <3> QED BY <3>1, <3>2, <3>3 DEF Decided
  <2>3. ASSUME NEW r PROVE Decided(k, r)'
    BY <2>1 DEF Decided
  <2> QED BY <2>2, <2>3 DEF ExecutedMeansDecided
<1>3. Outcome'
  BY LenServers DEF Call, Goto, Return, Outcome, TypeOK
<1> QED BY <1>1, <1>2, <1>3

(* The server that decides on a name has it in the wanted state or lets    *)
(* the call off; it lets every other call off whose names it changes.      *)
LEMMA ExecuteInv == ASSUME IInv, NEW k \in Callers, Execute(k) PROVE IInv'
<1> USE DEF IInv
<1> DEFINE own == {r \in DOMAIN wanted[k] : Home(r) = Servers[at[k]]}
           creatable == {r \in own : wanted[k][r] # Absent => cluster[r] = Absent}
<1>1. PICK done \in SUBSET creatable :
         /\ cluster' = [r \in Resources |-> IF r \in done THEN wanted[k][r] ELSE cluster[r]]
         /\ excused' = [j \in Callers |->
                           IF j = k THEN excused[k] \cup (own \ done)
                           ELSE excused[j] \cup {r \in done : cluster'[r] # cluster[r]}]
  BY DEF Execute
<1>2. /\ wanted[k] \in Requests
      /\ DOMAIN wanted[k] \subseteq Resources
      /\ \A r \in DOMAIN wanted[k] : wanted[k][r] \in States
      /\ done \subseteq Resources /\ own \subseteq Resources
  BY RequestType DEF TypeOK
<1>3. /\ UNCHANGED <<config, controller, coordinator, moves, wanted, at, open, failed, result>>
      /\ pc[k] = "request" /\ pc' = [pc EXCEPT ![k] = "answer"]
  BY DEF Execute, Goto
<1>4. TypeOK'
  <2>1. cluster' \in [Resources -> States]
    BY <1>1, <1>2 DEF TypeOK
  <2>2. excused' \in [Callers -> SUBSET Resources]
    BY <1>1, <1>2 DEF TypeOK
  <2> QED BY <1>3, <2>1, <2>2 DEF TypeOK
<1>5. \A r : Home(r)' = Home(r)
  BY <1>3 DEF Home
<1>6. ExecutedMeansDecided'
  <2>1. ASSUME NEW r \in DOMAIN wanted'[k] \ excused'[k] PROVE Decided(k, r)'
    <3>1. r \in Resources /\ r \notin excused[k] /\ r \notin own \ done
      BY <1>1, <1>2, <1>3, <2>1 DEF TypeOK
    <3>2. CASE r \in done
      BY <1>1, <1>3, <3>1, <3>2 DEF Decided
    <3>3. CASE r \notin done
      <4>1. Home(r) # Servers[at[k]]
        BY <1>3, <2>1, <3>1, <3>3
      <4>2. Executed(k)' \subseteq Executed(k) \cup {at[k]}
        BY <1>3 DEF Executed, TypeOK
      <4>3. Decided(k, r)
        BY <1>3, <2>1, <3>1 DEF ExecutedMeansDecided
      <4>4. cluster'[r] = cluster[r]
        BY <1>1, <3>1, <3>3
      <4> QED BY <1>3, <1>5, <4>1, <4>2, <4>3, <4>4 DEF Decided
    <3> QED BY <3>2, <3>3
  <2>2. ASSUME NEW j \in Callers, j # k, NEW r \in DOMAIN wanted'[j] \ excused'[j]
        PROVE  Decided(j, r)'
    <3>1. r \in Resources /\ r \notin excused[j]
      BY <1>1, <1>3, <2>2, RequestType DEF TypeOK
    <3>2. cluster'[r] = cluster[r]
      BY <1>1, <2>2, <3>1
    <3>3. Executed(j)' = Executed(j)
      BY <1>3, <2>2 DEF Executed, TypeOK
    <3>4. Decided(j, r)
      BY <1>3, <2>2, <3>1 DEF ExecutedMeansDecided
    <3> QED BY <1>3, <1>5, <3>2, <3>3, <3>4 DEF Decided
  <2> QED BY <2>1, <2>2 DEF ExecutedMeansDecided
<1>7. Outcome'
  BY <1>3 DEF Outcome, TypeOK
<1> QED BY <1>4, <1>6, <1>7

LEMMA OperationInv == ASSUME IInv, NEW k \in Callers, Operation(k) PROVE IInv'
<1> USE DEF IInv
<1>1. CASE Connect(k)
  <2>1. TypeOK'
    BY <1>1 DEF Connect, Goto, TypeOK, brokers
  <2>2. Executed(k)' \subseteq Executed(k)
    BY <1>1 DEF Connect, Goto, Executed, TypeOK
  <2>3. ExecutedMeansDecided'
    BY <1>1, <2>2, QuietStep DEF Connect, Goto, TypeOK
  <2>4. Outcome'
    BY <1>1 DEF Connect, Goto, Outcome, TypeOK
  <2> QED BY <2>1, <2>3, <2>4
<1>2. CASE ConnectFails(k)
  <2>1. TypeOK'
    BY <1>2 DEF ConnectFails, Return, TypeOK, brokers
  <2>2. Executed(k)' \subseteq Executed(k)
    BY <1>2 DEF ConnectFails, Return, Executed, TypeOK
  <2>3. ExecutedMeansDecided'
    BY <1>2, <2>2, QuietStep DEF ConnectFails, Return, TypeOK
  <2>4. Outcome'
    BY <1>2 DEF ConnectFails, Return, Outcome, TypeOK
  <2> QED BY <2>1, <2>3, <2>4
<1>3. CASE Execute(k)
  BY <1>3, ExecuteInv
<1>4. CASE Answer(k)
  <2>1. TypeOK'
    BY <1>4 DEF Answer, Goto, TypeOK, brokers
  <2>2. Executed(k)' \subseteq Executed(k)
    BY <1>4 DEF Answer, Goto, Executed, TypeOK
  <2>3. ExecutedMeansDecided'
    BY <1>4, <2>2, QuietStep DEF Answer, Goto, TypeOK
  <2>4. Outcome'
    BY <1>4 DEF Answer, Goto, Outcome, TypeOK
  <2> QED BY <2>1, <2>3, <2>4
<1>5. CASE RequestFails(k)
  <2>1. TypeOK'
    BY <1>5 DEF RequestFails, Goto, TypeOK, brokers
  <2>2. Executed(k)' \subseteq Executed(k)
    BY <1>5 DEF RequestFails, Goto, Executed, TypeOK
  <2>3. ExecutedMeansDecided'
    BY <1>5, <2>2, QuietStep DEF RequestFails, Goto, TypeOK
  <2>4. Outcome'
    BY <1>5 DEF RequestFails, Goto, Outcome, TypeOK
  <2> QED BY <2>1, <2>3, <2>4
<1>6. CASE Close(k)
  <2>0. at[k] \in 1 .. Len(Servers) /\ pc[k] = "close"
    BY <1>6 DEF Close, TypeOK
  <2>1. TypeOK'
    <3>1. at' \in [Callers -> 1 .. Len(Servers) + 1] /\ open' \in [Callers -> BOOLEAN]
      BY <1>6, <2>0, LenServers DEF Close, TypeOK
    <3>2. \/ Return(k, "nil") \/ Return(k, "error")
          \/ Goto(k, "connect") /\ at'[k] <= Len(Servers)
      BY <1>6, <2>0, LenServers DEF Close, TypeOK
    <3>3. \A j \in Callers \ {k} : at'[j] = at[j]
      BY <1>6 DEF Close, TypeOK
    <3>4. /\ pc' \in [Callers -> {"idle", "connect", "request", "answer", "close", "returned"}]
          /\ result' \in [Callers -> {"none", "nil", "error"}]
          /\ \A j \in Callers :
                /\ result'[j] # "none" <=> pc'[j] = "returned"
                /\ pc'[j] \in {"connect", "request", "answer", "close"} => at'[j] <= Len(Servers)
      BY <2>0, <3>2, <3>3 DEF Return, Goto, TypeOK
    <3> QED BY <1>6, <3>1, <3>4 DEF Close, TypeOK, brokers
  <2>2. Executed(k)' \subseteq Executed(k)
    BY <1>6, <2>0, LenServers DEF Close, Goto, Return, Executed, TypeOK
  <2>3. ExecutedMeansDecided'
    BY <1>6, <2>2, QuietStep DEF Close, Goto, Return, TypeOK
  <2>4. Outcome'
    BY <1>6, <2>0, LenServers DEF Close, Goto, Return, Outcome, TypeOK
  <2> QED BY <2>1, <2>3, <2>4
<1> QED BY <1>1, <1>2, <1>3, <1>4, <1>5, <1>6 DEF Operation

(* An election lets every call off the names whose decider may be new. *)
LEMMA ElectInv ==
    ASSUME IInv, ElectController \/ \E g \in Groups : ElectCoordinator(g) PROVE IInv'
<1> USE DEF IInv
<1>1. PICK names \in SUBSET Resources :
         /\ Elect(names)
         /\ \A r \in Resources \ names : Home(r)' = Home(r)
  <2>1. CASE ElectController
    <3>1. \A r \in Resources \ Topics : Home(r)' = Home(r)
      BY <2>1 DEF ElectController, Home
    <3> QED BY <2>1, <3>1 DEF ElectController, Resources
  <2>2. ASSUME NEW g \in Groups, ElectCoordinator(g)
        PROVE  \E names \in SUBSET Resources :
                  Elect(names) /\ \A r \in Resources \ names : Home(r)' = Home(r)
    <3>1. \A r \in Resources \ {g} : Home(r)' = Home(r)
      BY <2>2 DEF ElectCoordinator, Home, Resources, TypeOK
    <3>2. Elect({g}) /\ {g} \in SUBSET Resources
      BY <2>2 DEF ElectCoordinator, Resources
    <3> QED BY <3>1, <3>2
  <2> QED BY <2>1, <2>2
<1>2. controller' \in Brokers /\ coordinator' \in [Groups -> Brokers]
  BY DEF ElectController, ElectCoordinator, TypeOK
<1>3. TypeOK'
  BY <1>1, <1>2, BoundsAssumption DEF Elect, TypeOK
<1>4. ExecutedMeansDecided'
  <2> SUFFICES ASSUME NEW k \in Callers, NEW r \in DOMAIN wanted'[k] \ excused'[k]
               PROVE  Decided(k, r)'
    BY DEF ExecutedMeansDecided
  <2>1. r \in DOMAIN wanted[k] \ excused[k] /\ r \in Resources \ names
    BY <1>1, RequestType DEF Elect, TypeOK
  <2>2. Executed(k)' = Executed(k) /\ UNCHANGED <<cluster, wanted>>
    BY <1>1 DEF Elect, Executed
  <2> QED BY <1>1, <2>1, <2>2 DEF ExecutedMeansDecided, Decided
<1>5. Outcome'
  BY <1>1 DEF Elect, Outcome
<1> QED BY <1>3, <1>4, <1>5

LEMMA NextInv == IInv /\ [Next]_vars => IInv'
<1> SUFFICES ASSUME IInv, [Next]_vars PROVE IInv'
  OBVIOUS
<1>1. CASE UNCHANGED vars
  BY <1>1 DEF vars, brokers, IInv, TypeOK, ExecutedMeansDecided, Executed,
              Decided, Home, Outcome
<1>2. ASSUME NEW k \in Callers, NEW request \in Requests, Call(k, request) PROVE IInv'
  BY <1>2, CallInv
<1>3. ASSUME NEW k \in Callers, NEW confs \in Configurations, CreateTopics(k, confs)
      PROVE  IInv'
  BY <1>2, <1>3 DEF CreateTopics, Requests
<1>4. ASSUME NEW k \in Callers, NEW names \in SUBSET Topics, DeleteTopics(k, names)
      PROVE  IInv'
  BY <1>2, <1>4 DEF DeleteTopics, Requests
<1>5. ASSUME NEW k \in Callers, NEW names \in SUBSET Groups, DeleteGroups(k, names)
      PROVE  IInv'
  BY <1>2, <1>5 DEF DeleteGroups, Requests
<1> QED BY <1>1, <1>3, <1>4, <1>5, OperationInv, ElectInv DEF Next

THEOREM Invariance == Spec => []IInv
  BY InitInv, NextInv, PTL DEF Spec

(* The variables, and the labels of a call with its loop and its result. *)
THEOREM TypeCorrect == Spec => []TypeOK
  BY Invariance, PTL DEF IInv

(* Whatever its decider was asked, with an answer, is in the wanted state, *)
(* refused, or disturbed by others.                                        *)
THEOREM AnswersDecide == Spec => []AnsweredMeansDecided
<1>1. IInv => AnsweredMeansDecided
  <2> SUFFICES ASSUME IInv, NEW k \in Callers, NEW r \in DOMAIN wanted[k] \ excused[k],
                      Home(r) \in AskedServers(k)
               PROVE  cluster[r] = wanted[k][r]
    BY DEF AnsweredMeansDecided
  <2>1. PICK i \in 1 .. at[k] - 1 : Home(r) = Servers[i]
    BY DEF AskedServers
  <2>2. i \in Executed(k)
    BY <2>1, LenServers DEF Executed, IInv, TypeOK
  <2> QED BY <2>1, <2>2 DEF IInv, ExecutedMeansDecided, Decided
<1> QED BY <1>1, Invariance, PTL

(* nil speaks for every name whose decider is a bootstrap server. *)
THEOREM NilIsTrue == Spec => []NilMeansDecided
<1>1. IInv => NilMeansDecided
  <2> SUFFICES ASSUME IInv, NEW k \in Callers, result[k] = "nil",
                      NEW r \in DOMAIN wanted[k] \ excused[k],
                      NEW i \in DOMAIN Servers, Servers[i] = Home(r)
               PROVE  cluster[r] = wanted[k][r]
    BY DEF NilMeansDecided
  <2>1. i \in Executed(k)
    BY LenServers DEF Executed, IInv, Outcome
  <2> QED BY <2>1 DEF IInv, ExecutedMeansDecided, Decided
<1> QED BY <1>1, Invariance, PTL

(* A call that has returned holds no connection. *)
THEOREM NoConnectionLeaks == Spec => []ConnectionsReleased
<1>1. IInv => ConnectionsReleased
  BY DEF IInv, TypeOK, Outcome, ConnectionsReleased
<1> QED BY <1>1, Invariance, PTL
=============================================================================
