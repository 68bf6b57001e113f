------------------------ MODULE ConsumerGroupHandler ------------------------
(***************************************************************************)
(* The claim loop of kafka/impl/sarama_consumer_group_handler.go, one per  *)
(* claimed partition, inside the consumer group sessions that sarama runs  *)
(* it in.  A member is one process of the service with one consumer of the *)
(* group; its sessions start at a rebalance and end at the next one, at a  *)
(* broker error or at Stop.                                                *)
(*                                                                         *)
(* ConsumeClaim is split where another goroutine can interleave: receiving *)
(* from claim.Messages(), HandlerFunc, MarkMessage, Commit.  The broker    *)
(* (logs, group coordinator, committed offsets) and the session of sarama  *)
(* are external: they are modelled as this code uses them.                 *)
(***************************************************************************)
EXTENDS Integers, FiniteSets

CONSTANTS
    Members,         \* consumers of one group, each in a process of its own
    Partitions,      \* partitions of the topics of the group
    CommitMode,      \* app.kafka.consumer.commitMode
    InitialOffset,   \* app.kafka.consumer.initialOffset
    CrashesHappen,   \* whether a process may die by itself
    MaxMessages,     \* bound: messages written to one partition
    MaxGeneration    \* bound: rebalances of the group

AutoInterval    == "AUTO_COMMIT_INTERVAL"
AutoImmediately == "AUTO_COMMIT_IMMEDIATELY"

ASSUME MembersAssumption    == Members # {} /\ IsFiniteSet(Members)
ASSUME PartitionsAssumption == Partitions # {} /\ IsFiniteSet(Partitions)
ASSUME CommitModeAssumption == CommitMode \in {AutoInterval, AutoImmediately}
ASSUME InitialOffsetAssumption == InitialOffset \in {"newest", "oldest"}
ASSUME CrashesAssumption == CrashesHappen \in BOOLEAN
ASSUME BoundsAssumption ==
    MaxMessages \in Nat \ {0} /\ MaxGeneration \in Nat \ {0}

VARIABLES
    end,         \* end[p]: number of messages in the log of partition p
    committed,   \* committed[p]: the group's committed offset, 0 when it has none
    generation,  \* generation of the group at its coordinator
    state,       \* state[m]: "down", "joining", "active" or "ending"
    mgen,        \* mgen[m]: generation of m's session
    claims,      \* claims[m]: partitions the session of m claims
    closed,      \* closed[m]: claims whose Messages() is closed and drained
    pc,          \* pc[m][p]: where the ConsumeClaim goroutine of p stands
    pos,         \* pos[m][p]: offset of the message at hand, or of the next one
    marked,      \* marked[m][p]: offset marked in this session, 0 when none is
    handled,     \* history: offsets HandlerFunc has returned from
    skipped,     \* history: offsets the group passed over, InitialOffset "newest"
    refused,     \* history: offsets the broker refused to commit, by partition
    dropped      \* history: offsets a process took with it before they were committed

broker  == <<end, committed, generation>>
session == <<state, mgen, claims, closed>>
loop    == <<pc, pos, marked>>
history == <<handled, skipped, refused, dropped>>
vars    == <<broker, session, loop, history>>

PCs == {"idle", "fetch", "starting", "select", "handle", "mark", "commit", "returned"}

Offsets == 0 .. MaxMessages - 1

(* Type invariant. *)
TypeOK ==
    /\ end \in [Partitions -> 0 .. MaxMessages]
    /\ committed \in [Partitions -> 0 .. MaxMessages]
    /\ generation \in 0 .. MaxGeneration
    /\ state \in [Members -> {"down", "joining", "active", "ending"}]
    /\ mgen \in [Members -> 0 .. MaxGeneration]
    /\ claims \in [Members -> SUBSET Partitions]
    /\ closed \in [Members -> SUBSET Partitions]
    /\ pc \in [Members -> [Partitions -> PCs]]
    /\ pos \in [Members -> [Partitions -> 0 .. MaxMessages]]
    /\ marked \in [Members -> [Partitions -> 0 .. MaxMessages]]
    /\ handled \in [Partitions -> SUBSET Offsets]
    /\ skipped \in [Partitions -> SUBSET Offsets]
    /\ refused \in [Partitions -> SUBSET Offsets]
    /\ dropped \in [Partitions -> SUBSET Offsets]

Init ==
    /\ end = [p \in Partitions |-> 0]
    /\ committed = [p \in Partitions |-> 0]
    /\ generation = 0
    /\ state = [m \in Members |-> "down"]
    /\ mgen = [m \in Members |-> 0]
    /\ claims = [m \in Members |-> {}]
    /\ closed = [m \in Members |-> {}]
    /\ pc = [m \in Members |-> [p \in Partitions |-> "idle"]]
    /\ pos = [m \in Members |-> [p \in Partitions |-> 0]]
    /\ marked = [m \in Members |-> [p \in Partitions |-> 0]]
    /\ handled = [p \in Partitions |-> {}]
    /\ skipped = [p \in Partitions |-> {}]
    /\ refused = [p \in Partitions |-> {}]
    /\ dropped = [p \in Partitions |-> {}]

InSession(m) == state[m] \in {"active", "ending"}
At(m, p, label) == InSession(m) /\ p \in claims[m] /\ pc[m][p] = label
Goto(m, p, label) == pc' = [pc EXCEPT ![m][p] = label]

(* Bound: a session ends, or a process dies, only while another rebalance  *)
(* is within MaxGeneration or the group has already moved on without it.   *)
MayEnd(m) == mgen[m] < generation \/ generation < MaxGeneration

-----------------------------------------------------------------------------
(* The broker and the session of sarama *)

Produce(p) ==
    /\ end[p] < MaxMessages
    /\ end' = [end EXCEPT ![p] = @ + 1]
    /\ UNCHANGED <<committed, generation, session, loop, history>>

(* A process starts, or is started again, and its consumer joins the group. *)
Start(m) ==
    /\ state[m] = "down"
    /\ state' = [state EXCEPT ![m] = "joining"]
    /\ UNCHANGED <<broker, mgen, claims, closed, loop, history>>

Joining == {m \in Members : state[m] = "joining"}

(* The coordinator closes a join phase: the members that have joined share *)
(* the partitions; one that still holds a session (it missed the rebalance *)
(* timeout) is left out and its generation is stale from now on.           *)
Rebalance ==
    /\ Joining # {}
    /\ generation < MaxGeneration
    /\ generation' = generation + 1
    /\ \E owner \in [Partitions -> Joining] :
          /\ claims' = [m \in Members |->
                          IF m \in Joining THEN {p \in Partitions : owner[p] = m}
                                           ELSE claims[m]]
          /\ pc' = [m \in Members |->
                      IF m \in Joining
                      THEN [p \in Partitions |-> IF owner[p] = m THEN "fetch" ELSE "idle"]
                      ELSE pc[m]]
    /\ state' = [m \in Members |-> IF m \in Joining THEN "active" ELSE state[m]]
    /\ mgen' = [m \in Members |-> IF m \in Joining THEN generation + 1 ELSE mgen[m]]
    /\ closed' = [m \in Members |-> IF m \in Joining THEN {} ELSE closed[m]]
    /\ marked' = [m \in Members |->
                    IF m \in Joining THEN [p \in Partitions |-> 0] ELSE marked[m]]
    /\ pos' = [m \in Members |->
                 IF m \in Joining THEN [p \in Partitions |-> 0] ELSE pos[m]]
    /\ UNCHANGED <<end, committed, history>>

(* Before Setup the session asks for the committed offset of each of its   *)
(* partitions; the broker answers a member of a stale generation as well.  *)
FetchOffset(m, p) ==
    /\ At(m, p, "fetch")
    /\ Goto(m, p, "starting")
    /\ pos' = [pos EXCEPT ![m][p] = committed[p]]
    /\ UNCHANGED <<broker, session, marked, history>>

SetUp(m) == \A p \in claims[m] : pc[m][p] # "fetch"

(* Faulty variant of StartClaim: Consumer.InitialOffset is not looked at. *)
StartClaimAtNewest(m, p) ==
    /\ At(m, p, "starting")
    /\ state[m] = "active" /\ SetUp(m)
    /\ Goto(m, p, "select")
    /\ pos' = [pos EXCEPT ![m][p] = IF @ > 0 THEN @ ELSE end[p]]
    /\ skipped' = IF pos[m][p] = 0 /\ mgen[m] = generation
                  THEN [skipped EXCEPT ![p] = @ \cup ((0 .. end[p] - 1) \ handled[p])]
                  ELSE skipped
    /\ UNCHANGED <<broker, session, marked, handled, refused, dropped>>

(* After Setup the goroutine of the claim makes the partition consumer: it *)
(* reads on from the offset that was fetched.  When there was none it asks *)
(* where Consumer.Offsets.Initial is now; the group has passed over what   *)
(* is before the end only if the member has not been evicted meanwhile.    *)
StartClaim(m, p) ==
    /\ At(m, p, "starting")
    /\ state[m] = "active" /\ SetUp(m)
    /\ Goto(m, p, "select")
    /\ \/ /\ pos[m][p] > 0 \/ InitialOffset = "oldest"
          /\ UNCHANGED <<pos, skipped>>
       \/ /\ pos[m][p] = 0 /\ InitialOffset = "newest"
          /\ pos' = [pos EXCEPT ![m][p] = end[p]]
          /\ skipped' = IF mgen[m] = generation
                        THEN [skipped EXCEPT ![p] = @ \cup ((0 .. end[p] - 1) \ handled[p])]
                        ELSE skipped
    /\ UNCHANGED <<broker, session, marked, handled, refused, dropped>>

(* Quick exit of the claim goroutine when the session is already over. *)
SkipClaim(m, p) ==
    /\ At(m, p, "starting")
    /\ state[m] = "ending" /\ SetUp(m)
    /\ Goto(m, p, "returned")
    /\ UNCHANGED <<broker, session, pos, marked, history>>

(* The session context is cancelled: rebalance, lost heartbeat, closed     *)
(* group, or the return of one of the claims.                              *)
EndSession(m) ==
    /\ state[m] = "active"
    /\ MayEnd(m)
    /\ state' = [state EXCEPT ![m] = "ending"]
    /\ UNCHANGED <<broker, mgen, claims, closed, loop, history>>

(* AsyncClose of the partition consumer takes effect: what was buffered is *)
(* consumed or dropped and claim.Messages() is a closed channel.           *)
CloseClaim(m, p) ==
    /\ state[m] = "ending"
    /\ p \in claims[m] \ closed[m]
    /\ closed' = [closed EXCEPT ![m] = @ \cup {p}]
    /\ UNCHANGED <<broker, state, mgen, claims, loop, history>>

(* A commit request of m carries every offset its session has marked above *)
(* the committed one.  The broker takes none from a stale generation, and  *)
(* may refuse some partitions; nobody reports that to the handler.         *)
Flush(m) ==
    LET dirty == {p \in claims[m] : marked[m][p] > committed[p]} IN
    \E accepted \in SUBSET dirty :
       /\ mgen[m] # generation => accepted = {}
       /\ committed' = [p \in Partitions |->
                          IF p \in accepted THEN marked[m][p] ELSE committed[p]]
       /\ refused' = [p \in Partitions |->
                        IF p \in dirty \ accepted
                        THEN refused[p] \cup (committed[p] .. marked[m][p] - 1)
                        ELSE refused[p]]

(* The ticker of the offset manager, in mode AUTO_COMMIT_INTERVAL. *)
AutoCommit(m) ==
    /\ CommitMode = AutoInterval
    /\ InSession(m)
    /\ Flush(m)
    /\ UNCHANGED <<end, generation, session, loop, handled, skipped, dropped>>

(* Faulty variants of Release: no flush when a session ends; Consume is    *)
(* not called again.                                                       *)
ReleaseWithoutFlush(m) ==
    /\ state[m] = "ending"
    /\ \A p \in claims[m] : pc[m][p] = "returned"
    /\ state' = [state EXCEPT ![m] = "joining"]
    /\ UNCHANGED <<broker, mgen, claims, closed, loop, history>>
ReleaseForGood(m) ==
    /\ state[m] = "ending"
    /\ \A p \in claims[m] : pc[m][p] = "returned"
    /\ state' = [state EXCEPT ![m] = "exited"]
    /\ UNCHANGED <<broker, mgen, claims, closed, loop, history>>

(* All claims have returned: Cleanup, the last flush of the offset manager *)
(* (only when it commits by itself), and Consume returns; the member's     *)
(* loop calls Consume again.                                               *)
Release(m) ==
    /\ state[m] = "ending"
    /\ \A p \in claims[m] : pc[m][p] = "returned"
    /\ state' = [state EXCEPT ![m] = "joining"]
    /\ IF CommitMode = AutoInterval THEN Flush(m) ELSE UNCHANGED <<committed, refused>>
    /\ UNCHANGED <<end, generation, mgen, claims, closed, loop, handled, skipped, dropped>>

(* What m has handled, or marked, of p and the group has not committed. *)
Owed(m, p) ==
    {o \in Offsets : /\ o >= committed[p]
                     /\ o < marked[m][p] \/ (pc[m][p] = "mark" /\ o = pos[m][p])}

ProcessDies(m) ==
    /\ state' = [state EXCEPT ![m] = "down"]
    /\ dropped' = [p \in Partitions |->
                     IF p \in claims[m] THEN dropped[p] \cup Owed(m, p) ELSE dropped[p]]
    /\ UNCHANGED <<broker, mgen, claims, closed, loop, handled, skipped, refused>>

Crash(m) == CrashesHappen /\ InSession(m) /\ MayEnd(m) /\ ProcessDies(m)

-----------------------------------------------------------------------------
(* ConsumeClaim *)

(* Faulty variant of Receive: the message is marked before it is handled. *)
ReceiveThenMark(m, p) ==
    /\ At(m, p, "select")
    /\ p \notin closed[m]
    /\ pos[m][p] < end[p]
    /\ Goto(m, p, "mark")
    /\ UNCHANGED <<broker, session, pos, marked, history>>

(* case msg := <-claim.Messages(), with a message.  Both cases of the      *)
(* select may be ready: a message that was fetched is still taken after    *)
(* the session is over.                                                    *)
Receive(m, p) ==
    /\ At(m, p, "select")
    /\ p \notin closed[m]
    /\ pos[m][p] < end[p]
    /\ Goto(m, p, "handle")
    /\ UNCHANGED <<broker, session, pos, marked, history>>

(* case msg := <-claim.Messages(), from the closed channel: msg is nil and *)
(* ToCoreConsumerMessage dereferences it.  No goroutine recovers.          *)
ReceiveNil(m, p) ==
    /\ At(m, p, "select")
    /\ p \in closed[m]
    /\ ProcessDies(m)

(* case <-sess.Context().Done() *)
Done(m, p) ==
    /\ At(m, p, "select")
    /\ state[m] = "ending"
    /\ Goto(m, p, "returned")
    /\ UNCHANGED <<broker, session, pos, marked, history>>

(* Faulty variant of Handle: HandlerFunc is left running, go HandlerFunc(). *)
HandleInBackground(m, p) ==
    /\ At(m, p, "handle")
    /\ Goto(m, p, "mark")
    /\ UNCHANGED <<broker, session, pos, marked, history>>

Handle(m, p) ==
    /\ At(m, p, "handle")
    /\ handled' = [handled EXCEPT ![p] = @ \cup {pos[m][p]}]
    /\ Goto(m, p, "mark")
    /\ UNCHANGED <<broker, session, pos, marked, skipped, refused, dropped>>

(* Faulty variants of Mark: the offset after the next one is marked; there *)
(* is no Commit after it.                                                  *)
MarkBeyond(m, p) ==
    /\ At(m, p, "mark")
    /\ marked' = [marked EXCEPT ![m][p] = pos[m][p] + 2]
    /\ pos' = [pos EXCEPT ![m][p] = @ + 1]
    /\ Goto(m, p, IF CommitMode = AutoImmediately THEN "commit" ELSE "select")
    /\ UNCHANGED <<broker, session, history>>
MarkWithoutCommit(m, p) ==
    /\ At(m, p, "mark")
    /\ marked' = [marked EXCEPT ![m][p] = pos[m][p] + 1]
    /\ pos' = [pos EXCEPT ![m][p] = @ + 1]
    /\ Goto(m, p, "select")
    /\ UNCHANGED <<broker, session, history>>

(* sess.MarkMessage(msg, ""), and the test of AutoCommit.Enable after it. *)
Mark(m, p) ==
    /\ At(m, p, "mark")
    /\ marked' = [marked EXCEPT ![m][p] = pos[m][p] + 1]
    /\ pos' = [pos EXCEPT ![m][p] = @ + 1]
    /\ Goto(m, p, IF CommitMode = AutoImmediately THEN "commit" ELSE "select")
    /\ UNCHANGED <<broker, session, history>>

Commit(m, p) ==
    /\ At(m, p, "commit")
    /\ Flush(m)
    /\ Goto(m, p, "select")
    /\ UNCHANGED <<end, generation, session, pos, marked, handled, skipped, dropped>>

-----------------------------------------------------------------------------
ConsumeClaim(m, p) ==
    \/ Receive(m, p) \/ ReceiveNil(m, p) \/ Done(m, p)
    \/ Handle(m, p) \/ Mark(m, p) \/ Commit(m, p)

SessionStep(m) ==
    \/ Start(m) \/ EndSession(m) \/ AutoCommit(m) \/ Release(m) \/ Crash(m)
    \/ \E p \in Partitions :
          \/ FetchOffset(m, p) \/ StartClaim(m, p) \/ SkipClaim(m, p)
          \/ CloseClaim(m, p)

Next ==
    \/ \E p \in Partitions : Produce(p)
    \/ Rebalance
    \/ \E m \in Members : SessionStep(m)
    \/ \E m \in Members, p \in Partitions : ConsumeClaim(m, p)

Spec == Init /\ [][Next]_vars

(* Scheduling: goroutines run, handlers return, the coordinator closes a   *)
(* join phase it has opened, a stale member learns of it by its heartbeat, *)
(* and whoever runs the service starts a process again.  Messages are      *)
(* produced, sessions of the current generation end, offsets are committed *)
(* by the ticker and processes crash without any fairness.                 *)
Fairness ==
    /\ WF_vars(Rebalance)
    /\ \A m \in Members :
          /\ WF_vars(Start(m))
          /\ WF_vars(mgen[m] < generation /\ EndSession(m))
          /\ WF_vars(Release(m))
          /\ \A p \in Partitions :
                /\ WF_vars(FetchOffset(m, p) \/ StartClaim(m, p) \/ SkipClaim(m, p))
                /\ WF_vars(CloseClaim(m, p))
                /\ WF_vars(ConsumeClaim(m, p))

FairSpec == Spec /\ Fairness

-----------------------------------------------------------------------------
(* Properties *)

Settled == [p \in Partitions |-> handled[p] \cup skipped[p]]

(* HAZARD ordering of HandlerFunc, MarkMessage and Commit in ConsumeClaim  *)
(* and between the claims of one session: an offset is committed only when *)
(* HandlerFunc has returned from every message below it, whoever committed *)
(* it, so no crash or rebalance loses a message.                           *)
CommittedWasHandled ==
    \A p \in Partitions : 0 .. committed[p] - 1 \subseteq Settled[p]

(* HAZARD one commit request carries the marks of all claims of a session, *)
(* and those of an old session may be outstanding: whatever was marked, or *)
(* left behind by a claim that reads on, has been handled or passed over,  *)
(* so that any commit the broker takes is sound.  (Not so of an evicted    *)
(* member that starts at the newest offset, but its commits are refused.)  *)
(* The message a claim has at hand is one of the log.                      *)
ClaimCoversItsPast ==
    \A m \in Members, p \in Partitions :
       /\ mgen[m] = generation \/ InitialOffset = "oldest" =>
             0 .. marked[m][p] - 1 \subseteq Settled[p] /\ 0 .. pos[m][p] - 1 \subseteq Settled[p]
       /\ pc[m][p] \in {"handle", "mark"} => pos[m][p] < end[p]
       /\ pc[m][p] = "mark" => pos[m][p] \in handled[p]

(* HAZARD commits fail and nobody tells the handler.  In mode              *)
(* AUTO_COMMIT_IMMEDIATELY, from the oldest offset: apart from those whose *)
(* commit the broker refused, at most one message of a partition that      *)
(* HandlerFunc has returned from can be delivered again, whatever crashes  *)
(* and rebalances.  (Not so with "newest": before the first commit an      *)
(* evicted member may start its claim beyond the one of the new owner.)    *)
ReplayWindow ==
    CommitMode = AutoImmediately /\ InitialOffset = "oldest" =>
       \A p \in Partitions :
          Cardinality({o \in handled[p] \ refused[p] : o >= committed[p]}) <= 1

(* HAZARD marks are kept in the session and go with it: a message that     *)
(* HandlerFunc has returned from and the group has not committed is one    *)
(* that a session which is not over yet still owes, unless a commit of it  *)
(* was refused or a process died with it.  So no session that ends in an   *)
(* orderly way leaves anything to be handled twice: because of the Commit  *)
(* in ConsumeClaim in one mode, of the last flush in the other.            *)
OwedIsHeld ==
    \A p \in Partitions : \A o \in handled[p] \ (refused[p] \cup dropped[p]) :
       o >= committed[p] =>
          \E m \in Members : InSession(m) /\ p \in claims[m] /\ o \in Owed(m, p)

(* The consumer group implements the abstract log consumer.  *)
Abstract == INSTANCE AtLeastOnce
    WITH FromOldest <- InitialOffset = "oldest",
         produced <- end, settled <- Settled, acknowledged <- committed
ImplementsAtLeastOnce == Abstract!Spec

(* HAZARD two members may be at one partition, the one that owns it and    *)
(* one that was evicted: from the oldest offset, whoever handles what and  *)
(* when, the offsets that are handled are a prefix of the log without a    *)
(* gap.  (From the newest the evicted one may start beyond the owner.)     *)
SettledInOrder ==
    InitialOffset = "oldest" =>
       \A p \in Partitions : \A o \in Settled[p] : o < end[p] /\ 0 .. o \subseteq Settled[p]

(* The claim of p reads on in a session of m. *)
Reads(m, p) ==
    /\ InSession(m) /\ p \in claims[m]
    /\ pc[m][p] \in {"select", "handle", "mark", "commit"}

(* HAZARD commits of the owner, of its other claims, of the ticker and of  *)
(* evicted members all move the offset of the group: none of them moves it *)
(* past the claim that reads the partition now, so that the owner is never *)
(* handed a message that the group has already committed.                  *)
OwnerIsAhead ==
    \A m \in Members, p \in Partitions :
       Reads(m, p) /\ mgen[m] = generation => committed[p] <= pos[m][p]

(* Every message is in the end handled, or was passed over because the     *)
(* group started at the newest offset: no rebalance, crash, nil message or *)
(* refused commit strands it.                                              *)
EveryMessageSettled ==
    \A p \in Partitions : \A o \in 0 .. MaxMessages - 1 :
       (o < end[p]) ~> (o \in Settled[p])

(* "Consumer session closed, ... stops taking new messages" (the log line  *)
(* of the Done case): the end of a session does not take the process down. *)
SessionEndIsGraceful ==
    [][\A m \in Members : state[m] = "ending" => state'[m] # "down"]_vars
=============================================================================
