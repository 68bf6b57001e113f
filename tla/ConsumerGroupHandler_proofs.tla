--------------------- MODULE ConsumerGroupHandler_proofs ---------------------
(***************************************************************************)
(* Proofs about ConsumerGroupHandler, for any members, partitions, commit  *)
(* mode, initial offset and bounds: its type invariant, that an offset is  *)
(* committed only when everything below it is handled or passed over, what *)
(* a session owes as long as it lasts, that evicted members do not get in  *)
(* the way of the owner of a partition, and that the group implements      *)
(* AtLeastOnce and so keeps its promises.                                  *)
(***************************************************************************)
EXTENDS ConsumerGroupHandler, FiniteSetTheorems, TLAPS

(* One claim's part of ClaimCoversItsPast. *)
Covered(m, p) ==
    /\ mgen[m] = generation \/ InitialOffset = "oldest" =>
          0 .. marked[m][p] - 1 \subseteq Settled[p] /\ 0 .. pos[m][p] - 1 \subseteq Settled[p]
    /\ pc[m][p] \in {"handle", "mark"} => pos[m][p] < end[p]
    /\ pc[m][p] = "mark" => pos[m][p] \in handled[p]

(* The inductive invariant.  That what is committed is settled holds since *)
(* whatever a session of the current generation could commit is, and no    *)
(* session comes back to it once the group has moved on.                   *)
IInv ==
    /\ TypeOK
    /\ \A m \in Members : mgen[m] <= generation
    /\ ClaimCoversItsPast
    /\ CommittedWasHandled

LEMMA CoveredAll == ClaimCoversItsPast <=> \A m \in Members, p \in Partitions : Covered(m, p)
  BY DEF ClaimCoversItsPast, Covered

LEMMA CoveredAllPrime ==
    ClaimCoversItsPast' <=> \A m \in Members, p \in Partitions : Covered(m, p)'
  BY DEF ClaimCoversItsPast, Covered

(* Settled, partition by partition. *)
LEMMA SettledAt ==
    ASSUME NEW p \in Partitions
    PROVE  Settled[p] = handled[p] \cup skipped[p]
  BY DEF Settled

LEMMA SettledAtPrime ==
    ASSUME NEW p \in Partitions
    PROVE  Settled'[p] = handled'[p] \cup skipped'[p]
  BY DEF Settled

(* A commit request commits offsets below which all is settled, and takes  *)
(* none back.  What it carries is committed then, or has been refused.     *)
LEMMA FlushIsSound ==
    ASSUME IInv, NEW m \in Members, Flush(m)
    PROVE  /\ committed' \in [Partitions -> 0 .. MaxMessages]
           /\ refused' \in [Partitions -> SUBSET Offsets]
           /\ \A p \in Partitions : /\ committed[p] <= committed'[p]
                                    /\ 0 .. committed'[p] - 1 \subseteq Settled[p]
                                    /\ refused[p] \subseteq refused'[p]
           /\ \A p \in claims[m] : \A o \in Offsets :
                 committed'[p] <= o /\ o < marked[m][p] => o \in refused'[p]
<1> DEFINE dirty == {p \in claims[m] : marked[m][p] > committed[p]}
<1>0. /\ \A p \in Partitions : marked[m][p] \in 0 .. MaxMessages /\ committed[p] \in 0 .. MaxMessages
      /\ claims[m] \subseteq Partitions
      /\ refused \in [Partitions -> SUBSET Offsets]
      /\ MaxMessages \in Nat
  BY BoundsAssumption DEF IInv, TypeOK
<1>1. PICK accepted \in SUBSET dirty :
         /\ mgen[m] # generation => accepted = {}
         /\ committed' = [p \in Partitions |->
                            IF p \in accepted THEN marked[m][p] ELSE committed[p]]
         /\ refused' = [p \in Partitions |->
                          IF p \in dirty \ accepted
                          THEN refused[p] \cup (committed[p] .. marked[m][p] - 1)
                          ELSE refused[p]]
  BY DEF Flush
<1>2. committed' \in [Partitions -> 0 .. MaxMessages]
  BY <1>0, <1>1
<1>3. refused' \in [Partitions -> SUBSET Offsets]
  <2>1. \A p \in Partitions : committed[p] .. marked[m][p] - 1 \subseteq Offsets
    BY <1>0 DEF Offsets
  <2> QED BY <1>0, <1>1, <2>1
<1>4. ASSUME NEW p \in Partitions
      PROVE  /\ committed[p] <= committed'[p]
             /\ 0 .. committed'[p] - 1 \subseteq Settled[p]
             /\ refused[p] \subseteq refused'[p]
  <2>1. CASE p \in accepted
    <3>1. committed'[p] = marked[m][p] /\ marked[m][p] > committed[p]
      BY <1>1, <2>1
    <3>2. 0 .. marked[m][p] - 1 \subseteq Settled[p]
      BY <1>1, <2>1 DEF IInv, ClaimCoversItsPast
    <3> QED BY <1>0, <1>1, <3>1, <3>2
  <2>2. CASE p \notin accepted
    <3>1. committed'[p] = committed[p]
      BY <1>1, <2>2
    <3> QED BY <1>0, <1>1, <3>1 DEF IInv, CommittedWasHandled
  <2> QED BY <2>1, <2>2
<1>5. ASSUME NEW p \in claims[m], NEW o \in Offsets, committed'[p] <= o, o < marked[m][p]
      PROVE  o \in refused'[p]
  <2>1. p \in Partitions /\ o \in Int
    BY <1>0 DEF Offsets
  <2>2. p \notin accepted
    BY <1>0, <1>1, <1>5, <2>1
  <2>3. committed'[p] = committed[p] /\ p \in dirty
    BY <1>0, <1>1, <1>5, <2>1, <2>2
  <2>4. o \in committed[p] .. marked[m][p] - 1
    BY <1>0, <1>5, <2>1, <2>3
  <2> QED BY <1>1, <2>1, <2>2, <2>3, <2>4
<1> QED BY <1>2, <1>3, <1>4, <1>5

(* A claim stays covered in a step that settles, if anything, more, hands  *)
(* it no message and moves it, if at all, to the start of a new session.   *)
LEMMA QuietStep ==
    ASSUME NEW m \in Members, NEW p \in Partitions, IInv,
           end[p] <= end'[p] /\ end'[p] \in Int,
           handled[p] \subseteq handled'[p], skipped[p] \subseteq skipped'[p],
           \/ pc'[m][p] = pc[m][p] /\ pos'[m][p] = pos[m][p]
           \/ pc'[m][p] \notin {"handle", "mark"},
           \/ /\ marked'[m][p] = marked[m][p] /\ pos'[m][p] = pos[m][p]
              /\ mgen'[m] = generation' => mgen[m] = generation
           \/ marked'[m][p] = 0 /\ pos'[m][p] = 0
    PROVE  Covered(m, p)'
<1>1. Covered(m, p)
  BY CoveredAll DEF IInv
<1>2. Settled[p] \subseteq Settled'[p]
  BY SettledAt, SettledAtPrime
<1>3. /\ pc'[m][p] \in {"handle", "mark"} => pos'[m][p] < end'[p]
      /\ pc'[m][p] = "mark" => pos'[m][p] \in handled'[p]
  <2>1. pos[m][p] \in Int /\ end[p] \in Int
    BY DEF IInv, TypeOK
  <2> QED BY <1>1, <2>1 DEF Covered
<1>4. ASSUME mgen'[m] = generation' \/ InitialOffset = "oldest"
      PROVE  /\ 0 .. marked'[m][p] - 1 \subseteq Settled'[p]
             /\ 0 .. pos'[m][p] - 1 \subseteq Settled'[p]
  <2>1. CASE marked'[m][p] = 0 /\ pos'[m][p] = 0
    BY <2>1
  <2>2. CASE /\ marked'[m][p] = marked[m][p] /\ pos'[m][p] = pos[m][p]
             /\ mgen'[m] = generation' => mgen[m] = generation
    BY <1>1, <1>2, <1>4, <2>2 DEF Covered
  <2> QED BY <2>1, <2>2
<1> QED BY <1>3, <1>4 DEF Covered

LEMMA InitInv == Init => IInv
<1> SUFFICES ASSUME Init PROVE IInv
  OBVIOUS
<1>1. TypeOK
  <2>1. 0 \in 0 .. MaxMessages /\ 0 \in 0 .. MaxGeneration /\ "idle" \in PCs
    BY BoundsAssumption DEF PCs
  <2> QED BY <2>1 DEF Init, TypeOK
<1>2. ClaimCoversItsPast
  BY DEF Init, ClaimCoversItsPast
<1>3. CommittedWasHandled /\ \A m \in Members : mgen[m] <= generation
  BY DEF Init, CommittedWasHandled
<1> QED BY <1>1, <1>2, <1>3 DEF IInv

(* A step inside a session that moves no goroutine. *)
LEMMA StillInv ==
    ASSUME IInv, TypeOK', UNCHANGED <<broker, mgen, loop, handled, skipped>>
    PROVE  IInv'
  BY DEF IInv, ClaimCoversItsPast, CommittedWasHandled, Settled, broker, loop

(* One that moves one goroutine to another place, but not to a message.    *)
LEMMA GotoInv ==
    ASSUME IInv, NEW m \in Members, NEW p \in Partitions,
           NEW label \in PCs \ {"handle", "mark"}, Goto(m, p, label),
           UNCHANGED <<broker, session, pos, marked, history>>
    PROVE  IInv'
<1>1. TypeOK'
  BY DEF IInv, Goto, TypeOK, broker, session, history
<1>2. ASSUME NEW n \in Members, NEW q \in Partitions PROVE Covered(n, q)'
  <2>1. pc'[n][q] = pc[n][q] \/ pc'[n][q] = label
    BY DEF Goto, IInv, TypeOK
  <2>2. end[q] \in Int
    BY DEF IInv, TypeOK
  <2> QED BY <2>1, <2>2, QuietStep DEF broker, session, history
<1>3. CommittedWasHandled' /\ \A n \in Members : mgen'[n] <= generation'
  BY DEF IInv, CommittedWasHandled, Settled, broker, session, history
<1> QED BY <1>1, <1>2, <1>3, CoveredAllPrime DEF IInv

LEMMA RebalanceInv == ASSUME IInv, Rebalance PROVE IInv'
<1>1. TypeOK'
  BY BoundsAssumption DEF IInv, Rebalance, TypeOK, history, PCs
<1>2. UNCHANGED <<end, committed, history>> /\ generation' = generation + 1
  BY DEF Rebalance
<1>3. generation \in Int /\ \A n \in Members : mgen[n] \in Int /\ mgen[n] <= generation
  BY DEF IInv, TypeOK
<1>4. ASSUME NEW n \in Members
      PROVE  /\ mgen'[n] <= generation'
             /\ \/ /\ mgen'[n] = generation'
                   /\ \A q \in Partitions : /\ marked'[n][q] = 0 /\ pos'[n][q] = 0
                                            /\ pc'[n][q] \notin {"handle", "mark"}
                \/ /\ mgen'[n] # generation'
                   /\ marked'[n] = marked[n] /\ pos'[n] = pos[n] /\ pc'[n] = pc[n]
  BY <1>2, <1>3 DEF Rebalance
<1>5. ASSUME NEW n \in Members, NEW q \in Partitions PROVE Covered(n, q)'
  <2>1. end[q] \in Int
    BY DEF IInv, TypeOK
  <2> QED BY <1>2, <1>4, <2>1, QuietStep DEF history
<1>6. CommittedWasHandled'
  BY <1>2 DEF IInv, history, CommittedWasHandled, Settled
<1> QED BY <1>1, <1>4, <1>5, <1>6, CoveredAllPrime DEF IInv

LEMMA FetchOffsetInv ==
    ASSUME IInv, NEW m \in Members, NEW p \in Partitions, FetchOffset(m, p)
    PROVE  IInv'
<1>1. /\ pc' = [pc EXCEPT ![m][p] = "starting"]
      /\ pos' = [pos EXCEPT ![m][p] = committed[p]]
      /\ UNCHANGED <<broker, session, marked, history>>
  BY DEF FetchOffset, Goto
<1>2. TypeOK'
  BY <1>1 DEF IInv, TypeOK, broker, session, history, PCs
<1>3. Settled' = Settled
  BY <1>1 DEF Settled, history
<1>4. ASSUME NEW n \in Members, NEW q \in Partitions PROVE Covered(n, q)'
  <2>1. CASE n = m /\ q = p
    <3>1. pos'[m][p] = committed[p] /\ pc'[m][p] = "starting" /\ marked' = marked
      BY <1>1 DEF IInv, TypeOK
    <3>2. 0 .. committed[p] - 1 \subseteq Settled[p]
      BY DEF IInv, CommittedWasHandled
    <3>3. Covered(m, p)
      BY CoveredAll DEF IInv
    <3> QED BY <1>1, <1>3, <2>1, <3>1, <3>2, <3>3 DEF Covered, broker, session
  <2>2. CASE ~(n = m /\ q = p)
    <3>1. pos'[n][q] = pos[n][q] /\ pc'[n][q] = pc[n][q] /\ end[q] \in Int
      BY <1>1, <2>2 DEF IInv, TypeOK
    <3> QED BY <1>1, <3>1, QuietStep DEF broker, session, history
  <2> QED BY <2>1, <2>2
<1>5. CommittedWasHandled' /\ \A n \in Members : mgen'[n] <= generation'
  BY <1>1, <1>3 DEF IInv, CommittedWasHandled, broker, session
<1> QED BY <1>2, <1>4, <1>5, CoveredAllPrime DEF IInv

(* From the end of the log a claim covers its past only if its member is   *)
(* not evicted, and then the group has passed over it.                     *)
LEMMA StartClaimInv ==
    ASSUME IInv, NEW m \in Members, NEW p \in Partitions, StartClaim(m, p)
    PROVE  IInv'
<1>1. /\ Goto(m, p, "select")
      /\ UNCHANGED <<broker, session, marked, handled, refused, dropped>>
  BY DEF StartClaim
<1>2. CASE UNCHANGED <<pos, skipped>>
  BY <1>1, <1>2, GotoInv DEF PCs, history
<1>3. CASE /\ InitialOffset = "newest"
           /\ pos' = [pos EXCEPT ![m][p] = end[p]]
           /\ skipped' = IF mgen[m] = generation
                         THEN [skipped EXCEPT ![p] = @ \cup ((0 .. end[p] - 1) \ handled[p])]
                         ELSE skipped
  <2>1. /\ skipped' \in [Partitions -> SUBSET Offsets]
        /\ \A q \in Partitions : skipped[q] \subseteq skipped'[q]
    <3>1. 0 .. end[p] - 1 \subseteq Offsets
      BY BoundsAssumption DEF IInv, TypeOK, Offsets
    <3> QED BY <1>3, <3>1 DEF IInv, TypeOK
  <2>2. TypeOK'
    <3>1. pos' \in [Members -> [Partitions -> 0 .. MaxMessages]]
      BY <1>3 DEF IInv, TypeOK
    <3>2. pc' \in [Members -> [Partitions -> PCs]]
      BY <1>1 DEF IInv, Goto, TypeOK, PCs
    <3> QED BY <1>1, <2>1, <3>1, <3>2 DEF IInv, TypeOK, broker, session
  <2>3. \A q \in Partitions : Settled[q] \subseteq Settled'[q]
    BY <1>1, <2>1, SettledAt, SettledAtPrime
  <2>4. ASSUME NEW n \in Members, NEW q \in Partitions PROVE Covered(n, q)'
    <3>1. CASE n = m /\ q = p
      <4>1. pos'[m][p] = end[p] /\ pc'[m][p] = "select" /\ marked' = marked
        BY <1>1, <1>3 DEF IInv, TypeOK, Goto
      <4>2. mgen[m] = generation => 0 .. end[p] - 1 \subseteq Settled'[p]
        <5>1. mgen[m] = generation => 0 .. end[p] - 1 \subseteq handled[p] \cup skipped'[p]
          BY <1>3 DEF IInv, TypeOK
        <5> QED BY <1>1, <5>1, SettledAtPrime
      <4>3. mgen[m] = generation => 0 .. marked[m][p] - 1 \subseteq Settled[p]
        BY DEF IInv, ClaimCoversItsPast
      <4> QED BY <1>1, <1>3, <2>3, <3>1, <4>1, <4>2, <4>3 DEF Covered, broker, session
    <3>2. CASE ~(n = m /\ q = p)
      <4>1. pos'[n][q] = pos[n][q] /\ pc'[n][q] = pc[n][q] /\ end[q] \in Int
        BY <1>1, <1>3, <3>2 DEF IInv, TypeOK, Goto
      <4> QED BY <1>1, <2>1, <4>1, QuietStep DEF broker, session
    <3> QED BY <3>1, <3>2
  <2>5. CommittedWasHandled' /\ \A n \in Members : mgen'[n] <= generation'
    BY <1>1, <2>3 DEF IInv, CommittedWasHandled, broker, session
  <2> QED BY <2>2, <2>4, <2>5, CoveredAllPrime DEF IInv
<1> QED BY <1>2, <1>3 DEF StartClaim

(* A commit request, and what goes with it in the three actions that make one. *)
LEMMA FlushInv ==
    ASSUME IInv, NEW m \in Members, Flush(m),
           UNCHANGED <<end, generation, mgen, claims, closed, pos, marked,
                       handled, skipped, dropped>>,
           state' \in [Members -> {"down", "joining", "active", "ending"}],
           pc' \in [Members -> [Partitions -> PCs]],
           \A n \in Members, q \in Partitions :
              pc'[n][q] = pc[n][q] \/ pc'[n][q] \notin {"handle", "mark"}
    PROVE  IInv'
<1>1. TypeOK'
  BY FlushIsSound DEF IInv, TypeOK
<1>2. ASSUME NEW n \in Members, NEW q \in Partitions PROVE Covered(n, q)'
  <2>1. end[q] \in Int
    BY DEF IInv, TypeOK
  <2> QED BY <2>1, QuietStep
<1>3. CommittedWasHandled' /\ \A n \in Members : mgen'[n] <= generation'
  <2>1. Settled' = Settled
    BY DEF Settled
  <2> QED BY <2>1, FlushIsSound DEF IInv, CommittedWasHandled
<1> QED BY <1>1, <1>2, <1>3, CoveredAllPrime DEF IInv

LEMMA ProcessDiesInv == ASSUME IInv, NEW m \in Members, ProcessDies(m) PROVE IInv'
<1>1. dropped' \in [Partitions -> SUBSET Offsets]
  BY DEF ProcessDies, Owed, IInv, TypeOK
<1>2. TypeOK'
  BY <1>1 DEF ProcessDies, IInv, TypeOK, broker, loop
<1> QED BY <1>2, StillInv DEF ProcessDies

LEMMA HandleInv ==
    ASSUME IInv, NEW m \in Members, NEW p \in Partitions, Handle(m, p)
    PROVE  IInv'
<1>1. /\ pc[m][p] = "handle" /\ pc' = [pc EXCEPT ![m][p] = "mark"]
      /\ handled' = [handled EXCEPT ![p] = @ \cup {pos[m][p]}]
      /\ UNCHANGED <<broker, session, pos, marked, skipped, refused, dropped>>
  BY DEF Handle, At, Goto
<1>2. Covered(m, p)
  BY CoveredAll DEF IInv
<1>3. TypeOK'
  <2>1. pos[m][p] \in Offsets
    BY <1>1, <1>2, BoundsAssumption DEF Covered, IInv, TypeOK, Offsets
  <2> QED BY <1>1, <2>1 DEF IInv, TypeOK, broker, session, PCs
<1>4. \A q \in Partitions : handled[q] \subseteq handled'[q] /\ Settled[q] \subseteq Settled'[q]
  BY <1>1, SettledAt, SettledAtPrime DEF IInv, TypeOK
<1>5. ASSUME NEW n \in Members, NEW q \in Partitions PROVE Covered(n, q)'
  <2>1. CASE n = m /\ q = p
    <3>1. pos[m][p] \in handled'[p]
      BY <1>1 DEF IInv, TypeOK
    <3> QED BY <1>1, <1>2, <1>4, <2>1, <3>1 DEF Covered, broker, session
  <2>2. CASE ~(n = m /\ q = p)
    <3>1. pc'[n][q] = pc[n][q] /\ end[q] \in Int
      BY <1>1, <2>2 DEF IInv, TypeOK
    <3> QED BY <1>1, <1>4, <3>1, QuietStep DEF broker, session
  <2> QED BY <2>1, <2>2
<1>6. CommittedWasHandled' /\ \A n \in Members : mgen'[n] <= generation'
  BY <1>1, <1>4 DEF IInv, CommittedWasHandled, broker, session
<1> QED BY <1>3, <1>5, <1>6, CoveredAllPrime DEF IInv

LEMMA MarkInv ==
    ASSUME IInv, NEW m \in Members, NEW p \in Partitions, Mark(m, p)
    PROVE  IInv'
<1>1. /\ pc[m][p] = "mark" /\ UNCHANGED <<broker, session, history>>
      /\ marked' = [marked EXCEPT ![m][p] = pos[m][p] + 1]
      /\ pos' = [pos EXCEPT ![m][p] = pos[m][p] + 1]
  BY DEF Mark, At
<1>2. PICK label \in {"commit", "select"} : pc' = [pc EXCEPT ![m][p] = label]
  BY DEF Mark, Goto
<1>3. Covered(m, p)
  BY CoveredAll DEF IInv
<1>4. pos[m][p] \in 0 .. MaxMessages /\ pos[m][p] + 1 \in 0 .. MaxMessages
  BY <1>1, <1>3, BoundsAssumption DEF Covered, IInv, TypeOK
<1>5. TypeOK'
  <2>1. /\ pos' \in [Members -> [Partitions -> 0 .. MaxMessages]]
        /\ marked' \in [Members -> [Partitions -> 0 .. MaxMessages]]
    BY <1>1, <1>4 DEF IInv, TypeOK
  <2>2. label \in PCs
    BY DEF PCs
  <2>3. pc' \in [Members -> [Partitions -> PCs]]
    BY <1>2, <2>2 DEF IInv, TypeOK
  <2> QED BY <1>1, <2>1, <2>3 DEF IInv, TypeOK, broker, session, history
<1>6. Settled' = Settled
  BY <1>1 DEF Settled, history
<1>7. ASSUME NEW n \in Members, NEW q \in Partitions PROVE Covered(n, q)'
  <2>1. CASE n = m /\ q = p
    <3>1. /\ marked'[m][p] = pos[m][p] + 1 /\ pos'[m][p] = pos[m][p] + 1
          /\ pc'[m][p] \notin {"handle", "mark"}
      BY <1>1, <1>2 DEF IInv, TypeOK
    <3>2. ASSUME mgen[m] = generation \/ InitialOffset = "oldest"
          PROVE  0 .. (pos[m][p] + 1) - 1 \subseteq Settled[p]
      <4>1. 0 .. (pos[m][p] + 1) - 1 = (0 .. pos[m][p] - 1) \cup {pos[m][p]}
        BY <1>4
      <4>2. pos[m][p] \in Settled[p]
        BY <1>1, <1>3, SettledAt DEF Covered
      <4> QED BY <1>3, <3>2, <4>1, <4>2 DEF Covered
    <3> QED BY <1>1, <1>6, <2>1, <3>1, <3>2 DEF Covered, broker, session
  <2>2. CASE ~(n = m /\ q = p)
    <3>1. /\ pc'[n][q] = pc[n][q] /\ pos'[n][q] = pos[n][q]
          /\ marked'[n][q] = marked[n][q] /\ end[q] \in Int
      BY <1>1, <1>2, <2>2 DEF IInv, TypeOK
    <3> QED BY <1>1, <3>1, QuietStep DEF broker, session, history
  <2> QED BY <2>1, <2>2
<1>8. CommittedWasHandled' /\ \A n \in Members : mgen'[n] <= generation'
  BY <1>1, <1>6 DEF IInv, CommittedWasHandled, broker, session
<1> QED BY <1>5, <1>7, <1>8, CoveredAllPrime DEF IInv

LEMMA NextInv == IInv /\ [Next]_vars => IInv'
<1> SUFFICES ASSUME IInv, [Next]_vars PROVE IInv'
  OBVIOUS
<1>1. ASSUME NEW p \in Partitions, Produce(p) PROVE IInv'
  <2>1. TypeOK'
    BY <1>1, BoundsAssumption DEF Produce, IInv, TypeOK, session, loop, history, PCs
  <2>2. \A q \in Partitions : end[q] <= end'[q] /\ end'[q] \in Int
    BY <1>1 DEF Produce, IInv, TypeOK
  <2>3. UNCHANGED <<committed, generation, session, loop, history>>
    BY <1>1 DEF Produce
  <2>4. \A n \in Members, q \in Partitions : Covered(n, q)'
    BY <2>2, <2>3, QuietStep DEF session, loop, history
  <2>5. CommittedWasHandled' /\ \A n \in Members : mgen'[n] <= generation'
    BY <2>3 DEF IInv, CommittedWasHandled, Settled, session, history
  <2> QED BY <2>1, <2>4, <2>5, CoveredAllPrime DEF IInv
<1>2. ASSUME Rebalance PROVE IInv'
  BY <1>2, RebalanceInv
<1>3. ASSUME NEW m \in Members, SessionStep(m) PROVE IInv'
  <2>1. CASE Start(m) \/ EndSession(m)
    <3>1. TypeOK'
      BY <2>1 DEF Start, EndSession, IInv, TypeOK, broker, loop, history
    <3> QED BY <2>1, <3>1, StillInv DEF Start, EndSession, history
  <2>2. CASE AutoCommit(m)
    BY <2>2, FlushInv DEF AutoCommit, session, loop, IInv, TypeOK
  <2>3. CASE Release(m)
    <3>1. /\ state' \in [Members -> {"down", "joining", "active", "ending"}]
          /\ UNCHANGED <<end, generation, mgen, claims, closed, loop, handled, skipped, dropped>>
      BY <2>3 DEF Release, IInv, TypeOK
    <3>2. CASE Flush(m)
      BY <3>1, <3>2, FlushInv DEF loop, IInv, TypeOK
    <3>3. CASE UNCHANGED <<committed, refused>>
      <4>1. TypeOK'
        BY <3>1, <3>3 DEF IInv, TypeOK, loop
      <4> QED BY <3>1, <3>3, <4>1, StillInv DEF broker
    <3> QED BY <2>3, <3>2, <3>3 DEF Release
  <2>4. CASE Crash(m)
    BY <2>4, ProcessDiesInv DEF Crash
  <2>5. ASSUME NEW p \in Partitions, FetchOffset(m, p) PROVE IInv'
    BY <2>5, FetchOffsetInv
  <2>6. ASSUME NEW p \in Partitions, StartClaim(m, p) PROVE IInv'
    BY <2>6, StartClaimInv
  <2>7. ASSUME NEW p \in Partitions, SkipClaim(m, p) PROVE IInv'
    BY <2>7, GotoInv DEF SkipClaim, PCs
  <2>8. ASSUME NEW p \in Partitions, CloseClaim(m, p) PROVE IInv'
    <3>1. TypeOK'
      BY <2>8 DEF CloseClaim, IInv, TypeOK, broker, loop, history
    <3> QED BY <2>8, <3>1, StillInv DEF CloseClaim, history
  <2> QED BY <1>3, <2>1, <2>2, <2>3, <2>4, <2>5, <2>6, <2>7, <2>8 DEF SessionStep
<1>4. ASSUME NEW m \in Members, NEW p \in Partitions, ConsumeClaim(m, p) PROVE IInv'
  <2>1. CASE Receive(m, p)
    <3>1. TypeOK'
      BY <2>1 DEF Receive, Goto, IInv, TypeOK, broker, session, history, PCs
    <3>2. \A n \in Members, q \in Partitions : Covered(n, q)'
      BY <2>1, CoveredAll DEF Receive, Goto, Covered, IInv, TypeOK, Settled, broker, session, history
    <3>3. CommittedWasHandled' /\ \A n \in Members : mgen'[n] <= generation'
      BY <2>1 DEF Receive, IInv, CommittedWasHandled, Settled, broker, session, history
    <3> QED BY <3>1, <3>2, <3>3, CoveredAllPrime DEF IInv
  <2>2. CASE ReceiveNil(m, p)
    BY <2>2, ProcessDiesInv DEF ReceiveNil
  <2>3. CASE Done(m, p)
    BY <2>3, GotoInv DEF Done, PCs
  <2>4. CASE Handle(m, p)
    BY <2>4, HandleInv
  <2>5. CASE Mark(m, p)
    BY <2>5, MarkInv
  <2>6. CASE Commit(m, p)
    <3>1. pc' = [pc EXCEPT ![m][p] = "select"]
      BY <2>6 DEF Commit, Goto
    <3>2. pc' \in [Members -> [Partitions -> PCs]]
      BY <3>1 DEF IInv, TypeOK, PCs
    <3>3. \A n \in Members, q \in Partitions : pc'[n][q] = pc[n][q] \/ pc'[n][q] = "select"
      BY <3>1 DEF IInv, TypeOK
    <3> QED BY <2>6, <3>2, <3>3, FlushInv DEF Commit, session, IInv, TypeOK
  <2> QED BY <1>4, <2>1, <2>2, <2>3, <2>4, <2>5, <2>6 DEF ConsumeClaim
<1>5. CASE UNCHANGED vars
  BY <1>5
  DEF vars, broker, session, loop, history, IInv, TypeOK, ClaimCoversItsPast,
      CommittedWasHandled, Settled
<1> QED BY <1>1, <1>2, <1>3, <1>4, <1>5 DEF Next

THEOREM Invariance == Spec => []IInv
  BY InitInv, NextInv, PTL DEF Spec

(* The variables of every reachable state have their types. *)
THEOREM TypeCorrect == Spec => []TypeOK
  BY Invariance, PTL DEF IInv

(* Whatever a session may still get committed, now or late, is settled. *)
THEOREM MarksAreCovered == Spec => []ClaimCoversItsPast
  BY Invariance, PTL DEF IInv

(* No commit is ahead of the handler. *)
THEOREM NothingIsLost == Spec => []CommittedWasHandled
  BY Invariance, PTL DEF IInv

-----------------------------------------------------------------------------
(* What a session owes.  Its marks do not run ahead of its claims, ...     *)
MarksMatch ==
    \A m \in Members, p \in Partitions :
       /\ marked[m][p] <= pos[m][p]
       /\ pc[m][p] \in {"fetch", "starting"} => marked[m][p] = 0
       /\ pc[m][p] = "commit" => marked[m][p] = pos[m][p]

(* ... in mode AUTO_COMMIT_IMMEDIATELY what it has marked is committed or  *)
(* was refused, or its Commit is still to come, ...                        *)
Uncommitted(p, b) == {o \in Offsets : committed[p] <= o /\ o < b}

MarksAreCommitted ==
    CommitMode = AutoImmediately =>
       \A m \in Members, p \in Partitions :
          pc[m][p] # "commit" => Uncommitted(p, marked[m][p]) \subseteq refused[p]

(* ... and, from the oldest offset, all before the message a claim has at  *)
(* hand is, whichever generation it is of, as is all before any message    *)
(* that was ever handled.                                                  *)
ClaimsKeepUp ==
    CommitMode = AutoImmediately /\ InitialOffset = "oldest" =>
       /\ \A m \in Members, p \in Partitions :
             Uncommitted(p, IF pc[m][p] = "commit" THEN pos[m][p] - 1 ELSE pos[m][p])
                \subseteq refused[p]
       /\ \A p \in Partitions : \A o \in handled[p] : Uncommitted(p, o) \subseteq refused[p]

(* m still owes offset o of p. *)
Holds(m, p, o) ==
    /\ InSession(m) /\ p \in claims[m]
    /\ o < marked[m][p] \/ (pc[m][p] = "mark" /\ o = pos[m][p])

(* OwedIsHeld, for one offset of one partition. *)
Accounted(p, o) ==
    \/ o < committed[p] \/ o \in refused[p] \cup dropped[p]
    \/ \E m \in Members : Holds(m, p, o)

Dues == MarksMatch /\ MarksAreCommitted /\ ClaimsKeepUp /\ OwedIsHeld

DInv == IInv /\ Dues

LEMMA HeldIsAccounted ==
    ASSUME TypeOK
    PROVE  OwedIsHeld <=> \A p \in Partitions : \A o \in handled[p] : Accounted(p, o)
<1>1. \A p \in Partitions : committed[p] \in Int /\ handled[p] \subseteq Offsets /\ Offsets \subseteq Int
  BY DEF TypeOK, Offsets
<1>2. ASSUME NEW m \in Members, NEW p \in Partitions, NEW o \in Offsets, o >= committed[p]
      PROVE  Holds(m, p, o) <=> InSession(m) /\ p \in claims[m] /\ o \in Owed(m, p)
  BY <1>2 DEF Holds, Owed
<1> QED BY <1>1, <1>2 DEF OwedIsHeld, Accounted

LEMMA HeldIsAccountedPrime ==
    ASSUME TypeOK'
    PROVE  OwedIsHeld' <=> \A p \in Partitions : \A o \in handled'[p] : Accounted(p, o)'
<1>1. \A p \in Partitions : committed'[p] \in Int /\ handled'[p] \subseteq Offsets /\ Offsets \subseteq Int
  BY DEF TypeOK, Offsets
<1>2. ASSUME NEW m \in Members, NEW p \in Partitions, NEW o \in Offsets, o >= committed'[p]
      PROVE  Holds(m, p, o)' <=> InSession(m)' /\ p \in claims'[m] /\ o \in Owed(m, p)'
  BY <1>2 DEF Holds, Owed
<1> QED BY <1>1, <1>2 DEF OwedIsHeld, Accounted

(* Commits and refusals only become more. *)
Forward == \A p \in Partitions : /\ committed[p] <= committed'[p]
                                 /\ refused[p] \subseteq refused'[p]
                                 /\ dropped[p] \subseteq dropped'[p]

LEMMA UncommittedShrinks ==
    ASSUME TypeOK, TypeOK', Forward, NEW p \in Partitions, NEW b \in Int,
           Uncommitted(p, b) \subseteq refused[p]
    PROVE  Uncommitted(p, b)' \subseteq refused'[p]
<1>1. committed[p] \in Int /\ committed'[p] \in Int /\ Offsets \subseteq Int
  BY DEF TypeOK, Offsets
<1>2. ASSUME NEW o \in Offsets, committed'[p] <= o, o < b PROVE o \in refused'[p]
  <2>1. committed[p] <= o
    BY <1>1, <1>2 DEF Forward
  <2>2. o \in Uncommitted(p, b)
    BY <1>2, <2>1 DEF Uncommitted
  <2> QED BY <2>2 DEF Forward
<1> QED BY <1>2 DEF Uncommitted

LEMMA NothingUncommitted ==
    ASSUME TypeOK, NEW p \in Partitions, NEW b \in Int, b <= committed[p]
    PROVE  Uncommitted(p, b) = {}
<1>1. committed[p] \in Int /\ Offsets \subseteq Int
  BY DEF TypeOK, Offsets
<1>2. ASSUME NEW o \in Offsets, committed[p] <= o, o < b PROVE FALSE
  BY <1>1, <1>2
<1> QED BY <1>2 DEF Uncommitted

(* A handled offset stays accounted for in a step in which whoever holds   *)
(* it keeps it or gets rid of it.                                          *)
LEMMA HeldStep ==
    ASSUME TypeOK, TypeOK', OwedIsHeld, Forward, handled' = handled,
           \A m \in Members, p \in Partitions, o \in Offsets :
              Holds(m, p, o) => Holds(m, p, o)' \/ o < committed'[p]
                                \/ o \in refused'[p] \cup dropped'[p]
    PROVE  OwedIsHeld'
<1> SUFFICES ASSUME NEW p \in Partitions, NEW o \in handled[p] PROVE Accounted(p, o)'
  BY HeldIsAccountedPrime
<1>1. /\ o \in Offsets /\ o \in Int /\ committed[p] \in Int /\ committed'[p] \in Int
  BY DEF TypeOK, Offsets
<1>2. Accounted(p, o)
  BY HeldIsAccounted
<1> QED BY <1>1, <1>2 DEF Accounted, Forward

LEMMA DuesInit == Init => DInv
<1> SUFFICES ASSUME Init PROVE DInv
  OBVIOUS
<1>1. MarksMatch /\ OwedIsHeld
  BY DEF Init, MarksMatch, OwedIsHeld
<1>2. MarksAreCommitted /\ ClaimsKeepUp
  <2>1. TypeOK /\ \A p \in Partitions : committed[p] = 0
    BY InitInv DEF IInv, Init
  <2>2. \A p \in Partitions : Uncommitted(p, 0) = {}
    BY <2>1, NothingUncommitted
  <2> QED BY <2>2 DEF Init, MarksAreCommitted, ClaimsKeepUp
<1> QED BY <1>1, <1>2, InitInv DEF DInv, Dues

(* A step that commits nothing and leaves marks alone, in which claims     *)
(* move, if at all, to where they may read on.                             *)
LEMMA StillStep ==
    ASSUME DInv, TypeOK', UNCHANGED <<committed, claims, marked, handled, refused, dropped>>,
           \A n \in Members : InSession(n) => InSession(n)',
           \A n \in Members, q \in Partitions :
              \/ /\ pc'[n][q] = pc[n][q]
                 /\ pos'[n][q] = pos[n][q]
              \/ /\ pc[n][q] = "select" /\ pc'[n][q] \in {"handle", "returned"}
                 /\ pos'[n][q] = pos[n][q]
              \/ /\ pc[n][q] \in {"fetch", "starting"}
                 /\ pc'[n][q] \in {"starting", "select", "returned"}
                 /\ InitialOffset = "oldest" => pos'[n][q] \in {pos[n][q], committed[q]}
    PROVE  Dues'
<1> USE DEF DInv, Dues
<1>0. TypeOK
  BY DEF IInv
<1>1. \A n \in Members, q \in Partitions :
         pos[n][q] \in Nat /\ pos'[n][q] \in Nat /\ marked[n][q] \in Nat /\ committed[q] \in Nat
  BY <1>0 DEF TypeOK
<1>2. MarksMatch'
  <2> SUFFICES ASSUME NEW n \in Members, NEW q \in Partitions
               PROVE  /\ marked[n][q] <= pos'[n][q]
                      /\ pc'[n][q] \in {"fetch", "starting"} => marked[n][q] = 0
                      /\ pc'[n][q] = "commit" => marked[n][q] = pos'[n][q]
    BY DEF MarksMatch
  <2> QED BY <1>1 DEF MarksMatch
<1>3. MarksAreCommitted'
  <2>1. \A q \in Partitions : \A b : Uncommitted(q, b)' = Uncommitted(q, b)
    BY DEF Uncommitted
  <2>2. \A n \in Members, q \in Partitions : pc'[n][q] # "commit" => pc[n][q] # "commit"
    OBVIOUS
  <2> QED BY <2>1, <2>2 DEF MarksAreCommitted
<1>4. ClaimsKeepUp'
  <2> SUFFICES ASSUME CommitMode = AutoImmediately, InitialOffset = "oldest" PROVE ClaimsKeepUp'
    BY DEF ClaimsKeepUp
  <2>1. \A q \in Partitions : \A b : Uncommitted(q, b)' = Uncommitted(q, b)
    BY DEF Uncommitted
  <2>2. \A q \in Partitions : Uncommitted(q, committed[q]) = {}
    <3>1. \A q \in Partitions : committed[q] \in Int /\ committed[q] <= committed[q]
      BY <1>0 DEF TypeOK
    <3> QED BY <1>0, <3>1, NothingUncommitted
  <2>3. ASSUME NEW n \in Members, NEW q \in Partitions
        PROVE  Uncommitted(q, IF pc'[n][q] = "commit" THEN pos'[n][q] - 1 ELSE pos'[n][q])
                  \subseteq refused[q]
    BY <2>2 DEF ClaimsKeepUp
  <2> QED BY <2>1, <2>3 DEF ClaimsKeepUp
<1>5. OwedIsHeld'
  <2>1. Forward
    BY <1>0 DEF Forward, TypeOK
  <2>2. ASSUME NEW n \in Members, NEW q \in Partitions, NEW o \in Offsets, Holds(n, q, o)
        PROVE  Holds(n, q, o)'
    BY <2>2 DEF Holds
  <2> QED BY <1>0, <2>1, <2>2, HeldStep
<1> QED BY <1>2, <1>3, <1>4, <1>5

(* A step that changes only who has a session, and what was dropped by it. *)
LEMMA LeaveStep ==
    ASSUME DInv, TypeOK', UNCHANGED <<committed, claims, loop, handled, refused>>,
           \A q \in Partitions : dropped[q] \subseteq dropped'[q],
           \A n \in Members : InSession(n) /\ ~InSession(n)' =>
              \A q \in Partitions, o \in Offsets :
                 Holds(n, q, o) => o < committed[q] \/ o \in refused[q] \cup dropped'[q]
    PROVE  Dues'
<1> USE DEF DInv, Dues
<1>0. TypeOK
  BY DEF IInv
<1>1. MarksMatch' /\ MarksAreCommitted' /\ ClaimsKeepUp'
  BY DEF MarksMatch, MarksAreCommitted, ClaimsKeepUp, Uncommitted, loop
<1>2. Forward
  BY <1>0 DEF Forward, TypeOK
<1>3. ASSUME NEW n \in Members, NEW q \in Partitions, NEW o \in Offsets, Holds(n, q, o)
      PROVE  Holds(n, q, o)' \/ o < committed'[q] \/ o \in refused'[q] \cup dropped'[q]
  BY <1>3 DEF Holds, loop
<1>4. OwedIsHeld'
  BY <1>0, <1>2, <1>3, HeldStep
<1> QED BY <1>1, <1>4

(* A process that dies drops what its session owed. *)
LEMMA DyingStep ==
    ASSUME DInv, TypeOK', NEW m \in Members, ProcessDies(m) PROVE Dues'
<1>0. TypeOK /\ MaxMessages \in Nat
  BY BoundsAssumption DEF DInv, IInv
<1>1. /\ UNCHANGED <<committed, claims, loop, handled, refused>>
      /\ \A n \in Members : n # m => InSession(n)' = InSession(n)
      /\ \A q \in Partitions : dropped'[q] = IF q \in claims[m] THEN dropped[q] \cup Owed(m, q)
                                                                ELSE dropped[q]
  BY <1>0 DEF ProcessDies, InSession, TypeOK, broker
<1>2. ASSUME NEW q \in Partitions, NEW o \in Offsets, Holds(m, q, o)
      PROVE  o < committed[q] \/ o \in dropped'[q]
  <2>1. o \in Int /\ committed[q] \in Int
    BY <1>0 DEF TypeOK, Offsets
  <2>2. q \in claims[m] /\ (o >= committed[q] => o \in Owed(m, q))
    BY <1>2, <2>1 DEF Holds, Owed
  <2>3. dropped'[q] = dropped[q] \cup Owed(m, q)
    BY <1>1, <2>2
  <2>4. o < committed[q] \/ o >= committed[q]
    BY <2>1
  <2> QED BY <2>2, <2>3, <2>4
<1> QED BY <1>1, <1>2, LeaveStep

(* A commit request, by a session that is not over, or that ends with all  *)
(* its claims returned; the claim that makes it reads on after it.         *)
LEMMA FlushStep ==
    ASSUME DInv, TypeOK', NEW m \in Members, Flush(m),
           UNCHANGED <<claims, pos, marked, handled, dropped>>,
           \A n \in Members \ {m} : InSession(n)' = InSession(n) /\ pc'[n] = pc[n],
           \/ InSession(m)'
           \/ \A p \in claims[m] : pc[m][p] = "returned",
           \A p \in Partitions :
              \/ pc'[m][p] = pc[m][p]
              \/ p \in claims[m] /\ pc[m][p] = "commit" /\ pc'[m][p] = "select"
    PROVE  Dues'
<1> USE DEF DInv, Dues
<1>0. TypeOK
  BY DEF IInv
<1>1. /\ \A n \in Members, q \in Partitions : pos[n][q] \in Nat /\ marked[n][q] \in Nat
      /\ \A q \in Partitions : committed'[q] \in Nat /\ handled[q] \subseteq Int
      /\ Offsets \subseteq Int
  BY <1>0 DEF TypeOK, Offsets
<1>2. Forward
  BY FlushIsSound DEF Forward
<1>3. \A p \in claims[m] : Uncommitted(p, marked[m][p])' \subseteq refused'[p]
  BY FlushIsSound DEF Uncommitted
<1>4. \A n \in Members, q \in Partitions :
         \/ pc'[n][q] = pc[n][q]
         \/ n = m /\ q \in claims[m] /\ pc[m][q] = "commit" /\ pc'[m][q] = "select"
  OBVIOUS
<1>5. MarksMatch'
  BY <1>4 DEF MarksMatch
<1>6. MarksAreCommitted'
  <2> SUFFICES ASSUME CommitMode = AutoImmediately, NEW n \in Members, NEW q \in Partitions,
                      pc'[n][q] # "commit"
               PROVE  Uncommitted(q, marked[n][q])' \subseteq refused'[q]
    BY DEF MarksAreCommitted, Uncommitted
  <2>1. CASE pc'[n][q] = pc[n][q]
    <3>1. Uncommitted(q, marked[n][q]) \subseteq refused[q]
      BY <2>1 DEF MarksAreCommitted
    <3> QED BY <1>0, <1>1, <1>2, <3>1, UncommittedShrinks DEF Uncommitted
  <2>2. CASE n = m /\ q \in claims[m]
    BY <1>3, <2>2
  <2> QED BY <1>4, <2>1, <2>2
<1>7. ClaimsKeepUp'
  <2> SUFFICES ASSUME CommitMode = AutoImmediately, InitialOffset = "oldest" PROVE ClaimsKeepUp'
    BY DEF ClaimsKeepUp
  <2>1. ASSUME NEW n \in Members, NEW q \in Partitions
        PROVE  (Uncommitted(q, IF pc[n][q] = "commit" THEN pos[n][q] - 1 ELSE pos[n][q]))'
                  \subseteq refused'[q]
    <3>1. CASE pc'[n][q] = pc[n][q]
      <4> DEFINE b == IF pc[n][q] = "commit" THEN pos[n][q] - 1 ELSE pos[n][q]
      <4>1. b \in Int /\ Uncommitted(q, b) \subseteq refused[q]
        BY <1>1 DEF ClaimsKeepUp
      <4>2. b' = b
        BY <3>1
      <4> HIDE DEF b
      <4>3. Uncommitted(q, b)' \subseteq refused'[q]
        BY <1>0, <1>2, <4>1, <4>2, UncommittedShrinks DEF Uncommitted
      <4> QED BY <4>3 DEF b
    <3>2. CASE n = m /\ q \in claims[m] /\ pc[m][q] = "commit" /\ pc'[m][q] = "select"
      <4>1. marked[m][q] = pos[m][q]
        BY <3>2 DEF MarksMatch
      <4> QED BY <1>3, <3>2, <4>1 DEF Uncommitted
    <3> QED BY <1>4, <3>1, <3>2
  <2>2. ASSUME NEW q \in Partitions, NEW o \in handled[q]
        PROVE  Uncommitted(q, o)' \subseteq refused'[q]
    <3>1. o \in Int /\ Uncommitted(q, o) \subseteq refused[q]
      BY <1>1 DEF ClaimsKeepUp
    <3> QED BY <1>0, <1>2, <3>1, UncommittedShrinks
  <2> QED BY <2>1, <2>2 DEF ClaimsKeepUp, Uncommitted
<1>8. OwedIsHeld'
  <2>1. ASSUME NEW n \in Members, NEW q \in Partitions, NEW o \in Offsets, Holds(n, q, o)
        PROVE  Holds(n, q, o)' \/ o < committed'[q] \/ o \in refused'[q]
    <3>1. CASE InSession(n)'
      BY <1>4, <2>1, <3>1 DEF Holds
    <3>2. CASE ~InSession(n)'
      <4>1. n = m /\ q \in claims[m] /\ o < marked[m][q]
        BY <2>1, <3>2 DEF Holds
      <4> QED BY <1>1, <1>3, <4>1 DEF Uncommitted
    <3> QED BY <3>1, <3>2
  <2> QED BY <1>0, <1>2, <2>1, HeldStep
<1> QED BY <1>5, <1>6, <1>7, <1>8

LEMMA RebalanceStep == ASSUME DInv, TypeOK', Rebalance PROVE Dues'
<1> USE DEF DInv, Dues
<1>0. TypeOK
  BY DEF IInv
<1>1. UNCHANGED <<committed, history>> /\ \A q \in Partitions : committed[q] \in Nat
  BY <1>0 DEF Rebalance, TypeOK
<1>2. ASSUME NEW n \in Members
      PROVE  \/ /\ ~InSession(n)
                /\ \A q \in Partitions : /\ marked'[n][q] = 0 /\ pos'[n][q] = 0
                                         /\ pc'[n][q] \in {"fetch", "idle"}
             \/ /\ marked'[n] = marked[n] /\ pos'[n] = pos[n] /\ pc'[n] = pc[n]
                /\ claims'[n] = claims[n] /\ state'[n] = state[n]
  BY DEF Rebalance, Joining, InSession
<1>3. \A q \in Partitions : \A b : Uncommitted(q, b)' = Uncommitted(q, b)
  BY <1>1 DEF Uncommitted
<1>4. \A q \in Partitions : Uncommitted(q, 0) = {}
  BY <1>0, <1>1, NothingUncommitted
<1>5. MarksMatch'
  <2> SUFFICES ASSUME NEW n \in Members, NEW q \in Partitions
               PROVE  /\ marked'[n][q] <= pos'[n][q]
                      /\ pc'[n][q] \in {"fetch", "starting"} => marked'[n][q] = 0
                      /\ pc'[n][q] = "commit" => marked'[n][q] = pos'[n][q]
    BY DEF MarksMatch
  <2> QED BY <1>2 DEF MarksMatch
<1>6. MarksAreCommitted'
  <2> SUFFICES ASSUME CommitMode = AutoImmediately, NEW n \in Members, NEW q \in Partitions,
                      pc'[n][q] # "commit"
               PROVE  Uncommitted(q, marked'[n][q]) \subseteq refused'[q]
    BY <1>3 DEF MarksAreCommitted
  <2> QED BY <1>1, <1>2, <1>4 DEF MarksAreCommitted, history
<1>7. ClaimsKeepUp'
  <2> SUFFICES ASSUME CommitMode = AutoImmediately, InitialOffset = "oldest" PROVE ClaimsKeepUp'
    BY DEF ClaimsKeepUp
  <2>1. ASSUME NEW n \in Members, NEW q \in Partitions
        PROVE  Uncommitted(q, IF pc'[n][q] = "commit" THEN pos'[n][q] - 1 ELSE pos'[n][q])
                  \subseteq refused[q]
    BY <1>2, <1>4 DEF ClaimsKeepUp
  <2> QED BY <1>1, <1>3, <2>1 DEF ClaimsKeepUp, history
<1>8. OwedIsHeld'
  <2>1. ASSUME NEW n \in Members, NEW q \in Partitions, NEW o \in Offsets, Holds(n, q, o)
        PROVE  Holds(n, q, o)'
    BY <1>2, <2>1 DEF Holds, InSession
  <2>2. Forward /\ handled' = handled
    BY <1>1 DEF Forward, history
  <2> QED BY <1>0, <2>1, <2>2, HeldStep
<1> QED BY <1>5, <1>6, <1>7, <1>8

LEMMA HandleStep ==
    ASSUME DInv, TypeOK', NEW m \in Members, NEW p \in Partitions, Handle(m, p) PROVE Dues'
<1> USE DEF DInv, Dues
<1>0. TypeOK
  BY DEF IInv
<1>1. /\ UNCHANGED <<committed, state, claims, marked, pos, refused, dropped>>
      /\ pc' = [pc EXCEPT ![m][p] = "mark"]
      /\ handled' = [handled EXCEPT ![p] = @ \cup {pos[m][p]}]
      /\ InSession(m) /\ p \in claims[m] /\ pc[m][p] = "handle"
  BY DEF Handle, At, Goto, broker, session
<1>2. /\ pc'[m][p] = "mark"
      /\ \A n \in Members, q \in Partitions : n # m \/ q # p => pc'[n][q] = pc[n][q]
  BY <1>0, <1>1 DEF TypeOK
<1>3. \A q \in Partitions : \A b : Uncommitted(q, b)' = Uncommitted(q, b)
  BY <1>1 DEF Uncommitted
<1>4. MarksMatch'
  BY <1>1, <1>2 DEF MarksMatch
<1>5. MarksAreCommitted'
  BY <1>1, <1>2, <1>3 DEF MarksAreCommitted
<1>6. \A q \in Partitions : \A o \in handled'[q] : o \in handled[q] \/ (q = p /\ o = pos[m][p])
  BY <1>0, <1>1 DEF TypeOK
<1>7. ClaimsKeepUp'
  <2> SUFFICES ASSUME CommitMode = AutoImmediately, InitialOffset = "oldest" PROVE ClaimsKeepUp'
    BY DEF ClaimsKeepUp
  <2>1. ASSUME NEW n \in Members, NEW q \in Partitions
        PROVE  Uncommitted(q, IF pc'[n][q] = "commit" THEN pos'[n][q] - 1 ELSE pos'[n][q])
                  \subseteq refused[q]
    BY <1>1, <1>2 DEF ClaimsKeepUp
  <2>2. ASSUME NEW q \in Partitions, NEW o \in handled'[q]
        PROVE  Uncommitted(q, o) \subseteq refused[q]
    BY <1>1, <1>6, <2>2 DEF ClaimsKeepUp
  <2> QED BY <1>1, <1>3, <2>1, <2>2 DEF ClaimsKeepUp
<1>8. OwedIsHeld'
  <2> SUFFICES ASSUME NEW q \in Partitions, NEW o \in handled'[q] PROVE Accounted(q, o)'
    BY HeldIsAccountedPrime
  <2>1. CASE o \in handled[q]
    <3>1. Accounted(q, o)
      BY <1>0, <2>1, HeldIsAccounted
    <3>2. \A n \in Members : Holds(n, q, o) => Holds(n, q, o)'
      BY <1>1, <1>2 DEF Holds, InSession
    <3> QED BY <1>1, <3>1, <3>2 DEF Accounted
  <2>2. CASE q = p /\ o = pos[m][p]
    <3>1. Holds(m, q, o)'
      BY <1>1, <1>2, <2>2 DEF Holds, InSession
    <3> QED BY <3>1 DEF Accounted
  <2> QED BY <1>6, <2>1, <2>2
<1> QED BY <1>4, <1>5, <1>7, <1>8

LEMMA MarkStep ==
    ASSUME DInv, TypeOK', NEW m \in Members, NEW p \in Partitions, Mark(m, p) PROVE Dues'
<1> USE DEF DInv, Dues
<1>0. TypeOK
  BY DEF IInv
<1>1. /\ UNCHANGED <<committed, state, claims, history>> /\ pc[m][p] = "mark"
      /\ marked'[m][p] = pos[m][p] + 1 /\ pos'[m][p] = pos[m][p] + 1
      /\ CommitMode = AutoImmediately <=> pc'[m][p] = "commit"
      /\ pc'[m][p] \in {"commit", "select"}
  BY <1>0 DEF Mark, At, Goto, broker, session, history, TypeOK
<1>2. \A n \in Members, q \in Partitions :
         n # m \/ q # p =>
            pc'[n][q] = pc[n][q] /\ pos'[n][q] = pos[n][q] /\ marked'[n][q] = marked[n][q]
  BY <1>0 DEF Mark, Goto, TypeOK
<1>3. pos[m][p] \in Nat /\ marked[m][p] \in Nat /\ Offsets \subseteq Int
  BY <1>0 DEF TypeOK, Offsets
<1>4. \A q \in Partitions : \A b : Uncommitted(q, b)' = Uncommitted(q, b)
  BY <1>1 DEF Uncommitted
<1>5. MarksMatch'
  <2> SUFFICES ASSUME NEW n \in Members, NEW q \in Partitions
               PROVE  /\ marked'[n][q] <= pos'[n][q]
                      /\ pc'[n][q] \in {"fetch", "starting"} => marked'[n][q] = 0
                      /\ pc'[n][q] = "commit" => marked'[n][q] = pos'[n][q]
    BY DEF MarksMatch
  <2> QED BY <1>1, <1>2, <1>3 DEF MarksMatch
<1>6. MarksAreCommitted'
  <2> SUFFICES ASSUME CommitMode = AutoImmediately, NEW n \in Members, NEW q \in Partitions,
                      pc'[n][q] # "commit"
               PROVE  Uncommitted(q, marked'[n][q]) \subseteq refused'[q]
    BY <1>4 DEF MarksAreCommitted
  <2> QED BY <1>1, <1>2 DEF MarksAreCommitted, history
<1>7. ClaimsKeepUp'
  <2> SUFFICES ASSUME CommitMode = AutoImmediately, InitialOffset = "oldest" PROVE ClaimsKeepUp'
    BY DEF ClaimsKeepUp
  <2>1. ASSUME NEW n \in Members, NEW q \in Partitions
        PROVE  Uncommitted(q, IF pc'[n][q] = "commit" THEN pos'[n][q] - 1 ELSE pos'[n][q])
                  \subseteq refused[q]
    <3>1. CASE n = m /\ q = p
      <4>1. pc'[m][p] = "commit" /\ pos'[m][p] - 1 = pos[m][p]
        BY <1>1, <1>3
      <4> QED BY <1>1, <3>1, <4>1 DEF ClaimsKeepUp
    <3>2. CASE n # m \/ q # p
      BY <1>2, <3>2 DEF ClaimsKeepUp
    <3> QED BY <3>1, <3>2
  <2> QED BY <1>1, <1>4, <2>1 DEF ClaimsKeepUp, history
<1>8. OwedIsHeld'
  <2>1. ASSUME NEW n \in Members, NEW q \in Partitions, NEW o \in Offsets, Holds(n, q, o)
        PROVE  Holds(n, q, o)'
    <3>1. CASE n = m /\ q = p
      <4>1. marked[m][p] <= pos[m][p] /\ o \in Int
        BY <1>3 DEF MarksMatch
      <4> QED BY <1>1, <1>3, <2>1, <3>1, <4>1 DEF Holds, InSession
    <3>2. CASE n # m \/ q # p
      BY <1>1, <1>2, <2>1, <3>2 DEF Holds, InSession
    <3> QED BY <3>1, <3>2
  <2>2. Forward /\ handled' = handled
    BY <1>0, <1>1 DEF Forward, history, TypeOK
  <2> QED BY <1>0, <2>1, <2>2, HeldStep
<1> QED BY <1>5, <1>6, <1>7, <1>8

LEMMA DuesNext == DInv /\ [Next]_vars => DInv'
<1> SUFFICES ASSUME DInv, [Next]_vars PROVE Dues'
  BY NextInv DEF DInv
<1>0. TypeOK /\ TypeOK'
  BY NextInv DEF DInv, IInv
<1>1. ASSUME NEW p \in Partitions, Produce(p) PROVE Dues'
  BY <1>0, <1>1, StillStep DEF Produce, session, loop, history, InSession
<1>2. ASSUME Rebalance PROVE Dues'
  BY <1>0, <1>2, RebalanceStep
<1>3. ASSUME NEW m \in Members, SessionStep(m) PROVE Dues'
  <2>1. CASE Start(m) \/ EndSession(m)
    <3>1. \A n \in Members : InSession(n) => InSession(n)'
      BY <1>0, <2>1 DEF Start, EndSession, InSession, TypeOK
    <3> QED BY <1>0, <2>1, <3>1, StillStep DEF Start, EndSession, broker, loop, history
  <2>2. CASE AutoCommit(m)
    BY <1>0, <2>2, FlushStep DEF AutoCommit, session, loop, InSession
  <2>3. CASE Release(m)
    <3>1. /\ UNCHANGED <<claims, loop, handled, dropped>>
          /\ \A p \in claims[m] : pc[m][p] = "returned"
          /\ \A n \in Members \ {m} : InSession(n)' = InSession(n)
      BY <1>0, <2>3 DEF Release, InSession, TypeOK
    <3>2. CASE CommitMode = AutoInterval
      BY <1>0, <2>3, <3>1, <3>2, FlushStep DEF Release, loop
    <3>3. CASE CommitMode # AutoInterval
      <4>1. CommitMode = AutoImmediately /\ UNCHANGED <<committed, refused>>
        BY <2>3, <3>3, CommitModeAssumption DEF Release
      <4>2. ASSUME NEW q \in Partitions, NEW o \in Offsets, Holds(m, q, o)
            PROVE  o < committed[q] \/ o \in refused[q]
        <5>1. o < marked[m][q] /\ Uncommitted(q, marked[m][q]) \subseteq refused[q]
          BY <3>1, <4>1, <4>2 DEF Holds, DInv, Dues, MarksAreCommitted
        <5>2. o \in Int /\ committed[q] \in Int
          BY <1>0 DEF TypeOK, Offsets
        <5> QED BY <5>1, <5>2 DEF Uncommitted
      <4> QED BY <1>0, <3>1, <4>1, <4>2, LeaveStep
    <3> QED BY <3>2, <3>3
  <2>4. CASE Crash(m)
    BY <1>0, <2>4, DyingStep DEF Crash
  <2>5. ASSUME NEW p \in Partitions, FetchOffset(m, p) PROVE Dues'
    <3>1. /\ pc[m][p] = "fetch" /\ pc' = [pc EXCEPT ![m][p] = "starting"]
          /\ pos' = [pos EXCEPT ![m][p] = committed[p]]
          /\ UNCHANGED <<broker, session, marked, history>>
      BY <2>5 DEF FetchOffset, At, Goto
    <3>2. \A n \in Members, q \in Partitions :
             \/ pc'[n][q] = pc[n][q] /\ pos'[n][q] = pos[n][q]
             \/ pc[n][q] = "fetch" /\ pc'[n][q] = "starting" /\ pos'[n][q] = committed[q]
      BY <1>0, <3>1 DEF TypeOK
    <3> QED BY <1>0, <3>1, <3>2, StillStep DEF broker, session, history, InSession
  <2>6. ASSUME NEW p \in Partitions, StartClaim(m, p) PROVE Dues'
    <3>1. /\ pc[m][p] = "starting" /\ pc' = [pc EXCEPT ![m][p] = "select"]
          /\ UNCHANGED <<broker, session, marked, handled, refused, dropped>>
      BY <2>6 DEF StartClaim, At, Goto
    <3>2. \A n \in Members, q \in Partitions :
             \/ pc'[n][q] = pc[n][q] /\ pos'[n][q] = pos[n][q]
             \/ /\ pc[n][q] = "starting" /\ pc'[n][q] = "select"
                /\ InitialOffset = "oldest" => pos'[n][q] = pos[n][q]
      BY <1>0, <2>6, <3>1 DEF StartClaim, TypeOK
    <3> QED BY <1>0, <3>1, <3>2, StillStep DEF broker, session, InSession
  <2>7. ASSUME NEW p \in Partitions, SkipClaim(m, p) PROVE Dues'
    <3>1. /\ pc[m][p] = "starting" /\ pc' = [pc EXCEPT ![m][p] = "returned"]
          /\ UNCHANGED <<broker, session, pos, marked, history>>
      BY <2>7 DEF SkipClaim, At, Goto
    <3>2. \A n \in Members, q \in Partitions :
             pc'[n][q] = pc[n][q] \/ (pc[n][q] = "starting" /\ pc'[n][q] = "returned")
      BY <1>0, <3>1 DEF TypeOK
    <3> QED BY <1>0, <3>1, <3>2, StillStep DEF broker, session, history, InSession
  <2>8. ASSUME NEW p \in Partitions, CloseClaim(m, p) PROVE Dues'
    BY <1>0, <2>8, StillStep DEF CloseClaim, broker, loop, history, InSession
  <2> QED BY <1>3, <2>1, <2>2, <2>3, <2>4, <2>5, <2>6, <2>7, <2>8 DEF SessionStep
<1>4. ASSUME NEW m \in Members, NEW p \in Partitions, ConsumeClaim(m, p) PROVE Dues'
  <2>1. CASE Receive(m, p) \/ Done(m, p)
    <3>1. UNCHANGED <<broker, session, pos, marked, history>>
      BY <2>1 DEF Receive, Done
    <3>2. PICK label \in {"handle", "returned"} :
             pc[m][p] = "select" /\ pc' = [pc EXCEPT ![m][p] = label]
      BY <2>1 DEF Receive, Done, At, Goto
    <3>3. \A n \in Members, q \in Partitions :
             \/ pc'[n][q] = pc[n][q]
             \/ pc[n][q] = "select" /\ pc'[n][q] \in {"handle", "returned"}
      BY <1>0, <3>2 DEF TypeOK
    <3> QED BY <1>0, <3>1, <3>3, StillStep DEF broker, session, history, InSession
  <2>2. CASE ReceiveNil(m, p)
    BY <1>0, <2>2, DyingStep DEF ReceiveNil
  <2>3. CASE Handle(m, p)
    BY <1>0, <2>3, HandleStep
  <2>4. CASE Mark(m, p)
    BY <1>0, <2>4, MarkStep
  <2>5. CASE Commit(m, p)
    <3>1. /\ Flush(m) /\ InSession(m) /\ p \in claims[m] /\ pc[m][p] = "commit"
          /\ pc' = [pc EXCEPT ![m][p] = "select"]
          /\ UNCHANGED <<session, pos, marked, handled, dropped>>
      BY <2>5 DEF Commit, At, Goto
    <3>2. /\ \A n \in Members \ {m} : pc'[n] = pc[n]
          /\ \A q \in Partitions : pc'[m][q] = IF q = p THEN "select" ELSE pc[m][q]
      BY <1>0, <3>1 DEF TypeOK
    <3> QED BY <1>0, <3>1, <3>2, FlushStep DEF session, InSession
  <2> QED BY <1>4, <2>1, <2>2, <2>3, <2>4, <2>5 DEF ConsumeClaim
<1>5. CASE UNCHANGED vars
  BY <1>0, <1>5, StillStep DEF vars, broker, session, loop, history, InSession
<1> QED BY <1>1, <1>2, <1>3, <1>4, <1>5 DEF Next

(* What is owed, for any group: the invariant of the two theorems below. *)
THEOREM DuesAreKnown == Spec => []DInv
  BY DuesInit, DuesNext, PTL DEF Spec

(* No crash and no rebalance makes more than one message of a partition,   *)
(* apart from those whose commit was refused, be handled again, from the   *)
(* oldest offset and with immediate commits.                               *)
THEOREM WindowIsOne == Spec => []ReplayWindow
<1>1. DInv => ReplayWindow
  <2> SUFFICES ASSUME DInv, CommitMode = AutoImmediately, InitialOffset = "oldest",
                      NEW p \in Partitions
               PROVE  Cardinality({o \in handled[p] \ refused[p] : o >= committed[p]}) <= 1
    BY DEF ReplayWindow
  <2> DEFINE open == {o \in handled[p] \ refused[p] : o >= committed[p]}
  <2>1. /\ open \subseteq Offsets /\ Offsets \subseteq Int /\ committed[p] \in Int
        /\ \A o \in open : Uncommitted(p, o) \subseteq refused[p]
    BY DEF DInv, IInv, TypeOK, Dues, ClaimsKeepUp, Offsets
  <2>2. ASSUME NEW o1 \in open, NEW o2 \in open PROVE ~(o1 < o2)
    BY <2>1 DEF Uncommitted
  <2>3. ASSUME NEW o1 \in open, NEW o2 \in open PROVE o1 = o2
    <3>1. o1 \in Int /\ o2 \in Int
      BY <2>1
    <3> QED BY <2>2, <3>1
  <2> HIDE DEF open
  <2>4. CASE open = {}
    BY <2>4, FS_EmptySet DEF open
  <2>5. ASSUME NEW o \in open PROVE Cardinality(open) <= 1
    <3>1. open = {o}
      BY <2>3
    <3>2. Cardinality({o}) = 1
      BY FS_Singleton
    <3> QED BY <3>1, <3>2
  <2> QED BY <2>4, <2>5 DEF open
<1> QED BY <1>1, DuesAreKnown, PTL

(* What HandlerFunc has returned from is committed, or refused, or went    *)
(* down with a process, or is still owed by a session: no session that     *)
(* ends in an orderly way forgets it, in either commit mode.               *)
THEOREM NothingIsForgotten == Spec => []OwedIsHeld
<1>1. DInv => OwedIsHeld
  BY DEF DInv, Dues
<1> QED BY <1>1, DuesAreKnown, PTL

-----------------------------------------------------------------------------
(* The owner of a partition.  The members whose session is of the current  *)
(* generation share the partitions, and what such a session has marked of  *)
(* a partition is behind the claim that reads it, or is about to.          *)
Current(m) == InSession(m) /\ mgen[m] = generation

Fence ==
    \A m, n \in Members : m # n /\ Current(m) /\ Current(n) => claims[m] \cap claims[n] = {}

Places(m, p) ==
    /\ Current(m) /\ p \in claims[m]
    /\ pc[m][p] \in {"starting", "select", "handle", "mark", "commit"}

Ahead == \A m \in Members, p \in Partitions : Places(m, p) => committed[p] <= pos[m][p]

OInv == DInv /\ Fence /\ Ahead

LEMMA OwnersInit == Init => OInv
<1> SUFFICES ASSUME Init PROVE OInv
  OBVIOUS
<1>1. Fence /\ Ahead
  BY DEF Init, Fence, Ahead, Places, Current, InSession
<1> QED BY <1>1, DuesInit DEF OInv

(* A commit request of a session moves the offset of another's partition   *)
(* only if it is stale, and then the broker takes none of it.              *)
LEMMA FlushStaysBehind ==
    ASSUME OInv, NEW m \in Members, InSession(m), Flush(m),
           NEW n \in Members, NEW p \in Partitions, Places(n, p)
    PROVE  committed'[p] <= pos[n][p]
<1>1. \/ committed'[p] = committed[p]
      \/ p \in claims[m] /\ mgen[m] = generation /\ committed'[p] = marked[m][p]
  BY DEF Flush
<1>2. CASE committed'[p] = committed[p]
  BY <1>2 DEF OInv, Ahead
<1>3. CASE p \in claims[m] /\ mgen[m] = generation /\ committed'[p] = marked[m][p]
  <2>1. n = m
    BY <1>3 DEF OInv, Fence, Current, Places
  <2> QED BY <1>3, <2>1 DEF OInv, DInv, Dues, MarksMatch
<1> QED BY <1>1, <1>2, <1>3

(* A step inside the generation that starts no session leaves the owners   *)
(* what they are.                                                          *)
LEMMA OwnersStay ==
    ASSUME Fence, UNCHANGED <<generation, mgen, claims>>,
           \A n \in Members : InSession(n)' => InSession(n)
    PROVE  Fence' /\ \A n \in Members : Current(n)' => Current(n)
  BY DEF Fence, Current

(* One that besides commits nothing, or only what is behind the owners,    *)
(* and moves no claim back.                                                *)
LEMMA ClaimsStay ==
    ASSUME OInv, TypeOK', UNCHANGED <<generation, mgen, claims>>,
           \A n \in Members : InSession(n)' => InSession(n),
           \A n \in Members, q \in Partitions : Places(n, q) => committed'[q] <= pos[n][q],
           \A n \in Members, q \in Partitions :
              \/ pc'[n][q] = pc[n][q] /\ pos[n][q] <= pos'[n][q]
              \/ pc'[n][q] = "returned"
              \/ committed'[q] <= pos'[n][q]
              \/ /\ pc[n][q] \in {"select", "handle", "mark", "commit"}
                 /\ pos[n][q] <= pos'[n][q]
    PROVE  Fence' /\ Ahead'
<1>1. Fence' /\ \A n \in Members : Current(n)' => Current(n)
  BY OwnersStay DEF OInv
<1>2. \A n \in Members, q \in Partitions :
         committed'[q] \in Int /\ pos[n][q] \in Int /\ pos'[n][q] \in Int
  BY DEF OInv, DInv, IInv, TypeOK
<1>3. Ahead'
  <2> SUFFICES ASSUME NEW n \in Members, NEW q \in Partitions, Places(n, q)',
                      ~(committed'[q] <= pos'[n][q])
               PROVE  FALSE
    BY DEF Ahead
  <2>1. Places(n, q) /\ pos[n][q] <= pos'[n][q]
    BY <1>1 DEF Places
  <2> QED BY <1>2, <2>1
<1> QED BY <1>1, <1>3

LEMMA OwnersNext == OInv /\ [Next]_vars => OInv'
<1> SUFFICES ASSUME OInv, [Next]_vars PROVE Fence' /\ Ahead'
  BY DuesNext DEF OInv
<1>0. TypeOK /\ TypeOK'
  BY NextInv DEF OInv, DInv, IInv
<1>a. /\ \A n \in Members, q \in Partitions : Places(n, q) => committed[q] <= pos[n][q]
      /\ \A n \in Members, q \in Partitions : pos[n][q] \in Int /\ pos[n][q] <= pos[n][q]
  BY <1>0 DEF OInv, Ahead, TypeOK
<1>1. ASSUME NEW p \in Partitions, Produce(p) PROVE Fence' /\ Ahead'
  BY <1>0, <1>a, <1>1, ClaimsStay DEF Produce, session, loop, InSession
<1>2. ASSUME Rebalance PROVE Fence' /\ Ahead'
  <2>1. generation \in Int /\ \A n \in Members : mgen[n] \in Int /\ mgen[n] <= generation
    BY <1>0 DEF OInv, DInv, IInv, TypeOK
  <2>2. PICK owner \in [Partitions -> Joining] :
           /\ claims' = [m \in Members |->
                           IF m \in Joining THEN {p \in Partitions : owner[p] = m} ELSE claims[m]]
           /\ pc' = [m \in Members |->
                       IF m \in Joining
                       THEN [p \in Partitions |-> IF owner[p] = m THEN "fetch" ELSE "idle"]
                       ELSE pc[m]]
    BY <1>2 DEF Rebalance
  <2>3. \A n \in Members \ Joining : ~Current(n)'
    BY <1>2, <2>1 DEF Rebalance, Current
  <2>4. ASSUME NEW n \in Joining
        PROVE  /\ n \in Members /\ claims'[n] = {p \in Partitions : owner[p] = n}
               /\ \A q \in Partitions : pc'[n][q] \in {"fetch", "idle"}
    BY <2>2 DEF Joining
  <2>5. Fence'
    BY <2>3, <2>4 DEF Fence
  <2>6. Ahead'
    BY <2>3, <2>4 DEF Ahead, Places
  <2> QED BY <2>5, <2>6
<1>3. ASSUME NEW m \in Members, SessionStep(m) PROVE Fence' /\ Ahead'
  <2>1. CASE Start(m) \/ EndSession(m) \/ Crash(m)
    <3>1. UNCHANGED <<broker, mgen, claims, loop>>
      BY <2>1 DEF Start, EndSession, Crash, ProcessDies
    <3>2. \A n \in Members : InSession(n)' => InSession(n)
      BY <2>1, <1>0 DEF Start, EndSession, Crash, ProcessDies, InSession, TypeOK
    <3> QED BY <1>0, <1>a, <3>1, <3>2, ClaimsStay DEF broker, loop
  <2>2. CASE AutoCommit(m) \/ Release(m)
    <3>1. /\ UNCHANGED <<generation, mgen, claims, loop>> /\ InSession(m)
          /\ Flush(m) \/ committed' = committed
          /\ \A n \in Members : InSession(n)' => InSession(n)
      BY <2>2, <1>0 DEF AutoCommit, Release, InSession, TypeOK, session
    <3>2. \A n \in Members, q \in Partitions : Places(n, q) => committed'[q] <= pos[n][q]
      BY <1>a, <3>1, FlushStaysBehind
    <3> QED BY <1>0, <1>a, <3>1, <3>2, ClaimsStay DEF loop
  <2>3. ASSUME NEW p \in Partitions, FetchOffset(m, p) PROVE Fence' /\ Ahead'
    <3>1. /\ UNCHANGED <<broker, session>>
          /\ \A n \in Members, q \in Partitions :
                \/ pc'[n][q] = pc[n][q] /\ pos'[n][q] = pos[n][q]
                \/ pos'[n][q] = committed[q] /\ committed[q] <= committed[q]
      BY <2>3, <1>0 DEF FetchOffset, Goto, TypeOK
    <3> QED BY <1>0, <1>a, <3>1, ClaimsStay DEF broker, session, InSession
  <2>4. ASSUME NEW p \in Partitions, StartClaim(m, p) PROVE Fence' /\ Ahead'
    <3>1. /\ UNCHANGED <<broker, session>> /\ p \in claims[m] /\ pc[m][p] = "starting"
          /\ pc' = [pc EXCEPT ![m][p] = "select"]
      BY <2>4 DEF StartClaim, At, Goto
    <3>2. pos' = pos \/ (pos[m][p] = 0 /\ pos' = [pos EXCEPT ![m][p] = end[p]])
      BY <2>4 DEF StartClaim
    <3>3. \A n \in Members, q \in Partitions :
             \/ pc'[n][q] = pc[n][q] /\ pos'[n][q] = pos[n][q]
             \/ n = m /\ q = p
      BY <1>0, <3>1, <3>2 DEF TypeOK
    <3>4. Fence' /\ \A n \in Members : Current(n)' => Current(n)
      BY <3>1, OwnersStay DEF OInv, broker, session, InSession
    <3>5. pos[m][p] <= pos'[m][p] /\ pos[m][p] \in Int /\ pos'[m][p] \in Int /\ committed[p] \in Int
      BY <1>0, <3>2 DEF TypeOK
    <3>6. Ahead'
      <4> SUFFICES ASSUME NEW n \in Members, NEW q \in Partitions, Places(n, q)'
                   PROVE  committed'[q] <= pos'[n][q]
        BY DEF Ahead
      <4>1. Places(n, q)
        BY <3>1, <3>3, <3>4 DEF Places, session
      <4>2. committed[q] <= pos[n][q] /\ committed'[q] = committed[q]
        BY <1>a, <3>1, <4>1 DEF broker
      <4> QED BY <3>3, <3>5, <4>2
    <3> QED BY <3>4, <3>6
  <2>5. ASSUME NEW p \in Partitions, SkipClaim(m, p) \/ CloseClaim(m, p) PROVE Fence' /\ Ahead'
    <3>1. UNCHANGED <<generation, state, mgen, claims, committed, pos>>
      BY <2>5 DEF SkipClaim, CloseClaim, broker, session, loop
    <3>2. \A n \in Members, q \in Partitions : pc'[n][q] = pc[n][q] \/ pc'[n][q] = "returned"
      <4>1. pc' = pc \/ pc' = [pc EXCEPT ![m][p] = "returned"]
        BY <2>5 DEF SkipClaim, CloseClaim, Goto, loop
      <4>2. pc \in [Members -> [Partitions -> PCs]]
        BY <1>0 DEF TypeOK
      <4> QED BY <4>1, <4>2
    <3>3. \A n \in Members : InSession(n)' => InSession(n)
      BY <3>1 DEF InSession
    <3> QED BY <1>0, <1>a, <3>1, <3>2, <3>3, ClaimsStay
  <2> QED BY <1>3, <2>1, <2>2, <2>3, <2>4, <2>5 DEF SessionStep
<1>4. ASSUME NEW m \in Members, NEW p \in Partitions, ConsumeClaim(m, p)
      PROVE  Fence' /\ Ahead'
  <2>1. CASE Receive(m, p) \/ Done(m, p) \/ Handle(m, p)
    <3>1. UNCHANGED <<generation, state, mgen, claims, committed, pos>>
      BY <2>1 DEF Receive, Done, Handle, broker, session
    <3>2. PICK label \in {"handle", "mark", "returned"} :
             pc' = [pc EXCEPT ![m][p] = label] /\ pc[m][p] \in {"select", "handle"}
      BY <2>1 DEF Receive, Done, Handle, At, Goto
    <3>3. \A n \in Members, q \in Partitions :
             pc'[n][q] = pc[n][q] \/ pc[n][q] \in {"select", "handle"}
      BY <3>2, <1>0 DEF TypeOK
    <3>4. \A n \in Members : InSession(n)' => InSession(n)
      BY <3>1 DEF InSession
    <3> QED BY <1>0, <1>a, <3>1, <3>3, <3>4, ClaimsStay
  <2>2. CASE ReceiveNil(m, p)
    <3>1. \A n \in Members : InSession(n)' => InSession(n)
      BY <2>2, <1>0 DEF ReceiveNil, ProcessDies, InSession, TypeOK
    <3> QED BY <1>0, <1>a, <2>2, <3>1, ClaimsStay DEF ReceiveNil, ProcessDies, broker, loop
  <2>3. CASE Mark(m, p)
    <3>1. /\ UNCHANGED <<broker, session>> /\ pc[m][p] = "mark"
          /\ pos' = [pos EXCEPT ![m][p] = @ + 1]
      BY <2>3 DEF Mark, At
    <3>2. \A n \in Members, q \in Partitions :
             \/ pc'[n][q] = pc[n][q] /\ pos'[n][q] = pos[n][q]
             \/ pc[n][q] = "mark" /\ pos'[n][q] = pos[n][q] + 1
      BY <2>3, <1>0, <3>1 DEF Mark, Goto, TypeOK
    <3>3. \A n \in Members, q \in Partitions : pos[n][q] <= pos[n][q] + 1
      BY <1>a
    <3> QED BY <1>0, <1>a, <3>1, <3>2, <3>3, ClaimsStay DEF broker, session, InSession
  <2>4. CASE Commit(m, p)
    <3>1. /\ UNCHANGED <<generation, session, pos>> /\ InSession(m) /\ Flush(m)
          /\ pc[m][p] = "commit" /\ pc' = [pc EXCEPT ![m][p] = "select"]
      BY <2>4 DEF Commit, At, Goto
    <3>2. \A n \in Members, q \in Partitions :
             pc'[n][q] = pc[n][q] \/ pc[n][q] = "commit"
      BY <1>0, <3>1 DEF TypeOK
    <3>3. \A n \in Members, q \in Partitions : Places(n, q) => committed'[q] <= pos[n][q]
      BY <3>1, FlushStaysBehind
    <3> QED BY <1>0, <1>a, <3>1, <3>2, <3>3, ClaimsStay DEF session, InSession
  <2> QED BY <1>4, <2>1, <2>2, <2>3, <2>4 DEF ConsumeClaim
<1>5. CASE UNCHANGED vars
  BY <1>0, <1>a, <1>5, ClaimsStay DEF vars, broker, session, loop, InSession
<1> QED BY <1>1, <1>2, <1>3, <1>4, <1>5 DEF Next

THEOREM OwnersAreKnown == Spec => []OInv
  BY OwnersInit, OwnersNext, PTL DEF Spec

(* The owner of a partition is never handed a message that the group has   *)
(* committed: the generation keeps the commits of evicted members out, and *)
(* those of its own session are behind it.                                 *)
THEOREM OwnersAreAhead == Spec => []OwnerIsAhead
<1>1. OInv => OwnerIsAhead
  BY DEF OInv, Ahead, Places, Current, OwnerIsAhead, Reads
<1> QED BY <1>1, OwnersAreKnown, PTL

-----------------------------------------------------------------------------
(* The refinement: each step is one of AtLeastOnce or leaves its variables *)
(* alone.                                                                  *)

LEMMA InitRefines == Init => Abstract!Init
  BY DEF Init, Abstract!Init, Settled

LEMMA FlushRefines ==
    ASSUME IInv, NEW m \in Members, Flush(m), UNCHANGED <<end, handled, skipped>>
    PROVE  Abstract!Next
<1>1. Settled' = Settled
  BY DEF Settled
<1>2. Abstract!Acknowledge
  BY <1>1, FlushIsSound DEF Abstract!Acknowledge
<1> QED BY <1>2 DEF Abstract!Next

(* A member that is not evicted fetched the offset the group still has, so *)
(* what it passes over was never acknowledged.                             *)
LEMMA StartClaimRefines ==
    ASSUME OInv, NEW m \in Members, NEW p \in Partitions, StartClaim(m, p), skipped' # skipped
    PROVE  Abstract!Next
<1>1. /\ UNCHANGED <<end, committed, handled>> /\ InitialOffset = "newest"
      /\ pos[m][p] = 0 /\ mgen[m] = generation
      /\ skipped' = [skipped EXCEPT ![p] = @ \cup ((0 .. end[p] - 1) \ handled[p])]
  BY DEF StartClaim, broker
<1>2. committed[p] = 0
  <2>1. Places(m, p)
    BY <1>1 DEF StartClaim, At, Places, Current
  <2> QED BY <1>1, <2>1 DEF OInv, Ahead, DInv, IInv, TypeOK
<1>3. Settled' = [Settled EXCEPT ![p] = @ \cup 0 .. end[p] - 1]
  <2>1. ASSUME NEW q \in Partitions
        PROVE  handled'[q] \cup skipped'[q] =
                  IF q = p THEN Settled[p] \cup 0 .. end[p] - 1 ELSE Settled[q]
    BY <1>1, SettledAt DEF OInv, DInv, IInv, TypeOK
  <2> QED BY <2>1 DEF Settled
<1>4. Abstract!PassOver(p)
  BY <1>1, <1>2, <1>3 DEF Abstract!PassOver
<1> QED BY <1>4 DEF Abstract!Next

LEMMA HandleRefines ==
    ASSUME IInv, NEW m \in Members, NEW p \in Partitions, Handle(m, p)
    PROVE  Abstract!Next
<1>1. /\ pos[m][p] < end[p] /\ pos[m][p] \in 0 .. MaxMessages - 1
      /\ InitialOffset = "oldest" => 0 .. pos[m][p] - 1 \subseteq Settled[p]
  BY BoundsAssumption DEF Handle, At, IInv, ClaimCoversItsPast, TypeOK
<1>2. Settled' = [Settled EXCEPT ![p] = @ \cup {pos[m][p]}]
  <2>1. ASSUME NEW q \in Partitions
        PROVE  handled'[q] \cup skipped'[q] =
                  IF q = p THEN Settled[p] \cup {pos[m][p]} ELSE Settled[q]
    BY SettledAt DEF Handle, IInv, TypeOK
  <2> QED BY <2>1 DEF Settled
<1>3. Abstract!Deliver(p, pos[m][p])
  BY <1>1, <1>2 DEF Handle, broker, Abstract!Deliver
<1> QED BY <1>1, <1>3 DEF Abstract!Next, Abstract!Offsets

LEMMA NextRefines == OInv /\ [Next]_vars => [Abstract!Next]_(Abstract!vars)
<1> SUFFICES ASSUME OInv, [Next]_vars,
                    ~UNCHANGED <<end, Settled, committed>>
             PROVE  Abstract!Next
  BY DEF Abstract!vars
<1>0. /\ IInv
      /\ end' # end \/ committed' # committed \/ handled' # handled \/ skipped' # skipped
  BY DEF Settled, OInv, DInv
<1>1. ASSUME NEW p \in Partitions, Produce(p) PROVE Abstract!Next
  <2>1. Settled' = Settled
    BY <1>1 DEF Produce, Settled, history
  <2>2. Abstract!Publish(p)
    BY <1>1, <2>1 DEF Produce, Abstract!Publish
  <2> QED BY <2>2 DEF Abstract!Next
<1>2. CASE Rebalance
  BY <1>0, <1>2 DEF Rebalance, history
<1>3. ASSUME NEW m \in Members, SessionStep(m) PROVE Abstract!Next
  <2>1. CASE Start(m) \/ EndSession(m) \/ Crash(m)
    BY <1>0, <2>1 DEF Start, EndSession, Crash, ProcessDies, broker, history
  <2>2. CASE AutoCommit(m)
    BY <1>0, <2>2, FlushRefines DEF AutoCommit
  <2>3. CASE Release(m)
    <3>1. CASE Flush(m)
      BY <1>0, <2>3, <3>1, FlushRefines DEF Release
    <3>2. CASE ~Flush(m)
      BY <1>0, <2>3, <3>2 DEF Release
    <3> QED BY <3>1, <3>2
  <2>4. ASSUME NEW p \in Partitions, StartClaim(m, p) PROVE Abstract!Next
    <3>1. skipped' # skipped
      BY <1>0, <2>4 DEF StartClaim, broker
    <3> QED BY <2>4, <3>1, StartClaimRefines
  <2>5. ASSUME NEW p \in Partitions, FetchOffset(m, p) \/ SkipClaim(m, p) PROVE Abstract!Next
    BY <1>0, <2>5 DEF FetchOffset, SkipClaim, broker, history
  <2>6. ASSUME NEW p \in Partitions, CloseClaim(m, p) PROVE Abstract!Next
    BY <1>0, <2>6 DEF CloseClaim, broker, history
  <2> QED BY <1>3, <2>1, <2>2, <2>3, <2>4, <2>5, <2>6 DEF SessionStep
<1>4. ASSUME NEW m \in Members, NEW p \in Partitions, ConsumeClaim(m, p)
      PROVE  Abstract!Next
  <2>1. CASE Receive(m, p) \/ ReceiveNil(m, p) \/ Done(m, p) \/ Mark(m, p)
    BY <1>0, <2>1 DEF Receive, ReceiveNil, ProcessDies, Done, Mark, broker, history
  <2>2. CASE Handle(m, p)
    BY <1>0, <2>2, HandleRefines
  <2>3. CASE Commit(m, p)
    BY <1>0, <2>3, FlushRefines DEF Commit
  <2> QED BY <1>4, <2>1, <2>2, <2>3 DEF ConsumeClaim
<1>5. CASE UNCHANGED vars
  BY <1>0, <1>5 DEF vars, broker, history
<1> QED BY <1>1, <1>2, <1>3, <1>4, <1>5 DEF Next

(* The consumer group implements the log consumer of AtLeastOnce. *)
THEOREM Refinement == Spec => ImplementsAtLeastOnce
<1>1. Init => Abstract!Init
  BY InitRefines
<1>2. OInv /\ [Next]_vars => [Abstract!Next]_(Abstract!vars)
  BY NextRefines
<1> QED BY <1>1, <1>2, OwnersAreKnown, PTL DEF Spec, ImplementsAtLeastOnce, Abstract!Spec

-----------------------------------------------------------------------------
(* With Consumer.Offsets.Initial set to the oldest, no claim passes over a *)
(* message.                                                                *)
NothingPassedOver == InitialOffset = "oldest" => \A p \in Partitions : skipped[p] = {}

LEMMA NextPassesNothing == NothingPassedOver /\ [Next]_vars => NothingPassedOver'
<1> SUFFICES ASSUME NothingPassedOver, [Next]_vars, InitialOffset = "oldest"
             PROVE  skipped' = skipped
  BY DEF NothingPassedOver
<1>1. CASE Rebalance \/ (\E p \in Partitions : Produce(p)) \/ UNCHANGED vars
  BY <1>1 DEF Rebalance, Produce, vars, history
<1>2. ASSUME NEW m \in Members, SessionStep(m) PROVE skipped' = skipped
  BY <1>2 DEF SessionStep, Start, EndSession, AutoCommit, Release, Crash, ProcessDies,
              FetchOffset, StartClaim, SkipClaim, CloseClaim, history
<1>3. ASSUME NEW m \in Members, NEW p \in Partitions, ConsumeClaim(m, p)
      PROVE  skipped' = skipped
  BY <1>3 DEF ConsumeClaim, Receive, ReceiveNil, Done, Handle, Mark, Commit, ProcessDies, history
<1> QED BY <1>1, <1>2, <1>3 DEF Next

(* At least once, for a group that starts at the oldest offset:             *)
(* HandlerFunc has returned from every message below the committed offset. *)
THEOREM FromOldestAllIsHandled ==
    Spec => [](InitialOffset = "oldest" =>
                  \A p \in Partitions : 0 .. committed[p] - 1 \subseteq handled[p])
<1>1. Init => NothingPassedOver
  BY DEF Init, NothingPassedOver
<1>2. CommittedWasHandled /\ NothingPassedOver =>
         (InitialOffset = "oldest" =>
             \A p \in Partitions : 0 .. committed[p] - 1 \subseteq handled[p])
  BY SettledAt DEF CommittedWasHandled, NothingPassedOver
<1> QED BY <1>1, <1>2, NextPassesNothing, NothingIsLost, PTL DEF Spec

-----------------------------------------------------------------------------
(* What follows from the refinement: the promises of AtLeastOnce, proved   *)
(* of it alone.                                                            *)
Promise == INSTANCE AtLeastOnce_proofs
    WITH FromOldest <- InitialOffset = "oldest",
         produced <- end, settled <- Settled, acknowledged <- committed

LEMMA KeepsPromise == Spec => Promise!Spec
<1>1. Abstract!Init => Promise!Init
  BY DEF Abstract!Init, Promise!Init
<1>2. [Abstract!Next]_(Abstract!vars) => [Promise!Next]_(Promise!vars)
  BY DEF Abstract!Next, Promise!Next, Abstract!vars, Promise!vars, Abstract!Publish,
         Promise!Publish, Abstract!PassOver, Promise!PassOver, Abstract!Deliver, Promise!Deliver,
         Abstract!Acknowledge, Promise!Acknowledge, Abstract!Offsets, Promise!Offsets
<1> QED BY <1>1, <1>2, Refinement, PTL
        DEF ImplementsAtLeastOnce, Abstract!Spec, Promise!Spec

(* From the oldest offset, of each partition a prefix of the log is        *)
(* handled, whichever members were at it, at once or one after the other.  *)
THEOREM NothingOutOfTurn == Spec => []SettledInOrder
<1>1. Promise!Spec => []Promise!SettledInOrder
  BY Promise!NothingOutOfTurn, BoundsAssumption
<1>2. Promise!SettledInOrder <=> SettledInOrder
  BY DEF Promise!SettledInOrder, SettledInOrder
<1> QED BY <1>1, <1>2, KeepsPromise, PTL

(* No crash, rebalance or refused commit takes a committed offset or the   *)
(* end of a handler back.                                                  *)
THEOREM ForGood == Spec => Promise!NothingTakenBack
<1>1. Promise!Spec => Promise!NothingTakenBack
  BY Promise!ForGood, BoundsAssumption
<1> QED BY <1>1, KeepsPromise, PTL
=============================================================================
