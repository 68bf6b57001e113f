-------------------------- MODULE AtLeastOnce_proofs --------------------------
(***************************************************************************)
(* That AtLeastOnce is a promise worth having: what the applications on    *)
(* both sides of a consumer group rely on follows from it alone.  Whatever *)
(* implements it keeps these promises; ConsumerGroupHandler_proofs uses    *)
(* them for the claim loop.                                                *)
(***************************************************************************)
EXTENDS AtLeastOnce, TLAPS

IInv == TypeOK /\ SettledInOrder /\ AcknowledgedIsSettled

LEMMA InitInv == ASSUME MaxMessages \in Nat, Init PROVE IInv
  BY DEF Init, IInv, TypeOK, SettledInOrder, AcknowledgedIsSettled

LEMMA NextInv == ASSUME MaxMessages \in Nat, IInv, [Next]_vars PROVE IInv'
<1> USE DEF IInv
<1>1. ASSUME NEW p \in Partitions, Publish(p) PROVE IInv'
  <2>1. TypeOK'
    BY <1>1 DEF Publish, TypeOK
  <2>2. SettledInOrder'
    BY <1>1 DEF Publish, SettledInOrder, TypeOK, Offsets
  <2>3. AcknowledgedIsSettled'
    BY <1>1 DEF Publish, AcknowledgedIsSettled
  <2> QED BY <2>1, <2>2, <2>3
<1>2. ASSUME NEW p \in Partitions, PassOver(p) PROVE IInv'
  <2>0. /\ ~FromOldest
        /\ settled' = [settled EXCEPT ![p] = @ \cup 0 .. produced[p] - 1]
        /\ UNCHANGED <<produced, acknowledged>>
    BY <1>2 DEF PassOver
  <2>1. TypeOK'
    BY <2>0 DEF TypeOK, Offsets
  <2>2. SettledInOrder'
    BY <2>0 DEF SettledInOrder, TypeOK, Offsets
  <2>3. AcknowledgedIsSettled'
    BY <2>0 DEF AcknowledgedIsSettled, TypeOK
  <2> QED BY <2>1, <2>2, <2>3
<1>3. ASSUME NEW p \in Partitions, NEW o \in Offsets, Deliver(p, o) PROVE IInv'
  <2>0. /\ o < produced[p]
        /\ FromOldest => 0 .. o - 1 \subseteq settled[p]
        /\ settled' = [settled EXCEPT ![p] = @ \cup {o}]
        /\ UNCHANGED <<produced, acknowledged>>
    BY <1>3 DEF Deliver
  <2>1. TypeOK'
    BY <2>0 DEF TypeOK
  <2>2. SettledInOrder'
    BY <2>0 DEF SettledInOrder, TypeOK, Offsets
  <2>3. AcknowledgedIsSettled'
    BY <2>0 DEF AcknowledgedIsSettled, TypeOK
  <2> QED BY <2>1, <2>2, <2>3
<1>4. CASE Acknowledge
  BY <1>4 DEF Acknowledge, TypeOK, SettledInOrder, AcknowledgedIsSettled
<1>5. CASE UNCHANGED vars
  BY <1>5 DEF vars, TypeOK, SettledInOrder, AcknowledgedIsSettled
<1> QED BY <1>1, <1>2, <1>3, <1>4, <1>5 DEF Next

(* The three together are inductive: an offset is acknowledged only inside *)
(* a settled prefix and, from the oldest, delivered next to one.           *)
THEOREM Invariance == ASSUME MaxMessages \in Nat PROVE Spec => []IInv
<1>1. Init => IInv
  BY InitInv
<1>2. IInv /\ [Next]_vars => IInv'
  BY NextInv
<1> QED BY <1>1, <1>2, PTL DEF Spec

(* To the application that handles: from the oldest offset nothing is      *)
(* handled out of turn.                                                    *)
THEOREM NothingOutOfTurn ==
    ASSUME MaxMessages \in Nat PROVE Spec => []SettledInOrder
  BY Invariance, PTL DEF IInv

(* To the application that produces: what is acknowledged is settled. *)
THEOREM AcknowledgedIsDone ==
    ASSUME MaxMessages \in Nat PROVE Spec => []AcknowledgedIsSettled
  BY Invariance, PTL DEF IInv

LEMMA Monotone ==
    ASSUME MaxMessages \in Nat, TypeOK, [Next]_vars, NEW p \in Partitions
    PROVE  acknowledged[p] <= acknowledged'[p] /\ settled[p] \subseteq settled'[p]
<1> USE DEF TypeOK
<1>1. ASSUME NEW q \in Partitions, Publish(q) \/ PassOver(q) \/ \E o \in Offsets : Deliver(q, o)
      PROVE  acknowledged' = acknowledged /\ settled[p] \subseteq settled'[p]
  BY <1>1 DEF Publish, PassOver, Deliver
<1>2. CASE Acknowledge
  BY <1>2 DEF Acknowledge
<1>3. CASE UNCHANGED vars
  BY <1>3 DEF vars
<1>4. acknowledged[p] <= acknowledged[p]
  OBVIOUS
<1> QED BY <1>1, <1>2, <1>3, <1>4 DEF Next

(* To both: an acknowledgement, or the end of a handler, is never undone,  *)
(* whatever crashes and rebalances implement the steps in between.         *)
THEOREM ForGood ==
    ASSUME MaxMessages \in Nat PROVE Spec => NothingTakenBack
<1>1. TypeOK /\ [Next]_vars =>
         \A p \in Partitions : /\ acknowledged[p] <= acknowledged'[p]
                               /\ settled[p] \subseteq settled'[p]
  BY Monotone
<1>2. IInv => TypeOK
  BY DEF IInv
<1> QED BY <1>1, <1>2, Invariance, PTL DEF Spec, NothingTakenBack
=============================================================================
