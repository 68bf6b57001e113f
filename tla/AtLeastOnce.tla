----------------------------- MODULE AtLeastOnce -----------------------------
(***************************************************************************)
(* What a consumer group promises to the application that produces to it   *)
(* and to the one whose handler it calls, whatever its members, sessions,  *)
(* rebalances and crashes do: an offset is acknowledged to the broker only *)
(* when everything before it is settled, an acknowledgement is never taken *)
(* back, and, with Consumer.InitialOffset the oldest, every partition is   *)
(* settled in the order of its log.  "Settled" is handled by HandlerFunc,  *)
(* or passed over because the group had no committed offset and            *)
(* Consumer.InitialOffset was the newest.                                  *)
(***************************************************************************)
EXTENDS Integers

CONSTANTS Partitions,   \* the partitions of the topics the group consumes
          FromOldest,   \* whether the group starts at the oldest offset
          MaxMessages   \* bound: messages written to one partition

VARIABLES produced,     \* produced[p]: number of messages in the log of p
          settled,      \* settled[p]: offsets of p that need no (more) handling
          acknowledged  \* acknowledged[p]: next offset to read, 0 if none yet

vars == <<produced, settled, acknowledged>>

Offsets == 0 .. MaxMessages - 1

TypeOK == /\ produced \in [Partitions -> 0 .. MaxMessages]
          /\ settled \in [Partitions -> SUBSET Offsets]
          /\ acknowledged \in [Partitions -> 0 .. MaxMessages]

Init == /\ produced = [p \in Partitions |-> 0]
        /\ settled = [p \in Partitions |-> {}]
        /\ acknowledged = [p \in Partitions |-> 0]

Publish(p) ==
    /\ produced[p] < MaxMessages
    /\ produced' = [produced EXCEPT ![p] = @ + 1]
    /\ UNCHANGED <<settled, acknowledged>>

(* Deliveries may repeat an offset.  They may not jump over one, unless    *)
(* consumers may start at the end of the log.                              *)
Deliver(p, o) ==
    /\ o < produced[p]
    /\ FromOldest => 0 .. o - 1 \subseteq settled[p]
    /\ settled' = [settled EXCEPT ![p] = @ \cup {o}]
    /\ UNCHANGED <<produced, acknowledged>>

(* Only a partition that was never acknowledged may be read from its end. *)
PassOver(p) ==
    /\ ~FromOldest
    /\ acknowledged[p] = 0
    /\ settled' = [settled EXCEPT ![p] = @ \cup 0 .. produced[p] - 1]
    /\ UNCHANGED <<produced, acknowledged>>

(* One commit request may acknowledge several partitions. *)
Acknowledge ==
    /\ acknowledged' \in [Partitions -> 0 .. MaxMessages]
    /\ \A p \in Partitions : /\ acknowledged[p] <= acknowledged'[p]
                             /\ 0 .. acknowledged'[p] - 1 \subseteq settled[p]
    /\ UNCHANGED <<produced, settled>>

Next == \/ \E p \in Partitions : Publish(p) \/ PassOver(p)
        \/ \E p \in Partitions, o \in Offsets : Deliver(p, o)
        \/ Acknowledge

Spec == Init /\ [][Next]_vars

-----------------------------------------------------------------------------
(* What the two applications may rely on *)

(* To the one that handles: from the oldest offset, what is settled of a   *)
(* partition is a prefix of its log, so that no message is handled before  *)
(* those written before it have been handled once.                         *)
SettledInOrder ==
    FromOldest => \A p \in Partitions : \A o \in settled[p] :
                     o < produced[p] /\ 0 .. o \subseteq settled[p]

(* To the one that produces: what is acknowledged will not be needed again. *)
AcknowledgedIsSettled ==
    \A p \in Partitions : 0 .. acknowledged[p] - 1 \subseteq settled[p]

(* To both: neither is ever taken back. *)
NothingTakenBack ==
    [][\A p \in Partitions : /\ acknowledged[p] <= acknowledged'[p]
                             /\ settled[p] \subseteq settled'[p]]_vars
=============================================================================
