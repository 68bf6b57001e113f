----------------------- MODULE MCConsumerGroupHandler -----------------------
(* Instances of ConsumerGroupHandler for TLC. *)
EXTENDS ConsumerGroupHandler, TLC

(* The members and the partitions of a group are interchangeable.  Used by *)
(* the runs that check no liveness property.                               *)
Symmetry == Permutations(Members) \cup Permutations(Partitions)
=============================================================================
