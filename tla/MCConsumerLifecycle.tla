------------------------- MODULE MCConsumerLifecycle -------------------------
(* Instances of ConsumerLifecycle for TLC. *)
EXTENDS SoleConsumer, TLC

(* The consumers are interchangeable.  Used where no liveness is checked. *)
Symmetry == Permutations(Consumers)
=============================================================================
