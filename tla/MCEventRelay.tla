---------------------------- MODULE MCEventRelay ----------------------------
(* Instances of EventRelay for TLC: all events are orders, and those in    *)
(* Pointers are published by pointer, so that their type has no name.      *)
EXTENDS EventRelay, TLC

CONSTANTS Pointers, orderEvent, unnamed

MCNames == {orderEvent, unnamed}
MCEventName == [e \in Events |-> orderEvent]
MCTypeName == [e \in Events |-> IF e \in Pointers THEN unnamed ELSE orderEvent]

(* Topics, and events that are published the same way, are interchangeable. *)
Symmetry ==
    Permutations(Topics) \cup Permutations(Events \ Pointers) \cup Permutations(Pointers)
=============================================================================
