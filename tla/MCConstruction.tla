---------------------------- MODULE MCConstruction ----------------------------
(* Instances of Construction for TLC. *)
EXTENDS Construction, TLC

CONSTANTS orders, Orders, spaced, collector, h1, h2

MCNames == {orders, Orders, spaced, collector}
MCTrim == [n \in MCNames |-> IF n = spaced THEN orders ELSE n]
MCLower == [n \in MCNames |-> IF n = Orders THEN orders ELSE n]

(* Two handlers of one name. *)
MCStructName == [h \in {h1, h2} |-> collector]

Entry(enable, topic, topics) == [enable |-> enable, topic |-> topic, topics |-> topics]
MCRequests == {Entry(FALSE, orders, {}), Entry(TRUE, NoName, {Orders, spaced})}

(* Nothing; a handler and a topic that is switched off; one key in two     *)
(* spellings.                                                              *)
MCConfigurations ==
    {[n \in {} |-> Entry(FALSE, NoName, {})],
     [n \in {collector, orders} |-> Entry(n = collector, NoName, {Orders, orders})],
     [n \in {orders, spaced} |-> Entry(TRUE, n, {})]}

MCPresets ==
    {[tls |-> FALSE, returns |-> FALSE, autoCommit |-> TRUE],
     [tls |-> TRUE, returns |-> TRUE, autoCommit |-> FALSE]}

Symmetry == Permutations(Subscribers) \cup Permutations({h1, h2})
=============================================================================
