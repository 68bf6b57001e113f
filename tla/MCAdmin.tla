------------------------------- MODULE MCAdmin -------------------------------
(* Instances of Admin for TLC. *)
EXTENDS Admin, TLC

CONSTANTS b1, b2, t1, t2

MCServers == <<b1, b2>>

(* A topic; two topics, one of them configured twice. *)
Conf(t, partitions, retention) ==
    [name |-> t, partitions |-> partitions, retention |-> retention]
MCConfigurations ==
    {<<Conf(t1, 1, 0)>>, <<Conf(t2, 2, 5), Conf(t1, 1, 0), Conf(t2, 1, 0)>>}

Symmetry == Permutations(Callers)
=============================================================================
