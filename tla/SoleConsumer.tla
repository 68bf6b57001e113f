----------------------------- MODULE SoleConsumer -----------------------------
(***************************************************************************)
(* ConsumerLifecycle as one of its consumers sees it.  The consumers meet  *)
(* only in the wait groups of SaramaConsumers.Start and Stop, which wait   *)
(* for all of them: whatever one consumer goes through in an application   *)
(* with many it goes through in an application that has no other.  When    *)
(* the claim of another ends the process, it just takes no more steps.     *)
(***************************************************************************)
EXTENDS ConsumerLifecycle

Only(f, c) == [d \in {c} |-> f[d]]

Alone(c) == INSTANCE ConsumerLifecycle
    WITH Consumers <- {c},
         waiter <- Only(waiter, c), loop <- Only(loop, c), running <- Only(running, c),
         signalled <- Only(signalled, c), handling <- Only(handling, c),
         stopper <- Only(stopper, c), open <- Only(open, c), everReady <- Only(everReady, c),
         panicked <- panicked \cap {c}

(* HAZARD consumers started, awaited and stopped together: nothing that    *)
(* one of them does, and no order in which their goroutines run, makes     *)
(* another behave as it could not alone.  What holds of every application  *)
(* with one consumer, step by step, therefore holds of each consumer.      *)
EachConsumerAlone ==
    /\ \A c \in Consumers : Alone(c)!Init
    /\ [][\A c \in Consumers : [Alone(c)!Next]_(Alone(c)!vars)]_vars
=============================================================================
