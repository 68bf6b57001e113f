--------------------------- MODULE ConsumerService ---------------------------
(***************************************************************************)
(* What the consumers of an application promise to the rest of it, as the  *)
(* hooks of kafka.go and core.Consumer show them: handlers run only        *)
(* between Start and the return of Stop, each only after its consumer was  *)
(* set up; readiness is reported once, when all consumers have been; and   *)
(* after Stop was called the consumers fall silent one by one, until it    *)
(* returns.                                                                *)
(***************************************************************************)
EXTENDS FiniteSets

CONSTANT Consumers   \* keys of SaramaConsumers.consumers

VARIABLES
    service,   \* "created", "started", "stopping" (Stop was called), "stopped"
    setUp,     \* consumers that have had their Setup
    ready,     \* WaitForReady of the service has been signalled
    serving,   \* consumers that may (still) call their handler
    busy       \* consumers whose HandlerFunc runs

vars == <<service, setUp, ready, serving, busy>>

Init ==
    /\ service = "created"
    /\ setUp = {}
    /\ ready = FALSE
    /\ serving = Consumers
    /\ busy = {}

Start ==
    /\ service = "created"
    /\ service' = "started"
    /\ UNCHANGED <<setUp, ready, serving, busy>>

GetReady(c) ==
    /\ service # "created"
    /\ setUp' = setUp \cup {c}
    /\ UNCHANGED <<service, ready, serving, busy>>

ReportReady ==
    /\ service # "created" /\ setUp = Consumers
    /\ ready' = TRUE
    /\ UNCHANGED <<service, setUp, serving, busy>>

Enter(c) ==
    /\ service # "created" /\ c \in serving \cap setUp
    /\ busy' = busy \cup {c}
    /\ UNCHANGED <<service, setUp, ready, serving>>

Leave(c) ==
    /\ busy' = busy \ {c}
    /\ UNCHANGED <<service, setUp, ready, serving>>

BeginStop ==
    /\ service = "started"
    /\ service' = "stopping"
    /\ UNCHANGED <<setUp, ready, serving, busy>>

Quit(c) ==
    /\ service = "stopping" /\ c \notin busy
    /\ serving' = serving \ {c}
    /\ UNCHANGED <<service, setUp, ready, busy>>

EndStop ==
    /\ service = "stopping" /\ serving = {}
    /\ service' = "stopped"
    /\ UNCHANGED <<setUp, ready, serving, busy>>

Next ==
    \/ Start \/ ReportReady \/ BeginStop \/ EndStop
    \/ \E c \in Consumers : GetReady(c) \/ Enter(c) \/ Leave(c) \/ Quit(c)

Spec == Init /\ [][Next]_vars

-----------------------------------------------------------------------------
(* What the rest of the application may rely on *)

(* A handler runs only in a consumer that serves and was set up; nothing   *)
(* is set up before the start; what is reported ready is ready; and from   *)
(* the end of the stop on all is silent.                                   *)
Contract ==
    /\ busy \subseteq serving \cap setUp
    /\ service = "created" => setUp = {}
    /\ ready => setUp = Consumers
    /\ service \in {"created", "started"} => serving = Consumers
    /\ service = "stopped" => serving = {} /\ busy = {}

(* Readiness is not taken back, and who has fallen silent stays so. *)
NothingTakenBack ==
    [][/\ ready => ready'
       /\ setUp \subseteq setUp'
       /\ serving' \subseteq serving]_vars
=============================================================================
