------------------------ MODULE ConsumerService_proofs ------------------------
(***************************************************************************)
(* What the promise of ConsumerService is worth: the contract that the     *)
(* rest of an application relies on follows from it alone.  Whatever       *)
(* implements the service keeps the contract; ConsumerLifecycle_proofs     *)
(* uses it for the consumers, AppLifecycle_proofs for the application.     *)
(***************************************************************************)
EXTENDS ConsumerService, TLAPS

TypeOK ==
    /\ service \in {"created", "started", "stopping", "stopped"}
    /\ setUp \subseteq Consumers /\ serving \subseteq Consumers

(* The contract is inductive with the types: who is handed messages was    *)
(* set up after the start, and the stop waits for the last to fall silent. *)
IInv == TypeOK /\ Contract

LEMMA NextInv == IInv /\ [Next]_vars => IInv'
<1> SUFFICES ASSUME IInv, [Next]_vars PROVE IInv'
  OBVIOUS
<1> USE DEF IInv, TypeOK, Contract
<1>1. CASE Start \/ ReportReady
  BY <1>1 DEF Start, ReportReady
<1>2. CASE BeginStop \/ EndStop
  BY <1>2 DEF BeginStop, EndStop
<1>3. ASSUME NEW c \in Consumers, GetReady(c) PROVE IInv'
  BY <1>3 DEF GetReady
<1>4. ASSUME NEW c \in Consumers, Enter(c) \/ Leave(c) PROVE IInv'
  BY <1>4 DEF Enter, Leave
<1>5. ASSUME NEW c \in Consumers, Quit(c) PROVE IInv'
  BY <1>5 DEF Quit
<1>6. CASE UNCHANGED vars
  BY <1>6 DEF vars
<1> QED BY <1>1, <1>2, <1>3, <1>4, <1>5, <1>6 DEF Next

THEOREM Invariance == Spec => []IInv
<1>1. Init => IInv
  BY DEF Init, IInv, TypeOK, Contract
<1> QED BY <1>1, NextInv, PTL DEF Spec

(* Handlers run only where and while they should, and readiness is true. *)
THEOREM ContractIsKept == Spec => []Contract
  BY Invariance, PTL DEF IInv

(* Readiness, set up consumers and silence are for good. *)
THEOREM ForGood == Spec => NothingTakenBack
<1> DEFINE Forward == /\ ready => ready'
                      /\ setUp \subseteq setUp'
                      /\ serving' \subseteq serving
<1>1. [Next]_vars => Forward
  <2>1. ASSUME Start \/ ReportReady \/ BeginStop \/ EndStop PROVE Forward
    BY <2>1 DEF Start, ReportReady, BeginStop, EndStop
  <2>2. ASSUME NEW c \in Consumers, GetReady(c) \/ Enter(c) \/ Leave(c) \/ Quit(c)
        PROVE  Forward
    BY <2>2 DEF GetReady, Enter, Leave, Quit
  <2>3. ASSUME UNCHANGED vars PROVE Forward
    BY <2>3 DEF vars
  <2> QED BY <2>1, <2>2, <2>3 DEF Next
<1> QED BY <1>1, PTL DEF Spec, NothingTakenBack
=============================================================================
