------------------------------ MODULE Producers ------------------------------
(***************************************************************************)
(* The producers of an application and the client they share: Send and     *)
(* Close of SaramaSyncProducer and SaramaAsyncProducer (kafka/impl), the   *)
(* two goroutines that forward the answers of the asynchronous one, and    *)
(* the log handlers that read them (kafka/handler/async_producer_*.go).    *)
(*                                                                         *)
(* Inside sarama (external) each producer has a dispatcher that takes one  *)
(* message after the other from an unbuffered channel and, once it has     *)
(* seen the marker of Close, refuses what comes.  The channels are closed  *)
(* when no accepted message is without an answer; whoever sends on a       *)
(* closed channel panics.  The answer channels have no buffer either.      *)
(***************************************************************************)
EXTENDS FiniteSets

CONSTANTS SyncMessages, AsyncMessages   \* by the producer they are given to, disjoint

Messages == SyncMessages \cup AsyncMessages
Kinds == {"sync", "async"}
Of(kind) == IF kind = "sync" THEN SyncMessages ELSE AsyncMessages
Kind(m) == IF m \in SyncMessages THEN "sync" ELSE "async"

VARIABLES
    producer,  \* producer[kind]: "open", "closing" (Close was called),
               \* "refusing" (the dispatcher knows) or "closed"
    client,    \* the producer client is open
    stage,     \* stage[m]: how far m has got
    answer     \* answer[m]: "none", or which channel its answer comes through

vars == <<producer, client, stage, answer>>

Init ==
    /\ producer = [kind \in Kinds |-> "open"]
    /\ client = TRUE
    /\ stage = [m \in Messages |-> "new"]
    /\ answer = [m \in Messages |-> "none"]

(* An answer is waiting in sarama for somebody to take it. *)
Pending(m) == stage[m] \in {"answered", "refused"}

TypeOK ==
    /\ producer \in [Kinds -> {"open", "closing", "refusing", "closed"}]
    /\ client \in BOOLEAN
    /\ stage \in [Messages -> {"new", "sending", "inflight", "answered", "refused",
                               "forwarded", "logged", "drained", "returned", "panicked"}]
    /\ answer \in [Messages -> {"none", "success", "error"}]
    /\ \A m \in Messages :
          /\ answer[m] = "none" => stage[m] \in {"new", "sending", "inflight", "panicked"}
          /\ stage[m] = "returned" => m \in SyncMessages
          /\ stage[m] \in {"forwarded", "logged", "drained"} => m \in AsyncMessages

Move(m, from, to) == stage[m] = from /\ stage' = [stage EXCEPT ![m] = to]

-----------------------------------------------------------------------------
(* Sending.  The caller is blocked until the dispatcher takes the message. *)

Send(m) ==
    /\ Move(m, "new", "sending")
    /\ UNCHANGED <<producer, client, answer>>

(* The dispatcher is blocked while nobody takes a refusal of its own. *)
DispatcherFree(kind) == \A m \in Of(kind) : stage[m] # "refused"

Accept(m) ==
    /\ producer[Kind(m)] \in {"open", "closing"} /\ DispatcherFree(Kind(m))
    /\ Move(m, "sending", "inflight")
    /\ UNCHANGED <<producer, client, answer>>

Refuse(m) ==
    /\ producer[Kind(m)] = "refusing" /\ DispatcherFree(Kind(m))
    /\ Move(m, "sending", "refused")
    /\ answer' = [answer EXCEPT ![m] = "error"]
    /\ UNCHANGED <<producer, client>>

(* Send on a closed channel: of the caller, or of the dispatcher that is   *)
(* still about to refuse a message.                                        *)
Panic(m) ==
    /\ producer[Kind(m)] = "closed"
    /\ Move(m, "sending", "panicked") \/ Move(m, "refused", "panicked")
    /\ UNCHANGED <<producer, client, answer>>

(* External: the broker acknowledges the message, or sarama gives up.      *)
GetAnswer(m) ==
    /\ Move(m, "inflight", "answered")
    /\ \E a \in {"success", "error"} : answer' = [answer EXCEPT ![m] = a]
    /\ UNCHANGED <<producer, client>>

-----------------------------------------------------------------------------
(* Taking the answers *)

(* The goroutine of each channel holds one until its log handler takes it. *)
ForwarderFree(a) == \A m \in AsyncMessages : stage[m] = "forwarded" => answer[m] # a

(* Faulty variants of Forward: answers of the error channel are not read;  *)
(* the forwarders also take what the synchronous producer waits for.       *)
ForwardSuccesses(m) ==
    /\ m \in AsyncMessages /\ Pending(m) /\ answer[m] = "success"
    /\ producer["async"] # "closed" /\ ForwarderFree(answer[m])
    /\ Move(m, stage[m], "forwarded")
    /\ UNCHANGED <<producer, client, answer>>

ForwardAny(m) ==
    /\ Pending(m)
    /\ producer[Kind(m)] # "closed" /\ ForwarderFree(answer[m])
    /\ Move(m, stage[m], "forwarded")
    /\ UNCHANGED <<producer, client, answer>>

Forward(m) ==
    /\ m \in AsyncMessages /\ Pending(m)
    /\ producer["async"] # "closed" /\ ForwarderFree(answer[m])
    /\ Move(m, stage[m], "forwarded")
    /\ UNCHANGED <<producer, client, answer>>

(* The log handlers, each on a goroutine of its own *)
Log(m) ==
    /\ Move(m, "forwarded", "logged")
    /\ UNCHANGED <<producer, client, answer>>
AsyncProducerSuccessLogHandler(m) == answer[m] = "success" /\ Log(m)
AsyncProducerErrorLogHandler(m) == answer[m] = "error" /\ Log(m)

(* Close of the asynchronous producer reads both channels itself. *)
Drain(m) ==
    /\ m \in AsyncMessages /\ Pending(m)
    /\ producer["async"] \in {"closing", "refusing"}
    /\ Move(m, stage[m], "drained")
    /\ UNCHANGED <<producer, client, answer>>

(* Faulty variant of Return: Close ends the goroutines that return answers. *)
ReturnWhileOpen(m) ==
    /\ m \in SyncMessages /\ Pending(m)
    /\ producer["sync"] = "open"
    /\ Move(m, stage[m], "returned")
    /\ UNCHANGED <<producer, client, answer>>

(* SendMessage of the synchronous producer returns the answer. *)
Return(m) ==
    /\ m \in SyncMessages /\ Pending(m)
    /\ producer["sync"] # "closed"
    /\ Move(m, stage[m], "returned")
    /\ UNCHANGED <<producer, client, answer>>

-----------------------------------------------------------------------------
(* Closing *)

(* Faulty variant of Close: the channels are closed at once. *)
CloseAtOnce(kind) ==
    /\ producer[kind] = "open"
    /\ producer' = [producer EXCEPT ![kind] = "closed"]
    /\ UNCHANGED <<client, stage, answer>>

Close(kind) ==
    /\ producer[kind] = "open"
    /\ producer' = [producer EXCEPT ![kind] = "closing"]
    /\ UNCHANGED <<client, stage, answer>>

TakeMarker(kind) ==
    /\ producer[kind] = "closing" /\ DispatcherFree(kind)
    /\ producer' = [producer EXCEPT ![kind] = "refusing"]
    /\ UNCHANGED <<client, stage, answer>>

CloseChannels(kind) ==
    /\ producer[kind] = "refusing"
    /\ \A m \in Of(kind) : stage[m] \notin {"inflight", "answered"}
    /\ producer' = [producer EXCEPT ![kind] = "closed"]
    /\ UNCHANGED <<client, stage, answer>>

CloseClient ==
    /\ client
    /\ client' = FALSE
    /\ UNCHANGED <<producer, stage, answer>>

(* What the goroutines of sarama, the forwarders and the log handlers do. *)
Progress(m) ==
    \/ Accept(m) \/ Refuse(m) \/ Panic(m) \/ GetAnswer(m)
    \/ Forward(m) \/ Drain(m) \/ Return(m)
    \/ AsyncProducerSuccessLogHandler(m) \/ AsyncProducerErrorLogHandler(m)
Shutdown(kind) == TakeMarker(kind) \/ CloseChannels(kind)

(* The caller of Send has not got past it. *)
Blocks(m) ==
    \/ stage[m] = "sending"
    \/ m \in SyncMessages /\ stage[m] \in {"inflight", "answered", "refused"}

(* There is a step that m can take. *)
CanMove(m) ==
    \/ stage[m] = "sending" /\ (DispatcherFree(Kind(m)) \/ producer[Kind(m)] = "closed")
    \/ stage[m] \in {"inflight", "forwarded"}
    \/ stage[m] = "refused" /\ producer[Kind(m)] = "closed"
    \/ Pending(m) /\ m \in SyncMessages /\ producer["sync"] # "closed"
    \/ /\ Pending(m) /\ m \in AsyncMessages /\ producer["async"] # "closed"
       /\ producer["async"] # "open" \/ ForwarderFree(answer[m])
Panicked == \E m \in Messages : stage[m] = "panicked"
=============================================================================
