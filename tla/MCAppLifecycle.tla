---------------------------- MODULE MCAppLifecycle ----------------------------
(* Instances of AppLifecycle for TLC. *)
EXTENDS AppLifecycle

(* As the README has it; the stop hooks the other way round; the wait      *)
(* before the start; and no graceful shutdown of the consumers.            *)
MCOrders ==
    {<<"start", "ready", "producerStop", "consumerStop">>,
     <<"start", "consumerStop", "producerStop">>,
     <<"ready", "start", "consumerStop">>,
     <<"producerStop", "start">>}
=============================================================================
