------------------------------- MODULE MCStartup ------------------------------
(* Model values for Startup: up to nine arguments, so that the options     *)
(* that are checked fit beside --vm and --slot-path; machine files of up   *)
(* to three lines, and a pool that is large enough for two machines and    *)
(* found empty by the third.                                               *)
EXTENDS Startup

MCFiles ==
    {[lines |-> l, ends_with_newline |-> n] :
        l \in {<<>>, <<"host">>, <<"host", "comment", "host">>, <<"host", "host", "blank">>,
               <<"host", "host", "host">>},
        n \in BOOLEAN}
MCTokens == Valued \cup Switches \cup {"name", Number, ""}
===============================================================================
