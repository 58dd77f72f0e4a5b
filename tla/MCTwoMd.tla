------------------------------- MODULE MCTwoMd -------------------------------
(* Small instances of TwoMd. *)
EXTENDS TwoMd

TwoBases == <<"a", "b">>

(* All threads in one process, or thread 1 in a process of its own.        *)
Together == [t \in Threads |-> "p"]
Apart    == [t \in Threads |-> IF t = 1 THEN "p" ELSE "q"]
=============================================================================
