----------------------------- MODULE MCAsrChain -----------------------------
(* Small instances of AsrChain. *)
EXTENDS AsrChain

(* The order of two engines. *)
OneOrder == {<<"breeze", "r2t2">>}
=============================================================================
