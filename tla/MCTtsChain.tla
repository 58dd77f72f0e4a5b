----------------------------- MODULE MCTtsChain -----------------------------
(* Small instances of TtsChain. *)
EXTENDS TtsChain

OneChain == {<<"voxcpm", "edge-tts">>}

(* The named engine has no partner. *)
Alone    == {<<>>}
=============================================================================
