----------------------------- MODULE MCLlmChain -----------------------------
(* Small instances of LlmChain. *)
EXTENDS LlmChain

TwoKeys == <<"k1", "k2">>

(* The hops have keys of their own, of other providers than the pool's.   *)
HopKeys == [h \in Hops |-> h]

ChainOrPool  == {<<"gemini", "openai">>, <<>>}
(* A thread of chat turns and one of background work.                      *)
ChatAndBatch == [q \in Requests |-> IF q = 1 THEN {"stream"} ELSE {"batch"}]
=============================================================================
