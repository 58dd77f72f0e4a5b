---------------------------- MODULE MCReplyStream ----------------------------
(* A small instance of ReplyStream. *)
EXTENDS ReplyStream

OtherReplies == {<<"cjk", "cjk stop", "cjk">>, <<"letter", "dot", "newline", "digit">>}
=============================================================================
