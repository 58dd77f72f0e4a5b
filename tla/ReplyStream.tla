----------------------------- MODULE ReplyStream -----------------------------
(***************************************************************************)
(* The sentence stream of /brain/chat/stream: the text deltas of the       *)
(* streamed attempts are cut into sentences while the model still writes,  *)
(* and finish sends what the reply has more than was sent.  A text is a    *)
(* sequence of symbols, one for each class of characters the code tells    *)
(* apart; a letter that stands alone is also an abbreviation.              *)
(***************************************************************************)
EXTENDS Integers, SequencesExt

CONSTANTS
  MaxText,   \* bound: symbols in the text of an attempt
  MaxDelta,  \* bound: symbols in a delta
  Unstreamed \* some replies that no attempt streamed

Spaces      == {"space", "newline"}
Word        == {"letter", "digit"}
CjkStops    == {"cjk stop"}            \* the full-width stops
Terminators == CjkStops \cup {"dot", "bang"}
Trailing    == Terminators \cup {"closer"}
Symbols     == Spaces \cup Word \cup Trailing \cup {"cjk", "paren"}
Text        == Seq(Symbols)
Deltas      == UNION {[1..n -> Symbols] : n \in 1..MaxDelta}

Blank(s)  == \A i \in DOMAIN s : s[i] \in Spaces
Ink(s)    == {i \in DOMAIN s : s[i] \notin Spaces}
LStrip(s) == IF Blank(s) THEN <<>> ELSE SubSeq(s, Min(Ink(s)), Len(s))
RStrip(s) == IF Blank(s) THEN <<>> ELSE SubSeq(s, 1, Max(Ink(s)))
Strip(s)  == LStrip(RStrip(s))
From(s, i) == SubSeq(s, i, Len(s))

ASSUME ReplyStreamAssumption ==
  /\ MaxText \in Nat /\ MaxDelta \in Nat \ {0}
  /\ Unstreamed \subseteq {s \in Text : s # <<>> /\ Strip(s) = s}

VARIABLES
  text,      \* _attempt_text
  mode,      \* "held", "released", or "call": held for good (_released, _held_for_call)
  splitter,  \* the SentenceSplitter of the attempt
  sent,      \* _attempt_sent
  answer     \* what finish was given, and the sentences it made of it

vars == <<text, mode, splitter, sent, answer>>

-----------------------------------------------------------------------------
(* SentenceSplitter.                                                       *)

(* The end of a run of stops and closing characters that starts at i.      *)
RunEnd(b, i) == Max({e \in i..Len(b) : \A k \in i..e : k = i \/ b[k] \in Trailing})

(* The terminators at which the scan from a position looks: those inside   *)
(* the run of an earlier one belong to it.                                 *)
Heads(b, from) ==
  LET T == {i \in from..Len(b) : b[i] \in Terminators}
  IN {i \in T : \A k \in T : k < i => RunEnd(b, k) < i}

LastLine(s) ==
  From(s, 1 + Max({0} \cup {i \in DOMAIN s : s[i] = "newline"}))
ListMarker(s) ==
  \/ s = <<"letter">>
  \/ Len(s) \in 1..3 /\ \A i \in DOMAIN s : s[i] = "digit"

(* _WORD_BEFORE_DOT: the letters and dots at the end, from a letter on.    *)
LastWord(s) ==
  LET starts == {i \in DOMAIN s : s[i] = "letter"
                                  /\ \A k \in i..Len(s) : s[k] \in {"letter", "dot"}}
  IN IF starts = {} THEN <<>> ELSE From(s, Min(starts))

EndsSentence(b, i) ==
  LET end == RunEnd(b, i)
      before == SubSeq(b, 1, i - 1)
  IN /\ ~Blank(before)
     /\ \/ \E k \in i..end : b[k] \in CjkStops
        \/ /\ end < Len(b) => b[end + 1] \in Spaces
           /\ b[i] = "dot" => /\ ~ListMarker(Strip(LastLine(Strip(before))))
                              /\ Len(LastWord(Strip(before))) # 1
        \/ end < Len(b) /\ b[end + 1] = "cjk" /\ b[i] = "bang"

(* A run at the end of the buffer may go on with the next delta.           *)
Waits_never(b, i, final) == FALSE
Waits(b, i, final) == ~final /\ b[i] \in Terminators /\ RunEnd(b, i) = Len(b)

(* How far a buffer without a boundary has been looked at.                 *)
Scanned_past(b) == Len(b) + 1
Scanned(b) == Len(b)

NextBoundary(b, scan, final) ==
  LET stops == {i \in (scan + 1)..Len(b) : b[i] = "newline" /\ ~Blank(SubSeq(b, 1, i - 1))}
               \cup {i \in Heads(b, scan + 1) : Waits(b, i, final) \/ EndsSentence(b, i)}
      i == Min(stops)
  IN IF stops = {} THEN [end |-> 0, scan |-> Scanned(b)]
     ELSE IF Waits(b, i, final) THEN [end |-> 0, scan |-> i - 1]
     ELSE [end |-> IF b[i] = "newline" THEN Len(RStrip(SubSeq(b, 1, i - 1))) ELSE RunEnd(b, i),
           scan |-> 0]

(* Where the scan goes on after a sentence is cut off.                     *)
Rescan_kept(end) == end
Rescan(end) == 0

(* _drain, from a buffer, the position to look from, and whether it ends.  *)
Drain[a \in Text \X Nat \X BOOLEAN] ==
  LET next == NextBoundary(a[1], a[2], a[3])
      rest == Drain[<<From(a[1], next.end + 1), Rescan(next.end), a[3]>>]
  IN IF next.end = 0 THEN [out |-> <<>>, buf |-> a[1], scan |-> next.scan]
     ELSE [rest EXCEPT !.out = <<SubSeq(a[1], 1, next.end)>> \o @]

NewSplitter(stripLeading) == [buf |-> <<>>, scan |-> 0, started |-> ~stripLeading]

(* Both return the sentences and the splitter they leave.                  *)
Feed(sp, delta) ==
  LET new == IF sp.started THEN delta ELSE LStrip(delta)
      d == Drain[<<sp.buf \o new, sp.scan, FALSE>>]
  IN IF ~sp.started /\ new = <<>> THEN [out |-> <<>>, sp |-> sp]
     ELSE [out |-> d.out, sp |-> [buf |-> d.buf, scan |-> d.scan, started |-> TRUE]]

Flush(sp) ==
  LET d == Drain[<<sp.buf, sp.scan, TRUE>>]
  IN IF Blank(d.buf) THEN d.out ELSE Append(d.out, RStrip(d.buf))

FeedAll(sp, s) == Feed(sp, s).out \o Flush(Feed(sp, s).sp)
Split(s) == FeedAll(NewSplitter(TRUE), s)

-----------------------------------------------------------------------------
(* ReplyStream.                                                            *)

NoAnswer == [reply |-> <<>>, sentences |-> <<>>, streamed |-> FALSE]

Fresh ==
  /\ text' = <<>>
  /\ mode' = "held"
  /\ splitter' = NewSplitter(TRUE)
  /\ sent' = <<>>

Init ==
  /\ text = <<>>
  /\ mode = "held"
  /\ splitter = NewSplitter(TRUE)
  /\ sent = <<>>
  /\ answer = NoAnswer

(* The LLM client starts the stream of a round or of a fallback hop.       *)
AttemptStarted ==
  /\ answer = NoAnswer
  /\ text # <<>>
  /\ Fresh
  /\ UNCHANGED answer

(* A text that begins like a name may still become a call in plain text.   *)
Name(s) ==
  \E k \in DOMAIN s : /\ s[1] = "letter"
                      /\ \A i \in 2..k : s[i] \in Word
                      /\ \A i \in (k + 1)..Len(s) : s[i] \in Spaces
MaybeCall_never(s) == FALSE
MaybeCall(s) == Name(s)
LooksLikeCall(s) == \E k \in DOMAIN s : s[k] = "paren" /\ Name(SubSeq(s, 1, k - 1))

Send(fed) == sent' = sent \o fed.out /\ splitter' = fed.sp

TextDelta(delta) ==
  LET whole == text \o delta
      head == LStrip(whole)
  IN /\ answer = NoAnswer
     /\ Len(whole) <= MaxText
     /\ text' = whole
     /\ \/ mode = "released" /\ Send(Feed(splitter, delta)) /\ UNCHANGED mode
        \/ mode = "call" /\ UNCHANGED <<mode, splitter, sent>>
        \/ /\ mode = "held" /\ (head = <<>> \/ MaybeCall(head))
           /\ UNCHANGED <<mode, splitter, sent>>
        \/ /\ mode = "held" /\ head # <<>> /\ ~MaybeCall(head) /\ LooksLikeCall(head)
           /\ mode' = "call"
           /\ UNCHANGED <<splitter, sent>>
        \/ /\ mode = "held" /\ head # <<>> /\ ~MaybeCall(head) /\ ~LooksLikeCall(head)
           /\ mode' = "released"
           /\ Send(Feed(splitter, whole))
     /\ UNCHANGED answer

(* What finish has left to send, and after which of the sentences that     *)
(* were sent: after none when they do not begin the reply.                 *)
Kept_always(reply) == sent
Kept(reply) == IF IsPrefix(FlattenSeq(sent), reply) THEN sent ELSE <<>>
Finish(reply) ==
  LET kept == Kept(reply)
      rest == From(reply, Len(FlattenSeq(kept)) + 1)
  IN /\ answer = NoAnswer
     /\ answer' = [reply |-> reply, streamed |-> reply = Strip(text),
                   sentences |-> kept \o FeedAll(NewSplitter(kept = <<>>), rest)]
     /\ Fresh

Next ==
  \/ AttemptStarted
  \/ \E delta \in Deltas : TextDelta(delta)
  \/ \E reply \in {Strip(text)} \cup Unstreamed : reply # <<>> /\ Finish(reply)

Spec == Init /\ [][Next]_vars

-----------------------------------------------------------------------------
(* Properties.                                                             *)

(* Sentences do not depend on how the text was cut into deltas: those that *)
(* were sent are the first ones of the finished text, and a reply that was *)
(* streamed is split like the whole (SentenceSplitter).                    *)
SplitLikeWhole ==
  /\ IsPrefix(sent, Split(text))
  /\ answer.streamed => answer.sentences = Split(answer.reply)

(* The sentences of the answer add up to the reply, whatever was streamed  *)
(* before (ReplyStream.finish).                                            *)
AnswerAddsUp == FlattenSeq(answer.sentences) = answer.reply

(* Speech need not wait for the end of the answer: of what an attempt has  *)
(* written since it was let through, all sentences but the last are sent   *)
(* (_drain, which remembers how far it has looked).                        *)
SentInTime == mode = "released" => Len(sent) + 1 >= Len(Split(text))

(* No number, address or file name is cut in two: a sentence sent does not *)
(* end in a single dot between two word characters (_ends_sentence).       *)
NamesStayWhole ==
  \A n \in DOMAIN sent :
    LET lead == Len(text) - Len(LStrip(text))
        e == lead + Len(FlattenSeq(SubSeq(sent, 1, n)))
    IN ~(1 < e /\ e < Len(text) /\ text[e] = "dot" /\ {text[e - 1], text[e + 1]} \subseteq Word)

(* Nothing of an attempt that is a call in plain text is sent (text_delta).*)
CallsAreHeld == LooksLikeCall(LStrip(text)) => sent = <<>>
=============================================================================
