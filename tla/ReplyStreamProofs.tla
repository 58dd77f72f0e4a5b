-------------------------- MODULE ReplyStreamProofs --------------------------
(***************************************************************************)
(* What is sent of a reply, for texts and deltas of every length.          *)
(***************************************************************************)
EXTENDS ReplyStream, SequenceTheorems, WellFoundedInduction, TLAPS

-----------------------------------------------------------------------------
(* The smallest and the largest of a set of numbers.                       *)

LEMMA MinIs ==
  ASSUME NEW T \in SUBSET Nat, T # {}
  PROVE  Min(T) \in T /\ \A y \in T : Min(T) <= y
<1> DEFINE Below == {p \in Nat \X Nat : p[1] < p[2]}
<1>1. IsWellFoundedOn(Below, Nat)
  BY NatLessThanWellFounded DEF OpToRel
<1> HIDE DEF Below
<1>2. PICK x \in T : \A y \in T : <<y, x>> \notin Below
  BY <1>1, WFMin
<1>3. ASSUME NEW y \in T PROVE x <= y
  <2>1. <<y, x>> \notin Below /\ x \in Nat /\ y \in Nat
    BY <1>2
  <2>2. ~(y < x)
    BY <2>1 DEF Below
  <2> QED
    BY <2>1, <2>2
<1>4. \E z \in T : \A y \in T : z =< y
  BY <1>3
<1> QED
  BY <1>4 DEF Min

LEMMA MaxIs ==
  ASSUME NEW n \in Nat, NEW T \in SUBSET (0..n), T # {}
  PROVE  Max(T) \in T /\ \A y \in T : y <= Max(T)
<1> DEFINE U == {n - x : x \in T}
<1>1. U \in SUBSET Nat /\ U # {}
  <2>1. \A x \in T : n - x \in Nat
    OBVIOUS
  <2>2. PICK x \in T : TRUE
    OBVIOUS
  <2>3. n - x \in U
    OBVIOUS
  <2> QED
    BY <2>1, <2>3
<1>2. PICK x \in T : n - x = Min(U)
  BY <1>1, MinIs
<1>3. \A y \in T : n - x <= n - y
  BY <1>1, <1>2, MinIs
<1>4. \A y \in T : x >= y
  BY <1>3
<1>5. Max(T) \in T /\ \A y \in T : Max(T) >= y
  BY <1>4 DEF Max
<1> QED
  BY <1>5

-----------------------------------------------------------------------------
(* Texts and what is stripped from them.                                   *)

LEMMA Texts ==
  ASSUME NEW s \in Text
  PROVE  /\ Len(s) \in Nat /\ DOMAIN s = 1..Len(s)
         /\ \A i \in 1..Len(s) : s[i] \in Symbols
         /\ s = <<>> <=> Len(s) = 0
BY LenProperties, ElementOfSeq, EmptySeq DEF Text

LEMMA Joins ==
  ASSUME NEW s \in Text, NEW t \in Text
  PROVE  /\ s \o t \in Text /\ Len(s \o t) = Len(s) + Len(t)
         /\ \A i \in 1..Len(s) : (s \o t)[i] = s[i]
         /\ \A i \in 1..Len(t) : (s \o t)[Len(s) + i] = t[i]
BY ConcatProperties, Texts DEF Text

LEMMA JoinsAssociate ==
  ASSUME NEW s \in Text, NEW t \in Text, NEW u \in Text
  PROVE  (s \o t) \o u = s \o (t \o u)
BY ConcatAssociative DEF Text

(* A part of a text; i may be one past the end. *)
LEMMA Parts ==
  ASSUME NEW s \in Text, NEW i \in 1..Len(s) + 1, NEW j \in i - 1..Len(s)
  PROVE  /\ SubSeq(s, i, j) \in Text
         /\ Len(SubSeq(s, i, j)) = j - i + 1
         /\ \A k \in 1..j - i + 1 : SubSeq(s, i, j)[k] = s[i + k - 1]
<1>1. Len(s) \in Nat /\ i \in Int /\ j \in Int
  BY Texts
<1>2. \A k \in i..j : s[k] \in Symbols
  BY <1>1, Texts
<1> QED
  BY <1>1, <1>2, SubSeqProperties DEF Text

LEMMA SameText ==
  ASSUME NEW s \in Text, NEW t \in Text, Len(s) = Len(t),
         \A i \in 1..Len(s) : s[i] = t[i]
  PROVE  s = t
BY SeqEqual DEF Text

LEMMA InkIs ==
  ASSUME NEW s \in Text, ~Blank(s)
  PROVE  /\ Min(Ink(s)) \in 1..Len(s) /\ s[Min(Ink(s))] \notin Spaces
         /\ \A k \in 1..Len(s) : k < Min(Ink(s)) => s[k] \in Spaces
         /\ Max(Ink(s)) \in 1..Len(s) /\ s[Max(Ink(s))] \notin Spaces
         /\ \A k \in 1..Len(s) : k > Max(Ink(s)) => s[k] \in Spaces
<1>1. Ink(s) # {} /\ Ink(s) \in SUBSET (1..Len(s)) /\ Len(s) \in Nat
  BY Texts DEF Ink, Blank
<1>2. Ink(s) \in SUBSET Nat /\ Ink(s) \in SUBSET (0..Len(s))
  BY <1>1
<1>3. /\ Min(Ink(s)) \in Ink(s) /\ \A y \in Ink(s) : Min(Ink(s)) <= y
      /\ Max(Ink(s)) \in Ink(s) /\ \A y \in Ink(s) : y <= Max(Ink(s))
  BY <1>1, <1>2, MinIs, MaxIs
<1>4. \A k \in 1..Len(s) : k \in Ink(s) <=> s[k] \notin Spaces
  BY Texts DEF Ink
<1> HIDE DEF Spaces
<1> QED
  BY <1>1, <1>3, <1>4

(* What follows the first ink does not matter to what is stripped. *)
LEMMA LStripJoins ==
  ASSUME NEW s \in Text, NEW t \in Text, ~Blank(s)
  PROVE  ~Blank(s \o t) /\ LStrip(s \o t) = LStrip(s) \o t
<1> DEFINE u == s \o t
           i == Min(Ink(s))
           j == Min(Ink(u))
<1>1. /\ u \in Text /\ Len(u) = Len(s) + Len(t) /\ Len(s) \in Nat /\ Len(t) \in Nat
      /\ \A k \in 1..Len(s) : u[k] = s[k]
      /\ \A k \in 1..Len(t) : u[Len(s) + k] = t[k]
  BY Joins, Texts
<1>2. /\ i \in 1..Len(s) /\ s[i] \notin Spaces
      /\ \A k \in 1..Len(s) : k < i => s[k] \in Spaces
  BY InkIs
<1> HIDE DEF u, i
<1>3. i \in DOMAIN u /\ u[i] \notin Spaces
  BY <1>1, <1>2, Texts
<1>4. ~Blank(u)
  BY <1>3 DEF Blank
<1>5. /\ j \in 1..Len(u) /\ u[j] \notin Spaces
      /\ \A k \in 1..Len(u) : k < j => u[k] \in Spaces
  BY <1>1, <1>4, InkIs
<1> HIDE DEF j
<1>6. i = j
  BY <1>1, <1>2, <1>3, <1>5
<1>7. SubSeq(u, i, Len(u)) = SubSeq(s, i, Len(s)) \o t
  <2>1. /\ SubSeq(u, i, Len(u)) \in Text
        /\ Len(SubSeq(u, i, Len(u))) = Len(u) - i + 1
        /\ \A k \in 1..Len(u) - i + 1 : SubSeq(u, i, Len(u))[k] = u[i + k - 1]
    <3>1. i \in 1..Len(u) + 1 /\ Len(u) \in i - 1..Len(u)
      BY <1>1, <1>2
    <3> QED
      BY <1>1, <3>1, Parts, Zenon
  <2>2. /\ SubSeq(s, i, Len(s)) \in Text
        /\ Len(SubSeq(s, i, Len(s))) = Len(s) - i + 1
        /\ \A k \in 1..Len(s) - i + 1 : SubSeq(s, i, Len(s))[k] = s[i + k - 1]
    <3>1. i \in 1..Len(s) + 1 /\ Len(s) \in i - 1..Len(s)
      BY <1>1, <1>2
    <3> QED
      BY <3>1, Parts, Zenon
  <2> DEFINE a == SubSeq(u, i, Len(u))
             b == SubSeq(s, i, Len(s))
             c == b \o t
  <2>3. /\ c \in Text /\ Len(c) = Len(b) + Len(t)
        /\ \A k \in 1..Len(b) : c[k] = b[k]
        /\ \A k \in 1..Len(t) : c[Len(b) + k] = t[k]
    BY <2>2, Joins
  <2> HIDE DEF a, b, c
  <2>4. ASSUME NEW k \in 1..Len(a) PROVE a[k] = c[k]
    <3>1. CASE k <= Len(b)
      <4>1. k \in 1..Len(b) /\ k \in 1..Len(u) - i + 1 /\ k \in 1..Len(s) - i + 1
            /\ i + k - 1 \in 1..Len(s)
        BY <1>1, <1>2, <2>1, <2>2, <3>1 DEF a, b
      <4>2. a[k] = u[i + k - 1] /\ b[k] = s[i + k - 1]
        BY <2>1, <2>2, <4>1 DEF a, b
      <4> QED
        BY <1>1, <2>3, <4>1, <4>2
    <3>2. CASE k > Len(b)
      <4>1. k - Len(b) \in 1..Len(t) /\ Len(b) + (k - Len(b)) = k
        BY <1>1, <1>2, <2>1, <2>2, <3>2 DEF a, b
      <4>2. a[k] = u[Len(s) + (k - Len(b))]
        BY <1>1, <1>2, <2>1, <2>2, <3>2 DEF a, b
      <4> QED
        BY <1>1, <2>3, <4>1, <4>2
    <3> QED
      BY <1>1, <1>2, <2>1, <2>2, <3>1, <3>2 DEF a, b
  <2>5. a = c
    <3>1. Len(a) = Len(c)
      BY <1>1, <1>2, <2>1, <2>2, <2>3 DEF a, b
    <3>2. a \in Text
      BY <2>1 DEF a
    <3> QED
      BY <2>3, <2>4, <3>1, <3>2, SameText
  <2> QED
    BY <2>5 DEF a, b, c
<1> QED
  BY <1>4, <1>6, <1>7 DEF LStrip, u, i, j

LEMMA StripTypes ==
  ASSUME NEW s \in Text
  PROVE  LStrip(s) \in Text /\ RStrip(s) \in Text
<1>1. CASE Blank(s)
  BY <1>1, EmptySeq DEF LStrip, RStrip, Text
<1>2. CASE ~Blank(s)
  <2>1. Min(Ink(s)) \in 1..Len(s) + 1 /\ Len(s) \in Min(Ink(s)) - 1..Len(s)
    BY <1>2, InkIs, Texts
  <2>2. 1 \in 1..Len(s) + 1 /\ Max(Ink(s)) \in 1 - 1..Len(s)
    BY <1>2, InkIs, Texts
  <2> QED
    BY <1>2, <2>1, <2>2, Parts DEF LStrip, RStrip
<1> QED
  BY <1>1, <1>2

-----------------------------------------------------------------------------
(* Calls in plain text.  A text that has been let through began as no name *)
(* and no call, and its beginning does not change.                         *)

NoCall(s) == s # <<>> /\ ~MaybeCall(s) /\ ~LooksLikeCall(s)

HeldInv ==
  /\ text \in Text
  /\ mode # "released" => sent = <<>>
  /\ mode = "released" => NoCall(LStrip(text))

(* What a name begins with is a name. *)
LEMMA NamesBegin ==
  ASSUME NEW s \in Text, NEW n \in 1..Len(s), Name(s),
         NEW t \in Text, Len(t) = n, \A i \in 1..n : t[i] = s[i]
  PROVE  Name(t)
<1>1. /\ Len(s) \in Nat /\ DOMAIN s = 1..Len(s) /\ DOMAIN t = 1..n
  BY Texts
<1>2. PICK k \in 1..Len(s) : /\ s[1] = "letter"
                             /\ \A i \in 2..k : s[i] \in Word
                             /\ \A i \in (k + 1)..Len(s) : s[i] \in Spaces
  BY <1>1 DEF Name
<1> DEFINE j == IF k <= n THEN k ELSE n
<1>3. j \in 1..n /\ t[1] = "letter"
  BY <1>1, <1>2
<1>4. \A i \in 2..j : t[i] \in Word
  BY <1>1, <1>2
<1>5. \A i \in (j + 1)..n : t[i] \in Spaces
  BY <1>1, <1>2
<1> HIDE DEF j
<1> QED
  BY <1>1, <1>3, <1>4, <1>5 DEF Name

LEMMA NoCallStays ==
  ASSUME NEW h \in Text, NEW d \in Text, NoCall(h)
  PROVE  NoCall(h \o d)
<1> DEFINE w == h \o d
<1>1. /\ w \in Text /\ Len(w) = Len(h) + Len(d) /\ \A i \in 1..Len(h) : w[i] = h[i]
      /\ Len(h) \in Nat \ {0} /\ Len(d) \in Nat /\ DOMAIN w = 1..Len(w)
      /\ DOMAIN h = 1..Len(h) /\ w # <<>>
  BY Joins, Texts DEF NoCall
<1> HIDE DEF w
<1>2. ~Name(w)
  BY <1>1, NamesBegin DEF NoCall, MaybeCall
<1>3. ASSUME NEW k \in 1..Len(w), w[k] = "paren", Name(SubSeq(w, 1, k - 1))
      PROVE  FALSE
  <2> DEFINE v == SubSeq(w, 1, k - 1)
  <2>1. v \in Text /\ Len(v) = k - 1 /\ \A i \in 1..k - 1 : v[i] = w[i]
    <3>1. 1 \in 1..Len(w) + 1 /\ k - 1 \in 1 - 1..Len(w)
      BY <1>1
    <3> QED
      BY <1>1, <3>1, Parts
  <2> HIDE DEF v
  <2>2. CASE k <= Len(h)
    <3> DEFINE x == SubSeq(h, 1, k - 1)
    <3>1. x \in Text /\ Len(x) = k - 1 /\ \A i \in 1..k - 1 : x[i] = h[i]
      <4>1. 1 \in 1..Len(h) + 1 /\ k - 1 \in 1 - 1..Len(h)
        BY <1>1, <2>2
      <4> QED
        BY <4>1, Parts
    <3> HIDE DEF x
    <3>2. x = v
      <4>1. \A i \in 1..Len(x) : x[i] = v[i]
        BY <1>1, <2>1, <2>2, <3>1
      <4> QED
        BY <2>1, <3>1, <4>1, SameText
    <3>3. Name(SubSeq(h, 1, k - 1))
      BY <1>3, <3>2 DEF x, v
    <3>4. k \in DOMAIN h /\ h[k] = "paren"
      BY <1>1, <1>3, <2>2
    <3> QED
      BY <3>3, <3>4 DEF NoCall, LooksLikeCall
  <2>3. CASE k > Len(h)
    <3>1. Len(h) \in 1..Len(v) /\ \A i \in 1..Len(h) : h[i] = v[i]
      BY <1>1, <2>1, <2>3
    <3>2. Name(h)
      BY <1>3, <2>1, <3>1, NamesBegin DEF v
    <3> QED
      BY <3>2 DEF NoCall, MaybeCall
  <2> QED
    BY <1>1, <2>2, <2>3
<1> QED
  BY <1>1, <1>2, <1>3 DEF NoCall, MaybeCall, LooksLikeCall, w

LEMMA DeltaType ==
  ASSUME NEW delta \in Deltas
  PROVE  delta \in Text /\ delta # <<>>
<1>1. PICK n \in 1..MaxDelta : delta \in [1..n -> Symbols]
  BY DEF Deltas
<1>2. n \in Nat /\ n # 0
  BY <1>1, ReplyStreamAssumption
<1> QED
  BY <1>1, <1>2, IsASeq, EmptySeq DEF Text

LEMMA EmptyStrip == LStrip(<<>>) = <<>> /\ <<>> \in Text
BY EmptySeq DEF LStrip, Blank, Text

(* A text that lets the attempt through is not blank. *)
LEMMA NotBlank ==
  ASSUME NEW s \in Text, LStrip(s) # <<>>
  PROVE  ~Blank(s)
BY DEF LStrip

LEMMA HeldStep ==
  ASSUME HeldInv, [Next]_vars
  PROVE  HeldInv'
<1>1. CASE UNCHANGED vars
  BY <1>1 DEF vars, HeldInv
<1>2. CASE Fresh
  BY <1>2, EmptyStrip DEF Fresh, HeldInv
<1>3. ASSUME NEW delta \in Deltas, TextDelta(delta)
      PROVE  HeldInv'
  <2>1. text \in Text /\ delta \in Text /\ text \o delta \in Text /\ text' = text \o delta
    BY <1>3, DeltaType, Joins DEF HeldInv, TextDelta
  <2>2. CASE mode = "released"
    <3>1. NoCall(LStrip(text)) /\ mode' = "released"
      BY <1>3, <2>2 DEF HeldInv, TextDelta
    <3>2. ~Blank(text)
      BY <2>1, <3>1, NotBlank DEF NoCall
    <3>3. LStrip(text') = LStrip(text) \o delta
      BY <2>1, <3>2, LStripJoins
    <3>4. LStrip(text) \in Text
      BY <2>1, StripTypes
    <3> QED
      BY <2>1, <3>1, <3>3, <3>4, NoCallStays DEF HeldInv
  <2>3. CASE mode # "released"
    BY <1>3, <2>1, <2>3 DEF HeldInv, TextDelta, NoCall
  <2> QED
    BY <2>2, <2>3
<1> QED
  BY <1>1, <1>2, <1>3 DEF Next, AttemptStarted, Finish

(* Nothing is sent of an attempt that turns out to be a call in plain      *)
(* text, however its text is cut into deltas (ReplyStream.text_delta).     *)
THEOREM CallsHeld == Spec => []CallsAreHeld
<1>1. Init => HeldInv
  BY EmptyStrip DEF Init, HeldInv
<1>2. HeldInv /\ [Next]_vars => HeldInv'
  BY HeldStep
<1>3. HeldInv => CallsAreHeld
  BY DEF HeldInv, CallsAreHeld, NoCall
<1> QED
  BY <1>1, <1>2, <1>3, PTL DEF Spec

-----------------------------------------------------------------------------
(* Recursion.  An argument has a size, which every step makes smaller: then *)
(* a function that meets the recursive equation exists.                     *)

Shrinks(A, V, size, stop, base, after, cons) ==
  /\ size \in [A -> Nat] /\ stop \in SUBSET A /\ base \in [stop -> V]
  /\ after \in [A \ stop -> A] /\ cons \in [A \ stop -> [V -> V]]
  /\ \A a \in A \ stop : size[after[a]] < size[a]

Solves(F, A, V, stop, base, after, cons) ==
  /\ F \in [A -> V]
  /\ F = [a \in A |-> IF a \in stop THEN base[a] ELSE cons[a][F[after[a]]]]

(* Such a function exists: the least argument without one would have one. *)
LEMMA Recursion ==
  ASSUME NEW A, NEW V, NEW size, NEW stop, NEW base, NEW after, NEW cons,
         Shrinks(A, V, size, stop, base, after, cons)
  PROVE  \E F : Solves(F, A, V, stop, base, after, cons)
<1> USE DEF Shrinks
<1> DEFINE Up(n)      == {a \in A : size[a] <= n}
           At(g, a)   == IF a \in stop THEN base[a] ELSE cons[a][g[after[a]]]
           Good(g, n) == g \in [Up(n) -> V] /\ \A a \in Up(n) : g[a] = At(g, a)
<1>1. \A a \in A : size[a] \in Nat
  OBVIOUS
<1>2. ASSUME NEW n \in Nat PROVE \E g : Good(g, n)
  <2> DEFINE T == {k \in Nat : ~\E g : Good(g, k)}
  <2> SUFFICES ASSUME T # {} PROVE FALSE
    OBVIOUS
  <2> DEFINE m == Min(T)
  <2>1. T \in SUBSET Nat
    OBVIOUS
  <2>2. m \in T /\ \A k \in T : m <= k
    BY <2>1, MinIs
  <2> HIDE DEF m
  <2> DEFINE h == CHOOSE g : Good(g, m - 1)
             f == [a \in Up(m) |-> At(h, a)]
  <2>3. m # 0 => Good(h, m - 1)
    <3>1. m # 0 => m - 1 \in Nat /\ m - 1 \notin T
      <4>1. m \in Nat
        BY <2>1, <2>2
      <4> HIDE DEF T
      <4> QED
        BY <2>2, <4>1
    <3> HIDE DEF Good
    <3> QED
      BY <3>1
  <2>4. ASSUME NEW a \in Up(m), a \notin stop
        PROVE  m # 0 /\ after[a] \in Up(m - 1) /\ after[a] \in Up(m)
    <3>1. a \in A \ stop /\ after[a] \in A
      BY <2>4
    <3>2. size[after[a]] < size[a] /\ size[after[a]] \in Nat /\ size[a] \in Nat /\ size[a] <= m
      BY <3>1, <1>1, <2>4
    <3>3. m \in Nat
      BY <2>2
    <3> QED
      BY <3>1, <3>2, <3>3
  <2>5. ASSUME NEW a \in Up(m) PROVE f[a] \in V /\ f[a] = At(f, a)
    <3>1. CASE a \in stop
      BY <3>1, Zenon
    <3>2. CASE a \notin stop
      <4> DEFINE c == after[a]
      <4>1. m # 0 /\ c \in Up(m - 1) /\ c \in Up(m) /\ a \in A \ stop
        BY <2>4, <3>2
      <4>2. h \in [Up(m - 1) -> V] /\ h[c] = At(h, c)
        BY <2>3, <4>1, Zenon
      <4>3. f[c] = h[c] /\ h[c] \in V
        BY <4>1, <4>2, Zenon
      <4>4. f[a] = cons[a][h[c]] /\ At(f, a) = cons[a][f[c]]
        BY <3>2, Zenon
      <4>5. cons[a] \in [V -> V]
        BY <4>1
      <4> HIDE DEF f, c
      <4> QED
        BY <4>3, <4>4, <4>5, Zenon
    <3> QED
      BY <3>1, <3>2, Zenon
  <2>6. f \in [Up(m) -> V]
    BY <2>5, Zenon
  <2>7. Good(f, m)
    <3> HIDE DEF f, At
    <3> QED
      BY <2>5, <2>6
  <2> HIDE DEF f, Good
  <2> QED
    BY <2>2, <2>7
<1>3. ASSUME NEW n \in Nat, NEW m \in Nat, NEW g, NEW h, Good(g, n), Good(h, m),
             NEW a \in Up(n), a \in Up(m)
      PROVE  g[a] = h[a]
  <2> DEFINE B == {c \in Up(n) : c \in Up(m) /\ g[c] # h[c]}
             T == {size[c] : c \in B}
  <2> SUFFICES ASSUME B # {} PROVE FALSE
    BY <1>3
  <2>1. T \in SUBSET Nat /\ T # {}
    <3>1. PICK b \in B : TRUE
      OBVIOUS
    <3>2. size[b] \in T
      OBVIOUS
    <3>3. \A d \in B : size[d] \in Nat
      BY <1>1
    <3> QED
      BY <3>2, <3>3
  <2>2. Min(T) \in T /\ \A x \in T : Min(T) <= x
    BY <2>1, MinIs
  <2>3. PICK c \in B : \A d \in B : size[c] <= size[d]
    <3>1. PICK c \in B : size[c] = Min(T)
      BY <2>2
    <3>2. \A d \in B : size[d] \in T
      OBVIOUS
    <3> HIDE DEF T, B
    <3> QED
      BY <2>2, <3>1, <3>2
  <2>4. c \in A /\ g[c] = At(g, c) /\ h[c] = At(h, c) /\ g[c] # h[c]
    BY <1>3
  <2>5. c \notin stop
    BY <2>4
  <2>6. after[c] \in A /\ size[after[c]] < size[c]
    BY <2>4, <2>5
  <2>7. after[c] \in Up(n) /\ after[c] \in Up(m) /\ after[c] \notin B
    BY <1>1, <2>3, <2>4, <2>6
  <2>8. g[after[c]] = h[after[c]]
    BY <2>7
  <2> QED
    BY <2>4, <2>5, <2>8
<1> DEFINE G(a) == CHOOSE g : Good(g, size[a])
           F    == [a \in A |-> G(a)[a]]
<1>4. ASSUME NEW a \in A PROVE Good(G(a), size[a]) /\ a \in Up(size[a])
  <2>1. \E g : Good(g, size[a])
    BY <1>1, <1>2
  <2> HIDE DEF Good
  <2> QED
    BY <1>1, <2>1
<1>5. ASSUME NEW a \in A PROVE F[a] \in V /\ F[a] = At(F, a)
  <2>1. F[a] = G(a)[a]
    OBVIOUS
  <2>2. G(a) \in [Up(size[a]) -> V] /\ G(a)[a] = At(G(a), a) /\ a \in Up(size[a])
    BY <1>4, Zenon
  <2>3. CASE a \in stop
    BY <2>1, <2>2, <2>3, Zenon
  <2>4. CASE a \notin stop
    <3> DEFINE c == after[a]
    <3>1. c \in A /\ size[c] < size[a] /\ c \in Up(size[a]) /\ c \in Up(size[c])
      BY <1>1, <2>4
    <3>2. Good(G(a), size[a]) /\ Good(G(c), size[c]) /\ size[a] \in Nat /\ size[c] \in Nat
      BY <1>1, <1>4, <3>1, Zenon
    <3> HIDE DEF c, Good, Up
    <3>3. G(a)[c] = G(c)[c]
      BY <1>3, <3>1, <3>2
    <3>4. F[c] = G(c)[c]
      BY <3>1
    <3> QED
      BY <2>1, <2>2, <2>4, <3>3, <3>4 DEF c
  <2> QED
    BY <2>3, <2>4, Zenon
<1> HIDE DEF G, Good, Up
<1>6. F \in [A -> V]
  BY <1>5
<1>7. F = [a \in A |-> At(F, a)]
  <2>1. DOMAIN F = A
    OBVIOUS
  <2> HIDE DEF F, At
  <2> QED
    BY <1>5, <1>6
<1> QED
  BY <1>6, <1>7 DEF Solves

-----------------------------------------------------------------------------
(* Sequences of texts, one after the other.                                *)

Joining(f, s) ==
  \A i \in 1..Len(s) : f[i] = IF i = 1 THEN s[i] ELSE f[i - 1] \o s[i]

LEMMA JoinSame ==
  ASSUME NEW s \in Seq(Text), NEW t \in Seq(Text), NEW n \in Nat, n <= Len(s), n <= Len(t),
         \A i \in 1..n : s[i] = t[i],
         NEW f, NEW g, Joining(f, s), Joining(g, t)
  PROVE  \A i \in 1..n : f[i] = g[i]
<1> DEFINE T == {i \in 1..n : f[i] # g[i]}
<1> SUFFICES ASSUME T # {} PROVE FALSE
  OBVIOUS
<1>1. PICK i \in T : \A j \in T : i <= j
  <2>1. T \in SUBSET Nat
    OBVIOUS
  <2> HIDE DEF T
  <2> QED
    BY <2>1, MinIs
<1>2. i \in 1..Len(s) /\ i \in 1..Len(t) /\ i \in 1..n
  BY LenProperties
<1>3. i # 1 => i - 1 \in 1..n /\ i - 1 \notin T
  <2>1. i # 1 => i - 1 \in 1..n
    BY <1>2
  <2> HIDE DEF T
  <2> QED
    BY <1>1, <1>2, <2>1
<1>4. i # 1 => f[i - 1] = g[i - 1]
  BY <1>3
<1>5. f[i] = g[i]
  BY <1>2, <1>4 DEF Joining
<1> QED
  BY <1>5

(* FlattenSeq by what it computes. *)
LEMMA FlatIs ==
  ASSUME NEW s \in Seq(Text), s # <<>>
  PROVE  \E f \in [1..Len(s) -> Text] : Joining(f, s) /\ FlattenSeq(s) = f[Len(s)]
<1> DEFINE A == 1..Len(s)
           size  == [i \in A |-> i]
           stop  == {1}
           base  == [i \in stop |-> s[1]]
           after == [i \in A \ stop |-> i - 1]
           cons  == [i \in A \ stop |-> [v \in Text |-> v \o s[i]]]
<1>1. Len(s) \in Nat \ {0} /\ \A i \in A : s[i] \in Text
  BY EmptySeq, LenProperties, ElementOfSeq
<1>2. PICK F \in [A -> Text] :
        F = [i \in A |-> IF i \in stop THEN base[i] ELSE cons[i][F[after[i]]]]
  <2>1. size \in [A -> Nat] /\ stop \in SUBSET A /\ base \in [stop -> Text]
        /\ after \in [A \ stop -> A]
    BY <1>1
  <2>2. cons \in [A \ stop -> [Text -> Text]]
    BY <1>1, Joins
  <2>3. \A i \in A \ stop : size[after[i]] < size[i]
    BY <1>1
  <2> HIDE DEF A, size, stop, base, after, cons
  <2>4. Shrinks(A, Text, size, stop, base, after, cons)
    BY <2>1, <2>2, <2>3 DEF Shrinks
  <2> QED
    BY <2>4, Recursion DEF Solves
<1>3. F = [i \in 1..Len(s) |-> IF i = 1 THEN s[i] ELSE F[i - 1] \o s[i]]
  <2>1. ASSUME NEW i \in A PROVE F[i] = IF i = 1 THEN s[i] ELSE F[i - 1] \o s[i]
    <3>1. CASE i = 1
      BY <1>1, <1>2, <3>1
    <3>2. CASE i # 1
      <4>1. F[i] = cons[i][F[after[i]]] /\ i \in A \ stop
        BY <1>2, <3>2
      <4>2. after[i] = i - 1 /\ i - 1 \in A
        BY <1>1, <3>2
      <4>3. F[i - 1] \in Text
        BY <4>2
      <4> QED
        BY <3>2, <4>1, <4>2, <4>3
    <3> QED
      BY <3>1, <3>2
  <2> QED
    BY <2>1
<1>4. \E g : /\ g = [i \in 1..Len(s) |-> IF i = 1 THEN s[i] ELSE g[i - 1] \o s[i]]
             /\ Len(s) # 0 => FlattenSeq(s) = g[Len(s)]
  BY <1>3, Zenon DEF FlattenSeq
<1>5. PICK g : /\ g = [i \in 1..Len(s) |-> IF i = 1 THEN s[i] ELSE g[i - 1] \o s[i]]
               /\ FlattenSeq(s) = g[Len(s)]
  BY <1>1, <1>4
<1>6. Joining(F, s) /\ Joining(g, s)
  BY <1>3, <1>5 DEF Joining
<1>7. F[Len(s)] = g[Len(s)]
  BY <1>1, <1>6, JoinSame
<1> QED
  BY <1>5, <1>6, <1>7

LEMMA FlatType ==
  ASSUME NEW s \in Seq(Text)
  PROVE  FlattenSeq(s) \in Text /\ FlattenSeq(<<>>) = <<>>
<1>1. Len(<<>>) = 0 /\ FlattenSeq(<<>>) = <<>> /\ <<>> \in Text
  BY EmptySeq DEF FlattenSeq, Text
<1>2. CASE s # <<>>
  <2>1. Len(s) \in 1..Len(s)
    BY <1>2, EmptySeq, LenProperties
  <2> QED
    BY <1>1, <1>2, <2>1, FlatIs
<1> QED
  BY <1>1, <1>2

LEMMA FlatAppend ==
  ASSUME NEW s \in Seq(Text), NEW x \in Text
  PROVE  FlattenSeq(Append(s, x)) = FlattenSeq(s) \o x
<1> DEFINE t == Append(s, x)
<1>1. /\ t \in Seq(Text) /\ Len(t) = Len(s) + 1 /\ Len(s) \in Nat
      /\ \A i \in 1..Len(s) : t[i] = s[i]
      /\ t[Len(s) + 1] = x /\ t # <<>>
  BY AppendProperties, LenProperties, EmptySeq
<1> HIDE DEF t
<1>2. PICK f : Joining(f, t) /\ FlattenSeq(t) = f[Len(t)]
  BY <1>1, FlatIs
<1>3. Len(t) \in 1..Len(t)
  BY <1>1
<1>4. CASE s = <<>>
  <2>1. Len(t) = 1
    BY <1>1, <1>4, EmptySeq
  <2>2. f[1] = x
    BY <1>1, <1>2, <2>1 DEF Joining
  <2>3. <<>> \o x = x
    BY ConcatEmptySeq DEF Text
  <2> QED
    BY <1>2, <1>4, <2>1, <2>2, <2>3, FlatType DEF t
<1>5. CASE s # <<>>
  <2>1. PICK g : Joining(g, s) /\ FlattenSeq(s) = g[Len(s)]
    BY <1>5, FlatIs
  <2>2. Len(s) \in 1..Len(s) /\ Len(t) # 1 /\ Len(t) - 1 = Len(s)
    BY <1>1, <1>5, EmptySeq
  <2>3. f[Len(s)] = g[Len(s)]
    BY <1>1, <1>2, <2>1, <2>2, JoinSame
  <2>4. f[Len(t)] = f[Len(t) - 1] \o t[Len(t)]
    BY <1>2, <1>3, <2>2 DEF Joining
  <2> QED
    BY <1>1, <1>2, <2>1, <2>2, <2>3, <2>4 DEF t
<1> QED
  BY <1>4, <1>5

LEMMA ListsRegroup ==
  ASSUME NEW r \in Seq(Text), NEW s \in Seq(Text), NEW t \in Seq(Text)
  PROVE  (r \o s) \o t = r \o (s \o t)
BY ConcatAssociative

LEMMA ListsAssociate ==
  ASSUME NEW r \in Seq(Text), NEW s \in Seq(Text), NEW t \in Seq(Text)
  PROVE  r \o s \in Seq(Text) /\ r \o (s \o t) = (r \o s) \o t
<1>1. (r \o s) \o t = r \o (s \o t)
  BY ListsRegroup, Zenon
<1>2. r \o s \in Seq(Text)
  BY ConcatProperties
<1> QED
  BY <1>1, <1>2, Zenon

LEMMA FlatConcat ==
  ASSUME NEW s \in Seq(Text), NEW t \in Seq(Text)
  PROVE  FlattenSeq(s \o t) = FlattenSeq(s) \o FlattenSeq(t)
<1> DEFINE Adds(u) == FlattenSeq(s \o u) = FlattenSeq(s) \o FlattenSeq(u)
           T == {Len(u) : u \in {v \in Seq(Text) : ~Adds(v)}}
<1> SUFFICES ASSUME ~Adds(t) PROVE FALSE
  OBVIOUS
<1>1. PICK u \in Seq(Text) : ~Adds(u) /\ \A v \in Seq(Text) : ~Adds(v) => Len(u) <= Len(v)
  <2> HIDE DEF Adds
  <2>1. T \in SUBSET Nat /\ T # {}
    BY LenProperties, ZenonT(30)
  <2>2. Min(T) \in T /\ \A n \in T : Min(T) <= n
    BY <2>1, MinIs
  <2> QED
    BY <2>2
<1>2. CASE u = <<>>
  <2>1. s \o <<>> = s /\ FlattenSeq(s) \o <<>> = FlattenSeq(s)
    BY ConcatEmptySeq, FlatType DEF Text
  <2> QED
    BY <1>1, <1>2, <2>1, FlatType
<1>3. CASE u # <<>>
  <2>1. PICK v \in Seq(Text), x \in Text : u = Append(v, x)
    BY <1>3, SequenceEmptyOrAppend
  <2>2. Len(v) \in Nat /\ Len(u) = Len(v) + 1
    BY <2>1, AppendProperties, LenProperties
  <2>3. FlattenSeq(s \o v) = FlattenSeq(s) \o FlattenSeq(v)
    BY <1>1, <2>2
  <2>4. s \o u = Append(s \o v, x) /\ s \o v \in Seq(Text)
    <3>1. <<x>> \in Seq(Text)
      OBVIOUS
    <3>2. u = v \o <<x>> /\ s \o v \in Seq(Text)
      BY <2>1, AppendIsConcat, ConcatProperties
    <3>3. Append(s \o v, x) = (s \o v) \o <<x>>
      BY <3>2, AppendIsConcat
    <3>4. (s \o v) \o <<x>> = s \o (v \o <<x>>)
      BY <3>1, ListsRegroup, SMTT(30)
    <3> QED
      BY <3>2, <3>3, <3>4
  <2>5. FlattenSeq(s \o u) = (FlattenSeq(s) \o FlattenSeq(v)) \o x
    BY <2>3, <2>4, FlatAppend
  <2>6. FlattenSeq(u) = FlattenSeq(v) \o x
    BY <2>1, FlatAppend
  <2>7. (FlattenSeq(s) \o FlattenSeq(v)) \o x = FlattenSeq(s) \o (FlattenSeq(v) \o x)
    <3>1. FlattenSeq(s) \in Text /\ FlattenSeq(v) \in Text
      BY FlatType
    <3> QED
      BY <3>1, JoinsAssociate
  <2> QED
    BY <1>1, <2>5, <2>6, <2>7
<1> QED
  BY <1>2, <1>3

LEMMA FlatFirst ==
  ASSUME NEW x \in Text, NEW s \in Seq(Text)
  PROVE  /\ <<x>> \o s \in Seq(Text)
         /\ FlattenSeq(<<x>> \o s) = x \o FlattenSeq(s)
<1>1. <<>> \in Seq(Text) /\ <<x>> \in Seq(Text) /\ <<x>> = Append(<<>>, x)
  BY EmptySeq
<1>2. FlattenSeq(<<x>>) = x
  <2>1. FlattenSeq(<<x>>) = FlattenSeq(<<>>) \o x
    BY <1>1, FlatAppend
  <2>2. FlattenSeq(<<>>) = <<>> /\ <<>> \o x = x
    BY <1>1, FlatType, ConcatEmptySeq DEF Text
  <2> QED
    BY <2>1, <2>2
<1> QED
  BY <1>1, <1>2, FlatConcat, ConcatProperties

(* Induction over the length of a text. *)
LEMMA TextInduction ==
  ASSUME NEW S, \A b \in Text : (\A c \in Text : Len(c) < Len(b) => c \in S) => b \in S
  PROVE  \A b \in Text : b \in S
<1> DEFINE T == {Len(b) : b \in Text \ S}
<1> SUFFICES ASSUME NEW x \in Text, x \notin S PROVE FALSE
  OBVIOUS
<1>1. T \in SUBSET Nat /\ T # {}
  <2>1. \A b \in Text : Len(b) \in Nat
    BY Texts
  <2>2. Len(x) \in T
    OBVIOUS
  <2>3. \A n \in T : n \in Nat
    BY <2>1
  <2> HIDE DEF T
  <2> QED
    BY <2>2, <2>3
<1>2. Min(T) \in T /\ \A n \in T : Min(T) <= n
  BY <1>1, MinIs
<1>3. PICK b \in Text \ S : \A c \in Text \ S : Len(b) <= Len(c)
  <2>1. PICK b \in Text \ S : Len(b) = Min(T)
    BY <1>2
  <2>2. \A c \in Text \ S : Len(c) \in T
    OBVIOUS
  <2> HIDE DEF T
  <2> QED
    BY <1>2, <2>1, <2>2
<1>4. ASSUME NEW c \in Text, Len(c) < Len(b) PROVE c \in S
  BY <1>3, <1>4, Texts
<1> QED
  BY <1>3, <1>4

-----------------------------------------------------------------------------
(* Where a sentence ends.                                                  *)

(* The run of stops and closing characters at i, and that it is the only one. *)
LEMMA RunEndIs ==
  ASSUME NEW b \in Text, NEW i \in 1..Len(b)
  PROVE  /\ RunEnd(b, i) \in i..Len(b)
         /\ \A k \in (i + 1)..RunEnd(b, i) : b[k] \in Trailing
         /\ RunEnd(b, i) < Len(b) => b[RunEnd(b, i) + 1] \notin Trailing
<1> DEFINE T == {e \in i..Len(b) : \A k \in i..e : k = i \/ b[k] \in Trailing}
           m == RunEnd(b, i)
<1>1. Len(b) \in Nat /\ i \in T /\ T \in SUBSET (0..Len(b)) /\ m = Max(T)
  BY Texts DEF RunEnd
<1>2. m \in T /\ \A e \in T : e <= m
  <2> HIDE DEF T
  <2> QED
    BY <1>1, MaxIs
<1> HIDE DEF m
<1>3. m \in i..Len(b) /\ \A k \in (i + 1)..m : b[k] \in Trailing
  BY <1>2
<1>4. ASSUME m < Len(b), b[m + 1] \in Trailing PROVE FALSE
  <2>1. m + 1 \in T
    <3>1. m + 1 \in i..Len(b)
      BY <1>1, <1>3, <1>4
    <3>2. ASSUME NEW k \in i..m + 1 PROVE k = i \/ b[k] \in Trailing
      <4>1. k = m + 1 \/ k \in i..m
        BY <1>1, <1>3
      <4> QED
        BY <1>2, <1>4, <4>1
    <3> QED
      BY <3>1, <3>2
  <2> HIDE DEF T
  <2> QED
    BY <1>2, <1>3, <2>1
<1> QED
  BY <1>3, <1>4 DEF m

LEMMA RunEndOnly ==
  ASSUME NEW b \in Text, NEW i \in 1..Len(b), NEW e \in i..Len(b),
         \A k \in (i + 1)..e : b[k] \in Trailing,
         e < Len(b) => b[e + 1] \notin Trailing
  PROVE  RunEnd(b, i) = e
<1> DEFINE m == RunEnd(b, i)
<1>1. /\ m \in i..Len(b) /\ \A k \in (i + 1)..m : b[k] \in Trailing
      /\ m < Len(b) => b[m + 1] \notin Trailing
      /\ Len(b) \in Nat
  BY RunEndIs, Texts
<1> HIDE DEF m
<1>2. ~(m < e)
  <2>1. m < e => m + 1 \in (i + 1)..e /\ m < Len(b)
    BY <1>1
  <2> QED
    BY <1>1, <2>1
<1>3. ~(e < m)
  <2>1. e < m => e + 1 \in (i + 1)..m /\ e < Len(b)
    BY <1>1
  <2> QED
    BY <1>1, <2>1
<1> QED
  BY <1>1, <1>2, <1>3 DEF m

(* The places at which the scan from a position stops. *)
Ends(b, scan, final) ==
  {i \in (scan + 1)..Len(b) : b[i] = "newline" /\ ~Blank(SubSeq(b, 1, i - 1))}
  \cup {i \in Heads(b, scan + 1) : Waits(b, i, final) \/ EndsSentence(b, i)}

EndOf(b, i) ==
  IF b[i] = "newline" THEN Len(RStrip(SubSeq(b, 1, i - 1))) ELSE RunEnd(b, i)

LEMMA HeadsAre ==
  ASSUME NEW b \in Text, NEW scan \in Nat, NEW i
  PROVE  i \in Heads(b, scan + 1) <=>
           /\ i \in (scan + 1)..Len(b) /\ b[i] \in Terminators
           /\ \A k \in (scan + 1)..Len(b) :
                b[k] \in Terminators /\ k < i => RunEnd(b, k) < i
BY DEF Heads

LEMMA EndsAre ==
  ASSUME NEW b \in Text, NEW scan \in Nat, NEW final \in BOOLEAN
  PROVE  Ends(b, scan, final) \in SUBSET ((scan + 1)..Len(b))
BY HeadsAre DEF Ends

(* What is left of a line without the spaces after it. *)
LEMMA LineEnds ==
  ASSUME NEW b \in Text, NEW i \in 1..Len(b), ~Blank(SubSeq(b, 1, i - 1))
  PROVE  LET e == Len(RStrip(SubSeq(b, 1, i - 1)))
         IN  /\ e \in 1..i - 1 /\ b[e] \notin Spaces
             /\ \A k \in (e + 1)..i - 1 : b[k] \in Spaces
<1> DEFINE s == SubSeq(b, 1, i - 1)
           m == Max(Ink(s))
<1>1. s \in Text /\ Len(s) = i - 1 /\ \A k \in 1..i - 1 : s[k] = b[k]
  <2>1. 1 \in 1..Len(b) + 1 /\ i - 1 \in 1 - 1..Len(b)
    BY Texts
  <2> QED
    BY <2>1, Parts
<1> HIDE DEF s
<1>2. /\ m \in 1..Len(s) /\ s[m] \notin Spaces
      /\ \A k \in 1..Len(s) : k > m => s[k] \in Spaces
  BY <1>1, InkIs DEF s
<1>3. RStrip(s) = SubSeq(s, 1, m)
  BY DEF RStrip, s
<1> HIDE DEF m
<1>4. Len(RStrip(s)) = m
  <2>1. 1 \in 1..Len(s) + 1 /\ m \in 1 - 1..Len(s)
    BY <1>1, <1>2
  <2> QED
    BY <1>1, <1>2, <1>3, <2>1, Parts
<1>5. m \in 1..i - 1 /\ b[m] \notin Spaces /\ \A k \in (m + 1)..i - 1 : b[k] \in Spaces
  BY <1>1, <1>2
<1> QED
  BY <1>4, <1>5 DEF s

(* The next boundary is the first place at which the scan stops. *)
LEMMA BoundaryIs ==
  ASSUME NEW b \in Text, NEW scan \in Nat, NEW final \in BOOLEAN
  PROVE  LET S == Ends(b, scan, final)
             n == NextBoundary(b, scan, final)
         IN  IF S = {} THEN n.end = 0 /\ n.scan = Len(b)
             ELSE \E i \in S : /\ \A j \in S : i <= j
                               /\ IF Waits(b, i, final) THEN n.end = 0 /\ n.scan = i - 1
                                  ELSE n.end = EndOf(b, i) /\ n.scan = 0
<1> DEFINE S == Ends(b, scan, final)
           i == Min(S)
<1>1. S # {} => i \in S /\ \A j \in S : i <= j
  <2>1. S \in SUBSET Nat
    BY EndsAre, Texts
  <2> HIDE DEF S
  <2> QED
    BY <2>1, MinIs
<1>2. NextBoundary(b, scan, final) =
        IF S = {} THEN [end |-> 0, scan |-> Scanned(b)]
        ELSE IF Waits(b, i, final) THEN [end |-> 0, scan |-> i - 1]
        ELSE [end |-> EndOf(b, i), scan |-> 0]
  BY Zenon DEF NextBoundary, Ends, EndOf
<1> HIDE DEF S, i
<1>3. CASE S = {}
  BY <1>2, <1>3 DEF S, Scanned
<1>4. CASE S # {}
  BY <1>1, <1>2, <1>4 DEF S
<1> QED
  BY <1>3, <1>4

LEMMA EndOfType ==
  ASSUME NEW b \in Text, NEW scan \in Nat, NEW final \in BOOLEAN,
         NEW i \in Ends(b, scan, final), ~Waits(b, i, final)
  PROVE  EndOf(b, i) \in 1..Len(b)
<1>1. Len(b) \in Nat /\ i \in 1..Len(b)
  BY EndsAre, Texts
<1>2. CASE b[i] = "newline"
  <2>1. ~Blank(SubSeq(b, 1, i - 1))
    BY <1>2, HeadsAre DEF Ends, Terminators, CjkStops
  <2> QED
    BY <1>1, <1>2, <2>1, LineEnds DEF EndOf
<1>3. CASE b[i] # "newline"
  BY <1>1, <1>3, RunEndIs DEF EndOf
<1> QED
  BY <1>2, <1>3

LEMMA BoundaryType ==
  ASSUME NEW b \in Text, NEW scan \in Nat, NEW final \in BOOLEAN
  PROVE  /\ NextBoundary(b, scan, final).end \in 0..Len(b)
         /\ NextBoundary(b, scan, final).scan \in 0..Len(b)
<1> DEFINE S == Ends(b, scan, final)
           n == NextBoundary(b, scan, final)
<1>1. Len(b) \in Nat /\ S \in SUBSET ((scan + 1)..Len(b))
  BY EndsAre, Texts
<1>2. ASSUME NEW i \in S, ~Waits(b, i, final) PROVE EndOf(b, i) \in 1..Len(b)
  BY <1>2, EndOfType
<1> HIDE DEF S, n
<1>3. CASE S = {}
  BY <1>1, <1>3, BoundaryIs DEF S, n
<1>4. CASE S # {}
  <2>1. PICK i \in S : IF Waits(b, i, final) THEN n.end = 0 /\ n.scan = i - 1
                       ELSE n.end = EndOf(b, i) /\ n.scan = 0
    BY <1>4, BoundaryIs DEF S, n
  <2> QED
    BY <1>1, <1>2, <2>1 DEF n
<1> QED
  BY <1>3, <1>4

-----------------------------------------------------------------------------
(* _drain.                                                                 *)

Drained == [out : Seq(Text), buf : Text, scan : Nat]

(* One turn of the loop of _drain. *)
LEMMA DrainStep ==
  ASSUME NEW b \in Text, NEW scan \in Nat, NEW final \in BOOLEAN
  PROVE  LET n == NextBoundary(b, scan, final)
             d == Drain[<<b, scan, final>>]
             r == Drain[<<From(b, n.end + 1), Rescan(n.end), final>>]
         IN  d = IF n.end = 0 THEN [out |-> <<>>, buf |-> b, scan |-> n.scan]
                 ELSE [r EXCEPT !.out = <<SubSeq(b, 1, n.end)>> \o @]
<1> DEFINE A == Text \X Nat \X BOOLEAN
           next(a) == NextBoundary(a[1], a[2], a[3])
           first(a) == SubSeq(a[1], 1, next(a).end)
           rest(a) == <<From(a[1], next(a).end + 1), Rescan(next(a).end), a[3]>>
           stop  == {a \in A : next(a).end = 0}
           size  == [a \in A |-> Len(a[1])]
           base  == [a \in stop |-> [out |-> <<>>, buf |-> a[1], scan |-> next(a).scan]]
           after == [a \in A \ stop |-> rest(a)]
           cons  == [a \in A \ stop |-> [v \in Drained |->
                       [v EXCEPT !.out = <<first(a)>> \o @]]]
<1>1. ASSUME NEW a \in A
      PROVE  /\ a[1] \in Text /\ a[2] \in Nat /\ a[3] \in BOOLEAN /\ Len(a[1]) \in Nat
             /\ next(a).end \in 0..Len(a[1]) /\ next(a).scan \in Nat
  <2>1. a[1] \in Text /\ a[2] \in Nat /\ a[3] \in BOOLEAN
    OBVIOUS
  <2>2. Len(a[1]) \in Nat
    BY <2>1, Texts
  <2> QED
    BY <2>1, <2>2, BoundaryType
<1> HIDE DEF next
<1>2. ASSUME NEW a \in A, a \notin stop
      PROVE  /\ rest(a) \in A /\ Len(rest(a)[1]) < Len(a[1])
             /\ first(a) \in Text
  <2>1. next(a).end \in 1..Len(a[1])
    BY <1>1, <1>2
  <2>2. next(a).end + 1 \in 1..Len(a[1]) + 1 /\ Len(a[1]) \in next(a).end + 1 - 1..Len(a[1])
    BY <1>1, <2>1
  <2>3. /\ From(a[1], next(a).end + 1) \in Text
        /\ Len(From(a[1], next(a).end + 1)) < Len(a[1])
    BY <1>1, <2>1, <2>2, Parts DEF From
  <2>4. 1 \in 1..Len(a[1]) + 1 /\ next(a).end \in 1 - 1..Len(a[1])
    BY <1>1, <2>1
  <2>5. first(a) \in Text
    BY <1>1, <2>4, Parts
  <2>6. Rescan(next(a).end) \in Nat
    BY DEF Rescan
  <2> QED
    BY <1>1, <2>3, <2>5, <2>6
<1> HIDE DEF rest, first
<1>3. PICK F : Solves(F, A, Drained, stop, base, after, cons)
  <2>1. size \in [A -> Nat] /\ stop \in SUBSET A
    BY <1>1
  <2>2. base \in [stop -> Drained]
    BY <1>1, EmptySeq DEF Drained
  <2>3. after \in [A \ stop -> A] /\ \A a \in A \ stop : size[after[a]] < size[a]
    BY <1>2
  <2>4. cons \in [A \ stop -> [Drained -> Drained]]
    <3>1. ASSUME NEW a \in A \ stop, NEW v \in Drained
          PROVE  [v EXCEPT !.out = <<first(a)>> \o @] \in Drained
      BY <1>2, FlatFirst DEF Drained
    <3> QED
      BY <3>1
  <2> HIDE DEF A, size, stop, base, after, cons
  <2>5. Shrinks(A, Drained, size, stop, base, after, cons)
    BY <2>1, <2>2, <2>3, <2>4 DEF Shrinks
  <2> QED
    BY <2>5, Recursion
<1>4. F = [a \in Text \X Nat \X BOOLEAN |->
             IF next(a).end = 0 THEN [out |-> <<>>, buf |-> a[1], scan |-> next(a).scan]
             ELSE [F[rest(a)] EXCEPT !.out = <<first(a)>> \o @]]
  <2>1. F \in [A -> Drained]
    BY <1>3 DEF Solves
  <2>2. F = [a \in A |-> IF a \in stop THEN base[a] ELSE cons[a][F[after[a]]]]
    BY <1>3, Zenon DEF Solves
  <2>3. ASSUME NEW a \in A
        PROVE  F[a] = IF next(a).end = 0
                      THEN [out |-> <<>>, buf |-> a[1], scan |-> next(a).scan]
                      ELSE [F[rest(a)] EXCEPT !.out = <<first(a)>> \o @]
    <3>1. CASE a \in stop
      BY <2>2, <3>1, Zenon
    <3>2. CASE a \notin stop
      <4>1. rest(a) \in A /\ F[rest(a)] \in Drained
        BY <1>2, <2>1, <3>2
      <4>2. F[a] = cons[a][F[after[a]]]
        <5> HIDE DEF A, stop, base, after, cons
        <5> QED
          BY <2>2, <3>2, Zenon
      <4>3. a \in A \ stop /\ after[a] = rest(a)
        BY <3>2
      <4>4. cons[a][F[rest(a)]] = [F[rest(a)] EXCEPT !.out = <<first(a)>> \o @]
        BY <4>1, <4>3
      <4>5. next(a).end # 0
        BY <3>2
      <4> QED
        BY <4>2, <4>3, <4>4, <4>5, Zenon
    <3> QED
      BY <3>1, <3>2
  <2> HIDE DEF next, first, rest
  <2> QED
    BY <2>2, <2>3, Zenon
<1>5. Drain = [a \in Text \X Nat \X BOOLEAN |->
             IF next(a).end = 0 THEN [out |-> <<>>, buf |-> a[1], scan |-> next(a).scan]
             ELSE [Drain[rest(a)] EXCEPT !.out = <<first(a)>> \o @]]
  BY <1>4, Zenon DEF Drain, next, first, rest
<1> DEFINE a == <<b, scan, final>>
<1>6. a \in Text \X Nat \X BOOLEAN /\ a[1] = b /\ a[2] = scan /\ a[3] = final
  OBVIOUS
<1> HIDE DEF a
<1>7. Drain[a] = IF next(a).end = 0
                 THEN [out |-> <<>>, buf |-> a[1], scan |-> next(a).scan]
                 ELSE [Drain[rest(a)] EXCEPT !.out = <<first(a)>> \o @]
  BY <1>5, <1>6, Zenon
<1>8. next(a) = NextBoundary(b, scan, final)
  BY <1>6, Zenon DEF next
<1>9. /\ first(a) = SubSeq(b, 1, next(a).end)
      /\ rest(a) = <<From(b, next(a).end + 1), Rescan(next(a).end), final>>
  BY <1>6, Zenon DEF first, rest
<1> QED
  BY <1>6, <1>7, <1>8, <1>9, Zenon DEF a

(* What it returns is of the sort expected, whatever the position given. *)
LEMMA DrainSort ==
  ASSUME NEW b \in Text, NEW scan \in Nat, NEW final \in BOOLEAN
  PROVE  Drain[<<b, scan, final>>] \in Drained
<1> DEFINE S == {c \in Text : \A s \in Nat, f \in BOOLEAN : Drain[<<c, s, f>>] \in Drained}
<1>1. ASSUME NEW c \in Text, \A x \in Text : Len(x) < Len(c) => x \in S,
             NEW s \in Nat, NEW f \in BOOLEAN
      PROVE  Drain[<<c, s, f>>] \in Drained
  <2> DEFINE n == NextBoundary(c, s, f)
             rest == From(c, n.end + 1)
             first == SubSeq(c, 1, n.end)
             d == Drain[<<c, s, f>>]
             r == Drain[<<rest, Rescan(n.end), f>>]
  <2>1. Len(c) \in Nat /\ n.end \in 0..Len(c) /\ n.scan \in Nat
    BY Texts, BoundaryType
  <2>2. d = IF n.end = 0 THEN [out |-> <<>>, buf |-> c, scan |-> n.scan]
            ELSE [r EXCEPT !.out = <<first>> \o @]
    BY DrainStep, Zenon
  <2>3. Rescan(n.end) \in Nat
    BY DEF Rescan
  <2> HIDE DEF n, d
  <2>4. CASE n.end = 0
    BY <2>1, <2>2, <2>4, EmptySeq DEF Drained, d
  <2>5. CASE n.end # 0
    <3>1. n.end \in 1..Len(c)
      BY <2>1, <2>5
    <3>2. 1 \in 1..Len(c) + 1 /\ n.end \in 1 - 1..Len(c)
      BY <2>1, <3>1
    <3>3. n.end + 1 \in 1..Len(c) + 1 /\ Len(c) \in n.end + 1 - 1..Len(c)
      BY <2>1, <3>1
    <3>4. first \in Text
      BY <3>2, Parts
    <3>5. rest \in Text /\ Len(rest) < Len(c)
      BY <2>1, <3>1, <3>3, Parts DEF From
    <3> HIDE DEF first, rest, S
    <3>6. rest \in S
      BY <1>1, <3>5
    <3>7. r \in Drained
      BY <2>3, <3>6 DEF S
    <3> HIDE DEF r
    <3>8. <<first>> \o r.out \in Seq(Text)
      BY <3>4, <3>7, FlatFirst DEF Drained
    <3>9. d \in Drained
      BY <2>2, <2>5, <3>7, <3>8 DEF Drained
    <3> QED
      BY <3>9 DEF d
  <2> QED
    BY <2>4, <2>5 DEF d
<1>2. \A c \in Text : (\A x \in Text : Len(x) < Len(c) => x \in S) => c \in S
  BY <1>1
<1> HIDE DEF S
<1>3. b \in S
  BY <1>2, TextInduction
<1> QED
  BY <1>3 DEF S

(* The same, written out. *)
LEMMA DrainIs ==
  ASSUME NEW b \in Text, NEW scan \in Nat, NEW final \in BOOLEAN
  PROVE  LET n == NextBoundary(b, scan, final)
             d == Drain[<<b, scan, final>>]
             r == Drain[<<From(b, n.end + 1), Rescan(n.end), final>>]
         IN  d = IF n.end = 0 THEN [out |-> <<>>, buf |-> b, scan |-> n.scan]
                 ELSE [out |-> <<SubSeq(b, 1, n.end)>> \o r.out,
                       buf |-> r.buf, scan |-> r.scan]
<1> DEFINE n == NextBoundary(b, scan, final)
           d == Drain[<<b, scan, final>>]
           r == Drain[<<From(b, n.end + 1), Rescan(n.end), final>>]
           first == SubSeq(b, 1, n.end)
<1>1. d = IF n.end = 0 THEN [out |-> <<>>, buf |-> b, scan |-> n.scan]
          ELSE [r EXCEPT !.out = <<first>> \o @]
  BY DrainStep, ZenonT(30)
<1>2. n.end # 0 => r \in Drained
  <2> SUFFICES ASSUME n.end # 0 PROVE r \in Drained
    OBVIOUS
  <2>1. Len(b) \in Nat /\ n.end \in 1..Len(b)
    BY Texts, BoundaryType
  <2>2. n.end + 1 \in 1..Len(b) + 1 /\ Len(b) \in n.end + 1 - 1..Len(b)
    BY <2>1
  <2>3. From(b, n.end + 1) \in Text
    BY <2>1, <2>2, Parts DEF From
  <2>4. Rescan(n.end) \in Nat
    BY DEF Rescan
  <2> QED
    BY <2>3, <2>4, DrainSort
<1> HIDE DEF n, d, r, first
<1>3. n.end # 0 => d = [out |-> <<first>> \o r.out, buf |-> r.buf, scan |-> r.scan]
  BY <1>1, <1>2 DEF Drained
<1>4. d = IF n.end = 0 THEN [out |-> <<>>, buf |-> b, scan |-> n.scan]
          ELSE [out |-> <<first>> \o r.out, buf |-> r.buf, scan |-> r.scan]
  BY <1>1, <1>3
<1> QED
  BY <1>4 DEF n, d, r, first

(* A text in two parts. *)
LEMMA TwoParts ==
  ASSUME NEW b \in Text, NEW e \in 0..Len(b)
  PROVE  /\ SubSeq(b, 1, e) \in Text /\ Len(SubSeq(b, 1, e)) = e
         /\ \A k \in 1..e : SubSeq(b, 1, e)[k] = b[k]
         /\ From(b, e + 1) \in Text /\ Len(From(b, e + 1)) = Len(b) - e
         /\ \A k \in 1..Len(b) - e : From(b, e + 1)[k] = b[e + k]
         /\ SubSeq(b, 1, e) \o From(b, e + 1) = b
<1>1. Len(b) \in Nat
  BY Texts
<1>2. /\ SubSeq(b, 1, e) \in Text /\ Len(SubSeq(b, 1, e)) = e
      /\ \A k \in 1..e : SubSeq(b, 1, e)[k] = b[k]
  <2>1. 1 \in 1..Len(b) + 1 /\ e \in 1 - 1..Len(b)
    BY <1>1
  <2> QED
    BY <1>1, <2>1, Parts
<1>3. /\ From(b, e + 1) \in Text /\ Len(From(b, e + 1)) = Len(b) - e
      /\ \A k \in 1..Len(b) - e : From(b, e + 1)[k] = b[e + k]
  <2>1. e + 1 \in 1..Len(b) + 1 /\ Len(b) \in e + 1 - 1..Len(b)
    BY <1>1
  <2> QED
    BY <1>1, <2>1, Parts DEF From
<1>4. SubSeq(b, 1, e) \o SubSeq(b, e + 1, Len(b)) = SubSeq(b, 1, Len(b))
  <2>1. 1 \in 1..Len(b) + 1 /\ e \in 1 - 1..Len(b) /\ Len(b) \in e..Len(b)
    BY <1>1
  <2> QED
    BY <2>1, ConcatAdjacentSubSeq DEF Text
<1>5. SubSeq(b, 1, Len(b)) = b
  BY SubSeqFull DEF Text
<1> QED
  BY <1>2, <1>3, <1>4, <1>5, Zenon DEF From

(* What _drain returns and what it leaves add up to what it was given. *)
LEMMA DrainType ==
  ASSUME NEW b \in Text, NEW scan \in 0..Len(b), NEW final \in BOOLEAN
  PROVE  LET d == Drain[<<b, scan, final>>]
         IN  /\ d \in Drained /\ d.scan \in 0..Len(d.buf)
             /\ FlattenSeq(d.out) \o d.buf = b
<1> DEFINE Typed(d, c) == /\ d \in Drained /\ d.scan \in 0..Len(d.buf)
                          /\ FlattenSeq(d.out) \o d.buf = c
           S == {c \in Text : \A s \in 0..Len(c), f \in BOOLEAN : Typed(Drain[<<c, s, f>>], c)}
<1>1. ASSUME NEW c \in Text, \A x \in Text : Len(x) < Len(c) => x \in S,
             NEW s \in 0..Len(c), NEW f \in BOOLEAN
      PROVE  Typed(Drain[<<c, s, f>>], c)
  <2> DEFINE n == NextBoundary(c, s, f)
             rest == From(c, n.end + 1)
             first == SubSeq(c, 1, n.end)
             d == Drain[<<c, s, f>>]
             r == Drain[<<rest, 0, f>>]
  <2>1. s \in Nat /\ Len(c) \in Nat
    BY Texts
  <2>2. n.end \in 0..Len(c) /\ n.scan \in 0..Len(c)
    BY <2>1, BoundaryType
  <2>3. d = IF n.end = 0 THEN [out |-> <<>>, buf |-> c, scan |-> n.scan]
            ELSE [out |-> <<first>> \o r.out, buf |-> r.buf, scan |-> r.scan]
    BY <2>1, DrainIs DEF Rescan
  <2>4. first \in Text /\ rest \in Text /\ Len(rest) = Len(c) - n.end /\ first \o rest = c
    BY <2>2, TwoParts
  <2> HIDE DEF n, rest, first, d, r
  <2>5. CASE n.end = 0
    <3>1. d \in Drained /\ d.out = <<>> /\ d.buf = c /\ d.scan \in 0..Len(d.buf)
      BY <2>1, <2>2, <2>3, <2>5, EmptySeq DEF Drained
    <3>2. FlattenSeq(<<>>) = <<>> /\ <<>> \o c = c
      BY FlatType, EmptySeq, ConcatEmptySeq DEF Text
    <3> QED
      BY <3>1, <3>2 DEF d
  <2>6. CASE n.end # 0
    <3>1. Typed(r, rest)
      <4>1. rest \in S /\ 0 \in 0..Len(rest)
        <5>1. Len(rest) < Len(c) /\ 0 \in 0..Len(rest)
          BY <2>1, <2>2, <2>4, <2>6
        <5> HIDE DEF S
        <5> QED
          BY <1>1, <2>4, <5>1
      <4> HIDE DEF Typed
      <4> QED
        BY <4>1 DEF r
    <3>2. d.out = <<first>> \o r.out /\ d.buf = r.buf /\ d.scan = r.scan
      BY <2>3, <2>6
    <3>3. /\ r.out \in Seq(Text) /\ r.buf \in Text /\ r.scan \in 0..Len(r.buf)
          /\ FlattenSeq(r.out) \o r.buf = rest
      BY <3>1 DEF Drained
    <3>4. d.out \in Seq(Text) /\ FlattenSeq(d.out) = first \o FlattenSeq(r.out)
      <4>1. /\ <<first>> \o r.out \in Seq(Text)
            /\ FlattenSeq(<<first>> \o r.out) = first \o FlattenSeq(r.out)
        BY <2>4, <3>3, FlatFirst, Zenon
      <4> QED
        BY <3>2, <4>1, Zenon
    <3>5. FlattenSeq(d.out) \o d.buf = first \o (FlattenSeq(r.out) \o r.buf)
      <4> DEFINE x == FlattenSeq(r.out)
                 y == r.buf
      <4>1. x \in Text
        BY <3>3, FlatType
      <4>2. first \in Text /\ y \in Text
        BY <2>4, <3>3
      <4> HIDE DEF x, y
      <4>4. (first \o x) \o y = first \o (x \o y)
        BY ONLY <4>1, <4>2, JoinsAssociate, ZenonT(30)
      <4>3. (first \o FlattenSeq(r.out)) \o r.buf = first \o (FlattenSeq(r.out) \o r.buf)
        BY <4>4, Zenon DEF x, y
      <4> QED
        BY <3>2, <3>4, <4>3
    <3>6. d \in Drained
      <4>1. r.scan \in Nat
        BY <3>3, Texts
      <4> QED
        BY <2>3, <2>6, <3>2, <3>3, <3>4, <4>1 DEF Drained
    <3> QED
      BY <2>4, <3>2, <3>3, <3>5, <3>6 DEF d
  <2> QED
    BY <2>5, <2>6
<1>2. \A c \in Text : (\A x \in Text : Len(x) < Len(c) => x \in S) => c \in S
  <2> HIDE DEF Typed
  <2> QED
    BY <1>1
<1> HIDE DEF S
<1>3. b \in S
  BY <1>2, TextInduction
<1> QED
  BY <1>3 DEF S

-----------------------------------------------------------------------------
(* More text: what has been looked at stays as it was.                     *)

LEMMA BeforeKept ==
  ASSUME NEW b \in Text, NEW t \in Text, NEW i \in 1..Len(b)
  PROVE  SubSeq(b \o t, 1, i - 1) = SubSeq(b, 1, i - 1)
<1> DEFINE u == b \o t
           x == SubSeq(u, 1, i - 1)
           y == SubSeq(b, 1, i - 1)
<1>1. /\ u \in Text /\ Len(u) = Len(b) + Len(t) /\ Len(b) \in Nat /\ Len(t) \in Nat
      /\ \A k \in 1..Len(b) : u[k] = b[k]
  BY Joins, Texts
<1> HIDE DEF u
<1>2. x \in Text /\ Len(x) = i - 1 /\ \A k \in 1..i - 1 : x[k] = u[k]
  <2>1. i - 1 \in 0..Len(u)
    BY <1>1
  <2> QED
    BY <1>1, <2>1, TwoParts
<1>3. y \in Text /\ Len(y) = i - 1 /\ \A k \in 1..i - 1 : y[k] = b[k]
  <2>1. i - 1 \in 0..Len(b)
    BY <1>1
  <2> QED
    BY <2>1, TwoParts
<1> HIDE DEF x, y
<1>4. \A k \in 1..Len(x) : x[k] = y[k]
  BY <1>1, <1>2, <1>3
<1>5. x = y
  BY <1>2, <1>3, <1>4, SameText
<1> QED
  BY <1>5 DEF u, x, y

LEMMA RunKept ==
  ASSUME NEW b \in Text, NEW t \in Text, NEW i \in 1..Len(b), RunEnd(b, i) < Len(b)
  PROVE  RunEnd(b \o t, i) = RunEnd(b, i)
<1> DEFINE u == b \o t
           e == RunEnd(b, i)
<1>1. /\ u \in Text /\ Len(u) = Len(b) + Len(t) /\ Len(b) \in Nat /\ Len(t) \in Nat
      /\ \A k \in 1..Len(b) : u[k] = b[k]
  BY Joins, Texts
<1>2. /\ e \in i..Len(b) /\ \A k \in (i + 1)..e : b[k] \in Trailing
      /\ e < Len(b) /\ b[e + 1] \notin Trailing
  BY RunEndIs
<1> HIDE DEF u, e
<1>3. /\ i \in 1..Len(u) /\ e \in i..Len(u) /\ \A k \in (i + 1)..e : u[k] \in Trailing
      /\ u[e + 1] \notin Trailing
  BY <1>1, <1>2
<1> QED
  BY <1>1, <1>3, RunEndOnly DEF u, e

LEMMA EndKept ==
  ASSUME NEW b \in Text, NEW t \in Text, NEW i \in 1..Len(b), RunEnd(b, i) < Len(b)
  PROVE  EndsSentence(b \o t, i) <=> EndsSentence(b, i)
<1> DEFINE u == b \o t
           e == RunEnd(b, i)
<1>1. /\ Len(u) = Len(b) + Len(t) /\ Len(b) \in Nat /\ Len(t) \in Nat
      /\ \A k \in 1..Len(b) : u[k] = b[k]
  BY Joins, Texts
<1>2. e \in i..Len(b) /\ e < Len(b)
  BY RunEndIs
<1>3. RunEnd(u, i) = e /\ SubSeq(u, 1, i - 1) = SubSeq(b, 1, i - 1)
  BY RunKept, BeforeKept
<1> HIDE DEF u, e
<1>4. /\ u[i] = b[i] /\ u[e + 1] = b[e + 1] /\ \A k \in i..e : u[k] = b[k]
      /\ e < Len(u)
  <2>1. i \in 1..Len(b) /\ e + 1 \in 1..Len(b) /\ \A k \in i..e : k \in 1..Len(b)
    BY <1>1, <1>2
  <2>2. e < Len(u)
    BY <1>1, <1>2
  <2> QED
    BY <1>1, <2>1, <2>2
<1>5. EndsSentence(u, i) =
        LET before == SubSeq(b, 1, i - 1)
        IN /\ ~Blank(before)
           /\ \/ \E k \in i..e : b[k] \in CjkStops
              \/ /\ b[e + 1] \in Spaces
                 /\ b[i] = "dot" => /\ ~ListMarker(Strip(LastLine(Strip(before))))
                                    /\ Len(LastWord(Strip(before))) # 1
              \/ b[e + 1] = "cjk" /\ b[i] = "bang"
  BY <1>3, <1>4 DEF EndsSentence
<1>6. EndsSentence(b, i) =
        LET before == SubSeq(b, 1, i - 1)
        IN /\ ~Blank(before)
           /\ \/ \E k \in i..e : b[k] \in CjkStops
              \/ /\ b[e + 1] \in Spaces
                 /\ b[i] = "dot" => /\ ~ListMarker(Strip(LastLine(Strip(before))))
                                    /\ Len(LastWord(Strip(before))) # 1
              \/ b[e + 1] = "cjk" /\ b[i] = "bang"
  BY <1>2 DEF EndsSentence, e
<1> QED
  BY <1>5, <1>6 DEF u

(* A run is the same from every character in it on. *)
LEMMA RunsMeet ==
  ASSUME NEW b \in Text, NEW i \in 1..Len(b), NEW k \in i..RunEnd(b, i)
  PROVE  k \in 1..Len(b) /\ RunEnd(b, k) = RunEnd(b, i)
<1> DEFINE e == RunEnd(b, i)
<1>1. /\ e \in i..Len(b) /\ \A j \in (i + 1)..e : b[j] \in Trailing
      /\ e < Len(b) => b[e + 1] \notin Trailing
      /\ Len(b) \in Nat
  BY RunEndIs, Texts
<1> HIDE DEF e
<1>2. k \in 1..Len(b) /\ e \in k..Len(b) /\ \A j \in (k + 1)..e : b[j] \in Trailing
  BY <1>1 DEF e
<1> QED
  BY <1>1, <1>2, RunEndOnly DEF e

(* A terminator that is looked at is the head of a run, or in the run of one. *)
LEMMA HeadCovers ==
  ASSUME NEW b \in Text, NEW scan \in Nat, NEW k \in (scan + 1)..Len(b), b[k] \in Terminators
  PROVE  \E h \in Heads(b, scan + 1) :
           h \in 1..Len(b) /\ h <= k /\ k <= RunEnd(b, h) /\ RunEnd(b, k) = RunEnd(b, h)
<1> DEFINE T == {h \in (scan + 1)..k : b[h] \in Terminators /\ k <= RunEnd(b, h)}
<1>1. Len(b) \in Nat /\ k \in 1..Len(b)
  BY Texts
<1>2. k \in T /\ T \in SUBSET Nat
  <2>1. k <= RunEnd(b, k)
    BY <1>1, RunEndIs
  <2> QED
    BY <2>1
<1>3. PICK h \in T : \A j \in T : h <= j
  <2> HIDE DEF T
  <2> QED
    BY <1>2, MinIs
<1>4. h \in (scan + 1)..k /\ b[h] \in Terminators /\ k <= RunEnd(b, h) /\ h \in 1..Len(b)
  BY <1>1
<1>5. ASSUME NEW j \in (scan + 1)..Len(b), b[j] \in Terminators, j < h
      PROVE  RunEnd(b, j) < h
  <2> SUFFICES ASSUME ~(RunEnd(b, j) < h) PROVE FALSE
    OBVIOUS
  <2>1. j \in 1..Len(b) /\ RunEnd(b, j) \in j..Len(b)
    BY <1>1, RunEndIs
  <2>2. h \in j..RunEnd(b, j)
    BY <1>4, <1>5, <2>1
  <2>3. RunEnd(b, h) = RunEnd(b, j)
    BY <2>1, <2>2, RunsMeet
  <2>4. j \in T
    BY <1>4, <1>5, <2>3
  <2> HIDE DEF T
  <2> QED
    BY <1>3, <1>4, <1>5, <2>4
<1>6. h \in Heads(b, scan + 1)
  BY <1>1, <1>4, <1>5, HeadsAre
<1>7. RunEnd(b, k) = RunEnd(b, h)
  <2>1. k \in h..RunEnd(b, h)
    BY <1>4, RunEndIs
  <2> QED
    BY <1>4, <2>1, RunsMeet
<1> QED
  BY <1>4, <1>6, <1>7

LEMMA RunGrows ==
  ASSUME NEW b \in Text, NEW t \in Text, NEW i \in 1..Len(b)
  PROVE  RunEnd(b, i) <= RunEnd(b \o t, i)
<1> DEFINE u == b \o t
           e == RunEnd(b, i)
           m == RunEnd(u, i)
<1>1. /\ u \in Text /\ Len(u) = Len(b) + Len(t) /\ Len(b) \in Nat /\ Len(t) \in Nat
      /\ \A k \in 1..Len(b) : u[k] = b[k]
  BY Joins, Texts
<1>2. e \in i..Len(b) /\ \A k \in (i + 1)..e : b[k] \in Trailing
  BY RunEndIs
<1>3. i \in 1..Len(u)
  BY <1>1
<1>4. m \in i..Len(u) /\ (m < Len(u) => u[m + 1] \notin Trailing)
  BY <1>1, <1>3, RunEndIs
<1> HIDE DEF u, e, m
<1>5. ASSUME m < e PROVE FALSE
  <2>1. m + 1 \in (i + 1)..e /\ m + 1 \in 1..Len(b) /\ m < Len(u)
    BY <1>1, <1>2, <1>4, <1>5
  <2> QED
    BY <1>1, <1>2, <1>4, <2>1
<1> QED
  BY <1>2, <1>4, <1>5 DEF u, e, m

(* More text changes nothing before the end of the old one. *)
LEMMA HeadsKept ==
  ASSUME NEW b \in Text, NEW t \in Text, NEW scan \in Nat, NEW k \in 1..Len(b)
  PROVE  k \in Heads(b \o t, scan + 1) <=> k \in Heads(b, scan + 1)
<1> DEFINE u == b \o t
<1>1. /\ u \in Text /\ Len(u) = Len(b) + Len(t) /\ Len(b) \in Nat /\ Len(t) \in Nat
      /\ \A j \in 1..Len(b) : u[j] = b[j]
  BY Joins, Texts
<1>2. ASSUME NEW j \in 1..Len(b) PROVE RunEnd(u, j) < k <=> RunEnd(b, j) < k
  <2>1. RunEnd(b, j) \in Int /\ RunEnd(b, j) <= Len(b)
    BY RunEndIs
  <2>2. RunEnd(u, j) \in Int
    <3>1. j \in 1..Len(u)
      BY <1>1
    <3>2. RunEnd(u, j) \in j..Len(u)
      BY <1>1, <3>1, RunEndIs
    <3> HIDE DEF u
    <3> QED
      BY <3>2
  <2>3. RunEnd(b, j) <= RunEnd(u, j)
    BY RunGrows
  <2>4. RunEnd(b, j) < Len(b) => RunEnd(u, j) = RunEnd(b, j)
    BY RunKept
  <2> HIDE DEF u
  <2> QED
    BY <1>1, <2>1, <2>2, <2>3, <2>4
<1> HIDE DEF u
<1>3. u[k] = b[k] /\ (k \in (scan + 1)..Len(u) <=> k \in (scan + 1)..Len(b))
  BY <1>1
<1>4. (\A j \in (scan + 1)..Len(u) : u[j] \in Terminators /\ j < k => RunEnd(u, j) < k)
      <=> (\A j \in (scan + 1)..Len(b) : b[j] \in Terminators /\ j < k => RunEnd(b, j) < k)
  <2>1. ASSUME NEW j \in Nat, j < k
        PROVE  /\ j \in (scan + 1)..Len(u) <=> j \in (scan + 1)..Len(b)
               /\ j \in (scan + 1)..Len(b) => j \in 1..Len(b) /\ u[j] = b[j]
    BY <1>1, <2>1
  <2>2. \A j \in (scan + 1)..Len(u) : j \in Nat
    BY <1>1
  <2>3. \A j \in (scan + 1)..Len(b) : j \in Nat
    BY <1>1
  <2> QED
    BY <1>2, <2>1, <2>2, <2>3
<1> QED
  BY <1>1, <1>3, <1>4, HeadsAre DEF u

LEMMA WaitKept ==
  ASSUME NEW b \in Text, NEW t \in Text, NEW scan \in Nat, NEW final \in BOOLEAN,
         NEW k \in Ends(b, scan, FALSE), ~Waits(b, k, FALSE)
  PROVE  ~Waits(b \o t, k, final)
<1> DEFINE u == b \o t
<1>1. /\ Len(u) = Len(b) + Len(t) /\ Len(b) \in Nat /\ Len(t) \in Nat
      /\ k \in 1..Len(b) /\ u[k] = b[k]
  <2>1. Ends(b, scan, FALSE) \in SUBSET ((scan + 1)..Len(b)) /\ Len(b) \in Nat
    BY EndsAre, Texts
  <2>2. k \in (scan + 1)..Len(b)
    BY <2>1, Zenon
  <2>3. k \in 1..Len(b)
    BY <2>1, <2>2
  <2> QED
    BY <2>3, Joins, Texts
<1>2. CASE b[k] \notin Terminators
  BY <1>1, <1>2 DEF Waits
<1>3. CASE b[k] \in Terminators
  <2>1. RunEnd(b, k) # Len(b)
    BY <1>3 DEF Waits
  <2>2. RunEnd(b, k) \in k..Len(b)
    BY <1>1, RunEndIs
  <2>3. RunEnd(b, k) < Len(b)
    BY <1>1, <2>1, <2>2
  <2>4. RunEnd(u, k) = RunEnd(b, k)
    BY <1>1, <2>3, RunKept
  <2>5. RunEnd(u, k) # Len(u)
    BY <1>1, <2>2, <2>3, <2>4
  <2> QED
    BY <2>5 DEF Waits
<1> QED
  BY <1>2, <1>3

(* The scan stops where it stopped before, but where it had to wait. *)
LEMMA EndsKept ==
  ASSUME NEW b \in Text, NEW t \in Text, NEW scan \in Nat, NEW final \in BOOLEAN,
         NEW k \in 1..Len(b)
  PROVE  /\ k \in Ends(b \o t, scan, final) => k \in Ends(b, scan, FALSE)
         /\ k \in Ends(b, scan, FALSE) /\ ~Waits(b, k, FALSE) =>
              k \in Ends(b \o t, scan, final) /\ EndOf(b \o t, k) = EndOf(b, k)
<1> DEFINE u == b \o t
<1>1. /\ u \in Text /\ Len(u) = Len(b) + Len(t) /\ Len(b) \in Nat /\ Len(t) \in Nat
      /\ u[k] = b[k]
  BY Joins, Texts
<1>2. SubSeq(u, 1, k - 1) = SubSeq(b, 1, k - 1)
  BY BeforeKept
<1>3. k \in Heads(u, scan + 1) <=> k \in Heads(b, scan + 1)
  BY HeadsKept
<1>4. RunEnd(b, k) < Len(b) =>
        RunEnd(u, k) = RunEnd(b, k) /\ (EndsSentence(u, k) <=> EndsSentence(b, k))
  BY RunKept, EndKept
<1>5. RunEnd(b, k) \in 1..Len(b)
  BY <1>1, RunEndIs
<1>6. k \in Ends(u, scan, final) <=>
        \/ k \in (scan + 1)..Len(u) /\ u[k] = "newline" /\ ~Blank(SubSeq(u, 1, k - 1))
        \/ k \in Heads(u, scan + 1) /\ (Waits(u, k, final) \/ EndsSentence(u, k))
  BY DEF Ends
<1>7. k \in Ends(b, scan, FALSE) <=>
        \/ k \in (scan + 1)..Len(b) /\ b[k] = "newline" /\ ~Blank(SubSeq(b, 1, k - 1))
        \/ k \in Heads(b, scan + 1) /\ (Waits(b, k, FALSE) \/ EndsSentence(b, k))
  BY DEF Ends
<1>8. k \in Heads(b, scan + 1) => b[k] \in Terminators
  BY HeadsAre
<1>9. k \in (scan + 1)..Len(u) <=> k \in (scan + 1)..Len(b)
  BY <1>1
<1>10. RunEnd(b, k) = Len(b) \/ RunEnd(b, k) < Len(b)
  BY <1>1, <1>5
<1>11. RunEnd(b, k) < Len(b) => ~Waits(u, k, final) /\ ~Waits(b, k, FALSE)
  BY <1>1, <1>4, <1>5 DEF Waits
<1>12. RunEnd(b, k) = Len(b) /\ b[k] \in Terminators => Waits(b, k, FALSE)
  BY DEF Waits
<1>13. b[k] = "newline" => b[k] \notin Terminators
  BY DEF Terminators, CjkStops
<1>14. k \in Ends(u, scan, final) => k \in Ends(b, scan, FALSE)
  BY <1>1, <1>2, <1>3, <1>4, <1>6, <1>7, <1>8, <1>9, <1>10, <1>11, <1>12
<1>15. ASSUME k \in Ends(b, scan, FALSE), ~Waits(b, k, FALSE)
       PROVE  k \in Ends(u, scan, final) /\ EndOf(u, k) = EndOf(b, k)
  <2>1. k \in Ends(u, scan, final)
    BY <1>1, <1>2, <1>3, <1>4, <1>6, <1>7, <1>8, <1>9, <1>10, <1>11, <1>12, <1>15
  <2>2. b[k] # "newline" => RunEnd(u, k) = RunEnd(b, k)
    BY <1>4, <1>7, <1>8, <1>10, <1>12, <1>15
  <2> QED
    BY <1>1, <1>2, <2>1, <2>2 DEF EndOf
<1> QED
  BY <1>14, <1>15 DEF u

LEMMA EndStays ==
  ASSUME NEW b \in Text, NEW t \in Text, NEW scan \in Nat, NEW final \in BOOLEAN,
         NEW k \in 1..Len(b), k \in Ends(b, scan, FALSE), ~Waits(b, k, FALSE)
  PROVE  k \in Ends(b \o t, scan, final) /\ EndOf(b \o t, k) = EndOf(b, k)
BY EndsKept, ZenonT(60)

(* A sentence that was found stays the first one. *)
LEMMA FirstKept ==
  ASSUME NEW b \in Text, NEW t \in Text, NEW scan \in Nat, NEW final \in BOOLEAN,
         NextBoundary(b, scan, FALSE).end # 0
  PROVE  NextBoundary(b \o t, scan, final).end = NextBoundary(b, scan, FALSE).end
<1> DEFINE u == b \o t
           S == Ends(b, scan, FALSE)
           U == Ends(u, scan, final)
           n == NextBoundary(b, scan, FALSE)
           m == NextBoundary(u, scan, final)
<1>1. /\ u \in Text /\ Len(u) = Len(b) + Len(t) /\ Len(b) \in Nat /\ Len(t) \in Nat
  BY Joins, Texts
<1>2. S \in SUBSET ((scan + 1)..Len(b)) /\ U \in SUBSET ((scan + 1)..Len(u))
  BY <1>1, EndsAre
<1> HIDE DEF u, S, U, n, m
<1>3. S # {}
  BY BoundaryIs DEF n, S
<1>4. PICK i \in S : /\ \A j \in S : i <= j
                     /\ IF Waits(b, i, FALSE) THEN n.end = 0 /\ n.scan = i - 1
                        ELSE n.end = EndOf(b, i) /\ n.scan = 0
  BY <1>3, BoundaryIs DEF n, S
<1>5. i \in 1..Len(b)
  BY <1>1, <1>2
<1>6. ~Waits(b, i, FALSE) /\ n.end = EndOf(b, i)
  BY <1>4 DEF n
<1>7. i \in U /\ ~Waits(u, i, final) /\ EndOf(u, i) = EndOf(b, i)
  <2>1. i \in Ends(b, scan, FALSE)
    BY DEF S
  <2>2. ~Waits(b, i, FALSE)
    BY <1>6
  <2>3. ~Waits(u, i, final)
    BY <2>1, <2>2, WaitKept DEF u
  <2>4. i \in Ends(u, scan, final) /\ EndOf(u, i) = EndOf(b, i)
    BY <1>5, <2>1, <2>2, EndStays, Zenon DEF u
  <2> QED
    BY <2>3, <2>4 DEF U
<1>8. ASSUME NEW j \in U PROVE i <= j
  <2>1. CASE j \in 1..Len(b)
    <3>1. j \in S
      BY <2>1, EndsKept DEF u, S, U
    <3> QED
      BY <1>4, <3>1
  <2>2. CASE j \notin 1..Len(b)
    BY <1>1, <1>2, <1>5, <2>2
  <2> QED
    BY <2>1, <2>2
<1>9. PICK k \in U : /\ \A j \in U : k <= j
                     /\ IF Waits(u, k, final) THEN m.end = 0 /\ m.scan = k - 1
                        ELSE m.end = EndOf(u, k) /\ m.scan = 0
  <2>1. U # {}
    BY <1>7
  <2> QED
    BY <1>1, <2>1, BoundaryIs DEF m, U
<1>10. k = i
  <2>1. k <= i /\ i <= k /\ i \in Int /\ k \in Int
    BY <1>1, <1>2, <1>5, <1>7, <1>8, <1>9
  <2> QED
    BY <2>1
<1> QED
  BY <1>6, <1>7, <1>9, <1>10 DEF u, n, m

(* Without a sentence the scan stands before the run that may go on, or at *)
(* the end; the runs that begin up to there end before what follows.       *)
LEMMA NothingFound ==
  ASSUME NEW b \in Text, NEW scan \in Nat, scan <= Len(b),
         NextBoundary(b, scan, FALSE).end = 0
  PROVE  LET s == NextBoundary(b, scan, FALSE).scan
         IN  /\ s \in scan..Len(b)
             /\ \A j \in Ends(b, scan, FALSE) : s < j
             /\ \A j \in (scan + 1)..s :
                  b[j] \in Terminators => RunEnd(b, j) <= s /\ RunEnd(b, j) < Len(b)
<1> DEFINE S == Ends(b, scan, FALSE)
           n == NextBoundary(b, scan, FALSE)
<1>1. Len(b) \in Nat /\ S \in SUBSET ((scan + 1)..Len(b))
  BY EndsAre, Texts
<1> HIDE DEF S, n
<1>2. CASE S = {}
  <2>1. n.scan = Len(b)
    BY <1>2, BoundaryIs DEF n, S
  <2>2. ASSUME NEW j \in (scan + 1)..Len(b), b[j] \in Terminators
        PROVE  RunEnd(b, j) <= Len(b) /\ RunEnd(b, j) < Len(b)
    <3>1. PICK h \in Heads(b, scan + 1) : h \in 1..Len(b) /\ RunEnd(b, j) = RunEnd(b, h)
      BY <2>2, HeadCovers
    <3>2. ~Waits(b, h, FALSE)
      BY <1>2 DEF S, Ends
    <3>3. b[h] \in Terminators
      BY HeadsAre
    <3>4. RunEnd(b, h) # Len(b)
      BY <3>2, <3>3 DEF Waits
    <3>5. RunEnd(b, h) \in h..Len(b)
      BY <3>1, RunEndIs
    <3> QED
      BY <1>1, <3>1, <3>4, <3>5
  <2>3. n.scan \in scan..Len(b) /\ \A j \in S : n.scan < j
    BY <1>1, <1>2, <2>1
  <2>4. \A j \in (scan + 1)..n.scan :
          b[j] \in Terminators => RunEnd(b, j) <= n.scan /\ RunEnd(b, j) < Len(b)
    BY <2>1, <2>2
  <2> QED
    BY <2>3, <2>4 DEF n, S
<1>3. CASE S # {}
  <2>1. PICK i \in S : /\ \A j \in S : i <= j
                       /\ IF Waits(b, i, FALSE) THEN n.end = 0 /\ n.scan = i - 1
                          ELSE n.end = EndOf(b, i) /\ n.scan = 0
    BY <1>3, BoundaryIs DEF n, S
  <2>2. Waits(b, i, FALSE) /\ n.scan = i - 1
    <3>1. ~Waits(b, i, FALSE) => EndOf(b, i) \in 1..Len(b)
      <4>1. i \in Ends(b, scan, FALSE)
        BY DEF S
      <4> QED
        BY <4>1, EndOfType
    <3>2. n.end = 0
      BY DEF n
    <3>3. ~(0 \in 1..Len(b))
      BY <1>1
    <3>4. Waits(b, i, FALSE)
      BY <2>1, <3>1, <3>2, <3>3, Zenon
    <3> QED
      BY <2>1, <3>4, Zenon
  <2>3. b[i] \in Terminators /\ b[i] # "newline"
    BY <2>2 DEF Waits, Terminators, CjkStops
  <2>4. i \in Heads(b, scan + 1)
    BY <2>3 DEF S, Ends
  <2>5. i \in (scan + 1)..Len(b)
    BY <1>1
  <2>6. ASSUME NEW j \in (scan + 1)..n.scan, b[j] \in Terminators
        PROVE  RunEnd(b, j) <= n.scan /\ RunEnd(b, j) < Len(b)
    <3>1. j \in (scan + 1)..Len(b) /\ j < i /\ j \in 1..Len(b)
      BY <1>1, <2>2, <2>5
    <3>2. RunEnd(b, j) < i
      BY <2>4, <2>6, <3>1, HeadsAre
    <3>3. RunEnd(b, j) \in j..Len(b)
      BY <3>1, RunEndIs
    <3> QED
      BY <1>1, <2>2, <2>5, <3>2, <3>3
  <2>7. \A j \in S : n.scan < j
    BY <1>1, <2>1, <2>2
  <2>8. n.scan \in scan..Len(b)
    BY <1>1, <2>2, <2>5
  <2> QED
    BY <2>6, <2>7, <2>8 DEF n, S
<1> QED
  BY <1>2, <1>3

(* The scan may go on where it stopped. *)
LEMMA ScanOn ==
  ASSUME NEW b \in Text, NEW t \in Text, NEW scan \in Nat, scan <= Len(b),
         NEW final \in BOOLEAN, NextBoundary(b, scan, FALSE).end = 0
  PROVE  LET s == NextBoundary(b, scan, FALSE).scan
         IN  NextBoundary(b \o t, s, final) = NextBoundary(b \o t, scan, final)
<1> DEFINE u == b \o t
           s == NextBoundary(b, scan, FALSE).scan
           H(x) == Heads(u, x + 1)
           E(x) == Ends(u, x, final)
<1>1. /\ u \in Text /\ Len(u) = Len(b) + Len(t) /\ Len(b) \in Nat /\ Len(t) \in Nat
      /\ \A j \in 1..Len(b) : u[j] = b[j]
  BY Joins, Texts
<1>2. /\ s \in scan..Len(b)
      /\ \A j \in Ends(b, scan, FALSE) : s < j
      /\ \A j \in (scan + 1)..s :
           b[j] \in Terminators => RunEnd(b, j) <= s /\ RunEnd(b, j) < Len(b)
  BY NothingFound
<1> HIDE DEF s
<1>3. s \in Nat /\ scan <= s /\ s <= Len(b)
  BY <1>1, <1>2
<1>4. ASSUME NEW j \in (scan + 1)..s, u[j] \in Terminators
      PROVE  RunEnd(u, j) <= s
  <2>1. j \in 1..Len(b)
    BY <1>1, <1>3
  <2>2. b[j] \in Terminators
    BY <1>1, <1>4, <2>1
  <2> QED
    BY <1>2, <2>1, <2>2, RunKept
<1>5. ASSUME NEW k \in (s + 1)..Len(u) PROVE k \in H(scan) <=> k \in H(s)
  <2> DEFINE Clear(x) == \A j \in (x + 1)..Len(u) :
                           u[j] \in Terminators /\ j < k => RunEnd(u, j) < k
  <2>1. k \in (scan + 1)..Len(u)
    BY <1>1, <1>3
  <2>2. /\ k \in H(scan) <=> u[k] \in Terminators /\ Clear(scan)
        /\ k \in H(s) <=> u[k] \in Terminators /\ Clear(s)
    BY <1>1, <1>3, <2>1, HeadsAre
  <2>3. Clear(scan) => Clear(s)
    <3>1. \A j \in (s + 1)..Len(u) : j \in (scan + 1)..Len(u)
      BY <1>1, <1>3
    <3> QED
      BY <3>1
  <2>4. Clear(s) => Clear(scan)
    <3>1. ASSUME Clear(s), NEW j \in (scan + 1)..Len(u), u[j] \in Terminators, j < k
          PROVE  RunEnd(u, j) < k
      <4>1. CASE j \in (s + 1)..Len(u)
        BY <3>1, <4>1
      <4>2. CASE j \notin (s + 1)..Len(u)
        <5>1. j \in (scan + 1)..s /\ j \in 1..Len(u)
          BY <1>1, <1>3, <4>2
        <5>2. RunEnd(u, j) <= s /\ RunEnd(u, j) \in j..Len(u)
          BY <1>1, <1>4, <3>1, <5>1, RunEndIs
        <5> HIDE DEF u
        <5> QED
          BY <1>1, <1>3, <5>2
      <4> QED
        BY <4>1, <4>2
    <3> QED
      BY <3>1
  <2> QED
    BY <2>2, <2>3, <2>4
<1>6. ASSUME NEW k \in (s + 1)..Len(u) PROVE k \in E(scan) <=> k \in E(s)
  <2>1. k \in (scan + 1)..Len(u)
    BY <1>1, <1>3
  <2>2. \A x \in {scan, s} :
          k \in E(x) <=>
            \/ k \in (x + 1)..Len(u) /\ u[k] = "newline" /\ ~Blank(SubSeq(u, 1, k - 1))
            \/ k \in H(x) /\ (Waits(u, k, final) \/ EndsSentence(u, k))
    BY DEF Ends
  <2> HIDE DEF E, H
  <2> QED
    BY <1>5, <2>1, <2>2
<1>7. E(s) \in SUBSET ((s + 1)..Len(u)) /\ E(scan) \in SUBSET ((scan + 1)..Len(u))
  BY <1>1, <1>3, EndsAre
<1>8. ASSUME NEW k \in E(scan) PROVE k \in (s + 1)..Len(u)
  <2>1. k \in (scan + 1)..Len(u)
    BY <1>7
  <2>2. CASE k \in 1..Len(b)
    <3>1. k \in Ends(b, scan, FALSE)
      BY <2>2, EndsKept
    <3>2. s < k
      BY <1>2, <3>1
    <3> HIDE DEF u
    <3> QED
      BY <1>1, <1>3, <2>1, <3>2
  <2>3. CASE k \notin 1..Len(b)
    BY <1>1, <1>3, <2>1, <2>3
  <2> QED
    BY <2>2, <2>3
<1>9. E(s) = E(scan)
  <2> HIDE DEF E
  <2> QED
    BY <1>6, <1>7, <1>8
<1>10. NextBoundary(u, s, final) = NextBoundary(u, scan, final)
  BY <1>9, Zenon DEF NextBoundary, Ends
<1> QED
  BY <1>10 DEF s

LEMMA SameDrain ==
  ASSUME NEW b \in Text, NEW scan \in Nat, NEW s \in Nat, NEW final \in BOOLEAN,
         NextBoundary(b, s, final) = NextBoundary(b, scan, final)
  PROVE  Drain[<<b, s, final>>] = Drain[<<b, scan, final>>]
<1> DEFINE n == NextBoundary(b, scan, final)
           r == Drain[<<From(b, n.end + 1), Rescan(n.end), final>>]
           d == IF n.end = 0 THEN [out |-> <<>>, buf |-> b, scan |-> n.scan]
                ELSE [out |-> <<SubSeq(b, 1, n.end)>> \o r.out,
                      buf |-> r.buf, scan |-> r.scan]
<1>1. Drain[<<b, scan, final>>] = d
  BY DrainIs
<1>2. NextBoundary(b, s, final) = n
  OBVIOUS
<1>3. Drain[<<b, s, final>>] = d
  <2> DEFINE m == NextBoundary(b, s, final)
             q == Drain[<<From(b, m.end + 1), Rescan(m.end), final>>]
  <2>1. Drain[<<b, s, final>>] =
          IF m.end = 0 THEN [out |-> <<>>, buf |-> b, scan |-> m.scan]
          ELSE [out |-> <<SubSeq(b, 1, m.end)>> \o q.out,
                buf |-> q.buf, scan |-> q.scan]
    BY DrainIs
  <2> QED
    BY <1>2, <2>1, Zenon
<1> QED
  BY <1>1, <1>3

LEMMA RestKept ==
  ASSUME NEW b \in Text, NEW t \in Text, NEW e \in 0..Len(b)
  PROVE  /\ From(b \o t, e + 1) = From(b, e + 1) \o t
         /\ SubSeq(b \o t, 1, e) = SubSeq(b, 1, e)
<1> DEFINE u == b \o t
           x == From(u, e + 1)
           r == From(b, e + 1)
           y == r \o t
           p == SubSeq(u, 1, e)
           q == SubSeq(b, 1, e)
<1>1. /\ u \in Text /\ Len(u) = Len(b) + Len(t) /\ Len(b) \in Nat /\ Len(t) \in Nat
      /\ \A k \in 1..Len(b) : u[k] = b[k]
      /\ \A k \in 1..Len(t) : u[Len(b) + k] = t[k]
  BY Joins, Texts
<1> HIDE DEF u
<1>2. e \in 0..Len(u)
  BY <1>1
<1>3. /\ x \in Text /\ Len(x) = Len(u) - e /\ \A k \in 1..Len(u) - e : x[k] = u[e + k]
      /\ p \in Text /\ Len(p) = e /\ \A k \in 1..e : p[k] = u[k]
  BY <1>1, <1>2, TwoParts
<1>4. /\ r \in Text /\ Len(r) = Len(b) - e /\ \A k \in 1..Len(b) - e : r[k] = b[e + k]
      /\ q \in Text /\ Len(q) = e /\ \A k \in 1..e : q[k] = b[k]
  BY TwoParts
<1> HIDE DEF x, r, p, q
<1>5. /\ y \in Text /\ Len(y) = Len(r) + Len(t)
      /\ \A k \in 1..Len(r) : y[k] = r[k]
      /\ \A k \in 1..Len(t) : y[Len(r) + k] = t[k]
  BY <1>4, Joins
<1> HIDE DEF y
<1>6. Len(x) = Len(y)
  BY <1>1, <1>3, <1>4, <1>5
<1>7. ASSUME NEW k \in 1..Len(x) PROVE x[k] = y[k]
  <2>1. CASE k \in 1..Len(r)
    <3>1. k \in 1..Len(u) - e /\ k \in 1..Len(b) - e /\ e + k \in 1..Len(b)
      BY <1>1, <1>3, <1>4, <2>1
    <3> QED
      BY <1>1, <1>3, <1>4, <1>5, <2>1, <3>1
  <2>2. CASE k \notin 1..Len(r)
    <3> DEFINE j == k - Len(r)
    <3>1. j \in 1..Len(t) /\ k = Len(r) + j /\ e + k = Len(b) + j /\ k \in 1..Len(u) - e
      BY <1>1, <1>3, <1>4, <2>2
    <3> HIDE DEF j
    <3>2. x[k] = u[e + k] /\ u[e + k] = t[j] /\ y[k] = t[j]
      BY <1>1, <1>3, <1>5, <3>1
    <3> QED
      BY <3>2
  <2> QED
    BY <2>1, <2>2
<1>8. x = y
  BY <1>3, <1>5, <1>6, <1>7, SameText
<1>9. p = q
  <2>1. \A k \in 1..Len(p) : p[k] = q[k]
    BY <1>1, <1>3, <1>4
  <2> QED
    BY <1>3, <1>4, <2>1, SameText
<1> QED
  BY <1>8, <1>9 DEF u, x, y, r, p, q

(* Feeding in two parts: the second goes on where the first one stopped. *)
Grows(b, scan, t, final) ==
  LET d == Drain[<<b, scan, FALSE>>]
      e == Drain[<<d.buf \o t, d.scan, final>>]
      w == Drain[<<b \o t, scan, final>>]
  IN w.out = d.out \o e.out /\ w.buf = e.buf /\ w.scan = e.scan

LEMMA DrainGrows ==
  ASSUME NEW b \in Text, NEW t \in Text, NEW scan \in 0..Len(b), NEW final \in BOOLEAN
  PROVE  Grows(b, scan, t, final)
<1> DEFINE S == {c \in Text : \A s \in 0..Len(c) : Grows(c, s, t, final)}
<1>1. ASSUME NEW c \in Text, \A x \in Text : Len(x) < Len(c) => x \in S, NEW s \in 0..Len(c)
      PROVE  Grows(c, s, t, final)
  <2> DEFINE n == NextBoundary(c, s, FALSE)
             u == c \o t
             m == NextBoundary(u, s, final)
             rest == From(c, n.end + 1)
             first == SubSeq(c, 1, n.end)
             d == Drain[<<c, s, FALSE>>]
             r == Drain[<<rest, 0, FALSE>>]
             e == Drain[<<d.buf \o t, d.scan, final>>]
             w == Drain[<<u, s, final>>]
             v == Drain[<<rest \o t, 0, final>>]
             x == Drain[<<r.buf \o t, r.scan, final>>]
  <2>1. s \in Nat /\ Len(c) \in Nat /\ s <= Len(c) /\ FALSE \in BOOLEAN
    BY Texts
  <2>2. n.end \in 0..Len(c) /\ n.scan \in 0..Len(c) /\ n.scan \in Nat
    <3>1. n.end \in 0..Len(c) /\ n.scan \in 0..Len(c)
      BY <2>1, BoundaryType, Zenon
    <3> HIDE DEF n
    <3> QED
      BY <2>1, <3>1
  <2>3. d = IF n.end = 0 THEN [out |-> <<>>, buf |-> c, scan |-> n.scan]
            ELSE [out |-> <<first>> \o r.out, buf |-> r.buf, scan |-> r.scan]
    BY <2>1, DrainIs, Zenon DEF Rescan
  <2>4. u \in Text /\ Len(u) \in Nat /\ s \in 0..Len(u)
    <3>1. u \in Text /\ Len(u) = Len(c) + Len(t) /\ Len(t) \in Nat
      BY Joins, Texts
    <3> HIDE DEF u
    <3> QED
      BY <2>1, <3>1
  <2>5. w \in Drained
    BY <2>4, DrainType
  <2> USE DEF Drained
  <2>6. CASE n.end = 0
    <3>1. NextBoundary(u, n.scan, final) = m
      BY <2>1, <2>6, ScanOn
    <3>2. Drain[<<u, n.scan, final>>] = w
      <4> HIDE DEF n
      <4> QED
        BY <2>1, <2>2, <2>4, <3>1, SameDrain, Zenon
    <3>3. d.out = <<>> /\ d.buf = c /\ d.scan = n.scan
      <4> HIDE DEF d, n
      <4> QED
        BY <2>3, <2>6
    <3>4. e = w
      <4> HIDE DEF d, n, w
      <4> QED
        BY <3>2, <3>3
    <3>5. d.out \o e.out = w.out
      <4> HIDE DEF d, e, w
      <4> QED
        BY <2>5, <3>3, <3>4, ConcatEmptySeq
    <3> QED
      <4>1. w.out = d.out \o e.out /\ w.buf = e.buf /\ w.scan = e.scan
        BY <3>4, <3>5, Zenon
      <4> QED
        BY <4>1, Zenon DEF Grows
  <2>7. CASE n.end # 0
    <3>1. m.end = n.end
      BY <2>1, <2>7, FirstKept
    <3>2. From(u, n.end + 1) = rest \o t /\ SubSeq(u, 1, n.end) = first
      <4> HIDE DEF n
      <4> QED
        BY <2>2, RestKept
    <3>3. w = IF m.end = 0 THEN [out |-> <<>>, buf |-> u, scan |-> m.scan]
              ELSE [out |-> <<SubSeq(u, 1, m.end)>> \o
                              Drain[<<From(u, m.end + 1), Rescan(m.end), final>>].out,
                    buf |-> Drain[<<From(u, m.end + 1), Rescan(m.end), final>>].buf,
                    scan |-> Drain[<<From(u, m.end + 1), Rescan(m.end), final>>].scan]
      BY <2>1, <2>4, DrainIs, Zenon
    <3>4. w = [out |-> <<first>> \o v.out, buf |-> v.buf, scan |-> v.scan]
      <4> HIDE DEF n, m, w, u, rest, first
      <4> QED
        BY <2>7, <3>1, <3>2, <3>3, Zenon DEF Rescan
    <3>5. first \in Text /\ rest \in Text /\ Len(rest) = Len(c) - n.end
      <4> HIDE DEF n
      <4> QED
        BY <2>2, TwoParts
    <3>6. Grows(rest, 0, t, final)
      <4> HIDE DEF S, rest, n
      <4>1. Len(rest) < Len(c) /\ 0 \in 0..Len(rest)
        BY <2>1, <2>2, <2>7, <3>5
      <4>2. rest \in S
        BY <1>1, <3>5, <4>1
      <4> QED
        BY <4>1, <4>2 DEF S
    <3>7. v.out = r.out \o x.out /\ v.buf = x.buf /\ v.scan = x.scan
      BY <3>6, Zenon DEF Grows
    <3>8. d.out = <<first>> \o r.out /\ d.buf = r.buf /\ d.scan = r.scan
      <4> HIDE DEF d, n, first, r
      <4> QED
        BY <2>3, <2>7
    <3>9. x = e
      <4> HIDE DEF d, r
      <4> QED
        BY <3>8
    <3>10. r \in Drained /\ r.buf \o t \in Text /\ r.scan \in 0..Len(r.buf \o t)
      <4> HIDE DEF rest, r
      <4>1. 0 \in 0..Len(rest) /\ FALSE \in BOOLEAN
        <5>1. Len(rest) \in Nat
          BY <3>5, Texts
        <5> QED
          BY <5>1
      <4>2. r \in Drained /\ r.scan \in 0..Len(r.buf)
        BY <3>5, <4>1, DrainType DEF r
      <4>3. r.buf \o t \in Text /\ Len(r.buf \o t) = Len(r.buf) + Len(t)
        BY <4>2, Joins
      <4> QED
        BY <4>2, <4>3, Texts
    <3>11. x \in Drained
      <4> HIDE DEF r
      <4> QED
        BY <3>10, DrainType
    <3>12. <<first>> \o (r.out \o x.out) = (<<first>> \o r.out) \o x.out
      <4> HIDE DEF first, r, x
      <4>1. <<first>> \in Seq(Text)
        BY <3>5
      <4> QED
        <5>1. r.out \in Seq(Text) /\ x.out \in Seq(Text)
          BY <3>10, <3>11
        <5> HIDE DEF Drained
        <5> QED
          BY <4>1, <5>1, ListsAssociate, Zenon
    <3> HIDE DEF d, e, w, v, x, r, first
    <3>13. w.out = d.out \o e.out /\ w.buf = e.buf /\ w.scan = e.scan
      BY <3>4, <3>7, <3>8, <3>9, <3>12
    <3> QED
      BY <3>13, Zenon DEF Grows, d, e, w
  <2> QED
    BY <2>6, <2>7
<1>2. \A c \in Text : (\A x \in Text : Len(x) < Len(c) => x \in S) => c \in S
  BY <1>1
<1> HIDE DEF S
<1>3. b \in S
  BY <1>2, TextInduction
<1> QED
  BY <1>3 DEF S

-----------------------------------------------------------------------------
(* What is left in the buffer.                                             *)

Quiet(b) == NextBoundary(b, 0, FALSE).end = 0

(* The only place at which the scan may stop in it is a run to its end. *)
LEMMA QuietWaits ==
  ASSUME NEW b \in Text, Quiet(b), NEW i \in Ends(b, 0, FALSE)
  PROVE  i \in 1..Len(b) /\ b[i] \in Terminators /\ RunEnd(b, i) = Len(b)
<1> DEFINE S == Ends(b, 0, FALSE)
           n == NextBoundary(b, 0, FALSE)
<1>1. Len(b) \in Nat /\ S \in SUBSET (1..Len(b))
  <2>1. 0 \in Nat /\ FALSE \in BOOLEAN
    OBVIOUS
  <2>2. S \in SUBSET ((0 + 1)..Len(b))
    BY <2>1, EndsAre, Zenon
  <2> HIDE DEF S
  <2> QED
    BY <2>2, Texts
<1> HIDE DEF n, S
<1>2. PICK h \in S : /\ \A j \in S : h <= j
                     /\ IF Waits(b, h, FALSE) THEN n.end = 0 /\ n.scan = h - 1
                        ELSE n.end = EndOf(b, h) /\ n.scan = 0
  <2>1. S # {}
    BY DEF S
  <2> QED
    BY <2>1, BoundaryIs, Zenon DEF n, S
<1>3. Waits(b, h, FALSE)
  <2>1. ~Waits(b, h, FALSE) => EndOf(b, h) \in 1..Len(b)
    BY EndOfType, Zenon DEF S
  <2>2. n.end = 0
    BY DEF n, Quiet
  <2>3. 0 \notin 1..Len(b)
    BY <1>1
  <2> QED
    BY <1>2, <2>1, <2>2, <2>3, Zenon
<1>4. h \in 1..Len(b) /\ b[h] \in Terminators /\ RunEnd(b, h) = Len(b)
  BY <1>1, <1>3 DEF Waits
<1>5. i \in 1..Len(b) /\ h <= i
  BY <1>1, <1>2 DEF S
<1>6. b[i] # "newline"
  <2>1. CASE i = h
    BY <1>4, <2>1 DEF Terminators, CjkStops
  <2>2. CASE i # h
    <3>1. i \in (h + 1)..RunEnd(b, h)
      BY <1>1, <1>4, <1>5, <2>2
    <3>2. b[i] \in Trailing
      BY <1>4, <3>1, RunEndIs
    <3> QED
      BY <3>2 DEF Trailing, Terminators, CjkStops
  <2> QED
    BY <2>1, <2>2
<1>7. i \in Heads(b, 0 + 1)
  BY <1>6 DEF S, Ends
<1>8. b[i] \in Terminators /\ (h < i => RunEnd(b, h) < i)
  <2>1. h \in (0 + 1)..Len(b)
    BY <1>4
  <2> QED
    BY <1>4, <1>7, <2>1, HeadsAre
<1>9. i = h
  BY <1>1, <1>4, <1>5, <1>8
<1> QED
  BY <1>4, <1>9

LEMMA BlankQuiet ==
  ASSUME NEW b \in Text, Blank(b), NEW final \in BOOLEAN
  PROVE  NextBoundary(b, 0, final).end = 0
<1> DEFINE S == Ends(b, 0, final)
<1>1. Len(b) \in Nat /\ S \in SUBSET (1..Len(b))
  BY EndsAre, Texts
<1>2. ASSUME NEW i \in S PROVE FALSE
  <2>1. i \in 1..Len(b)
    BY <1>1
  <2>2. b[i] \in Spaces
    BY <2>1, Texts DEF Blank
  <2>3. b[i] \notin Terminators
    BY <2>2 DEF Spaces, Terminators, CjkStops
  <2>4. i \notin Heads(b, 0 + 1)
    BY <2>3, HeadsAre
  <2>5. ~Blank(SubSeq(b, 1, i - 1))
    BY <2>4 DEF Ends
  <2>6. i - 1 \in 0..Len(b)
    BY <1>1, <2>1
  <2> DEFINE p == SubSeq(b, 1, i - 1)
  <2>7. p \in Text /\ Len(p) = i - 1 /\ \A k \in 1..i - 1 : p[k] = b[k]
    BY <2>6, TwoParts
  <2>8. ASSUME NEW k \in DOMAIN p PROVE p[k] \in Spaces
    <3> HIDE DEF p
    <3>1. k \in 1..i - 1 /\ k \in 1..Len(b)
      BY <1>1, <2>1, <2>7, <2>8, Texts
    <3> QED
      BY <2>7, <3>1, Texts DEF Blank
  <2> QED
    BY <2>5, <2>8 DEF Blank
<1>3. S = {}
  BY <1>2
<1> QED
  BY <1>3, BoundaryIs

(* What _drain leaves is quiet, and the scan stands where that was seen. *)
LEMMA DrainStops ==
  ASSUME NEW b \in Text
  PROVE  LET d == Drain[<<b, 0, FALSE>>]
         IN  Quiet(d.buf) /\ d.scan = NextBoundary(d.buf, 0, FALSE).scan
<1> DEFINE Stops(d) == Quiet(d.buf) /\ d.scan = NextBoundary(d.buf, 0, FALSE).scan
           S == {c \in Text : Stops(Drain[<<c, 0, FALSE>>])}
<1>1. ASSUME NEW c \in Text, \A x \in Text : Len(x) < Len(c) => x \in S
      PROVE  Stops(Drain[<<c, 0, FALSE>>])
  <2> DEFINE n == NextBoundary(c, 0, FALSE)
             rest == From(c, n.end + 1)
             first == SubSeq(c, 1, n.end)
             d == Drain[<<c, 0, FALSE>>]
             r == Drain[<<rest, 0, FALSE>>]
  <2>1. Len(c) \in Nat /\ 0 \in Nat /\ FALSE \in BOOLEAN
    BY Texts
  <2>2. n.end \in 0..Len(c)
    BY <2>1, BoundaryType, Zenon
  <2>3. d = IF n.end = 0 THEN [out |-> <<>>, buf |-> c, scan |-> n.scan]
            ELSE [out |-> <<first>> \o r.out, buf |-> r.buf, scan |-> r.scan]
    BY <2>1, DrainIs, Zenon DEF Rescan
  <2>4. CASE n.end = 0
    <3>1. d.buf = c /\ d.scan = n.scan
      <4> HIDE DEF d, n
      <4> QED
        BY <2>3, <2>4
    <3> QED
      BY <2>4, <3>1, Zenon DEF Quiet
  <2>5. CASE n.end # 0
    <3>1. rest \in Text /\ Len(rest) = Len(c) - n.end
      <4> HIDE DEF n
      <4> QED
        BY <2>2, TwoParts
    <3>2. Len(rest) < Len(c)
      <4> HIDE DEF n, rest
      <4> QED
        BY <2>1, <2>2, <2>5, <3>1
    <3>3. Stops(r)
      <4>1. rest \in S
        <5> HIDE DEF rest, S
        <5> QED
          BY <1>1, <3>1, <3>2
      <4> HIDE DEF Stops, rest
      <4> QED
        BY <4>1
    <3>4. d.buf = r.buf /\ d.scan = r.scan
      <4> HIDE DEF d, n, r, first
      <4> QED
        BY <2>3, <2>5
    <3> QED
      BY <3>3, <3>4, Zenon
  <2> QED
    BY <2>4, <2>5
<1>2. \A c \in Text : (\A x \in Text : Len(x) < Len(c) => x \in S) => c \in S
  <2> HIDE DEF Stops
  <2> QED
    BY <1>1
<1> HIDE DEF S
<1>3. b \in S
  BY <1>2, TextInduction
<1> QED
  BY <1>3 DEF S

LEMMA RestOf ==
  ASSUME NEW s \in Text, NEW t \in Text
  PROVE  From(s \o t, Len(s) + 1) = t /\ SubSeq(s \o t, 1, Len(s)) = s
<1>1. Len(s) \in 0..Len(s) /\ Len(s) \in Nat
  BY Texts
<1>2. /\ From(s \o t, Len(s) + 1) = From(s, Len(s) + 1) \o t
      /\ SubSeq(s \o t, 1, Len(s)) = SubSeq(s, 1, Len(s))
  BY <1>1, RestKept
<1>3. From(s, Len(s) + 1) = <<>>
  <2> DEFINE x == From(s, Len(s) + 1)
  <2>1. x \in Text /\ Len(x) = Len(s) - Len(s)
    BY <1>1, TwoParts
  <2> HIDE DEF x
  <2>2. x = <<>>
    BY <1>1, <2>1, EmptySeq DEF Text
  <2> QED
    BY <2>2 DEF x
<1>4. <<>> \o t = t /\ SubSeq(s, 1, Len(s)) = s
  BY ConcatEmptySeq, SubSeqFull DEF Text
<1> QED
  BY <1>2, <1>3, <1>4

(* One sentence, and only spaces after it. *)
LEMMA CutOnce ==
  ASSUME NEW v \in Text, v # <<>>, NEW w \in Text, Blank(w), NEW final \in BOOLEAN,
         NextBoundary(v \o w, 0, final).end = Len(v)
  PROVE  /\ Drain[<<v \o w, 0, final>>].out = <<v>>
         /\ Drain[<<v \o w, 0, final>>].buf = w
<1> DEFINE u == v \o w
           n == NextBoundary(u, 0, final)
           d == Drain[<<u, 0, final>>]
           r == Drain[<<w, 0, final>>]
           m == NextBoundary(w, 0, final)
<1>1. Len(v) \in Nat /\ Len(v) # 0 /\ u \in Text
  BY Joins, Texts, EmptySeq
<1>2. From(u, Len(v) + 1) = w /\ SubSeq(u, 1, Len(v)) = v
  BY RestOf
<1>3. n.end = Len(v)
  OBVIOUS
<1>4. d = IF n.end = 0 THEN [out |-> <<>>, buf |-> u, scan |-> n.scan]
          ELSE [out |-> <<SubSeq(u, 1, n.end)>> \o Drain[<<From(u, n.end + 1), 0, final>>].out,
                buf |-> Drain[<<From(u, n.end + 1), 0, final>>].buf,
                scan |-> Drain[<<From(u, n.end + 1), 0, final>>].scan]
  BY <1>1, DrainIs, Zenon DEF Rescan
<1>5. d = [out |-> <<v>> \o r.out, buf |-> r.buf, scan |-> r.scan]
  <2> HIDE DEF n, d, r, u
  <2>1. d = [out |-> <<SubSeq(u, 1, n.end)>> \o Drain[<<From(u, n.end + 1), 0, final>>].out,
             buf |-> Drain[<<From(u, n.end + 1), 0, final>>].buf,
             scan |-> Drain[<<From(u, n.end + 1), 0, final>>].scan]
    BY <1>1, <1>3, <1>4, Zenon
  <2> QED
    BY <1>2, <1>3, <2>1, Zenon DEF r
<1>6. r.out = <<>> /\ r.buf = w
  <2>1. m.end = 0
    BY BlankQuiet
  <2>2. r = IF m.end = 0 THEN [out |-> <<>>, buf |-> w, scan |-> m.scan]
            ELSE [out |-> <<SubSeq(w, 1, m.end)>> \o Drain[<<From(w, m.end + 1), 0, final>>].out,
                  buf |-> Drain[<<From(w, m.end + 1), 0, final>>].buf,
                  scan |-> Drain[<<From(w, m.end + 1), 0, final>>].scan]
    BY DrainIs, Zenon DEF Rescan
  <2> HIDE DEF m, r
  <2> QED
    BY <2>1, <2>2
<1>7. <<v>> \o <<>> = <<v>>
  <2>1. <<v>> \in Seq(Text)
    OBVIOUS
  <2> QED
    BY <2>1, ConcatEmptySeq
<1> HIDE DEF d, r, u
<1>8. d.out = <<v>> /\ d.buf = w
  BY <1>5, <1>6, <1>7
<1> QED
  BY <1>8 DEF d, u

(* The end of the text: a quiet buffer is a last sentence, or stays. *)
LEMMA LastPart ==
  ASSUME NEW v \in Text, Quiet(v)
  PROVE  LET d == Drain[<<v, 0, TRUE>>]
         IN  /\ Drain[<<v, NextBoundary(v, 0, FALSE).scan, TRUE>>] = d
             /\ \/ d.out = <<>> /\ d.buf = v
                \/ v # <<>> /\ d.out = <<v>> /\ d.buf = <<>>
<1> DEFINE d == Drain[<<v, 0, TRUE>>]
           s == NextBoundary(v, 0, FALSE).scan
           n == NextBoundary(v, 0, TRUE)
           S == Ends(v, 0, TRUE)
<1>1. /\ <<>> \in Text /\ v \o <<>> = v /\ Len(v) \in Nat /\ 0 <= Len(v) /\ 0 \in Nat
      /\ FALSE \in BOOLEAN /\ TRUE \in BOOLEAN /\ Blank(<<>>)
  <2>1. <<>> \in Text /\ v \o <<>> = v
    BY EmptySeq, ConcatEmptySeq DEF Text
  <2>2. Len(v) \in Nat
    BY Texts
  <2>3. Blank(<<>>)
    BY DEF Blank
  <2> QED
    BY <2>1, <2>2, <2>3
<1>2. NextBoundary(v, s, TRUE) = n /\ s \in Nat
  <2>1. s \in 0..Len(v)
    BY <1>1, BoundaryType, Zenon
  <2>2. NextBoundary(v \o <<>>, s, TRUE) = NextBoundary(v \o <<>>, 0, TRUE)
    BY <1>1, ScanOn, Zenon DEF Quiet
  <2>3. NextBoundary(v, s, TRUE) = n
    <3> HIDE DEF s
    <3> QED
      BY <1>1, <2>2
  <2> HIDE DEF s
  <2>4. s \in Nat
    BY <1>1, <2>1
  <2> QED
    BY <2>3, <2>4
<1>3. Drain[<<v, s, TRUE>>] = d
  <2> HIDE DEF s
  <2> QED
    BY <1>1, <1>2, SameDrain
<1>4. ASSUME NEW i \in S PROVE EndOf(v, i) = Len(v) /\ ~Waits(v, i, TRUE)
  <2>1. i \in 1..Len(v)
    <3>1. S \in SUBSET ((0 + 1)..Len(v))
      BY <1>1, EndsAre
    <3> HIDE DEF S
    <3> QED
      BY <3>1
  <2>2. i \in Ends(v \o <<>>, 0, TRUE)
    BY <1>1
  <2>3. i \in Ends(v, 0, FALSE)
    BY <1>1, <2>1, <2>2, EndsKept, Zenon
  <2>4. v[i] \in Terminators /\ RunEnd(v, i) = Len(v)
    BY <2>3, QuietWaits, Zenon
  <2>5. v[i] # "newline"
    BY <2>4 DEF Terminators, CjkStops
  <2> QED
    BY <2>4, <2>5 DEF EndOf, Waits
<1>5. S # {} => n.end = Len(v)
  <2>1. ASSUME S # {}
        PROVE  \E i \in S : IF Waits(v, i, TRUE) THEN n.end = 0 ELSE n.end = EndOf(v, i)
    BY <1>1, <2>1, BoundaryIs
  <2> HIDE DEF S, n
  <2> QED
    BY <1>4, <2>1
<1>6. S = {} => n.end = 0
  BY <1>1, BoundaryIs
<1>7. CASE n.end = 0
  <2>1. d = IF n.end = 0 THEN [out |-> <<>>, buf |-> v, scan |-> n.scan]
            ELSE [out |-> <<SubSeq(v, 1, n.end)>> \o Drain[<<From(v, n.end + 1), 0, TRUE>>].out,
                  buf |-> Drain[<<From(v, n.end + 1), 0, TRUE>>].buf,
                  scan |-> Drain[<<From(v, n.end + 1), 0, TRUE>>].scan]
    BY <1>1, DrainIs, Zenon DEF Rescan
  <2>2. d.out = <<>> /\ d.buf = v
    <3> HIDE DEF n, d
    <3> QED
      BY <1>7, <2>1
  <2> QED
    BY <1>3, <2>2
<1>8. CASE n.end # 0
  <2>1. n.end = Len(v)
    <3> HIDE DEF n, S
    <3> QED
      BY <1>5, <1>6, <1>8
  <2>2. v # <<>>
    <3> HIDE DEF n
    <3> QED
      BY <1>8, <2>1, EmptySeq
  <2>3. NextBoundary(v \o <<>>, 0, TRUE).end = Len(v)
    BY <1>1, <2>1, Zenon
  <2>4. Drain[<<v \o <<>>, 0, TRUE>>].out = <<v>> /\ Drain[<<v \o <<>>, 0, TRUE>>].buf = <<>>
    BY <1>1, <2>2, <2>3, CutOnce, Zenon
  <2>5. d.out = <<v>> /\ d.buf = <<>>
    BY <1>1, <2>4, Zenon
  <2> QED
    BY <1>3, <2>2, <2>5
<1> QED
  BY <1>7, <1>8

InkLast(v) == v = <<>> \/ v[Len(v)] \notin Spaces

(* Spaces after a quiet buffer: they end its sentence, or none. *)
LEMMA QuietTail ==
  ASSUME NEW v \in Text, Quiet(v), InkLast(v), NEW w \in Text, Blank(w)
  PROVE  LET e == Drain[<<v \o w, NextBoundary(v, 0, FALSE).scan, FALSE>>]
         IN  e.out = <<>> \/ (v # <<>> /\ e.out = <<v>>)
<1> DEFINE u == v \o w
           s == NextBoundary(v, 0, FALSE).scan
           n == NextBoundary(u, 0, FALSE)
           d == Drain[<<u, 0, FALSE>>]
           e == Drain[<<u, s, FALSE>>]
           S == Ends(u, 0, FALSE)
<1>1. /\ Len(v) \in Nat /\ Len(w) \in Nat /\ 0 <= Len(v) /\ 0 \in Nat /\ FALSE \in BOOLEAN
      /\ u \in Text /\ Len(u) = Len(v) + Len(w)
      /\ \A k \in 1..Len(v) : u[k] = v[k]
      /\ \A k \in 1..Len(w) : u[Len(v) + k] = w[k]
  BY Joins, Texts
<1>2. ASSUME NEW k \in 1..Len(u), k > Len(v) PROVE u[k] \in Spaces
  <2> DEFINE j == k - Len(v)
  <2> HIDE DEF u
  <2>1. j \in 1..Len(w) /\ k = Len(v) + j
    BY <1>1, <1>2
  <2> HIDE DEF j
  <2>2. w[j] \in Spaces
    BY <2>1, Texts DEF Blank
  <2> QED
    BY <1>1, <2>1, <2>2
<1>3. e = d
  <2>1. NextBoundary(u, s, FALSE) = n
    BY <1>1, ScanOn, Zenon DEF Quiet
  <2>2. s \in 0..Len(v)
    BY <1>1, BoundaryType, Zenon
  <2>3. s \in Nat
    <3> HIDE DEF s
    <3> QED
      BY <1>1, <2>2
  <2> HIDE DEF s, u
  <2> QED
    BY <1>1, <2>1, <2>3, SameDrain, Zenon
<1>4. n.end = 0 \/ n.end = Len(v)
  <2>1. S \in SUBSET ((0 + 1)..Len(u))
    BY <1>1, EndsAre, Zenon
  <2>2. ASSUME S # {}
        PROVE  \E i \in S : IF Waits(u, i, FALSE) THEN n.end = 0 ELSE n.end = EndOf(u, i)
    BY <1>1, <2>2, BoundaryIs, Zenon
  <2>3. S = {} => n.end = 0
    BY <1>1, BoundaryIs, Zenon
  <2>4. ASSUME NEW i \in S PROVE EndOf(u, i) = Len(v)
    <3>1. i \in 1..Len(u)
      <4> HIDE DEF S
      <4> QED
        BY <2>1
    <3>2. CASE i <= Len(v)
      <4>1. i \in 1..Len(v)
        BY <1>1, <3>1, <3>2
      <4>2. i \in Ends(v, 0, FALSE)
        BY <1>1, <4>1, EndsKept, Zenon
      <4>3. v[i] \in Terminators /\ RunEnd(v, i) = Len(v)
        BY <4>2, QuietWaits, Zenon
      <4>4. \A k \in (i + 1)..Len(v) : v[k] \in Trailing
        BY <4>1, <4>3, RunEndIs
      <4>5. RunEnd(u, i) = Len(v)
        <5> HIDE DEF u
        <5>1. Len(v) \in i..Len(u) /\ \A k \in (i + 1)..Len(v) : k \in 1..Len(v)
          BY <1>1, <4>1
        <5>2. \A k \in (i + 1)..Len(v) : u[k] \in Trailing
          BY <1>1, <4>4, <5>1
        <5>3. ASSUME Len(v) < Len(u) PROVE u[Len(v) + 1] \notin Trailing
          <6>1. u[Len(v) + 1] \in Spaces
            <7>1. Len(v) + 1 \in 1..Len(u) /\ Len(v) + 1 > Len(v)
              BY <1>1, <5>3
            <7> QED
              BY <1>2, <7>1
          <6> QED
            BY <6>1 DEF Spaces, Trailing, Terminators, CjkStops
        <5> QED
          BY <1>1, <3>1, <5>1, <5>2, <5>3, RunEndOnly
      <4>6. u[i] # "newline"
        BY <1>1, <4>1, <4>3 DEF Terminators, CjkStops
      <4> QED
        BY <4>5, <4>6 DEF EndOf
    <3>3. CASE ~(i <= Len(v))
      <4>1. u[i] \in Spaces
        BY <1>1, <1>2, <3>1, <3>3
      <4>2. u[i] \notin Terminators
        BY <4>1 DEF Spaces, Terminators, CjkStops
      <4>3. i \notin Heads(u, 0 + 1)
        BY <1>1, <4>2, HeadsAre
      <4>4. u[i] = "newline" /\ ~Blank(SubSeq(u, 1, i - 1))
        BY <4>3 DEF Ends
      <4> DEFINE x == Len(RStrip(SubSeq(u, 1, i - 1)))
      <4>5. x \in 1..i - 1 /\ u[x] \notin Spaces /\ \A k \in (x + 1)..i - 1 : u[k] \in Spaces
        BY <1>1, <3>1, <4>4, LineEnds
      <4> HIDE DEF x, u
      <4>6. x <= Len(v)
        <5>1. x \in 1..Len(u)
          BY <1>1, <3>1, <4>5
        <5> QED
          BY <1>1, <1>2, <4>5, <5>1
      <4>7. ASSUME x < Len(v) PROVE FALSE
        <5>1. Len(v) \in (x + 1)..i - 1 /\ Len(v) \in 1..Len(v) /\ v # <<>>
          BY <1>1, <3>1, <3>3, <4>5, <4>7, EmptySeq
        <5>2. v[Len(v)] \in Spaces
          BY <1>1, <4>5, <5>1
        <5> QED
          BY <5>1, <5>2 DEF InkLast
      <4>8. x = Len(v)
        BY <1>1, <3>1, <4>5, <4>6, <4>7
      <4> QED
        BY <4>4, <4>8 DEF EndOf, x
    <3> QED
      BY <3>2, <3>3
  <2> HIDE DEF S, n, u
  <2> QED
    BY <2>2, <2>3, <2>4
<1>5. CASE n.end = 0
  <2>1. d = IF n.end = 0 THEN [out |-> <<>>, buf |-> u, scan |-> n.scan]
            ELSE [out |-> <<SubSeq(u, 1, n.end)>> \o Drain[<<From(u, n.end + 1), 0, FALSE>>].out,
                  buf |-> Drain[<<From(u, n.end + 1), 0, FALSE>>].buf,
                  scan |-> Drain[<<From(u, n.end + 1), 0, FALSE>>].scan]
    BY <1>1, DrainIs, Zenon DEF Rescan
  <2>2. d.out = <<>>
    <3> HIDE DEF n, d, u
    <3> QED
      BY <1>5, <2>1
  <2>3. e.out = <<>>
    <3> HIDE DEF d, e
    <3> QED
      BY <1>3, <2>2
  <2> QED
    BY <2>3, Zenon
<1>6. CASE n.end # 0
  <2>1. n.end = Len(v) /\ v # <<>>
    <3> HIDE DEF n
    <3> QED
      BY <1>4, <1>6, EmptySeq
  <2>2. d.out = <<v>>
    BY <1>1, <2>1, CutOnce, Zenon
  <2> QED
    BY <1>3, <2>1, <2>2, Zenon
<1> QED
  BY <1>5, <1>6

-----------------------------------------------------------------------------
(* A finished text.                                                        *)

LEMMA InkStrip ==
  ASSUME NEW v \in Text, v # <<>>, InkLast(v)
  PROVE  ~Blank(v) /\ RStrip(v) = v
<1> DEFINE m == Max(Ink(v))
<1>1. Len(v) \in 1..Len(v) /\ Len(v) \in Nat /\ v[Len(v)] \notin Spaces
  BY Texts DEF InkLast
<1>2. ~Blank(v)
  BY <1>1, Texts DEF Blank
<1>3. m \in 1..Len(v) /\ \A k \in 1..Len(v) : k > m => v[k] \in Spaces
  BY <1>2, InkIs
<1>4. m = Len(v)
  <2> HIDE DEF m
  <2> QED
    BY <1>1, <1>3
<1>5. SubSeq(v, 1, Len(v)) = v
  BY SubSeqFull DEF Text
<1>6. RStrip(v) = SubSeq(v, 1, m)
  BY <1>2 DEF RStrip
<1> QED
  BY <1>2, <1>4, <1>5, <1>6

LEMMA TailInk ==
  ASSUME NEW s \in Text, NEW t \in Text, InkLast(s \o t)
  PROVE  InkLast(t)
<1> DEFINE u == s \o t
<1>1. /\ u \in Text /\ Len(u) = Len(s) + Len(t) /\ Len(s) \in Nat /\ Len(t) \in Nat
      /\ \A k \in 1..Len(t) : u[Len(s) + k] = t[k]
  BY Joins, Texts
<1>2. ASSUME t # <<>> PROVE t[Len(t)] \notin Spaces
  <2>1. Len(t) \in 1..Len(t)
    BY <1>1, <1>2, Texts
  <2>2. u # <<>> /\ u[Len(u)] = t[Len(t)]
    <3> HIDE DEF u
    <3> QED
      BY <1>1, <2>1, Texts
  <2> QED
    BY <2>2 DEF InkLast
<1> QED
  BY <1>2 DEF InkLast

LEMMA OneMore ==
  ASSUME NEW r \in Seq(Text), NEW s \in Seq(Text), NEW x \in Text
  PROVE  /\ Append(r \o s, x) = r \o Append(s, x) /\ Append(s, x) \in Seq(Text)
         /\ r \o <<x>> = Append(r, x) /\ Append(r, x) \in Seq(Text)
         /\ Append(<<>>, x) = <<x>> /\ <<x>> \in Seq(Text)
         /\ r \o <<>> = r /\ <<>> \o r = r /\ <<>> \in Seq(Text)
<1> DEFINE A == Text
           y == <<x>>
<1>1. y \in Seq(A)
  OBVIOUS
<1>2. \A t \in Seq(A) : t \o y = Append(t, x) /\ Append(t, x) \in Seq(A)
  BY AppendIsConcat, AppendProperties
<1> HIDE DEF A, y
<1>3. r \in Seq(A) /\ s \in Seq(A)
  BY DEF A
<1>4. /\ <<>> \in Seq(A) /\ r \o <<>> = r /\ <<>> \o r = r /\ <<>> \o y = y
      /\ r \o s \in Seq(A) /\ r \o (s \o y) = (r \o s) \o y
  <2>1. <<>> \in Seq(A)
    BY EmptySeq, Zenon
  <2>2. r \o <<>> = r /\ <<>> \o r = r /\ <<>> \o y = y
    BY <1>1, <1>3, ConcatEmptySeq, Zenon
  <2>3. r \o s \in Seq(A)
    BY <1>3, ConcatProperties, Zenon
  <2>4. (r \o s) \o y = r \o (s \o y)
    BY <1>1, <1>3, ListsRegroup, Zenon DEF A
  <2> QED
    BY <2>1, <2>2, <2>3, <2>4, Zenon
<1>5. <<>> \o y = Append(<<>>, x) /\ (r \o s) \o y = Append(r \o s, x) /\ s \o y = Append(s, x)
  BY <1>2, <1>3, <1>4
<1>6. y = <<x>>
  BY DEF y
<1> QED
  BY <1>1, <1>2, <1>3, <1>4, <1>5, <1>6 DEF A

LEMMA LastJoins ==
  ASSUME NEW r \in Seq(Text), NEW s \in Seq(Text), NEW x \in Text
  PROVE  Append(r \o s, x) = r \o Append(s, x)
BY OneMore, ZenonT(30)

(* What flush makes of a buffer. *)
Flushed(v, scan) ==
  LET d == Drain[<<v, scan, TRUE>>]
  IN IF Blank(d.buf) THEN d.out ELSE Append(d.out, RStrip(d.buf))
Whole(u) == Flushed(u, 0)

LEMMA FlushIs ==
  ASSUME NEW sp
  PROVE  Flush(sp) = Flushed(sp.buf, sp.scan)
BY Zenon DEF Flush, Flushed

(* A quiet buffer is at most one sentence; without spaces at its end, it is *)
(* all of it.                                                              *)
LEMMA QuietFlush ==
  ASSUME NEW v \in Text, Quiet(v)
  PROVE  LET f == Flushed(v, NextBoundary(v, 0, FALSE).scan)
         IN  /\ f = Whole(v) /\ f \in Seq(Text) /\ Len(f) <= 1
             /\ InkLast(v) => f = IF v = <<>> THEN <<>> ELSE <<v>>
<1> DEFINE s == NextBoundary(v, 0, FALSE).scan
           d == Drain[<<v, 0, TRUE>>]
           f == Flushed(v, s)
<1>1. Drain[<<v, s, TRUE>>] = d
  BY LastPart, Zenon
<1>2. (d.out = <<>> /\ d.buf = v) \/ (v # <<>> /\ d.out = <<v>> /\ d.buf = <<>>)
  BY LastPart, Zenon
<1> HIDE DEF s, d
<1>3. f = IF Blank(d.buf) THEN d.out ELSE Append(d.out, RStrip(d.buf))
  BY <1>1 DEF Flushed
<1>4. f = Whole(v)
  BY <1>3, Zenon DEF Whole, Flushed, d
<1>5. Blank(<<>>) /\ <<>> \in Seq(Text) /\ Len(<<>>) = 0 /\ <<v>> \in Seq(Text) /\ Len(<<v>>) = 1
  BY EmptySeq DEF Blank
<1> HIDE DEF f
<1>6. ASSUME v # <<>>, d.out = <<v>>, d.buf = <<>> PROVE f = <<v>>
  BY <1>3, <1>5, <1>6
<1>7. ASSUME d.out = <<>>, d.buf = v
      PROVE  /\ f \in Seq(Text) /\ Len(f) <= 1
             /\ InkLast(v) => f = IF v = <<>> THEN <<>> ELSE <<v>>
  <2>1. CASE Blank(v)
    <3>1. f = <<>>
      BY <1>3, <1>7, <2>1
    <3>2. InkLast(v) => v = <<>>
      BY <2>1, InkStrip
    <3> QED
      BY <1>5, <3>1, <3>2
  <2>2. CASE ~Blank(v)
    <3> DEFINE x == RStrip(v)
    <3>1. x \in Text
      BY StripTypes
    <3>2. InkLast(v) => v # <<>> /\ x = v
      <4>1. v # <<>>
        BY <1>5, <2>2
      <4> QED
        BY <4>1, InkStrip
    <3> HIDE DEF x
    <3>3. f = Append(<<>>, x)
      BY <1>3, <1>7, <2>2 DEF x
    <3>4. f = <<x>> /\ <<x>> \in Seq(Text) /\ Len(<<x>>) = 1
      BY <1>5, <3>1, <3>3, OneMore
    <3> QED
      BY <3>2, <3>4
  <2> QED
    BY <2>1, <2>2
<1>8. /\ f \in Seq(Text) /\ Len(f) <= 1
      /\ InkLast(v) => f = IF v = <<>> THEN <<>> ELSE <<v>>
  <2>1. CASE d.out = <<>> /\ d.buf = v
    BY <1>7, <2>1
  <2>2. CASE v # <<>> /\ d.out = <<v>> /\ d.buf = <<>>
    <3>1. f = <<v>>
      BY <1>6, <2>2
    <3> DEFINE y == <<v>>
    <3>2. f = y /\ y \in Seq(Text) /\ Len(y) = 1
      BY <1>5, <3>1
    <3> HIDE DEF y
    <3>3. f \in Seq(Text) /\ Len(f) <= 1
      BY <3>2
    <3>4. f = IF v = <<>> THEN <<>> ELSE <<v>>
      BY <2>2, <3>1
    <3> QED
      BY <3>3, <3>4
  <2> QED
    BY <1>2, <2>1, <2>2
<1> QED
  BY <1>4, <1>8, Zenon DEF f, s

(* What is fed and then flushed is the finished text. *)
LEMMA WholeIs ==
  ASSUME NEW u \in Text
  PROVE  LET d == Drain[<<u, 0, FALSE>>]
         IN  /\ d \in Drained /\ FlattenSeq(d.out) \o d.buf = u /\ Quiet(d.buf)
             /\ d.scan = NextBoundary(d.buf, 0, FALSE).scan
             /\ Flushed(d.buf, d.scan) \in Seq(Text)
             /\ Len(Flushed(d.buf, d.scan)) <= 1
             /\ Flushed(d.buf, d.scan) = Whole(d.buf)
             /\ Whole(u) = d.out \o Flushed(d.buf, d.scan)
<1> DEFINE d == Drain[<<u, 0, FALSE>>]
           e == Drain[<<d.buf \o <<>>, d.scan, TRUE>>]
           w == Drain[<<u \o <<>>, 0, TRUE>>]
           f == Flushed(d.buf, d.scan)
<1>1. 0 \in 0..Len(u) /\ FALSE \in BOOLEAN /\ TRUE \in BOOLEAN /\ <<>> \in Text
  BY Texts, EmptySeq DEF Text
<1>2. d \in Drained /\ d.scan \in 0..Len(d.buf) /\ FlattenSeq(d.out) \o d.buf = u
  BY <1>1, DrainType, Zenon
<1>3. Quiet(d.buf) /\ d.scan = NextBoundary(d.buf, 0, FALSE).scan
  BY DrainStops, Zenon
<1>4. w.out = d.out \o e.out /\ w.buf = e.buf
  <2>1. Grows(u, 0, <<>>, TRUE)
    BY <1>1, DrainGrows
  <2> QED
    BY <2>1, Zenon DEF Grows
<1> HIDE DEF d
<1>5. d.out \in Seq(Text) /\ d.buf \in Text
  BY <1>2 DEF Drained
<1>6. u \o <<>> = u /\ d.buf \o <<>> = d.buf
  BY <1>5, ConcatEmptySeq DEF Text
<1>7. f \in Seq(Text) /\ Len(f) <= 1 /\ f = Whole(d.buf)
  BY <1>3, <1>5, QuietFlush, Zenon
<1>8. e \in Drained
  <2>1. d.buf \o <<>> \in Text /\ d.scan \in 0..Len(d.buf \o <<>>)
    BY <1>2, <1>5, <1>6
  <2> QED
    BY <1>1, <2>1, DrainType, Zenon
<1>9. f = IF Blank(e.buf) THEN e.out ELSE Append(e.out, RStrip(e.buf))
  BY <1>6 DEF Flushed
<1>10. Whole(u) = IF Blank(w.buf) THEN w.out ELSE Append(w.out, RStrip(w.buf))
  BY <1>6 DEF Whole, Flushed
<1>11. Whole(u) = d.out \o f
  <2>1. e.out \in Seq(Text) /\ RStrip(e.buf) \in Text
    BY <1>8, StripTypes DEF Drained
  <2> HIDE DEF e, w, f
  <2>2. Append(d.out \o e.out, RStrip(e.buf)) = d.out \o Append(e.out, RStrip(e.buf))
    <3> DEFINE a == d.out
               b == e.out
               x == RStrip(e.buf)
    <3>1. a \in Seq(Text) /\ b \in Seq(Text) /\ x \in Text
      BY <1>5, <2>1
    <3> HIDE DEF a, b, x
    <3>2. Append(a \o b, x) = a \o Append(b, x)
      BY <3>1, LastJoins
    <3> QED
      BY <3>2, Zenon DEF a, b, x
  <2>3. CASE Blank(e.buf)
    BY <1>4, <1>9, <1>10, <2>3
  <2>4. CASE ~Blank(e.buf)
    BY <1>4, <1>9, <1>10, <2>2, <2>4
  <2> QED
    BY <2>3, <2>4
<1> QED
  BY <1>2, <1>3, <1>7, <1>11, Zenon DEF d

(* What is fed in one piece and flushed is the finished text. *)
LEMMA FeedAllIs ==
  ASSUME NEW s \in Text
  PROVE  /\ FeedAll(NewSplitter(FALSE), s) = Whole(s)
         /\ FeedAll(NewSplitter(TRUE), s) = Whole(LStrip(s))
<1>1. \A u \in Text : <<>> \o u = u
  BY ConcatEmptySeq DEF Text
<1>2. ASSUME NEW sp, sp.buf = <<>>, sp.scan = 0, NEW u \in Text,
             u = IF sp.started THEN s ELSE LStrip(s), sp.started \/ u # <<>>
      PROVE  FeedAll(sp, s) = Whole(u)
  <2> DEFINE d == Drain[<<u, 0, FALSE>>]
             p == [buf |-> d.buf, scan |-> d.scan, started |-> TRUE]
  <2>1. Drain[<<sp.buf \o u, sp.scan, FALSE>>] = d
    BY <1>1, <1>2
  <2>2. Feed(sp, s) = [out |-> d.out, sp |-> p]
    BY <1>2, <2>1, Zenon DEF Feed
  <2>3. Feed(sp, s).out = d.out /\ Feed(sp, s).sp.buf = d.buf /\ Feed(sp, s).sp.scan = d.scan
    <3> HIDE DEF d
    <3> QED
      BY <2>2
  <2>4. Flush(Feed(sp, s).sp) = Flushed(d.buf, d.scan)
    <3> HIDE DEF d
    <3> QED
      BY <2>3, FlushIs
  <2>5. Whole(u) = d.out \o Flushed(d.buf, d.scan)
    BY WholeIs, Zenon
  <2> HIDE DEF d
  <2> QED
    BY <2>3, <2>4, <2>5 DEF FeedAll
<1> DEFINE n == NewSplitter(FALSE)
           m == NewSplitter(TRUE)
<1>3. /\ n.buf = <<>> /\ n.scan = 0 /\ n.started
      /\ m.buf = <<>> /\ m.scan = 0 /\ ~m.started
  BY DEF NewSplitter
<1>4. LStrip(s) \in Text
  BY StripTypes
<1>5. FeedAll(n, s) = Whole(s)
  <2> HIDE DEF n
  <2> QED
    BY <1>2, <1>3
<1>6. CASE LStrip(s) # <<>>
  <2>1. FeedAll(m, s) = Whole(LStrip(s))
    <3> HIDE DEF m
    <3> QED
      BY <1>2, <1>3, <1>4, <1>6
  <2> QED
    BY <1>5, <2>1
<1>7. CASE LStrip(s) = <<>>
  <2>1. Feed(m, s).out = <<>> /\ Feed(m, s).sp = m
    <3> HIDE DEF m
    <3> QED
      BY <1>3, <1>7 DEF Feed
  <2>2. Flush(Feed(m, s).sp) = Whole(LStrip(s))
    <3> HIDE DEF m
    <3> QED
      BY <1>3, <1>7, <2>1, FlushIs DEF Whole
  <2>3. <<>> \o Whole(LStrip(s)) = Whole(LStrip(s))
    <3>1. Whole(LStrip(s)) \in Seq(Text)
      <4> DEFINE x == LStrip(s)
      <4>1. Blank(x)
        BY <1>7 DEF Blank
      <4>2. NextBoundary(x, 0, FALSE).end = 0
        BY <1>4, <4>1, BlankQuiet
      <4> HIDE DEF x
      <4>3. Whole(x) \in Seq(Text)
        BY <1>4, <4>2, QuietFlush, Zenon DEF Quiet, x
      <4> QED
        BY <4>3 DEF x
    <3> QED
      BY <3>1, ConcatEmptySeq
  <2>4. FeedAll(m, s) = Whole(LStrip(s))
    <3> HIDE DEF m
    <3> QED
      BY <2>1, <2>2, <2>3 DEF FeedAll
  <2> QED
    BY <1>5, <2>4
<1> QED
  BY <1>6, <1>7

(* The sentences of a finished text add up to it. *)
LEMMA WholeAdds ==
  ASSUME NEW s \in Text
  PROVE  /\ Whole(s) \in Seq(Text)
         /\ InkLast(s) => FlattenSeq(Whole(s)) = s
<1> DEFINE d == Drain[<<s, 0, FALSE>>]
           v == d.buf
           f == Flushed(v, d.scan)
<1>1. /\ d \in Drained /\ FlattenSeq(d.out) \o v = s /\ Quiet(v)
      /\ d.scan = NextBoundary(v, 0, FALSE).scan
      /\ f \in Seq(Text) /\ Whole(s) = d.out \o f
  BY WholeIs, Zenon
<1> HIDE DEF d, f
<1>2. d.out \in Seq(Text) /\ v \in Text
  BY <1>1 DEF Drained
<1> HIDE DEF v
<1>3. Whole(s) \in Seq(Text)
  BY <1>1, <1>2, ListsAssociate
<1>4. ASSUME InkLast(s) PROVE FlattenSeq(Whole(s)) = s
  <2>1. InkLast(v)
    <3>1. FlattenSeq(d.out) \in Text
      BY <1>2, FlatType
    <3> QED
      BY <1>1, <1>2, <1>4, <3>1, TailInk
  <2>2. f = IF v = <<>> THEN <<>> ELSE <<v>>
    BY <1>1, <1>2, <2>1, QuietFlush, Zenon DEF f
  <2>3. CASE v = <<>>
    <3>1. Whole(s) = d.out
      <4>1. d.out \o <<>> = d.out
        BY <1>2, ConcatEmptySeq
      <4> QED
        BY <1>1, <2>2, <2>3, <4>1
    <3>2. FlattenSeq(d.out) \o <<>> = FlattenSeq(d.out)
      BY <1>2, FlatType, ConcatEmptySeq DEF Text
    <3> QED
      BY <1>1, <2>3, <3>1, <3>2
  <2>4. CASE v # <<>>
    <3>1. d.out \o <<v>> = Append(d.out, v)
      BY <1>2, OneMore
    <3>2. Whole(s) = Append(d.out, v)
      BY <1>1, <2>2, <2>4, <3>1
    <3>3. FlattenSeq(Append(d.out, v)) = FlattenSeq(d.out) \o v
      BY <1>2, FlatAppend
    <3> QED
      BY <1>1, <3>2, <3>3
  <2> QED
    BY <2>3, <2>4
<1> QED
  BY <1>3, <1>4

(* What has been sent of a text with spaces at its end is what begins the  *)
(* finished text without them, and the finished rest goes on from there.   *)
LEMMA WholeSplit ==
  ASSUME NEW u \in Text, InkLast(u), NEW w \in Text, Blank(w)
  PROVE  LET d == Drain[<<u \o w, 0, FALSE>>]
         IN  \E rest \in Text : /\ FlattenSeq(d.out) \o rest = u
                                /\ InkLast(rest)
                                /\ Whole(u) = d.out \o Whole(rest)
<1> DEFINE d == Drain[<<u, 0, FALSE>>]
           v == d.buf
           f == Flushed(v, d.scan)
           e == Drain[<<v \o w, d.scan, FALSE>>]
           D == Drain[<<u \o w, 0, FALSE>>]
           P(rest) == /\ FlattenSeq(D.out) \o rest = u /\ InkLast(rest)
                      /\ Whole(u) = D.out \o Whole(rest)
<1>1. /\ d \in Drained /\ FlattenSeq(d.out) \o v = u /\ Quiet(v)
      /\ d.scan = NextBoundary(v, 0, FALSE).scan
      /\ f \in Seq(Text) /\ f = Whole(v) /\ Whole(u) = d.out \o f
  BY WholeIs, Zenon
<1>2. D.out = d.out \o e.out
  <2>1. 0 \in 0..Len(u) /\ FALSE \in BOOLEAN
    BY Texts
  <2>2. Grows(u, 0, w, FALSE)
    BY <2>1, DrainGrows, Zenon
  <2> QED
    BY <2>2, Zenon DEF Grows
<1> HIDE DEF d, f, D
<1>3. d.out \in Seq(Text) /\ v \in Text
  BY <1>1 DEF Drained
<1> HIDE DEF v
<1>4. InkLast(v)
  <2>1. FlattenSeq(d.out) \in Text
    BY <1>3, FlatType
  <2> QED
    BY <1>1, <1>3, <2>1, TailInk
<1>5. e.out = <<>> \/ (v # <<>> /\ e.out = <<v>>)
  BY <1>1, <1>3, <1>4, QuietTail, Zenon
<1>6. f = IF v = <<>> THEN <<>> ELSE <<v>>
  BY <1>1, <1>3, <1>4, QuietFlush, Zenon DEF f
<1> HIDE DEF e
<1>7. d.out \o <<>> = d.out
  BY <1>3, ConcatEmptySeq
<1>8. CASE e.out = <<>>
  <2>1. D.out = d.out
    BY <1>2, <1>7, <1>8
  <2> QED
    BY <1>1, <1>3, <1>4, <2>1 DEF D
<1>9. CASE v # <<>> /\ e.out = <<v>>
  <2>1. D.out = Append(d.out, v) /\ Append(d.out, v) \in Seq(Text)
    BY <1>2, <1>3, <1>9, OneMore
  <2>2. FlattenSeq(D.out) = u
    BY <1>1, <1>3, <2>1, FlatAppend
  <2>3. FlattenSeq(D.out) \o <<>> = u /\ <<>> \in Text
    BY <2>2, EmptySeq, ConcatEmptySeq DEF Text
  <2>4. Whole(u) = D.out
    <3>1. f = e.out
      BY <1>6, <1>9
    <3> QED
      BY <1>1, <1>2, <3>1
  <2>5. Whole(<<>>) = <<>>
    <3>1. Whole(<<>>) \in Seq(Text) /\ InkLast(<<>>) /\ Blank(<<>>)
      BY <2>3, WholeAdds DEF InkLast, Blank
    <3>2. NextBoundary(<<>>, 0, FALSE).end = 0
      BY <2>3, <3>1, BlankQuiet
    <3>3. Quiet(<<>>)
      BY <3>2 DEF Quiet
    <3>4. Flushed(<<>>, NextBoundary(<<>>, 0, FALSE).scan) = Whole(<<>>)
      BY <2>3, <3>3, QuietFlush, Zenon
    <3>5. Flushed(<<>>, NextBoundary(<<>>, 0, FALSE).scan) = <<>>
      BY <2>3, <3>1, <3>3, QuietFlush, Zenon
    <3> QED
      BY <3>4, <3>5
  <2>6. D.out \o <<>> = D.out
    BY <2>1, ConcatEmptySeq
  <2>7. InkLast(<<>>)
    BY DEF InkLast
  <2> QED
    BY <2>3, <2>4, <2>5, <2>6, <2>7 DEF D
<1> QED
  BY <1>5, <1>8, <1>9

(* A stripped text begins and ends with ink. *)
LEMMA Stripped ==
  ASSUME NEW s \in Text
  PROVE  /\ Strip(s) \in Text /\ InkLast(Strip(s))
         /\ LStrip(Strip(s)) = Strip(s)
         /\ \E w \in Text : Blank(w) /\ LStrip(s) = Strip(s) \o w
<1> DEFINE r == RStrip(s)
           t == Strip(s)
           a == Min(Ink(s))
           m == Max(Ink(s))
           w == From(s, m + 1)
<1>1. t = LStrip(r) /\ r \in Text /\ t \in Text /\ Len(s) \in Nat
  BY StripTypes, Texts DEF Strip
<1>2. CASE Blank(s)
  <2>1. r = <<>> /\ LStrip(s) = <<>> /\ t = <<>>
    BY <1>1, <1>2, EmptyStrip DEF RStrip, LStrip
  <2>2. Blank(<<>>) /\ <<>> \in Text /\ <<>> \o <<>> = <<>> /\ InkLast(<<>>)
    BY EmptySeq, ConcatEmptySeq DEF Blank, Text, InkLast
  <2> HIDE DEF t, r
  <2> QED
    BY <2>1, <2>2, EmptyStrip DEF t
<1>3. CASE ~Blank(s)
  <2>1. m \in 1..Len(s) /\ s[m] \notin Spaces /\ \A k \in 1..Len(s) : k > m => s[k] \in Spaces
    BY <1>3, InkIs
  <2>2. r = SubSeq(s, 1, m)
    BY <1>3 DEF RStrip
  <2> HIDE DEF m, r, w
  <2>3. m \in 0..Len(s)
    BY <1>1, <2>1
  <2>4. /\ Len(r) = m /\ \A k \in 1..m : r[k] = s[k]
        /\ w \in Text /\ Len(w) = Len(s) - m /\ \A k \in 1..Len(s) - m : w[k] = s[m + k]
        /\ r \o w = s
    BY <2>2, <2>3, TwoParts DEF w
  <2>5. Blank(w)
    <3>1. ASSUME NEW k \in DOMAIN w PROVE w[k] \in Spaces
      <4>1. k \in 1..Len(s) - m /\ m + k \in 1..Len(s) /\ m + k > m
        BY <1>1, <2>1, <2>4, Texts
      <4> QED
        BY <2>1, <2>4, <4>1
    <3> QED
      BY <3>1 DEF Blank
  <2>6. r # <<>> /\ InkLast(r) /\ ~Blank(r)
    <3>1. m \in DOMAIN r /\ r[m] \notin Spaces /\ m # 0
      BY <1>1, <2>1, <2>4, Texts
    <3> QED
      BY <1>1, <2>4, <3>1, Texts DEF InkLast, Blank
  <2>7. LStrip(s) = t \o w
    BY <1>1, <2>4, <2>6, LStripJoins, Zenon
  <2>8. InkLast(t) /\ LStrip(t) = t
    <3> DEFINE i == Min(Ink(r))
               y == SubSeq(r, 1, i - 1)
    <3>1. i \in 1..Len(r) /\ r[i] \notin Spaces /\ \A k \in 1..Len(r) : k < i => r[k] \in Spaces
      BY <1>1, <2>6, InkIs
    <3>2. t = From(r, i)
      BY <1>1, <2>6 DEF LStrip, From
    <3> HIDE DEF i, y
    <3>3. i - 1 \in 0..Len(r) /\ (i - 1) + 1 = i /\ Len(r) \in Nat
      BY <1>1, <3>1, Texts
    <3>4. /\ y \in Text /\ Len(t) = Len(r) - (i - 1) /\ y \o t = r
          /\ \A k \in 1..Len(r) - (i - 1) : t[k] = r[i - 1 + k]
      BY <1>1, <3>2, <3>3, TwoParts, SMTT(20) DEF y
    <3>5. InkLast(t)
      <4> HIDE DEF t
      <4> QED
        BY <1>1, <2>6, <3>4, TailInk
    <3>6. 1 \in 1..Len(t) /\ t[1] \notin Spaces
      <4> HIDE DEF t
      <4>1. 1 \in 1..Len(r) - (i - 1) /\ i - 1 + 1 = i
        BY <3>1, <3>3
      <4> QED
        BY <3>1, <3>4, <4>1
    <3>7. ~Blank(t)
      <4> HIDE DEF t
      <4> QED
        BY <1>1, <3>6, Texts DEF Blank
    <3>8. LStrip(t) = t
      <4> DEFINE j == Min(Ink(t))
      <4>1. j \in 1..Len(t) /\ \A k \in 1..Len(t) : k < j => t[k] \in Spaces
        BY <1>1, <3>7, InkIs
      <4>2. LStrip(t) = SubSeq(t, j, Len(t))
        BY <3>7 DEF LStrip
      <4> HIDE DEF j, t
      <4>3. j = 1
        BY <3>6, <4>1
      <4>4. SubSeq(t, 1, Len(t)) = t
        BY <1>1, SubSeqFull DEF Text
      <4> QED
        BY <4>2, <4>3, <4>4
    <3> QED
      BY <3>5, <3>8
  <2> QED
    BY <1>1, <2>4, <2>5, <2>7, <2>8
<1> QED
  BY <1>2, <1>3

-----------------------------------------------------------------------------
(* ReplyStream.                                                            *)

(* A sequence is a prefix of what it is the beginning of. *)
LEMMA Begins ==
  ASSUME NEW r \in Seq(Text), NEW s \in Seq(Text)
  PROVE  IsPrefix(r, r \o s) /\ Len(r \o s) = Len(r) + Len(s)
<1> DEFINE A == Text
           u == r \o s
<1> HIDE DEF A
<1>1. r \in Seq(A) /\ s \in Seq(A)
  BY DEF A
<1>2. /\ u \in Seq(A) /\ Len(u) = Len(r) + Len(s) /\ Len(r) \in Nat /\ Len(s) \in Nat
      /\ \A k \in 1..Len(r) : u[k] = r[k]
  <2>1. /\ u \in Seq(A) /\ Len(u) = Len(r) + Len(s) /\ Len(r) \in Nat /\ Len(s) \in Nat
        /\ \A k \in 1..Len(r) + Len(s) : u[k] = IF k <= Len(r) THEN r[k] ELSE s[k - Len(r)]
    BY <1>1, ConcatProperties, LenProperties
  <2> HIDE DEF u
  <2>2. \A k \in 1..Len(r) : k \in 1..Len(r) + Len(s) /\ k <= Len(r)
    BY <2>1
  <2> QED
    BY <2>1, <2>2
<1> HIDE DEF u
<1>3. SubSeq(r, 1, Len(r)) = SubSeq(u, 1, Len(r))
  BY <1>1, <1>2
<1>4. Len(r) <= Len(u)
  BY <1>2
<1> QED
  BY <1>2, <1>3, <1>4, Zenon DEF IsPrefix, u

(* What the splitter has made of what the attempt has written. *)
Spoken == Drain[<<LStrip(text), 0, FALSE>>]

SplitInv ==
  /\ text \in Text
  /\ mode # "released" => sent = <<>> /\ splitter = NewSplitter(TRUE)
  /\ mode = "released" => /\ ~Blank(text) /\ splitter.started
                          /\ splitter.buf = Spoken.buf /\ splitter.scan = Spoken.scan
                          /\ sent = Spoken.out
  /\ AnswerAddsUp
  /\ answer.streamed => answer.sentences = Split(answer.reply)

LEMMA SpokenIs ==
  ASSUME SplitInv
  PROVE  /\ LStrip(text) \in Text /\ Spoken \in Drained /\ Spoken.scan \in Nat
         /\ sent \in Seq(Text)
<1>1. LStrip(text) \in Text
  BY StripTypes DEF SplitInv
<1>2. 0 \in 0..Len(LStrip(text)) /\ FALSE \in BOOLEAN
  BY <1>1, Texts
<1>3. Spoken \in Drained
  BY <1>1, <1>2, DrainType, Zenon DEF Spoken
<1>4. Spoken.out \in Seq(Text) /\ <<>> \in Seq(Text) /\ Spoken.scan \in Nat
  BY <1>3, EmptySeq DEF Drained
<1> QED
  BY <1>1, <1>3, <1>4 DEF SplitInv

(* A finished text adds at most one sentence to those that were sent. *)
LEMMA SplitIs ==
  ASSUME SplitInv
  PROVE  \E f \in Seq(Text) : /\ Split(text) = sent \o f
                              /\ mode = "released" => Len(f) <= 1
<1>1. text \in Text /\ LStrip(text) \in Text
  BY SpokenIs DEF SplitInv
<1>2. Split(text) = Whole(LStrip(text))
  BY <1>1, FeedAllIs DEF Split
<1>3. CASE mode = "released"
  <2> DEFINE d == Drain[<<LStrip(text), 0, FALSE>>]
             f == Flushed(d.buf, d.scan)
  <2>1. f \in Seq(Text) /\ Len(f) <= 1 /\ Whole(LStrip(text)) = d.out \o f
    BY <1>1, WholeIs, Zenon
  <2>2. sent = d.out
    BY <1>3 DEF SplitInv, Spoken
  <2> HIDE DEF d, f
  <2> QED
    BY <1>2, <2>1, <2>2
<1>4. CASE mode # "released"
  <2>1. Whole(LStrip(text)) \in Seq(Text)
    BY <1>1, WholeAdds
  <2>2. sent = <<>>
    BY <1>4 DEF SplitInv
  <2>3. <<>> \o Whole(LStrip(text)) = Whole(LStrip(text))
    BY <2>1, ConcatEmptySeq
  <2> QED
    BY <1>2, <1>4, <2>1, <2>2, <2>3
<1> QED
  BY <1>3, <1>4

(* What finish makes of a reply, whatever was streamed before. *)
LEMMA FinishIs ==
  ASSUME SplitInv, NEW reply \in {Strip(text)} \cup Unstreamed, reply # <<>>
  PROVE  LET kept == Kept(reply)
             rest == From(reply, Len(FlattenSeq(kept)) + 1)
             whole == kept \o FeedAll(NewSplitter(kept = <<>>), rest)
         IN  /\ FlattenSeq(whole) = reply
             /\ reply = Strip(text) => whole = Split(reply)
<1> DEFINE kept == Kept(reply)
           rest == From(reply, Len(FlattenSeq(kept)) + 1)
           whole == kept \o FeedAll(NewSplitter(kept = <<>>), rest)
           p == FlattenSeq(sent)
<1>1. text \in Text /\ sent \in Seq(Text) /\ p \in Text /\ LStrip(text) \in Text
  BY SpokenIs, FlatType DEF SplitInv
<1>2. reply \in Text /\ InkLast(reply) /\ LStrip(reply) = reply
  <2>1. reply = Strip(text) \/ (reply \in Text /\ reply = Strip(reply))
    BY ReplyStreamAssumption
  <2> QED
    BY <1>1, <2>1, Stripped
<1>3. Split(reply) = Whole(reply)
  BY <1>2, FeedAllIs DEF Split
<1>4. kept = IF IsPrefix(p, reply) THEN sent ELSE <<>>
  BY DEF Kept
<1> HIDE DEF kept, p
<1>5. CASE kept = <<>>
  <2>1. rest = reply
    <3>1. FlattenSeq(kept) = <<>> /\ Len(<<>>) + 1 = 1
      BY <1>1, <1>5, FlatType, EmptySeq
    <3>2. SubSeq(reply, 1, Len(reply)) = reply
      BY <1>2, SubSeqFull DEF Text
    <3> QED
      BY <3>1, <3>2 DEF From
  <2> HIDE DEF rest
  <2>2. FeedAll(NewSplitter(kept = <<>>), rest) = Whole(reply)
    <3>1. (kept = <<>>) = TRUE
      BY <1>5
    <3>2. FeedAll(NewSplitter(TRUE), rest) = Whole(reply)
      BY <1>2, <2>1, FeedAllIs
    <3> QED
      BY <3>1, <3>2
  <2>3. Whole(reply) \in Seq(Text) /\ FlattenSeq(Whole(reply)) = reply
    BY <1>2, WholeAdds
  <2>4. whole = Whole(reply)
    <3>1. <<>> \o Whole(reply) = Whole(reply)
      BY <2>3, ConcatEmptySeq
    <3> QED
      BY <1>5, <2>2, <3>1
  <2> QED
    BY <1>3, <2>3, <2>4 DEF rest, kept
<1>6. CASE kept # <<>>
  <2>1. kept = sent /\ IsPrefix(p, reply)
    BY <1>4, <1>6
  <2>2. Len(p) \in 0..Len(reply) /\ SubSeq(reply, 1, Len(p)) = p
    <3>1. Len(p) <= Len(reply) /\ SubSeq(p, 1, Len(p)) = SubSeq(reply, 1, Len(p))
      BY <2>1 DEF IsPrefix
    <3>2. SubSeq(p, 1, Len(p)) = p
      BY <1>1, SubSeqFull DEF Text
    <3> QED
      BY <1>1, <1>2, <3>1, <3>2, Texts
  <2>3. rest = From(reply, Len(p) + 1)
    BY <2>1 DEF p
  <2> HIDE DEF rest
  <2>4. rest \in Text /\ p \o rest = reply
    BY <1>2, <2>2, <2>3, TwoParts
  <2>5. InkLast(rest)
    BY <1>1, <1>2, <2>4, TailInk
  <2>6. FeedAll(NewSplitter(kept = <<>>), rest) = Whole(rest)
    <3>1. (kept = <<>>) = FALSE
      BY <1>6
    <3>2. FeedAll(NewSplitter(FALSE), rest) = Whole(rest)
      BY <2>4, FeedAllIs
    <3> QED
      BY <3>1, <3>2
  <2>7. whole = sent \o Whole(rest)
    BY <2>1, <2>6
  <2>8. FlattenSeq(whole) = reply
    <3>1. Whole(rest) \in Seq(Text) /\ FlattenSeq(Whole(rest)) = rest
      BY <2>4, <2>5, WholeAdds
    <3>2. FlattenSeq(sent \o Whole(rest)) = p \o rest
      BY <1>1, <3>1, FlatConcat DEF p
    <3> QED
      BY <2>4, <2>7, <3>2
  <2>9. ASSUME reply = Strip(text) PROVE whole = Split(reply)
    <3>1. PICK w \in Text : Blank(w) /\ LStrip(text) = reply \o w
      BY <1>1, <2>9, Stripped
    <3>2. mode = "released"
      BY <1>6, <2>1 DEF SplitInv
    <3>3. sent = Drain[<<reply \o w, 0, FALSE>>].out
      BY <3>1, <3>2 DEF SplitInv, Spoken
    <3>4. PICK r \in Text : p \o r = reply /\ Whole(reply) = sent \o Whole(r)
      <4> DEFINE d == Drain[<<reply \o w, 0, FALSE>>]
      <4>1. \E r \in Text : /\ FlattenSeq(d.out) \o r = reply
                            /\ InkLast(r)
                            /\ Whole(reply) = d.out \o Whole(r)
        <5>1. reply \in Text /\ InkLast(reply)
          BY <1>2
        <5> QED
          BY <3>1, <5>1, WholeSplit, Zenon
      <4>2. sent = d.out /\ p = FlattenSeq(sent)
        BY <3>3 DEF p
      <4> HIDE DEF d, p
      <4> QED
        BY <4>1, <4>2, Zenon
    <3>5. r = rest
      BY <1>1, <2>3, <3>4, RestOf
    <3> QED
      BY <1>3, <2>7, <3>4, <3>5
  <2> HIDE DEF whole
  <2>10. FlattenSeq(whole) = reply /\ (reply = Strip(text) => whole = Split(reply))
    BY <2>8, <2>9
  <2> QED
    BY <2>10, Zenon DEF whole, rest, kept
<1> QED
  BY <1>5, <1>6

LEMMA SplitFresh ==
  ASSUME Fresh, AnswerAddsUp', (answer.streamed => answer.sentences = Split(answer.reply))'
  PROVE  SplitInv'
<1>1. <<>> \in Text
  BY EmptyStrip
<1> QED
  BY <1>1 DEF Fresh, SplitInv

(* A delta: the splitter goes on where it stopped. *)
LEMMA SplitDelta ==
  ASSUME SplitInv, NEW delta \in Deltas, TextDelta(delta)
  PROVE  SplitInv'
<1> DEFINE whole == text \o delta
           head == LStrip(whole)
<1>1. /\ text \in Text /\ delta \in Text /\ whole \in Text /\ text' = whole
      /\ head \in Text /\ LStrip(text) \in Text
      /\ UNCHANGED answer /\ sent \in Seq(Text) /\ Spoken \in Drained
  BY DeltaType, Joins, StripTypes, SpokenIs DEF SplitInv, TextDelta
<1>2. /\ AnswerAddsUp'
      /\ (answer.streamed => answer.sentences = Split(answer.reply))'
  BY <1>1 DEF SplitInv, AnswerAddsUp
<1>3. CASE mode = "released"
  <2> DEFINE new == splitter.buf \o delta
             d == Drain[<<new, splitter.scan, FALSE>>]
             w == Drain[<<LStrip(text) \o delta, 0, FALSE>>]
  <2>1. mode' = "released" /\ Send(Feed(splitter, delta))
    BY <1>3 DEF TextDelta
  <2>2. /\ ~Blank(text) /\ splitter.started
        /\ splitter.buf = Spoken.buf /\ splitter.scan = Spoken.scan /\ sent = Spoken.out
    BY <1>3 DEF SplitInv
  <2>3. ~Blank(text') /\ LStrip(text') = LStrip(text) \o delta
    BY <1>1, <2>2, LStripJoins
  <2>4. w.out = sent \o d.out /\ w.buf = d.buf /\ w.scan = d.scan
    <3>1. 0 \in 0..Len(LStrip(text)) /\ FALSE \in BOOLEAN
      BY <1>1, Texts
    <3>2. Grows(LStrip(text), 0, delta, FALSE)
      BY <1>1, <3>1, DrainGrows, Zenon
    <3> QED
      BY <2>2, <3>2, Zenon DEF Grows, Spoken
  <2>5. Feed(splitter, delta) =
          [out |-> d.out, sp |-> [buf |-> d.buf, scan |-> d.scan, started |-> TRUE]]
    BY <2>2, Zenon DEF Feed
  <2> HIDE DEF d
  <2>6. /\ sent' = sent \o d.out /\ splitter'.buf = d.buf /\ splitter'.scan = d.scan
        /\ splitter'.started
    BY <2>1, <2>5 DEF Send
  <2>7. Spoken' = w
    BY <2>3 DEF Spoken
  <2> HIDE DEF w
  <2>8. /\ sent' = Spoken'.out /\ splitter'.buf = Spoken'.buf /\ splitter'.scan = Spoken'.scan
    BY <2>4, <2>6, <2>7
  <2> QED
    BY <1>1, <1>2, <2>1, <2>3, <2>6, <2>8 DEF SplitInv
<1>4. CASE /\ mode = "held" /\ mode' = "released" /\ head # <<>>
           /\ Send(Feed(splitter, whole))
  <2> DEFINE d == Drain[<<head, 0, FALSE>>]
  <2>1. sent = <<>> /\ splitter = NewSplitter(TRUE)
    BY <1>4 DEF SplitInv
  <2>2. splitter.buf = <<>> /\ splitter.scan = 0 /\ ~splitter.started
    BY <2>1 DEF NewSplitter
  <2>3. <<>> \o head = head
    BY <1>1, ConcatEmptySeq DEF Text
  <2>4. Drain[<<splitter.buf \o head, splitter.scan, FALSE>>] = d
    BY <2>2, <2>3
  <2>5. Feed(splitter, whole) =
          [out |-> d.out, sp |-> [buf |-> d.buf, scan |-> d.scan, started |-> TRUE]]
    BY <1>4, <2>2, <2>4, Zenon DEF Feed
  <2>6. ~Blank(text')
    BY <1>1, <1>4, NotBlank
  <2>7. Spoken' = d
    BY <1>1 DEF Spoken
  <2>8. d.out \in Seq(Text)
    <3>1. 0 \in 0..Len(head) /\ FALSE \in BOOLEAN
      BY <1>1, Texts
    <3>2. d \in Drained
      BY <1>1, <3>1, DrainType, Zenon
    <3> HIDE DEF d
    <3> QED
      BY <3>2 DEF Drained
  <2> HIDE DEF d
  <2>9. /\ sent' = <<>> \o d.out /\ splitter'.buf = d.buf /\ splitter'.scan = d.scan
        /\ splitter'.started
    <3>1. sent' = sent \o Feed(splitter, whole).out /\ splitter' = Feed(splitter, whole).sp
      BY <1>4, Zenon DEF Send
    <3>2. /\ Feed(splitter, whole).out = d.out /\ Feed(splitter, whole).sp.buf = d.buf
          /\ Feed(splitter, whole).sp.scan = d.scan /\ Feed(splitter, whole).sp.started
      BY <2>5
    <3> HIDE DEF whole
    <3> QED
      BY <2>1, <3>1, <3>2
  <2>10. <<>> \o d.out = d.out
    BY <2>8, ConcatEmptySeq
  <2>11. /\ sent' = Spoken'.out /\ splitter'.buf = Spoken'.buf /\ splitter'.scan = Spoken'.scan
    BY <2>7, <2>9, <2>10
  <2> QED
    BY <1>1, <1>2, <1>4, <2>6, <2>9, <2>11 DEF SplitInv
<1>5. CASE mode # "released" /\ mode' # "released" /\ UNCHANGED <<splitter, sent>>
  BY <1>1, <1>2, <1>5 DEF SplitInv
<1> QED
  BY <1>3, <1>4, <1>5 DEF TextDelta

LEMMA SplitStep ==
  ASSUME SplitInv, [Next]_vars
  PROVE  SplitInv'
<1>1. CASE UNCHANGED vars
  BY <1>1 DEF vars, SplitInv, Spoken, AnswerAddsUp
<1>2. CASE AttemptStarted
  <2>1. Fresh /\ UNCHANGED answer
    BY <1>2 DEF AttemptStarted
  <2>2. AnswerAddsUp' /\ (answer.streamed => answer.sentences = Split(answer.reply))'
    BY <2>1 DEF SplitInv, AnswerAddsUp
  <2> QED
    BY <2>1, <2>2, SplitFresh
<1>3. ASSUME NEW delta \in Deltas, TextDelta(delta) PROVE SplitInv'
  BY <1>3, SplitDelta
<1>4. ASSUME NEW reply \in {Strip(text)} \cup Unstreamed, reply # <<>>, Finish(reply)
      PROVE  SplitInv'
  <2> DEFINE kept == Kept(reply)
             rest == From(reply, Len(FlattenSeq(kept)) + 1)
             whole == kept \o FeedAll(NewSplitter(kept = <<>>), rest)
  <2>1. FlattenSeq(whole) = reply /\ (reply = Strip(text) => whole = Split(reply))
    BY <1>4, FinishIs, Zenon
  <2>2. Fresh /\ answer' = [reply |-> reply, streamed |-> reply = Strip(text),
                            sentences |-> whole]
    BY <1>4, Zenon DEF Finish
  <2> HIDE DEF whole
  <2>3. answer'.reply = reply /\ answer'.sentences = whole
        /\ answer'.streamed = (reply = Strip(text))
    BY <2>2
  <2>4. AnswerAddsUp' /\ (answer.streamed => answer.sentences = Split(answer.reply))'
    BY <2>1, <2>3 DEF AnswerAddsUp
  <2> QED
    BY <2>2, <2>4, SplitFresh
<1> QED
  BY <1>1, <1>2, <1>3, <1>4 DEF Next

(* The splitter stands where it would stand if the attempt's text had come *)
(* in one piece, and the answer's sentences are those of the whole reply.  *)
THEOREM SplitInvariance == Spec => []SplitInv
<1>1. Init => SplitInv
  <2> SUFFICES ASSUME Init PROVE SplitInv
    OBVIOUS
  <2>1. answer.sentences = <<>> /\ answer.reply = <<>> /\ answer.streamed = FALSE
    BY DEF Init, NoAnswer
  <2>2. FlattenSeq(<<>>) = <<>> /\ <<>> \in Text
    BY EmptySeq, FlatType, EmptyStrip
  <2> QED
    BY <2>1, <2>2 DEF Init, SplitInv, AnswerAddsUp
<1>2. SplitInv /\ [Next]_vars => SplitInv'
  BY SplitStep
<1> QED
  BY <1>1, <1>2, PTL DEF Spec

(* However the text is cut into deltas, the sentences sent are the first   *)
(* ones of the finished text, and a streamed reply is split like the whole *)
(* (SentenceSplitter.feed, flush, ReplyStream.finish).                     *)
THEOREM CutsDoNotMatter == Spec => []SplitLikeWhole
<1>1. SplitInv => SplitLikeWhole
  <2> SUFFICES ASSUME SplitInv PROVE SplitLikeWhole
    OBVIOUS
  <2>1. PICK f \in Seq(Text) : Split(text) = sent \o f
    BY SplitIs
  <2>2. IsPrefix(sent, Split(text))
    BY <2>1, SpokenIs, Begins
  <2> QED
    BY <2>2 DEF SplitLikeWhole, SplitInv
<1> QED
  BY <1>1, SplitInvariance, PTL

(* Whatever was streamed before, the answer's sentences put together are   *)
(* the reply, nothing twice and nothing left out (ReplyStream.finish).     *)
THEOREM NothingLost == Spec => []AnswerAddsUp
<1>1. SplitInv => AnswerAddsUp
  BY DEF SplitInv
<1> QED
  BY <1>1, SplitInvariance, PTL

(* Of what an attempt has written since it was let through, all sentences  *)
(* but the last are sent (_drain).                                         *)
THEOREM SpeaksInTime == Spec => []SentInTime
<1>1. SplitInv => SentInTime
  <2> SUFFICES ASSUME SplitInv, mode = "released" PROVE Len(sent) + 1 >= Len(Split(text))
    BY DEF SentInTime
  <2>1. PICK f \in Seq(Text) : Split(text) = sent \o f /\ Len(f) <= 1
    BY SplitIs
  <2>2. Len(Split(text)) = Len(sent) + Len(f)
    BY <2>1, SpokenIs, Begins
  <2>3. Len(sent) \in Nat /\ Len(f) \in Nat
    BY SpokenIs, LenProperties
  <2> QED
    BY <2>1, <2>2, <2>3
<1> QED
  BY <1>1, SplitInvariance, PTL

-----------------------------------------------------------------------------
(* Names, numbers and addresses.                                           *)

(* A sentence that ends at c does not end in a single dot in a word. *)
Apart(b, c) ==
  /\ c \in 1..Len(b)
  /\ c < Len(b) /\ b[c] = "dot" /\ b[c + 1] \in Word => c >= 2 /\ b[c - 1] \notin Word

(* The first sentence of a buffer does not end in a word... *)
LEMMA FirstApart ==
  ASSUME NEW b \in Text, NextBoundary(b, 0, FALSE).end # 0
  PROVE  Apart(b, NextBoundary(b, 0, FALSE).end)
<1> DEFINE S == Ends(b, 0, FALSE)
           n == NextBoundary(b, 0, FALSE)
<1>1. Len(b) \in Nat /\ 0 \in Nat /\ FALSE \in BOOLEAN
  BY Texts
<1>2. S \in SUBSET ((0 + 1)..Len(b))
  BY <1>1, EndsAre, Zenon
<1>3. S # {}
  BY <1>1, BoundaryIs, Zenon
<1>4. PICK i \in S : IF Waits(b, i, FALSE) THEN n.end = 0 ELSE n.end = EndOf(b, i)
  BY <1>1, <1>3, BoundaryIs, Zenon
<1>5. ~Waits(b, i, FALSE) /\ n.end = EndOf(b, i)
  BY <1>4, Zenon
<1> DEFINE c == EndOf(b, i)
<1>6. i \in 1..Len(b)
  <2> HIDE DEF S
  <2> QED
    BY <1>2
<1>7. c \in 1..Len(b)
  BY <1>1, <1>5, EndOfType, Zenon
<1>8. ASSUME c < Len(b), b[c] = "dot", b[c + 1] \in Word PROVE c >= 2 /\ b[c - 1] \notin Word
  <2>1. CASE b[i] = "newline"
    <3>1. i \notin Heads(b, 0 + 1)
      BY <1>1, <2>1, HeadsAre DEF Terminators, CjkStops
    <3>2. ~Blank(SubSeq(b, 1, i - 1))
      BY <3>1 DEF Ends
    <3>3. c = Len(RStrip(SubSeq(b, 1, i - 1)))
      BY <2>1 DEF EndOf
    <3>4. c \in 1..i - 1 /\ \A k \in (c + 1)..i - 1 : b[k] \in Spaces
      BY <1>6, <3>2, <3>3, LineEnds
    <3> HIDE DEF c
    <3>5. c + 1 = i \/ c + 1 \in (c + 1)..i - 1
      BY <1>1, <1>6, <3>4
    <3>6. b[c + 1] \in Spaces
      BY <2>1, <3>4, <3>5 DEF Spaces
    <3> QED
      BY <1>8, <3>6 DEF Spaces, Word
  <2>2. CASE b[i] # "newline"
    <3>1. i \in Heads(b, 0 + 1) /\ EndsSentence(b, i)
      BY <1>5, <2>2 DEF Ends
    <3>2. b[i] \in Terminators
      BY <1>1, <3>1, HeadsAre
    <3>3. c = RunEnd(b, i)
      BY <2>2 DEF EndOf
    <3>4. c \in i..Len(b) /\ \A k \in (i + 1)..c : b[k] \in Trailing
      BY <1>6, <3>3, RunEndIs
    <3>5. \/ \E k \in i..c : b[k] \in CjkStops
          \/ b[c + 1] \in Spaces
          \/ b[c + 1] = "cjk"
      BY <1>8, <3>1, <3>3 DEF EndsSentence
    <3> HIDE DEF c
    <3>6. PICK k \in i..c : b[k] \in CjkStops
      BY <1>8, <3>5 DEF Spaces, Word
    <3>7. k # c
      BY <1>8, <3>6 DEF CjkStops
    <3>8. c >= 2 /\ (c - 1 = i \/ c - 1 \in (i + 1)..c)
      BY <1>1, <1>6, <3>4, <3>6, <3>7
    <3>9. b[c - 1] \in Trailing
      BY <3>2, <3>4, <3>8 DEF Trailing
    <3> QED
      BY <3>8, <3>9 DEF Trailing, Terminators, CjkStops, Word
  <2> QED
    BY <2>1, <2>2
<1>9. Apart(b, c)
  BY <1>7, <1>8 DEF Apart
<1> QED
  BY <1>5, <1>9, Zenon

LEMMA FirstOf ==
  ASSUME NEW x \in Text, NEW s \in Seq(Text), NEW n \in 1..Len(s) + 1
  PROVE  SubSeq(<<x>> \o s, 1, n) = <<x>> \o SubSeq(s, 1, n - 1)
<1> DEFINE A == Text
           y == <<x>>
           u == y \o s
           q == SubSeq(s, 1, n - 1)
           l == SubSeq(u, 1, n)
           r == y \o q
<1>1. y \in Seq(A) /\ Len(y) = 1 /\ y[1] = x
  OBVIOUS
<1> HIDE DEF A, y
<1>2. s \in Seq(A) /\ Len(s) \in Nat /\ n \in Int
  BY LenProperties DEF A
<1>3. /\ u \in Seq(A) /\ Len(u) = 1 + Len(s)
      /\ \A k \in 1..1 + Len(s) : u[k] = IF k <= 1 THEN y[k] ELSE s[k - 1]
  <2>1. /\ u \in Seq(A) /\ Len(u) = Len(y) + Len(s)
        /\ \A k \in 1..Len(y) + Len(s) : u[k] = IF k <= Len(y) THEN y[k] ELSE s[k - Len(y)]
    BY <1>1, <1>2, ConcatProperties
  <2> HIDE DEF u
  <2> QED
    BY <1>1, <2>1
<1> HIDE DEF u
<1>4. q \in Seq(A) /\ Len(q) = n - 1 /\ \A k \in 1..n - 1 : q[k] = s[k]
  <2>1. \A k \in 1..n - 1 : s[k] \in A
    BY <1>2, ElementOfSeq
  <2>2. /\ q \in Seq(A) /\ Len(q) = (IF 1 <= n - 1 THEN n - 1 - 1 + 1 ELSE 0)
        /\ \A k \in 1..n - 1 - 1 + 1 : q[k] = s[1 + k - 1]
    BY <1>2, <2>1, SubSeqProperties
  <2> HIDE DEF q
  <2> QED
    BY <1>2, <2>2
<1> HIDE DEF q
<1>5. /\ r \in Seq(A) /\ Len(r) = 1 + (n - 1)
      /\ \A k \in 1..1 + (n - 1) : r[k] = IF k <= 1 THEN y[k] ELSE q[k - 1]
  <2>1. /\ r \in Seq(A) /\ Len(r) = Len(y) + Len(q)
        /\ \A k \in 1..Len(y) + Len(q) : r[k] = IF k <= Len(y) THEN y[k] ELSE q[k - Len(y)]
    BY <1>1, <1>4, ConcatProperties
  <2> HIDE DEF r
  <2> QED
    BY <1>1, <1>4, <2>1
<1>6. l \in Seq(A) /\ Len(l) = n /\ \A k \in 1..n : l[k] = u[k]
  <2>1. n \in 1..Len(u)
    BY <1>2, <1>3
  <2>2. \A k \in 1..n : u[k] \in A
    BY <1>3, <2>1, ElementOfSeq
  <2>3. /\ l \in Seq(A) /\ Len(l) = (IF 1 <= n THEN n - 1 + 1 ELSE 0)
        /\ \A k \in 1..n - 1 + 1 : l[k] = u[1 + k - 1]
    BY <1>2, <2>2, SubSeqProperties
  <2> HIDE DEF l
  <2> QED
    BY <1>2, <2>1, <2>3
<1> HIDE DEF l, r
<1>7. ASSUME NEW k \in 1..n PROVE l[k] = r[k]
  <2>1. CASE k = 1
    BY <1>2, <1>3, <1>5, <1>6, <2>1
  <2>2. CASE k # 1
    <3>1. k \in 1..1 + Len(s) /\ k \in 1..1 + (n - 1) /\ ~(k <= 1) /\ k - 1 \in 1..n - 1
      BY <1>2, <2>2
    <3> QED
      BY <1>3, <1>4, <1>5, <1>6, <3>1
  <2> QED
    BY <2>1, <2>2
<1>8. Len(l) = Len(r) /\ \A k \in 1..Len(l) : l[k] = r[k]
  BY <1>2, <1>5, <1>6, <1>7
<1>9. l = r
  BY <1>5, <1>6, <1>8, SeqEqual
<1> QED
  BY <1>9 DEF l, r, u, q, y

(* ...and neither does any other. *)
LEMMA CutsApart ==
  ASSUME NEW b \in Text, NEW n \in 1..Len(Drain[<<b, 0, FALSE>>].out)
  PROVE  Apart(b, Len(FlattenSeq(SubSeq(Drain[<<b, 0, FALSE>>].out, 1, n))))
<1> DEFINE Each(c, o) == \A k \in 1..Len(o) : Apart(c, Len(FlattenSeq(SubSeq(o, 1, k))))
           S == {c \in Text : Each(c, Drain[<<c, 0, FALSE>>].out)}
<1>1. ASSUME NEW c \in Text, \A x \in Text : Len(x) < Len(c) => x \in S
      PROVE  Each(c, Drain[<<c, 0, FALSE>>].out)
  <2> DEFINE m == NextBoundary(c, 0, FALSE)
             e == m.end
             rest == From(c, e + 1)
             first == SubSeq(c, 1, e)
             d == Drain[<<c, 0, FALSE>>]
             r == Drain[<<rest, 0, FALSE>>]
  <2>1. Len(c) \in Nat /\ 0 \in Nat /\ FALSE \in BOOLEAN
    BY Texts
  <2>2. e \in 0..Len(c)
    BY <2>1, BoundaryType, Zenon
  <2>3. d = IF e = 0 THEN [out |-> <<>>, buf |-> c, scan |-> m.scan]
            ELSE [out |-> <<first>> \o r.out, buf |-> r.buf, scan |-> r.scan]
    BY <2>1, DrainIs, Zenon DEF Rescan
  <2>4. CASE e = 0
    <3>1. d.out = <<>>
      <4> HIDE DEF d, m, r, first
      <4> QED
        BY <2>3, <2>4
    <3>2. Each(c, <<>>)
      <4>1. 1..Len(<<>>) = {}
        BY EmptySeq
      <4> QED
        BY <4>1
    <3> HIDE DEF Each
    <3> QED
      BY <3>1, <3>2, Zenon
  <2>5. CASE e # 0
    <3>1. Apart(c, e)
      BY <2>5, FirstApart
    <3> HIDE DEF m, e
    <3>2. /\ first \in Text /\ Len(first) = e /\ rest \in Text /\ Len(rest) = Len(c) - e
          /\ \A k \in 1..Len(c) - e : rest[k] = c[e + k]
      BY <2>2, TwoParts
    <3> HIDE DEF first, rest
    <3>3. rest \in S
      <4>1. Len(rest) < Len(c)
        BY <2>1, <2>2, <2>5, <3>2
      <4> HIDE DEF S
      <4> QED
        BY <1>1, <3>2, <4>1
    <3>4. r.out \in Seq(Text)
      <4>1. 0 \in 0..Len(rest)
        BY <3>2, Texts
      <4>2. r \in Drained
        BY <2>1, <3>2, <4>1, DrainType, Zenon
      <4> HIDE DEF r
      <4> QED
        BY <4>2 DEF Drained
    <3>5. Each(rest, r.out)
      BY <3>3
    <3>6. d.out = <<first>> \o r.out
      <4> HIDE DEF d, r
      <4> QED
        BY <2>3, <2>5
    <3> DEFINE o == r.out
    <3> HIDE DEF d, r, o
    <3>7. o \in Seq(Text) /\ Len(o) \in Nat /\ Each(rest, o) /\ d.out = <<first>> \o o
      BY <3>4, <3>5, <3>6, LenProperties DEF o
    <3>8. ASSUME NEW k \in 1..Len(o) + 1
          PROVE  Apart(c, Len(FlattenSeq(SubSeq(<<first>> \o o, 1, k))))
      <4> DEFINE q == SubSeq(o, 1, k - 1)
                 g == Len(FlattenSeq(q))
      <4>1. SubSeq(<<first>> \o o, 1, k) = <<first>> \o q
        BY <3>2, <3>7, FirstOf
      <4>2. q \in Seq(Text) /\ (k = 1 => q = <<>>)
        <5>1. \A j \in 1..k - 1 : o[j] \in Text
          BY <3>7, ElementOfSeq
        <5>2. q \in Seq(Text)
          BY <3>7, <5>1, SubSeqProperties
        <5>3. k = 1 => q = <<>>
          BY <3>7, SubSeqEmpty
        <5> QED
          BY <5>2, <5>3
      <4> HIDE DEF q
      <4>3. FlattenSeq(<<first>> \o q) = first \o FlattenSeq(q) /\ FlattenSeq(q) \in Text
        BY <3>2, <4>2, FlatFirst, FlatType
      <4>4. Len(FlattenSeq(<<first>> \o q)) = e + g /\ g \in Nat
        <5> DEFINE y == FlattenSeq(q)
        <5>1. y \in Text /\ FlattenSeq(<<first>> \o q) = first \o y
          BY <4>3
        <5> HIDE DEF y
        <5>2. Len(first \o y) = e + Len(y) /\ Len(y) \in Nat
          BY <3>2, <5>1, Joins, Texts
        <5> QED
          BY <5>1, <5>2 DEF y
      <4>5. CASE k = 1
        <5>1. g = 0
          BY <4>2, <4>5, FlatType, EmptySeq
        <5> HIDE DEF g
        <5>2. e + g = e
          BY <2>1, <2>2, <5>1
        <5> QED
          BY <3>1, <4>1, <4>4, <5>2
      <4>6. CASE k # 1
        <5>1. k - 1 \in 1..Len(o)
          BY <3>7, <4>6
        <5>2. Apart(rest, g)
          BY <3>7, <5>1 DEF q
        <5> HIDE DEF g
        <5> DEFINE x == e + g
        <5>3. g \in 1..Len(rest) /\ x \in 1..Len(c) /\ x = e + g
          BY <2>1, <2>2, <3>2, <5>2 DEF Apart
        <5> HIDE DEF x
        <5>4. ASSUME x < Len(c), c[x] = "dot", c[x + 1] \in Word
              PROVE  x >= 2 /\ c[x - 1] \notin Word
          <6>1. /\ g < Len(rest) /\ g \in 1..Len(c) - e /\ g + 1 \in 1..Len(c) - e
                /\ e + (g + 1) = x + 1
            BY <2>1, <2>2, <3>2, <5>3, <5>4
          <6>2. rest[g] = "dot" /\ rest[g + 1] \in Word
            BY <3>2, <5>3, <5>4, <6>1, SMTT(20)
          <6>3. g >= 2 /\ rest[g - 1] \notin Word
            BY <5>2, <6>1, <6>2 DEF Apart
          <6>4. g - 1 \in 1..Len(c) - e /\ e + (g - 1) = x - 1 /\ x >= 2
            BY <2>1, <2>2, <3>2, <5>3, <6>3
          <6> QED
            BY <3>2, <6>3, <6>4
        <5>5. Apart(c, x)
          BY <5>3, <5>4 DEF Apart
        <5> QED
          BY <4>1, <4>4, <5>5 DEF x
      <4> QED
        BY <4>5, <4>6
    <3>9. Len(<<first>> \o o) = Len(o) + 1
      <4> DEFINE y == <<first>>
                 A == Text
      <4>1. y \in Seq(A) /\ Len(y) = 1 /\ o \in Seq(A)
        BY <3>2, <3>7
      <4> HIDE DEF y, A
      <4>2. Len(y \o o) = Len(y) + Len(o)
        BY <4>1, ConcatProperties
      <4>3. Len(y \o o) = Len(o) + 1
        BY <3>7, <4>1, <4>2
      <4> QED
        BY <4>3 DEF y
    <3> QED
      BY <3>7, <3>8, <3>9 DEF d
  <2> QED
    BY <2>4, <2>5
<1>2. \A c \in Text : (\A x \in Text : Len(x) < Len(c) => x \in S) => c \in S
  <2> HIDE DEF Each
  <2> QED
    BY <1>1
<1> HIDE DEF S
<1>3. b \in S
  BY <1>2, TextInduction
<1> QED
  BY <1>3 DEF S

(* No sentence ends in a single dot between two characters of a word, so   *)
(* numbers, addresses and file names stay whole (_ends_sentence).          *)
THEOREM NoNameIsCut == Spec => []NamesStayWhole
<1>1. SplitInv => NamesStayWhole
  <2> SUFFICES ASSUME SplitInv, NEW n \in DOMAIN sent
               PROVE  LET lead == Len(text) - Len(LStrip(text))
                          e == lead + Len(FlattenSeq(SubSeq(sent, 1, n)))
                      IN ~(1 < e /\ e < Len(text) /\ text[e] = "dot"
                           /\ {text[e - 1], text[e + 1]} \subseteq Word)
    BY DEF NamesStayWhole
  <2> DEFINE b == LStrip(text)
             i == Min(Ink(text))
             lead == Len(text) - Len(b)
             c == Len(FlattenSeq(SubSeq(sent, 1, n)))
             e == lead + c
  <2>1. sent \in Seq(Text) /\ b \in Text /\ text \in Text /\ Len(text) \in Nat
    BY SpokenIs, Texts DEF SplitInv
  <2>2. mode = "released"
    <3>1. n \in 1..Len(sent)
      BY <2>1, LenProperties
    <3>2. sent # <<>>
      BY <3>1, EmptySeq
    <3> QED
      BY <3>2 DEF SplitInv
  <2>3. ~Blank(text) /\ sent = Drain[<<b, 0, FALSE>>].out
    BY <2>2 DEF SplitInv, Spoken
  <2>4. Apart(b, c)
    <3> HIDE DEF b
    <3>1. n \in 1..Len(Drain[<<b, 0, FALSE>>].out)
      BY <2>1, <2>3, LenProperties
    <3> QED
      BY <2>1, <2>3, <3>1, CutsApart
  <2>5. i \in 1..Len(text) /\ b = SubSeq(text, i, Len(text))
    BY <2>1, <2>3, InkIs DEF LStrip
  <2> HIDE DEF b, i, c
  <2>6. Len(b) = Len(text) - i + 1 /\ \A k \in 1..Len(text) - i + 1 : b[k] = text[i + k - 1]
    <3>1. i \in 1..Len(text) + 1 /\ Len(text) \in i - 1..Len(text)
      BY <2>1, <2>5
    <3> QED
      BY <2>1, <2>5, <3>1, Parts
  <2>7. c \in 1..Len(b) /\ e = i - 1 + c /\ c \in Int
    BY <2>1, <2>4, <2>5, <2>6 DEF Apart
  <2> HIDE DEF e
  <2>8. ASSUME 1 < e, e < Len(text), text[e] = "dot", text[e - 1] \in Word, text[e + 1] \in Word
        PROVE  FALSE
    <3>1. /\ c < Len(b) /\ c + 1 \in 1..Len(text) - i + 1 /\ c \in 1..Len(text) - i + 1
          /\ i + c - 1 = e /\ i + (c + 1) - 1 = e + 1
      BY <2>1, <2>5, <2>6, <2>7, <2>8
    <3>2. b[c] = "dot" /\ b[c + 1] \in Word
      BY <2>6, <2>8, <3>1
    <3>3. c >= 2 /\ b[c - 1] \notin Word
      BY <2>4, <3>1, <3>2 DEF Apart
    <3>4. c - 1 \in 1..Len(text) - i + 1 /\ i + (c - 1) - 1 = e - 1
      BY <2>5, <2>6, <2>7, <3>1, <3>3
    <3> QED
      BY <2>6, <2>8, <3>3, <3>4
  <2>9. ~(1 < e /\ e < Len(text) /\ text[e] = "dot" /\ {text[e - 1], text[e + 1]} \subseteq Word)
    BY <2>8
  <2> QED
    BY <2>9, Zenon DEF e, c, b
<1> QED
  BY <1>1, SplitInvariance, PTL
=============================================================================
