--------------------------- MODULE LlmChainProofs ---------------------------
(***************************************************************************)
(* The calls to the LLM are well typed, end in the time that their turn    *)
(* has, and are never stopped by what health and pool remember, for any    *)
(* number of threads, hops and keys and all limits.                        *)
(***************************************************************************)
EXTENDS LlmChain, FiniteSetTheorems, SequenceTheorems, WellFoundedInduction, TLAPS

-----------------------------------------------------------------------------
(* Sorting and filtering: every place is taken by one element.             *)

Orders(S, R) ==
  /\ \A x \in S : <<x, x>> \notin R
  /\ \A x, y \in S : x # y => <<x, y>> \in R \/ <<y, x>> \in R
  /\ \A x, y, z \in S : <<x, y>> \in R /\ <<y, z>> \in R => <<x, z>> \in R

LEMMA PlaceType ==
  ASSUME NEW S, IsFiniteSet(S), NEW R, Orders(S, R), NEW x \in S
  PROVE  Place(x, S, R) \in 1..Cardinality(S)
<1> DEFINE before == {y \in S : <<y, x>> \in R}
<1>1. IsFiniteSet(S \ {x}) /\ Cardinality(S \ {x}) = Cardinality(S) - 1
  BY FS_RemoveElement
<1>2. before \in SUBSET (S \ {x})
  BY DEF Orders
<1>3. IsFiniteSet(before) /\ Cardinality(before) <= Cardinality(S) - 1
  <2> DEFINE others == S \ {x}
  <2>1. IsFiniteSet(others) /\ before \in SUBSET others
    BY <1>1, <1>2
  <2> HIDE DEF others, before
  <2>2. IsFiniteSet(before) /\ Cardinality(before) <= Cardinality(others)
    BY <2>1, FS_Subset, Zenon
  <2> QED
    BY <1>1, <2>2 DEF others
<1>4. Cardinality(before) \in Nat /\ Cardinality(S) \in Nat
  BY <1>3, FS_CardinalityType
<1> QED
  BY <1>3, <1>4 DEF Place

LEMMA PlacesDiffer ==
  ASSUME NEW S, IsFiniteSet(S), NEW R, Orders(S, R), NEW x \in S, NEW y \in S,
         <<x, y>> \in R
  PROVE  Place(x, S, R) < Place(y, S, R)
<1> DEFINE below(z) == {w \in S : <<w, z>> \in R}
<1>1. below(x) \in SUBSET S /\ below(y) \in SUBSET S
  OBVIOUS
<1>2. IsFiniteSet(below(x)) /\ IsFiniteSet(below(y))
  BY <1>1, FS_Subset
<1>3. x \notin below(x) /\ below(x) \cup {x} \in SUBSET below(y)
  BY DEF Orders
<1>4. Cardinality(below(x) \cup {x}) = Cardinality(below(x)) + 1
  BY <1>2, <1>3, FS_AddElement
<1>5. Cardinality(below(x) \cup {x}) <= Cardinality(below(y))
  BY <1>2, <1>3, FS_Subset
<1>6. Cardinality(below(x)) \in Nat /\ Cardinality(below(y)) \in Nat
  BY <1>2, FS_CardinalityType
<1> QED
  BY <1>4, <1>5, <1>6 DEF Place

LEMMA PlacesTaken ==
  ASSUME NEW S, IsFiniteSet(S), NEW R, Orders(S, R), NEW n \in 1..Cardinality(S)
  PROVE  \E x \in S : Place(x, S, R) = n
<1> DEFINE place == [x \in S |-> Place(x, S, R)]
           taken == 1..Cardinality(S)
<1>1. Cardinality(S) \in Nat
  BY FS_CardinalityType
<1>2. IsFiniteSet(taken) /\ Cardinality(taken) = Cardinality(S)
  BY <1>1, FS_Interval
<1>3. place \in [S -> taken]
  BY PlaceType
<1>4. ASSUME NEW x \in S, NEW y \in S, x # y
      PROVE  place[x] # place[y]
  <2>1. \/ Place(x, S, R) < Place(y, S, R)
        \/ Place(y, S, R) < Place(x, S, R)
    BY <1>4, PlacesDiffer DEF Orders
  <2>2. Place(x, S, R) \in 1..Cardinality(S) /\ Place(y, S, R) \in 1..Cardinality(S)
    BY PlaceType
  <2> QED
    BY <1>1, <2>1, <2>2
<1>5. place \in Injection(S, taken)
  BY <1>3, <1>4 DEF Injection, IsInjective
<1>6. place \in Surjection(S, taken)
  BY <1>2, <1>5, FS_Injection
<1> QED
  BY <1>6 DEF Surjection

LEMMA RankedType ==
  ASSUME NEW S, IsFiniteSet(S), NEW R, Orders(S, R)
  PROVE  /\ Cardinality(S) \in Nat
         /\ Ranked(S, R) \in [1..Cardinality(S) -> S]
<1>1. ASSUME NEW n \in 1..Cardinality(S)
      PROVE  (CHOOSE x \in S : Place(x, S, R) = n) \in S
  BY <1>1, PlacesTaken
<1> QED
  BY <1>1, FS_CardinalityType DEF Ranked

LEMMA UpTo ==
  ASSUME NEW n \in Nat
  PROVE  IsFiniteSet(1..n) /\ Cardinality(1..n) = n
BY FS_Interval

LEMMA PlacesInOrder ==
  ASSUME NEW S \in SUBSET Nat, NEW R, R = {p \in S \X S : p[1] < p[2]}
  PROVE  Orders(S, R)
BY DEF Orders

-----------------------------------------------------------------------------
(* The pool of keys.                                                       *)

LEMMA PoolSize ==
  /\ KeyOrder \in Seq(Pool) /\ Len(KeyOrder) \in Nat
  /\ DOMAIN KeyOrder = 1..Len(KeyOrder)
  /\ IsFiniteSet(DOMAIN KeyOrder) /\ Cardinality(DOMAIN KeyOrder) = Cardinality(Pool)
<1>1. KeyOrder \in Seq(Pool)
  BY KeyPoolAssumption
<1>2. Len(KeyOrder) \in Nat /\ DOMAIN KeyOrder = 1..Len(KeyOrder)
  BY <1>1, LenProperties
<1>3. IsFiniteSet(1..Len(KeyOrder)) /\ Cardinality(1..Len(KeyOrder)) = Len(KeyOrder)
  BY <1>2, UpTo
<1> QED
  BY <1>1, <1>2, <1>3, KeyPoolAssumption

LEMMA InPoolOrderType ==
  ASSUME NEW keys
  PROVE  /\ InPoolOrder(keys) \in Seq(Pool)
         /\ Len(InPoolOrder(keys)) <= Cardinality(Pool)
<1> DEFINE places == {i \in DOMAIN KeyOrder : KeyOrder[i] \in keys}
           before == {p \in places \X places : p[1] < p[2]}
           order  == Ranked(places, before)
<1>1. places \in SUBSET DOMAIN KeyOrder /\ places \in SUBSET Nat
  BY PoolSize
<1>2. IsFiniteSet(places) /\ Cardinality(places) <= Cardinality(Pool)
  BY <1>1, PoolSize, FS_Subset
<1>3. Orders(places, before)
  BY <1>1, PlacesInOrder
<1> HIDE DEF before
<1>4. Cardinality(places) \in Nat /\ order \in [1..Cardinality(places) -> places]
  BY <1>2, <1>3, RankedType
<1> HIDE DEF order
<1>5. \A n \in 1..Cardinality(places) : KeyOrder[order[n]] \in Pool
  BY <1>4, PoolSize, ElementOfSeq
<1>6. InPoolOrder(keys) = [n \in 1..Cardinality(places) |-> KeyOrder[order[n]]]
  BY DEF InPoolOrder, order, before
<1> HIDE DEF places
<1> QED
  BY <1>2, <1>4, <1>5, <1>6

LEMMA KeyTypes ==
  /\ NewKey \in KeyStates
  /\ \A s \in KeyStates :
       /\ KeyAfterSuccess(s) \in KeyStates /\ KeyAged(s) \in KeyStates
       /\ \A f \in Failures : KeyAfterFailure(s, f) \in KeyStates
<1>1. /\ OpenAt \in Nat \ {0} /\ ShortCool \in Nat /\ LongCool \in Nat
  BY KeyPoolAssumption
<1>2. NewKey \in KeyStates
  BY <1>1 DEF NewKey, KeyStates
<1>3. ASSUME NEW s \in KeyStates
      PROVE  KeyAfterSuccess(s) \in KeyStates /\ KeyAged(s) \in KeyStates
  <2>1. (IF s.cool = 0 THEN 0 ELSE s.cool - 1) \in 0..(ShortCool + LongCool)
    BY <1>1 DEF KeyStates
  <2>2. KeyAged(s) \in KeyStates
    BY <2>1 DEF KeyAged, KeyStates
  <2>3. 0 \in 0..OpenAt /\ 0 \in 0..(ShortCool + LongCool)
    BY <1>1
  <2>4. KeyAfterSuccess(s) \in KeyStates
    BY <2>3 DEF KeyAfterSuccess, KeyStates
  <2> QED
    BY <2>2, <2>4
<1>4. ASSUME NEW s \in KeyStates, NEW f \in Failures
      PROVE  KeyAfterFailure(s, f) \in KeyStates
  <2>1. Capped(s.failures + 1, OpenAt) \in 0..OpenAt
    BY <1>1 DEF Capped, KeyStates
  <2>2. CoolFor(f) \in 0..(ShortCool + LongCool)
    BY <1>1 DEF CoolFor
  <2> QED
    BY <2>1, <2>2 DEF KeyAfterFailure, KeyStates
<1> QED
  BY <1>2, <1>3, <1>4

(* A disabled key stays so. *)
LEMMA DisabledStays ==
  ASSUME NEW s \in KeyStates, s.disabled
  PROVE  /\ KeyAfterSuccess(s).disabled /\ KeyAged(s).disabled
         /\ \A f \in Failures : KeyAfterFailure(s, f).disabled
BY DEF KeyAfterSuccess, KeyAged, KeyAfterFailure, KeyStates

LEMMA SelectionTypes ==
  ASSUME NEW p \in [Pool -> KeyStates], NEW n \in Nat, NEW s \in Selections(p, n)
  PROVE  /\ s[1] \in Pool
         /\ s[2] \in 0..Cardinality(Pool) \/ s[2] = n
<1> DEFINE available == AvailableKeys(p)
<1>1. available \in Seq(Pool) /\ Len(available) <= Cardinality(Pool)
  BY InPoolOrderType DEF AvailableKeys
<1>2. Cardinality(Pool) \in Nat
  BY PoolSize, KeyPoolAssumption
<1> HIDE DEF available
<1>3. CASE available # <<>>
  <2>1. Len(available) \in Nat \ {0}
    BY <1>1, <1>3, EmptySeq
  <2>2. (n % Len(available)) + 1 \in 1..Len(available)
    BY <2>1
  <2>3. s = <<available[(n % Len(available)) + 1], (n % Len(available)) + 1>>
    BY <1>3 DEF Selections, available
  <2>4. s[1] \in Pool
    BY <1>1, <2>2, <2>3, ElementOfSeq
  <2> QED
    BY <1>1, <1>2, <2>1, <2>2, <2>3, <2>4
<1>4. CASE available = <<>>
  <2>1. \E k \in Enabled(p) : s = <<k, n>>
    BY <1>4 DEF Selections, available
  <2> QED
    BY <2>1 DEF Enabled
<1> QED
  BY <1>3, <1>4

LEMMA RoutesType ==
  ASSUME NEW p, NEW k \in Pool
  PROVE  RoutesFrom(p, k) \in Seq(Pool) /\ RoutesFrom(p, k) # <<>>
<1>1. InPoolOrder(Enabled(p) \ {k}) \in Seq(Pool) /\ <<k>> \in Seq(Pool)
  BY InPoolOrderType
<1> QED
  BY <1>1, ConcatProperties, ConcatEqualIffEmpty DEF RoutesFrom

(* Some number of a set is the smallest. *)
LEMMA Smallest ==
  ASSUME NEW T \in SUBSET Nat, T # {}
  PROVE  \E x \in T : \A y \in T : x <= y
<1> DEFINE Below == {p \in Nat \X Nat : p[1] < p[2]}
<1>1. IsWellFoundedOn(Below, Nat)
  BY NatLessThanWellFounded DEF OpToRel
<1> HIDE DEF Below
<1>2. PICK x \in T : \A y \in T : <<y, x>> \notin Below
  BY <1>1, WFMin
<1>3. ASSUME NEW y \in T PROVE x <= y
  <2>1. <<y, x>> \notin Below /\ x \in Nat /\ y \in Nat
    BY <1>2
  <2>2. ~(y < x)
    BY <2>1 DEF Below
  <2> QED
    BY <2>1, <2>2
<1> QED
  BY <1>3

(* While a key is enabled there is one to select. *)
LEMMA SomeSelection ==
  ASSUME NEW p \in [Pool -> KeyStates], NEW n \in Nat, Selections(p, n) = {}
  PROVE  Enabled(p) = {}
<1> SUFFICES ASSUME Enabled(p) # {} PROVE FALSE
  OBVIOUS
<1> DEFINE cools == {p[k].cool : k \in Enabled(p)}
<1>1. cools \in SUBSET Nat /\ cools # {}
  <2>1. {ShortCool, LongCool} \subseteq Nat
    BY KeyPoolAssumption
  <2>2. \A k \in Enabled(p) : p[k] \in KeyStates
    BY DEF Enabled
  <2>3. \A k \in Enabled(p) : p[k].cool \in Nat
    BY <2>1, <2>2 DEF KeyStates
  <2> QED
    BY <2>3
<1>2. PICK c \in cools : \A d \in cools : c <= d
  BY <1>1, Smallest
<1>3. PICK k \in Enabled(p) : \A y \in Enabled(p) : p[k].cool <= p[y].cool
  BY <1>2
<1>4. AvailableKeys(p) = <<>>
  BY DEF Selections
<1> QED
  BY <1>3, <1>4 DEF Selections

-----------------------------------------------------------------------------
(* The health of the hops.                                                 *)

LEMMA HopTypes ==
  /\ Well \in HopStates
  /\ \A s \in HopStates :
       HopAged(s) \in HopStates /\ \A f \in Failures : HopAfterFailure(s, f) \in HopStates
<1>1. CoolAt \in Nat \ {0} /\ QuotaSeconds \in Nat /\ TransientSeconds \in Nat
  BY ProviderHealthAssumption
<1>2. Never \in Nat /\ {0, Never, QuotaSeconds, TransientSeconds} \subseteq 0..Never
  BY <1>1 DEF Never
<1> HIDE DEF Never
<1>3. Well \in HopStates
  BY <1>1, <1>2 DEF Well, HopStates
<1>4. ASSUME NEW s \in HopStates PROVE HopAged(s) \in HopStates
  <2>1. (IF s.retry \in {0, Never} THEN s.retry ELSE s.retry - 1) \in 0..Never
    BY <1>2 DEF HopStates
  <2> QED
    BY <2>1 DEF HopAged, HopStates
<1>5. ASSUME NEW s \in HopStates, NEW f \in Failures
      PROVE  HopAfterFailure(s, f) \in HopStates
  <2>1. (IF s.failures = CoolAt THEN CoolAt ELSE s.failures + 1) \in 0..CoolAt
    BY <1>1 DEF HopStates
  <2> QED
    BY <1>2, <2>1 DEF HopAfterFailure, HopStates
<1> QED
  BY <1>3, <1>4, <1>5

(* order only sorts; what it returns of a chain with hops is not empty. *)
LEMMA BuiltType ==
  ASSUME NEW c \in Seq(Hops), c # <<>>, health \in [Hops -> HopStates]
  PROVE  Built(c) \in Seq(Hops) /\ Built(c) # <<>>
<1> DEFINE places       == DOMAIN c
           Retry(i)     == health[c[i]].retry
           Before(i, j) == Retry(i) < Retry(j) \/ (Retry(i) = Retry(j) /\ i < j)
           before       == {p \in places \X places : Before(p[1], p[2])}
           order        == Ranked(places, before)
           sorted       == [n \in 1..Cardinality(places) |-> c[order[n]]]
<1>1. Len(c) \in Nat \ {0} /\ places = 1..Len(c)
  BY EmptySeq, LenProperties
<1>2. IsFiniteSet(places) /\ Cardinality(places) = Len(c)
  BY <1>1, UpTo
<1>3. \A i \in places : Retry(i) \in Nat
  <2>1. \A i \in places : health[c[i]] \in HopStates
    BY <1>1, ElementOfSeq
  <2>2. Never \in Nat
    BY ProviderHealthAssumption DEF Never
  <2> QED
    BY <2>1, <2>2 DEF HopStates
<1>4. Orders(places, before)
  <2> HIDE DEF Retry
  <2> QED
    BY <1>1, <1>3 DEF Orders
<1>5. InOrder(c, health) = sorted
  BY DEF InOrder
<1> HIDE DEF before
<1>6. order \in [1..Len(c) -> places]
  BY <1>2, <1>4, RankedType
<1> HIDE DEF order
<1>7. \A n \in 1..Len(c) : sorted[n] \in Hops
  BY <1>1, <1>2, <1>6, ElementOfSeq
<1>8. Smaller(MaxHops, Len(c)) \in 1..Len(c)
  BY <1>1, LlmChainAssumption DEF Smaller
<1> HIDE DEF sorted, places
<1>9. /\ SubSeq(sorted, 1, Smaller(MaxHops, Len(c))) \in Seq(Hops)
      /\ Len(SubSeq(sorted, 1, Smaller(MaxHops, Len(c)))) # 0
  BY <1>1, <1>7, <1>8, SubSeqProperties
<1> QED
  BY <1>5, <1>9, EmptySeq DEF Built

-----------------------------------------------------------------------------
(* The invariant.  A call has an entry it calls.  Of a stream in a turn,   *)
(* what is spent and what may still be waited for without a chunk fit      *)
(* together into Longest, and so does what is left of its total.           *)

Budgeted(r) ==
  /\ r.spent <= Longest
  /\ r.phase = "calling" =>
       /\ IF r.stage = "connect"
          THEN r.spent + r.quiet + r.read <= Budget + ConnectLimit
          ELSE r.spent + r.quiet <= Longest
       /\ r.total > 0 =>
            r.spent + r.total + r.read <= Budget + Larger(TotalLimit, ReadLimit) + 1

Fits(r) ==
  /\ r \in Reqs
  /\ r.phase = "calling" => r.ahead # <<>>
  /\ r.kind = "stream" => Budgeted(r)

RequestsFit == \A q \in Requests : Fits(req[q])

LlmInv == TypeOK /\ RequestsFit /\ NeverStops

LEMMA Bounds ==
  /\ MaxHops \in Nat \ {0} /\ MinHop \in Nat \ {0} /\ ConnectLimit \in Nat \ {0}
  /\ ReadLimit \in Nat \ {0} /\ WholeLimit \in Nat \ {0} /\ TotalLimit \in Nat \ {0}
  /\ Budget \in Nat
BY LlmChainAssumption

LEMMA LongestIsLong ==
  /\ Longest \in Nat
  /\ Budget + ConnectLimit <= Longest
  /\ Budget + Larger(TotalLimit, ReadLimit) <= Longest
BY Bounds DEF Longest, Larger

(* Requests other than q are as before, and q's is r. *)
Becomes(q, r) ==
  /\ req'[q] = r
  /\ \A x \in Requests : x # q => req'[x] = req[x]
  /\ DOMAIN req' = Requests

LEMMA ReqSet ==
  ASSUME TypeOK, NEW q \in Requests, NEW r, req' = [req EXCEPT ![q] = r]
  PROVE  Becomes(q, r)
BY DEF TypeOK, Becomes

(* The other parts of the state, and what NeverStops says of it. *)
LEMMA StepFits ==
  ASSUME LlmInv, NEW q \in Requests, NEW r, Fits(r), req' = [req EXCEPT ![q] = r],
         chain' = chain, next' \in 0..Cardinality(Pool),
         health' \in [Hops -> HopStates], pool' \in [Pool -> KeyStates],
         \A k \in Pool : pool[k].disabled => pool'[k].disabled,
         r.phase = "no route" => r.legacy /\ Enabled(pool) = {}
  PROVE  LlmInv'
<1>1. Becomes(q, r)
  BY ReqSet DEF LlmInv
<1>2. RequestsFit'
  BY <1>1 DEF LlmInv, RequestsFit, Becomes
<1>3. TypeOK'
  <2>1. req' \in [Requests -> Reqs]
    BY DEF LlmInv, TypeOK, Fits
  <2> QED
    BY <2>1 DEF LlmInv, TypeOK
<1>4. NeverStops'
  <2>1. Enabled(pool) = {} => Enabled(pool') = {}
    BY DEF Enabled
  <2>2. Enabled(pool)' = Enabled(pool')
    BY DEF Enabled
  <2> QED
    BY <1>1, <2>1, <2>2 DEF LlmInv, NeverStops, Becomes
<1> QED
  BY <1>2, <1>3, <1>4 DEF LlmInv

LEMMA NoReqFits == Fits(NoReq) /\ NoReq.phase = "ended"
BY EmptySeq, Bounds DEF NoReq, Fits, Reqs, AllKinds, Limits

LEMMA EndFits ==
  ASSUME LlmInv, NEW q \in Requests, req' = End(q), UNCHANGED <<chain, next>>,
         health' \in [Hops -> HopStates], pool' \in [Pool -> KeyStates],
         \A k \in Pool : pool[k].disabled => pool'[k].disabled
  PROVE  LlmInv'
BY NoReqFits, StepFits DEF End, LlmInv, TypeOK

(* A request that begins. *)
BegunReq(kind, legacy, ahead) ==
  [NoReq EXCEPT !.phase = IF ahead = <<>> THEN "no route" ELSE "between",
                !.kind = kind, !.legacy = legacy, !.ahead = ahead]

LEMMA BegunFits ==
  ASSUME NEW kind \in AllKinds, NEW legacy \in BOOLEAN, NEW ahead \in Seq(Hops \cup Pool)
  PROVE  /\ Fits(BegunReq(kind, legacy, ahead))
         /\ BegunReq(kind, legacy, ahead).legacy = legacy
         /\ BegunReq(kind, legacy, ahead).phase = "no route" => ahead = <<>>
<1> DEFINE begun == IF ahead = <<>> THEN "no route" ELSE "between"
           r == BegunReq(kind, legacy, ahead)
<1>1. /\ begun \in {"ended", "between", "calling", "no route"} /\ begun # "calling"
      /\ begun = "no route" => ahead = <<>>
  OBVIOUS
<1>2. NoReq \in Reqs /\ NoReq.spent = 0
  BY NoReqFits DEF Fits, NoReq
<1>3. r = [NoReq EXCEPT !.phase = begun, !.kind = kind, !.legacy = legacy, !.ahead = ahead]
  BY DEF BegunReq
<1> HIDE DEF begun, r
<1>4. /\ r \in Reqs
      /\ r.phase = begun /\ r.kind = kind /\ r.spent = 0 /\ r.legacy = legacy
  BY <1>1, <1>2, <1>3 DEF Reqs
<1>5. 0 <= Longest
  BY LongestIsLong
<1>6. Fits(r)
  BY <1>1, <1>4, <1>5 DEF Fits, Budgeted
<1> QED
  BY <1>1, <1>4, <1>6 DEF r

(* The starts. *)
LEMMA StartsFit ==
  ASSUME LlmInv, NEW q \in Requests, NEW kind \in AllKinds,
         StartOnChain(q, kind) \/ StartOnPool(q, kind)
  PROVE  LlmInv'
<1>1. /\ pool \in [Pool -> KeyStates] /\ health \in [Hops -> HopStates]
      /\ next \in 0..Cardinality(Pool) /\ next \in Nat /\ chain \in Seq(Hops)
  BY PoolSize, KeyPoolAssumption, LlmChainAssumption DEF LlmInv, TypeOK
<1>2. UNCHANGED <<chain, health, pool>>
  BY DEF StartOnChain, StartOnPool
<1>3. ASSUME NEW legacy \in BOOLEAN, NEW ahead \in Seq(Hops \cup Pool),
             ahead = <<>> => legacy /\ Enabled(pool) = {},
             req' = Begun(q, kind, legacy, ahead), next' \in 0..Cardinality(Pool)
      PROVE  LlmInv'
  <2> DEFINE r == BegunReq(kind, legacy, ahead)
  <2>1. req' = [req EXCEPT ![q] = r] /\ Fits(r)
    BY <1>3, BegunFits DEF Begun, BegunReq
  <2>2. r.phase = "no route" => r.legacy /\ Enabled(pool) = {}
    BY <1>3, BegunFits
  <2> HIDE DEF r
  <2> QED
    BY <1>1, <1>2, <1>3, <2>1, <2>2, StepFits
<1>4. CASE StartOnChain(q, kind)
  <2>1. Built(chain) \in Seq(Hops) /\ Built(chain) # <<>>
    BY <1>1, <1>4, BuiltType DEF StartOnChain
  <2>2. Built(chain) \in Seq(Hops \cup Pool)
    BY <2>1, SeqMonotonic
  <2> QED
    BY <1>1, <1>3, <1>4, <2>1, <2>2 DEF StartOnChain
<1>5. CASE StartOnPool(q, kind)
  <2>1. CASE Selections(pool, next) = {} /\ req' = Begun(q, kind, TRUE, <<>>) /\ next' = next
    <3>1. <<>> \in Seq(Hops \cup Pool) /\ Enabled(pool) = {}
      BY <1>1, <2>1, EmptySeq, SomeSelection
    <3> QED
      BY <1>1, <1>3, <2>1, <3>1
  <2>2. ASSUME NEW s \in Selections(pool, next),
               req' = Begun(q, kind, TRUE, RoutesFrom(pool, s[1])), next' = s[2]
        PROVE  LlmInv'
    <3>1. s[1] \in Pool /\ s[2] \in 0..Cardinality(Pool)
      BY <1>1, SelectionTypes
    <3>2. RoutesFrom(pool, s[1]) \in Seq(Pool) /\ RoutesFrom(pool, s[1]) # <<>>
      BY <3>1, RoutesType
    <3>3. RoutesFrom(pool, s[1]) \in Seq(Hops \cup Pool)
      BY <3>2, SeqMonotonic
    <3> QED
      BY <1>3, <2>2, <3>1, <3>2, <3>3
  <2> QED
    BY <1>5, <2>1, <2>2 DEF StartOnPool
<1> QED
  BY <1>4, <1>5

LEMMA LeftType ==
  ASSUME TypeOK, NEW q \in Requests
  PROVE  /\ Left(q) \in Nat /\ req[q].spent \in Nat
         /\ Left(q) > 0 => req[q].spent + Left(q) = Budget
<1>1. req[q].spent \in Nat
  BY DEF TypeOK, Reqs
<1> QED
  BY <1>1, Bounds DEF Left

LEMMA WithinType ==
  ASSUME TypeOK, NEW q \in Requests, NEW limit \in Nat
  PROVE  Within(q, limit) \in 0..limit /\ (InTurn(q) => Within(q, limit) <= Left(q))
BY LeftType DEF Within, Smaller

LEMMA ReadOfType ==
  ASSUME NEW kind
  PROVE  ReadOf(kind) \in {ReadLimit, WholeLimit, TotalLimit} /\ ReadOf(kind) \in Nat
<1>1. ReadOf(kind) \in {ReadLimit, WholeLimit, TotalLimit}
  BY Zenon DEF ReadOf
<1> QED
  BY <1>1, Bounds

(* A call to the next entry is cut to what is left of the budget. *)
LEMMA CallFits ==
  ASSUME LlmInv, NEW q \in Requests, Call(q)
  PROVE  LlmInv'
<1> DEFINE kind  == req[q].kind
           quiet == Within(q, ConnectLimit)
           read  == Within(q, ReadOf(kind))
           total == IF kind = "stream" THEN Larger(TotalLimit, Within(q, ReadLimit)) + 1 ELSE 0
           r == [req[q] EXCEPT !.phase = "calling", !.stage = "connect", !.quiet = quiet,
                               !.read = read, !.total = total]
<1>1. /\ req \in [Requests -> Reqs] /\ req[q] \in Reqs
      /\ req[q].spent \in Nat /\ kind \in AllKinds
      /\ req[q].ahead # <<>>
  BY DEF LlmInv, TypeOK, Call, Reqs
<1>2. req' = [req EXCEPT ![q] = r]
  BY <1>1 DEF Call
<1>3. /\ quiet \in 0..ConnectLimit /\ Within(q, ReadLimit) \in 0..ReadLimit
      /\ read \in 0..ReadLimit \cup 0..WholeLimit \cup 0..TotalLimit
  <2>1. TypeOK /\ ConnectLimit \in Nat /\ ReadLimit \in Nat
    BY Bounds DEF LlmInv
  <2>2. quiet \in 0..ConnectLimit /\ Within(q, ReadLimit) \in 0..ReadLimit
    BY <2>1, WithinType
  <2>3. read \in 0..ReadOf(kind)
    BY <2>1, WithinType, ReadOfType
  <2> HIDE DEF read, quiet, kind
  <2> QED
    BY <2>2, <2>3, ReadOfType
<1>4. total \in 0..(Larger(TotalLimit, ReadLimit) + 1)
  BY <1>3, Bounds DEF Larger
<1>5. quiet \in Limits /\ read \in Limits /\ total \in Limits
  BY <1>3, <1>4, Bounds DEF Limits, Larger
<1>6. InTurn(q) => req[q].spent + quiet <= Budget /\ req[q].spent + read <= Budget
  <2> SUFFICES ASSUME InTurn(q)
               PROVE  req[q].spent + quiet <= Budget /\ req[q].spent + read <= Budget
    OBVIOUS
  <2>1. Left(q) > 0
    BY LeftType, Bounds DEF LlmInv, Call, HasTime
  <2>2. quiet <= Left(q) /\ read <= Left(q)
    <3>1. TypeOK /\ ConnectLimit \in Nat
      BY Bounds DEF LlmInv
    <3> QED
      BY <3>1, WithinType, ReadOfType
  <2>3. read \in Nat /\ quiet \in Nat
    BY <1>3
  <2> HIDE DEF read, quiet, r
  <2> QED
    BY <1>1, <2>1, <2>2, <2>3, LeftType, Bounds DEF LlmInv
<1> HIDE DEF quiet, read, total, r
<1>7. /\ r \in Reqs /\ r.phase = "calling" /\ r.stage = "connect" /\ r.quiet = quiet
      /\ r.read = read /\ r.total = total /\ r.spent = req[q].spent /\ r.kind = kind
      /\ r.ahead = req[q].ahead
  BY <1>1, <1>5 DEF Reqs, r
<1>8. kind = "stream" => Budgeted(r)
  <2> SUFFICES ASSUME kind = "stream" PROVE Budgeted(r)
    OBVIOUS
  <2>1. InTurn(q)
    BY DEF InTurn
  <2>2. req[q].spent <= Longest
    BY <1>1, <1>6, <2>1, <1>3, Bounds, LongestIsLong
  <2>3. req[q].spent + quiet + read <= Budget + ConnectLimit
    BY <1>1, <1>3, <1>6, <2>1, Bounds
  <2>4. req[q].spent + total + read <= Budget + Larger(TotalLimit, ReadLimit) + 1
    <3>1. Larger(TotalLimit, ReadLimit) \in Nat /\ Budget \in Nat
      BY Bounds DEF Larger
    <3>2. total \in Nat /\ total <= Larger(TotalLimit, ReadLimit) + 1
      BY <1>4, <3>1
    <3>3. read \in Nat /\ req[q].spent + read <= Budget
      BY <1>3, <1>6, <2>1, Bounds
    <3> QED
      BY <1>1, <3>1, <3>2, <3>3
  <2> QED
    BY <1>7, <2>2, <2>3, <2>4 DEF Budgeted
<1>9. Fits(r)
  BY <1>1, <1>7, <1>8 DEF Fits
<1> QED
  BY <1>2, <1>7, <1>9, StepFits DEF Call, LlmInv, TypeOK

(* A connection, a chunk while the total lasts or a part of a whole answer *)
(* allows another read.                                                    *)
LEMMA ReadFits ==
  ASSUME LlmInv, NEW q \in Requests, Connected(q) \/ Chunk(q) \/ PartOfBody(q)
  PROVE  LlmInv'
<1>1. /\ req \in [Requests -> Reqs] /\ req[q] \in Reqs /\ Fits(req[q])
      /\ req[q].phase = "calling"
  BY DEF LlmInv, TypeOK, RequestsFit, Connected, Chunk, PartOfBody, Streaming
<1>2. PICK stage \in {"first", "text"} :
        req' = [req EXCEPT ![q] = [req[q] EXCEPT !.stage = stage, !.quiet = req[q].read]]
  <2>1. CASE Connected(q)
    BY <1>1, <2>1 DEF Connected
  <2>2. CASE Chunk(q)
    BY <1>1, <2>2 DEF Chunk
  <2>3. CASE PartOfBody(q)
    <3> DEFINE same == [req[q] EXCEPT !.stage = "first", !.quiet = req[q].read]
    <3>1. req[q].stage = "first"
      BY <2>3 DEF PartOfBody
    <3>2. req' = [req EXCEPT ![q] = [req[q] EXCEPT !.quiet = req[q].read]]
      BY <1>1, <2>3 DEF PartOfBody
    <3>3. [req[q] EXCEPT !.quiet = req[q].read] = same
      BY <1>1, <3>1 DEF Reqs
    <3> QED
      BY <3>2, <3>3
  <2> QED
    BY <2>1, <2>2, <2>3
<1> DEFINE r == [req[q] EXCEPT !.stage = stage, !.quiet = req[q].read]
<1>3. req' = [req EXCEPT ![q] = r]
  BY <1>2
<1>4. \/ req[q].stage = "connect"
      \/ req[q].kind = "stream" /\ req[q].total > 0
      \/ req[q].kind # "stream"
  BY DEF Connected, Chunk, PartOfBody, Streaming
<1>5. UNCHANGED <<chain, health, pool, next>>
  BY DEF Connected, Chunk, PartOfBody
<1> HIDE DEF r
<1>6. /\ r \in Reqs /\ r.phase = "calling" /\ r.stage = stage /\ r.quiet = req[q].read
      /\ r.read = req[q].read /\ r.total = req[q].total /\ r.spent = req[q].spent
      /\ r.kind = req[q].kind /\ r.ahead = req[q].ahead
  BY <1>1, <1>2 DEF Reqs, r
<1>7. /\ req[q].spent \in Nat /\ req[q].read \in Nat /\ req[q].quiet \in Nat
      /\ req[q].total \in Nat /\ req[q].kind \in AllKinds
  <2>1. Limits \subseteq Nat
    BY Bounds DEF Limits
  <2> QED
    BY <1>1, <2>1 DEF Reqs
<1>8. req[q].kind = "stream" => req[q].spent + req[q].read <= Longest
  <2> SUFFICES ASSUME req[q].kind = "stream"
               PROVE  req[q].spent + req[q].read <= Longest
    OBVIOUS
  <2>1. Budgeted(req[q])
    BY <1>1 DEF Fits
  <2>2. CASE req[q].stage = "connect"
    <3>1. req[q].spent + req[q].quiet + req[q].read <= Budget + ConnectLimit
      BY <1>1, <2>1, <2>2 DEF Budgeted
    <3> QED
      BY <1>7, <3>1, LongestIsLong, Bounds
  <2>3. CASE req[q].total > 0
    <3>1. req[q].spent + req[q].total + req[q].read
            <= Budget + Larger(TotalLimit, ReadLimit) + 1
      BY <1>1, <2>1, <2>3 DEF Budgeted
    <3>2. Larger(TotalLimit, ReadLimit) \in Nat
      BY Bounds DEF Larger
    <3> QED
      BY <1>7, <2>3, <3>1, <3>2, LongestIsLong, Bounds
  <2> QED
    BY <1>4, <2>2, <2>3
<1>9. Fits(r)
  BY <1>1, <1>2, <1>6, <1>8 DEF Fits, Budgeted
<1> QED
  BY <1>3, <1>5, <1>6, <1>9, StepFits DEF LlmInv, TypeOK

(* What the marks of an attempt make of the two tables. *)
LEMMA MarkTypes ==
  ASSUME TypeOK, NEW k, NEW s, k \in Pool => s \in KeyStates /\ (pool[k].disabled => s.disabled),
         MarkKey(k, s)
  PROVE  /\ pool' \in [Pool -> KeyStates]
         /\ \A x \in Pool : pool[x].disabled => pool'[x].disabled
BY DEF TypeOK, MarkKey

LEMMA EndsFit ==
  ASSUME LlmInv, NEW q \in Requests,
         \/ Cancel(q) \/ OutOfTime(q) \/ Exhausted(q) \/ EmptyAnswer(q) \/ Succeeds(q)
  PROVE  LlmInv'
<1>1. req' = End(q) /\ UNCHANGED <<chain, next>>
  BY DEF Cancel, OutOfTime, Exhausted, EmptyAnswer, Succeeds
<1>2. CASE UNCHANGED <<health, pool>>
  BY <1>1, <1>2, EndFits DEF LlmInv, TypeOK
<1>3. CASE Succeeds(q)
  <2>1. health' \in [Hops -> HopStates]
    BY <1>3, HopTypes DEF Succeeds, LlmInv, TypeOK
  <2>2. KeyOfEntry(q) \in Pool =>
          LET s == KeyAfterSuccess(pool[KeyOfEntry(q)])
          IN  s \in KeyStates /\ (pool[KeyOfEntry(q)].disabled => s.disabled)
    BY KeyTypes, DisabledStays DEF LlmInv, TypeOK
  <2>3. /\ pool' \in [Pool -> KeyStates]
        /\ \A k \in Pool : pool[k].disabled => pool'[k].disabled
    BY <1>3, <2>2, MarkTypes DEF Succeeds, LlmInv
  <2> QED
    BY <1>1, <2>1, <2>3, EndFits
<1> QED
  BY <1>2, <1>3 DEF Cancel, OutOfTime, Exhausted, EmptyAnswer

(* After a failure the next entry is tried. *)
LEMMA FailsFit ==
  ASSUME LlmInv, NEW q \in Requests, NEW f \in Failures, Fails(q, f)
  PROVE  LlmInv'
<1> DEFINE r == [req[q] EXCEPT !.phase = "between", !.stage = "none", !.ahead = AfterHop(q),
                               !.quiet = 0, !.read = 0, !.total = 0]
<1>1. /\ req \in [Requests -> Reqs] /\ req[q] \in Reqs /\ Fits(req[q])
      /\ req[q].ahead \in Seq(Hops \cup Pool) /\ req[q].ahead # <<>>
  BY DEF LlmInv, TypeOK, RequestsFit, Fits, Fails, Reqs
<1>2. req' = [req EXCEPT ![q] = r] /\ UNCHANGED <<chain, next>>
  BY <1>1 DEF Fails
<1>3. AfterHop(q) \in Seq(Hops \cup Pool) /\ 0 \in Limits
  BY <1>1, HeadTailProperties, Bounds DEF AfterHop, Limits
<1> HIDE DEF r
<1>4. /\ r \in Reqs /\ r.phase = "between" /\ r.spent = req[q].spent
      /\ r.kind = req[q].kind
  BY <1>1, <1>3 DEF Reqs, r
<1>5. Fits(r)
  BY <1>1, <1>4 DEF Fits, Budgeted
<1>6. health' \in [Hops -> HopStates]
  BY HopTypes DEF Fails, LlmInv, TypeOK
<1>7. KeyOfEntry(q) \in Pool =>
        LET s == KeyAfterFailure(pool[KeyOfEntry(q)], f)
        IN  s \in KeyStates /\ (pool[KeyOfEntry(q)].disabled => s.disabled)
  BY KeyTypes, DisabledStays DEF LlmInv, TypeOK
<1>8. /\ pool' \in [Pool -> KeyStates]
      /\ \A k \in Pool : pool[k].disabled => pool'[k].disabled
  BY <1>7, MarkTypes DEF Fails, LlmInv
<1> QED
  BY <1>2, <1>4, <1>5, <1>6, <1>8, StepFits DEF LlmInv, TypeOK

LEMMA GoneFits ==
  ASSUME LlmInv, NEW q \in Requests, CallerGone(q)
  PROVE  LlmInv'
<1> DEFINE r == [req[q] EXCEPT !.gone = TRUE]
<1>1. req \in [Requests -> Reqs] /\ req[q] \in Reqs /\ Fits(req[q])
  BY DEF LlmInv, TypeOK, RequestsFit
<1>2. req' = [req EXCEPT ![q] = r] /\ UNCHANGED <<chain, health, pool, next>>
  BY <1>1 DEF CallerGone
<1> HIDE DEF r
<1>3. /\ r \in Reqs /\ r.phase = req[q].phase /\ r.stage = req[q].stage
      /\ r.quiet = req[q].quiet /\ r.read = req[q].read /\ r.total = req[q].total
      /\ r.spent = req[q].spent /\ r.kind = req[q].kind /\ r.ahead = req[q].ahead
  BY <1>1 DEF Reqs, r
<1>4. Fits(r)
  BY <1>1, <1>3 DEF Fits, Budgeted
<1>5. r.phase # "no route"
  BY <1>3 DEF CallerGone, Ended
<1> QED
  BY <1>2, <1>4, <1>5, StepFits DEF LlmInv, TypeOK

LEMMA ResetFits ==
  ASSUME LlmInv, NEW h \in Hops, Reset(h)
  PROVE  LlmInv'
<1>1. UNCHANGED <<chain, pool, next, req>> /\ health' = [health EXCEPT ![h] = Well]
  BY DEF Reset
<1>2. TypeOK'
  BY <1>1, HopTypes DEF LlmInv, TypeOK
<1>3. RequestsFit'
  BY <1>1 DEF LlmInv, RequestsFit
<1>4. NeverStops'
  <2>1. Enabled(pool)' = Enabled(pool)
    BY <1>1 DEF Enabled
  <2> QED
    BY <1>1, <2>1 DEF LlmInv, NeverStops
<1> QED
  BY <1>2, <1>3, <1>4 DEF LlmInv

(* Time takes from what may be waited for what it adds to what is spent. *)
LEMMA AgedFits ==
  ASSUME NEW q \in Requests, req \in [Requests -> Reqs], Fits(req[q]),
         req[q].phase = "calling", req[q].quiet > 0,
         NEW r,
         r = [req[q] EXCEPT !.quiet = Less(@), !.total = Less(@),
                            !.spent = IF InTurn(q) THEN Smaller(@, Longest) + 1 ELSE 0]
  PROVE  Fits(r) /\ r.phase = "calling"
<1> DEFINE quiet == Less(req[q].quiet)
           total == Less(req[q].total)
           spent == IF InTurn(q) THEN Smaller(req[q].spent, Longest) + 1 ELSE 0
<1>1. Limits \subseteq Nat
  BY Bounds DEF Limits
<1>2. /\ req[q] \in Reqs /\ req[q].ahead # <<>>
      /\ req[q].quiet \in Limits /\ req[q].total \in Limits /\ req[q].read \in Nat
      /\ req[q].spent \in Nat /\ req[q].kind \in AllKinds
  BY <1>1 DEF Fits, Reqs
<1>3. /\ quiet \in Limits /\ total \in Limits /\ spent \in Nat
      /\ quiet + 1 = req[q].quiet /\ (total > 0 => total + 1 = req[q].total)
  <2>1. ASSUME NEW n \in Limits
        PROVE  /\ Less(n) \in Limits /\ (n > 0 => Less(n) + 1 = n)
               /\ (Less(n) > 0 => n > 0)
    <3> DEFINE m == ConnectLimit + ReadLimit + WholeLimit + TotalLimit
    <3>1. m \in Nat
      BY Bounds
    <3>2. Limits = 0..m
      BY DEF Limits
    <3> HIDE DEF m
    <3> QED
      BY <3>1, <3>2 DEF Less
  <2>2. quiet \in Limits /\ quiet + 1 = req[q].quiet
    BY <1>2, <2>1
  <2>4. total \in Limits /\ (total > 0 => total + 1 = req[q].total)
    BY <1>2, <2>1
  <2>3. spent \in Nat
    BY <1>2, LongestIsLong DEF Smaller
  <2> QED
    BY <2>2, <2>3, <2>4
<1>4. r = [req[q] EXCEPT !.quiet = quiet, !.total = total, !.spent = spent]
  OBVIOUS
<1>5. req[q].kind = "stream" => spent = req[q].spent + 1
  <2>1. req[q].kind = "stream" => InTurn(q) /\ req[q].spent <= Longest
    BY DEF InTurn, Fits, Budgeted
  <2> QED
    BY <2>1 DEF Smaller
<1> HIDE DEF quiet, total, spent
<1>6. /\ r \in Reqs /\ r.phase = "calling" /\ r.stage = req[q].stage /\ r.quiet = quiet
      /\ r.read = req[q].read /\ r.total = total /\ r.spent = spent
      /\ r.kind = req[q].kind /\ r.ahead = req[q].ahead
  BY <1>2, <1>3, <1>4, ZenonT(30) DEF Reqs
<1>7. r.kind = "stream" => Budgeted(r)
  <2> SUFFICES ASSUME r.kind = "stream" PROVE Budgeted(r)
    OBVIOUS
  <2>1. spent = req[q].spent + 1 /\ Budgeted(req[q])
    BY <1>5, <1>6 DEF Fits
  <2>2. Longest \in Nat /\ Budget + ConnectLimit <= Longest
    BY LongestIsLong
  <2>3. quiet \in Nat /\ total \in Nat
    BY <1>1, <1>3
  <2>4. total > 0 =>
          spent + total + r.read <= Budget + Larger(TotalLimit, ReadLimit) + 1
    <3> SUFFICES ASSUME total > 0
                 PROVE  spent + total + r.read <= Budget + Larger(TotalLimit, ReadLimit) + 1
      OBVIOUS
    <3>1. total + 1 = req[q].total /\ req[q].total > 0
      BY <1>3, <2>3
    <3>2. req[q].spent + req[q].total + req[q].read
            <= Budget + Larger(TotalLimit, ReadLimit) + 1
      BY <2>1, <3>1 DEF Budgeted
    <3>3. spent + total + r.read = req[q].spent + req[q].total + req[q].read
      BY <1>2, <1>6, <2>1, <2>3, <3>1
    <3> QED
      BY <3>2, <3>3
  <2>5. CASE r.stage = "connect"
    <3>1. spent + quiet + r.read <= Budget + ConnectLimit
      <4>1. req[q].spent + req[q].quiet + req[q].read <= Budget + ConnectLimit
        BY <1>6, <2>1, <2>5 DEF Budgeted
      <4>2. spent + quiet + r.read = req[q].spent + req[q].quiet + req[q].read
        BY <1>2, <1>3, <1>6, <2>1, <2>3
      <4> QED
        BY <4>1, <4>2
    <3>2. spent <= Longest
      BY <1>2, <1>3, <1>6, <2>2, <2>3, <3>1, Bounds, SMTT(20)
    <3> QED
      BY <1>6, <2>4, <2>5, <3>1, <3>2 DEF Budgeted
  <2>6. CASE r.stage # "connect"
    <3>1. spent + quiet <= Longest
      BY <1>2, <1>3, <1>6, <2>1, <2>2, <2>3, <2>6 DEF Budgeted
    <3>2. spent <= Longest
      BY <1>3, <2>2, <2>3, <3>1
    <3> QED
      BY <1>6, <2>4, <2>6, <3>1, <3>2 DEF Budgeted
  <2> QED
    BY <2>5, <2>6
<1> QED
  BY <1>2, <1>6, <1>7 DEF Fits

LEMMA TickFits ==
  ASSUME LlmInv, Tick
  PROVE  LlmInv'
<1>1. /\ req \in [Requests -> Reqs] /\ \A q \in Requests : Fits(req[q])
      /\ health \in [Hops -> HopStates] /\ pool \in [Pool -> KeyStates]
      /\ UNCHANGED <<chain, next>>
  BY DEF LlmInv, TypeOK, RequestsFit, Tick
<1>2. ASSUME NEW q \in Requests
      PROVE  /\ Fits(req'[q])
             /\ req'[q].phase = "no route" => req'[q] = req[q]
  <2>1. CASE Ended(q)
    BY <1>1, <2>1 DEF Tick
  <2>2. CASE ~Ended(q)
    <3>1. req[q].phase = "calling" /\ req[q].quiet > 0
      BY <2>2 DEF Tick, AllWait, Waits
    <3>2. req'[q] = [req[q] EXCEPT !.quiet = Less(@), !.total = Less(@),
                                   !.spent = IF InTurn(q) THEN Smaller(@, Longest) + 1 ELSE 0]
      BY <2>2 DEF Tick
    <3>3. Fits(req'[q]) /\ req'[q].phase = "calling"
      BY <1>1, <3>1, <3>2, AgedFits
    <3> QED
      BY <3>3
  <2> QED
    BY <2>1, <2>2
<1>3. RequestsFit'
  BY <1>2 DEF RequestsFit
<1>4. TypeOK'
  <2>1. health' \in [Hops -> HopStates]
    BY <1>1, HopTypes DEF Tick
  <2>2. pool' \in [Pool -> KeyStates]
    BY <1>1, KeyTypes DEF Tick
  <2>3. DOMAIN req' = Requests /\ req' = [q \in Requests |-> req'[q]]
    BY DEF Tick
  <2>4. req' \in [Requests -> Reqs]
    BY <1>2, <2>3 DEF Fits
  <2> QED
    BY <1>1, <2>1, <2>2, <2>4 DEF LlmInv, TypeOK
<1>5. NeverStops'
  <2>1. \A k \in Pool : pool[k].disabled => pool'[k].disabled
    BY <1>1, DisabledStays DEF Tick
  <2>2. Enabled(pool) = {} => Enabled(pool)' = {}
    BY <2>1 DEF Enabled
  <2> QED
    BY <1>2, <2>2 DEF LlmInv, NeverStops
<1> QED
  BY <1>3, <1>4, <1>5 DEF LlmInv

LEMMA InitFits ==
  ASSUME Init
  PROVE  LlmInv
<1>1. TypeOK
  <2>1. 0 \in 0..Cardinality(Pool)
    BY PoolSize, KeyPoolAssumption
  <2>2. NoReq \in Reqs /\ Well \in HopStates /\ NewKey \in KeyStates
    BY NoReqFits, HopTypes, KeyTypes DEF Fits
  <2> QED
    BY <2>1, <2>2 DEF Init, TypeOK
<1>2. RequestsFit
  BY NoReqFits DEF Init, RequestsFit
<1>3. NeverStops
  BY NoReqFits DEF Init, NeverStops
<1> QED
  BY <1>1, <1>2, <1>3 DEF LlmInv

LEMMA NextFits ==
  ASSUME LlmInv, Next
  PROVE  LlmInv'
<1>1. CASE Tick
  BY <1>1, TickFits
<1>2. CASE \E h \in Hops : Reset(h)
  BY <1>2, ResetFits
<1>3. ASSUME NEW q \in Requests,
             \/ \E kind \in Kinds[q] : StartOnChain(q, kind) \/ StartOnPool(q, kind)
             \/ Step(q) \/ Connected(q) \/ Chunk(q) \/ PartOfBody(q) \/ Succeeds(q)
             \/ EmptyAnswer(q) \/ CallerGone(q)
             \/ \E f \in Failures : Fails(q, f)
      PROVE  LlmInv'
  <2>1. ASSUME NEW kind \in Kinds[q], StartOnChain(q, kind) \/ StartOnPool(q, kind)
        PROVE  LlmInv'
    <3>1. kind \in AllKinds
      BY LlmChainAssumption
    <3> QED
      BY <2>1, <3>1, StartsFit
  <2>2. CASE \/ Cancel(q) \/ OutOfTime(q) \/ Exhausted(q) \/ EmptyAnswer(q) \/ Succeeds(q)
    BY <2>2, EndsFit
  <2>3. CASE Call(q)
    BY <2>3, CallFits
  <2>4. CASE TimesOut(q) \/ \E f \in Failures : Fails(q, f)
    BY <2>4, FailsFit DEF TimesOut, Failures
  <2>5. CASE Connected(q) \/ Chunk(q) \/ PartOfBody(q)
    BY <2>5, ReadFits
  <2>6. CASE CallerGone(q)
    BY <2>6, GoneFits
  <2> QED
    BY <1>3, <2>1, <2>2, <2>3, <2>4, <2>5, <2>6 DEF Step
<1> QED
  BY <1>1, <1>2, <1>3 DEF Next

-----------------------------------------------------------------------------
(* The calls to the LLM keep the invariant: every stream of a turn always  *)
(* has its longest remaining wait within its budget and one total limit.   *)
THEOREM Invariance == Spec => []LlmInv
<1>1. Init => LlmInv
  BY InitFits
<1>2. LlmInv /\ [Next]_vars => LlmInv'
  <2>1. ASSUME LlmInv, UNCHANGED vars PROVE LlmInv'
    <3>1. LlmInv <=> LlmInv'
      BY <2>1 DEF vars, LlmInv, TypeOK, RequestsFit, NeverStops, Enabled
    <3> QED
      BY <2>1, <3>1
  <2> QED
    BY <2>1, NextFits
<1> QED
  BY <1>1, <1>2, PTL DEF Spec

(* Requests, health and pool keep to what llm_client.py, provider_health.py *)
(* and key_pool.py let them hold; next is an index of the pool's keys.      *)
THEOREM TypeCorrect == Spec => []TypeOK
<1>1. LlmInv => TypeOK
  BY DEF LlmInv
<1> QED
  BY <1>1, Invariance, PTL

(* The streamed call of a chat turn ends within its budget and one total   *)
(* limit, whatever hops fail, drip or stay silent, in whatever order: the  *)
(* clock of the chain cuts each hop to what the earlier ones left.         *)
THEOREM TimeIsKept == Spec => []EndsInTime
<1>1. LlmInv => EndsInTime
  <2> SUFFICES ASSUME LlmInv, NEW q \in Requests, req[q].kind = "stream"
               PROVE  req[q].spent <= Longest
    BY DEF EndsInTime
  <2> QED
    BY DEF LlmInv, RequestsFit, Fits, Budgeted
<1> QED
  BY <1>1, Invariance, PTL

(* A request is without a route only when the settings leave no hop and    *)
(* every key of the pool is disabled, and then all keys stay so: failures, *)
(* cool-downs and open circuits may slow a turn, but never stop it.        *)
THEOREM NeverStopped == Spec => []NeverStops
<1>1. LlmInv => NeverStops
  BY DEF LlmInv
<1> QED
  BY <1>1, Invariance, PTL
=============================================================================
