------------------------------- MODULE KeyPool -------------------------------
(***************************************************************************)
(* The pool of API keys of the main LLM provider (core/key_pool.py): the   *)
(* state of one key as a value, and which key a caller gets.  The class    *)
(* keeps absolute monotonic times; here a time is what is left of it.      *)
(***************************************************************************)
EXTENDS Naturals, FiniteSets, Sequences, Ranking

CONSTANTS
  KeyOrder,    \* the configured keys, in order
  OpenAt,      \* _CIRCUIT_OPEN_THRESHOLD
  ShortCool,   \* llm_key_cooldown_seconds
  LongCool     \* llm_key_long_cooldown_seconds

Pool == {KeyOrder[i] : i \in DOMAIN KeyOrder}

ASSUME KeyPoolAssumption ==
  /\ KeyOrder \in Seq(Pool)
  /\ Cardinality(Pool) = Len(KeyOrder)
  /\ OpenAt \in Nat \ {0}
  /\ {ShortCool, LongCool} \subseteq Nat

(* What classify_failure tells the pool: a key that is refused, one whose  *)
(* quota is used up, and everything else (rate limit, 5xx, timeouts).      *)
Failures == {"auth", "quota", "transient"}

CoolFor(failure) == IF failure = "quota" THEN LongCool ELSE ShortCool

(* healthy is failures = 0; the circuit is OPEN from OpenAt failures on,   *)
(* up to which they are counted; HALF_OPEN makes no difference to anyone.  *)
KeyStates == [disabled : BOOLEAN, failures : 0..OpenAt,
              cool : 0..(ShortCool + LongCool)]

NewKey == [disabled |-> FALSE, failures |-> 0, cool |-> 0]

Capped(n, limit) == IF n > limit THEN limit ELSE n

KeyAfterSuccess(s) == [s EXCEPT !.failures = 0, !.cool = 0]

KeyAfterFailure(s, failure) ==
  IF failure = "auth"
  THEN [s EXCEPT !.disabled = TRUE, !.failures = Capped(@ + 1, OpenAt)]
  ELSE [s EXCEPT !.failures = Capped(@ + 1, OpenAt), !.cool = CoolFor(failure)]

KeyAged(s) == [s EXCEPT !.cool = IF @ = 0 THEN 0 ELSE @ - 1]

Available(s) == ~s.disabled /\ s.failures < OpenAt /\ s.cool = 0

(* The keys of a set, in the configured order. *)
InPoolOrder(keys) ==
  LET places == {i \in DOMAIN KeyOrder : KeyOrder[i] \in keys}
      order  == Ranked(places, {p \in places \X places : p[1] < p[2]})
  IN [n \in 1..Cardinality(places) |-> KeyOrder[order[n]]]

(* select_key as the set of pairs <<key, next index>> it may return: the   *)
(* next available key in turn, or else the one whose cool-down ends first  *)
(* (of several that have ended, any: how long ago is not kept).            *)
AvailableKeys(pool) == InPoolOrder({k \in Pool : Available(pool[k])})
Enabled(pool) == {k \in Pool : ~pool[k].disabled}

Selections_strict(pool, next) ==
  LET available == AvailableKeys(pool) IN
  IF available = <<>> THEN {}
  ELSE {<<available[(next % Len(available)) + 1], (next % Len(available)) + 1>>}

Selections(pool, next) ==
  LET available == AvailableKeys(pool)
      i         == next % Len(available)
  IN IF available # <<>>
     THEN {<<available[i + 1], i + 1>>}
     ELSE {<<k, next>> : k \in
             {x \in Enabled(pool) : \A y \in Enabled(pool) : pool[x].cool <= pool[y].cool}}

(* iter_routes for one model: the selected key, then every other key that  *)
(* is not disabled, the cooling ones included.                             *)
RoutesFrom(pool, selected) ==
  <<selected>> \o InPoolOrder(Enabled(pool) \ {selected})
=============================================================================
