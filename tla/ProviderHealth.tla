---------------------------- MODULE ProviderHealth ----------------------------
(***************************************************************************)
(* What Brain remembers of each provider hop (core/provider_health.py), as *)
(* a value that calls transform, and the order in which a turn tries hops. *)
(* A hop that is absent from the table is one in the state Well.           *)
(***************************************************************************)
EXTENDS Naturals, FiniteSets, Sequences, Ranking

CONSTANTS
  CoolAt,          \* TRANSIENT_FAILURES_TO_COOL
  QuotaSeconds,    \* QUOTA_COOLDOWN_SECONDS
  TransientSeconds \* TRANSIENT_COOLDOWN_SECONDS

ASSUME ProviderHealthAssumption ==
  /\ CoolAt \in Nat \ {0}
  /\ {QuotaSeconds, TransientSeconds} \subseteq Nat

(* retry is the time left until retry_at; math.inf is a time that does not *)
(* pass and exceeds every other.                                           *)
Never == QuotaSeconds + TransientSeconds + 1

HopStates == [failures : 0..CoolAt, retry : 0..Never]

Well == [failures |-> 0, retry |-> 0]

(* Failures of every kind are counted, and only compared with CoolAt.      *)
HopAfterFailure(s, failure) ==
  [failures |-> IF s.failures = CoolAt THEN CoolAt ELSE s.failures + 1,
   retry |-> CASE failure = "auth"          -> Never
               [] failure = "quota"         -> QuotaSeconds
               [] s.failures + 1 >= CoolAt  -> TransientSeconds
               [] OTHER                     -> 0]

HopAged_never(s) == s
HopAged(s) == [s EXCEPT !.retry = IF @ \in {0, Never} THEN @ ELSE @ - 1]

(* order: the ready hops as configured, then the cooling ones by the end   *)
(* of their cool-down, then the blocked ones.                              *)
InOrder(chain, health) ==
  LET Retry(i)     == health[chain[i]].retry
      Before(i, j) == Retry(i) < Retry(j) \/ (Retry(i) = Retry(j) /\ i < j)
      places       == DOMAIN chain
      order        == Ranked(places, {p \in places \X places : Before(p[1], p[2])})
  IN [n \in 1..Cardinality(places) |-> chain[order[n]]]
=============================================================================
