--------------------------- MODULE UpstreamBreaker ---------------------------
(***************************************************************************)
(* The Backend's circuit breaker for one upstream node, as a value that    *)
(* calls and background probes transform.  The class keeps absolute        *)
(* monotonic times; here a time is what is left of it, so that a state is  *)
(* aged when time passes.  A node that is absent from the breaker's table  *)
(* is one in the state Fresh.                                              *)
(***************************************************************************)
EXTENDS Naturals

CONSTANTS
  Threshold,   \* upstream_breaker_failures
  CoolDown,    \* upstream_breaker_cooldown_seconds
  DownFor      \* how long a failed probe counts: three probe intervals

ASSUME BreakerAssumption ==
  /\ Threshold \in Nat \ {0}
  /\ CoolDown \in Nat
  /\ DownFor \in Nat \ {0}

Smaller(a, b) == IF a <= b THEN a ELSE b
Larger(a, b)  == IF a <= b THEN b ELSE a
Less(n)       == IF n = 0 THEN 0 ELSE n - 1

(* How a call fails: no connection; a timeout or a 5xx answer; a 4xx       *)
(* answer; or something that is not the node's own (exempt: its cached     *)
(* health, the word table, a missing credential).                          *)
Failures == {"unreachable", "slow", "refused", "exempt"}
Counts(failure) == failure \in {"unreachable", "slow"}

(* Failures are only compared with 0 and with Threshold: counted to there. *)
NodeStates == [failures : 0..Threshold, open : 0..CoolDown,
               unreachable : BOOLEAN, probe : 0..DownFor]

Fresh == [failures |-> 0, open |-> 0, unreachable |-> FALSE, probe |-> 0]

Cooling(s) == Larger(s.open, s.probe) > 0

Trips(s, failure) ==
  failure = "unreachable" \/ (failure = "slow" /\ s.failures + 1 >= Threshold)

(* record_success, also called for a failure that does not count. *)
AfterSuccess(s) == Fresh

AfterFailure(s, failure) ==
  IF Counts(failure)
  THEN [s EXCEPT !.failures = Smaller(@ + 1, Threshold),
                 !.unreachable = (failure = "unreachable"),
                 !.open = IF Trips(s, failure) THEN CoolDown ELSE @]
  ELSE AfterSuccess(s)

(* What record_failure returns: this failure has opened the breaker. *)
Opens(s, failure) == Trips(s, failure) /\ s.open = 0

(* mark_down and mark_up. *)
AfterProbe(s, up) ==
  CASE ~up -> [s EXCEPT !.probe = DownFor]
    [] up /\ (s.unreachable \/ s.failures = 0) -> Fresh
    [] OTHER -> [s EXCEPT !.probe = 0]

(* What mark_up returns: a cool-down for want of a connection has ended. *)
Lifts(s) == s.unreachable /\ s.open > 0

(* One unit of time later. *)
Aged_down(s) == [s EXCEPT !.open = Less(@)]
Aged(s) == [s EXCEPT !.open = Less(@), !.probe = Less(@)]
=============================================================================
