------------------------------- MODULE LlmChain -------------------------------
(***************************************************************************)
(* Calls to the LLM (core/llm_client.py): each is made by a worker thread  *)
(* and walks a chain of provider hops, or the keys of the pool when the    *)
(* settings leave no hop, under limits of its own and, inside a chat turn, *)
(* a common budget.  Threads share the provider health and the key pool.   *)
(***************************************************************************)
EXTENDS KeyPool, ProviderHealth

CONSTANTS
  Hops,          \* hops with a key: provider, model and key
  KeyOf,         \* the key of a hop, in the pool or not
  Chains,        \* chains that the settings may resolve to; <<>>: no hop
  Requests,
  Kinds,         \* the kinds of requests that each thread makes
  MaxHops,       \* llm_max_fallback_hops
  Budget,        \* llm_first_token_budget_seconds
  MinHop,        \* _MIN_HOP_SECONDS
  ConnectLimit,  \* llm_connect_timeout_seconds
  ReadLimit,     \* llm_first_token_timeout_seconds
  WholeLimit,    \* llm_nonstream_timeout_seconds
  TotalLimit     \* llm_request_timeout_seconds

(* A streamed or a whole answer inside a chat turn; or a whole one outside *)
(* of it (graph extraction, summaries), which has no budget.               *)
AllKinds == {"stream", "whole", "batch"}

ASSUME LlmChainAssumption ==
  /\ DOMAIN KeyOf = Hops
  /\ Chains \subseteq Seq(Hops) /\ Chains # {}
  /\ Kinds \in [Requests -> SUBSET AllKinds]
  /\ {MaxHops, MinHop, ConnectLimit, ReadLimit, WholeLimit, TotalLimit} \subseteq Nat \ {0}
  /\ Budget \in Nat /\ MinHop <= Budget

VARIABLES
  chain,    \* what the settings of the process resolve to
  health,   \* health[h]: provider_health
  pool,     \* pool[k]: KeyPoolManager._states
  next,     \* KeyPoolManager._next_index
  req       \* req[q]: a request: see Reqs

vars == <<chain, health, pool, next, req>>

-----------------------------------------------------------------------------
Smaller(a, b) == IF a <= b THEN a ELSE b
Larger(a, b)  == IF a <= b THEN b ELSE a
Less(n)       == IF n = 0 THEN 0 ELSE n - 1

ReadOf(kind) ==
  CASE kind = "stream" -> ReadLimit [] kind = "whole" -> WholeLimit [] OTHER -> TotalLimit

(* The longest a streamed call may take: what its last hop waits for       *)
(* without a chunk is cut to the budget, and until its last chunk it may   *)
(* take its total more.                                                    *)
Longest == Budget + Larger(ConnectLimit, Larger(TotalLimit, ReadLimit))

(* ahead: the entries from the current one on, hops or (legacy) keys.      *)
(* stage of the call under way: waiting for a connection, for the answer   *)
(* to begin, or for its next chunk; quiet: until its read times out; read: *)
(* the read limit; total: 0 when the deadline of the whole stream has      *)
(* passed, else one more than is left to it.  spent: of the budget, and    *)
(* beyond it, up to where it tells nothing.  gone: the caller disconnected. *)
Limits == 0..(ConnectLimit + ReadLimit + WholeLimit + TotalLimit)
Reqs == [phase : {"ended", "between", "calling", "no route"},
         kind : AllKinds, legacy : BOOLEAN, ahead : Seq(Hops \cup Pool),
         stage : {"none", "connect", "first", "text"}, quiet : Limits, read : Limits,
         total : Limits, spent : Nat, gone : BOOLEAN]

NoReq == [phase |-> "ended", kind |-> "batch", legacy |-> FALSE, ahead |-> <<>>,
          stage |-> "none", quiet |-> 0, read |-> 0, total |-> 0, spent |-> 0,
          gone |-> FALSE]

TypeOK ==
  /\ chain \in Chains
  /\ health \in [Hops -> HopStates]
  /\ pool \in [Pool -> KeyStates]
  /\ next \in 0..Cardinality(Pool)
  /\ req \in [Requests -> Reqs]

Init ==
  /\ chain \in Chains
  /\ health = [h \in Hops |-> Well]
  /\ pool = [k \in Pool |-> NewKey]
  /\ next = 0
  /\ req = [q \in Requests |-> NoReq]

InTurn(q) == req[q].kind # "batch"
Ended(q)  == req[q].phase \in {"ended", "no route"}

(* build_fallback_chain: the first MaxHops of the ordered chain.           *)
Built(c) == SubSeq(InOrder(c, health), 1, Smaller(MaxHops, Len(c)))

Begun(q, kind, legacy, ahead) ==
  [req EXCEPT ![q] = [NoReq EXCEPT
     !.phase = IF ahead = <<>> THEN "no route" ELSE "between",
     !.kind = kind, !.legacy = legacy, !.ahead = ahead]]

StartOnChain(q, kind) ==
  /\ Ended(q)
  /\ chain # <<>>
  /\ req' = Begun(q, kind, FALSE, Built(chain))
  /\ UNCHANGED <<chain, health, pool, next>>

(* iter_routes; None of select_key is a request without a route.           *)
StartOnPool(q, kind) ==
  /\ Ended(q)
  /\ chain = <<>>
  /\ \/ /\ Selections(pool, next) = {}
        /\ req' = Begun(q, kind, TRUE, <<>>)
        /\ next' = next
     \/ \E s \in Selections(pool, next) :
          /\ req' = Begun(q, kind, TRUE, RoutesFrom(pool, s[1]))
          /\ next' = s[2]
  /\ UNCHANGED <<chain, health, pool>>

Entry(q) == Head(req[q].ahead)

(* The call returns or raises: an answer, a cancellation, no hop left.     *)
End(q) == [req EXCEPT ![q] = NoReq]

(* raise_if_cancelled before each hop, and between the chunks of a stream. *)
Cancel(q) ==
  /\ req[q].gone
  /\ \/ req[q].phase = "between" /\ req[q].ahead # <<>>
     \/ req[q].phase = "calling" /\ req[q].kind = "stream" /\ req[q].stage # "connect"
  /\ req' = End(q)
  /\ UNCHANGED <<chain, health, pool, next>>

(* _ChainClock.limits: is there time for another hop, and how much?        *)
Left(q) == IF req[q].spent < Budget THEN Budget - req[q].spent ELSE 0

HasTime(q) == ~InTurn(q) \/ Left(q) >= MinHop

Within_own(q, limit) == limit
Within(q, limit) == IF InTurn(q) THEN Smaller(limit, Left(q)) ELSE limit

Call(q) ==
  /\ req[q].phase = "between"
  /\ req[q].ahead # <<>>
  /\ ~req[q].gone
  /\ HasTime(q)
  /\ req' = [req EXCEPT
       ![q].phase = "calling", ![q].stage = "connect",
       ![q].quiet = Within(q, ConnectLimit),
       ![q].read  = Within(q, ReadOf(req[q].kind)),
       ![q].total = IF req[q].kind = "stream"
                    THEN Larger(TotalLimit, Within(q, ReadLimit)) + 1 ELSE 0]
  /\ UNCHANGED <<chain, health, pool, next>>

OutOfTime(q) ==
  /\ req[q].phase = "between"
  /\ req[q].ahead # <<>>
  /\ ~req[q].gone
  /\ ~HasTime(q)
  /\ req' = End(q)
  /\ UNCHANGED <<chain, health, pool, next>>

Exhausted(q) ==
  /\ req[q].phase = "between"
  /\ req[q].ahead = <<>>
  /\ req' = End(q)
  /\ UNCHANGED <<chain, health, pool, next>>

Connected(q) ==
  /\ req[q].phase = "calling"
  /\ req[q].stage = "connect"
  /\ req' = [req EXCEPT ![q].stage = "first", ![q].quiet = req[q].read]
  /\ UNCHANGED <<chain, health, pool, next>>

Streaming(q) ==
  req[q].phase = "calling" /\ req[q].stage \in {"first", "text"} /\ req[q].kind = "stream"

(* A chunk is taken while the hop's total lasts.  (Lines of the event      *)
(* stream that are no chunk, and that no limit sees, are left out.)        *)
Chunk(q) ==
  /\ Streaming(q)
  /\ ~req[q].gone
  /\ req[q].total > 0
  /\ req' = [req EXCEPT ![q].stage = "text", ![q].quiet = req[q].read]
  /\ UNCHANGED <<chain, health, pool, next>>

(* A part of a whole answer: the read limit is one of httpx and holds for  *)
(* each read of the body; nothing limits their sum.                        *)
PartOfBody(q) ==
  /\ req[q].phase = "calling"
  /\ req[q].stage = "first"
  /\ req[q].kind # "stream"
  /\ req' = [req EXCEPT ![q].quiet = req[q].read]
  /\ UNCHANGED <<chain, health, pool, next>>

(* router.mark_success and record_success, mark_failure and record_failure *)
(* change two tables one after the other; no reader looks at both.         *)
KeyOfEntry(q) == IF req[q].legacy THEN Entry(q) ELSE KeyOf[Entry(q)]
MarkKey(k, state) ==
  pool' = IF k \in Pool THEN [pool EXCEPT ![k] = state] ELSE pool

Succeeds(q) ==
  /\ req[q].phase = "calling"
  /\ req[q].stage # "connect"
  /\ req[q].kind # "stream" \/ (req[q].stage = "text" /\ ~req[q].gone)
  /\ MarkKey(KeyOfEntry(q), KeyAfterSuccess(pool[KeyOfEntry(q)]))
  /\ health' = IF req[q].legacy THEN health ELSE [health EXCEPT ![Entry(q)] = Well]
  /\ req' = End(q)
  /\ UNCHANGED <<chain, next>>

(* A stream that ends without content: the error is raised past the chain, *)
(* neither a success nor a failure of the hop.                             *)
EmptyAnswer(q) ==
  /\ Streaming(q)
  /\ req[q].stage = "first"
  /\ ~req[q].gone
  /\ req' = End(q)
  /\ UNCHANGED <<chain, health, pool, next>>

AfterHop(q) == Tail(req[q].ahead)

Fails(q, failure) ==
  /\ req[q].phase = "calling"
  /\ MarkKey(KeyOfEntry(q), KeyAfterFailure(pool[KeyOfEntry(q)], failure))
  /\ health' = IF req[q].legacy THEN health
               ELSE [health EXCEPT ![Entry(q)] = HopAfterFailure(@, failure)]
  /\ req' = [req EXCEPT ![q].phase = "between", ![q].stage = "none",
                        ![q].ahead = AfterHop(q), ![q].quiet = 0, ![q].read = 0, ![q].total = 0]
  /\ UNCHANGED <<chain, next>>

(* A limit is reached: the connection or a read times out, or a chunk      *)
(* comes after the total.                                                  *)
TimesOut(q) ==
  /\ req[q].quiet = 0 \/ (Streaming(q) /\ req[q].total = 0)
  /\ Fails(q, "transient")

(* The caller of a chat turn disconnects.                                  *)
CallerGone(q) ==
  /\ ~Ended(q)
  /\ InTurn(q)
  /\ ~req[q].gone
  /\ req' = [req EXCEPT ![q].gone = TRUE]
  /\ UNCHANGED <<chain, health, pool, next>>

(* The Admin has the failures of a hop forgotten.                          *)
Reset(h) ==
  /\ health[h] # Well
  /\ health' = [health EXCEPT ![h] = Well]
  /\ UNCHANGED <<chain, pool, next, req>>

(* Time passes while every thread waits for a provider; a wait that is     *)
(* over ends before time goes on.                                          *)
Waits(q) == Ended(q) \/ (req[q].phase = "calling" /\ req[q].quiet > 0)
AllWait == \A q \in Requests : Waits(q)

Tick ==
  /\ AllWait
  /\ health' = [h \in Hops |-> HopAged(health[h])]
  /\ pool' = [k \in Pool |-> KeyAged(pool[k])]
  /\ req' = [q \in Requests |->
       IF Ended(q) THEN req[q]
       ELSE [req[q] EXCEPT !.quiet = Less(@), !.total = Less(@),
                           !.spent = IF InTurn(q) THEN Smaller(@, Longest) + 1 ELSE 0]]
  /\ UNCHANGED <<chain, next>>

Step(q) ==
  \/ Cancel(q) \/ Call(q) \/ OutOfTime(q) \/ Exhausted(q) \/ TimesOut(q)

Next ==
  \/ Tick
  \/ \E h \in Hops : Reset(h)
  \/ \E q \in Requests :
       \/ \E kind \in Kinds[q] : StartOnChain(q, kind) \/ StartOnPool(q, kind)
       \/ Step(q) \/ Connected(q) \/ Chunk(q) \/ PartOfBody(q) \/ Succeeds(q)
       \/ EmptyAnswer(q) \/ CallerGone(q)
       \/ \E f \in Failures : Fails(q, f)

(* Threads run, and their own work takes no time for ever: now and then    *)
(* all of them wait, and the clock goes on.                                *)
Fairness ==
  /\ []<>AllWait /\ SF_vars(Tick)
  /\ \A q \in Requests : SF_vars(Step(q))

Spec     == Init /\ [][Next]_vars
FairSpec == Spec /\ Fairness

-----------------------------------------------------------------------------
(* Properties.                                                             *)

(* The streamed call of a chat turn ends within its budget and one total   *)
(* limit, however the hops drip their answers: the deadline of the whole   *)
(* request in routes/chat.py is computed from it.                          *)
EndsInTime ==
  \A q \in Requests : req[q].kind = "stream" => req[q].spent <= Longest

(* Health and pool may slow a turn but never stop it: without a route is   *)
(* only a request that found no hop with a key and every key of the pool   *)
(* disabled, and all keys stay so (provider_health.py; select_key).        *)
NeverStops ==
  \A q \in Requests :
    req[q].phase = "no route" => req[q].legacy /\ Enabled(pool) = {}

Ahead(h, c) == {c[i] : i \in 1..((CHOOSE j \in DOMAIN c : c[j] = h) - 1)}
Blocked(h) == health[h].retry = Never

(* Once calls stop failing, every turn is again sent to the first          *)
(* configured hop that is not blocked; a call that was sent earlier may    *)
(* still read the answer of another, for ever if that answer drips.        *)
AsConfigured ==
  \A q \in Requests :
    (req[q].stage = "connect" /\ ~req[q].legacy) =>
      \A h \in Ahead(Entry(q), chain) : Blocked(h)
Failing == \E q \in Requests, f \in Failures : Fails(q, f)
RecoversOrder == <>[][~Failing]_vars => <>[]AsConfigured
=============================================================================
