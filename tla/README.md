# A formal model of openVman

openVman is an interactive virtual human: a browser page with an avatar, a
Backend (FastAPI: speech recognition, speech synthesis, gateway, agent-to-agent
bridge, accounts), a Brain (FastAPI: sessions, generation, memory, knowledge),
an avatar pipeline and an embedding service. This directory holds the TLA+
modules that model its coordination logic, the TLC configurations that check
them on small instances, and TLAPS proofs of what matters most for instances of
every size. `PROJECT.json` maps every definition to the lines it models.

## 1. The system

| component | state it keeps | operations | interacts with | what is hard | what makes it correct |
|---|---|---|---|---|---|
| chat turns (`session_store.py`, `chat_turns.py`, `routes/chat.py`, `useAvatarTextTurn.ts`) | receipts (`chat_turns`), live messages, permanent record, the page's pending and accepting slots | ask, merge, interrupt, stage, accept, prune, delete | page ↔ Backend proxy ↔ Brain ↔ SQLite | retries after a lost answer, reordered requests, bounded receipts, expiry and deletion under way, deadline of a thread that goes on | a turn is recorded once, in its last version, and what the page was told is kept |
| A2A bridge (`a2a_bridge.py`, `a2a_queue.py`) | lease in Redis, durable SQLite queue, outbound tasks | elect, stream, enqueue, acknowledge, ask Brain, reply, sweep | hub (SSE, HTTP), Brain, Redis, SQLite | lease loss, restarts, lost answers, three loops per instance | nothing is acknowledged that is not queued, nothing completed that was not delivered, an event settles unless its update raised or its instance stopped |
| upstream breaker and probes (`upstream_guard.py`, `upstream_probe.py`) | failures, cool-down and probe verdict per node | record success or failure, mark up or down | TTS and ASR chains, probe loop | calls that overlap trips and probes | a node that fails is skipped for its cool-down, a healthy one is not skipped for ever |
| TTS chain (`service.py`) and batch ASR (`ingestion_audio.py`) | a deadline per request; the ASR has a second cool-down table | hop, fall back | breaker, engines | two tables for one fact, budget used up between hops | an answer, or an error after every hop was tried or skipped for a reason |
| LLM client (`llm_client.py`, `fallback_chain.py`, `provider_router.py`) | per request: the hops ahead, limits, what is left of the turn's budget | build the chain, call a hop, time out, fall back, cancel | provider health, key pool, providers | worker threads share health and keys; an answer that drips trips no read timeout | a turn's streamed call ends in time, no remembered failure stops a turn, and the configured order comes back |
| LLM key pool (`key_pool.py`) and provider health (`provider_health.py`) | failures, circuits and cool-downs per key and per hop | select, order, mark success or failure, reset | LLM client | all keys or hops bad at once | somebody is always tried |
| agent loop (`agent_loop.py`, `pipeline.py`, `tool_executor.py`) | round, prefetched, retries used, tools run | force, prefetch, ask, run tools, retry, answer | LLM client, tools, caller | a model that does not do what it is told; numbering of rounds with prefetch and given-back rounds; budget and caller end at any point | what has to be read is read before the answer, and the loop ends |
| reply stream (`reply_stream.py`) | text of the attempt, splitter, sentences sent | attempt started, delta, finish | agent loop, page | cuts at any place, failed attempts, calls in plain text | the sentences do not depend on the cuts and add up to the reply |
| 2MD web tools (`two_md.py`, `two_md_coordination.py`, `two_md_transport.py`) | circuits and probe claims of a process, flights, a budget per operation | join or lead a flight, claim, call, back off | 2MD endpoints, Redis | one half-open probe among threads and late answers; followers of a leader that fails | one chain per operation, one probe at a time, every operation ends |
| gateway jobs (`queue.py`, `worker.py`, `job_status.py`) | arq jobs and their status in Redis | enqueue, run, retry, report | Redis, ingestion | a worker lost between steps | each job ends in a status its owner can read |
| avatar jobs (`avatar/jobs.py`, `pipeline/worker.py`) | status files | queue, build, cancel | file system | partial output, restart | a finished job has its output |
| live relay and live session (`gemini_live.py`, `gemini_turns.py`, `websocket.py`) | turn ownership, open tool calls, audio queues | start, interrupt, finish a turn | browser, Gemini, tools | interruption under a tool call, late events | an answer belongs to the turn that asked |
| knowledge base (`commit_jobs.py`, `knowledge_admin.py`) | documents, index, commit jobs | upload, commit, delete | LanceDB, embedding | a change during a commit | the index reflects some version of the files |
| memory and dreaming (`dreaming/scheduler.py`) | date of the last run | check, run, record | LLM, files | check and record minutes apart | one cycle a day |
| authentication (`attempt_limiter.py`, `temporary_accounts_repository.py`) | failures per key, accounts | count, lock, create, expire | SQL | counts under concurrency | a locked key stays locked for its period |
| Brain proxy, A2A credentials, TTS adapters, usage ledger, privacy, embedding service, front ends other than the text turn | none, or append-only | – | – | little | request-local |

The interactions that matter here are: page and Brain over HTTP through the
Backend's proxy (requests can be lost, repeated, reordered, and answered after
the caller has gone); Brain and its SQLite file (one lock, one transaction per
store operation); Backend instances and Redis; Backend and external services;
inside Brain, the agent loop, the LLM client under it, and the reply stream that
listens to the attempts of both; the worker threads that share health, keys,
circuits and flights.

## 2. Modules

| module | what it is |
|---|---|
| `ChatTurns` | the mergeable chat turn: page, Brain handlers, session store |
| `TurnLedger` | what that protocol promises, without its mechanism |
| `ChatTurnsInv` | the inductive invariants of `ChatTurns` |
| `ChatTurnsProofs` | its theorems and the refinement |
| `A2ABridge` | leader lease, inbox stream, queue, acknowledgements, replies |
| `InboxPromise` | what the bridge promises the hub, without its mechanism |
| `A2ABridgeProofs` | its theorems and the refinement |
| `UpstreamBreaker` | the state of one upstream node, as operators on a value |
| `AsrChain`, `AsrChainProofs` | batch recognition over the breaker, and its theorems |
| `TtsChain`, `TtsChainProofs` | speech synthesis over another breaker, and its theorems |
| `KeyPool`, `ProviderHealth` | the state of one API key and of one provider hop, and the choice among them, as operators on values |
| `Ranking` | a set put in order, with which both choose |
| `LlmChain`, `LlmChainProofs` | calls to the LLM over a chain of hops or the keys of the pool, and its theorems |
| `AgentLoop`, `AgentLoopProofs` | the rounds of a chat turn, and its theorems |
| `ReplyStream`, `ReplyStreamProofs` | the sentence splitter and the stream of a reply, and its theorems |
| `TwoMd`, `TwoMdProofs` | web operations over the 2MD endpoints, and its theorems |
| `MC*` | values for the constants that a cfg cannot write |

`AsrChain` and `TtsChain` both extend `UpstreamBreaker`: the code has two
breakers (`ASR_BREAKER`, `TTS_BREAKER`), one class. `LlmChain` extends `KeyPool`
and `ProviderHealth`, whose tables its threads share. The other components meet
over HTTP or by a call that returns, and are modelled apart from each other:
each sees the other as the calls its code makes and all they can come to. A
request of `AgentLoop` may answer or fail in every way that `LlmChain` lets it,
and an attempt of `ReplyStream` is what a round or a hop streams.

### How the models correspond to the code

**ChatTurns.** One session, several pages. A *send* is one `/chat` request: a
turn with a revision. `phase[t][r]` is the point the coroutine
`_sendMessageText` of the page has reached, `pending` and `accepting` are its
`awaitingReply` and `acceptingReply`; `run[t][r]` is the point of
`_generate_chat_response` in Brain, `ack[t][r][k]` that of the k-th
`/chat/accept` request; `receipt`, `live`, `record`, `session` are the tables
`chat_turns`, `messages`, `conversation_messages`, `sessions`. Each operation
of `SessionStore` runs under the store's lock in one transaction and is one
step; an `await`, a thread hand-over or an HTTP exchange separates steps. What
`_prune_expired_sessions_locked` does at the start of a session operation
belongs to that step (`Prepare`), and `PruneSession` is the same pruning run on
behalf of another session. `RegisterTurn` prunes the receipts over the bound in
the same step. An HTTP request is in flight while its handler is `"sent"`, so
requests are reordered by the order in which their handlers start, lost by
`RunFails` or by never starting, and an answer is lost when the page goes on
(`RetryAccept`, `GiveUpAccept`) while the handler has finished. `CancelRun` is
`raise_if_cancelled`: past `PassLastCheck` a cancelled generation still stages.
Time is what the code asks of it: touched now, older than the five minutes
after which an empty session goes, older than the TTL. The variables `faded`,
`erased`, `lapsed` are history; no guard reads them.

**A2ABridge.** Instances of the daemon, with the three loops each runs while
leader: stream, ACK worker, queue worker; the lease key in Redis; the rows of
`a2a_inbox_events` (`row`) and `a2a_outbound_tasks` (`out`). Every update of the
queue is one transaction and one step; steps are separated where the code
awaits. `job[w][e]` is the point `_process_queued_event` has reached. The hub is
outside the repository: it delivers events in order from a cursor, executes a
request (`HubExecutes`, `hubAck`) and may fail to answer. Updates of a row that
was swept touch nothing, as in SQL. An insert or update may raise, at the cost
of one of `MaxWriteErrors`. The stream and the ACK worker log it and go on
without having recorded the answer (`EnqueueFails`, `AckUnrecorded`). Of a job
only the send and the two updates after it are in a `try` (`SendFails`); every
other update ends the job, the exception is swallowed by `gather`, and the row
stays as it was (`UpdateFails`), which is how `record_failed` itself may strand
an event as PROCESSING. `Restart` covers both `stop()`, which cancels the tasks
at an await, and a kill.

`InboxPromise` says what of this the hub can rely on, with neither instances nor
jobs: an event is taken, the hub told so, replied to while it is open, sealed
once a reply is recorded as sent, closed, and swept. While `sole` holds a closed
event stays closed and a sealed one is not replied to; after two instances have
led, events may be opened again and answered twice, but still none is
acknowledged that was not taken, and none completed without a reply. The mapping
reads `place` off the status of the row (`Place`), `sealed` off the outbound
tasks, and `sole` is that no lease was lost under its holder (`LeaseKept`).

**UpstreamBreaker, AsrChain, TtsChain.** A node's state is a record with what is
left of its cool-down and of its probe verdict instead of absolute times, and
`Aged` lets time pass; the failure counter stops at the threshold because the
code only compares it with that. Batch recognition runs on the event loop:
code between two awaits is atomic there (`AllAwait` in the guard of what starts
a request), while synthesis runs in one thread per request and every hop may
meet a breaker that others have changed. `pause` is the chain's own table
`_unreachable_until`. A hop's budget is in whole units of time and a call may
last as long as its budget; `Tick` cannot pass the end of a call, which is
`call_with_deadline` and the HTTP client's timeout. The four kinds of failure
are those `classify_outcome`, `is_unreachable` and `is_transient` tell apart.

**KeyPool, ProviderHealth, LlmChain.** Times are what is left of them; a blocked
hop's `math.inf` is `Never`. A request is made by a worker thread (`req[q]`) and
walks `ahead`: the built chain or, when the settings resolve to no hop, the
selected key and the others (`legacy`). `stage` is what the HTTP client waits
for, `quiet` when that wait times out, `total` the deadline
`_consume_stream` compares with after each chunk, `spent` what `_ChainClock`
has measured. Which failure a hop ends with is free (`Fails`). The settings are
fixed for a behaviour but free among `Chains`, a provider of the pool has one
model, and the marks in pool and health, two tables behind two locks of which
no reader looks at both, are one step. `Reset` is the Admin's.

**AgentLoop.** `turn` is what the pipeline has decided before the loop runs:
route, decision of the reader, reply mode, settings. A request answers with any
set of tool calls, offered or not, and any kind of text (`Answers`); what the
loop then does is one of five disjuncts of `Answered`. `done` is `tool_steps`,
which a tool enters whatever it returned. The phase between two steps is where
the thread waits for a provider or a tool, or where it looks at the caller and
the budget; `CallerLeaves` and `BudgetEnds` come at any time. `Left`, `Ask` and
the like split one round of the `for` loop at `raise_if_cancelled`. `late` and
`rounds` count for the properties; `ToolsDone` reads `rounds` only to tell the
prefetch from a round.

**ReplyStream.** A text is a sequence of classes of characters; a letter on its
own is also an abbreviation (`Mr.` and `p.` are one to the code). Deltas are
arbitrary, attempts begin anew at any point, and the reply may be one that was
never streamed. `Drain` is a recursive function for the loop of `_drain`, and
`splitter.scan` the remembered position. The operators were compared with the
functions of `reply_stream.py` on every text of up to four symbols.

**TwoMd.** `thread[t]` is a tool thread of a process; `circuit` and `claimed`
are that process's module-level tables. `Start` is `SingleFlight.run`: lead or
wait. The generator `iter_endpoints` and the loop around it are `ChainEnds`,
`SkipEndpoint`, `Claim`, the call, and `BackOff`. The shared coordination is
there as what it does: `Configured` is false for every way the code creates it,
so that it allows every endpoint and learns nothing; the actions behind it
cannot be reached and are not modelled.

## 3. What the runs check

Every passing run checks the whole next-state relation of its model on the
instance named. The bounds are in the cfg files.

| run | question | instance | why that is enough |
|---|---|---|---|
| `ChatTurns_page` | Is a turn recorded once, in its last version, with its effects once, and is what the page was told true? Does the protocol implement `TurnLedger`? | 1 page, 2 turns, 2 revisions, 3 questions; 1 receipt, 1 live pair | one receipt and one live pair make every second turn push out the first, which is the case the bounds are about; three questions allow merge after merge and merge after answer |
| `ChatTurns_pages` | Do two personas ever share live history? Does a generation see what was confirmed? Does the record only grow? Does every question get an outcome? | 2 pages with their own personas, 3 turns of one revision, 2 questions, expiry in two stages | the id goes idle, expires, is taken by the other persona and comes back; one page's second question waits for the acknowledgement of its first |
| `A2ABridge_failover` | Is nothing acknowledged that is not queued, or completed that was not delivered? Are terminal rows and sent replies final while no lease is lost under its holder? Does the bridge implement `InboxPromise`? | 2 instances, 1 event, one failure of each kind (call, restart, lease, insert or update, sweep) | each kind of trouble at any step, in all combinations; events share nothing but the cursor and the ACK batch |
| `A2ABridge_settle` | Does every event come to rest, and is none left behind but by an insert or update that raised or an instance that stopped? | 2 instances, 1 event, one failure of each kind (call, restart, lease, insert or update) | the work of the old leader overlaps that of the new one, and any update of either may raise; in the behaviours in which none does and nobody stops, nothing excuses an event that is left |
| `AsrChain_chain` | Does no call outlive its request, is an engine called before giving up, is an engine that stopped failing available again although breaker and pause table disagree, and does every request end? | 2 requests over a chain of two engines, threshold 1, cool-down 2, an engine's own limit of 2 units in a deadline of 1 | both requests overlap on the last engine while probes and failures change it; calls that fail a unit apart prolong the breaker only, so that the table runs out first (with a cool-down of 1 it cannot), and a probe that resets the breaker leaves the table; a call is cut to the deadline and uses up all or nothing of it, longer deadlines are left to the theorems |
| `TtsChain_named` | Does no call outlive its request, does Edge get its turn, and does every request end? | 2 requests, an engine and Edge, threshold 1, calls of up to 2 units, deadlines of 1 and 3 | the longer deadline is used up by one call and Edge's tail, the shorter is Edge's tail only; the other request opens circuits under both. Partners of a named engine are left to the theorems |
| `LlmChain_routes` | Does a turn's streamed call end within what its caller waits, does remembered failure never leave a request without a route, and does the configured order come back? | a thread that streams in a turn and one of background work; 2 hops or 2 keys, circuits and cool-downs after 2 failures, budget of 2 units | one hop can drip past the budget after another has used up part of it; two failures in a row need two calls, of one thread or of both; every mix of blocked, cooling and ready hops of a chain of two |
| `AgentLoop_turn` | Is everything read that must be before an answer? Do fast turns stay fast, late ones stop, abandoned ones start nothing, and all end? | the three tools that may be forced, 3 rounds, fast and standard mode, three of the settings, every route and decision | three rounds are a forced one, a follow-up and one that is given back or repeated; each retry exists once |
| `ReplyStream_texts` | Are sentences sent once they are complete, do they not depend on the cuts, add up to the reply and keep names and numbers whole? Is a call in plain text held back? | texts of up to 5 of 9 symbols in deltas of up to 2, two replies that were not streamed | the longest context the code looks at is a stop with two symbols on each side |
| `TwoMd_circuit` | Has an endpoint one probe, an operation one chain, and every thread an end? | 3 threads of one process, 2 operations, 2 endpoints, budget 1, cool-down 2, calls of 1 | a thread that probes, one that claims beside it, one with an older call; or a leader with a follower and a stranger |

Two runs show that the code does otherwise than the repository says. Each
checks one property quoted from a document or comment, and TLC finds the
behaviour that violates it:

| run | what the code does |
|---|---|
| `A2ABridge_restart` | an event interrupted while PROCESSING is never selected again, and a reply reserved for it is never sent |
| `TwoMd_shared` | with `REDIS_URL` set, an instance still calls an endpoint whose circuit another instance has just opened: the shared coordination takes itself for not configured |

More behaviours were seen and have no run of their own. After a lease is lost
under its holder, two instances may read the stream and work on one event at
once, until the old leader renews. An insert into the bridge's queue that fails
is passed over, and the next acknowledged event moves the cursor past it. An
update that raises inside a job leaves the event PROCESSING for good, though no
instance has stopped; `EventSettles` names this, and what else may leave an
event behind, instead of leaving it out (`Missed`, `Unacked`, `Stranded`).
`Unacked`, ten failed acknowledgements, does not arise in the run, which has one
failing call and a cap of two. After a sweep an old event may be answered a
second time, which `InboxPromise` permits. An answer of an LLM that is not
streamed, but arrives in parts, outlasts its read limit and the budget of its
turn, since httpx applies the limit to each read (`PartOfBody`). The engines
`AutoPlan` looked at may start to cool down before they are reached; they are
then all skipped, and the request fails without a call. A probe claim of
`iter_endpoints` is kept for good when the budget ends between two adjacent
statements.

`PROJECT.json` quotes the lines that say otherwise. Its `mutants` change one
operator each, the way a plausible bug would, and show which property notices.

`CHECK_DEADLOCK FALSE` stands in the cfgs of `ChatTurns`, `A2ABridge`,
`AgentLoop` and `ReplyStream` only: there a behaviour may come to rest, with
every question settled and every bound used up, or the one turn over. In the
chains and in `TwoMd` time always goes on.

The type invariants are theorems and no run repeats them.

Symmetry is used in `A2ABridge_failover` only, a run without liveness, over the
two daemon instances, which differ in nothing but their name.

### Fairness

* `ChatTurns`: the page's coroutine is fair because every wait of it has a
  timer (`AbortSignal.timeout` on both acknowledgements) or an answer that is
  sure to come (`/chat` ends by its deadline or by a broken connection), and a
  run is fair for the same deadline. Users, the network, acknowledgement
  handlers and the passing of time owe nothing.
* `A2ABridge`: the loops of an instance and each job go on, and calls to hub and
  Brain return. httpx bounds the hub's calls. Brain's answer is bounded by
  Brain's own deadline only, as the bridge's client reads without a timeout:
  `EventSettles` holds under that assumption, and the read without a timeout is
  listed among the hazards as covered by no property. Some instance
  acquires a free lease; which one is left open.
* `AsrChain`: time goes on, and the event loop gets to a request again and again
  although each of its steps is enabled only while no other request is between
  two awaits; hence strong fairness.
* `TtsChain`: threads run on, and time goes on once all of them wait. Engines
  owe nothing: a call that hangs is ended by its budget.
* `LlmChain`: as `TtsChain`, with `[]<>AllWait` beside it: the chunks of a
  stream and new requests could otherwise follow one another without end in no
  time at all. Providers owe nothing.
* `AgentLoop`: the turn's thread goes on, as a request and a tool end by their
  own limits; neither the caller nor the budget has to end.
* `TwoMd`: threads go on, calls end within `CallTime` (the HTTP timeout) and
  time passes. No thread has to begin anything.

## 4. What is proved

All theorems hold for every value of the constants that meets the assumptions
named in the modules (`TurnsAssumption`, `BoundsAssumption`,
`BridgeAssumption`, `BreakerAssumption`, `AsrAssumption`, `TtsAssumption`,
`KeyPoolAssumption`, `ProviderHealthAssumption`, `LlmChainAssumption`,
`AgentLoopAssumption`, `ReplyStreamAssumption`, `TwoMdAssumption`), which ask no more than that the numbers are natural numbers, the windows not
empty, and so on.

**Chat turns.** `RecordedOnce` is not inductive: nothing in it forbids that the
acknowledgement of a turn arrives when its receipt was pruned and made again.
`Inv` in `ChatTurnsInv` says why that is harmless. Revisions of a turn follow
one another and only the last can still be answered (`RevisionsInOrder`); the
page acknowledges only an answer it received from a run that staged it
(`AnswersAreStaged`, `AcksAreClosed`), and sends nothing more for the turn; what
is recorded is such a revision (`RecordedAreClosed`), and a receipt with this
revision is marked accepted (`NoSecondCommit`), because a run registers its
revision once and a later one has another number. Whoever speaks of a commit,
a receipt, an acknowledgement or a page, can point to the record or to a
deletion (`CommitsAreRecorded`). From `Inv` follow `NeverTwice`,
`LatestVersion`, `Durability`, `SingleEffects`; `ImplementsLedger` maps every
step to one of `TurnLedger` or to a stutter.

`StoreInv` is about the session's tables. A commit appends the same pair to both
of them and trimming drops live messages from the front, so that `LiveIsTail`
holds once the live messages are no more than the record (`LiveFitsRecord`): a
session that goes takes its live messages with it and keeps the record. No
message of another persona is left when a session begins (`OnePersona`). A
receipt is only pruned from the list that names every receipt
(`ReceiptsListed`), and so the bound never lets an old revision in beside a newer
one (`ReorderedNeverWins`). `HistoryInv` joins the page to the store. Of a page's
questions one is open (`OneIsOpen`), a later one begins when the earlier ones are
no longer open (`TurnsFollow`) and is asked when the acknowledgement before it
is settled (`SlotIsTaken`, `EarlierAreSettled`). What was recorded is live or
was once trimmed, expired or deleted (`RecordWasLive`), whence
`HistoryKnowsConfirmed`.

**A2A bridge.** Acknowledgements stay behind the queue because whatever is to be
acknowledged, in the stream's hand or in a batch, was written before
(`AcksAreKnown`); completions stay behind deliveries because a row is completed
only after a reply marked sent or a job past the hub's answer, and both point to
a delivery (`DeliveriesAreGot`). These hold for any number of instances.
`TerminalIsFinal` and `SentOnce` hold while no lease was lost under its holder,
and are false otherwise, since a job of the old leader goes on beside the new
one. Their invariant says that work goes on under the lease only
(`WorkUnderLease`) and that the row and the reply of an event stand where the
work on it stands (`RowFollowsJob`); restarts, abdications and hand-overs of a
released lease keep it. `ImplementsPromise` maps every step of the bridge to one
of `InboxPromise` or to a stutter. It rests on both invariants and on
`JobsAreQueued`: work is done only on events that are in the queue, since the
retention sweeps no row that is worked on. A step of the work on an event moves
its row and nothing else the hub sees (`PlaceStep`), or is the hub's execution
of a request, or the record of it (`JobPromise`); the acknowledgements of an
instance that stops may or may not arrive (`CancelPromise`).
`CursorType` needs the largest element of a set of numbers, which `Largest`
derives from the well-foundedness of `<`.

**Chains.** `DeadlineKept`: a call is cut to what is left and both shrink
together. `NeverUntried` needs that a request which has not called an engine
still has its whole deadline and an engine ahead that it does not skip
(`TriedOrAhead`): the list of skipped engines is computed once for a request and
never holds all of them. `EdgeGetsItsTurn` needs that until Edge is reached it
is the last hop ahead, and that what is left covers the call under way and the
tail (`EdgeAhead`).

**LLM chain.** `TimeIsKept`: of a streamed call in a turn, what is spent and
what may still be waited for without a chunk fit into the budget and the limits
of one call (`Budgeted`), because every limit of a call is cut to what the
budget has left when the call begins. A stream that drips is held by `total`,
looked at after each chunk, so that the last wait comes on top of it. A whole
answer that answer that drips is held by nothing (`PartOfBody`), and the theorem does not
speak of it. theorem does
not speak of it. `NeverStopped`: a disabled key stays disabled, and of the keys
that are not, either one is ready or one has the least time to wait, which is
what `select_key` then takes; and `order` only sorts, so that a chain loses no
hop to what is remembered of it. Both need that a ranking takes every place
exactly once (`PlacesTaken`): `Ranked` orders a set by counting what comes
before each element.

**Agent loop.** `PlannedReadsDone`, `ToolRoundsBounded`, `LateRequestsBounded`
and `CancelledStarts` hold for any tools, modes, settings and number of rounds.
The answer comes after the reads because until it is done, what is planned is
among the calls about to run or still to be forced (`ReadAhead`): a forced round
cannot end in words while something is planned. Tool rounds are bounded because
past the follow-ups no tool is offered, and the one round given back is taken
after a prefetch, which was no round (`AnswerRounds`); requests after the budget
because the first of them is the first round's or the last (`LateCounted`).

**Reply stream.** A call is held because no text that begins like one is let
through (`CallsHeld`). The other theorems say that cutting the text does not
matter, for texts of every length, and rest on what `Drain` computes. `Drain`
and the concatenation of sentences are recursive functions. That a function with
these equations exists is shown by a least argument for which it does not
(`Recursion`), and induction over the length of a text is a lemma about a set of
texts (`TextInduction`), as the library's induction theorems cannot be
instantiated. `DrainGrows` is the core: to drain a text in two parts is to
drain it at once, since a sentence found in the first part stays the first one
when more text follows (`EndsKept`, `FirstKept`), and a search that found none
may go on from `scan` (`NothingFound`, `ScanOn`). With it `SplitInv` relates
buffer, position and sentences sent to `Drain` of the whole text, and is
inductive. For the end of a reply, what is left in the buffer is at most one
sentence (`LastPart`, `QuietFlush`), and the trailing spaces that `strip` takes
off change none of the sentences before (`WholeSplit`). `NoNameIsCut` follows
sentence by sentence: each is the first one of what was left of the text, and
ends `Apart` from a word (`FirstApart`, `CutsApart`).

**2MD.** `FlightsAreSingle`, `WaitersHaveLeaders` and `ProbesAreSingle` hold for
any processes, threads and endpoints. That the probe is alone needs what its
circuit looks like meanwhile: an older call may report success, failure or both
while it is under way, and drop its claim. `ProbesGuarded` says that then the
circuit is in order again, or open for longer than the probe can still take,
which is why `CoolDown > CallTime` is a premise of `SoleProbe`.

**Only model-checked.** Liveness: `EverySendSettles`, `EventSettles`,
`RecoversByItself`, `RequestsEnd`, `RecoversOrder`, `TurnsEnd`, `OperationsEnd`.
Fairness speaks of ENABLED, which these provers do not expand. Every invariant
and every step property that a passing run checks is a theorem.

## 5. What is not modelled

Of the modelled parts:

* chat turns: the three store operations at the start of a generation
  (`chat_service.py:113-117`) are one step, `Prepare`; chats without a turn id,
  the page's fallback from `/chat/stream` to `/chat` when the route is missing,
  image replies, language refinement, the WebSocket guards of `SessionStore`;
* A2A bridge: registration, credentials, rate limit, development mode without
  Redis. So a leader that has no client for the hub, whose jobs would end with
  the row PROCESSING, is not in the model;
* speech: the hops of the streaming speech route (what it leaves of the deadline
  is an input), the audio cache, stream recognition, the shorter budget of the
  development engine;
* LLM: lines of the event stream that are no chunk, and that restart the read
  limit without `_consume_stream` looking at the total; model overrides,
  discovery of models, project credentials, several models for a key, usage
  accounting; a hop whose key is also in the pool is in the model (`KeyOf`) but
  not in the run, whose hops have keys of their own. The thresholds of three key
  failures and two hop failures are both 2 in the run;
* agent loop: turns without text, the filter of the product catalogue, the tools
  themselves and their threads that run on after a time limit;
* 2MD: the protocol of an endpoint, the cache of pages, the actions in Redis
  that cannot be reached.

Of the rest of the system: the knowledge base, memory and recall, privacy
filters, avatar geometry, embeddings and provider adapters are data processing
over one request or one file, with little for a model checker to find and most
of the repository's lines; administration pages and routes are request-local
policy over SQL rows. The parts that do coordinate are in the plan. See the
notes in `PROJECT.json`.

## 6. Plan

In this order, the most important behaviour first. Done: the chat turn, the
bridge, the breaker with both chains, the LLM client with its pool and health,
the agent loop, the reply stream, the 2MD tools.

| module | what it will model | runs and bounds | theorems |
|---|---|---|---|
| `InflightGuard`, `DirectChat` | the WebSocket lock and chats without turn id | 3 requests | one generation per session, or a run that refutes it |
| `KnowledgeCommit` | commit jobs and edits under way | 1 job at a time, 2 edits | the index is one of the versions |
| `IngestionJobs`, `AvatarJobs` | status of a job against its worker, restarts, retries | 2 jobs, 1 restart | terminal states are final |
| `LiveSession` | turn ownership, interruption, tool calls, late events | 2 turns, 1 tool | an answer belongs to its turn |
| `Dreaming`, `TemporaryAccounts`, `AttemptLimiter` | check and record apart in time | 2 actors | – |
