# Verification of home-inference-server

TLA+ models of the server's concurrent core, the TLC configurations that check
them on small instances, and TLAPS proofs of the properties that matter most for
every value of the constants.

The repository is a Go program in two processes. The **home server** runs on a
PC with one GPU: it takes inference requests over HTTP, keeps at most one
language model resident in VRAM, and starts and stops `llama-server`
subprocesses on demand. The **relay** runs in the cloud on a Postgres table: it
holds jobs until the PC is online to claim them, and serves a public question
endpoint for small web apps. The difficulty is in neither process's arithmetic
but in the interleavings: locks that are released around slow calls, processes
that crash or refuse to die, acks that are lost, a restart between two
statements.

## Inventory

| Component | State it keeps | Operations | What is hard | What makes it correct |
|---|---|---|---|---|
| VRAM admission (`vram.go`, `layers.go`, `types/model.go`) | loaded tier, its layers and mode | choose a tier and a layer split for the free VRAM; reuse check; speed-floor and load-failure cascades; idle and pressure eviction | free VRAM is shared with other programs and excludes the resident model; two formulas round differently | what is admitted fits with its margin; a model is never evicted because of its own allocation |
| `vram.Backend` (`vram.go`, `eviction.go`, `reaper.go`) | semaphore, in-flight count, `loadMu`, `mu`, last use | `Infer`, `InferStream`, `Tokenize`, eviction loop, orphan reaper | three locks released around VRAM queries, stops and starts; the loop and two requests act on one model | a request runs on a tier it allows, in the mode recorded; every request ends; no process is left that nobody owns, and VRAM returns to zero |
| llama.cpp backend (`llamacpp/backend.go`, `process.go`, `client.go`) | process handle, mode, restart flag, `startMu` | start, probe, restart, stop, shut down, complete | starts take up to two minutes, stops may fail, a process may crash at any time | no lock is kept on an error path; a process left behind is eventually stopped |
| Pipeline (`queue`, `batcher`, `dispatcher`, `router`, `server.go`) | a channel, a batch, a pool of workers, spilled batches, result channels | enqueue, batch, dispatch, return a result, time out | full channels, cancelled contexts, a backend that never answers | every accepted job is in one place and runs |
| Admin (`admin.go`, `main.go`) | drain flag, pause flag | drain, resume, restart, shutdown | flag and hook are two steps; restart follows a drain | a drained server finishes what it accepted |
| Relay store (`store.go`, `handler.go`, `wake.go`) | the jobs table, sleeping claims | enqueue, claim, ack, cancel, sweep, purge | row locks, long polls, abandoned connections, restarts | a job is settled once, run by one worker at a time, and no sleeper misses one |
| Relay TTL sweeper (`ttl.go`, `wake.go`) | the oldest finish time, in memory | record, take, purge, look up | ack, purge and record interleave; queries fail | no finished row is forgotten |
| Relay worker (`remote/client.go`) | current job, deadline, pause flag | claim, run, ack with retry, pause | lost acks, clocks on two machines | deadline before visibility timeout; results are reported |
| `/apps/ask` (`ask.go`, `auth.go`, `apps/knowledge.go`) | visitor counts, running questions, usage row | limit, enqueue, wait, cancel, answer with a hosted model | check and count are separate statements; the visitor leaves; midnight | limits hold up to a known slack; the reply agrees with the job |
| Streaming and tools (`server_stream.go`, `server_tools.go`, `server_describe.go`) | one SSE response, the answer's state, tool calls, the job history | stream, resolve tools, salvage, describe, record | retry of a stream already begun; a restart by one request cuts another's stream; a llama-server that hangs | no answer is spliced from two attempts; the last event is truthful and agrees with the history; every request ends |
| Authentication (`auth.go`, `stackauth/verifier.go`) | cached key set and its age; the invite list | verify a token, refresh the keys, look up a member | keys are fetched outside the lock, by several requests at once, and applied in any order; fetches fail | the cached keys are never older than their age says; a member with a current token gets in |
| Rate limits (`ratelimit.go`) | a token bucket per identity | allow, retune, drop when idle | a dropped bucket is made anew full; rates change between calls | nobody gets more than burst and refill |
| Chat store (`chatstore.go`, `server_chats.go`) | conversations in memory, a file each | save, evict at the cap, delete, open | a file operation fails or the process dies between two steps | what is shown is on disk; only the oldest are lost; what was deleted stays deleted |
| Prompt path (`retrieve.go`, `prompt.go`, `server.go`, `llamacpp/backend.go`, `llamacpp/client.go`, `openrouter.go`) | a request in its three forms | choose sources, build, check, translate, shape, send, send again with tool results | the shape depends on the request's fields, on the tier that serves it and on the attempt | the model is shown what was said, once and in order, with the best sources that fit |
| Client library (`hisclient`) | none | calls, `InferStream` | a stream that ends early | what it returns is what the stream was worth (in Streaming) |
| Log buffer, dashboard, tray, tools, test harness | none worth checking | | | not modelled |

Interactions: `handleInfer` and the relay worker put jobs in the pipeline; the
pipeline calls `vram.Backend`; that one drives the llama.cpp backends, one per
tier; the eviction loop and the reaper share their processes. The relay worker
claims from the relay's table, which `/enqueue`, `/apps/ask` and the TTL sweeper
also change. Admin calls drain the server and pause the worker. Every request to
the relay but a few public ones is first identified by the key cache and the invite
list, and `/enqueue` and `/apps/ask` go through the limiter. The prompt path cuts
across both processes: the relay builds an app's request, the PC translates it and
a tier gives it its last shape.

## Modules

| Module | Models | Extends / instantiates |
|---|---|---|
| `LayerFit` | `layers.go`, the model descriptor's arithmetic (pure operators) | |
| `TierSelect` | roster, tier order, admission of one tier, cascades (pure operators) | `LayerFit` |
| `Admission` | selection and eviction against a shared card, one atomic action per decision | `TierSelect` |
| `LlamaCpp` | one llama.cpp backend per tier: processes, handles, the call in progress of every actor | `TierSelect` |
| `VramBackend`, `VramProofs` | `vram.Backend` over `LlamaCpp`: requests, token counts, eviction loop, reaper; theorems | `LlamaCpp` |
| `Pipeline`, `PipelineProofs` | blocking request path, admin calls, shutdown; theorems | |
| `JobLifecycle` | abstract: what the relay promises the owner of a job | |
| `RelayStore` | the jobs table, its statements and the claim long poll | |
| `RelayWorker` | the workers and the connection; the composed relay specification | `RelayStore`, instance of `JobLifecycle` |
| `RelayProofs` | its theorems | `RelayWorker` |
| `TtlSweeper` | the sweeper and its tracker | |
| `AppsAsk`, `AskProofs` | `/apps/ask` with the `/enqueue` quota of the same app; theorems | |
| `Streaming`, `StreamingProofs` | streamed, tool and describe requests, which bypass the queue; theorems | |
| `ChatStore` | the chat store and its files | |
| `PromptPath`, `PromptProofs` | sources, request, translation, shape and wire messages; theorems | |
| `RateLimit` | the limiter | |
| `MemberAuth` | the key cache, requests that use and refresh it, the invite list | |
| `MCParts` | the instance of `Admission`, `AppsAsk`, `ChatStore`, `PromptPath` and `RateLimit` | these five |
| `PartsProofs` | theorems of `Admission`, `ChatStore` and `RateLimit`, and of the five together | `MCParts`, `AskProofs`, `PromptProofs` |
| `MCUpkeep` | the instance of `TtlSweeper` and `MemberAuth`, with their fairness | these two |
| `UpkeepProofs` | theorems of `TtlSweeper` and `MemberAuth` | `MCUpkeep` |
| `MCVramBackend`, `MCRelay`, `MCStreaming` | the other instances TLC checks | |

The parts of `MCParts` and of `MCUpkeep` share no state, so a product of them would
only multiply the states: each behaviour picks one part at the start (`focus`) and
the others stand still.

### Correspondence with the code

*Admission.* `loaded` is `loadedTier`, `loadedLayers` and `loadedVision`;
`external` is what other programs hold. `SelectAndLoad` is the second half of
`selectAndLoad` with both admission passes, `ReuseLoaded` its reuse check,
`IdleEvict` and `PressureEvict` the two branches of `runEviction`. The integer
divisions of `layers.go` are kept.

*VramBackend and LlamaCpp.* One action is one critical section or one blocking
call. `rq[r].pc` is the place of a request in `Infer`/`selectInner`/
`selectAndLoad`; `call[a]` is what an actor is doing inside a llama.cpp backend
(`ensureRunning`, `complete`, `restartSubprocess`, `Shutdown`). A chat request that
names no `max_tokens` asks for the context size first (`SizePrompt`): `NCtx` enters
`ensureRunning` again, or has the size from an earlier call, and its errors are
dropped. `loadMu` and
`startMu` are variables holding their owner; `mu` protects single actions.
Processes are numbered, and a port is held by any process still alive on the
tier, referenced or not. Free VRAM is one of a set of readings at every query. A stop,
of a start that timed out too, may leave the process alive; a kill by the reaper is
assumed to succeed.

*Pipeline.* `q`, `batch`, `pool`, `worker`, `spill` and `slots` are the queue's
channel, the batch in the making, the dispatcher's channel, the rest of each
worker's batch, the batches `main` dispatches in goroutines of their own, and
the backend's semaphore. Channel sends with a full buffer block or spill as in
the code; `resultCh` has capacity one.

*Relay.* The columns of the jobs table are `st`, `attempts` and `born`; `age`
counts time since the claim. A `frame` is a running `/claim` handler: subscribed
to `jobSignal`, sweeping, holding a row lock (`FOR UPDATE SKIP LOCKED`),
committing, or sleeping. `wk` is the worker's Run loop, `wire` the acks on their
way; they may be lost, delayed and repeated. A `Tick` moves all clocks.

*TtlSweeper.* `tracker` is `finishTracker.oldest` as an age. `Ack` is three
steps (stamp, UPDATE, record) and the sweep is peek, take, purge, look up and
record, each of which may fail.

*AppsAsk.* `ask[q].pc` is the statement of `handleAsk` that is next. A request whose
visitor has left runs on with a cancelled context: its statements may fail with or
without having taken effect. The visibility timeout may return the row to pending
while the handler still waits, since `wait_seconds` has no upper bound. `seen`,
`running` and `usage` are `askVisitors`, `inFlight` and the usage row. `know` is the
knowledge source.

*Streaming.* `h[r]` is the handler of a request with the local variables of the two
`InferStream` functions below it (`emitted` is `chunks > 0`, per attempt); `sent[r]`
is what has been written to its client, each chunk with the call and the attempt that
produced it; `over[r]` says that its context is done. `free` is the semaphore of
`vram.Backend` and `up` the llama-server all streams share: `Select`, `Restart` and
`Crash` (by itself, or by an eviction) cut the streams being read from it. A POST may
also fail while a llama-server is up, on the port of a tier that was just replaced,
and a line too long for the reader ends a stream by itself. A blocking call is one
step here (`VramBackend` has its inside). `Settle` and `Close` are the two writes a
handler ends with, the response and the history, in the order of the code.

`Told` is what `hisclient`'s `InferStream` makes of the stream.

*ChatStore.* `convs` and `files` are memory and directory; a conversation is its two
times. `Save` is its steps (evict, write the `.tmp` file, rename, store), because the
process may die between them; the mutex keeps other calls out. `Reopen` reads what it
can of the directory: a file that `Open` cannot read is skipped and left where it is.
`written`, `wanted`, `deleted` and `leftBehind` (files that a failed removal or an
`Open` left without an entry in memory) are history.

*PromptPath.* `asked`, `backendReq` and `wire` are the request as `api.InferRequest`,
as `backend.Request` and as messages sent. A text is a sequence of pieces, so a
conversion is a concatenation or a wrapping of pieces and losing, doubling or
reordering one shows. A document is its size, its score and its always flag.

*RateLimit.* `tokens` and `limit` are those of `rate.Limiter`, counted in parts of a
request so that fractional rates are exact; refilling at every tick is what the
package computes when it is asked. `budget` is history: a bucket of the highest rate
that is never dropped or retuned.

*MemberAuth.* `keys` and `sinceFetched` are the verifier's cache and its age;
`request[c]` is where a request is in `keyForID`, `refresh` and `IsAllowedMember`,
one step per critical section or call; `answer[c]` is a key set on its way.

## Runs

Passing runs:

| Run | Shows | Instance |
|---|---|---|
| `MCParts`, admission | `AdmittedFits`: what is loaded fits with its margin at admission. `NoSelfPressure`: a model passes the reuse and pressure checks while others hold no more than at its admission. `WithinCard`: the card is never over-committed at admission | the default roster, 8 GB, other programs in 256 MB steps |
| `MCParts`, ask | `QuotaOvershootBounded`, `ReplyAgreesWithJob`, `VisitorCapped` | two questions of one visitor, an `/enqueue` call, failing statements, midnight, a restart |
| `MCParts`, chats | `MemoryIsOnDisk`: what a reader is shown survives a crash. `KeepsRecent`: a conversation is lost only behind as many newer ones as the cap, less one. `CapOvershootBounded`: the cap is kept until a restart, and then exceeded by no more than the file operations that failed. `DeletedStaysDeleted`, except for a file that stayed behind | three conversations for a cap of two, a failing file operation, two restarts |
| `MCParts`, prompts | `SaidIsShown`: everything said, once and in order, after the system prompt, with the image where it belongs; the system prompt comes twice only when a bare prompt is wrapped in a chat template. `BestSources`: a matching document is left out only when the better ones leave no room | every request of up to two turns, well-formed or not; up to three documents for a budget of two |
| `MCParts`, rates | `RateKept`: nobody gets more than burst and refill of the highest rate | two identities, three rates, eviction |
| `MCUpkeep`, ttl | `Tracked`: every finished row is covered by the tracker, an ack in progress or the sweeper. `EventuallyPurged` | two jobs, TTL two ticks, failing queries, a restart |
| `MCUpkeep`, members | `CacheFresh`: a withdrawn key is in a cache that counts as fresh no longer than its age and one fetch. `MemberIsAdmitted`: a member whose key stays published is let in again and again | two callers with different keys, two changes of keys or invitations, failing fetches and queries |
| `MCVramParallel` | `ServedAsAsked`: the tier a request runs on honours its pin, `min_tier` and image, by whichever cascade it got there. `ModeAgreement`: the mode recorded for the loaded tier is the one its backend will spawn | two slots, two requests of every kind, a token count, failing queries, slow answers |
| `MCVramProgress` | `EveryRequestFinishes` with the default two slots | two slots and requests, stops that fail |
| `MCVramIdle` | `EveryRequestFinishes`, and `OrphansReaped`: when requests stop coming, every process still running is one its backend holds the handle of, whatever failed stops and dropped handles left on a port | one slot, the reaper, stops that fail, crashes |
| `MCRelaySafety` | `RunsAlone`: nobody else has the job a worker runs. `NoLostWakeup`: no sleeping claim has missed a fresh job | two jobs of one attempt each, two workers, two long polls, a restart or lost ack |
| `MCRelayProgress` | `JobSettledOnce`: the relay implements `JobLifecycle`, although acks are repeated and may arrive after the attempt they are of was overtaken. `EveryJobSettles` and `DoneIsReported` through every kind of fault | one job with three attempts, two faults, pauses |
| `MCPipeline` | `NothingLostOrDoubled`: an accepted job is in exactly one place. `EveryJobRuns`, while llama-server answers | three jobs, one from the relay, one that may be deferred, one on which llama-server hangs; drain, resume, restart, shutdown |
| `MCStreaming` | `NoSplicedAnswer`: the chunks of one answer come from one attempt. `ToolsResolved`: every tool call is resolved once, before the answer built on it. `TruthfulEnd`: what the client library returns says what the chunks are worth, and nothing follows it. `HistoryAgrees` with what clients were told. `EveryRequestEnds`, also while llama-server hangs, and every slot is given back | a request of any of five kinds beside a stream, two slots, up to two tool calls, a crash and any restarts |

Runs that refute a statement of the repository:

| Run | Statement | What happens |
|---|---|---|
| `MCVramMode` | `vram.go:784-786`: the subprocess "matches the mode selectAndLoad admitted the tier on" | the mode to spawn is a field shared by both slots; a second request changes it before the first one's `ensureRunning` reads it |
| `MCRelayPoison` | `store.go:215`: `CountPending` counts "jobs waiting to be claimed" | a job out of attempts goes back to pending and is never claimed, failed or purged |
| `MCVramAdopted` | `README.md:46-47`: after ~20 seconds without requests "the model unloads and VRAM goes back to zero" | a subprocess whose start ends after its tier was evicted (by a token count that looked the tier up before, or by a second request) is adopted; the eviction loop sees nothing loaded and the reaper sees an owned process, so it stays until that tier is loaded again |

### Bounds

- *Pipeline*: queue capacity 1 (256 in the code), batch size 2 (8), channel
  depth 1 (four per worker). Full and empty, and a batch that is cut by its
  size and one cut by its window, all occur; larger values only repeat them.
- *Relay*: two jobs and workers are what a race for a row, a missed wake-up and
  an overtaken run take; three attempts are the default. Two faults let one fault
  hit the recovery from another. The visibility timeout is 2 ticks and the
  worker's deadline 1, the least with deadline < timeout. In `MCRelaySafety` each
  job has one attempt, which keeps two jobs and two workers within reach: a run that
  is overtaken shows there as a row that is pending again. Overtaken attempts and
  their late acks are in `MCRelayProgress`.
- *VramBackend*: two requests are the default number of slots; two arrivals let a
  request meet what the previous one left. Two tiers suffice for eviction,
  replacement and a cascade. `MaxPid` bounds the processes ever started and is
  larger than the runs reach. Chat requests without `max_tokens`, which enter
  `ensureRunning` a second time for the context size (`SizePrompt`), are in
  `MCVramParallel`; in the two liveness runs requests name their `max_tokens`, because
  the temporal check of the larger graph takes too long. The second entry is the same
  code with the same locks, and its errors are dropped.
- *TtlSweeper*: two rows are the least for one to hide behind another.
- *AppsAsk*: a daily cap and `max_concurrent` of 1, so that two questions and one
  `/enqueue` call reach and pass both.
- *Streaming*: one chunk per attempt is enough for a splice; two slots let one
  request's restart cut the other's stream; two tool calls let the second be
  forgotten. The number of restarts is not bounded. `jobHistoryMax` is 2 for two
  requests, so that the trim of the history is covered by the proof
  (`StreamTypeCorrect`) and not by the run.
- *ChatStore*: one conversation more than the cap forces evictions; a clock of three
  lets two saves have the same or different times. One fault and two restarts reach
  every order of a failure and a crash, and a file skipped by one start and read by the
  next.
- *PromptPath*: two turns are enough for a system turn before or after another; three
  documents for one that is skipped and one behind it that fits.
- *RateLimit*: rates below and above one request a minute, none a whole number, so
  that the truncated burst differs from the rate. The eviction time is the least that
  the assumption allows.
- *MemberAuth*: two callers are the least for one fetch to overtake another; two
  changes let a key come and go.
- `CHECK_DEADLOCK FALSE` where requests are bounded in number and the process may
  exit (`Pipeline`, `VramBackend` without a reaper ticking, `Streaming`).

### Fairness

Every goroutine that can take a step eventually takes one: weak fairness of each
request, worker, claim handler, batcher and sweep step. The clock moves (weak fairness
of `Tick`), which stands for the deadlines that `context.WithTimeout` and tickers
enforce. llama-server either answers or runs into the client's deadline; in
`Streaming` it need never answer, and only the deadline of the request is sure to
pass. Faults (crashes, lost acks, restarts, failing queries) are never obliged to
happen and are bounded in number in the relay. In `TtlSweeper` a purge that is tried
again and again succeeds eventually (strong fairness of a successful purge): without
it nothing could be promised of a database that is down for good. `MemberAuth`
likewise: callers keep asking, and a key fetch or a query that is tried again and
again succeeds eventually (the code does not retry by itself, so this is a promise
about callers and the service, not about one request). An answer of a claim that
arrives does so within the slack between the worker's deadline and the visibility
timeout, and clock skew between the two machines is ignored; `RunsAlone` rests on
both.

## Proofs

All theorems hold for every value of the constants that satisfies the named
assumptions (`ASSUME`), which are those of the code: finite sets of jobs, positive
limits, a deadline below the visibility timeout.

Each component has an inductive invariant, named in its module (`IInv`, `VramIInv`,
`StreamIInv`, ...) and checked by TLC on the run's instance before it was proved. What
each adds to the properties, and why they need it:

- `PartsProofs!AdmissionSafe`, `CardNeverExceeded`, `NoReloadStorm`: admission
  fits with its margin, the card is never over-committed, and a model does not put
  itself under pressure. The lemmas relate
  `FitLayers`, which divides by the margin, to `fitsWithBuffer`, which multiplies
  by it. The inductive invariant adds to the property that the loaded record
  describes a tier of the roster admitted at a reading that `extAtLoad` implies.
- `VramProofs!BackendTypeCorrect`, `ServedAsRequested`, `ModeIsKept`: `inflight`
  within the slots, `ServedAsAsked` and `ModeAgreement`. `VramIInv` says that
  `inflight` counts the requests that hold a slot (`SlotsCounted`); that a request
  inside `selectAndLoad` holds `loadMu`, that nothing is recorded as loaded from its
  eviction to its own record and that the mode it pushed is still there (`LoadsAlone`);
  and that from its choice on a request's pick is one it may be served on
  (`PicksAsAsked`), which carries `ServedAsAsked` through cascades and reuse. The proof
  states it per request: a step of one request leaves the others' part alone, because
  the two cannot hold `loadMu` at once. Nothing is claimed of the mode a process was
  started with; `MCVramMode` refutes that.
- `PipelineProofs!PipelineTypeCorrect`, `JobsAreConserved`: the channels within their
  capacities and `NothingLostOrDoubled`. `Located` says that some assignment of jobs to
  lanes (queue, batch, pool, worker, spill, result) agrees with what each lane holds,
  each job once, and with what its caller expects; a step moves one job or one batch
  to the next lane. The property counts places; the assignment is what makes the count
  inductive.
- `StreamingProofs!StreamTypeCorrect`, `OneAttemptPerAnswer`, `ToolsAreResolved`,
  `EndsTruthfully`, `HistoryIsTrue`: the safety properties of `Streaming`. `StreamIInv`
  says that `free` counts the slots nobody holds (`SlotsCounted`); that the chunks of
  the call in progress are of its present attempt, and that there are none while a retry
  is possible (`CallChunks`); that the tool calls made are those announced and those
  still to be resolved (`ToolsCounted`); that an end is the last event and the flags say
  what went before (`EndWritten`); and that a request in the history is over, or has
  recorded and is about to write the same verdict (`Filed`). A step of another request
  changes only `cut` of a handler, which none of this mentions.
- `UpkeepProofs!NothingForgotten`: `[]Tracked`. The strengthening says that a
  sweep about to purge was due when it took the tracker, so that what a purge
  leaves is younger than what it took.
- `UpkeepProofs!KeySetIsFresh`, `UpkeepTypeCorrect`: `[]CacheFresh` and the types.
  `AnswersFresh` is the strengthening: the answer a caller is about to apply is no
  older than its fetch, so that an answer that is overtaken by a newer one and applied
  after it still is young enough.
- `PartsProofs!RateLimitKept`: `[]RateKept`, for any identities and rates.
  `BucketWithinBudget` is the strengthening: a bucket never holds more than the
  budget, and the budget of an identity that was idle for as long as its bucket lives
  has refilled, so that the full bucket it gets next is covered. The assumption is that
  an hour refills a burst, true of every rate of at least one an hour.
- `RelayProofs!RelayTypeCorrect`, `NoRunOvertaken`, `RelayKeepsPromise`,
  `WakeupsArrive`: the types, `RunsAlone`,
  refinement of `JobLifecycle`, and `NoLostWakeup`. The invariant `IInv` says
  that row locks are held by the frame that names the row (`LocksHeld`), that an
  answer on its way is of the current attempt and younger than its slack
  (`DeliveriesFresh`), and that a running worker's timer started no earlier
  than the claim (`RunsFresh`). `WakeupsArrive` assumes that no claim is
  abandoned: with `SKIP LOCKED`, a claim that passes over a locked row and goes
  to sleep is not woken when the lock's owner rolls back, until its own poll ends.
- `AskProofs!OvershootIsBounded`, `SlotsAreAccounted`: the daily cap's slack, and
  that each way out of `handleAsk` gives its slot back once. `AskIInv` counts the
  calls between check and count as already used (`OvershootReserved`) and
  equates `running` with the handlers that hold a slot (`SlotsAccounted`); the
  bound on the window then comes from `max_concurrent`.
- `AskProofs!RepliesAreTrue`, `AllowancesKept`: `ReplyAgreesWithJob` and
  `VisitorCapped`. The first needs that a reply is a question's last step
  (`ReplyWritten`) and that a row, once settled, stays settled. The second compares the
  questions admitted with what the visitor's entry grants: today what it has counted, on
  other days the whole allowance (`WithinGrant`). A clock that was read is never ahead of
  the day (`StampsPast`), so an entry of another day stands for no question of today.
- `PartsProofs!ChatTypeCorrect`, `CrashLosesNothing`, `RecentSurvive`, `CapHolds`,
  `DeleteIsFinal`: the properties of `ChatStore`. `ChatIInv` says how memory and
  directory differ while a `Save` is between its rename and its entry (`InStep`), that
  every file without an entry cost a fault, a removal that failed or an `Open` that
  could not read it (`RoomOnDisk`), that until a restart memory has room, also for the
  conversation a `Save` is about to enter (`RoomInMemory`), that a file's time is when
  it was written (`FileTimes`), and restates `KeepsRecent` for a conversation that is
  just being saved (`RecentKept`).
- `PromptProofs!CallerIsShown`, `PromptTypeCorrect`: `SaidIsShown` and the types.
  `PromptIInv` says that what a tier was sent is `runComplete` of a translation of the
  request, as it was or with the results of its tools (`Carried`), and the hosted model
  its two messages. The lemmas then take the shapes one by one: a conversation before
  and after its tools are called, a plain prompt on either endpoint, a picture, a
  question on the hosted model. `Text` joins any number of messages; `FlattenCons` and
  `FlattenAppend` say what one more at either end does to it.
- `PromptProofs!QuestionHasBestSources`, `QuestionWithinBudget`: `BestSources`, and
  `SourcesWithinBudget` (what is added to the always-documents keeps to both limits,
  as it is picked; that it may be sent twice is noted below), for any documents. A document's place in the ranking is the
  number of those before it, which `PlaceFacts` and `RankedFacts` show to be a numbering
  of the scored documents that agrees with their order. After k of the ranking
  `Retrieve` has picked the always-documents and those of the first k that fitted when
  their turn came, each once and with their sizes summed (`PicksListed`); so what a
  document found picked at its turn is what `BestSources` calls above it.
- `PartsProofs!PartsTypeCorrect`: `PartsTypeOK`, from the parts' own type theorems. The
  lemma `PartsBehave` carries these over: the composition leaves all parts but one
  alone, so it is a behaviour of each.

*Loops.* What a loop of the code computes (a sum of sizes, a list of picks, joined
texts) is a recursive function on 0..n in the model, and facts about it are proved by
induction on n. The library states induction for a predicate, which SMT and
first-order provers cannot instantiate; `InductionUpTo` states it for a set of numbers
instead and follows from the well-foundedness of `<` on `Nat`. `LoopExists` uses it to
show that the recursive definition has a solution, without which nothing follows from
its `CHOOSE`. Operators declared `RECURSIVE` stay out of the prover's reach; the
project has none.

Model-checked only: everything under fairness (`EveryRequestFinishes`,
`OrphansReaped`, `EventuallyPurged`, `DoneIsReported`, `EveryJobSettles`,
`EveryJobRuns`, `EveryRequestEnds`, `MemberIsAdmitted`), which the prover does not
handle. Every invariant and every refinement of a passing run is also proved.

## Observed while modelling

Where the code and a statement about it part, besides the three runs above:

- The deadline of a blocking request bounds the handler's wait only: the job carries
  no context, so while llama-server hangs the dispatch worker and its slot stay
  taken (`server.go:378-380` says the deadline prevents that). `Pipeline` models it,
  and `EveryJobRuns` is stated for a llama-server that answers.
- A stream with tools that breaks after content ends in an error, not as truncated
  (`server_stream.go:392`, `api/response.go:82`); `TruthfulEnd` exempts it.
- The header that announces a degraded model is set after a stream's body has begun
  (`server_stream.go:254`, `server_stream.go:462`), too late to be sent.
- An empty answer is a failure of a stream and a success of a blocking tool or
  describe request.
- `runWithToolsStream` passes the first call's content on as it comes: a turn with
  both content and tool calls would reach the client as two answers in one.
- A request that arrives between the eviction loop's check and its stop uses the
  old process and loses it (`eviction.go:27-28` says in-flight requests are never
  interrupted); it recovers by restarting, which `EveryRequestFinishes` covers.
- Two models may be resident for a moment, while an evicted one is being stopped
  without `loadMu` (`vram.go:824-825`).
- The reaper may kill a subprocess that is still starting (`reaper.go:33-34`).
- A forced tier may be refused because the model it replaces still counts as
  occupied (`vram.go:568-569`).
- A row whose UPDATE committed but was answered with an error is not tracked until
  the next restart or purge (`wake.go:51-53`); `Tracked` exempts it.
- `ackFailed` posts once, so a lost post re-runs a failed job (`client.go:29-30`);
  a paused worker's open long poll may still claim a job (`client.go:64`).
- Batches that do not fit the pool run in goroutines without a bound
  (`dispatcher.go:70-72`); a drain and a resume at the same time may leave the
  flag and the worker's pause different (`admin.go:22-23`).
- A visitor who leaves between the INSERT and the usage count leaves a job that
  nobody cancels (`docs/public-apps.md:91`).
- `MaxConversations` is not the hard cap of `chatstore.go:2` and `chatstore.go:19`: an
  eviction that cannot remove the file forgets the conversation, and the next `Open`
  loads it beside the others. `CapOvershootBounded` says by how much.
- A chat `Delete` whose file removal fails is reported, but the caller's retry finds
  nothing in memory, is acknowledged and does not look at the disk: the conversation
  returns with the next start (`chatstore.go:114-121`); so does one whose file stayed
  behind when it was evicted. `DeletedStaysDeleted` exempts exactly these.
- A save that evicts and then fails to write leaves the store one short of the cap.
- A system prompt is sent twice when a bare prompt meets the tier that forces the chat
  template: `TranslateInferRequest` joins it to the prompt and also passes it on, and
  `chatShape` makes a system message of it (`request.go:18-20` says it is "equivalent to
  prepending a role=system ChatMessage"). An app's sources are in its system prompt, so
  they exceed `SourceBudget` there (`retrieve.go:11-12` says it "caps the characters of
  source text sent per question"). `SaidIsShown` allows both copies in this case only.
- `request.go:6` asks for exactly one of the inputs, but a `vision_input` beside a text
  input is accepted: it replaces a prompt, and only its image survives beside messages.
  Image data that does not decode is dropped silently, and on a tier without a forced
  template the system prompt with it (`server.go:587`). `SaidIsShown` is about
  well-formed requests.
- Always-documents are sent whatever their number and size (`retrieve.go:14-15` says
  `MaxSources` includes them).
- Cached keys do not expire: a withdrawn key is accepted until a request with an
  unknown key id causes a refresh (`verifier.go:125-131`); several requests may fetch at
  once, and a failed fetch does not count as one (`verifier.go:122-123`).
- The limiter's burst is cut to a whole number, not rounded up (`ratelimit.go:24`), and
  a rate below one request an hour is exceeded through the eviction of its bucket.
- `InferStream` of the client library returns neither a chunk nor an error when a
  stream stops before its last event.

## Not modelled

`VramBackend` leaves out the `OOMSimulator` hook, `Shutdown` at process exit and
the tok/sec figures. In `AppsAsk` a token bucket is a refusal that may come at any
time (`RateLimit` has its inside). Tokenizing, BM25's arithmetic, prompt wording and
the cleaning of answers are text; `PromptPath` takes a document's score as given, and
leaves out `max_tokens`, `response_format` and `reasoning`, which do not change what
the model is shown. A token's signature, issuer and expiry are the JWT library's;
API keys are one lookup. `Streaming` leaves out the fall back to the blocking handlers
(the backend streams and the writer flushes, in `main`), the quality header and what
a web search returns. The log buffer is a ring under one lock with one critical
section per operation. The rest of the client library, the user interfaces and the
tools are listed in `PROJECT.json` with their reasons.

## Plan

1. *Composition*: the relay worker over the pipeline, so that a drain, a restart
   and a claimed job meet in one model.
