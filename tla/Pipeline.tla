------------------------------ MODULE Pipeline ------------------------------
(***************************************************************************)
(* The blocking request path of the PC's server: handleInferBlocking and   *)
(* the relay worker's processJob put a job in internal/queue,              *)
(* internal/batcher collects jobs into batches, internal/dispatcher's pool *)
(* or a goroutine of its own takes a batch through internal/router to the  *)
(* backend, and the result goes back on the job's channel.  Around it, the *)
(* admin endpoints (drain, resume, restart) and main's shutdown.           *)
(*                                                                         *)
(* The backend is reduced to its semaphore and to whether it answers;      *)
(* VramBackend has the rest.  A job's caller makes one request.            *)
(***************************************************************************)
EXTENDS Naturals, Sequences, FiniteSets

CONSTANTS Jobs,
          RelayJobs,    \* the jobs that the relay worker brings, one at a time
          DeferrableJobs, \* not of high priority, and a relay is configured
          Hangs,        \* jobs on which llama-server never answers
          Workers,      \* the dispatcher's pool: as many as the backend has slots
          queueCapacity,
          MaxBatchSize,
          poolDepth,    \* capacity of the dispatcher's channel
          AdminCalls,   \* concurrent calls of /v1/admin/*
          MaxAdmin,     \* bound on their number
          MayStop       \* TRUE: a shutdown signal may come

ASSUME PipelineAssumption ==
    /\ IsFiniteSet(Jobs) /\ IsFiniteSet(Workers)
    /\ RelayJobs \cup DeferrableJobs \cup Hangs \subseteq Jobs
    /\ RelayJobs \cap DeferrableJobs = {}
    /\ {queueCapacity, MaxBatchSize, poolDepth} \subseteq Nat \ {0}
    /\ MaxAdmin \in Nat
    /\ MayStop \in BOOLEAN

VARIABLES caller,   \* where each job's caller is
          q,        \* queue.Queue's channel
          batcher,  \* Batcher.Run: "run", "drain" or "exited"
          batch,    \* the batch being collected
          pool,     \* the dispatcher's channel of batches
          worker,   \* what is left of each pool worker's batch, head first
          exited,   \* the pool workers that have returned
          spill,    \* the batches main dispatches outside the pool
          slots,    \* jobs that hold a slot of the backend's semaphore
          resultCh, \* results in each job's channel, capacity 1
          draining, \* Server.draining
          paused,   \* the relay worker's pause flag
          admin,    \* the admin calls in progress
          adminDone,\* how many there have been
          phase     \* main: "serving", "cancelled" (ctx), "gone"

reqVars == <<caller, q, resultCh>>
laneVars == <<pool, worker, exited, spill, slots>>
adminVars == <<draining, paused, admin, adminDone>>
vars == <<reqVars, batcher, batch, laneVars, adminVars, phase>>

Batches == UNION {[1..n -> Jobs] : n \in 1..MaxBatchSize}

NoCall == [do |-> "none", pc |-> "idle"]

TypeOK ==
    /\ caller \in [Jobs -> {"new", "enqueue", "wait", "answered", "left", "refused",
                            "cut"}]
    /\ q \in Seq(Jobs) /\ Len(q) <= queueCapacity
    /\ batcher \in {"run", "drain", "exited"}
    /\ batch \in Batches \cup {<<>>} /\ Len(batch) < MaxBatchSize
    /\ pool \in Seq(Batches) /\ Len(pool) <= poolDepth
    /\ worker \in [Workers -> Batches \cup {<<>>}]
    /\ exited \subseteq Workers
    /\ spill \subseteq Batches
    /\ slots \subseteq Jobs /\ Cardinality(slots) <= Cardinality(Workers)
    /\ resultCh \in [Jobs -> 0..1]
    /\ draining \in BOOLEAN /\ paused \in BOOLEAN
    /\ admin \in [AdminCalls -> [do : {"none", "drain", "resume", "restart"},
                                 pc : {"idle", "hook", "signal"}]]
    /\ adminDone \in 0..MaxAdmin
    /\ phase \in {"serving", "cancelled", "gone"}

Init ==
    /\ caller = [j \in Jobs |-> "new"]
    /\ q = <<>>
    /\ batcher = "run"
    /\ batch = <<>>
    /\ pool = <<>>
    /\ worker = [w \in Workers |-> <<>>]
    /\ exited = {}
    /\ spill = {}
    /\ slots = {}
    /\ resultCh = [j \in Jobs |-> 0]
    /\ draining = FALSE
    /\ paused = FALSE
    /\ admin = [a \in AdminCalls |-> NoCall]
    /\ adminDone = 0
    /\ phase = "serving"
-----------------------------------------------------------------------------
(***************************************************************************)
(* The callers                                                             *)
(***************************************************************************)

CallerGoes(j, pc) == caller' = [caller EXCEPT ![j] = pc]

\* handleInfer up to the queue: the drain check, then deferral under pressure to
\* a relay that accepts the job or is unreachable.  "refused": nothing is queued.
handleInfer(j) ==
    /\ caller[j] = "new"
    /\ j \notin RelayJobs
    /\ phase # "gone"
    /\ \/ draining /\ CallerGoes(j, "refused")
       \/ ~draining /\ j \in DeferrableJobs /\ CallerGoes(j, "refused")
       \/ ~draining /\ CallerGoes(j, "enqueue")
    /\ UNCHANGED <<q, resultCh, batcher, batch, laneVars, adminVars, phase>>

\* The relay worker's loop has claimed a job; it handles one at a time.
processJob(j) ==
    /\ caller[j] = "new"
    /\ j \in RelayJobs
    /\ ~paused
    /\ phase = "serving"
    /\ \A k \in RelayJobs : caller[k] \notin {"enqueue", "wait"}
    /\ CallerGoes(j, "enqueue")
    /\ UNCHANGED <<q, resultCh, batcher, batch, laneVars, adminVars, phase>>

\* Queue.Enqueue
Enqueue(j) ==
    /\ caller[j] = "enqueue"
    /\ phase # "gone"
    /\ Len(q) < queueCapacity
    /\ q' = Append(q, j)
    /\ CallerGoes(j, "wait")
    /\ UNCHANGED <<resultCh, batcher, batch, laneVars, adminVars, phase>>

ReceiveResult(j) ==
    /\ caller[j] = "wait"
    /\ phase # "gone"
    /\ resultCh[j] = 1
    /\ resultCh' = [resultCh EXCEPT ![j] = 0]
    /\ CallerGoes(j, "answered")
    /\ UNCHANGED <<q, batcher, batch, laneVars, adminVars, phase>>

\* The caller's context ends (deadline, hang-up, for the relay worker also
\* shutdown) before there is room or an answer.  The job stays where it is.
CallerLeaves(j) ==
    /\ phase # "gone"
    /\ caller[j] \in {"enqueue", "wait"}
    /\ CallerGoes(j, IF caller[j] = "enqueue" THEN "refused" ELSE "left")
    /\ UNCHANGED <<q, resultCh, batcher, batch, laneVars, adminVars, phase>>
-----------------------------------------------------------------------------
(***************************************************************************)
(* Batcher.Run, and main's dispatch callback                               *)
(***************************************************************************)

\* Slip: the flushed batch is not replaced by an empty one.
flushKeepsBatch(b) ==
    /\ batch' = b
    /\ IF Len(pool) < poolDepth
       THEN pool' = Append(pool, b) /\ UNCHANGED spill
       ELSE spill' = spill \cup {b} /\ UNCHANGED pool

\* flush: Submit to the pool or, its channel full, `go r.Dispatch(batch)`.
flush(b) ==
    /\ batch' = <<>>
    /\ IF Len(pool) < poolDepth
       THEN pool' = Append(pool, b) /\ UNCHANGED spill
       ELSE spill' = spill \cup {b} /\ UNCHANGED pool

\* The next job; a batch of MaxBatchSize is flushed.
BatcherTake ==
    /\ phase # "gone"
    /\ batcher # "exited"
    /\ q # <<>>
    /\ q' = Tail(q)
    /\ LET b == Append(batch, Head(q))
       IN  IF Len(b) >= MaxBatchSize THEN flush(b)
           ELSE batch' = b /\ UNCHANGED <<pool, spill>>
    /\ UNCHANGED <<caller, resultCh, batcher, worker, exited, slots, adminVars, phase>>

\* The window's timer fires.
BatcherWindow ==
    /\ phase # "gone"
    /\ batcher = "run"
    /\ batch # <<>>
    /\ flush(batch)
    /\ UNCHANGED <<reqVars, batcher, worker, exited, slots, adminVars, phase>>

\* The context is cancelled: empty the channel, flush, return.
BatcherCancelled ==
    /\ phase = "cancelled"
    /\ \/ /\ batcher = "run"
          /\ batcher' = "drain"
          /\ UNCHANGED <<batch, pool, spill>>
       \/ /\ batcher = "drain"
          /\ q = <<>>
          /\ batcher' = "exited"
          /\ IF batch = <<>> THEN UNCHANGED <<batch, pool, spill>> ELSE flush(batch)
    /\ UNCHANGED <<reqVars, worker, exited, slots, adminVars, phase>>
-----------------------------------------------------------------------------
(***************************************************************************)
(* Dispatcher and router                                                   *)
(***************************************************************************)

WorkerTake(w) ==
    /\ phase # "gone"
    /\ w \notin exited
    /\ worker[w] = <<>>
    /\ pool # <<>>
    /\ worker' = [worker EXCEPT ![w] = Head(pool)]
    /\ pool' = Tail(pool)
    /\ UNCHANGED <<reqVars, batcher, batch, exited, spill, slots, adminVars, phase>>

\* Between batches the worker sees the cancelled context; what is still in the
\* channel stays there.
WorkerExit(w) ==
    /\ phase = "cancelled"
    /\ w \notin exited
    /\ worker[w] = <<>>
    /\ exited' = exited \cup {w}
    /\ UNCHANGED <<reqVars, batcher, batch, pool, worker, spill, slots, adminVars, phase>>

OnWorker(j) == \E w \in Workers : worker[w] # <<>> /\ Head(worker[w]) = j

OnSpill(j) == \E b \in spill : Head(b) = j

Executing == {j \in Jobs : OnWorker(j) \/ OnSpill(j)}

\* DispatchOne calls Infer, which waits for a slot.
InferStarts(j) ==
    /\ phase # "gone"
    /\ j \in Executing \ slots
    /\ Cardinality(slots) < Cardinality(Workers)
    /\ slots' = slots \cup {j}
    /\ UNCHANGED <<reqVars, batcher, batch, pool, worker, exited, spill, adminVars, phase>>

\* Infer answers or fails, panics included; a job from the relay may name an
\* unknown modality and never get there.  The pool runs with main's context and
\* stops waiting when it is cancelled; a spilled batch has no such context.
InferEnds(j) ==
    \/ j \in slots \ Hangs
    \/ j \in RelayJobs \ slots
    \/ OnWorker(j) /\ phase = "cancelled"

\* Slip: the slot is not given back.
DispatchOneKeepsSlot(j) ==
    /\ phase # "gone"
    /\ j \in Executing
    /\ InferEnds(j)
    /\ resultCh[j] = 0
    /\ resultCh' = [resultCh EXCEPT ![j] = 1]
    /\ worker' = [w \in Workers |-> IF worker[w] # <<>> /\ Head(worker[w]) = j
                                    THEN Tail(worker[w]) ELSE worker[w]]
    /\ spill' = {IF Head(b) = j THEN Tail(b) ELSE b : b \in spill} \ {<<>>}
    /\ UNCHANGED <<caller, q, batcher, batch, pool, exited, slots, adminVars, phase>>

\* DispatchOne ends: the result is sent, which blocks on a full channel, and the
\* goroutine turns to the next job of its batch.
DispatchOne(j) ==
    /\ phase # "gone"
    /\ j \in Executing
    /\ InferEnds(j)
    /\ resultCh[j] = 0
    /\ resultCh' = [resultCh EXCEPT ![j] = 1]
    /\ slots' = slots \ {j}
    /\ worker' = [w \in Workers |-> IF worker[w] # <<>> /\ Head(worker[w]) = j
                                    THEN Tail(worker[w]) ELSE worker[w]]
    /\ spill' = {IF Head(b) = j THEN Tail(b) ELSE b : b \in spill} \ {<<>>}
    /\ UNCHANGED <<caller, q, batcher, batch, pool, exited, adminVars, phase>>
-----------------------------------------------------------------------------
(***************************************************************************)
(* Admin calls and shutdown                                                *)
(***************************************************************************)

\* setDraining swaps the flag; a call that changes nothing goes no further ...
setDraining(a) ==
    /\ phase # "gone"
    /\ admin[a].pc = "idle"
    /\ adminDone < MaxAdmin
    /\ adminDone' = adminDone + 1
    /\ \E do \in {"drain", "resume", "restart"} :
         /\ draining' = (do # "resume")
         /\ admin' = [admin EXCEPT ![a] =
                        IF draining' # draining THEN [do |-> do, pc |-> "hook"]
                        ELSE IF do = "restart" THEN [do |-> do, pc |-> "signal"]
                        ELSE NoCall]
    /\ UNCHANGED <<reqVars, batcher, batch, laneVars, paused, phase>>

\* ... and then calls the relay worker's Pause or Resume.
pauseSink(a) ==
    /\ phase # "gone"
    /\ admin[a].pc = "hook"
    /\ paused' = (admin[a].do # "resume")
    /\ admin' = [admin EXCEPT ![a] = IF @.do = "restart" THEN [@ EXCEPT !.pc = "signal"]
                                     ELSE NoCall]
    /\ UNCHANGED <<reqVars, batcher, batch, laneVars, draining, adminDone, phase>>

\* The restart handler signals main, which cancels the context.
Restart(a) ==
    /\ phase # "gone"
    /\ admin[a].pc = "signal"
    /\ admin' = [admin EXCEPT ![a] = NoCall]
    /\ phase' = "cancelled"
    /\ UNCHANGED <<reqVars, batcher, batch, laneVars, draining, paused, adminDone>>

Shutdown ==
    /\ MayStop
    /\ phase = "serving"
    /\ phase' = "cancelled"
    /\ UNCHANGED <<reqVars, batcher, batch, laneVars, adminVars>>

\* The handlers have returned or the 15 s of httpServer.Shutdown are over: the
\* process ends, and with it every open connection.
Exit ==
    /\ phase = "cancelled"
    /\ phase' = "gone"
    /\ caller' = [j \in Jobs |-> IF caller[j] \in {"enqueue", "wait"} THEN "cut" ELSE caller[j]]
    /\ UNCHANGED <<q, resultCh, batcher, batch, laneVars, adminVars>>

CallerStep(j) == handleInfer(j) \/ Enqueue(j) \/ ReceiveResult(j)

BatcherStep == BatcherTake \/ BatcherWindow \/ BatcherCancelled

LaneStep(j) == InferStarts(j) \/ DispatchOne(j)

Next ==
    \/ \E j \in Jobs : CallerStep(j) \/ processJob(j) \/ CallerLeaves(j) \/ LaneStep(j)
    \/ BatcherStep
    \/ \E w \in Workers : WorkerTake(w) \/ WorkerExit(w)
    \/ \E a \in AdminCalls : setDraining(a) \/ pauseSink(a) \/ Restart(a)
    \/ Shutdown
    \/ Exit

Spec == Init /\ [][Next]_vars

\* Goroutines run, timers fire and every caller's deadline passes.  Nobody is
\* obliged to send requests or admin calls.
FairSpec ==
    /\ Spec
    /\ \A j \in Jobs : /\ WF_vars(CallerStep(j))
                       /\ WF_vars(CallerLeaves(j))
                       /\ WF_vars(LaneStep(j))
    /\ WF_vars(BatcherStep)
    /\ \A w \in Workers : WF_vars(WorkerTake(w))
    /\ WF_vars(Exit)
-----------------------------------------------------------------------------
(***************************************************************************)
(* Properties                                                              *)
(***************************************************************************)

At(s, j) == {i \in DOMAIN s : s[i] = j}

\* Every place where job j, or its result, is.
Places(j) ==
    {<<"queue", i>> : i \in At(q, j)}
    \cup {<<"batch", i>> : i \in At(batch, j)}
    \cup (UNION {{<<"pool", n, i>> : i \in At(pool[n], j)} : n \in DOMAIN pool})
    \cup (UNION {{<<"worker", w, i>> : i \in At(worker[w], j)} : w \in Workers})
    \cup (UNION {{<<"spill", b, i>> : i \in At(b, j)} : b \in spill})
    \cup {<<"result", i>> : i \in 1..resultCh[j]}

\* A job the queue has accepted is in exactly one place until its caller has the
\* answer: no flush, spill, shutdown or restart loses it or runs it twice (a
\* second result would block its goroutine on the full channel).
NothingLostOrDoubled ==
    \A j \in Jobs :
        /\ caller[j] \in {"wait", "left"} => Cardinality(Places(j)) = 1
        /\ caller[j] \in {"new", "enqueue", "answered", "refused"} => Places(j) = {}

\* Until llama-server hangs or the server is stopped, every accepted job gets its
\* result, drained or not, whether its caller still waits or has left.
EveryJobRuns ==
    \A j \in Jobs : caller[j] = "wait" ~>
        resultCh[j] = 1 \/ caller[j] = "answered" \/ phase # "serving" \/ slots \cap Hangs # {}
-----------------------------------------------------------------------------
(***************************************************************************)
(* The inductive invariant behind NothingLostOrDoubled: some assignment of *)
(* every job to one lane, or to none, agrees with what the lanes hold.     *)
(***************************************************************************)

Lanes == {"none", "queue", "batch", "pool", "worker", "spill", "result"}

\* Sequence s holds the jobs that `place` assigns to the lane, each once.
Line(place, lane, s) ==
    /\ \A i \in 1..Len(s) : place[s[i]] = lane
    /\ \A i, k \in 1..Len(s) : s[i] = s[k] => i = k
    /\ \A j \in Jobs : place[j] = lane => \E i \in 1..Len(s) : s[i] = j

\* The sequences f[d] together hold them, each once.
LinesOf(place, lane, f) ==
    /\ \A d \in DOMAIN f : \A i \in 1..Len(f[d]) : place[f[d][i]] = lane
    /\ \A d, e \in DOMAIN f : \A i \in 1..Len(f[d]), k \in 1..Len(f[e]) :
          f[d][i] = f[e][k] => d = e /\ i = k
    /\ \A j \in Jobs : place[j] = lane => \E d \in DOMAIN f : \E i \in 1..Len(f[d]) : f[d][i] = j

\* The assignment agrees with a queue, a batch, a pool, workers and spilled batches.
LanesHold(place, Q, B, P, W, S) ==
    /\ Line(place, "queue", Q)
    /\ Line(place, "batch", B)
    /\ LinesOf(place, "pool", P)
    /\ LinesOf(place, "worker", W)
    /\ LinesOf(place, "spill", [b \in S |-> b])

\* ... and with the results and with what the callers expect.
CallersHold(place) ==
    \A j \in Jobs :
        /\ place[j] = "result" <=> resultCh[j] = 1
        /\ caller[j] \in {"wait", "left"} => place[j] # "none"
        /\ caller[j] \in {"new", "enqueue", "answered", "refused"} => place[j] = "none"

Located ==
    \E place \in [Jobs -> Lanes] :
        LanesHold(place, q, batch, pool, worker, spill) /\ CallersHold(place)

PipelineIInv == TypeOK /\ Located
=============================================================================
