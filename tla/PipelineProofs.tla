--------------------------- MODULE PipelineProofs ---------------------------
(***************************************************************************)
(* The blocking request path, for any number of jobs, pool workers and     *)
(* admin calls and any capacities: a job that the queue has accepted is    *)
(* neither lost nor doubled on its way through batcher and dispatcher.     *)
(***************************************************************************)
EXTENDS Pipeline, FiniteSetTheorems, TLAPS

\* The capacities are positive numbers.
LEMMA Capacities ==
    /\ queueCapacity \in Nat /\ MaxBatchSize \in Nat /\ poolDepth \in Nat
    /\ queueCapacity >= 1 /\ MaxBatchSize >= 1 /\ poolDepth >= 1
  <1>1. /\ queueCapacity \in Nat /\ queueCapacity # 0
        /\ MaxBatchSize \in Nat /\ MaxBatchSize # 0
        /\ poolDepth \in Nat /\ poolDepth # 0
    BY PipelineAssumption
  <1> QED BY <1>1

\* The empty sequence is the one of length 0.
LEMMA NoElements ==
    ASSUME NEW S
    PROVE  /\ <<>> \in Seq(S) /\ Len(<<>>) = 0
           /\ \A s \in Seq(S) : Len(s) = 0 => s = <<>>
  OBVIOUS

\* One more element at the end, or one less at the front.
LEMMA OneMoreOrLess ==
    ASSUME NEW S, NEW s \in Seq(S)
    PROVE  /\ Len(s) \in Nat
           /\ \A x \in S : Append(s, x) \in Seq(S) /\ Len(Append(s, x)) = Len(s) + 1
           /\ s # <<>> => Head(s) \in S /\ Tail(s) \in Seq(S) /\ Len(Tail(s)) = Len(s) - 1
  OBVIOUS

\* A batch is a sequence of one to MaxBatchSize jobs.
LEMMA BatchIsSeq ==
    ASSUME NEW s
    PROVE  s \in Batches <=> s \in Seq(Jobs) /\ Len(s) \in 1..MaxBatchSize
  <1>1. ASSUME s \in Batches PROVE s \in Seq(Jobs) /\ Len(s) \in 1..MaxBatchSize
    <2>1. PICK n \in 1..MaxBatchSize : s \in [1..n -> Jobs]
      BY <1>1 DEF Batches
    <2>2. n \in Nat
      BY PipelineAssumption
    <2> QED BY <2>1, <2>2
  <1>2. ASSUME s \in Seq(Jobs), Len(s) \in 1..MaxBatchSize PROVE s \in Batches
    <2>1. s \in [1..Len(s) -> Jobs]
      BY <1>2
    <2> QED BY <1>2, <2>1 DEF Batches
  <1> QED BY <1>1, <1>2

\* What is left of a batch, and a batch with one more job.
LEMMA BatchParts ==
    ASSUME NEW s \in Batches \cup {<<>>}
    PROVE  /\ s \in Seq(Jobs)
           /\ Len(s) \in 0..MaxBatchSize
           /\ s # <<>> => Tail(s) \in Batches \cup {<<>>} /\ Head(s) \in Jobs
           /\ \A j \in Jobs : Len(s) < MaxBatchSize => Append(s, j) \in Batches
  <1>1. s \in Seq(Jobs) /\ Len(s) \in 0..MaxBatchSize
    <2>1. CASE s \in Batches
      BY <2>1, BatchIsSeq, Capacities
    <2>2. CASE s = <<>>
      <3>1. s \in Seq(Jobs) /\ Len(s) = 0
        BY <2>2, NoElements
      <3> QED BY <3>1, Capacities
    <2> QED BY <2>1, <2>2
  <1>2. ASSUME s # <<>> PROVE Tail(s) \in Batches \cup {<<>>} /\ Head(s) \in Jobs
    <2>1. Tail(s) \in Seq(Jobs) /\ Head(s) \in Jobs /\ Len(Tail(s)) = Len(s) - 1 /\ Len(s) # 0
      BY <1>1, <1>2, OneMoreOrLess, NoElements
    <2>2. CASE Len(Tail(s)) = 0
      BY <2>1, <2>2, NoElements
    <2>3. CASE Len(Tail(s)) # 0
      <3>1. Len(Tail(s)) \in 1..MaxBatchSize
        BY <1>1, <2>1, <2>3, PipelineAssumption
      <3> QED BY <2>1, <3>1, BatchIsSeq
    <2> QED BY <2>2, <2>3
  <1>3. ASSUME NEW j \in Jobs, Len(s) < MaxBatchSize PROVE Append(s, j) \in Batches
    <2>1. Append(s, j) \in Seq(Jobs) /\ Len(Append(s, j)) = Len(s) + 1
      BY <1>1
    <2>2. Len(Append(s, j)) \in 1..MaxBatchSize
      BY <1>1, <1>3, <2>1, PipelineAssumption
    <2> QED BY <2>1, <2>2, BatchIsSeq
  <1> QED BY <1>1, <1>2, <1>3

\* flush keeps the types of what it touches.
LEMMA FlushTypes ==
    ASSUME TypeOK, NEW b \in Batches, flush(b)
    PROVE  /\ batch' \in Batches \cup {<<>>} /\ Len(batch') < MaxBatchSize
           /\ pool' \in Seq(Batches) /\ Len(pool') <= poolDepth
           /\ spill' \subseteq Batches
  <1>1. batch' = <<>> /\ Len(batch') = 0
    BY NoElements DEF flush
  <1>2. pool \in Seq(Batches) /\ Len(pool) \in Nat /\ Len(pool) <= poolDepth
    BY OneMoreOrLess DEF TypeOK
  <1>3. CASE Len(pool) < poolDepth
    <2>1. pool' \in Seq(Batches) /\ Len(pool') = Len(pool) + 1 /\ spill' = spill
      BY <1>2, <1>3, OneMoreOrLess DEF flush
    <2>2. Len(pool') <= poolDepth
      BY <1>2, <1>3, <2>1, Capacities
    <2> QED BY <1>1, <2>1, <2>2, Capacities DEF TypeOK
  <1>4. CASE ~(Len(pool) < poolDepth)
    <2>1. pool' = pool /\ spill' = spill \cup {b}
      BY <1>4 DEF flush
    <2> QED BY <1>1, <1>2, <2>1, Capacities DEF TypeOK
  <1> QED BY <1>3, <1>4

\* Callers move, and nothing else does.
LEMMA CallerTypes ==
    ASSUME TypeOK, NEW j \in Jobs,
           handleInfer(j) \/ processJob(j) \/ Enqueue(j) \/ ReceiveResult(j) \/ CallerLeaves(j)
    PROVE  TypeOK'
  <1>1. caller' \in [Jobs -> {"new", "enqueue", "wait", "answered", "left", "refused", "cut"}]
    BY DEF TypeOK, handleInfer, processJob, Enqueue, ReceiveResult, CallerLeaves, CallerGoes
  <1>2. q' \in Seq(Jobs) /\ Len(q') <= queueCapacity
    <2>1. q \in Seq(Jobs) /\ Len(q) \in Nat /\ Len(q) <= queueCapacity
      BY OneMoreOrLess DEF TypeOK
    <2>2. q' = q \/ (Len(q) < queueCapacity /\ q' = Append(q, j))
      BY DEF handleInfer, processJob, Enqueue, ReceiveResult, CallerLeaves
    <2>3. CASE Len(q) < queueCapacity /\ q' = Append(q, j)
      <3>1. q' \in Seq(Jobs) /\ Len(q') = Len(q) + 1
        BY <2>1, <2>3, OneMoreOrLess
      <3> QED BY <2>1, <2>3, <3>1, Capacities
    <2> QED BY <2>1, <2>2, <2>3
  <1>3. resultCh' \in [Jobs -> 0..1]
    BY DEF TypeOK, handleInfer, processJob, Enqueue, ReceiveResult, CallerLeaves
  <1>4. UNCHANGED <<batcher, batch, laneVars, adminVars, phase>>
    BY DEF handleInfer, processJob, Enqueue, ReceiveResult, CallerLeaves
  <1> QED BY <1>1, <1>2, <1>3, <1>4 DEF TypeOK, laneVars, adminVars

\* The batcher takes jobs and flushes batches.
LEMMA BatcherTypes ==
    ASSUME TypeOK, BatcherStep
    PROVE  TypeOK'
  <1>1. /\ q \in Seq(Jobs) /\ Len(q) \in Nat /\ Len(q) <= queueCapacity
        /\ batch \in Batches \cup {<<>>} /\ Len(batch) < MaxBatchSize
    BY OneMoreOrLess DEF TypeOK
  <1>2. q' \in Seq(Jobs) /\ Len(q') <= queueCapacity
    <2>1. q' = q \/ (q # <<>> /\ q' = Tail(q))
      BY DEF BatcherStep, BatcherTake, BatcherWindow, BatcherCancelled, reqVars
    <2>2. CASE q # <<>> /\ q' = Tail(q)
      <3>1. q' \in Seq(Jobs) /\ Len(q') = Len(q) - 1
        BY <1>1, <2>2, OneMoreOrLess
      <3> QED BY <1>1, <3>1, Capacities
    <2> QED BY <1>1, <2>1, <2>2
  <1>3. batcher' \in {"run", "drain", "exited"}
    BY DEF BatcherStep, BatcherTake, BatcherWindow, BatcherCancelled, TypeOK
  <1>4. UNCHANGED <<caller, resultCh, worker, exited, slots, adminVars, phase>>
    BY DEF BatcherStep, BatcherTake, BatcherWindow, BatcherCancelled, reqVars
  <1>5. /\ batch' \in Batches \cup {<<>>} /\ Len(batch') < MaxBatchSize
        /\ pool' \in Seq(Batches) /\ Len(pool') <= poolDepth
        /\ spill' \subseteq Batches
    <2>1. CASE BatcherTake
      <3> DEFINE b == Append(batch, Head(q))
      <3>1. Head(q) \in Jobs
        BY <1>1, <2>1 DEF BatcherTake
      <3>2. b \in Batches
        BY <1>1, <3>1, BatchParts
      <3>3. CASE Len(b) >= MaxBatchSize /\ flush(b)
        BY <3>2, <3>3, FlushTypes
      <3>4. CASE ~(Len(b) >= MaxBatchSize) /\ batch' = b /\ UNCHANGED <<pool, spill>>
        <4>1. Len(b) \in Nat /\ MaxBatchSize \in Nat
          BY <3>2, BatchIsSeq, PipelineAssumption
        <4> QED BY <3>2, <3>4, <4>1 DEF TypeOK
      <3> QED BY <2>1, <3>3, <3>4 DEF BatcherTake
    <2>2. CASE BatcherWindow
      BY <1>1, <2>2, FlushTypes DEF BatcherWindow
    <2>3. CASE BatcherCancelled
      <3>1. CASE UNCHANGED <<batch, pool, spill>>
        BY <3>1 DEF TypeOK
      <3>2. CASE batch # <<>> /\ flush(batch)
        BY <1>1, <3>2, FlushTypes
      <3> QED BY <2>3, <3>1, <3>2 DEF BatcherCancelled
    <2> QED BY <2>1, <2>2, <2>3 DEF BatcherStep
  <1> QED BY <1>2, <1>3, <1>4, <1>5 DEF TypeOK, adminVars

\* The pool's workers take batches, and return.
LEMMA WorkerTypes ==
    ASSUME TypeOK, NEW w \in Workers, WorkerTake(w) \/ WorkerExit(w)
    PROVE  TypeOK'
  <1>1. CASE WorkerTake(w)
    <2>1. pool \in Seq(Batches) /\ Len(pool) \in Nat /\ poolDepth \in Nat /\ pool # <<>>
      BY <1>1, PipelineAssumption DEF TypeOK, WorkerTake
    <2>2. Head(pool) \in Batches /\ Tail(pool) \in Seq(Batches) /\ Len(Tail(pool)) = Len(pool) - 1
      BY <2>1
    <2>3. worker' \in [Workers -> Batches \cup {<<>>}]
      BY <1>1, <2>2 DEF TypeOK, WorkerTake
    <2>4. pool' \in Seq(Batches) /\ Len(pool') <= poolDepth
      BY <1>1, <2>1, <2>2 DEF TypeOK, WorkerTake
    <2>5. UNCHANGED <<reqVars, batcher, batch, exited, spill, slots, adminVars, phase>>
      BY <1>1 DEF WorkerTake
    <2> QED BY <2>3, <2>4, <2>5 DEF TypeOK, reqVars, adminVars
  <1>2. CASE WorkerExit(w)
    BY <1>2 DEF WorkerExit, TypeOK, reqVars, adminVars
  <1> QED BY <1>1, <1>2

\* A job takes a slot of the backend's semaphore, and gives it back.
LEMMA LaneTypes ==
    ASSUME TypeOK, NEW j \in Jobs, LaneStep(j)
    PROVE  TypeOK'
  <1>1. IsFiniteSet(slots) /\ Cardinality(slots) \in Nat /\ Cardinality(Workers) \in Nat
    BY PipelineAssumption, FS_Subset, FS_CardinalityType DEF TypeOK
  <1>2. CASE InferStarts(j)
    <2>1. Cardinality(slots \cup {j}) <= Cardinality(slots) + 1
          /\ Cardinality(slots \cup {j}) \in Nat
      <3>1. Cardinality(slots \cup {j})
              = IF j \in slots THEN Cardinality(slots) ELSE Cardinality(slots) + 1
        BY <1>1, FS_AddElement
      <3> QED BY <1>1, <3>1
    <2>2. slots' \subseteq Jobs /\ Cardinality(slots') <= Cardinality(Workers)
      BY <1>1, <1>2, <2>1 DEF InferStarts, TypeOK
    <2>3. UNCHANGED <<reqVars, batcher, batch, pool, worker, exited, spill, adminVars, phase>>
      BY <1>2 DEF InferStarts
    <2> QED BY <2>2, <2>3 DEF TypeOK, reqVars, adminVars
  <1>3. CASE DispatchOne(j)
    <2>1. slots' \subseteq Jobs /\ Cardinality(slots') <= Cardinality(Workers)
      <3>1. slots' \in SUBSET slots
        BY <1>3 DEF DispatchOne
      <3>2. Cardinality(slots') <= Cardinality(slots) /\ Cardinality(slots') \in Nat
        BY <1>1, <3>1, FS_Subset, FS_CardinalityType
      <3> QED BY <1>1, <3>1, <3>2 DEF TypeOK
    <2>2. worker' \in [Workers -> Batches \cup {<<>>}]
      <3>1. ASSUME NEW v \in Workers, worker[v] # <<>>
            PROVE  Tail(worker[v]) \in Batches \cup {<<>>}
        BY <3>1, BatchParts DEF TypeOK
      <3> QED BY <1>3, <3>1 DEF DispatchOne, TypeOK
    <2>3. spill' \subseteq Batches
      <3>1. ASSUME NEW b \in spill, Tail(b) # <<>> PROVE Tail(b) \in Batches
        <4>1. b \in Batches /\ b # <<>>
          BY BatchIsSeq DEF TypeOK
        <4> QED BY <3>1, <4>1, BatchParts
      <3> QED BY <1>3, <3>1 DEF DispatchOne, TypeOK
    <2>4. resultCh' \in [Jobs -> 0..1]
      BY <1>3 DEF DispatchOne, TypeOK
    <2>5. UNCHANGED <<caller, q, batcher, batch, pool, exited, adminVars, phase>>
      BY <1>3 DEF DispatchOne
    <2> QED BY <2>1, <2>2, <2>3, <2>4, <2>5 DEF TypeOK, adminVars
  <1> QED BY <1>2, <1>3 DEF LaneStep

\* Admin calls and the end of the process.
LEMMA AdminTypes ==
    ASSUME TypeOK,
           \/ \E a \in AdminCalls : setDraining(a) \/ pauseSink(a) \/ Restart(a)
           \/ Shutdown
           \/ Exit
    PROVE  TypeOK'
  <1>1. ASSUME NEW a \in AdminCalls, setDraining(a) PROVE TypeOK'
    <2>1. draining' \in BOOLEAN
      BY <1>1 DEF setDraining
    <2>2. adminDone' \in 0..MaxAdmin
      BY <1>1, PipelineAssumption DEF setDraining, TypeOK
    <2>3. admin' \in [AdminCalls -> [do : {"none", "drain", "resume", "restart"},
                                     pc : {"idle", "hook", "signal"}]]
      BY <1>1 DEF setDraining, TypeOK, NoCall
    <2>4. UNCHANGED <<reqVars, batcher, batch, laneVars, paused, phase>>
      BY <1>1 DEF setDraining
    <2> QED BY <2>1, <2>2, <2>3, <2>4 DEF TypeOK, reqVars, laneVars
  <1>2. ASSUME NEW a \in AdminCalls, pauseSink(a) PROVE TypeOK'
    <2>1. paused' \in BOOLEAN
      BY <1>2 DEF pauseSink
    <2>2. admin' \in [AdminCalls -> [do : {"none", "drain", "resume", "restart"},
                                     pc : {"idle", "hook", "signal"}]]
      BY <1>2 DEF pauseSink, TypeOK, NoCall
    <2>3. UNCHANGED <<reqVars, batcher, batch, laneVars, draining, adminDone, phase>>
      BY <1>2 DEF pauseSink
    <2> QED BY <2>1, <2>2, <2>3 DEF TypeOK, reqVars, laneVars
  <1>3. ASSUME NEW a \in AdminCalls, Restart(a) PROVE TypeOK'
    <2>1. admin' \in [AdminCalls -> [do : {"none", "drain", "resume", "restart"},
                                     pc : {"idle", "hook", "signal"}]]
      BY <1>3 DEF Restart, TypeOK, NoCall
    <2> QED BY <1>3, <2>1 DEF Restart, TypeOK, reqVars, laneVars
  <1>4. CASE Shutdown
    BY <1>4 DEF Shutdown, TypeOK, reqVars, laneVars, adminVars
  <1>5. CASE Exit
    <2>1. caller' \in [Jobs -> {"new", "enqueue", "wait", "answered", "left", "refused", "cut"}]
      BY <1>5 DEF Exit, TypeOK
    <2> QED BY <1>5, <2>1 DEF Exit, TypeOK, laneVars, adminVars
  <1> QED BY <1>1, <1>2, <1>3, <1>4, <1>5

\* Every step keeps the types.
LEMMA TypeStep == TypeOK /\ [Next]_vars => TypeOK'
  <1> SUFFICES ASSUME TypeOK, [Next]_vars PROVE TypeOK'
    OBVIOUS
  <1>1. CASE UNCHANGED vars
    BY <1>1 DEF vars, reqVars, laneVars, adminVars, TypeOK
  <1> QED
    BY <1>1, CallerTypes, BatcherTypes, WorkerTypes, LaneTypes, AdminTypes DEF Next, CallerStep

\* The server starts empty.
LEMMA TypeInit == Init => TypeOK
  <1> SUFFICES ASSUME Init PROVE TypeOK
    OBVIOUS
  <1>1. Len(<<>>) = 0 /\ <<>> \in Seq(Jobs) /\ <<>> \in Seq(Batches)
    OBVIOUS
  <1>2. Cardinality({}) = 0 /\ Cardinality(Workers) \in Nat
    BY PipelineAssumption, FS_EmptySet, FS_CardinalityType
  <1>3. /\ q \in Seq(Jobs) /\ Len(q) <= queueCapacity
        /\ batch = <<>> /\ Len(batch) < MaxBatchSize
        /\ pool \in Seq(Batches) /\ Len(pool) <= poolDepth
    BY <1>1, Capacities DEF Init
  <1>4. slots \subseteq Jobs /\ Cardinality(slots) <= Cardinality(Workers)
    BY <1>2 DEF Init
  <1>5. /\ caller \in [Jobs -> {"new", "enqueue", "wait", "answered", "left", "refused", "cut"}]
        /\ worker \in [Workers -> Batches \cup {<<>>}]
        /\ resultCh \in [Jobs -> 0..1]
    BY DEF Init
  <1>6. admin \in [AdminCalls -> [do : {"none", "drain", "resume", "restart"},
                                  pc : {"idle", "hook", "signal"}]]
    BY DEF Init, NoCall
  <1>7. adminDone \in 0..MaxAdmin
    BY PipelineAssumption DEF Init
  <1>8. /\ batcher \in {"run", "drain", "exited"} /\ exited \subseteq Workers
        /\ spill \subseteq Batches /\ phase \in {"serving", "cancelled", "gone"}
        /\ draining \in BOOLEAN /\ paused \in BOOLEAN
    BY DEF Init
  <1> QED BY <1>3, <1>4, <1>5, <1>6, <1>7, <1>8 DEF TypeOK

\* The queue, the batches and the pool keep within their capacities and no more
\* jobs hold a slot of the backend than there are, whatever is drained, restarted
\* or shut down in between.
THEOREM PipelineTypeCorrect == Spec => []TypeOK
  BY TypeInit, TypeStep, PTL DEF Spec
-----------------------------------------------------------------------------
(***************************************************************************)
(* No job is lost or doubled.  The lemmas say how a lane changes when a    *)
(* job, or a batch of them, moves on.                                      *)
(***************************************************************************)

\* A lane that no job enters or leaves is as it was.
LEMMA LineKept ==
    ASSUME NEW place, NEW after, NEW lane, NEW s \in Seq(Jobs),
           Line(place, lane, s),
           \A j \in Jobs : after[j] = lane <=> place[j] = lane
    PROVE  Line(after, lane, s)
  <1>1. \A i \in 1..Len(s) : s[i] \in Jobs
    OBVIOUS
  <1> QED BY <1>1 DEF Line

\* A lane that no job enters or leaves.
LEMMA LinesKept ==
    ASSUME NEW place, NEW after, NEW lane, NEW f,
           \A d \in DOMAIN f : f[d] \in Seq(Jobs),
           LinesOf(place, lane, f),
           \A j \in Jobs : after[j] = lane <=> place[j] = lane
    PROVE  LinesOf(after, lane, f)
  <1>1. \A d \in DOMAIN f : \A i \in 1..Len(f[d]) : f[d][i] \in Jobs
    OBVIOUS
  <1> QED BY <1>1 DEF LinesOf

\* A job enters a lane at its end ...
LEMMA LineGrows ==
    ASSUME NEW place \in [Jobs -> Lanes], NEW lane \in Lanes, NEW s \in Seq(Jobs), NEW j \in Jobs,
           Line(place, lane, s), place[j] # lane
    PROVE  Line([place EXCEPT ![j] = lane], lane, Append(s, j))
  <1> DEFINE after == [place EXCEPT ![j] = lane]
             t == Append(s, j)
  <1>1. /\ Len(s) \in Nat /\ Len(t) = Len(s) + 1 /\ t[Len(s) + 1] = j
        /\ \A i \in 1..Len(s) : t[i] = s[i] /\ s[i] \in Jobs
    OBVIOUS
  <1>2. \A i \in 1..Len(s) : s[i] # j
    BY DEF Line
  <1>3. \A i \in 1..Len(t) : i \in 1..Len(s) \/ i = Len(s) + 1
    BY <1>1
  <1>4. \A i \in 1..Len(t) : after[t[i]] = lane
    BY <1>1, <1>2, <1>3 DEF Line
  <1>5. \A i, k \in 1..Len(t) : t[i] = t[k] => i = k
    BY <1>1, <1>2, <1>3 DEF Line
  <1>6. ASSUME NEW k \in Jobs, after[k] = lane PROVE \E i \in 1..Len(t) : t[i] = k
    <2>1. CASE k = j
      BY <1>1, <2>1
    <2>2. CASE k # j
      <3>1. PICK i \in 1..Len(s) : s[i] = k
        BY <1>6, <2>2 DEF Line
      <3> QED BY <1>1, <3>1
    <2> QED BY <2>1, <2>2
  <1> QED BY <1>4, <1>5, <1>6 DEF Line

\* ... and leaves another at its head.
LEMMA LineShrinks ==
    ASSUME NEW place \in [Jobs -> Lanes], NEW lane \in Lanes, NEW s \in Seq(Jobs), s # <<>>,
           NEW to \in Lanes, to # lane,
           Line(place, lane, s)
    PROVE  Line([place EXCEPT ![Head(s)] = to], lane, Tail(s))
  <1> DEFINE after == [place EXCEPT ![Head(s)] = to]
             t == Tail(s)
  <1>1. /\ Len(s) \in Nat /\ Len(s) >= 1 /\ Len(t) = Len(s) - 1 /\ Head(s) = s[1] /\ s[1] \in Jobs
        /\ \A i \in 1..Len(t) : t[i] = s[i + 1] /\ i + 1 \in 2..Len(s) /\ s[i + 1] \in Jobs
    OBVIOUS
  <1>2. \A i \in 2..Len(s) : s[i] # s[1]
    BY <1>1 DEF Line
  <1>3. \A i \in 1..Len(t) : after[t[i]] = lane
    BY <1>1, <1>2 DEF Line
  <1>4. \A i, k \in 1..Len(t) : t[i] = t[k] => i = k
    BY <1>1 DEF Line
  <1>5. ASSUME NEW k \in Jobs, after[k] = lane PROVE \E i \in 1..Len(t) : t[i] = k
    <2>1. k # s[1] /\ place[k] = lane
      BY <1>1, <1>5
    <2>2. PICK i \in 1..Len(s) : s[i] = k
      BY <2>1 DEF Line
    <2>3. i - 1 \in 1..Len(t) /\ t[i - 1] = k
      BY <1>1, <2>1, <2>2
    <2> QED BY <2>3
  <1> QED BY <1>3, <1>4, <1>5 DEF Line

\* The jobs of batch b move to a lane.
Moved(place, b, lane) ==
    [j \in Jobs |-> IF \E i \in 1..Len(b) : b[i] = j THEN lane ELSE place[j]]

\* g is f with batch b at x, where f has none.
Filled(f, g, x, b) ==
    /\ DOMAIN g = DOMAIN f \cup {x}
    /\ x \in DOMAIN f => f[x] = <<>>
    /\ g[x] = b
    /\ \A d \in DOMAIN f : d # x => g[d] = f[d]

\* A batch enters a lane, at a place that was free.
LEMMA LinesGrow ==
    ASSUME NEW place \in [Jobs -> Lanes], NEW lane \in Lanes, NEW f, NEW g, NEW x, NEW b \in Seq(Jobs),
           \A d \in DOMAIN f : f[d] \in Seq(Jobs),
           LinesOf(place, lane, f),
           \A i \in 1..Len(b) : place[b[i]] # lane,
           \A i, k \in 1..Len(b) : b[i] = b[k] => i = k,
           Filled(f, g, x, b)
    PROVE  LinesOf(Moved(place, b, lane), lane, g)
  <1> USE DEF Filled
  <1> DEFINE after == Moved(place, b, lane)
  <1>1. \A i \in 1..Len(b) : b[i] \in Jobs /\ after[b[i]] = lane
    BY DEF Moved
  <1>2. \A d \in DOMAIN f : \A i \in 1..Len(f[d]) :
           /\ f[d][i] \in Jobs /\ after[f[d][i]] = lane
           /\ \A k \in 1..Len(b) : f[d][i] # b[k]
    <2>1. \A d \in DOMAIN f : \A i \in 1..Len(f[d]) : f[d][i] \in Jobs /\ place[f[d][i]] = lane
      BY DEF LinesOf
    <2> QED BY <2>1 DEF Moved
  <1>3. \A d \in DOMAIN g : d = x \/ (d \in DOMAIN f /\ d # x /\ g[d] = f[d])
    OBVIOUS
  <1>4. \A d \in DOMAIN g : \A i \in 1..Len(g[d]) : after[g[d][i]] = lane
    BY <1>1, <1>2, <1>3
  <1>5. ASSUME NEW d \in DOMAIN g, NEW e \in DOMAIN g, NEW i \in 1..Len(g[d]), NEW k \in 1..Len(g[e]),
               g[d][i] = g[e][k]
        PROVE  d = e /\ i = k
    <2>1. CASE d = x /\ e = x
      BY <1>5, <2>1
    <2>2. CASE d # x /\ e # x
      <3>1. /\ d \in DOMAIN f /\ i \in 1..Len(f[d])
            /\ e \in DOMAIN f /\ k \in 1..Len(f[e]) /\ f[d][i] = f[e][k]
        BY <1>3, <1>5, <2>2
      <3> QED BY <3>1 DEF LinesOf
    <2>3. CASE d = x /\ e # x
      <3>1. e \in DOMAIN f /\ k \in 1..Len(f[e]) /\ i \in 1..Len(b) /\ f[e][k] = b[i]
        BY <1>3, <1>5, <2>3
      <3> QED BY <1>2, <3>1
    <2>4. CASE d # x /\ e = x
      <3>1. d \in DOMAIN f /\ i \in 1..Len(f[d]) /\ k \in 1..Len(b) /\ f[d][i] = b[k]
        BY <1>3, <1>5, <2>4
      <3> QED BY <1>2, <3>1
    <2> QED BY <2>1, <2>2, <2>3, <2>4
  <1>6. ASSUME NEW j \in Jobs, after[j] = lane
        PROVE  \E d \in DOMAIN g : \E i \in 1..Len(g[d]) : g[d][i] = j
    <2>1. CASE \E i \in 1..Len(b) : b[i] = j
      BY <2>1
    <2>2. CASE ~ \E i \in 1..Len(b) : b[i] = j
      <3>1. place[j] = lane
        BY <1>6, <2>2 DEF Moved
      <3>2. PICK d \in DOMAIN f : \E i \in 1..Len(f[d]) : f[d][i] = j
        BY <3>1 DEF LinesOf
      <3>3. d # x
        BY <3>2, NoElements
      <3> QED BY <3>2, <3>3
    <2> QED BY <2>1, <2>2
  <1> QED BY <1>4, <1>5, <1>6 DEF LinesOf

\* A batch goes to the end of the pool.
LEMMA LinesAppend ==
    ASSUME NEW place \in [Jobs -> Lanes], NEW lane \in Lanes,
           NEW P \in Seq(Seq(Jobs)), NEW b \in Seq(Jobs),
           LinesOf(place, lane, P),
           \A i \in 1..Len(b) : place[b[i]] # lane,
           \A i, k \in 1..Len(b) : b[i] = b[k] => i = k
    PROVE  LinesOf(Moved(place, b, lane), lane, Append(P, b))
  <1> DEFINE g == Append(P, b)
             x == Len(P) + 1
  <1>1. /\ DOMAIN g = DOMAIN P \cup {x} /\ x \notin DOMAIN P /\ g[x] = b
        /\ \A d \in DOMAIN P : d # x => g[d] = P[d]
        /\ \A d \in DOMAIN P : P[d] \in Seq(Jobs)
    OBVIOUS
  <1>2. Filled(P, g, x, b)
    BY <1>1 DEF Filled
  <1> HIDE DEF g, x
  <1>3. LinesOf(Moved(place, b, lane), lane, g)
    BY <1>1, <1>2, LinesGrow
  <1> QED BY <1>3 DEF g

\* The first batch leaves the pool.
LEMMA LinesShrink ==
    ASSUME NEW place \in [Jobs -> Lanes], NEW lane \in Lanes, NEW to \in Lanes, to # lane,
           NEW P \in Seq(Seq(Jobs)), P # <<>>,
           LinesOf(place, lane, P)
    PROVE  LinesOf(Moved(place, Head(P), to), lane, Tail(P))
  <1> DEFINE after == Moved(place, Head(P), to)
             t == Tail(P)
  <1>1. /\ Len(P) \in Nat /\ Len(P) >= 1 /\ Len(t) = Len(P) - 1 /\ Head(P) = P[1]
        /\ DOMAIN P = 1..Len(P) /\ DOMAIN t = 1..Len(t)
        /\ \A d \in 1..Len(t) : t[d] = P[d + 1] /\ d + 1 \in 1..Len(P) /\ d + 1 # 1
    OBVIOUS
  <1>2. \A d \in 1..Len(P) : P[d] \in Seq(Jobs) /\ \A i \in 1..Len(P[d]) : P[d][i] \in Jobs
    OBVIOUS
  <1> HIDE DEF t
  <1>6. /\ \A d \in 1..Len(P) : \A i \in 1..Len(P[d]) : place[P[d][i]] = lane
        /\ \A d, e \in 1..Len(P) : \A i \in 1..Len(P[d]), k \in 1..Len(P[e]) :
              P[d][i] = P[e][k] => d = e /\ i = k
    BY <1>1 DEF LinesOf
  <1>3. \A d \in 1..Len(t) : \A i \in 1..Len(t[d]) : after[t[d][i]] = lane
    <2> SUFFICES ASSUME NEW d \in 1..Len(t), NEW i \in 1..Len(t[d]) PROVE after[t[d][i]] = lane
      OBVIOUS
    <2>1. place[t[d][i]] = lane /\ t[d][i] \in Jobs
      <3>1. d + 1 \in 1..Len(P) /\ t[d] = P[d + 1]
        BY <1>1
      <3> QED BY <1>2, <1>6, <3>1
    <2>2. \A k \in 1..Len(P[1]) : P[1][k] # t[d][i]
      <3>1. 1 \in 1..Len(P) /\ d + 1 \in 1..Len(P) /\ t[d] = P[d + 1] /\ d + 1 # 1
        BY <1>1
      <3> QED BY <1>6, <3>1
    <2> QED BY <1>1, <2>1, <2>2 DEF Moved
  <1>4. \A d, e \in 1..Len(t) : \A i \in 1..Len(t[d]), k \in 1..Len(t[e]) :
           t[d][i] = t[e][k] => d = e /\ i = k
    <2> SUFFICES ASSUME NEW d \in 1..Len(t), NEW e \in 1..Len(t),
                        NEW i \in 1..Len(t[d]), NEW k \in 1..Len(t[e]), t[d][i] = t[e][k]
                 PROVE  d = e /\ i = k
      OBVIOUS
    <2>1. /\ d + 1 \in 1..Len(P) /\ t[d] = P[d + 1]
          /\ e + 1 \in 1..Len(P) /\ t[e] = P[e + 1]
      BY <1>1
    <2>2. \A x, y \in 1..Len(P) : \A a \in 1..Len(P[x]), b \in 1..Len(P[y]) :
             P[x][a] = P[y][b] => x = y /\ a = b
      BY <1>6
    <2>3. \A a \in 1..Len(P[d + 1]), b \in 1..Len(P[e + 1]) :
             P[d + 1][a] = P[e + 1][b] => d + 1 = e + 1 /\ a = b
      BY <2>1, <2>2
    <2>4. /\ i \in 1..Len(P[d + 1]) /\ k \in 1..Len(P[e + 1])
          /\ P[d + 1][i] = P[e + 1][k]
      BY <2>1
    <2>5. d + 1 = e + 1 /\ i = k
      BY <2>3, <2>4, ZenonT(40)
    <2> QED BY <2>5
  <1>5. ASSUME NEW j \in Jobs, after[j] = lane
        PROVE  \E d \in 1..Len(t) : \E i \in 1..Len(t[d]) : t[d][i] = j
    <2>1. place[j] = lane /\ \A i \in 1..Len(P[1]) : P[1][i] # j
      BY <1>1, <1>5 DEF Moved
    <2>2. PICK d \in 1..Len(P) : \E i \in 1..Len(P[d]) : P[d][i] = j
      BY <1>1, <2>1 DEF LinesOf
    <2>3. d # 1
      BY <2>1, <2>2
    <2>4. d - 1 \in 1..Len(t) /\ t[d - 1] = P[d]
      BY <1>1, <2>2, <2>3
    <2>5. PICK i \in 1..Len(P[d]) : P[d][i] = j
      BY <2>2
    <2>6. i \in 1..Len(t[d - 1]) /\ t[d - 1][i] = j
      BY <2>4, <2>5
    <2> QED BY <2>4, <2>6
  <1> HIDE DEF after
  <1>7. LinesOf(after, lane, t)
    <2>1. DOMAIN t = 1..Len(t)
      BY <1>1
    <2> QED BY <2>1, <1>3, <1>4, <1>5 DEF LinesOf
  <1> QED BY <1>7 DEF after, t

\* A job leaves the head of its batch, if it is in this lane at all.
LEMMA LinesPop ==
    ASSUME NEW place \in [Jobs -> Lanes], NEW lane \in Lanes, NEW to \in Lanes, to # lane,
           NEW f, NEW g, NEW j \in Jobs,
           \A d \in DOMAIN f : f[d] \in Seq(Jobs),
           LinesOf(place, lane, f),
           place[j] = lane => \E d \in DOMAIN f : f[d] # <<>> /\ Head(f[d]) = j,
           DOMAIN g = DOMAIN f,
           \A d \in DOMAIN f : g[d] = IF f[d] # <<>> /\ Head(f[d]) = j THEN Tail(f[d]) ELSE f[d]
    PROVE  LinesOf([place EXCEPT ![j] = to], lane, g)
  <1> DEFINE after == [place EXCEPT ![j] = to]
             pops(d) == f[d] # <<>> /\ Head(f[d]) = j
  <1>1. \A d \in DOMAIN f : /\ Len(f[d]) \in Nat
                            /\ \A i \in 1..Len(f[d]) : f[d][i] \in Jobs
    OBVIOUS
  <1>2. \A d \in DOMAIN f : pops(d) =>
           /\ Len(f[d]) >= 1 /\ f[d][1] = j /\ Len(g[d]) = Len(f[d]) - 1
           /\ \A i \in 1..Len(g[d]) : g[d][i] = f[d][i + 1] /\ i + 1 \in 1..Len(f[d]) /\ i + 1 # 1
    <2> SUFFICES ASSUME NEW d \in DOMAIN f, pops(d)
                 PROVE  /\ Len(f[d]) >= 1 /\ f[d][1] = j /\ Len(g[d]) = Len(f[d]) - 1
                        /\ \A i \in 1..Len(g[d]) : /\ g[d][i] = f[d][i + 1]
                                                   /\ i + 1 \in 1..Len(f[d]) /\ i + 1 # 1
      OBVIOUS
    <2>1. f[d] \in Seq(Jobs) /\ f[d] # <<>> /\ Head(f[d]) = j /\ g[d] = Tail(f[d])
      OBVIOUS
    <2> HIDE DEF pops
    <2> QED BY <2>1
  <1>3. \A d \in DOMAIN f : ~pops(d) => g[d] = f[d]
    OBVIOUS
  <1> HIDE DEF pops
  <1>4. \A d \in DOMAIN f : \A i \in 1..Len(g[d]) : \E k \in 1..Len(f[d]) :
           /\ g[d][i] = f[d][k] /\ f[d][k] # j
           /\ k = IF pops(d) THEN i + 1 ELSE i
    <2> SUFFICES ASSUME NEW d \in DOMAIN f, NEW i \in 1..Len(g[d])
                 PROVE  \E k \in 1..Len(f[d]) : /\ g[d][i] = f[d][k] /\ f[d][k] # j
                                                /\ k = IF pops(d) THEN i + 1 ELSE i
      OBVIOUS
    <2>1. CASE pops(d)
      <3>1. f[d][i + 1] # f[d][1]
        BY <1>1, <1>2, <2>1 DEF LinesOf
      <3> QED BY <1>2, <2>1, <3>1
    <2>2. CASE ~pops(d)
      <3>1. f[d][i] # j
        <4>1. SUFFICES ASSUME f[d][i] = j PROVE FALSE
          OBVIOUS
        <4>2. place[j] = lane
          BY <1>3, <2>2, <4>1 DEF LinesOf
        <4>3. PICK e \in DOMAIN f : pops(e)
          BY <4>2 DEF pops
        <4>4. 1 \in 1..Len(f[e]) /\ f[e][1] = j
          BY <1>1, <1>2, <4>3
        <4>5. d = e
          BY <1>3, <2>2, <4>1, <4>4 DEF LinesOf
        <4> QED BY <2>2, <4>3, <4>5
      <3> QED BY <1>3, <2>2, <3>1
    <2> QED BY <2>1, <2>2
  <1>5. \A d \in DOMAIN g : \A i \in 1..Len(g[d]) : after[g[d][i]] = lane
    BY <1>1, <1>4 DEF LinesOf
  <1>6. ASSUME NEW d \in DOMAIN g, NEW e \in DOMAIN g, NEW i \in 1..Len(g[d]), NEW k \in 1..Len(g[e]),
               g[d][i] = g[e][k]
        PROVE  d = e /\ i = k
    <2>1. PICK m \in 1..Len(f[d]) : g[d][i] = f[d][m] /\ m = IF pops(d) THEN i + 1 ELSE i
      BY <1>4
    <2>2. PICK n \in 1..Len(f[e]) : g[e][k] = f[e][n] /\ n = IF pops(e) THEN k + 1 ELSE k
      BY <1>4
    <2>3. d \in DOMAIN f /\ e \in DOMAIN f /\ f[d][m] = f[e][n]
      BY <1>6, <2>1, <2>2
    <2>4. d = e /\ m = n
      BY <2>3 DEF LinesOf
    <2> QED BY <2>1, <2>2, <2>4
  <1>7. ASSUME NEW k \in Jobs, after[k] = lane
        PROVE  \E d \in DOMAIN g : \E i \in 1..Len(g[d]) : g[d][i] = k
    <2>1. k # j /\ place[k] = lane
      BY <1>7
    <2>0. PICK d \in DOMAIN f : \E i \in 1..Len(f[d]) : f[d][i] = k
      BY <2>1 DEF LinesOf
    <2>2. PICK i \in 1..Len(f[d]) : f[d][i] = k
      BY <2>0
    <2>3. CASE pops(d)
      <3>1. i - 1 \in 1..Len(g[d]) /\ g[d][i - 1] = k
        BY <1>1, <1>2, <2>1, <2>2, <2>3
      <3> QED BY <3>1
    <2>4. CASE ~pops(d)
      BY <1>3, <2>2, <2>4
    <2> QED BY <2>3, <2>4
  <1> QED BY <1>5, <1>6, <1>7 DEF LinesOf

\* Lines under other names, the empty ones left out.
LEMMA LinesRenamed ==
    ASSUME NEW place, NEW lane, NEW f,
           \A d \in DOMAIN f : f[d] \in Seq(Jobs),
           LinesOf(place, lane, f),
           NEW S, S = {f[d] : d \in DOMAIN f} \ {<<>>}
    PROVE  LinesOf(place, lane, [b \in S |-> b])
  <1>1. \A b \in S : \E d \in DOMAIN f : b = f[d]
    OBVIOUS
  <1>2. \A b \in S : \A i \in 1..Len(b) : place[b[i]] = lane
    BY <1>1 DEF LinesOf
  <1>3. \A b, c \in S : \A i \in 1..Len(b), k \in 1..Len(c) : b[i] = c[k] => b = c /\ i = k
    BY <1>1 DEF LinesOf
  <1>4. ASSUME NEW j \in Jobs, place[j] = lane PROVE \E b \in S : \E i \in 1..Len(b) : b[i] = j
    <2>1. PICK d \in DOMAIN f : \E i \in 1..Len(f[d]) : f[d][i] = j
      BY <1>4 DEF LinesOf
    <2>2. f[d] # <<>>
      BY <2>1, NoElements
    <2> QED BY <2>1, <2>2
  <1> QED BY <1>2, <1>3, <1>4 DEF LinesOf

\* What the lanes hold are sequences of jobs.
LEMMA LaneTypesOK ==
    ASSUME TypeOK
    PROVE  /\ q \in Seq(Jobs) /\ batch \in Seq(Jobs)
           /\ pool \in Seq(Seq(Jobs)) /\ \A d \in DOMAIN pool : pool[d] \in Seq(Jobs)
           /\ DOMAIN worker = Workers /\ \A w \in Workers : worker[w] \in Seq(Jobs)
           /\ \A b \in spill : b \in Seq(Jobs) /\ b # <<>> /\ Len(b) \in Nat /\ Len(b) >= 1
  <1>1. q \in Seq(Jobs) /\ batch \in Seq(Jobs)
    BY BatchParts DEF TypeOK
  <1>2. Batches \subseteq Seq(Jobs)
    BY BatchIsSeq
  <1>3. pool \in Seq(Batches)
    BY DEF TypeOK
  <1>4. pool \in Seq(Seq(Jobs)) /\ \A d \in DOMAIN pool : pool[d] \in Seq(Jobs)
    BY <1>2, <1>3
  <1>5. DOMAIN worker = Workers /\ \A w \in Workers : worker[w] \in Seq(Jobs)
    BY BatchParts DEF TypeOK
  <1>6. ASSUME NEW b \in spill PROVE b \in Seq(Jobs) /\ b # <<>> /\ Len(b) \in Nat /\ Len(b) >= 1
    <2>1. b \in Seq(Jobs) /\ Len(b) \in 1..MaxBatchSize
      BY BatchIsSeq DEF TypeOK
    <2> QED BY <2>1, NoElements, Capacities
  <1> QED BY <1>1, <1>4, <1>5, <1>6

\* A step on which no job becomes or stops being expected or answered.
LEMMA CallersKept ==
    ASSUME NEW place, NEW after, CallersHold(place),
           UNCHANGED <<caller, resultCh>>,
           \A j \in Jobs : /\ after[j] = "none" <=> place[j] = "none"
                           /\ after[j] = "result" <=> place[j] = "result"
    PROVE  CallersHold(after)'
  BY DEF CallersHold

\* The jobs of a flushed batch go to the pool or, with others, outside it.
LEMMA FlushPlaces ==
    ASSUME TypeOK, NEW place \in [Jobs -> Lanes], NEW Q \in Seq(Jobs), NEW b \in Batches,
           LanesHold(place, Q, b, pool, worker, spill), flush(b)
    PROVE  \E after \in [Jobs -> Lanes] :
              /\ LanesHold(after, Q, batch', pool', worker, spill')
              /\ \A j \in Jobs : /\ after[j] = "none" <=> place[j] = "none"
                                 /\ after[j] = "result" <=> place[j] = "result"
  <1> DEFINE to == IF Len(pool) < poolDepth THEN "pool" ELSE "spill"
             after == Moved(place, b, to)
  <1>1. b \in Seq(Jobs) /\ Len(b) \in Nat /\ Len(b) >= 1
    <2>1. b \in Seq(Jobs) /\ Len(b) \in 1..MaxBatchSize
      BY BatchIsSeq
    <2> QED BY <2>1, Capacities
  <1>2. /\ Line(place, "queue", Q) /\ Line(place, "batch", b) /\ LinesOf(place, "pool", pool)
        /\ LinesOf(place, "worker", worker) /\ LinesOf(place, "spill", [x \in spill |-> x])
    BY DEF LanesHold
  <1>3. \A j \in Jobs : (\E i \in 1..Len(b) : b[i] = j) <=> place[j] = "batch"
    BY <1>1, <1>2 DEF Line
  <1>4. \A j \in Jobs : after[j] = IF place[j] = "batch" THEN to ELSE place[j]
    BY <1>3 DEF Moved
  <1>5. after \in [Jobs -> Lanes]
    BY DEF Moved, Lanes
  <1>6. Line(after, "queue", Q) /\ LinesOf(after, "worker", worker)
    <2>1. \A j \in Jobs : /\ after[j] = "queue" <=> place[j] = "queue"
                          /\ after[j] = "worker" <=> place[j] = "worker"
      BY <1>4
    <2> HIDE DEF after
    <2> QED BY <1>2, <2>1, LineKept, LinesKept, LaneTypesOK
  <1>7. Line(after, "batch", batch')
    <2>1. \A j \in Jobs : after[j] # "batch"
      BY <1>4
    <2>2. batch' = <<>> /\ Len(batch') = 0
      BY NoElements DEF flush
    <2> HIDE DEF after
    <2> QED BY <2>1, <2>2 DEF Line
  <1>8. \A i \in 1..Len(b) : b[i] \in Jobs /\ place[b[i]] = "batch"
    BY <1>1, <1>2 DEF Line
  <1>9. \A i, k \in 1..Len(b) : b[i] = b[k] => i = k
    BY <1>2 DEF Line
  <1>10. LinesOf(after, "pool", pool') /\ LinesOf(after, "spill", [x \in spill' |-> x])
    <2>1. CASE Len(pool) < poolDepth
      <3>1. pool' = Append(pool, b) /\ spill' = spill /\ to = "pool"
        BY <2>1 DEF flush
      <3>3. LinesOf(Moved(place, b, "pool"), "pool", pool')
        <4>1. "pool" \in Lanes /\ \A i \in 1..Len(b) : place[b[i]] # "pool"
          BY <1>8 DEF Lanes
        <4>2. pool \in Seq(Seq(Jobs)) /\ b \in Seq(Jobs) /\ LinesOf(place, "pool", pool)
          BY <1>1, <1>2, LaneTypesOK
        <4>3. LinesOf(Moved(place, b, "pool"), "pool", Append(pool, b))
          BY <1>9, <4>1, <4>2, LinesAppend
        <4> QED BY <3>1, <4>3
      <3>4. \A j \in Jobs : after[j] = "spill" <=> place[j] = "spill"
        BY <1>4, <3>1
      <3>5. \A d \in DOMAIN [x \in spill |-> x] : [x \in spill |-> x][d] \in Seq(Jobs)
        BY LaneTypesOK
      <3>6. LinesOf(after, "spill", [x \in spill |-> x])
        <4> HIDE DEF after
        <4> QED BY <1>2, <3>4, <3>5, LinesKept
      <3> QED BY <3>1, <3>3, <3>6
    <2>2. CASE ~(Len(pool) < poolDepth)
      <3> DEFINE f == [x \in spill |-> x]
                 g == [x \in spill \cup {b} |-> x]
      <3>1. pool' = pool /\ spill' = spill \cup {b} /\ to = "spill"
        BY <2>2 DEF flush
      <3>2. b \notin spill
        <4> SUFFICES ASSUME b \in spill PROVE FALSE
          OBVIOUS
        <4>1. place[f[b][1]] = "spill"
          BY <1>1, <1>2 DEF LinesOf
        <4> QED BY <1>1, <1>8, <4>1
      <3>3. /\ DOMAIN g = DOMAIN f \cup {b} /\ b \notin DOMAIN f /\ g[b] = b
            /\ \A d \in DOMAIN f : g[d] = f[d]
            /\ \A d \in DOMAIN f : f[d] \in Seq(Jobs)
        BY <3>2, LaneTypesOK
      <3>4. "spill" \in Lanes /\ \A i \in 1..Len(b) : place[b[i]] # "spill"
        BY <1>8 DEF Lanes
      <3>5. LinesOf(place, "spill", f)
        BY <1>2
      <3>6. LinesOf(Moved(place, b, "spill"), "spill", g)
        <4>1. Filled(f, g, b, b)
          BY <3>3 DEF Filled
        <4> HIDE DEF f, g
        <4> QED BY <1>1, <1>9, <3>3, <3>4, <3>5, <4>1, LinesGrow
      <3>7. \A j \in Jobs : after[j] = "pool" <=> place[j] = "pool"
        BY <1>4, <3>1
      <3>8. LinesOf(after, "pool", pool)
        <4> HIDE DEF after
        <4> QED BY <1>2, <3>7, LinesKept, LaneTypesOK
      <3> QED BY <3>1, <3>6, <3>8
    <2> QED BY <2>1, <2>2
  <1>11. LanesHold(after, Q, batch', pool', worker, spill')
    BY <1>6, <1>7, <1>10 DEF LanesHold
  <1>12. \A j \in Jobs : /\ after[j] = "none" <=> place[j] = "none"
                         /\ after[j] = "result" <=> place[j] = "result"
    BY <1>4
  <1> HIDE DEF after
  <1> QED BY <1>5, <1>11, <1>12

\* A step that moves no job keeps every job's place.
LEMMA StayPlaces ==
    ASSUME Located, UNCHANGED <<q, batch, pool, worker, spill, resultCh>>,
           \A j \in Jobs :
              /\ caller'[j] \in {"wait", "left"} => caller[j] \in {"wait", "left"}
              /\ caller'[j] \in {"new", "enqueue", "answered", "refused"}
                    => caller[j] \in {"new", "enqueue", "answered", "refused"}
    PROVE  Located'
  <1>1. PICK place \in [Jobs -> Lanes] :
           LanesHold(place, q, batch, pool, worker, spill) /\ CallersHold(place)
    BY DEF Located
  <1>2. CallersHold(place)'
    BY <1>1 DEF CallersHold
  <1>3. LanesHold(place, q', batch', pool', worker', spill')
    BY <1>1
  <1> QED BY <1>2, <1>3 DEF Located

\* The callers: a job enters the queue, or its result leaves the channel.
LEMMA CallerPlaces ==
    ASSUME PipelineIInv, NEW j \in Jobs,
           handleInfer(j) \/ processJob(j) \/ Enqueue(j) \/ ReceiveResult(j) \/ CallerLeaves(j)
    PROVE  Located'
  <1>1. TypeOK /\ Located
    BY DEF PipelineIInv
  <1>2. CASE handleInfer(j) \/ processJob(j) \/ CallerLeaves(j)
    <2>1. UNCHANGED <<q, batch, pool, worker, spill, resultCh>>
      BY <1>2 DEF handleInfer, processJob, CallerLeaves, laneVars
    <2>2. \A k \in Jobs :
              /\ caller'[k] \in {"wait", "left"} => caller[k] \in {"wait", "left"}
              /\ caller'[k] \in {"new", "enqueue", "answered", "refused"}
                    => caller[k] \in {"new", "enqueue", "answered", "refused"}
      BY <1>1, <1>2 DEF TypeOK, handleInfer, processJob, CallerLeaves, CallerGoes
    <2> QED BY <1>1, <2>1, <2>2, StayPlaces
  <1>3. PICK place \in [Jobs -> Lanes] :
           LanesHold(place, q, batch, pool, worker, spill) /\ CallersHold(place)
    BY <1>1 DEF Located
  <1>4. /\ Line(place, "queue", q) /\ Line(place, "batch", batch) /\ LinesOf(place, "pool", pool)
        /\ LinesOf(place, "worker", worker) /\ LinesOf(place, "spill", [b \in spill |-> b])
    BY <1>3 DEF LanesHold
  <1>5. ASSUME NEW to \in {"queue", "none"}, place[j] \in {"none", "result"}
        PROVE  LET after == [place EXCEPT ![j] = to]
               IN  /\ after \in [Jobs -> Lanes]
                   /\ Line(after, "batch", batch) /\ LinesOf(after, "pool", pool)
                   /\ LinesOf(after, "worker", worker) /\ LinesOf(after, "spill", [b \in spill |-> b])
    <2> DEFINE after == [place EXCEPT ![j] = to]
    <2>1. after \in [Jobs -> Lanes]
      BY DEF Lanes
    <2>2. \A k \in Jobs : /\ after[k] = "batch" <=> place[k] = "batch"
                          /\ after[k] = "pool" <=> place[k] = "pool"
                          /\ after[k] = "worker" <=> place[k] = "worker"
                          /\ after[k] = "spill" <=> place[k] = "spill"
      BY <1>5
    <2>3. \A d \in DOMAIN [b \in spill |-> b] : [b \in spill |-> b][d] \in Seq(Jobs)
      BY <1>1, LaneTypesOK
    <2> HIDE DEF after
    <2>4. LinesOf(after, "spill", [b \in spill |-> b])
      BY <1>4, <2>2, <2>3, LinesKept
    <2>5. Line(after, "batch", batch) /\ LinesOf(after, "pool", pool) /\ LinesOf(after, "worker", worker)
      BY <1>1, <1>4, <2>2, LineKept, LinesKept, LaneTypesOK
    <2> QED BY <2>1, <2>4, <2>5 DEF after
  <1>6. CASE Enqueue(j)
    <2>1. PICK after \in [Jobs -> Lanes] : after = [place EXCEPT ![j] = "queue"]
      BY DEF Lanes
    <2>2. place[j] = "none"
      BY <1>3, <1>6 DEF CallersHold, Enqueue
    <2>3. Line(after, "queue", Append(q, j))
      <3>1. "queue" \in Lanes /\ q \in Seq(Jobs)
        BY <1>1, LaneTypesOK DEF Lanes
      <3> QED BY <1>4, <2>1, <2>2, <3>1, LineGrows
    <2>4. LanesHold(after, q', batch', pool', worker', spill')
      BY <1>5, <1>6, <2>1, <2>2, <2>3 DEF LanesHold, Enqueue, laneVars
    <2>5. CallersHold(after)'
      BY <1>1, <1>3, <1>6, <2>1, <2>2 DEF CallersHold, Enqueue, CallerGoes, TypeOK
    <2> QED BY <2>4, <2>5 DEF Located
  <1>7. CASE ReceiveResult(j)
    <2>1. PICK after \in [Jobs -> Lanes] : after = [place EXCEPT ![j] = "none"]
      BY DEF Lanes
    <2>2. place[j] = "result"
      BY <1>3, <1>7 DEF CallersHold, ReceiveResult
    <2>3. Line(after, "queue", q)
      <3>1. \A k \in Jobs : after[k] = "queue" <=> place[k] = "queue"
        BY <2>1, <2>2
      <3> QED BY <1>1, <1>4, <3>1, LineKept, LaneTypesOK
    <2>4. LanesHold(after, q', batch', pool', worker', spill')
      BY <1>5, <1>7, <2>1, <2>2, <2>3 DEF LanesHold, ReceiveResult, laneVars
    <2>5. CallersHold(after)'
      BY <1>1, <1>3, <1>7, <2>1, <2>2 DEF CallersHold, ReceiveResult, CallerGoes, TypeOK
    <2> QED BY <2>4, <2>5 DEF Located
  <1> QED BY <1>2, <1>6, <1>7

\* The batcher moves the head of the queue to the batch, and flushes.
LEMMA BatcherPlaces ==
    ASSUME PipelineIInv, BatcherStep
    PROVE  Located'
  <1>1. TypeOK /\ Located
    BY DEF PipelineIInv
  <1>2. PICK place \in [Jobs -> Lanes] :
           LanesHold(place, q, batch, pool, worker, spill) /\ CallersHold(place)
    BY <1>1 DEF Located
  <1>3. /\ Line(place, "queue", q) /\ Line(place, "batch", batch) /\ LinesOf(place, "pool", pool)
        /\ LinesOf(place, "worker", worker) /\ LinesOf(place, "spill", [b \in spill |-> b])
    BY <1>2 DEF LanesHold
  <1>4. UNCHANGED <<caller, resultCh, worker>>
    BY DEF BatcherStep, BatcherTake, BatcherWindow, BatcherCancelled, reqVars
  <1>5. CASE BatcherTake
    <2> DEFINE b == Append(batch, Head(q))
    <2>1. q \in Seq(Jobs) /\ batch \in Seq(Jobs) /\ q # <<>> /\ q' = Tail(q)
      BY <1>1, <1>5, LaneTypesOK DEF BatcherTake
    <2>2. Head(q) \in Jobs /\ Tail(q) \in Seq(Jobs) /\ Head(q) = q[1] /\ 1 \in 1..Len(q)
      BY <2>1
    <2>3. place[Head(q)] = "queue"
      BY <1>3, <2>2 DEF Line
    <2>4. PICK mid \in [Jobs -> Lanes] : mid = [place EXCEPT ![Head(q)] = "batch"]
      BY DEF Lanes
    <2>5. \A j \in Jobs : /\ mid[j] = "pool" <=> place[j] = "pool"
                          /\ mid[j] = "worker" <=> place[j] = "worker"
                          /\ mid[j] = "spill" <=> place[j] = "spill"
                          /\ mid[j] = "none" <=> place[j] = "none"
                          /\ mid[j] = "result" <=> place[j] = "result"
      BY <2>2, <2>3, <2>4
    <2>6. Line(mid, "queue", Tail(q)) /\ Line(mid, "batch", b)
      <3>1. "batch" \in Lanes /\ "queue" \in Lanes
        BY DEF Lanes
      <3>2. Line(mid, "queue", Tail(q))
        BY <1>3, <2>1, <2>4, <3>1, LineShrinks
      <3>3. Line(mid, "batch", b)
        BY <1>3, <2>1, <2>2, <2>3, <2>4, <3>1, LineGrows
      <3> QED BY <3>2, <3>3
    <2>7. LinesOf(mid, "spill", [x \in spill |-> x])
      <3>1. \A d \in DOMAIN [x \in spill |-> x] : [x \in spill |-> x][d] \in Seq(Jobs)
        BY <1>1, LaneTypesOK
      <3> QED BY <1>3, <2>5, <3>1, LinesKept
    <2>8. LinesOf(mid, "pool", pool) /\ LinesOf(mid, "worker", worker)
      BY <1>1, <1>3, <2>5, LinesKept, LaneTypesOK
    <2>9. LanesHold(mid, Tail(q), b, pool, worker, spill)
      BY <2>6, <2>7, <2>8 DEF LanesHold
    <2>10. CASE Len(b) >= MaxBatchSize /\ flush(b)
      <3>1. b \in Batches
        BY <1>1, <2>2, BatchParts DEF TypeOK
      <3>2. PICK c \in Batches : c = b
        BY <3>1
      <3>3. PICK Q \in Seq(Jobs) : Q = Tail(q)
        BY <2>2
      <3>4. LanesHold(mid, Q, c, pool, worker, spill) /\ flush(c)
        BY <2>9, <2>10, <3>2, <3>3
      <3>5. PICK after \in [Jobs -> Lanes] :
              /\ LanesHold(after, Q, batch', pool', worker, spill')
              /\ \A j \in Jobs : /\ after[j] = "none" <=> mid[j] = "none"
                                 /\ after[j] = "result" <=> mid[j] = "result"
        BY <1>1, <3>4, FlushPlaces
      <3>6. CallersHold(after)'
        BY <1>2, <1>4, <2>5, <3>5, CallersKept
      <3>7. LanesHold(after, q', batch', pool', worker', spill')
        BY <1>4, <2>1, <3>3, <3>5
      <3> QED BY <3>6, <3>7 DEF Located
    <2>11. CASE batch' = b /\ UNCHANGED <<pool, spill>>
      <3>1. CallersHold(mid)'
        BY <1>2, <1>4, <2>5, CallersKept
      <3>2. LanesHold(mid, q', batch', pool', worker', spill')
        BY <1>4, <2>1, <2>9, <2>11
      <3> QED BY <3>1, <3>2 DEF Located
    <2> QED BY <1>5, <2>10, <2>11 DEF BatcherTake
  <1>6. CASE batch # <<>> /\ flush(batch) /\ q' = q
    <2>1. PICK c \in Batches : c = batch
      BY <1>1, <1>6 DEF TypeOK
    <2>2. PICK Q \in Seq(Jobs) : Q = q
      BY <1>1, LaneTypesOK
    <2>3. LanesHold(place, Q, c, pool, worker, spill) /\ flush(c)
      BY <1>2, <1>6, <2>1, <2>2
    <2>4. PICK after \in [Jobs -> Lanes] :
              /\ LanesHold(after, Q, batch', pool', worker, spill')
              /\ \A j \in Jobs : /\ after[j] = "none" <=> place[j] = "none"
                                 /\ after[j] = "result" <=> place[j] = "result"
      BY <1>1, <2>3, FlushPlaces
    <2>5. CallersHold(after)'
      BY <1>2, <1>4, <2>4, CallersKept
    <2>6. LanesHold(after, q', batch', pool', worker', spill')
      BY <1>4, <1>6, <2>2, <2>4
    <2> QED BY <2>5, <2>6 DEF Located
  <1>7. CASE UNCHANGED <<q, batch, pool, spill>>
    BY <1>1, <1>4, <1>7, StayPlaces
  <1> QED BY <1>5, <1>6, <1>7 DEF BatcherStep, BatcherWindow, BatcherCancelled, reqVars

\* A pool worker takes the first batch of the channel.
LEMMA WorkerPlaces ==
    ASSUME PipelineIInv, NEW w \in Workers, WorkerTake(w)
    PROVE  Located'
  <1>1. TypeOK /\ Located
    BY DEF PipelineIInv
  <1>2. PICK place \in [Jobs -> Lanes] :
           LanesHold(place, q, batch, pool, worker, spill) /\ CallersHold(place)
    BY <1>1 DEF Located
  <1>3. /\ Line(place, "queue", q) /\ Line(place, "batch", batch) /\ LinesOf(place, "pool", pool)
        /\ LinesOf(place, "worker", worker) /\ LinesOf(place, "spill", [b \in spill |-> b])
    BY <1>2 DEF LanesHold
  <1>4. /\ pool \in Seq(Seq(Jobs)) /\ pool # <<>> /\ pool' = Tail(pool)
        /\ worker[w] = <<>> /\ worker' = [worker EXCEPT ![w] = Head(pool)]
        /\ UNCHANGED <<caller, resultCh, q, batch, spill>>
    BY <1>1, LaneTypesOK DEF WorkerTake, reqVars
  <1>5. Head(pool) \in Seq(Jobs) /\ Head(pool) = pool[1] /\ 1 \in DOMAIN pool
    BY <1>4
  <1>6. PICK b \in Seq(Jobs) : b = Head(pool)
    BY <1>5
  <1>7. /\ \A i \in 1..Len(b) : b[i] \in Jobs /\ place[b[i]] = "pool"
        /\ \A i, k \in 1..Len(b) : b[i] = b[k] => i = k
    BY <1>3, <1>5, <1>6 DEF LinesOf
  <1>8. PICK after \in [Jobs -> Lanes] : after = Moved(place, b, "worker")
    <2>1. Moved(place, b, "worker") \in [Jobs -> Lanes]
      BY DEF Moved, Lanes
    <2> QED BY <2>1
  <1>9. \A j \in Jobs : /\ after[j] = "queue" <=> place[j] = "queue"
                        /\ after[j] = "batch" <=> place[j] = "batch"
                        /\ after[j] = "spill" <=> place[j] = "spill"
                        /\ after[j] = "none" <=> place[j] = "none"
                        /\ after[j] = "result" <=> place[j] = "result"
    BY <1>7, <1>8 DEF Moved
  <1>10. LinesOf(after, "pool", pool')
    <2>1. "pool" \in Lanes /\ "worker" \in Lanes
      BY DEF Lanes
    <2> QED BY <1>3, <1>4, <1>6, <1>8, <2>1, LinesShrink
  <1>11. LinesOf(after, "worker", worker')
    <2>1. "worker" \in Lanes /\ \A i \in 1..Len(b) : place[b[i]] # "worker"
      BY <1>7 DEF Lanes
    <2>2. DOMAIN worker = Workers /\ \A d \in DOMAIN worker : worker[d] \in Seq(Jobs)
      BY <1>1, LaneTypesOK
    <2>3. Filled(worker, worker', w, b)
      BY <1>4, <1>6, <2>2 DEF Filled
    <2> QED BY <1>3, <1>7, <1>8, <2>1, <2>2, <2>3, LinesGrow
  <1>12. LinesOf(after, "spill", [x \in spill |-> x])
    <2>1. \A d \in DOMAIN [x \in spill |-> x] : [x \in spill |-> x][d] \in Seq(Jobs)
      BY <1>1, LaneTypesOK
    <2> QED BY <1>3, <1>9, <2>1, LinesKept
  <1>13. Line(after, "queue", q) /\ Line(after, "batch", batch)
    BY <1>1, <1>3, <1>9, LineKept, LaneTypesOK
  <1>14. LanesHold(after, q', batch', pool', worker', spill')
    BY <1>4, <1>10, <1>11, <1>12, <1>13 DEF LanesHold
  <1>15. CallersHold(after)'
    BY <1>2, <1>4, <1>9, CallersKept
  <1> QED BY <1>14, <1>15 DEF Located

\* A job is dispatched: it leaves the head of its batch and its result is sent.
LEMMA DispatchPlaces ==
    ASSUME PipelineIInv, NEW j \in Jobs, DispatchOne(j)
    PROVE  Located'
  <1>1. TypeOK /\ Located
    BY DEF PipelineIInv
  <1>2. PICK place \in [Jobs -> Lanes] :
           LanesHold(place, q, batch, pool, worker, spill) /\ CallersHold(place)
    BY <1>1 DEF Located
  <1>3. /\ Line(place, "queue", q) /\ Line(place, "batch", batch) /\ LinesOf(place, "pool", pool)
        /\ LinesOf(place, "worker", worker) /\ LinesOf(place, "spill", [b \in spill |-> b])
    BY <1>2 DEF LanesHold
  <1>4. /\ OnWorker(j) \/ OnSpill(j)
        /\ worker' = [w \in Workers |-> IF worker[w] # <<>> /\ Head(worker[w]) = j
                                        THEN Tail(worker[w]) ELSE worker[w]]
        /\ spill' = {IF Head(b) = j THEN Tail(b) ELSE b : b \in spill} \ {<<>>}
        /\ resultCh' = [resultCh EXCEPT ![j] = 1]
        /\ UNCHANGED <<caller, q, batch, pool>>
    BY DEF DispatchOne, Executing
  <1>5. OnWorker(j) => place[j] = "worker"
    <2> SUFFICES ASSUME NEW w \in Workers, worker[w] # <<>>, Head(worker[w]) = j
                 PROVE  place[j] = "worker"
      BY DEF OnWorker
    <2>1. worker[w] \in Seq(Jobs) /\ w \in DOMAIN worker
      BY <1>1, LaneTypesOK
    <2>2. 1 \in 1..Len(worker[w]) /\ worker[w][1] = j
      BY <2>1
    <2> QED BY <1>3, <2>1, <2>2 DEF LinesOf
  <1>6. OnSpill(j) => place[j] = "spill"
    <2> SUFFICES ASSUME NEW b \in spill, Head(b) = j PROVE place[j] = "spill"
      BY DEF OnSpill
    <2>1. b \in Seq(Jobs) /\ b # <<>>
      BY <1>1, LaneTypesOK
    <2>2. 1 \in 1..Len(b) /\ b[1] = j
      BY <2>1
    <2>3. \A d \in spill : \A i \in 1..Len(d) : place[d[i]] = "spill"
      BY <1>3 DEF LinesOf
    <2> QED BY <2>2, <2>3
  <1>7. PICK after \in [Jobs -> Lanes] : after = [place EXCEPT ![j] = "result"]
    BY DEF Lanes
  <1>8. \A k \in Jobs : /\ after[k] = "queue" <=> place[k] = "queue"
                        /\ after[k] = "batch" <=> place[k] = "batch"
                        /\ after[k] = "pool" <=> place[k] = "pool"
    BY <1>4, <1>5, <1>6, <1>7
  <1>9. {"result", "worker", "spill"} \subseteq Lanes
    BY DEF Lanes
  <1>10. LinesOf(after, "worker", worker')
    <2>1. /\ DOMAIN worker = Workers /\ \A d \in DOMAIN worker : worker[d] \in Seq(Jobs)
          /\ DOMAIN worker' = DOMAIN worker
          /\ \A d \in DOMAIN worker : worker'[d] = IF worker[d] # <<>> /\ Head(worker[d]) = j
                                                   THEN Tail(worker[d]) ELSE worker[d]
      BY <1>1, <1>4, LaneTypesOK
    <2>2. place[j] = "worker" => \E d \in DOMAIN worker : worker[d] # <<>> /\ Head(worker[d]) = j
      BY <1>4, <1>6, <2>1 DEF OnWorker
    <2> QED BY <1>3, <1>7, <1>9, <2>1, <2>2, LinesPop
  <1>11. LinesOf(after, "spill", [b \in spill' |-> b])
    <2> DEFINE f == [b \in spill |-> b]
               g == [b \in spill |-> IF Head(b) = j THEN Tail(b) ELSE b]
    <2>1. \A b \in spill : b \in Seq(Jobs) /\ b # <<>> /\ Tail(b) \in Seq(Jobs)
      BY <1>1, LaneTypesOK, OneMoreOrLess
    <2>2. /\ \A d \in DOMAIN f : f[d] \in Seq(Jobs)
          /\ DOMAIN g = DOMAIN f
          /\ \A d \in DOMAIN f : g[d] = IF f[d] # <<>> /\ Head(f[d]) = j THEN Tail(f[d]) ELSE f[d]
      BY <2>1
    <2>3. place[j] = "spill" => \E d \in DOMAIN f : f[d] # <<>> /\ Head(f[d]) = j
      BY <1>4, <1>5, <2>1 DEF OnSpill
    <2>4. LinesOf(place, "spill", f)
      BY <1>3
    <2>5. \A d \in DOMAIN g : g[d] \in Seq(Jobs)
      BY <2>1
    <2>6. spill' = {g[d] : d \in DOMAIN g} \ {<<>>}
      BY <1>4
    <2> HIDE DEF f, g
    <2>7. LinesOf(after, "spill", g)
      BY <1>7, <1>9, <2>2, <2>3, <2>4, LinesPop
    <2> QED BY <2>5, <2>6, <2>7, LinesRenamed
  <1>12. Line(after, "queue", q) /\ Line(after, "batch", batch) /\ LinesOf(after, "pool", pool)
    BY <1>1, <1>3, <1>8, LineKept, LinesKept, LaneTypesOK
  <1>13. LanesHold(after, q', batch', pool', worker', spill')
    BY <1>4, <1>10, <1>11, <1>12 DEF LanesHold
  <1>14. CallersHold(after)'
    BY <1>1, <1>2, <1>4, <1>5, <1>6, <1>7 DEF CallersHold, TypeOK
  <1> QED BY <1>13, <1>14 DEF Located

\* Every step keeps the invariant.
LEMMA PipelineStep == PipelineIInv /\ [Next]_vars => PipelineIInv'
  <1> SUFFICES ASSUME PipelineIInv, [Next]_vars PROVE PipelineIInv'
    OBVIOUS
  <1>1. TypeOK /\ Located
    BY DEF PipelineIInv
  <1>2. TypeOK'
    BY <1>1, TypeStep
  <1>3. CASE UNCHANGED <<caller, q, resultCh, batch, pool, worker, spill>>
    BY <1>1, <1>2, <1>3, StayPlaces DEF PipelineIInv
  <1>4. CASE Exit
    <2>1. UNCHANGED <<q, batch, pool, worker, spill, resultCh>>
      BY <1>4 DEF Exit, laneVars
    <2>2. \A j \in Jobs :
              /\ caller'[j] \in {"wait", "left"} => caller[j] \in {"wait", "left"}
              /\ caller'[j] \in {"new", "enqueue", "answered", "refused"}
                    => caller[j] \in {"new", "enqueue", "answered", "refused"}
      BY <1>4 DEF Exit
    <2> QED BY <1>1, <1>2, <2>1, <2>2, StayPlaces DEF PipelineIInv
  <1>5. ASSUME NEW j \in Jobs, InferStarts(j) PROVE PipelineIInv'
    BY <1>3, <1>5 DEF InferStarts, reqVars
  <1>6. ASSUME NEW w \in Workers, WorkerExit(w) PROVE PipelineIInv'
    BY <1>3, <1>6 DEF WorkerExit, reqVars
  <1>7. ASSUME NEW a \in AdminCalls, setDraining(a) \/ pauseSink(a) \/ Restart(a) PROVE PipelineIInv'
    BY <1>3, <1>7 DEF setDraining, pauseSink, Restart, reqVars, laneVars
  <1>8. CASE Shutdown \/ UNCHANGED vars
    BY <1>3, <1>8 DEF Shutdown, vars, reqVars, laneVars
  <1>9. ASSUME NEW j \in Jobs,
               CallerStep(j) \/ processJob(j) \/ CallerLeaves(j) \/ DispatchOne(j)
        PROVE  PipelineIInv'
    BY <1>2, <1>9, CallerPlaces, DispatchPlaces DEF CallerStep, PipelineIInv
  <1>10. CASE BatcherStep \/ \E w \in Workers : WorkerTake(w)
    BY <1>2, <1>10, BatcherPlaces, WorkerPlaces DEF PipelineIInv
  <1> QED BY <1>4, <1>5, <1>6, <1>7, <1>8, <1>9, <1>10 DEF Next, LaneStep

\* The server starts with every job in no lane.
LEMMA PipelineInit == Init => PipelineIInv
  <1> SUFFICES ASSUME Init PROVE PipelineIInv
    OBVIOUS
  <1>1. PICK place \in [Jobs -> Lanes] : place = [j \in Jobs |-> "none"]
    BY DEF Lanes
  <1>2. \A j \in Jobs : place[j] = "none"
    BY <1>1
  <1>3. Len(<<>>) = 0 /\ DOMAIN <<>> = {}
    OBVIOUS
  <1>4. Line(place, "queue", q) /\ Line(place, "batch", batch)
    BY <1>2, <1>3 DEF Init, Line
  <1>5. LinesOf(place, "pool", pool)
    BY <1>2, <1>3 DEF Init, LinesOf
  <1>6. LinesOf(place, "worker", worker)
    BY <1>2, <1>3 DEF Init, LinesOf
  <1>7. LinesOf(place, "spill", [b \in spill |-> b])
    BY <1>2 DEF Init, LinesOf
  <1>8. CallersHold(place)
    BY <1>2 DEF Init, CallersHold
  <1>9. Located
    BY <1>4, <1>5, <1>6, <1>7, <1>8 DEF Located, LanesHold
  <1> QED BY <1>9, TypeInit DEF PipelineIInv

\* Where a job is in a line that holds it, and in one that does not.
LEMMA AtLine ==
    ASSUME NEW place, NEW lane, NEW s \in Seq(Jobs), Line(place, lane, s), NEW j \in Jobs
    PROVE  /\ place[j] # lane => At(s, j) = {}
           /\ place[j] = lane => \E i : At(s, j) = {i}
  <1>1. DOMAIN s = 1..Len(s)
    OBVIOUS
  <1>2. place[j] # lane => At(s, j) = {}
    BY <1>1 DEF Line, At
  <1>3. ASSUME place[j] = lane PROVE \E i : At(s, j) = {i}
    <2>1. PICK i \in 1..Len(s) : s[i] = j
      BY <1>3 DEF Line
    <2>2. \A k \in 1..Len(s) : s[k] = j => k = i
      BY <2>1 DEF Line
    <2>3. At(s, j) = {i}
      BY <1>1, <2>1, <2>2 DEF At
    <2> QED BY <2>3
  <1> QED BY <1>2, <1>3

Never(f, S, j) == \A d \in S : At(f[d], j) = {}

Once(f, S, j) ==
    \E e \in S, i \in Nat : \A d \in S : At(f[d], j) = IF d = e THEN {i} ELSE {}

\* A job is in one sequence of its lane, at one index, and in none of another lane.
LEMMA AtLines ==
    ASSUME NEW place, NEW lane, NEW f, NEW S, DOMAIN f = S, \A d \in S : f[d] \in Seq(Jobs),
           LinesOf(place, lane, f), NEW j \in Jobs
    PROVE  /\ place[j] # lane => Never(f, S, j)
           /\ place[j] = lane => Once(f, S, j)
  <1>1. \A d \in S : DOMAIN f[d] = 1..Len(f[d])
    OBVIOUS
  <1>2. place[j] # lane => Never(f, S, j)
    BY <1>1 DEF LinesOf, At, Never
  <1>3. ASSUME place[j] = lane PROVE Once(f, S, j)
    <2>1. PICK e \in S : \E i \in 1..Len(f[e]) : f[e][i] = j
      BY <1>3 DEF LinesOf
    <2>2. PICK i \in 1..Len(f[e]) : f[e][i] = j
      BY <2>1
    <2>3. \A d \in S : \A k \in 1..Len(f[d]) : f[d][k] = j => d = e /\ k = i
      BY <2>2 DEF LinesOf
    <2>4. \A d \in S : At(f[d], j) = IF d = e THEN {i} ELSE {}
      BY <1>1, <2>2, <2>3 DEF At
    <2>5. i \in Nat
      BY <2>2
    <2> QED BY <2>4, <2>5 DEF Once
  <1> QED BY <1>2, <1>3

\* In the invariant's states a job is where its lane says and nowhere else.
LEMMA OnePlace == PipelineIInv => NothingLostOrDoubled
  <1> SUFFICES ASSUME PipelineIInv, NEW j \in Jobs
               PROVE  /\ caller[j] \in {"wait", "left"} => Cardinality(Places(j)) = 1
                      /\ caller[j] \in {"new", "enqueue", "answered", "refused"} => Places(j) = {}
    BY DEF NothingLostOrDoubled
  <1>1. TypeOK /\ Located
    BY DEF PipelineIInv
  <1>2. PICK place \in [Jobs -> Lanes] :
           LanesHold(place, q, batch, pool, worker, spill) /\ CallersHold(place)
    BY <1>1 DEF Located
  <1>3. /\ Line(place, "queue", q) /\ Line(place, "batch", batch) /\ LinesOf(place, "pool", pool)
        /\ LinesOf(place, "worker", worker) /\ LinesOf(place, "spill", [b \in spill |-> b])
    BY <1>2 DEF LanesHold
  <1> DEFINE A == {<<"queue", i>> : i \in At(q, j)}
             B == {<<"batch", i>> : i \in At(batch, j)}
             C == UNION {{<<"pool", n, i>> : i \in At(pool[n], j)} : n \in DOMAIN pool}
             D == UNION {{<<"worker", w, i>> : i \in At(worker[w], j)} : w \in Workers}
             E == UNION {{<<"spill", b, i>> : i \in At(b, j)} : b \in spill}
             F == {<<"result", i>> : i \in 1..resultCh[j]}
  <1>4. Places(j) = A \cup B \cup C \cup D \cup E \cup F
    BY DEF Places
  <1>5. (place[j] # "queue" => A = {}) /\ (place[j] = "queue" => \E x : A = {x})
    <2>1. /\ place[j] # "queue" => At(q, j) = {}
          /\ place[j] = "queue" => \E i : At(q, j) = {i}
      BY <1>1, <1>3, AtLine, LaneTypesOK
    <2>2. \A i : At(q, j) = {i} => A = {<<"queue", i>>}
      OBVIOUS
    <2>3. At(q, j) = {} => A = {}
      OBVIOUS
    <2> HIDE DEF A
    <2> QED BY <2>1, <2>2, <2>3
  <1>6. (place[j] # "batch" => B = {}) /\ (place[j] = "batch" => \E x : B = {x})
    <2>1. /\ place[j] # "batch" => At(batch, j) = {}
          /\ place[j] = "batch" => \E i : At(batch, j) = {i}
      BY <1>1, <1>3, AtLine, LaneTypesOK
    <2>2. \A i : At(batch, j) = {i} => B = {<<"batch", i>>}
      OBVIOUS
    <2>3. At(batch, j) = {} => B = {}
      OBVIOUS
    <2> HIDE DEF B
    <2> QED BY <2>1, <2>2, <2>3
  <1>7. (place[j] # "pool" => C = {}) /\ (place[j] = "pool" => \E x : C = {x})
    <2>1. /\ place[j] # "pool" => Never(pool, DOMAIN pool, j)
          /\ place[j] = "pool" => Once(pool, DOMAIN pool, j)
      BY <1>1, <1>3, AtLines, LaneTypesOK
    <2>2. place[j] # "pool" => C = {}
      BY <2>1 DEF Never
    <2>3. ASSUME place[j] = "pool" PROVE \E x : C = {x}
      <3>1. PICK e \in DOMAIN pool, i \in Nat : \A d \in DOMAIN pool :
               At(pool[d], j) = IF d = e THEN {i} ELSE {}
        BY <2>1, <2>3 DEF Once
      <3>2. C = {<<"pool", e, i>>}
        BY <3>1
      <3> QED BY <3>2
    <2> QED BY <2>2, <2>3
  <1>8. (place[j] # "worker" => D = {}) /\ (place[j] = "worker" => \E x : D = {x})
    <2>1. /\ place[j] # "worker" => Never(worker, Workers, j)
          /\ place[j] = "worker" => Once(worker, Workers, j)
      <3>1. DOMAIN worker = Workers /\ \A d \in Workers : worker[d] \in Seq(Jobs)
        BY <1>1, LaneTypesOK
      <3> QED BY <1>3, <3>1, AtLines
    <2>2. place[j] # "worker" => D = {}
      BY <2>1 DEF Never
    <2>3. ASSUME place[j] = "worker" PROVE \E x : D = {x}
      <3>1. PICK e \in Workers, i \in Nat : \A d \in Workers :
               At(worker[d], j) = IF d = e THEN {i} ELSE {}
        BY <2>1, <2>3 DEF Once
      <3>2. D = {<<"worker", e, i>>}
        BY <3>1
      <3> QED BY <3>2
    <2> QED BY <2>2, <2>3
  <1>9. (place[j] # "spill" => E = {}) /\ (place[j] = "spill" => \E x : E = {x})
    <2>1. /\ place[j] # "spill" => \A d \in spill : At(d, j) = {}
          /\ place[j] = "spill" => \E e \in spill, i \in Nat : \A d \in spill :
                                      At(d, j) = IF d = e THEN {i} ELSE {}
      <3> DEFINE f == [b \in spill |-> b]
      <3>1. /\ DOMAIN f = spill /\ \A d \in spill : f[d] = d /\ f[d] \in Seq(Jobs)
            /\ LinesOf(place, "spill", f)
        BY <1>1, <1>3, LaneTypesOK
      <3> HIDE DEF f
      <3>2. /\ place[j] # "spill" => Never(f, spill, j)
            /\ place[j] = "spill" => Once(f, spill, j)
        BY <3>1, AtLines
      <3>3. \A d \in spill : At(f[d], j) = At(d, j)
        BY <3>1
      <3>4. place[j] # "spill" => \A d \in spill : At(d, j) = {}
        BY <3>2, <3>3 DEF Never
      <3>5. ASSUME place[j] = "spill"
            PROVE  \E e \in spill, i \in Nat : \A d \in spill : At(d, j) = IF d = e THEN {i} ELSE {}
        <4>1. PICK e \in spill, i \in Nat : \A d \in spill : At(f[d], j) = IF d = e THEN {i} ELSE {}
          BY <3>2, <3>5 DEF Once
        <4>2. \A d \in spill : At(d, j) = IF d = e THEN {i} ELSE {}
          BY <3>3, <4>1
        <4> QED BY <4>2
      <3> QED BY <3>4, <3>5
    <2>2. place[j] # "spill" => E = {}
      BY <2>1
    <2>3. ASSUME place[j] = "spill" PROVE \E x : E = {x}
      <3>1. PICK e \in spill, i \in Nat : \A d \in spill : At(d, j) = IF d = e THEN {i} ELSE {}
        BY <2>1, <2>3
      <3>2. E = {<<"spill", e, i>>}
        BY <3>1
      <3> QED BY <3>2
    <2> QED BY <2>2, <2>3
  <1>10. (place[j] # "result" => F = {}) /\ (place[j] = "result" => \E x : F = {x})
    <2>1. resultCh[j] \in 0..1 /\ (place[j] = "result" <=> resultCh[j] = 1)
      BY <1>1, <1>2 DEF TypeOK, CallersHold
    <2>2. place[j] # "result" => 1..resultCh[j] = {}
      BY <2>1
    <2>3. place[j] = "result" => 1..resultCh[j] = {1}
      BY <2>1
    <2>4. 1..resultCh[j] = {} => F = {}
      OBVIOUS
    <2>5. 1..resultCh[j] = {1} => F = {<<"result", 1>>}
      OBVIOUS
    <2> HIDE DEF F
    <2> QED BY <2>2, <2>3, <2>4, <2>5
  <1> HIDE DEF A, B, C, D, E, F
  <1>11. ASSUME caller[j] \in {"wait", "left"} PROVE Cardinality(Places(j)) = 1
    <2>1. place[j] # "none" /\ place[j] \in Lanes
      BY <1>2, <1>11 DEF CallersHold
    <2>2. \E x : Places(j) = {x}
      <3>1. CASE place[j] = "queue"
        BY <1>4, <1>5, <1>6, <1>7, <1>8, <1>9, <1>10, <3>1
      <3>2. CASE place[j] = "batch"
        BY <1>4, <1>5, <1>6, <1>7, <1>8, <1>9, <1>10, <3>2
      <3>3. CASE place[j] = "pool"
        BY <1>4, <1>5, <1>6, <1>7, <1>8, <1>9, <1>10, <3>3
      <3>4. CASE place[j] = "worker"
        BY <1>4, <1>5, <1>6, <1>7, <1>8, <1>9, <1>10, <3>4
      <3>5. CASE place[j] = "spill"
        BY <1>4, <1>5, <1>6, <1>7, <1>8, <1>9, <1>10, <3>5
      <3>6. CASE place[j] = "result"
        BY <1>4, <1>5, <1>6, <1>7, <1>8, <1>9, <1>10, <3>6
      <3> QED BY <2>1, <3>1, <3>2, <3>3, <3>4, <3>5, <3>6 DEF Lanes
    <2> QED BY <2>2, FS_Singleton
  <1>12. ASSUME caller[j] \in {"new", "enqueue", "answered", "refused"} PROVE Places(j) = {}
    <2>1. place[j] = "none"
      BY <1>2, <1>12 DEF CallersHold
    <2> QED BY <1>4, <1>5, <1>6, <1>7, <1>8, <1>9, <1>10, <2>1
  <1> QED BY <1>11, <1>12

\* A job that the queue has accepted is in exactly one place, be it the queue, the
\* batch, the pool's channel, a worker, a spilled batch or its result channel,
\* until its caller has the answer: no flush, spill, drain, restart or shutdown
\* loses it or runs it twice.
THEOREM JobsAreConserved == Spec => []NothingLostOrDoubled
  <1>1. PipelineIInv => NothingLostOrDoubled
    BY OnePlace
  <1> QED BY <1>1, PipelineInit, PipelineStep, PTL DEF Spec
=============================================================================
