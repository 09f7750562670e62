---------------------------- MODULE RelayProofs ----------------------------
(***************************************************************************)
(* For any number of jobs, workers and claim calls, any attempt limits and *)
(* any number of faults of every kind, a job is settled once and a run is  *)
(* never overtaken by another claim of its job.                            *)
(***************************************************************************)
EXTENDS RelayWorker, FiniteSetTheorems, TLAPS

USE DEF Settled

\* The relay and the worker start with nothing going on.
LEMMA InitIInv == Init => IInv
  <1> SUFFICES ASSUME Init PROVE IInv
    OBVIOUS
  <1>1. TypeOK
    BY RelayAssumption, WorkerAssumption
       DEF Init, StoreInit, FreeFrame, IdleWorker, TypeOK, TableOK, FramesOK, FrameType,
           WorkersOK, WorkerType
  <1>2. RowsInserted /\ LocksHeld /\ DeliveriesFresh /\ RunsFresh /\ RunsAlone
    BY DEF Init, StoreInit, FreeFrame, IdleWorker, RowsInserted, LocksHeld, DeliveriesFresh,
           InDelivery, RunsFresh, RunsAlone
  <1>3. QED
    BY <1>1, <1>2 DEF IInv

\* The table columns keep their types; a claim transaction's row is claimable,
\* so the attempt limit holds.
LEMMA TableStep == TypeOK /\ LocksHeld /\ [Next]_vars => TableOK'
  <1> SUFFICES ASSUME TypeOK, LocksHeld, [Next]_vars PROVE TableOK'
    OBVIOUS
  <1> USE RelayAssumption, WorkerAssumption
  <1>0. TableOK
    BY DEF TypeOK
  <1>1. Cardinality({k \in Jobs : born[k] > 0}) + 1 \in Nat
    <2>1. IsFiniteSet({k \in Jobs : born[k] > 0})
      BY FS_Subset
    <2>2. QED
      BY <2>1, FS_CardinalityType
  <1>2. ASSUME NEW j \in Jobs, CountPending(j) \/ notify(j) PROVE TableOK'
    BY <1>0, <1>2 DEF CountPending, notify, TableOK, tableVars
  <1>3. ASSUME NEW j \in Jobs, Enqueue(j) PROVE TableOK'
    BY <1>0, <1>1, <1>3 DEF Enqueue, Fault, TableOK
  <1>4. ASSUME NEW j \in Jobs, CancelPending(j) \/ PurgeExpired(j) PROVE TableOK'
    BY <1>0, <1>4 DEF CancelPending, PurgeExpired, TableOK
  <1>5. ASSUME NEW f \in Frames, Subscribe(f) \/ Wake(f) \/ LongPollTimeout(f) \/ FrameAborts(f)
        PROVE TableOK'
    BY <1>0, <1>5 DEF Subscribe, Wake, LongPollTimeout, FrameAborts, tableVars, TableOK
  <1>6. ASSUME NEW f \in Frames, sweepExpired(f) PROVE TableOK'
    BY <1>0, <1>6 DEF sweepExpired, Fault, TableOK
  <1>7. ASSUME NEW f \in Frames, tryClaimOne(f) PROVE TableOK'
    <2>1. UNCHANGED <<st, attempts, born, age, enq>> /\ (UNCHANGED faults \/ Fault("db"))
      BY <1>7 DEF tryClaimOne, tableVars
    <2>2. QED
      BY <1>0, <2>1 DEF Fault, TableOK
  <1>8. ASSUME NEW f \in Frames, CommitClaim(f) PROVE TableOK'
    <2>1. frame[f].job \in Jobs /\ attempts[frame[f].job] < MaxAttempts[frame[f].job]
      BY <1>8 DEF CommitClaim, LocksHeld
    <2>2. QED
      BY <1>0, <1>8, <2>1 DEF CommitClaim, Fault, TableOK
  <1>9. CASE RelayRestart
    BY <1>0, <1>9 DEF RelayRestart, Fault, tableVars, TableOK
  <1>10. ASSUME NEW f \in Frames, ClaimAnswer(f) PROVE TableOK'
    BY <1>0, <1>10 DEF ClaimAnswer, tableVars, TableOK
  <1>11. ASSUME NEW w \in Workers, WorkerStep(w) \/ WorkerCrash(w) \/ Pause(w) \/ Resume(w)
         PROVE TableOK'
    BY <1>0, <1>11 DEF WorkerStep, StartClaim, ClaimError, FinishJob, AckError, WorkerCrash,
                       Pause, Resume, Fault, tableVars, TableOK
  <1>12. ASSUME NEW m \in wire, Ack(m) PROVE TableOK'
    <2>1. m.job \in Jobs /\ m.res \in Settled
      BY DEF TypeOK, WorkersOK, Acks
    <2>2. QED
      BY <1>0, <1>12, <2>1 DEF Ack, AckRow, Fault, TableOK
  <1>13. CASE Tick
    BY <1>0, <1>13 DEF Tick, TableOK
  <1>14. CASE UNCHANGED vars
    BY <1>0, <1>14 DEF vars, TableOK
  <1>15. QED
    BY <1>2, <1>3, <1>4, <1>5, <1>6, <1>7, <1>8, <1>9, <1>10, <1>11, <1>12, <1>13, <1>14
       DEF Next, StoreStep, EnqueueStep, ClaimStep

\* The claim calls keep their types.
LEMMA FramesStep == TypeOK /\ [Next]_vars => FramesOK'
  <1> SUFFICES ASSUME TypeOK, [Next]_vars PROVE FramesOK'
    OBVIOUS
  <1> USE RelayAssumption
  <1>0. FramesOK /\ \A f \in Frames : frame[f] \in FrameType
    BY DEF TypeOK, FramesOK
  <1>1. FreeFrame \in FrameType
    BY DEF FreeFrame, FrameType
  <1>2. ASSUME NEW f \in Frames, NEW x \in FrameType, frame' = [frame EXCEPT ![f] = x]
        PROVE FramesOK'
    BY <1>0, <1>2 DEF FramesOK
  <1>3. ASSUME NEW f \in Frames, NEW p \in {"subscribe", "select", "wait"}, frame' = Goto(f, p)
        PROVE FramesOK'
    <2>1. [frame[f] EXCEPT !.pc = p] \in FrameType
      BY <1>0 DEF FrameType
    <2>2. QED
      BY <1>2, <1>3, <2>1 DEF Goto
  <1>4. ASSUME NEW f \in Frames, NEW p \in {"commit", "reply"}, NEW j \in Jobs \cup {NoJob},
               frame' = [frame EXCEPT ![f] = [@ EXCEPT !.pc = p, !.job = j]]
        PROVE FramesOK'
    <2>1. [frame[f] EXCEPT !.pc = p, !.job = j] \in FrameType
      BY <1>0 DEF FrameType
    <2>2. QED
      BY <1>2, <1>4, <2>1
  <1>5. CASE UNCHANGED frame
    BY <1>0, <1>5 DEF FramesOK
  <1>6. ASSUME NEW j \in Jobs, notify(j) PROVE FramesOK'
    BY <1>0, <1>6 DEF notify, FramesOK, FrameType
  <1>7. ASSUME NEW f \in Frames, Subscribe(f) PROVE FramesOK'
    <2>1. [frame[f] EXCEPT !.pc = "sweep", !.woken = FALSE] \in FrameType
      BY <1>0 DEF FrameType
    <2>2. QED
      BY <1>2, <1>7, <2>1 DEF Subscribe
  <1>8. ASSUME NEW f \in Frames, sweepExpired(f) \/ Wake(f) \/ LongPollTimeout(f) PROVE FramesOK'
    BY <1>3, <1>4, <1>8 DEF sweepExpired, Wake, LongPollTimeout, Reply
  <1>9. ASSUME NEW f \in Frames, FrameAborts(f) PROVE FramesOK'
    BY <1>1, <1>2, <1>9 DEF FrameAborts
  <1>10. ASSUME NEW f \in Frames, tryClaimOne(f) PROVE FramesOK'
    BY <1>3, <1>4, <1>10 DEF tryClaimOne, Reply
  <1>11. ASSUME NEW f \in Frames, CommitClaim(f) PROVE FramesOK'
    <2>1. frame[f].job \in Jobs \cup {NoJob}
      BY <1>0 DEF FrameType
    <2>2. QED
      BY <1>4, <1>11, <2>1 DEF CommitClaim, Reply
  <1>12. CASE RelayRestart
    BY <1>1, <1>12 DEF RelayRestart, FramesOK
  <1>13. ASSUME NEW f \in Frames, ClaimAnswer(f) PROVE FramesOK'
    BY <1>1, <1>2, <1>13 DEF ClaimAnswer
  <1>14. ASSUME NEW w \in Workers, StartClaim(w) PROVE FramesOK'
    <2>1. [FreeFrame EXCEPT !.pc = "subscribe", !.peer = w] \in FrameType
      BY <1>1 DEF FrameType
    <2>2. QED
      BY <1>2, <1>14, <2>1 DEF StartClaim
  <1>15. ASSUME NEW w \in Workers, frame' = HangUp(w) PROVE FramesOK'
    BY <1>0, <1>15 DEF HangUp, FramesOK, FrameType
  <1>16. CASE Tick
    <2>1. ASSUME NEW f \in Frames, frame[f].life < claimTimeout
          PROVE  [frame[f] EXCEPT !.life = @ + 1] \in FrameType
      BY <1>0, <2>1 DEF FrameType
    <2>2. QED
      BY <1>0, <1>16, <2>1 DEF Tick, FramesOK
  <1>17. QED
    BY <1>5, <1>6, <1>7, <1>8, <1>9, <1>10, <1>11, <1>12, <1>13, <1>14, <1>15, <1>16
       DEF Next, StoreStep, EnqueueStep, CountPending, Enqueue, CancelPending, PurgeExpired,
           ClaimStep, WorkerStep, ClaimError, FinishJob, AckError, WorkerCrash, Pause, Resume,
           Ack, vars

\* The workers and their acks keep their types.
LEMMA WorkersStep == TypeOK /\ [Next]_vars => WorkersOK'
  <1> SUFFICES ASSUME TypeOK, [Next]_vars PROVE WorkersOK'
    OBVIOUS
  <1> USE RelayAssumption, WorkerAssumption
  <1>0. WorkersOK /\ \A w \in Workers : wk[w] \in WorkerType
    BY DEF TypeOK, WorkersOK
  <1>1. IdleWorker \in WorkerType /\ IdleWorker.pc = "idle"
    BY DEF IdleWorker, WorkerType
  <1>2. ASSUME UNCHANGED <<wk, paused, wire>> PROVE WorkersOK'
    BY <1>0, <1>2 DEF WorkersOK
  <1>3. ASSUME NEW w \in Workers, NEW x \in WorkerType, wk' = [wk EXCEPT ![w] = x],
               x.pc \in {"running", "acking"} => x.job \in Jobs,
               x.pc = "acking" => x.res \in Settled,
               paused' \in [Workers -> BOOLEAN], wire' \subseteq Acks
        PROVE WorkersOK'
    BY <1>0, <1>3 DEF WorkersOK
  <1>4. ASSUME NEW w \in Workers, StartClaim(w) PROVE WorkersOK'
    <2>1. [IdleWorker EXCEPT !.pc = "claiming"] \in WorkerType
      BY <1>1 DEF WorkerType
    <2>2. QED
      BY <1>0, <1>1, <1>3, <1>4, <2>1 DEF StartClaim, IdleWorker, WorkersOK
  <1>5. ASSUME NEW f \in Frames, ClaimAnswer(f) PROVE WorkersOK'
    <2> DEFINE w == frame[f].peer
               j == frame[f].job
    <2>1. w \in Workers /\ j \in Jobs \cup {NoJob}
      BY <1>5 DEF ClaimAnswer, TypeOK, FramesOK, FrameType
    <2>2. CASE j = NoJob
      BY <1>0, <1>1, <1>3, <1>5, <2>1, <2>2 DEF ClaimAnswer, WorkersOK
    <2>3. CASE j # NoJob
      <3>1. attempts[j] \in Nat
        BY <2>1, <2>3 DEF TypeOK, TableOK
      <3> HIDE DEF w, j
      <3>2. PICK x : x = [IdleWorker EXCEPT !.pc = "running", !.job = j, !.attempt = attempts[j]]
        OBVIOUS
      <3>3. x \in WorkerType /\ x.pc = "running" /\ x.job = j
        BY <1>1, <2>1, <3>1, <3>2 DEF WorkerType
      <3>4. wk' = [wk EXCEPT ![w] = x] /\ UNCHANGED <<paused, wire>>
        BY <1>5, <2>3, <3>2 DEF ClaimAnswer, w, j
      <3>5. QED
        BY <1>0, <1>3, <2>1, <2>3, <3>3, <3>4 DEF WorkersOK
    <2>4. QED
      BY <2>2, <2>3
  <1>6. ASSUME NEW w \in Workers, ClaimError(w) \/ WorkerCrash(w) PROVE WorkersOK'
    <2>1. paused' \in [Workers -> BOOLEAN]
      BY <1>0, <1>6 DEF ClaimError, WorkerCrash, WorkersOK
    <2>2. QED
      BY <1>0, <1>1, <1>3, <1>6, <2>1 DEF ClaimError, WorkerCrash, WorkersOK
  <1>7. ASSUME NEW w \in Workers, NEW r \in Settled, FinishJob(w, r) PROVE WorkersOK'
    <2>0. PICK x : x = [wk[w] EXCEPT !.pc = "acking", !.res = r, !.timer = 0]
      OBVIOUS
    <2>1. wk[w].job \in Jobs /\ wk[w].attempt \in Nat
      BY <1>0, <1>7 DEF FinishJob, WorkersOK, WorkerType
    <2>2. x \in WorkerType /\ x.job \in Jobs /\ x.res = r
      <3>1. 0 \in 0..maxJobWait /\ wk[w] \in WorkerType
        BY <1>0
      <3>2. QED
        BY <2>0, <2>1, <3>1 DEF WorkerType
    <2>3. wk' = [wk EXCEPT ![w] = x]
      BY <1>7, <2>0 DEF FinishJob
    <2>4. wire' \subseteq Acks
      BY <1>0, <1>7, <2>1 DEF FinishJob, WorkersOK, Acks
    <2>5. QED
      BY <1>0, <1>3, <1>7, <2>2, <2>3, <2>4 DEF FinishJob, WorkersOK
  <1>8. ASSUME NEW w \in Workers, AckError(w) PROVE WorkersOK'
    <2> DEFINE again == wk[w].res = "done" /\ wk[w].try + 1 < ackRetries
               x == [wk[w] EXCEPT !.try = @ + 1]
    <2>1. /\ wk[w].job \in Jobs /\ wk[w].attempt \in Nat /\ wk[w].res \in Settled
          /\ wk[w].try \in 0..ackRetries - 1
      BY <1>0, <1>8 DEF AckError, WorkersOK, WorkerType
    <2>2. again => x \in WorkerType /\ x.job = wk[w].job /\ x.res = wk[w].res
      BY <1>0, <2>1 DEF WorkerType
    <2>3. [CurrentAck(w) EXCEPT !.try = @ + 1] \in Acks
      BY <2>1 DEF CurrentAck, Acks
    <2>4. wire' \subseteq Acks
      BY <1>0, <1>8, <2>3 DEF AckError, WorkersOK
    <2>5. paused' \in [Workers -> BOOLEAN]
      BY <1>0, <1>8 DEF AckError, WorkersOK
    <2>6. CASE again
      <3>1. wk' = [wk EXCEPT ![w] = x]
        BY <1>8, <2>6 DEF AckError
      <3>2. QED
        BY <1>3, <2>1, <2>2, <2>4, <2>5, <2>6, <3>1
    <2>7. CASE ~again
      <3>1. wk' = [wk EXCEPT ![w] = IdleWorker]
        BY <1>8, <2>7 DEF AckError
      <3>2. QED
        BY <1>1, <1>3, <2>4, <2>5, <3>1
    <2>8. QED
      BY <2>6, <2>7
  <1>9. ASSUME NEW w \in Workers, Pause(w) \/ Resume(w) PROVE WorkersOK'
    BY <1>0, <1>9 DEF Pause, Resume, WorkersOK
  <1>10. ASSUME NEW m \in wire, Ack(m) PROVE WorkersOK'
    BY <1>0, <1>1, <1>10 DEF Ack, WorkersOK
  <1>11. CASE Tick
    <2>1. ASSUME NEW w \in Workers, wk[w].timer < maxJobWait
          PROVE  LET x == [wk[w] EXCEPT !.timer = @ + 1]
                 IN  x \in WorkerType /\ x.pc = wk[w].pc /\ x.job = wk[w].job
                     /\ x.res = wk[w].res
      BY <1>0, <2>1 DEF WorkerType
    <2>2. QED
      BY <1>0, <1>11, <2>1 DEF Tick, WorkersOK
  <1>12. QED
    BY <1>2, <1>4, <1>5, <1>6, <1>7, <1>8, <1>9, <1>10, <1>11 DEF Next, WorkerStep, vars

\* Every step keeps the types.
LEMMA TypeStep == TypeOK /\ LocksHeld /\ [Next]_vars => TypeOK'
  BY TableStep, FramesStep, WorkersStep DEF TypeOK
-----------------------------------------------------------------------------
(***************************************************************************)
(* Most steps only take things away: locks, deliveries and runs end.       *)
(***************************************************************************)

\* Every lock, delivery and run after the step was there before it.
NothingStarts ==
    /\ \A f \in Frames : frame'[f].pc = "commit" =>
         frame[f].pc = "commit" /\ frame'[f].job = frame[f].job
    /\ \A f \in Frames : InDelivery(f)' => InDelivery(f) /\ frame'[f].job = frame[f].job
    /\ \A w \in Workers : wk'[w].pc = "running" => wk'[w] = wk[w]

\* A row that is being delivered or run.
Held(j) ==
    \/ \E f \in Frames : InDelivery(f) /\ frame[f].job = j
    \/ \E w \in Workers : wk[w].pc = "running" /\ wk[w].job = j

\* The step leaves held rows claimed by the same attempt, or settles them.
HeldRowsKept ==
    \A j \in Jobs : Held(j) =>
        /\ st'[j] \notin {"absent", "pending"}
        /\ attempts'[j] = attempts[j]
        /\ st'[j] = "processing" => st[j] = "processing" /\ age'[j] = age[j]

\* The step leaves locked rows alone.
LockedRowsKept ==
    \A j \in Locked : st'[j] = "pending" /\ attempts'[j] = attempts[j]

\* Held rows are neither pending nor overdue.
LEMMA HeldRows ==
    ASSUME IInv, NEW j \in Jobs, Held(j)
    PROVE  st[j] \notin {"absent", "pending"} /\ ~Overdue(j)
  <1>1. ASSUME NEW f \in Frames, InDelivery(f), frame[f].job = j
        PROVE  st[j] \notin {"absent", "pending"} /\ ~Overdue(j)
    <2>1. st[j] \notin {"absent", "pending"} /\ (st[j] = "processing" => age[j] = 0)
      BY <1>1 DEF IInv, DeliveriesFresh
    <2>2. QED
      BY <2>1, RelayAssumption DEF Overdue
  <1>2. ASSUME NEW w \in Workers, wk[w].pc = "running", wk[w].job = j
        PROVE  st[j] \notin {"absent", "pending"} /\ ~Overdue(j)
    <2>1. /\ st[j] \notin {"absent", "pending"}
          /\ st[j] = "processing" => age[j] <= wk[w].timer
      BY <1>2 DEF IInv, RunsFresh, RunsAlone
    <2>2. wk[w].timer \in 0..maxJobWait /\ age[j] \in Nat
      BY RelayAssumption DEF IInv, TypeOK, WorkersOK, WorkerType, TableOK
    <2>3. QED
      BY <2>1, <2>2, RelayAssumption, WorkerAssumption DEF Overdue
  <1>3. QED
    BY <1>1, <1>2 DEF Held

\* A step that hands out no job and keeps the rows that are locked or held.
LEMMA NothingStartsKeeps ==
    ASSUME IInv, NothingStarts, HeldRowsKept, LockedRowsKept
    PROVE  LocksHeld' /\ DeliveriesFresh' /\ RunsFresh' /\ RunsAlone'
  <1>1. LocksHeld /\ DeliveriesFresh /\ RunsFresh /\ RunsAlone
    BY DEF IInv
  <1>2. LocksHeld'
    <2> SUFFICES ASSUME NEW f \in Frames, frame'[f].pc = "commit"
                 PROVE  /\ frame'[f].job \in Jobs
                        /\ st'[frame'[f].job] = "pending"
                        /\ attempts'[frame'[f].job] < MaxAttempts[frame'[f].job]
                        /\ \A g \in Frames \ {f} :
                             ~(frame'[g].pc = "commit" /\ frame'[g].job = frame'[f].job)
      BY DEF LocksHeld
    <2>1. frame[f].pc = "commit" /\ frame'[f].job = frame[f].job /\ frame[f].job \in Jobs
      BY <1>1 DEF NothingStarts, LocksHeld
    <2>2. frame[f].job \in Locked
      BY <2>1 DEF Locked
    <2>3. QED
      BY <1>1, <2>1, <2>2 DEF NothingStarts, LockedRowsKept, LocksHeld
  <1>3. ASSUME NEW f \in Frames, InDelivery(f) PROVE frame[f].job \in Jobs
    BY <1>3 DEF InDelivery, IInv, TypeOK, FramesOK, FrameType
  <1>4. DeliveriesFresh'
    <2> SUFFICES ASSUME NEW f \in Frames, InDelivery(f)'
                 PROVE  /\ st'[frame'[f].job] \notin {"absent", "pending"}
                        /\ st'[frame'[f].job] = "processing" => age'[frame'[f].job] = 0
                        /\ \A g \in Frames \ {f} :
                             ~(InDelivery(g)' /\ frame'[g].job = frame'[f].job)
                        /\ \A w \in Workers :
                             ~(wk'[w].pc = "running" /\ wk'[w].job = frame'[f].job)
      BY DEF DeliveriesFresh
    <2>1. InDelivery(f) /\ frame'[f].job = frame[f].job /\ frame[f].job \in Jobs
      BY <1>3 DEF NothingStarts
    <2>2. Held(frame[f].job)
      BY <2>1 DEF Held
    <2>3. QED
      BY <1>1, <2>1, <2>2 DEF NothingStarts, HeldRowsKept, DeliveriesFresh
  <1>5. RunsFresh' /\ RunsAlone'
    <2> SUFFICES ASSUME NEW w \in Workers, wk'[w].pc = "running"
                 PROVE  /\ st'[wk'[w].job] \notin {"absent", "pending"}
                        /\ st'[wk'[w].job] = "processing" => age'[wk'[w].job] <= wk'[w].timer
                        /\ attempts'[wk'[w].job] = wk'[w].attempt
                        /\ \A v \in Workers \ {w} :
                             ~(wk'[v].pc = "running" /\ wk'[v].job = wk'[w].job)
      BY DEF RunsFresh, RunsAlone
    <2>1. wk'[w] = wk[w] /\ wk[w].pc = "running" /\ wk[w].job \in Jobs
      BY DEF NothingStarts, IInv, TypeOK, WorkersOK
    <2>2. Held(wk[w].job)
      BY <2>1 DEF Held
    <2>3. QED
      BY <1>1, <2>1, <2>2 DEF NothingStarts, HeldRowsKept, RunsFresh, RunsAlone
  <1>6. QED
    BY <1>2, <1>4, <1>5

\* The steps that only end things, or change rows nobody holds.
LEMMA QuietStep ==
    ASSUME IInv, TypeOK',
           \/ \E j \in Jobs : EnqueueStep(j) \/ CancelPending(j) \/ PurgeExpired(j)
           \/ \E f \in Frames : \/ Subscribe(f) \/ sweepExpired(f) \/ Wake(f)
                               \/ LongPollTimeout(f) \/ FrameAborts(f)
           \/ RelayRestart,
           UNCHANGED wk
    PROVE  NothingStarts /\ HeldRowsKept /\ LockedRowsKept
  <1> USE DEF NothingStarts, InDelivery
  <1>0. /\ frame \in [Frames -> FrameType]
        /\ \A f \in Frames : frame[f] \in FrameType
        /\ st \in [Jobs -> {"absent", "pending", "processing", "gone"} \cup Settled]
        /\ age \in [Jobs -> Nat] /\ attempts \in [Jobs -> Nat]
    BY RelayAssumption DEF IInv, TypeOK, TableOK, FramesOK
  <1>1. \A j \in Jobs : Held(j) => st[j] \notin {"absent", "pending"} /\ ~Overdue(j)
    BY HeldRows
  <1>2. \A j \in Locked : j \in Jobs /\ st[j] = "pending"
    BY DEF Locked, IInv, LocksHeld
  <1>3. ASSUME UNCHANGED <<st, attempts, age>> PROVE HeldRowsKept /\ LockedRowsKept
    BY <1>1, <1>2, <1>3 DEF HeldRowsKept, LockedRowsKept
  <1>4. ASSUME UNCHANGED frame PROVE NothingStarts
    BY <1>4
  <1>5. ASSUME NEW j \in Jobs, EnqueueStep(j)
        PROVE  NothingStarts /\ HeldRowsKept /\ LockedRowsKept
    <2>1. CASE CountPending(j)
      BY <1>3, <1>4, <2>1 DEF CountPending, tableVars
    <2>2. CASE Enqueue(j)
      <3>1. UNCHANGED <<frame, attempts, age>> /\ (st' = [st EXCEPT ![j] = "pending"] \/ st' = st)
        BY <2>2 DEF Enqueue
      <3>2. st[j] = "absent"
        BY <2>2 DEF Enqueue, IInv, RowsInserted
      <3>3. QED
        BY <1>0, <1>1, <1>2, <1>4, <3>1, <3>2 DEF HeldRowsKept, LockedRowsKept
    <2>3. CASE notify(j)
      <3>1. \A f \in Frames : /\ frame'[f].pc = frame[f].pc /\ frame'[f].job = frame[f].job
                              /\ frame'[f].peer = frame[f].peer
        BY <1>0, <2>3 DEF notify, FrameType
      <3>2. QED
        BY <1>3, <2>3, <3>1 DEF notify, tableVars
    <2>4. QED
      BY <1>5, <2>1, <2>2, <2>3 DEF EnqueueStep
  <1>6. ASSUME NEW j \in Jobs, CancelPending(j)
        PROVE  NothingStarts /\ HeldRowsKept /\ LockedRowsKept
    BY <1>0, <1>1, <1>2, <1>4, <1>6 DEF CancelPending, HeldRowsKept, LockedRowsKept
  <1>7. ASSUME NEW j \in Jobs, PurgeExpired(j)
        PROVE  NothingStarts /\ HeldRowsKept /\ LockedRowsKept
    BY <1>0, <1>1, <1>2, <1>4, <1>7 DEF PurgeExpired, HeldRowsKept, LockedRowsKept
  <1>8. ASSUME NEW f \in Frames, NEW x, frame' = [frame EXCEPT ![f] = x],
               x.pc # "commit", x.pc # "reply" \/ x.job = NoJob
        PROVE  NothingStarts
    BY <1>0, <1>8
  <1>9. ASSUME NEW f \in Frames, NEW p, frame' = Goto(f, p), p \notin {"commit", "reply"}
        PROVE  NothingStarts
    <2>1. [frame[f] EXCEPT !.pc = p].pc = p
      BY <1>0 DEF FrameType
    <2>2. QED
      BY <1>8, <1>9, <2>1 DEF Goto
  <1>10. ASSUME NEW f \in Frames, frame' = Reply(f, NoJob)
        PROVE  NothingStarts
    <2>1. LET x == [frame[f] EXCEPT !.pc = "reply", !.job = NoJob]
          IN  x.pc = "reply" /\ x.job = NoJob
      BY <1>0 DEF FrameType
    <2>2. QED
      BY <1>8, <1>10, <2>1 DEF Reply
  <1>11. ASSUME NEW f \in Frames, Subscribe(f) \/ Wake(f) \/ LongPollTimeout(f) \/ FrameAborts(f)
        PROVE  NothingStarts /\ HeldRowsKept /\ LockedRowsKept
    <2>1. CASE Subscribe(f)
      <3>1. [frame[f] EXCEPT !.pc = "sweep", !.woken = FALSE].pc = "sweep"
        BY <1>0 DEF FrameType
      <3>2. NothingStarts
        BY <1>8, <2>1, <3>1 DEF Subscribe
      <3>3. QED
        BY <1>3, <2>1, <3>2 DEF Subscribe, tableVars
    <2>2. CASE FrameAborts(f)
      BY <1>3, <1>8, <2>2 DEF FrameAborts, FreeFrame, tableVars
    <2>3. CASE Wake(f)
      BY <1>3, <1>9, <2>3 DEF Wake, tableVars
    <2>4. CASE LongPollTimeout(f)
      BY <1>3, <1>10, <2>4 DEF LongPollTimeout, tableVars
    <2>5. QED
      BY <1>11, <2>1, <2>2, <2>3, <2>4
  <1>12. ASSUME NEW f \in Frames, sweepExpired(f)
         PROVE  NothingStarts /\ HeldRowsKept /\ LockedRowsKept
    <2>1. NothingStarts
      BY <1>12, <1>9, <1>10 DEF sweepExpired
    <2>2. \A j \in Jobs : ~Overdue(j) => st'[j] = st[j] /\ age'[j] = age[j]
      BY <1>12 DEF sweepExpired
    <2>3. \A j \in Jobs : st[j] = "pending" => st'[j] = "pending"
      BY <1>12 DEF sweepExpired
    <2>4. QED
      BY <1>1, <1>2, <1>12, <2>1, <2>2, <2>3 DEF sweepExpired, HeldRowsKept, LockedRowsKept
  <1>13. CASE RelayRestart
    <2>1. NothingStarts
      BY <1>13 DEF RelayRestart, FreeFrame
    <2>2. QED
      BY <1>3, <1>13, <2>1 DEF RelayRestart, tableVars
  <1>14. QED
    BY <1>5, <1>6, <1>7, <1>11, <1>12, <1>13

\* The worker's steps that end its claim, its run or its ack.
LEMMA WorkerQuietStep ==
    ASSUME IInv, TypeOK',
           \E w \in Workers : \/ WorkerStep(w) \/ WorkerCrash(w) \/ Pause(w) \/ Resume(w)
    PROVE  NothingStarts /\ HeldRowsKept /\ LockedRowsKept
  <1> USE DEF NothingStarts, InDelivery
  <1>0. /\ frame \in [Frames -> FrameType]
        /\ \A f \in Frames : frame[f] \in FrameType
        /\ wk \in [Workers -> WorkerType]
        /\ \A w \in Workers : wk[w] \in WorkerType
    BY DEF IInv, TypeOK, FramesOK, WorkersOK
  <1>1. PICK w \in Workers : WorkerStep(w) \/ WorkerCrash(w) \/ Pause(w) \/ Resume(w)
    OBVIOUS
  <1>2. UNCHANGED <<st, attempts, age>>
    BY <1>1 DEF WorkerStep, StartClaim, ClaimError, FinishJob, AckError, WorkerCrash, Pause, Resume,
                tableVars
  <1>3. HeldRowsKept /\ LockedRowsKept
    BY <1>2, HeldRows DEF HeldRowsKept, LockedRowsKept, Locked, IInv, LocksHeld
  <1>4. ASSUME NEW f \in Frames
        PROVE  /\ frame'[f].pc = "commit" => frame[f].pc = "commit" /\ frame'[f].job = frame[f].job
               /\ InDelivery(f)' => InDelivery(f) /\ frame'[f].job = frame[f].job
    <2>1. CASE UNCHANGED frame
      BY <2>1
    <2>2. CASE frame' = HangUp(w)
      <3>1. frame'[f].pc = frame[f].pc /\ frame'[f].job = frame[f].job
            /\ frame'[f].peer \in {frame[f].peer, NoWorker}
        BY <1>0, <2>2 DEF HangUp, FrameType
      <3>2. QED
        BY <3>1
    <2>3. CASE StartClaim(w)
      <3>1. PICK g \in Frames :
              frame' = [frame EXCEPT ![g] = [FreeFrame EXCEPT !.pc = "subscribe", !.peer = w]]
        BY <2>3 DEF StartClaim
      <3>2. [FreeFrame EXCEPT !.pc = "subscribe", !.peer = w].pc = "subscribe"
        BY DEF FreeFrame
      <3>3. QED
        BY <1>0, <3>1, <3>2
    <2>4. QED
      BY <1>1, <2>1, <2>2, <2>3 DEF WorkerStep, ClaimError, FinishJob, AckError, WorkerCrash, Pause,
                                    Resume
  <1>5. ASSUME NEW v \in Workers, wk'[v].pc = "running" PROVE wk'[v] = wk[v]
    <2>1. UNCHANGED wk \/ \E x : wk' = [wk EXCEPT ![w] = x] /\ x.pc # "running"
      <3>1. IdleWorker.pc = "idle" /\ [IdleWorker EXCEPT !.pc = "claiming"].pc = "claiming"
        BY DEF IdleWorker
      <3>2. CASE Pause(w) \/ Resume(w)
        BY <3>2 DEF Pause, Resume
      <3>3. CASE StartClaim(w) \/ ClaimError(w) \/ WorkerCrash(w)
        BY <3>1, <3>3 DEF StartClaim, ClaimError, WorkerCrash
      <3>4. ASSUME NEW r \in Settled, FinishJob(w, r) PROVE <2>1!2
        <4>1. [wk[w] EXCEPT !.pc = "acking", !.res = r, !.timer = 0].pc = "acking"
          BY <1>0 DEF WorkerType
        <4>2. QED
          BY <3>4, <4>1 DEF FinishJob
      <3>5. CASE AckError(w)
        <4>1. wk[w].pc = "acking" /\ [wk[w] EXCEPT !.try = @ + 1].pc = wk[w].pc
          BY <1>0, <3>5 DEF AckError, WorkerType
        <4>2. QED
          BY <3>1, <3>5, <4>1 DEF AckError
      <3>6. QED
        BY <1>1, <3>2, <3>3, <3>4, <3>5 DEF WorkerStep
    <2>2. QED
      BY <1>0, <1>5, <2>1
  <1>6. QED
    BY <1>3, <1>4, <1>5

\* A row exists only once it was inserted, and an insert runs once.
LEMMA RowsInsertedStep == IInv /\ [Next]_vars => RowsInserted'
  <1> SUFFICES ASSUME IInv, [Next]_vars PROVE RowsInserted'
    OBVIOUS
  <1>0. RowsInserted /\ LocksHeld /\ TableOK /\ wire \subseteq Acks
    BY DEF IInv, TypeOK, WorkersOK
  <1> USE DEF RowsInserted
  <1>1. CASE UNCHANGED <<st, enq>>
    BY <1>0, <1>1
  <1>2. ASSUME NEW j \in Jobs, CountPending(j) \/ Enqueue(j) \/ notify(j) PROVE RowsInserted'
    BY <1>0, <1>2 DEF CountPending, Enqueue, notify, tableVars, TableOK
  <1>3. ASSUME NEW j \in Jobs, CancelPending(j) \/ PurgeExpired(j) PROVE RowsInserted'
    BY <1>0, <1>3 DEF CancelPending, PurgeExpired, TableOK
  <1>4. ASSUME NEW f \in Frames, sweepExpired(f) PROVE RowsInserted'
    BY <1>0, <1>4 DEF sweepExpired, Overdue, TableOK
  <1>5. ASSUME NEW f \in Frames, CommitClaim(f) PROVE RowsInserted'
    BY <1>0, <1>5 DEF CommitClaim, LocksHeld, TableOK
  <1>6. CASE RelayRestart
    BY <1>0, <1>6 DEF RelayRestart, tableVars
  <1>7. ASSUME NEW m \in wire, Ack(m) PROVE RowsInserted'
    BY <1>0, <1>7 DEF Ack, AckRow, TableOK
  <1>8. QED
    BY <1>1, <1>2, <1>3, <1>4, <1>5, <1>6, <1>7
       DEF Next, StoreStep, EnqueueStep, ClaimStep, Subscribe, tryClaimOne, Wake, LongPollTimeout,
           FrameAborts, ClaimAnswer, WorkerStep, StartClaim, ClaimError, FinishJob, AckError,
           WorkerCrash, Pause, Resume, Tick, tableVars, vars

\* A late ack settles a held row at most: it never makes one pending.
LEMMA AckStep ==
    ASSUME IInv, TypeOK', NEW m \in wire, Ack(m)
    PROVE  LocksHeld' /\ DeliveriesFresh' /\ RunsFresh' /\ RunsAlone'
  <1>0. /\ wk \in [Workers -> WorkerType]
        /\ st \in [Jobs -> {"absent", "pending", "processing", "gone"} \cup Settled]
        /\ m.job \in Jobs /\ m.res \in Settled
    BY DEF IInv, TypeOK, WorkersOK, TableOK, Acks
  <1>1. NothingStarts
    BY <1>0 DEF Ack, NothingStarts, InDelivery, IdleWorker
  <1>2. HeldRowsKept
    BY <1>0, HeldRows DEF Ack, AckRow, HeldRowsKept
  <1>3. LockedRowsKept
    BY <1>0 DEF Ack, AckRow, LockedRowsKept, Locked, IInv, LocksHeld
  <1>4. QED
    BY <1>1, <1>2, <1>3, NothingStartsKeeps

\* SKIP LOCKED: the row a claim takes is locked by no other.
LEMMA SelectStep ==
    ASSUME IInv, TypeOK', NEW f \in Frames, tryClaimOne(f), UNCHANGED wk
    PROVE  LocksHeld' /\ DeliveriesFresh' /\ RunsFresh' /\ RunsAlone'
  <1>0. /\ frame \in [Frames -> FrameType] /\ \A g \in Frames : frame[g] \in FrameType
        /\ UNCHANGED <<st, attempts, age>>
        /\ LocksHeld /\ DeliveriesFresh /\ RunsFresh /\ RunsAlone
    BY DEF IInv, TypeOK, FramesOK, tryClaimOne, tableVars
  <1> DEFINE Moved(x) == /\ frame' = [frame EXCEPT ![f] = x]
                         /\ \/ \E j \in Claimable : x.pc = "commit" /\ x.job = j
                            \/ x.pc = "wait"
                            \/ x.pc = "reply" /\ x.job = NoJob
  <1>1. PICK x : Moved(x)
    <2>1. ASSUME NEW j \in Jobs, Oldest(j, Claimable),
                 frame' = [frame EXCEPT ![f] = [@ EXCEPT !.pc = "commit", !.job = j]]
          PROVE  \E x : Moved(x)
      <3>1. LET y == [frame[f] EXCEPT !.pc = "commit", !.job = j]
            IN  y.pc = "commit" /\ y.job = j
        BY <1>0 DEF FrameType
      <3>2. QED
        BY <2>1, <3>1 DEF Oldest
    <2>2. CASE frame' = Goto(f, "wait")
      <3>1. [frame[f] EXCEPT !.pc = "wait"].pc = "wait"
        BY <1>0 DEF FrameType
      <3>2. QED
        BY <2>2, <3>1 DEF Goto
    <2>3. CASE frame' = Reply(f, NoJob)
      <3>1. LET y == [frame[f] EXCEPT !.pc = "reply", !.job = NoJob]
            IN  y.pc = "reply" /\ y.job = NoJob
        BY <1>0 DEF FrameType
      <3>2. QED
        BY <2>3, <3>1 DEF Reply
    <2>4. QED
      BY <2>1, <2>2, <2>3 DEF tryClaimOne
  <1>2. \A g \in Frames : /\ g # f => frame'[g] = frame[g]
                          /\ g = f => frame'[g] = x
    BY <1>0, <1>1
  <1>3. \A j \in Claimable : /\ j \in Jobs /\ st[j] = "pending" /\ attempts[j] < MaxAttempts[j]
                             /\ \A g \in Frames : ~(frame[g].pc = "commit" /\ frame[g].job = j)
    BY DEF Claimable, Pending, Locked
  <1>4. LocksHeld'
    BY <1>0, <1>1, <1>2, <1>3 DEF LocksHeld
  <1>5. \A g \in Frames : InDelivery(g)' => InDelivery(g) /\ frame'[g] = frame[g]
    BY <1>1, <1>2 DEF InDelivery
  <1>6. DeliveriesFresh'
    BY <1>0, <1>5 DEF DeliveriesFresh
  <1>7. RunsFresh' /\ RunsAlone'
    BY <1>0 DEF RunsFresh, RunsAlone
  <1>8. QED
    BY <1>4, <1>6, <1>7

\* The committed row was pending, so nobody holds it, and it is fresh now.
LEMMA CommitStep ==
    ASSUME IInv, TypeOK', NEW f \in Frames, CommitClaim(f), UNCHANGED wk
    PROVE  LocksHeld' /\ DeliveriesFresh' /\ RunsFresh' /\ RunsAlone'
  <1> DEFINE j == frame[f].job
  <1>0. /\ frame \in [Frames -> FrameType] /\ \A g \in Frames : frame[g] \in FrameType
        /\ st \in [Jobs -> {"absent", "pending", "processing", "gone"} \cup Settled]
        /\ attempts \in [Jobs -> Nat] /\ age \in [Jobs -> 0..VisibilityTimeout + 1]
        /\ \A w \in Workers : wk[w].pc = "running" => wk[w].job \in Jobs
        /\ LocksHeld /\ DeliveriesFresh /\ RunsFresh /\ RunsAlone
    BY DEF IInv, TypeOK, FramesOK, TableOK, WorkersOK
  <1>1. frame[f].pc = "commit" /\ j \in Jobs /\ st[j] = "pending"
    BY <1>0 DEF CommitClaim, LocksHeld
  <1>2. /\ \A g \in Frames : InDelivery(g) => frame[g].job # j
        /\ \A w \in Workers : wk[w].pc = "running" => wk[w].job # j
    BY <1>0, <1>1 DEF DeliveriesFresh, RunsAlone
  <1> DEFINE Replied(x) == /\ frame' = [frame EXCEPT ![f] = x]
                           /\ x.pc = "reply"
                           /\ x.job \in {j, NoJob}
                           /\ x.job = j => st'[j] = "processing" /\ age'[j] = 0
  <1>3. PICK x : Replied(x)
    <2>1. ASSUME NEW k \in {j, NoJob}, frame' = Reply(f, k),
                 k = j => st'[j] = "processing" /\ age'[j] = 0
          PROVE  \E x : Replied(x)
      <3>1. LET y == [frame[f] EXCEPT !.pc = "reply", !.job = k]
            IN  y.pc = "reply" /\ y.job = k
        BY <1>0 DEF FrameType
      <3>2. QED
        BY <2>1, <3>1 DEF Reply
    <2>2. j # NoJob
      BY <1>1, RelayAssumption
    <2>3. QED
      BY <1>0, <1>1, <2>1, <2>2 DEF CommitClaim
  <1>4. \A k \in Jobs \ {j} : st'[k] = st[k] /\ attempts'[k] = attempts[k] /\ age'[k] = age[k]
    BY <1>0, <1>1 DEF CommitClaim
  <1>5. \A g \in Frames : /\ g # f => frame'[g] = frame[g]
                          /\ g = f => frame'[g] = x
    BY <1>0, <1>3
  <1>6. LocksHeld'
    BY <1>0, <1>1, <1>3, <1>4, <1>5 DEF LocksHeld
  <1>7. \A g \in Frames : InDelivery(g) => frame[g].job \in Jobs
    BY <1>0 DEF InDelivery, FrameType
  <1>8. DeliveriesFresh'
    <2> SUFFICES ASSUME NEW g \in Frames, InDelivery(g)'
                 PROVE  /\ st'[frame'[g].job] \notin {"absent", "pending"}
                        /\ st'[frame'[g].job] = "processing" => age'[frame'[g].job] = 0
                        /\ \A h \in Frames \ {g} :
                             ~(InDelivery(h)' /\ frame'[h].job = frame'[g].job)
                        /\ \A w \in Workers :
                             ~(wk'[w].pc = "running" /\ wk'[w].job = frame'[g].job)
      BY DEF DeliveriesFresh
    <2>1. \A h \in Frames \ {f} : InDelivery(h)' => InDelivery(h) /\ frame'[h].job = frame[h].job
      BY <1>5 DEF InDelivery
    <2>2. CASE g = f
      <3>1. frame'[g].job = j
        BY <1>3, <1>5, <2>2 DEF InDelivery
      <3>2. QED
        BY <1>1, <1>2, <1>3, <1>5, <2>1, <2>2, <3>1
    <2>3. CASE g # f
      <3>1. InDelivery(g) /\ frame'[g].job = frame[g].job /\ frame[g].job \in Jobs \ {j}
        BY <1>2, <1>7, <2>1, <2>3
      <3>2. InDelivery(f)' => frame'[f].job = j
        BY <1>3, <1>5 DEF InDelivery
      <3>3. QED
        BY <1>0, <1>4, <2>1, <3>1, <3>2 DEF DeliveriesFresh
    <2>4. QED
      BY <2>2, <2>3
  <1>9. RunsFresh' /\ RunsAlone'
    BY <1>0, <1>2, <1>4 DEF RunsFresh, RunsAlone
  <1>10. QED
    BY <1>6, <1>8, <1>9

\* The answer arrives: the delivery becomes the worker's run.
LEMMA AnswerStep ==
    ASSUME IInv, TypeOK', NEW f \in Frames, ClaimAnswer(f)
    PROVE  LocksHeld' /\ DeliveriesFresh' /\ RunsFresh' /\ RunsAlone'
  <1> DEFINE w == frame[f].peer
             j == frame[f].job
  <1>0. /\ frame \in [Frames -> FrameType] /\ \A g \in Frames : frame[g] \in FrameType
        /\ wk \in [Workers -> WorkerType]
        /\ attempts \in [Jobs -> Nat]
        /\ LocksHeld /\ DeliveriesFresh /\ RunsFresh /\ RunsAlone
    BY DEF IInv, TypeOK, FramesOK, TableOK, WorkersOK
  <1>1. /\ UNCHANGED <<st, attempts, age>>
        /\ frame[f].pc = "reply" /\ w \in Workers /\ j \in Jobs \cup {NoJob}
    BY <1>0 DEF ClaimAnswer, tableVars, FrameType
  <1>2. \A g \in Frames : /\ g # f => frame'[g] = frame[g]
                          /\ g = f => frame'[g].pc = "free"
    BY <1>0 DEF ClaimAnswer, FreeFrame
  <1>3. LocksHeld'
    BY <1>0, <1>1, <1>2 DEF LocksHeld
  <1>4. PICK x : /\ wk' = [wk EXCEPT ![w] = x]
                 /\ x.pc = "running" =>
                      InDelivery(f) /\ x.job = j /\ x.attempt = attempts[j] /\ x.timer = 0
    <2>1. CASE j = NoJob
      <3>1. wk' = [wk EXCEPT ![w] = IdleWorker]
        BY <2>1 DEF ClaimAnswer
      <3>2. IdleWorker.pc # "running"
        BY DEF IdleWorker
      <3>3. QED
        BY <3>1, <3>2
    <2>2. CASE j # NoJob
      <3>1. LET y == [IdleWorker EXCEPT !.pc = "running", !.job = j, !.attempt = attempts[j]]
            IN  y.job = j /\ y.attempt = attempts[j] /\ y.timer = 0
        BY DEF IdleWorker
      <3>2. InDelivery(f)
        BY <1>1, <2>2, RelayAssumption DEF InDelivery
      <3>3. QED
        BY <2>2, <3>1, <3>2 DEF ClaimAnswer
    <2>3. QED
      BY <2>1, <2>2
  <1>5. \A v \in Workers : /\ v # w => wk'[v] = wk[v]
                           /\ v = w => wk'[v] = x
    BY <1>0, <1>1, <1>4
  <1>6. \A g \in Frames : InDelivery(g)' => g # f /\ InDelivery(g) /\ frame'[g].job = frame[g].job
    BY <1>2 DEF InDelivery
  <1>7. DeliveriesFresh'
    BY <1>0, <1>1, <1>4, <1>5, <1>6 DEF DeliveriesFresh
  <1>8. RunsFresh' /\ RunsAlone'
    <2> SUFFICES ASSUME NEW v \in Workers, wk'[v].pc = "running"
                 PROVE  /\ st[wk'[v].job] \notin {"absent", "pending"}
                        /\ st[wk'[v].job] = "processing" => age[wk'[v].job] <= wk'[v].timer
                        /\ attempts[wk'[v].job] = wk'[v].attempt
                        /\ \A u \in Workers \ {v} :
                             ~(wk'[u].pc = "running" /\ wk'[u].job = wk'[v].job)
      BY <1>1 DEF RunsFresh, RunsAlone
    <2>1. CASE v = w
      <3>1. InDelivery(f) /\ wk'[v].job = j /\ wk'[v].attempt = attempts[j] /\ wk'[v].timer = 0
        BY <1>4, <1>5, <2>1
      <3>2. /\ st[j] \notin {"absent", "pending"}
            /\ st[j] = "processing" => age[j] = 0
            /\ \A u \in Workers : ~(wk[u].pc = "running" /\ wk[u].job = j)
        BY <1>0, <3>1 DEF DeliveriesFresh
      <3>3. QED
        BY <1>5, <2>1, <3>1, <3>2
    <2>2. CASE v # w
      BY <1>0, <1>4, <1>5, <2>2 DEF DeliveriesFresh, RunsFresh, RunsAlone
    <2>3. QED
      BY <2>1, <2>2
  <1>9. QED
    BY <1>3, <1>7, <1>8

\* Time ages a claim and its run alike; none is in delivery meanwhile.
LEMMA TimeStep ==
    ASSUME IInv, TypeOK', Tick
    PROVE  LocksHeld' /\ DeliveriesFresh' /\ RunsFresh' /\ RunsAlone'
  <1>0. /\ \A g \in Frames : frame[g] \in FrameType
        /\ \A w \in Workers : wk[w] \in WorkerType
        /\ \A w \in Workers : wk[w].pc = "running" => wk[w].job \in Jobs
        /\ age \in [Jobs -> 0..VisibilityTimeout + 1]
        /\ LocksHeld /\ RunsFresh /\ RunsAlone
    BY DEF IInv, TypeOK, FramesOK, TableOK, WorkersOK
  <1>1. \A g \in Frames : /\ frame'[g].pc = frame[g].pc /\ frame'[g].job = frame[g].job
                          /\ frame'[g].peer = frame[g].peer
    BY <1>0 DEF Tick, FrameType
  <1>2. \A w \in Workers :
          /\ wk'[w].pc = wk[w].pc /\ wk'[w].job = wk[w].job /\ wk'[w].attempt = wk[w].attempt
          /\ wk[w].pc = "running" => wk'[w].timer = wk[w].timer + 1
    <2>1. ASSUME NEW w \in Workers, wk[w].pc = "running"
          PROVE  wk[w].timer < maxJobWait
      <3>1. wk[w].timer # maxJobWait
        BY <2>1 DEF Tick, Deadline
      <3>2. wk[w].timer \in 0..maxJobWait
        BY <1>0 DEF WorkerType
      <3>3. QED
        BY <3>1, <3>2, WorkerAssumption
    <2>2. QED
      BY <1>0, <2>1 DEF Tick, WorkerType
  <1>3. UNCHANGED <<st, attempts>> /\ \A j \in Jobs : age'[j] \in {age[j], age[j] + 1}
    BY DEF Tick
  <1>4. LocksHeld'
    BY <1>0, <1>1, <1>3 DEF LocksHeld
  <1>5. \A g \in Frames : ~InDelivery(g)'
    BY <1>1 DEF Tick, InDelivery
  <1>6. DeliveriesFresh'
    BY <1>5 DEF DeliveriesFresh
  <1>7. RunsFresh'
    <2> SUFFICES ASSUME NEW w \in Workers, wk'[w].pc = "running"
                 PROVE  /\ st'[wk'[w].job] # "absent"
                        /\ st'[wk'[w].job] = "processing" => age'[wk'[w].job] <= wk'[w].timer
      BY DEF RunsFresh
    <2>1. wk[w].timer \in Int /\ age[wk[w].job] \in Int
      BY <1>0, <1>2, RelayAssumption, WorkerAssumption DEF WorkerType
    <2>2. /\ wk[w].pc = "running" /\ wk[w].job \in Jobs /\ wk'[w].job = wk[w].job
          /\ wk'[w].timer = wk[w].timer + 1
      BY <1>0, <1>2
    <2>3. /\ st[wk[w].job] # "absent"
          /\ st[wk[w].job] = "processing" => age[wk[w].job] <= wk[w].timer
      BY <1>0, <2>2 DEF RunsFresh
    <2>4. age'[wk[w].job] <= age[wk[w].job] + 1
      BY <1>3, <2>1, <2>2
    <2>5. QED
      BY <1>3, <2>1, <2>2, <2>3, <2>4
  <1>8. RunsAlone'
    BY <1>0, <1>2, <1>3 DEF RunsAlone
  <1>9. QED
    BY <1>4, <1>6, <1>7, <1>8

\* The invariant is inductive.
LEMMA InvStep == IInv /\ [Next]_vars => IInv'
  <1> SUFFICES ASSUME IInv, [Next]_vars PROVE IInv'
    OBVIOUS
  <1>1. TypeOK' /\ RowsInserted'
    BY TypeStep, RowsInsertedStep DEF IInv
  <1>2. SUFFICES LocksHeld' /\ DeliveriesFresh' /\ RunsFresh' /\ RunsAlone'
    BY <1>1 DEF IInv
  <1>3. CASE UNCHANGED vars
    BY <1>3 DEF IInv, LocksHeld, DeliveriesFresh, InDelivery, RunsFresh, RunsAlone, vars
  <1>4. CASE StoreStep /\ UNCHANGED <<wk, paused, wire>>
    BY <1>1, <1>4, QuietStep, NothingStartsKeeps, SelectStep, CommitStep DEF StoreStep, ClaimStep
  <1>5. CASE \E f \in Frames : ClaimAnswer(f)
    BY <1>1, <1>5, AnswerStep
  <1>6. CASE \E w \in Workers : WorkerStep(w) \/ WorkerCrash(w) \/ Pause(w) \/ Resume(w)
    BY <1>1, <1>6, WorkerQuietStep, NothingStartsKeeps
  <1>7. CASE \E m \in wire : Ack(m)
    BY <1>1, <1>7, AckStep
  <1>8. CASE Tick
    BY <1>1, <1>8, TimeStep
  <1>9. QED
    BY <1>3, <1>4, <1>5, <1>6, <1>7, <1>8 DEF Next

\* IInv holds in every reachable state.
LEMMA Invariance == Spec => []IInv
  BY InitIInv, InvStep, PTL DEF Spec

\* A job that a worker runs is neither pending again nor claimed again, and no
\* other worker runs it: for any number of workers, lingering claim calls, late
\* acks, crashes and restarts, because maxJobWait is below the visibility timeout.
THEOREM NoRunOvertaken == Spec => []RunsAlone
  <1>1. IInv => RunsAlone
    BY DEF IInv
  <1>2. QED
    BY <1>1, Invariance, PTL

\* The table, the claim calls and the workers keep to their types: no row leaves
\* the statuses the schema allows, no count of attempts passes its bound and no
\* worker is in a state the loop does not have.
THEOREM RelayTypeCorrect == Spec => []TypeOK
  <1>1. IInv => TypeOK
    BY DEF IInv
  <1>2. QED
    BY <1>1, Invariance, PTL
-----------------------------------------------------------------------------
(***************************************************************************)
(* The relay implements JobLifecycle                                       *)
(***************************************************************************)

\* Every step of the relay or a worker is a step of the job's life or invisible.
LEMMA PromiseStep ==
    ASSUME IInv, [Next]_vars
    PROVE  [Promise!Next]_OwnerView
  <1>0. /\ st \in [Jobs -> {"absent", "pending", "processing", "gone"} \cup Settled]
        /\ wire \subseteq Acks
        /\ RowsInserted /\ LocksHeld
    BY DEF IInv, TypeOK, TableOK, WorkersOK
  <1>1. CASE UNCHANGED st
    BY <1>1 DEF OwnerView
  <1>2. ASSUME NEW j \in Jobs, NEW a \in {"absent", "open", "done", "failed"},
               NEW b \in {"open", "done", "failed", "gone"},
               OwnerView[j] = a, OwnerView' = [OwnerView EXCEPT ![j] = b],
               <<a, b>> \in {<<"absent", "open">>, <<"open", "done">>, <<"open", "failed">>,
                            <<"open", "gone">>, <<"done", "gone">>, <<"failed", "gone">>}
        PROVE  Promise!Next
    BY <1>2 DEF Promise!Next, Promise!Accept, Promise!Settle, Promise!Withdraw, Promise!Expire,
                Promise!Move, Promise!Results
  <1>3. ASSUME NEW j \in Jobs, Enqueue(j) PROVE [Promise!Next]_OwnerView
    <2>1. CASE UNCHANGED st
      BY <1>1, <2>1
    <2>2. CASE st' = [st EXCEPT ![j] = "pending"]
      <3>1. st[j] = "absent"
        BY <1>0, <1>3 DEF Enqueue, RowsInserted
      <3>2. OwnerView[j] = "absent" /\ OwnerView' = [OwnerView EXCEPT ![j] = "open"]
        BY <1>0, <2>2, <3>1 DEF OwnerView
      <3>3. QED
        BY <1>2, <3>2
    <2>3. QED
      BY <1>3, <2>1, <2>2 DEF Enqueue
  <1>4. ASSUME NEW j \in Jobs, CancelPending(j) PROVE [Promise!Next]_OwnerView
    <2>1. OwnerView[j] = "open" /\ OwnerView' = [OwnerView EXCEPT ![j] = "gone"]
      BY <1>0, <1>4 DEF CancelPending, OwnerView
    <2>2. QED
      BY <1>2, <2>1
  <1>5. ASSUME NEW j \in Jobs, PurgeExpired(j) PROVE [Promise!Next]_OwnerView
    <2>1. OwnerView[j] \in {"done", "failed"} /\ OwnerView' = [OwnerView EXCEPT ![j] = "gone"]
      BY <1>0, <1>5 DEF PurgeExpired, OwnerView
    <2>2. QED
      BY <1>2, <2>1
  <1>6. ASSUME NEW f \in Frames, sweepExpired(f) PROVE [Promise!Next]_OwnerView
    <2>1. OwnerView' = OwnerView
      BY <1>0, <1>6 DEF sweepExpired, Overdue, OwnerView
    <2>2. QED
      BY <2>1
  <1>7. ASSUME NEW f \in Frames, CommitClaim(f) PROVE [Promise!Next]_OwnerView
    <2>1. OwnerView' = OwnerView
      BY <1>0, <1>7 DEF CommitClaim, LocksHeld, OwnerView
    <2>2. QED
      BY <2>1
  <1>8. ASSUME NEW m \in wire, Ack(m) PROVE [Promise!Next]_OwnerView
    <2>1. m.job \in Jobs /\ m.res \in {"done", "failed"}
      BY <1>0 DEF Acks
    <2>2. CASE st[m.job] = "processing"
      <3>1. OwnerView[m.job] = "open" /\ OwnerView' = [OwnerView EXCEPT ![m.job] = m.res]
        BY <1>0, <1>8, <2>1, <2>2 DEF Ack, AckRow, OwnerView
      <3>2. QED
        BY <1>2, <2>1, <3>1
    <2>3. CASE st[m.job] # "processing"
      BY <1>0, <1>1, <1>8, <2>1, <2>3 DEF Ack, AckRow
    <2>4. QED
      BY <2>2, <2>3
  <1>9. QED
    BY <1>1, <1>3, <1>4, <1>5, <1>6, <1>7, <1>8
       DEF Next, StoreStep, EnqueueStep, CountPending, notify, ClaimStep, Subscribe, tryClaimOne,
           Wake, LongPollTimeout, FrameAborts, RelayRestart, ClaimAnswer, WorkerStep, StartClaim,
           ClaimError, FinishJob, AckError, WorkerCrash, Pause, Resume, Tick, tableVars, vars

\* The relay and its workers, with every fault, implement JobLifecycle: a job is
\* settled once and keeps its result.
THEOREM RelayKeepsPromise == Spec => JobSettledOnce
  <1>1. Init => Promise!Init
    BY DEF Init, StoreInit, Promise!Init, OwnerView
  <1>2. IInv /\ [Next]_vars => [Promise!Next]_OwnerView
    BY PromiseStep
  <1>3. QED
    BY <1>1, <1>2, Invariance, PTL DEF Spec, JobSettledOnce, Promise!Spec
-----------------------------------------------------------------------------
(***************************************************************************)
(* No wake-up is lost                                                      *)
(***************************************************************************)

\* A claim is counted when it commits.
LEMMA CountedStep ==
    ASSUME IInv, ClaimsCounted, [Next]_vars
    PROVE  ClaimsCounted'
  <1>0. TableOK /\ LocksHeld /\ wire \subseteq Acks
    BY DEF IInv, TypeOK, WorkersOK
  <1> USE DEF ClaimsCounted
  <1>1. CASE UNCHANGED <<st, attempts>>
    BY <1>1
  <1>2. ASSUME NEW j \in Jobs, Enqueue(j) \/ CancelPending(j) \/ PurgeExpired(j)
        PROVE  ClaimsCounted'
    BY <1>0, <1>2 DEF Enqueue, CancelPending, PurgeExpired, TableOK
  <1>3. ASSUME NEW f \in Frames, sweepExpired(f) PROVE ClaimsCounted'
    BY <1>0, <1>3 DEF sweepExpired, TableOK
  <1>4. ASSUME NEW f \in Frames, CommitClaim(f) PROVE ClaimsCounted'
    BY <1>0, <1>4 DEF CommitClaim, LocksHeld, TableOK
  <1>5. ASSUME NEW m \in wire, Ack(m) PROVE ClaimsCounted'
    BY <1>0, <1>5 DEF Ack, AckRow, Acks, TableOK
  <1>6. QED
    BY <1>1, <1>2, <1>3, <1>4, <1>5
       DEF Next, StoreStep, EnqueueStep, CountPending, notify, ClaimStep, Subscribe, tryClaimOne,
           Wake, LongPollTimeout, FrameAborts, RelayRestart, ClaimAnswer, WorkerStep, StartClaim,
           ClaimError, FinishJob, AckError, WorkerCrash, Pause, Resume, Tick, tableVars, vars

\* What a step that wakes nobody and starts no wait may do: every unwoken wait
\* was one before, every claimable row was claimable before, or is being
\* notified, or was claimed already.
LEMMA WakeupsKept ==
    ASSUME NoLostWakeup,
           \A f \in Frames : frame'[f].pc = "wait" /\ ~frame'[f].woken =>
             frame[f].pc = "wait" /\ ~frame[f].woken,
           \A j \in Claimable' :
             \/ j \in Claimable /\ attempts'[j] = attempts[j] /\ enq'[j] = enq[j]
             \/ attempts'[j] > 0
             \/ enq'[j] = "notify"
    PROVE  NoLostWakeup'
  BY DEF NoLostWakeup

\* A step that leaves the rows alone and ends no claim transaction early.
LEMMA CalmRows ==
    ASSUME UNCHANGED <<st, attempts, enq>>,
           \A f \in Frames : frame[f].pc = "commit" =>
             frame'[f].pc = "commit" /\ frame'[f].job = frame[f].job
    PROVE  \A j \in Claimable' : j \in Claimable /\ attempts'[j] = attempts[j] /\ enq'[j] = enq[j]
  BY DEF Claimable, Pending, Locked

\* Every step of a reliable relay keeps its claims attended and its wake-ups.
LEMMA WakeStep ==
    ASSUME Reliable, WakeInv, [Next]_vars
    PROVE  ClaimsAttended' /\ NoLostWakeup'
  <1>0. /\ frame \in [Frames -> FrameType] /\ \A f \in Frames : frame[f] \in FrameType
        /\ TableOK /\ RowsInserted /\ LocksHeld /\ wire \subseteq Acks
        /\ ClaimsAttended /\ ClaimsCounted /\ NoLostWakeup
    BY DEF WakeInv, IInv, TypeOK, FramesOK, WorkersOK
  <1>1. ~Fault("db") /\ ~Fault("disconnect") /\ ~Fault("crash")
    BY DEF Reliable, Fault
  <1>2. ASSUME UNCHANGED <<st, attempts, enq, frame>>
        PROVE  ClaimsAttended' /\ NoLostWakeup'
    BY <1>0, <1>2 DEF ClaimsAttended, NoLostWakeup, Claimable, Pending, Locked
  <1>3. ASSUME NEW f \in Frames, NEW x, frame' = [frame EXCEPT ![f] = x],
               frame[f].pc # "commit",
               x.pc # "free" => x.peer # NoWorker,
               x.pc = "wait" => Claimable = {},
               UNCHANGED <<st, attempts, enq>>
        PROVE  ClaimsAttended' /\ NoLostWakeup'
    <2>1. \A g \in Frames : /\ g # f => frame'[g] = frame[g]
                            /\ g = f => frame'[g] = x
      BY <1>0, <1>3
    <2>2. ClaimsAttended'
      BY <1>0, <1>3, <2>1 DEF ClaimsAttended
    <2>3. \A j \in Claimable' : j \in Claimable /\ attempts'[j] = attempts[j] /\ enq'[j] = enq[j]
      BY <1>3, <2>1, CalmRows
    <2>4. NoLostWakeup'
      BY <1>0, <1>3, <2>1, <2>3 DEF NoLostWakeup
    <2>5. QED
      BY <2>2, <2>4
  <1>4. ASSUME NEW j \in Jobs, CountPending(j) PROVE ClaimsAttended' /\ NoLostWakeup'
    <2>1. \A k \in Claimable' : k \in Claimable /\ attempts'[k] = attempts[k]
                                 /\ (enq'[k] = enq[k] \/ k = j)
      BY <1>0, <1>4 DEF CountPending, tableVars, Claimable, Pending, Locked, TableOK
    <2>2. j \notin Claimable
      BY <1>0, <1>4 DEF CountPending, RowsInserted, Claimable, Pending
    <2>3. QED
      BY <1>0, <1>4, <2>1, <2>2, WakeupsKept DEF CountPending, ClaimsAttended
  <1>5. ASSUME NEW j \in Jobs, Enqueue(j) PROVE ClaimsAttended' /\ NoLostWakeup'
    <2>1. /\ st' = [st EXCEPT ![j] = "pending"] /\ enq' = [enq EXCEPT ![j] = "notify"]
          /\ UNCHANGED <<attempts, frame>>
      BY <1>1, <1>5 DEF Enqueue
    <2>2. \A k \in Claimable' : \/ k \in Claimable /\ attempts'[k] = attempts[k] /\ enq'[k] = enq[k]
                                \/ enq'[k] = "notify"
      BY <1>0, <2>1 DEF Claimable, Pending, Locked, TableOK
    <2>3. QED
      BY <1>0, <2>1, <2>2, WakeupsKept DEF ClaimsAttended
  <1>6. ASSUME NEW j \in Jobs, notify(j) PROVE ClaimsAttended' /\ NoLostWakeup'
    <2>1. \A f \in Frames : /\ frame'[f].pc = frame[f].pc /\ frame'[f].peer = frame[f].peer
                            /\ frame'[f].pc = "wait" => frame'[f].woken
      BY <1>0, <1>6 DEF notify, FrameType
    <2>2. QED
      BY <1>0, <2>1 DEF ClaimsAttended, NoLostWakeup
  <1>7. ASSUME NEW j \in Jobs, CancelPending(j) \/ PurgeExpired(j)
        PROVE  ClaimsAttended' /\ NoLostWakeup'
    <2>1. st' = [st EXCEPT ![j] = "gone"] /\ UNCHANGED <<attempts, enq, frame>>
      BY <1>7 DEF CancelPending, PurgeExpired
    <2>2. \A k \in Claimable' : k \in Claimable /\ attempts'[k] = attempts[k] /\ enq'[k] = enq[k]
      BY <1>0, <2>1 DEF Claimable, Pending, Locked, TableOK
    <2>3. QED
      BY <1>0, <2>1, <2>2, WakeupsKept DEF ClaimsAttended
  <1>8. ASSUME NEW f \in Frames, Subscribe(f) PROVE ClaimsAttended' /\ NoLostWakeup'
    <2>1. LET x == [frame[f] EXCEPT !.pc = "sweep", !.woken = FALSE]
          IN  x.pc = "sweep" /\ x.peer = frame[f].peer
      BY <1>0 DEF FrameType
    <2>2. QED
      BY <1>0, <1>3, <1>8, <2>1 DEF Subscribe, tableVars, ClaimsAttended
  <1>9. ASSUME NEW f \in Frames, NEW p \in {"subscribe", "wait", "reply"}, NEW k \in Jobs \cup {NoJob}
        PROVE  /\ [frame[f] EXCEPT !.pc = p].pc = p
               /\ [frame[f] EXCEPT !.pc = p].peer = frame[f].peer
               /\ [frame[f] EXCEPT !.pc = p, !.job = k].pc = p
               /\ [frame[f] EXCEPT !.pc = p, !.job = k].peer = frame[f].peer
    BY <1>0 DEF FrameType
  <1>10. ASSUME NEW f \in Frames, Wake(f) PROVE ClaimsAttended' /\ NoLostWakeup'
    <2>1. [frame[f] EXCEPT !.pc = "subscribe"].pc = "subscribe"
          /\ [frame[f] EXCEPT !.pc = "subscribe"].peer = frame[f].peer
      BY <1>9
    <2>2. /\ frame' = [frame EXCEPT ![f] = [frame[f] EXCEPT !.pc = "subscribe"]]
          /\ frame[f].pc = "wait" /\ frame[f].peer # NoWorker /\ UNCHANGED <<st, attempts, enq>>
      BY <1>0, <1>10 DEF Wake, Goto, tableVars, ClaimsAttended
    <2>3. QED
      BY <1>3, <2>1, <2>2
  <1>11. ASSUME NEW f \in Frames, LongPollTimeout(f) PROVE ClaimsAttended' /\ NoLostWakeup'
    <2>1. [frame[f] EXCEPT !.pc = "reply", !.job = NoJob].pc = "reply"
          /\ [frame[f] EXCEPT !.pc = "reply", !.job = NoJob].peer = frame[f].peer
      BY <1>9
    <2>2. /\ frame' = [frame EXCEPT ![f] = [frame[f] EXCEPT !.pc = "reply", !.job = NoJob]]
          /\ frame[f].pc = "wait" /\ frame[f].peer # NoWorker /\ UNCHANGED <<st, attempts, enq>>
      BY <1>0, <1>11 DEF LongPollTimeout, Reply, tableVars, ClaimsAttended
    <2>3. QED
      BY <1>3, <2>1, <2>2
  <1>12. ASSUME NEW f \in Frames PROVE ~FrameAborts(f)
    BY <1>0 DEF FrameAborts, ClaimsAttended
  <1>13. ASSUME NEW f \in Frames, sweepExpired(f) PROVE ClaimsAttended' /\ NoLostWakeup'
    <2>1. /\ st' = [j \in Jobs |-> IF Overdue(j) THEN "pending" ELSE st[j]]
          /\ frame' = [frame EXCEPT ![f].pc = "select"]
          /\ frame[f].pc = "sweep" /\ UNCHANGED <<attempts, enq>>
      BY <1>1, <1>13 DEF sweepExpired, Goto
    <2>2. [frame[f] EXCEPT !.pc = "select"].pc = "select"
          /\ [frame[f] EXCEPT !.pc = "select"].peer = frame[f].peer
      BY <1>0 DEF FrameType
    <2>3. \A g \in Frames : /\ frame'[g].peer = frame[g].peer
                            /\ g # f => frame'[g] = frame[g]
                            /\ g = f => frame'[g].pc = "select"
      BY <1>0, <2>1, <2>2
    <2>4. \A k \in Claimable' : \/ k \in Claimable /\ attempts'[k] = attempts[k] /\ enq'[k] = enq[k]
                                \/ attempts'[k] > 0
      BY <1>0, <2>1, <2>3 DEF Overdue, ClaimsCounted, Claimable, Pending, Locked, TableOK
    <2>5. ClaimsAttended'
      BY <1>0, <2>1, <2>3 DEF ClaimsAttended
    <2>6. QED
      BY <1>0, <2>3, <2>4, <2>5, WakeupsKept
  <1>14. ASSUME NEW f \in Frames, tryClaimOne(f) PROVE ClaimsAttended' /\ NoLostWakeup'
    <2>1. frame[f].pc = "select" /\ UNCHANGED <<st, attempts, enq>> /\ frame[f].peer # NoWorker
      BY <1>0, <1>14 DEF tryClaimOne, tableVars, ClaimsAttended
    <2>2. ASSUME NEW j \in Jobs, frame' = [frame EXCEPT ![f] = [@ EXCEPT !.pc = "commit", !.job = j]]
          PROVE  ClaimsAttended' /\ NoLostWakeup'
      <3>1. LET x == [frame[f] EXCEPT !.pc = "commit", !.job = j]
            IN  x.pc = "commit" /\ x.peer = frame[f].peer
        BY <1>0 DEF FrameType
      <3>2. QED
        BY <1>3, <2>1, <2>2, <3>1
    <2>3. CASE Claimable = {} /\ frame' = Goto(f, "wait")
      <3>1. [frame[f] EXCEPT !.pc = "wait"].peer = frame[f].peer
        BY <1>9
      <3>2. frame' = [frame EXCEPT ![f] = [frame[f] EXCEPT !.pc = "wait"]]
        BY <2>3 DEF Goto
      <3>3. QED
        BY <1>3, <2>1, <2>3, <3>1, <3>2
    <2>4. QED
      BY <1>1, <1>14, <2>2, <2>3 DEF tryClaimOne
  <1>15. ASSUME NEW f \in Frames, CommitClaim(f) PROVE ClaimsAttended' /\ NoLostWakeup'
    <2> DEFINE j == frame[f].job
    <2>1. /\ frame[f].pc = "commit" /\ j \in Jobs /\ UNCHANGED enq
          /\ st' = [st EXCEPT ![j] = "processing"]
          /\ attempts' = [attempts EXCEPT ![j] = @ + 1]
          /\ frame' = [frame EXCEPT ![f] = [frame[f] EXCEPT !.pc = "reply", !.job = j]]
      BY <1>0, <1>1, <1>15 DEF CommitClaim, Reply, LocksHeld
    <2>2. \A g \in Frames : /\ frame'[g].peer = frame[g].peer
                            /\ g # f => frame'[g] = frame[g]
                            /\ g = f => frame'[g].pc = "reply"
      BY <1>0, <1>9, <2>1
    <2>3. \A k \in Claimable' : k \in Claimable /\ attempts'[k] = attempts[k] /\ enq'[k] = enq[k]
      BY <1>0, <2>1, <2>2 DEF Claimable, Pending, Locked, TableOK
    <2>4. ClaimsAttended'
      BY <1>0, <2>1, <2>2 DEF ClaimsAttended
    <2>5. QED
      BY <1>0, <2>2, <2>3, <2>4, WakeupsKept
  <1>16. CASE RelayRestart
    BY <1>16 DEF RelayRestart, FreeFrame, ClaimsAttended, NoLostWakeup
  <1>17. ASSUME NEW f \in Frames, ClaimAnswer(f) PROVE ClaimsAttended' /\ NoLostWakeup'
    <2>1. FreeFrame.pc = "free"
      BY DEF FreeFrame
    <2>2. QED
      BY <1>3, <1>17, <2>1 DEF ClaimAnswer, tableVars
  <1>18. ASSUME NEW w \in Workers, StartClaim(w) PROVE ClaimsAttended' /\ NoLostWakeup'
    <2>1. LET x == [FreeFrame EXCEPT !.pc = "subscribe", !.peer = w]
          IN  x.pc = "subscribe" /\ x.peer = w
      BY DEF FreeFrame
    <2>2. QED
      BY <1>3, <1>18, <2>1, RelayAssumption DEF StartClaim, tableVars
  <1>19. ASSUME NEW w \in Workers, ClaimError(w) PROVE ClaimsAttended' /\ NoLostWakeup'
    <2>1. frame' = frame
      BY <1>0, <1>1, <1>19 DEF ClaimError, HangUp
    <2>2. QED
      BY <1>2, <1>19, <2>1 DEF ClaimError, tableVars
  <1>20. ASSUME NEW m \in wire, Ack(m) PROVE ClaimsAttended' /\ NoLostWakeup'
    <2>1. \A k \in Claimable' : k \in Claimable /\ attempts'[k] = attempts[k] /\ enq'[k] = enq[k]
      BY <1>0, <1>20 DEF Ack, AckRow, Acks, Claimable, Pending, Locked, TableOK
    <2>2. QED
      BY <1>0, <1>20, <2>1, WakeupsKept DEF Ack, ClaimsAttended
  <1>21. CASE Tick
    <2>1. \A f \in Frames : /\ frame'[f].pc = frame[f].pc /\ frame'[f].job = frame[f].job
                            /\ frame'[f].peer = frame[f].peer /\ frame'[f].woken = frame[f].woken
      BY <1>0, <1>21 DEF Tick, FrameType
    <2>2. QED
      BY <1>0, <1>21, <2>1, CalmRows, WakeupsKept DEF Tick, ClaimsAttended
  <1>22. QED
    BY <1>1, <1>2, <1>4, <1>5, <1>6, <1>7, <1>8, <1>10, <1>11, <1>12, <1>13, <1>14, <1>15, <1>16,
       <1>17, <1>18, <1>19, <1>20, <1>21
       DEF Next, StoreStep, EnqueueStep, ClaimStep, WorkerStep, FinishJob, AckError, WorkerCrash,
           Pause, Resume, tableVars, vars

\* A Claim that sleeps has not missed a fresh job, whatever the interleaving of
\* enqueues, claims and relay restarts, as long as no claim is abandoned.
THEOREM WakeupsArrive == Reliable => (Spec => []NoLostWakeup)
  <1> SUFFICES ASSUME Reliable PROVE Spec => []NoLostWakeup
    OBVIOUS
  <1>1. Init => WakeInv
    <2> SUFFICES ASSUME Init PROVE WakeInv
      OBVIOUS
    <2>1. ClaimsAttended /\ ClaimsCounted /\ NoLostWakeup
      BY DEF Init, StoreInit, FreeFrame, ClaimsAttended, ClaimsCounted, NoLostWakeup
    <2>2. QED
      BY <2>1, InitIInv DEF WakeInv
  <1>2. WakeInv /\ [Next]_vars => WakeInv'
    BY InvStep, CountedStep, WakeStep DEF WakeInv
  <1>3. WakeInv => NoLostWakeup
    BY DEF WakeInv
  <1>4. QED
    BY <1>1, <1>2, <1>3, PTL DEF Spec
=============================================================================
