---------------------------- MODULE RelayWorker ----------------------------
(***************************************************************************)
(* internal/remote/client.go: the PC's worker loop, composed with the      *)
(* relay over an HTTP connection that loses and delays requests and        *)
(* answers.  The inference a job runs is the local pipeline's business;    *)
(* here it ends with a result, an error or the worker's deadline.          *)
(*                                                                         *)
(* Time is a clock tick that ages every claim and every run.  The worker's *)
(* deadline is shorter than the visibility timeout, and an answer that     *)
(* arrives does so within the difference.                                  *)
(***************************************************************************)
EXTENDS RelayStore

CONSTANTS maxJobWait, \* the worker's deadline, in clock ticks
          ackRetries, \* posts of the ack of a done job
          MayPause    \* TRUE: an operator may pause the worker

ASSUME WorkerAssumption ==
    /\ maxJobWait \in Nat
    /\ maxJobWait < VisibilityTimeout
    /\ ackRetries \in Nat \ {0}
    /\ MayPause \in BOOLEAN

VARIABLES wk,     \* what each worker's Run loop is doing
          paused, \* its pause flag
          wire    \* ack requests on their way to the relay

vars == <<st, attempts, born, age, enq, frame, faults, wk, paused, wire>>

IdleWorker == [pc |-> "idle", job |-> NoJob, attempt |-> 0, timer |-> 0,
               res |-> "none", try |-> 0]

Acks == [job : Jobs, attempt : Nat, res : Settled, try : Nat]

\* The ack request worker w is waiting on.
CurrentAck(w) ==
    [job |-> wk[w].job, attempt |-> wk[w].attempt, res |-> wk[w].res, try |-> wk[w].try]

WorkerType ==
    [pc : {"idle", "claiming", "running", "acking"}, job : Jobs \cup {NoJob},
     attempt : Nat, timer : 0..maxJobWait, res : Settled \cup {"none"},
     try : 0..ackRetries - 1]

WorkersOK ==
    /\ wk \in [Workers -> WorkerType]
    /\ \A w \in Workers : /\ wk[w].pc \in {"running", "acking"} => wk[w].job \in Jobs
                          /\ wk[w].pc = "acking" => wk[w].res \in Settled
    /\ paused \in [Workers -> BOOLEAN]
    /\ wire \subseteq Acks

TypeOK == TableOK /\ FramesOK /\ WorkersOK

Init ==
    /\ StoreInit
    /\ wk = [w \in Workers |-> IdleWorker]
    /\ paused = [w \in Workers |-> FALSE]
    /\ wire = {}
-----------------------------------------------------------------------------
\* Run posts /claim unless it is paused.
StartClaim(w) ==
    /\ wk[w].pc = "idle"
    /\ ~paused[w]
    /\ \E f \in Frames :
         /\ frame[f].pc = "free"
         /\ frame' = [frame EXCEPT ![f] = [FreeFrame EXCEPT !.pc = "subscribe", !.peer = w]]
    /\ wk' = [wk EXCEPT ![w] = [IdleWorker EXCEPT !.pc = "claiming"]]
    /\ UNCHANGED <<tableVars, enq, faults, paused, wire>>

\* The answer of /claim: a job to run, or nothing and another round.
ClaimAnswer(f) ==
    LET w == frame[f].peer
        j == frame[f].job
    IN  /\ frame[f].pc = "reply"
        /\ w # NoWorker
        /\ wk' = [wk EXCEPT ![w] =
                    IF j = NoJob THEN IdleWorker
                    ELSE [IdleWorker EXCEPT !.pc = "running", !.job = j,
                                            !.attempt = attempts[j]]]
        /\ frame' = [frame EXCEPT ![f] = FreeFrame]
        /\ UNCHANGED <<tableVars, enq, faults, paused, wire>>

HangUp(w) == [f \in Frames |-> IF frame[f].peer = w THEN [frame[f] EXCEPT !.peer = NoWorker]
                               ELSE frame[f]]

\* /claim fails at the worker, which backs off and tries again; the call may
\* live on at the relay.
ClaimError(w) ==
    /\ wk[w].pc = "claiming"
    /\ \/ Fault("disconnect")
       \/ /\ \A f \in Frames : frame[f].peer # w
          /\ UNCHANGED faults
    /\ wk' = [wk EXCEPT ![w] = IdleWorker]
    /\ frame' = HangUp(w)
    /\ UNCHANGED <<tableVars, enq, paused, wire>>

\* processJob ends: a result, or an error, a full queue or the deadline.  It
\* posts the ack.
FinishJob(w, r) ==
    LET m == [job |-> wk[w].job, attempt |-> wk[w].attempt, res |-> r, try |-> 0]
    IN  /\ wk[w].pc = "running"
        /\ wk' = [wk EXCEPT ![w] = [@ EXCEPT !.pc = "acking", !.res = r, !.timer = 0]]
        /\ wire' = wire \cup {m}
        /\ UNCHANGED <<tableVars, enq, frame, faults, paused>>

\* The relay handles an ack, from a worker that still waits for the answer or
\* from one that has given up; the answer may get lost.
Ack(m) ==
    /\ m \in wire
    /\ wire' = wire \ {m}
    /\ AckRow(m.job, m.res)
    /\ \/ /\ wk' = [w \in Workers |->
                      IF wk[w].pc = "acking" /\ CurrentAck(w) = m THEN IdleWorker ELSE wk[w]]
          /\ UNCHANGED faults
       \/ Fault("ackLost") /\ UNCHANGED wk
    /\ UNCHANGED <<attempts, born, age, enq, frame, paused>>

\* Slip: a done job's ack is posted once only, like a failed one's.
AckErrorOnce(w) ==
    /\ wk[w].pc = "acking"
    /\ \/ CurrentAck(w) \notin wire /\ UNCHANGED faults
       \/ CurrentAck(w) \in wire /\ Fault("ackLost")
    /\ wire' \in {wire, wire \ {CurrentAck(w)}}
    /\ wk' = [wk EXCEPT ![w] = IdleWorker]
    /\ UNCHANGED <<tableVars, enq, frame, paused>>

\* /ack fails at the worker: the request is lost or late, or its answer was.
\* ackWithRetry posts a done job again; ackFailed gives up at once.
AckError(w) ==
    LET again == wk[w].res = "done" /\ wk[w].try + 1 < ackRetries
    IN  /\ wk[w].pc = "acking"
        /\ \/ CurrentAck(w) \notin wire /\ UNCHANGED faults
           \/ CurrentAck(w) \in wire /\ Fault("ackLost")
        /\ \E left \in {wire, wire \ {CurrentAck(w)}} :
             wire' = IF again THEN left \cup {[CurrentAck(w) EXCEPT !.try = @ + 1]} ELSE left
        /\ wk' = [wk EXCEPT ![w] = IF again THEN [wk[w] EXCEPT !.try = @ + 1]
                                     ELSE IdleWorker]
        /\ UNCHANGED <<tableVars, enq, frame, paused>>

\* The PC's server stops and starts again.  Whatever it was running is left to
\* the visibility timeout.
WorkerCrash(w) ==
    /\ Fault("crash")
    /\ wk' = [wk EXCEPT ![w] = IdleWorker]
    /\ paused' = [paused EXCEPT ![w] = FALSE]
    /\ frame' = HangUp(w)
    /\ UNCHANGED <<tableVars, enq, wire>>

\* Pause and Resume of the admin drain.
Pause(w) ==
    /\ MayPause
    /\ ~paused[w]
    /\ paused' = [paused EXCEPT ![w] = TRUE]
    /\ UNCHANGED <<tableVars, enq, frame, faults, wk, wire>>

Resume(w) ==
    /\ paused[w]
    /\ paused' = [paused EXCEPT ![w] = FALSE]
    /\ UNCHANGED <<tableVars, enq, frame, faults, wk, wire>>
-----------------------------------------------------------------------------
\* jobCtx: the run's time is up.
Deadline(w) == wk[w].pc = "running" /\ wk[w].timer = maxJobWait

\* An answer that is on its way with a job.
InDelivery(f) == frame[f].pc = "reply" /\ frame[f].peer # NoWorker /\ frame[f].job # NoJob

\* handleClaim's context expires.
Expired(f) == frame[f].pc # "free" /\ frame[f].life = claimTimeout

\* Time passes, except over a deadline or an answer about to arrive.
Tick ==
    /\ \A w \in Workers : ~Deadline(w)
    /\ \A f \in Frames : ~InDelivery(f) /\ ~Expired(f)
    /\ age' = [j \in Jobs |-> IF st[j] = "processing" /\ age[j] <= VisibilityTimeout
                              THEN age[j] + 1 ELSE age[j]]
    /\ wk' = [w \in Workers |-> IF wk[w].pc = "running" /\ wk[w].timer < maxJobWait
                                THEN [wk[w] EXCEPT !.timer = @ + 1] ELSE wk[w]]
    /\ frame' = [f \in Frames |-> IF frame[f].pc # "free" /\ frame[f].life < claimTimeout
                                  THEN [frame[f] EXCEPT !.life = @ + 1] ELSE frame[f]]
    /\ UNCHANGED <<st, attempts, born, enq, faults, paused, wire>>

WorkerStep(w) ==
    \/ StartClaim(w)
    \/ ClaimError(w)
    \/ \E r \in Settled : FinishJob(w, r)
    \/ AckError(w)

Next ==
    \/ StoreStep /\ UNCHANGED <<wk, paused, wire>>
    \/ \E f \in Frames : ClaimAnswer(f)
    \/ \E w \in Workers : WorkerStep(w) \/ WorkerCrash(w) \/ Pause(w) \/ Resume(w)
    \/ \E m \in wire : Ack(m)
    \/ Tick

Spec == Init /\ [][Next]_vars

\* The relay's handlers and the worker loop run, and time passes.  Faults are
\* finitely many and are never obliged to happen.
FairSpec ==
    /\ Spec
    /\ \A j \in Jobs : WF_vars(EnqueueStep(j) /\ UNCHANGED <<wk, paused, wire>>)
    /\ \A f \in Frames : /\ WF_vars(ClaimStep(f) /\ UNCHANGED <<wk, paused, wire>>)
                         /\ WF_vars(ClaimAnswer(f))
    /\ \A w \in Workers : WF_vars(WorkerStep(w))
    /\ WF_vars(\E m \in wire : Ack(m))
    /\ WF_vars(Tick)
-----------------------------------------------------------------------------
(***************************************************************************)
(* Properties                                                              *)
(***************************************************************************)

\* What a job's owner sees of it: a claim is not visible, a result is.
OwnerView == [j \in Jobs |-> IF st[j] \in {"pending", "processing"} THEN "open" ELSE st[j]]

Promise == INSTANCE JobLifecycle WITH job <- OwnerView

\* The promise of JobLifecycle: whatever acks arrive late, twice or from an old
\* attempt, a job is settled once, keeps its result until it is purged, and
\* never comes back (store.go: Ack "no-ops if the job is no longer processing").
JobSettledOnce == Promise!Spec

\* A job that a worker is running is neither pending again nor claimed again,
\* and no other worker runs it (client.go: maxJobWait is "kept under the relay's
\* 120 s visibility timeout").
RunsAlone ==
    \A w \in Workers : wk[w].pc = "running" =>
        /\ st[wk[w].job] # "pending"
        /\ attempts[wk[w].job] = wk[w].attempt
        /\ \A v \in Workers \ {w} : ~(wk[v].pc = "running" /\ wk[v].job = wk[w].job)

\* A Claim that sleeps with its channel open has not missed a fresh job (store.go:
\* "a job enqueued between the check and the wait below still wakes this call").
NoLostWakeup ==
    \A f \in Frames : frame[f].pc = "wait" /\ ~frame[f].woken =>
        \A j \in Claimable : attempts[j] > 0 \/ enq[j] = "notify"

\* The ack of a done job outlives fewer failures than ackRetries: a worker that
\* does not crash moves on only when the row is no longer claimed by this run
\* (client.go: "a lost ack on a done job otherwise causes a full re-run").
DoneIsReported ==
    [][\A w \in Workers :
         wk[w].pc = "acking" /\ wk[w].res = "done" /\ wk'[w].pc = "idle" =>
            \/ st'[wk[w].job] # "processing"
            \/ attempts[wk[w].job] # wk[w].attempt
            \/ WorkerCrash(w)]_vars

\* An accepted job is settled or withdrawn in the end, unless a worker is paused,
\* across restarts of either side and lost messages that cost fewer attempts than
\* it has.
EveryJobSettles ==
    \A j \in Jobs : st[j] = "pending" ~>
        st[j] \in Settled \cup {"gone"} \/ \E w \in Workers : paused[w]

\* store.go: "CountPending returns the number of jobs waiting to be claimed".
\* Does not hold: a row swept back after its last attempt is counted for ever.
PendingIsClaimable == \A j \in Pending : attempts[j] < MaxAttempts[j]
-----------------------------------------------------------------------------
(***************************************************************************)
(* The inductive invariant behind JobSettledOnce and RunsAlone             *)
(***************************************************************************)

\* A row exists once its insert has run.
RowsInserted == \A j \in Jobs : enq[j] \in {"none", "counted"} => st[j] = "absent"

\* A claim transaction between its SELECT and its COMMIT has a claimable row to
\* itself.
LocksHeld ==
    \A f \in Frames : frame[f].pc = "commit" =>
        /\ frame[f].job \in Jobs
        /\ st[frame[f].job] = "pending"
        /\ attempts[frame[f].job] < MaxAttempts[frame[f].job]
        /\ \A g \in Frames \ {f} : ~(frame[g].pc = "commit" /\ frame[g].job = frame[f].job)

\* A job on its way to a worker was claimed just now, and for this answer alone.
DeliveriesFresh ==
    \A f \in Frames : InDelivery(f) =>
        /\ st[frame[f].job] \notin {"absent", "pending"}
        /\ st[frame[f].job] = "processing" => age[frame[f].job] = 0
        /\ \A g \in Frames \ {f} : ~(InDelivery(g) /\ frame[g].job = frame[f].job)
        /\ \A w \in Workers : ~(wk[w].pc = "running" /\ wk[w].job = frame[f].job)

\* A run is younger than its claim by the worker's own clock.
RunsFresh ==
    \A w \in Workers : wk[w].pc = "running" =>
        /\ st[wk[w].job] # "absent"
        /\ st[wk[w].job] = "processing" => age[wk[w].job] <= wk[w].timer

IInv == TypeOK /\ RowsInserted /\ LocksHeld /\ DeliveriesFresh /\ RunsFresh /\ RunsAlone

\* Without a failing database, a hang-up or a crash, no claim is abandoned.
Reliable == Faults \cap {"db", "disconnect", "crash"} = {}

\* A running Claim has a worker at the other end.
ClaimsAttended == \A f \in Frames : frame[f].pc # "free" => frame[f].peer # NoWorker

\* A claimed row counts an attempt.
ClaimsCounted == \A j \in Jobs : st[j] = "processing" => attempts[j] > 0

WakeInv == IInv /\ ClaimsAttended /\ ClaimsCounted /\ NoLostWakeup
=============================================================================
