----------------------------- MODULE RelayStore -----------------------------
(***************************************************************************)
(* internal/railwayq/store.go, handler.go and jobSignal of wake.go: the    *)
(* relay's job table and the handlers that work on it.                     *)
(*                                                                         *)
(* One action is one SQL statement or transaction step, or one critical    *)
(* section of jobSignal.  A claim frame is one running Claim call; one     *)
(* whose worker has hung up keeps running until the server notices or its  *)
(* context expires.                                                        *)
(***************************************************************************)
EXTENDS Naturals, FiniteSets

CONSTANTS Jobs, Workers, Frames,
          NoJob, NoWorker,
          MaxAttempts,       \* max_attempts of each job
          MaxPendingDepth,   \* MAX_PENDING_DEPTH
          VisibilityTimeout, \* the visibility timeout, in clock ticks
          claimTimeout,      \* the deadline of handleClaim's context, in clock ticks
          Faults,            \* the kinds of fault that may happen
          MaxFaults          \* bound on their number

FaultKinds == {"db", "disconnect", "restart", "crash", "ackLost"}

ASSUME RelayAssumption ==
    /\ IsFiniteSet(Jobs)
    /\ NoJob \notin Jobs
    /\ NoWorker \notin Workers
    /\ MaxAttempts \in [Jobs -> Nat \ {0}]
    /\ MaxPendingDepth \in Nat
    /\ VisibilityTimeout \in Nat
    /\ claimTimeout \in Nat
    /\ Faults \subseteq FaultKinds
    /\ MaxFaults \in Nat

VARIABLES st,       \* status column; "absent" before the insert, "gone" after the delete
          attempts, \* attempt_count column
          born,     \* created_at column, as an insertion number (0: none)
          age,      \* ticks since claimed_at
          enq,      \* the handleEnqueue call that creates the job
          frame,    \* the running Claim calls
          faults    \* faults so far

tableVars == <<st, attempts, born, age>>

Settled == {"done", "failed"}

FreeFrame == [pc |-> "free", job |-> NoJob, woken |-> FALSE, peer |-> NoWorker,
              life |-> 0]

FrameType ==
    [pc : {"free", "subscribe", "sweep", "select", "commit", "wait", "reply"},
     job : Jobs \cup {NoJob}, woken : BOOLEAN, peer : Workers \cup {NoWorker},
     life : 0..claimTimeout]

TableOK ==
    /\ st \in [Jobs -> {"absent", "pending", "processing", "gone"} \cup Settled]
    /\ attempts \in [Jobs -> Nat]
    /\ \A j \in Jobs : attempts[j] <= MaxAttempts[j]
    /\ born \in [Jobs -> Nat]
    /\ age \in [Jobs -> 0..VisibilityTimeout + 1]
    /\ enq \in [Jobs -> {"none", "counted", "notify", "done", "lost"}]
    /\ faults \in 0..MaxFaults

FramesOK == frame \in [Frames -> FrameType]

StoreInit ==
    /\ st = [j \in Jobs |-> "absent"]
    /\ attempts = [j \in Jobs |-> 0]
    /\ born = [j \in Jobs |-> 0]
    /\ age = [j \in Jobs |-> 0]
    /\ enq = [j \in Jobs |-> "none"]
    /\ frame = [f \in Frames |-> FreeFrame]
    /\ faults = 0

\* A fault of kind k happens, within the bound.
Fault(k) ==
    /\ k \in Faults
    /\ faults < MaxFaults
    /\ faults' = faults + 1

Pending == {j \in Jobs : st[j] = "pending"}

\* Rows locked by the SELECT ... FOR UPDATE of a running claim transaction.
Locked == {j \in Jobs : \E f \in Frames : frame[f].pc = "commit" /\ frame[f].job = j}
-----------------------------------------------------------------------------
\* handleEnqueue counts the pending rows and turns the caller away at the limit ...
CountPending(j) ==
    /\ enq[j] = "none"
    /\ Cardinality(Pending) < MaxPendingDepth
    /\ enq' = [enq EXCEPT ![j] = "counted"]
    /\ UNCHANGED <<tableVars, frame, faults>>

\* ... inserts the row (after an error nobody knows whether it took effect; the
\* caller gets no id and nobody is woken) ...
Enqueue(j) ==
    LET inserted == /\ st' = [st EXCEPT ![j] = "pending"]
                    /\ born' = [born EXCEPT ![j] = Cardinality({k \in Jobs : born[k] > 0}) + 1]
    IN  /\ enq[j] = "counted"
        /\ \/ inserted /\ enq' = [enq EXCEPT ![j] = "notify"] /\ UNCHANGED faults
           \/ Fault("db") /\ inserted /\ enq' = [enq EXCEPT ![j] = "lost"]
           \/ Fault("db") /\ enq' = [enq EXCEPT ![j] = "none"] /\ UNCHANGED <<st, born>>
        /\ UNCHANGED <<attempts, age, frame>>

\* Slip: one subscribed Claim is woken, and it may be one that is leaving.
notifyOne(j) ==
    LET subscribed == {f \in Frames : frame[f].pc \notin {"free", "subscribe"}}
    IN  /\ enq[j] = "notify"
        /\ enq' = [enq EXCEPT ![j] = "done"]
        /\ IF subscribed = {} THEN UNCHANGED frame
           ELSE \E f \in subscribed : frame' = [frame EXCEPT ![f].woken = TRUE]
        /\ UNCHANGED <<tableVars, faults>>

\* ... and closes the channel every subscribed Claim holds.
notify(j) ==
    /\ enq[j] = "notify"
    /\ enq' = [enq EXCEPT ![j] = "done"]
    /\ frame' = [f \in Frames |->
                   IF frame[f].pc \in {"free", "subscribe"} THEN frame[f]
                   ELSE [frame[f] EXCEPT !.woken = TRUE]]
    /\ UNCHANGED <<tableVars, faults>>

\* CancelPending: the owner, who has the id, withdraws a job still pending.
CancelPending(j) ==
    /\ enq[j] = "done"
    /\ st[j] = "pending"
    /\ j \notin Locked
    /\ st' = [st EXCEPT ![j] = "gone"]
    /\ UNCHANGED <<attempts, born, age, enq, frame, faults>>

\* PurgeExpired removes a terminal row (TtlSweeper says when).
PurgeExpired(j) ==
    /\ st[j] \in Settled
    /\ st' = [st EXCEPT ![j] = "gone"]
    /\ UNCHANGED <<attempts, born, age, enq, frame, faults>>
-----------------------------------------------------------------------------
Goto(f, pc) == [frame EXCEPT ![f].pc = pc]

Reply(f, j) == [frame EXCEPT ![f] = [@ EXCEPT !.pc = "reply", !.job = j]]

\* Claim takes the channel of the next notify before it looks at the table.
Subscribe(f) ==
    /\ frame[f].pc = "subscribe"
    /\ frame' = [frame EXCEPT ![f] = [@ EXCEPT !.pc = "sweep", !.woken = FALSE]]
    /\ UNCHANGED <<tableVars, enq, faults>>

Overdue(j) == st[j] = "processing" /\ age[j] > VisibilityTimeout

\* Slip: claimed_at is not compared with the visibility timeout.
sweepEveryClaim(f) ==
    /\ frame[f].pc = "sweep"
    /\ st' = [j \in Jobs |-> IF st[j] = "processing" THEN "pending" ELSE st[j]]
    /\ age' = [j \in Jobs |-> IF st[j] = "processing" THEN 0 ELSE age[j]]
    /\ frame' = Goto(f, "select")
    /\ UNCHANGED <<attempts, born, enq, faults>>

\* sweepExpired: stale claims go back to pending.  An error ends the Claim.
sweepExpired(f) ==
    /\ frame[f].pc = "sweep"
    /\ \/ /\ st' = [j \in Jobs |-> IF Overdue(j) THEN "pending" ELSE st[j]]
          /\ age' = [j \in Jobs |-> IF Overdue(j) THEN 0 ELSE age[j]]
          /\ frame' = Goto(f, "select")
          /\ UNCHANGED faults
       \/ /\ Fault("db")
          /\ frame' = Reply(f, NoJob)
          /\ UNCHANGED <<st, age>>
    /\ UNCHANGED <<attempts, born, enq>>

\* Slips: attempt_count is not compared, or off by one.
ClaimableAnyAttempt == Pending \ Locked
ClaimableOffByOne == {j \in Pending \ Locked : attempts[j] + 1 < MaxAttempts[j]}

\* The rows the SELECT of tryClaimOne may take: SKIP LOCKED passes over the others.
Claimable == {j \in Pending \ Locked : attempts[j] < MaxAttempts[j]}

Oldest(j, S) == j \in S /\ \A k \in S : born[j] <= born[k]

\* Slip: the SELECT does not lock the row it takes.
tryClaimOneUnlocked(f) ==
    /\ frame[f].pc = "select"
    /\ \/ /\ \E j \in Jobs : /\ Oldest(j, {k \in Pending : attempts[k] < MaxAttempts[k]})
                             /\ frame' = [frame EXCEPT ![f] = [@ EXCEPT !.pc = "commit", !.job = j]]
          /\ UNCHANGED faults
       \/ /\ Claimable = {}
          /\ frame' = Goto(f, "wait")
          /\ UNCHANGED faults
       \/ /\ Fault("db")
          /\ frame' = Reply(f, NoJob)
    /\ UNCHANGED <<tableVars, enq>>

\* tryClaimOne locks the oldest claimable row, or finds none and waits ...
tryClaimOne(f) ==
    /\ frame[f].pc = "select"
    /\ \/ /\ \E j \in Jobs : /\ Oldest(j, Claimable)
                             /\ frame' = [frame EXCEPT ![f] = [@ EXCEPT !.pc = "commit", !.job = j]]
          /\ UNCHANGED faults
       \/ /\ Claimable = {}
          /\ frame' = Goto(f, "wait")
          /\ UNCHANGED faults
       \/ /\ Fault("db")
          /\ frame' = Reply(f, NoJob)
    /\ UNCHANGED <<tableVars, enq>>

\* ... and marks it processing.  After a commit error nobody knows whether it
\* took effect; the worker is told of no job.
CommitClaim(f) ==
    LET j == frame[f].job
        claimed == /\ st' = [st EXCEPT ![j] = "processing"]
                   /\ attempts' = [attempts EXCEPT ![j] = @ + 1]
                   /\ age' = [age EXCEPT ![j] = 0]
    IN  /\ frame[f].pc = "commit"
        /\ \/ claimed /\ frame' = Reply(f, j) /\ UNCHANGED faults
           \/ Fault("db") /\ claimed /\ frame' = Reply(f, NoJob)
           \/ Fault("db") /\ frame' = Reply(f, NoJob) /\ UNCHANGED <<st, attempts, age>>
        /\ UNCHANGED <<born, enq>>

\* The channel was closed: look again.
Wake(f) ==
    /\ frame[f].pc = "wait"
    /\ frame[f].woken
    /\ frame' = Goto(f, "subscribe")
    /\ UNCHANGED <<tableVars, enq, faults>>

\* The long poll ends with no job.
LongPollTimeout(f) ==
    /\ frame[f].pc = "wait"
    /\ frame' = Reply(f, NoJob)
    /\ UNCHANGED <<tableVars, enq, faults>>

\* The server notices that the worker has hung up: the context is cancelled, a
\* transaction is rolled back, a reply goes nowhere.
FrameAborts(f) ==
    /\ frame[f].pc # "free"
    /\ frame[f].peer = NoWorker
    /\ frame' = [frame EXCEPT ![f] = FreeFrame]
    /\ UNCHANGED <<tableVars, enq, faults>>

ClaimStep(f) ==
    \/ Subscribe(f)
    \/ sweepExpired(f)
    \/ tryClaimOne(f)
    \/ CommitClaim(f)
    \/ Wake(f)
    \/ LongPollTimeout(f)
    \/ FrameAborts(f)

EnqueueStep(j) == CountPending(j) \/ Enqueue(j) \/ notify(j)

\* The relay process restarts: its calls and its signal are gone, the table is not.
RelayRestart ==
    /\ Fault("restart")
    /\ frame' = [f \in Frames |-> FreeFrame]
    /\ enq' = [j \in Jobs |-> CASE enq[j] = "counted" -> "none"
                                [] enq[j] = "notify" -> "done"
                                [] OTHER -> enq[j]]
    /\ UNCHANGED tableVars

StoreStep ==
    \/ \E j \in Jobs : EnqueueStep(j) \/ CancelPending(j) \/ PurgeExpired(j)
    \/ \E f \in Frames : ClaimStep(f)
    \/ RelayRestart

\* Slip: Ack does not look at the status.
AckRowAnyStatus(j, r) == st' = [st EXCEPT ![j] = IF st[j] \in {"absent", "gone"} THEN @ ELSE r]

\* Ack: WHERE status = 'processing', whichever attempt the ack is from.
AckRow(j, r) == st' = [st EXCEPT ![j] = IF st[j] = "processing" THEN r ELSE @]
=============================================================================
