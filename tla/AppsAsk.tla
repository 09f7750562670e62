------------------------------ MODULE AppsAsk ------------------------------
(***************************************************************************)
(* internal/railwayq/ask.go: POST /apps/ask for one app, together with     *)
(* what it shares with the rest of the relay: the app's daily usage        *)
(* (which its secret-key /enqueue calls also count), the jobs table, the   *)
(* presence of the PC and the knowledge source of internal/apps.           *)
(*                                                                         *)
(* One action is one database statement, one critical section or one wait. *)
(* The token buckets (per visitor, per app) may refuse at any time.  A     *)
(* visitor who leaves cancels the request's context: every statement made  *)
(* with it may then fail, with or without having taken effect.             *)
(***************************************************************************)
EXTENDS Integers, FiniteSets

CONSTANTS Questions,           \* calls of /apps/ask
          Visitors,            \* hashed client addresses
          VisitorOf,           \* who asks each question
          Enqueues,            \* /enqueue calls with the app's secret key
          PerDay,              \* per_day
          MaxConcurrent,       \* max_concurrent
          VisitorPerDay,       \* visitor_per_day
          HostedVisitorPerDay, \* hosted_visitor_per_day
          DBMayFail,           \* TRUE: a statement may return an error
          MaxDay,              \* bound on days
          MaxRestarts          \* bound on relay restarts

ASSUME AskAssumption ==
    /\ IsFiniteSet(Questions)
    /\ IsFiniteSet(Enqueues)
    /\ VisitorOf \in [Questions -> Visitors]
    /\ {PerDay, MaxConcurrent} \subseteq Nat \ {0}
    /\ {VisitorPerDay, HostedVisitorPerDay, MaxDay, MaxRestarts} \subseteq Nat
    /\ DBMayFail \in BOOLEAN

VARIABLES ask,      \* the handler of each question
          enq,      \* the handler of each /enqueue call
          row,      \* the question's row in the jobs table
          usage,    \* the app's usage row of the current day
          running,  \* inFlight.n of the app
          seen,     \* askVisitors.seen
          know,     \* the knowledge source
          online,   \* pcPresence.online
          fallback, \* a hosted model is configured
          day,      \* the UTC day
          restarts  \* relay restarts so far

askVars == <<ask, enq, row, usage, running, seen, know, online, fallback, day, restarts>>

NoDay == -1

Days == 0..MaxDay

Paths == {"pc", "hosted"}

NewAsk == [pc |-> "new", path |-> "pc", stamp |-> NoDay, late |-> FALSE,
           counted |-> FALSE, left |-> FALSE, reply |-> "none"]

NewVisitor(d) == [day |-> d, pc |-> 0, hosted |-> 0]

Places == {"new", "lookup", "allow", "knowledge", "acquire", "usage", "insert",
           "count", "wait", "cancel", "hostedCount", "hosted", "end"}

Replies == {"none", "refused", "error", "answered", "failed", "busy", "timeout", "unsure"}

AskRecords == [pc : Places, path : Paths, stamp : Days \cup {NoDay}, late : BOOLEAN,
               counted : BOOLEAN, left : BOOLEAN, reply : Replies]

AskTypeOK ==
    /\ ask \in [Questions -> AskRecords]
    /\ enq \in [Enqueues -> {"new", "insert", "count", "end"}]
    /\ row \in [Questions -> {"none", "pending", "processing", "done", "failed",
                              "spent", "withdrawn"}]
    /\ usage \in Nat
    /\ running \in 0..MaxConcurrent
    /\ seen \in [Visitors -> [day : Days \cup {NoDay}, pc : 0..VisitorPerDay,
                              hosted : 0..HostedVisitorPerDay]]
    /\ know \in {"absent", "fetching", "failed", "loaded"}
    /\ {online, fallback} \subseteq BOOLEAN
    /\ day \in Days
    /\ restarts \in 0..MaxRestarts

AskInit ==
    /\ ask = [q \in Questions |-> NewAsk]
    /\ enq = [e \in Enqueues |-> "new"]
    /\ row = [q \in Questions |-> "none"]
    /\ usage = 0
    /\ running = 0
    /\ seen = [v \in Visitors |-> NewVisitor(NoDay)]
    /\ know = "absent"
    /\ online = FALSE
    /\ fallback \in BOOLEAN
    /\ day = 0
    /\ restarts = 0
-----------------------------------------------------------------------------
At(q, s) == ask[q].pc = s

Goto(q, s) == ask' = [ask EXCEPT ![q].pc = s]

\* The handler returns; whoever has left reads nothing.
Reply(q, r) ==
    ask' = [ask EXCEPT ![q].pc = "end",
                       ![q].reply = IF ask[q].left THEN "none" ELSE r]

\* The states in which the handler holds a slot of inFlight.
SlotStates == {"usage", "insert", "count", "wait", "cancel", "hostedCount", "hosted"}

Holding == {q \in Questions : ask[q].pc \in SlotStates}

\* The handler returns and its deferred release runs.
ReplyRelease(q, r) == Reply(q, r) /\ running' = running - 1

\* A statement made with the request's context may fail.
Fails(q) == DBMayFail \/ ask[q].left

env == <<know, online, fallback, day, restarts>>
-----------------------------------------------------------------------------
(***************************************************************************)
(* handleAsk up to the slot                                                *)
(***************************************************************************)

\* The PC's presence is read once and decides who answers.
AskStart(q) ==
    /\ At(q, "new")
    /\ \/ /\ online \/ fallback
          /\ ask' = [ask EXCEPT ![q].pc = "lookup",
                                ![q].path = IF online THEN "pc" ELSE "hosted"]
       \/ ~online /\ ~fallback /\ Reply(q, "refused")
    /\ UNCHANGED <<enq, row, usage, running, seen, env>>

\* LookupKey, the origin check and validateAsk; then the clock is read for allow.
AskLookup(q) ==
    /\ At(q, "lookup")
    /\ \/ ask' = [ask EXCEPT ![q].pc = "allow", ![q].stamp = day]
       \/ Reply(q, "refused")
       \/ Fails(q) /\ Reply(q, "error")
    /\ UNCHANGED <<enq, row, usage, running, seen, env>>

\* The visitor's entry for day d; one from another day is replaced.
CurrentEntry(v, d) == IF seen[v].day # d THEN NewVisitor(d) ELSE seen[v]

UnderLimit(e, path) ==
    IF path = "hosted" THEN e.hosted < HostedVisitorPerDay ELSE e.pc < VisitorPerDay

\* Slip: every question is counted as the PC's.
CountedOnPC(e, path) == [e EXCEPT !.pc = @ + 1]

Counted(e, path) ==
    IF path = "hosted" THEN [e EXCEPT !.hosted = @ + 1] ELSE [e EXCEPT !.pc = @ + 1]

\* What the sweep leaves: the entries of the caller's day.
Swept(d) == [v \in Visitors |-> IF seen[v].day = d THEN seen[v] ELSE NewVisitor(NoDay)]

\* askVisitors.allow: every ten minutes a sweep, then the visitor's daily count
\* and bucket.
allow(q) ==
    LET v == VisitorOf[q]
        d == ask[q].stamp
        e == CurrentEntry(v, d)
    IN  /\ At(q, "allow")
        /\ \E base \in {seen, Swept(d)} :
             \/ /\ UnderLimit(e, ask[q].path)
                /\ seen' = [base EXCEPT ![v] = Counted(e, ask[q].path)]
                /\ ask' = [ask EXCEPT ![q].pc = "knowledge", ![q].counted = TRUE,
                                      ![q].late = (d # day)]
             \/ /\ seen' = [base EXCEPT ![v] = e]
                /\ ask' = [ask EXCEPT ![q].pc = "end", ![q].late = (d # day),
                             ![q].reply = IF ask[q].left THEN "none" ELSE "refused"]
        /\ UNCHANGED <<enq, row, usage, running, env>>

\* Registry.Index: the first question starts the source; a question waits for
\* the first fetch, for at most knowledgeWait.
AskKnowledge(q) ==
    /\ At(q, "knowledge")
    /\ know' = IF know = "absent" THEN "fetching" ELSE know
    /\ \/ know = "loaded" /\ Goto(q, "acquire")
       \/ know # "loaded" /\ Reply(q, "refused")
       \/ know = "absent" /\ UNCHANGED ask
    /\ UNCHANGED <<enq, row, usage, running, seen, online, fallback, day, restarts>>

\* Source.Refresh ends; a failed one keeps the index there is.
Refresh ==
    /\ know # "absent"
    /\ know' \in {"loaded", IF know = "fetching" THEN "failed" ELSE know}
    /\ UNCHANGED <<ask, enq, row, usage, running, seen, online, fallback, day, restarts>>

\* Slip: the count is compared before it is raised.
AcquireOffByOne == running <= MaxConcurrent

MayAcquire == running < MaxConcurrent

\* The app's bucket, then inFlight.acquire.
AskAcquire(q) ==
    /\ At(q, "acquire")
    /\ \/ MayAcquire /\ Goto(q, "usage") /\ running' = running + 1
       \/ Reply(q, "refused") /\ UNCHANGED running
    /\ UNCHANGED <<enq, row, usage, seen, env>>
-----------------------------------------------------------------------------
(***************************************************************************)
(* With a slot                                                             *)
(***************************************************************************)

\* Slip: the daily cap is checked with > instead of >=.
UnderQuotaOrAt == usage <= PerDay

UnderQuota == usage < PerDay

AskUsage(q) ==
    /\ At(q, "usage")
    /\ \/ /\ UnderQuota
          /\ Goto(q, IF ask[q].path = "pc" THEN "insert" ELSE "hostedCount")
          /\ UNCHANGED running
       \/ ~UnderQuota /\ ReplyRelease(q, "refused")
       \/ Fails(q) /\ ReplyRelease(q, "error")
    /\ UNCHANGED <<enq, row, usage, seen, env>>

\* dbAskStore.Enqueue, first the row (max_attempts 1) ...
AskInsert(q) ==
    /\ At(q, "insert")
    /\ \/ /\ row' = [row EXCEPT ![q] = "pending"]
          /\ Goto(q, "count")
          /\ UNCHANGED running
       \/ /\ Fails(q)
          /\ row' \in {row, [row EXCEPT ![q] = "pending"]}
          /\ ReplyRelease(q, "error")
    /\ UNCHANGED <<enq, usage, seen, env>>

\* ... then the usage row.  An error ends the handler; the row stays.
AskCount(q) ==
    /\ At(q, "count")
    /\ \/ usage' = usage + 1 /\ Goto(q, "wait") /\ UNCHANGED running
       \/ Fails(q) /\ usage' \in {usage, usage + 1} /\ ReplyRelease(q, "error")
    /\ UNCHANGED <<enq, row, seen, env>>

\* waitForResult polls the row; a result may be unreadable ...
AskResult(q) ==
    /\ At(q, "wait")
    /\ \/ row[q] = "done" /\ \E r \in {"answered", "error"} : ReplyRelease(q, r)
       \/ row[q] = "failed" /\ ReplyRelease(q, "failed")
    /\ UNCHANGED <<enq, row, usage, seen, env>>

\* ... until wait_seconds are over, the visitor leaves or a poll fails.
AskGivesUp(q) ==
    /\ At(q, "wait")
    /\ Goto(q, "cancel")
    /\ UNCHANGED <<enq, row, usage, running, seen, env>>

\* The row as DELETE ... WHERE status = 'pending' leaves it: one whose only attempt
\* is used up ("spent") has that status too.
Withdrawn(q) ==
    IF row[q] \in {"pending", "spent"} THEN [row EXCEPT ![q] = "withdrawn"] ELSE row

\* Slip: the reply does not ask whether a row was deleted.
AskCancelAlwaysBusy(q) ==
    /\ At(q, "cancel")
    /\ row' = Withdrawn(q)
    /\ ReplyRelease(q, "busy")
    /\ UNCHANGED <<enq, usage, seen, env>>

\* CancelPending, with a context of its own: delete the row unless it is claimed.
\* After an error of the database the visitor reads the reply of a timeout, here
\* "unsure".
AskCancel(q) ==
    /\ At(q, "cancel")
    /\ \/ /\ row[q] \in {"pending", "spent"}
          /\ row' = Withdrawn(q)
          /\ ReplyRelease(q, "busy")
       \/ /\ row[q] \notin {"pending", "spent"}
          /\ ReplyRelease(q, "timeout")
          /\ UNCHANGED row
       \/ /\ DBMayFail
          /\ row' \in {row, Withdrawn(q)}
          /\ ReplyRelease(q, "unsure")
    /\ UNCHANGED <<enq, usage, seen, env>>

\* answerHosted: count first ...
HostedCount(q) ==
    /\ At(q, "hostedCount")
    /\ \/ usage' = usage + 1 /\ Goto(q, "hosted") /\ UNCHANGED running
       \/ Fails(q) /\ usage' \in {usage, usage + 1} /\ ReplyRelease(q, "error")
    /\ UNCHANGED <<enq, row, seen, env>>

\* ... then one attempt within wait_seconds.
HostedAnswer(q) ==
    /\ At(q, "hosted")
    /\ \E r \in {"answered", "error"} : ReplyRelease(q, r)
    /\ UNCHANGED <<enq, row, usage, seen, env>>

VisitorLeaves(q) ==
    /\ ask[q].pc \notin {"new", "end"}
    /\ ~ask[q].left
    /\ ask' = [ask EXCEPT ![q].left = TRUE]
    /\ UNCHANGED <<enq, row, usage, running, seen, env>>
-----------------------------------------------------------------------------
(***************************************************************************)
(* The rest of the relay                                                   *)
(***************************************************************************)

\* identityMiddleware's limits for /enqueue with the app's secret key.
EnqueueCheck(e) ==
    /\ enq[e] = "new"
    /\ \/ UnderQuota /\ enq' = [enq EXCEPT ![e] = "insert"]
       \/ enq' = [enq EXCEPT ![e] = "end"]
    /\ UNCHANGED <<ask, row, usage, running, seen, env>>

\* handleEnqueue inserts a job of no interest here ...
EnqueueInsert(e) ==
    /\ enq[e] = "insert"
    /\ \E s \in {"count", "end"} : enq' = [enq EXCEPT ![e] = s]
    /\ UNCHANGED <<ask, row, usage, running, seen, env>>

\* ... and counts it, or misses to.
EnqueueCount(e) ==
    /\ enq[e] = "count"
    /\ enq' = [enq EXCEPT ![e] = "end"]
    /\ usage' \in {usage, usage + 1}
    /\ UNCHANGED <<ask, row, running, seen, env>>

\* The PC polls /claim and is online, or has not been heard of for a minute.
Presence ==
    /\ online' = ~online
    /\ UNCHANGED <<ask, enq, row, usage, running, seen, know, fallback, day, restarts>>

\* The PC claims the job, and acks it; either request says that it is online.
Claim(q) ==
    /\ row[q] = "pending"
    /\ online
    /\ row' = [row EXCEPT ![q] = "processing"]
    /\ UNCHANGED <<ask, enq, usage, running, seen, env>>

Ack(q) ==
    /\ row[q] = "processing"
    /\ \E r \in {"done", "failed"} : row' = [row EXCEPT ![q] = r]
    /\ online' = TRUE
    /\ UNCHANGED <<ask, enq, usage, running, seen, know, fallback, day, restarts>>

\* The visibility timeout returns a row that has used its only attempt: no claim
\* takes it again.  wait_seconds has no upper bound, so the handler may be waiting.
Requeue(q) ==
    /\ row[q] = "processing"
    /\ row' = [row EXCEPT ![q] = "spent"]
    /\ UNCHANGED <<ask, enq, usage, running, seen, env>>

\* A new UTC day has no usage row yet.
Midnight ==
    /\ day < MaxDay
    /\ day' = day + 1
    /\ usage' = 0
    /\ UNCHANGED <<ask, enq, row, running, seen, know, online, fallback, restarts>>

\* The relay restarts: everything in memory is forgotten.
Restart ==
    /\ restarts < MaxRestarts
    /\ restarts' = restarts + 1
    /\ ask' = [q \in Questions |->
                 IF At(q, "new") THEN ask[q]
                 ELSE [ask[q] EXCEPT !.pc = "end", !.stamp = NoDay, !.counted = FALSE]]
    /\ enq' = [e \in Enqueues |-> IF enq[e] = "new" THEN "new" ELSE "end"]
    /\ running' = 0
    /\ seen' = [v \in Visitors |-> NewVisitor(NoDay)]
    /\ know' = "absent"
    /\ online' = FALSE
    /\ UNCHANGED <<row, usage, fallback, day>>

AskStep(q) ==
    \/ AskStart(q) \/ AskLookup(q) \/ allow(q) \/ AskKnowledge(q) \/ AskAcquire(q)
    \/ AskUsage(q) \/ AskInsert(q) \/ AskCount(q) \/ AskResult(q) \/ AskGivesUp(q)
    \/ AskCancel(q) \/ HostedCount(q) \/ HostedAnswer(q) \/ VisitorLeaves(q)

RowStep(q) == Claim(q) \/ Ack(q) \/ Requeue(q)

EnqueueStep(e) == EnqueueCheck(e) \/ EnqueueInsert(e) \/ EnqueueCount(e)

AskNext ==
    \/ \E q \in Questions : AskStep(q) \/ RowStep(q)
    \/ \E e \in Enqueues : EnqueueStep(e)
    \/ Refresh
    \/ Presence
    \/ Midnight
    \/ Restart

AskSpec == AskInit /\ [][AskNext]_askVars
-----------------------------------------------------------------------------
(***************************************************************************)
(* Properties                                                              *)
(***************************************************************************)

\* The usage check and the count that follows it are two statements, and yet the
\* daily cap is overshot by no more than the calls that can be between the two:
\* max_concurrent questions and the /enqueue calls at hand.
QuotaOvershootBounded == usage <= PerDay - 1 + MaxConcurrent + Cardinality(Enqueues)

\* A visitor is told what became of the job: "busy, try again" only when it was
\* withdrawn and will never run, an answer or a failure only when the row says
\* so, and a timeout never for a job that still waits to be claimed, unless the
\* database failed (ask.go: the reply follows CancelPending's result).
ReplyAgreesWithJob ==
    \A q \in Questions : ask[q].path = "pc" =>
        /\ ask[q].reply = "busy" => row[q] = "withdrawn"
        /\ ask[q].reply = "answered" => row[q] = "done"
        /\ ask[q].reply = "failed" => row[q] = "failed"
        /\ ask[q].reply = "timeout" => row[q] # "pending"

\* The questions of visitor v that were let through on a path on day d.
Admitted(v, d, path) ==
    {q \in Questions : /\ VisitorOf[q] = v
                       /\ ask[q].counted
                       /\ ask[q].stamp = d
                       /\ ask[q].path = path}

\* However questions interleave, and whichever of the PC and the hosted model
\* answers, a visitor gets no more than the two daily allowances (spec.go: "Answers
\* from the PC never use it up"), as long as no question is overtaken by midnight
\* between reading the clock and counting.
VisitorCapped ==
    (\A q \in Questions : ~ask[q].late) =>
        \A v \in Visitors, d \in Days :
            /\ Cardinality(Admitted(v, d, "pc")) <= VisitorPerDay
            /\ Cardinality(Admitted(v, d, "hosted")) <= HostedVisitorPerDay
-----------------------------------------------------------------------------
(***************************************************************************)
(* The inductive invariant behind QuotaOvershootBounded                    *)
(***************************************************************************)

\* Between the usage check and the count.
WindowStates == {"insert", "count", "hostedCount"}

Window == {q \in Questions : ask[q].pc \in WindowStates}

EnqueueWindow == {e \in Enqueues : enq[e] \in {"insert", "count"}}

\* Every path out of the handler releases the slot, once.
SlotsAccounted == running = Cardinality(Holding)

OvershootReserved ==
    usage + Cardinality(Window) + Cardinality(EnqueueWindow)
        <= PerDay - 1 + MaxConcurrent + Cardinality(Enqueues)

AskIInv == AskTypeOK /\ SlotsAccounted /\ OvershootReserved

(***************************************************************************)
(* ... behind ReplyAgreesWithJob                                           *)
(***************************************************************************)

\* Who has replied has ended, and only a hosted question reaches answerHosted.
ReplyWritten ==
    \A q \in Questions :
        /\ ask[q].reply # "none" => At(q, "end")
        /\ ask[q].pc \in {"hostedCount", "hosted"} => ask[q].path = "hosted"

ReplyIInv == AskIInv /\ ReplyWritten /\ ReplyAgreesWithJob
-----------------------------------------------------------------------------
(***************************************************************************)
(* ... and behind VisitorCapped                                            *)
(***************************************************************************)

OnTime == \A q \in Questions : ~ask[q].late

\* The clock is read before a question is counted, and is never ahead.
StampsPast ==
    /\ \A q \in Questions :
          /\ ask[q].stamp <= day
          /\ ask[q].counted \/ ask[q].late => ask[q].pc \notin {"new", "lookup", "allow"}
    /\ \A v \in Visitors : seen[v].day <= day

\* What visitor v may have been granted on day d: today, what the entry says.
Granted(v, d, path) ==
    LET today == IF seen[v].day = day THEN seen[v] ELSE NewVisitor(day)
    IN  IF path = "hosted" THEN (IF d = day THEN today.hosted ELSE HostedVisitorPerDay)
        ELSE (IF d = day THEN today.pc ELSE VisitorPerDay)

WithinGrant ==
    OnTime => \A v \in Visitors, d \in Days, path \in Paths :
                 Cardinality(Admitted(v, d, path)) <= Granted(v, d, path)

VisitorIInv == AskIInv /\ StampsPast /\ WithinGrant
=============================================================================
