----------------------------- MODULE TtlSweeper -----------------------------
(***************************************************************************)
(* internal/railwayq/ttl.go and the finishTracker of wake.go: how the      *)
(* relay purges finished jobs without querying an idle database.  Ack      *)
(* notes each finish time in memory; the sweeper queries only when the     *)
(* oldest noted one has passed its TTL.                                    *)
(*                                                                         *)
(* Time is relative: age[j] is how long ago job j finished and an older    *)
(* finish time is a larger age.  Ages stop at MaxAge, beyond which the     *)
(* code cannot tell them apart.  One action is one critical section of the *)
(* tracker or one database statement.                                      *)
(***************************************************************************)
EXTENDS Integers, FiniteSets

CONSTANTS Jobs,
          TTL,        \* RESULT_TTL_SECONDS, in clock ticks
          MaxAge,     \* bound on ages
          DBMayFail,  \* TRUE: a statement may return an error
          MaxRestarts \* bound on relay restarts

ASSUME TTLAssumption ==
    /\ TTL \in Nat
    /\ MaxAge \in Nat
    /\ MaxAge > TTL
    /\ DBMayFail \in BOOLEAN
    /\ MaxRestarts \in Nat

VARIABLES row,      \* "open" (not terminal), "finished" (done or failed), "purged"
          ack,      \* the Ack call that finishes the job
          age,      \* time since that call read the clock
          tracker,  \* age of finishTracker.oldest, Unset when it is zero
          sweeper,  \* where the sweeper goroutine is
          oldest,   \* its local variable of that name (or next), as an age
          restarts  \* relay restarts so far

ttlVars == <<row, ack, age, tracker, sweeper, oldest, restarts>>

Unset == -1

Ages == 0..MaxAge

TtlTypeOK ==
    /\ row \in [Jobs -> {"open", "finished", "purged"}]
    /\ ack \in [Jobs -> {"none", "stamped", "unrecorded", "returned", "lost"}]
    /\ age \in [Jobs -> Ages]
    /\ tracker \in Ages \cup {Unset}
    /\ sweeper \in {"startup", "startupFound", "tick", "due", "purge", "lookup", "found"}
    /\ oldest \in Ages \cup {Unset}
    /\ restarts \in 0..MaxRestarts

TtlInit ==
    /\ row = [j \in Jobs |-> "open"]
    /\ ack = [j \in Jobs |-> "none"]
    /\ age = [j \in Jobs |-> 0]
    /\ tracker = Unset
    /\ sweeper = "startup"
    /\ oldest = Unset
    /\ restarts = 0
-----------------------------------------------------------------------------
Older(a, b) == IF a > b THEN a ELSE b

\* finishTracker.record: keep the earlier of the two finish times.
record(a) == tracker' = Older(tracker, a)

\* Slip: the zero time stands for "due".
DueNowZero == MaxAge + 1

\* time.Now().Add(-ttl): due at once.
DueNow == TTL

\* Ack reads the clock ...
AckStamp(j) ==
    /\ ack[j] = "none"
    /\ row[j] = "open"
    /\ ack' = [ack EXCEPT ![j] = "stamped"]
    /\ age' = [age EXCEPT ![j] = 0]
    /\ UNCHANGED <<row, tracker, sweeper, oldest, restarts>>

\* Slip: the finish time is never noted.
AckUpdateUnrecorded(j) ==
    /\ ack[j] = "stamped"
    /\ row' = [row EXCEPT ![j] = "finished"]
    /\ ack' = [ack EXCEPT ![j] = "returned"]
    /\ UNCHANGED <<age, tracker, sweeper, oldest, restarts>>

\* ... writes status and finished_at.  An error skips the tracker, also when the
\* UPDATE had committed: a repeated ack finds no processing row and notes nothing.
AckUpdate(j) ==
    /\ ack[j] = "stamped"
    /\ \/ /\ row' = [row EXCEPT ![j] = "finished"]
          /\ ack' = [ack EXCEPT ![j] = "unrecorded"]
       \/ /\ DBMayFail
          /\ row' = [row EXCEPT ![j] = "finished"]
          /\ ack' = [ack EXCEPT ![j] = "lost"]
       \/ /\ DBMayFail
          /\ ack' = [ack EXCEPT ![j] = "none"]
          /\ UNCHANGED row
    /\ UNCHANGED <<age, tracker, sweeper, oldest, restarts>>

\* Ack notes the finish time.
AckRecord(j) ==
    /\ ack[j] = "unrecorded"
    /\ record(age[j])
    /\ ack' = [ack EXCEPT ![j] = "returned"]
    /\ UNCHANGED <<row, age, sweeper, oldest, restarts>>
-----------------------------------------------------------------------------
Finished == {j \in Jobs : row[j] = "finished"}

\* OldestFinishedAt answers a: Unset when no finished row is left.
OldestFinishedAt(a) ==
    \/ Finished = {} /\ a = Unset
    \/ \E j \in Finished : a = age[j] /\ \A k \in Finished : age[k] <= a

\* checkAtStartup and the end of sweepIfDue ask for the oldest finished row; a
\* failed lookup counts as due.
Lookup(from, to) ==
    /\ sweeper = from
    /\ \/ /\ oldest' \in Ages \cup {Unset}
          /\ OldestFinishedAt(oldest')
          /\ sweeper' = to
          /\ UNCHANGED tracker
       \/ /\ DBMayFail
          /\ record(DueNow)
          /\ sweeper' = "tick"
          /\ oldest' = Unset
    /\ UNCHANGED <<row, ack, age, restarts>>

StartupLookup == Lookup("startup", "startupFound")

SweepLookup == Lookup("lookup", "found")

\* A row was found: note it (Unset never displaces a noted time).  At startup
\* the first tick's check follows at once; it is an ordinary tick here.
RecordFound ==
    /\ sweeper \in {"startupFound", "found"}
    /\ record(oldest)
    /\ sweeper' = "tick"
    /\ oldest' = Unset
    /\ UNCHANGED <<row, ack, age, restarts>>

\* sweepIfDue: peek, and return unless the oldest noted job has expired ...
SweepPeek ==
    /\ sweeper = "tick"
    /\ tracker >= TTL
    /\ oldest' = tracker
    /\ sweeper' = "due"
    /\ UNCHANGED <<row, ack, age, tracker, restarts>>

\* ... then take, in a critical section of its own ...
SweepTake ==
    /\ sweeper = "due"
    /\ tracker' = Unset
    /\ sweeper' = "purge"
    /\ UNCHANGED <<row, ack, age, oldest, restarts>>

\* Slip: a failed purge is not tried again.
PurgeExpiredForget ==
    /\ sweeper = "purge"
    /\ \/ /\ row' = [j \in Jobs |-> IF row[j] = "finished" /\ age[j] > TTL
                                    THEN "purged" ELSE row[j]]
          /\ sweeper' = "lookup"
       \/ /\ DBMayFail
          /\ sweeper' = "tick"
          /\ UNCHANGED row
    /\ oldest' = Unset
    /\ UNCHANGED <<ack, age, tracker, restarts>>

\* ... then delete every row strictly older than the TTL; after an error the
\* time peeked at the start is noted again.
PurgeExpired ==
    /\ sweeper = "purge"
    /\ \/ /\ row' = [j \in Jobs |-> IF row[j] = "finished" /\ age[j] > TTL
                                    THEN "purged" ELSE row[j]]
          /\ sweeper' = "lookup"
          /\ UNCHANGED tracker
       \/ /\ DBMayFail
          /\ record(oldest)
          /\ sweeper' = "tick"
          /\ UNCHANGED row
    /\ oldest' = Unset
    /\ UNCHANGED <<ack, age, restarts>>
-----------------------------------------------------------------------------
Aged(a) == IF a = Unset \/ a = MaxAge THEN a ELSE a + 1

\* Time passes.
ClockTick ==
    /\ age' = [j \in Jobs |-> Aged(age[j])]
    /\ tracker' = Aged(tracker)
    /\ oldest' = Aged(oldest)
    /\ UNCHANGED <<row, ack, sweeper, restarts>>

\* The relay process restarts: its memory is gone, the table is not.
Restart ==
    /\ restarts < MaxRestarts
    /\ restarts' = restarts + 1
    /\ tracker' = Unset
    /\ oldest' = Unset
    /\ sweeper' = "startup"
    /\ ack' = [j \in Jobs |-> IF row[j] = "open" THEN "none" ELSE "returned"]
    /\ UNCHANGED <<row, age>>

AckStep(j) == AckUpdate(j) \/ AckRecord(j)

SweepStep == StartupLookup \/ RecordFound \/ SweepPeek \/ SweepTake \/ PurgeExpired \/ SweepLookup

TtlNext ==
    \/ \E j \in Jobs : AckStamp(j) \/ AckStep(j)
    \/ SweepStep
    \/ ClockTick
    \/ Restart

TtlSpec == TtlInit /\ [][TtlNext]_ttlVars

\* Handlers and the sweeper run, the clock advances, and a database that is
\* asked again and again answers in the end.
TtlFairSpec ==
    /\ TtlSpec
    /\ \A j \in Jobs : WF_ttlVars(AckStep(j))
    /\ WF_ttlVars(SweepStep)
    /\ SF_ttlVars(PurgeExpired /\ sweeper' = "lookup")
    /\ WF_ttlVars(ClockTick)
-----------------------------------------------------------------------------
(***************************************************************************)
(* Properties                                                              *)
(***************************************************************************)

\* The noted time `a` makes the sweeper look no later than job j expires.
Covers(a, j) == a >= age[j] \/ a >= TTL

\* No finished row is forgotten: the tracker makes the next sweep due in time,
\* or its Ack is about to note it, or the sweeper is about to look or has just
\* found a row at least as old.  wake.go: the tracker is "the earliest
\* finished_at that may still be in the jobs table".  The exception is a row
\* whose UPDATE committed with an error, until the relay restarts.
Tracked ==
    \A j \in Jobs : row[j] = "finished" /\ ack[j] # "lost" =>
        \/ Covers(tracker, j)
        \/ ack[j] = "unrecorded"
        \/ sweeper \in {"startup", "purge", "lookup"}
        \/ sweeper \in {"startupFound", "found"} /\ Covers(oldest, j)

\* The sweeper retries a failed purge of something that is really due.
DueWhenPurging == sweeper \in {"due", "purge"} => oldest >= TTL

\* Every such row is purged in the end, across failing queries and relay
\* restarts (ttl.go: "a purge runs at most one interval after it falls due").
EventuallyPurged ==
    \A j \in Jobs : row[j] = "finished" /\ ack[j] # "lost" ~> row[j] = "purged"

\* The inductive invariant.
TtlIInv == TtlTypeOK /\ Tracked /\ DueWhenPurging
=============================================================================
