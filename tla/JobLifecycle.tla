---------------------------- MODULE JobLifecycle ----------------------------
(***************************************************************************)
(* What the relay promises the owner of a job: an accepted job stays open  *)
(* until it is settled once, with one result, or withdrawn by its owner; a *)
(* settled result never changes until it expires, and a job that is gone   *)
(* never comes back.                                                       *)
(***************************************************************************)
CONSTANT Jobs

VARIABLE job

Results == {"done", "failed"}

Init == job = [j \in Jobs |-> "absent"]

Move(j, from, to) == job[j] \in from /\ job' = [job EXCEPT ![j] = to]

Accept(j) == Move(j, {"absent"}, "open")

Settle(j, r) == Move(j, {"open"}, r)

Withdraw(j) == Move(j, {"open"}, "gone")

Expire(j) == Move(j, Results, "gone")

Next ==
    \E j \in Jobs :
        \/ Accept(j)
        \/ \E r \in Results : Settle(j, r)
        \/ Withdraw(j)
        \/ Expire(j)

Spec == Init /\ [][Next]_job
=============================================================================
