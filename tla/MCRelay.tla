------------------------------ MODULE MCRelay ------------------------------
(* Small instances of RelayWorker. *)
EXTENDS RelayWorker, TLC

\* Every job may be claimed once, twice, three times.
MCOneAttempt == [j \in Jobs |-> 1]
MCTwoAttempts == [j \in Jobs |-> 2]
MCThreeAttempts == [j \in Jobs |-> 3]

Interchangeable == Permutations(Jobs) \cup Permutations(Frames)
=============================================================================
