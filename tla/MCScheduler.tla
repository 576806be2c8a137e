---------------------------- MODULE MCScheduler ----------------------------
(* Small instances of Scheduler. *)
EXTENDS Scheduler

CONSTANTS N, LastBestOf, SharedSequenceId

(* Requests 1..N; the last ones ask for two candidates and so are swapped *)
MCRequests == 1..N

MCBestOf == [r \in 1..N |-> IF r > N - LastBestOf THEN 2 ELSE 1]

MCSequenceId == [r \in 1..N |-> IF SharedSequenceId THEN 0 ELSE r]

=============================================================================
