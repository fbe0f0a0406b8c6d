--------------------------- MODULE BatchContract ---------------------------
(***************************************************************************)
(* What WorkerPool::process_jobs promises, with no threads in sight: every *)
(* job ends with exactly one outcome, which then never changes; only a     *)
(* cancelled batch skips a job, and it starts none after that; the call    *)
(* returns when every job has its outcome.                                 *)
(***************************************************************************)
EXTENDS Naturals

CONSTANTS NumJobs, None

VARIABLES cancelled,    \* the batch has been told to stop
          ran,          \* the jobs whose operation was called
          outcome,      \* the outcome of each job, None while it has none
          returned      \* the call has returned

vars == <<cancelled, ran, outcome, returned>>
Jobs == 1..NumJobs

Init ==
    /\ cancelled \in BOOLEAN
    /\ ran = {}
    /\ outcome = [j \in Jobs |-> None]
    /\ returned = FALSE

\* A stop_on_error failure, a dead pool or a caller cancels the batch.
Stop ==
    /\ cancelled' = TRUE
    /\ UNCHANGED <<ran, outcome, returned>>

Run(j) ==
    /\ ~cancelled /\ j \notin ran /\ outcome[j] = None
    /\ ran' = ran \cup {j}
    /\ UNCHANGED <<cancelled, outcome, returned>>

Settle(j) ==
    /\ outcome[j] = None
    /\ \E r \in {"Success", "Failed", "Cancelled"} :
         /\ r = "Success" => j \in ran
         /\ r = "Cancelled" => cancelled /\ j \notin ran
         /\ outcome' = [outcome EXCEPT ![j] = r]
    /\ UNCHANGED <<cancelled, ran, returned>>

Return ==
    /\ \A j \in Jobs : outcome[j] # None
    /\ returned' = TRUE
    /\ UNCHANGED <<cancelled, ran, outcome>>

Next ==
    \/ ~returned /\ (Stop \/ \E j \in Jobs : Run(j) \/ Settle(j))
    \/ Return

Spec == Init /\ [][Next]_vars
=============================================================================
