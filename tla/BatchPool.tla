----------------------------- MODULE BatchPool -----------------------------
(***************************************************************************)
(* The batch worker pool of oxidize-pdf: WorkerPool::process_jobs and      *)
(* WorkerPool::shutdown, the worker threads they feed, the atomic counters *)
(* of BatchProgress and the progress thread of BatchProcessor::execute.    *)
(*                                                                         *)
(* One step is one access to shared memory: a lock, a channel operation,   *)
(* an atomic load, store or read-modify-write (all are SeqCst).  A job is  *)
(* its index; what its operation does is whether it ends in Ok, in Err     *)
(* (errors, caught panics and overrun time budgets alike) or in a panic    *)
(* that escapes catch_unwind and kills the thread.                         *)
(***************************************************************************)
EXTENDS Integers, Sequences, FiniteSets

CONSTANTS Workers,      \* the worker threads
          Main,         \* the thread that called process_jobs or shutdown
          NumJobs,      \* length of the job vector
          None

ASSUME WorkersAssumption == IsFiniteSet(Workers) /\ Workers # {} /\ Main \notin Workers
ASSUME NumJobsAssumption == NumJobs \in Nat
ASSUME NoneAssumption == None \notin Workers /\ None \notin {"Success", "Failed", "Cancelled"}

Jobs == 1..NumJobs
Actors == Workers \cup {Main}
Results == {"Success", "Failed", "Cancelled"}
Shutdown == 0           \* WorkerMessage::Shutdown; WorkerMessage::Job(j) is j

\* What the caller fixes: which call is made and with which options.
Options == [call : {"process", "shutdown"}, valid : BOOLEAN,
            stopOnError : BOOLEAN, timeout : {"none", "zero", "limit"}]

VARIABLES
    opts,
    cancelled,          \* the AtomicBool shared by caller, workers, monitor
    running, completed, failed,     \* BatchProgress; total_jobs is NumJobs
    queue, senderOpen,  \* the job channel and whether its Sender lives
    lock,               \* holder of the Mutex around the Receiver
    pc, job, outcome,   \* per thread: next step, job in hand, its outcome
    seen,               \* main's local in fail_unreported_job
    sent,               \* the result channel
    results,            \* the vector process_jobs returns
    ran,                \* jobs whose operation was called
    mon, info           \* progress thread: next step and its ProgressInfo

counters == <<running, completed, failed>>
monitor == <<mon, info>>
vars == <<opts, cancelled, counters, queue, senderOpen, lock, pc, job,
          outcome, seen, sent, results, ran, monitor>>

WorkerStates == {"lock", "recv", "start", "check", "run", "stop", "leave",
                 "count", "send", "exited"}
MainStates == {"shutdown", "dispatch", "start", "leave", "count", "send", "join",
               "drain", "collect", "load", "cas", "summary", "returned"}
MonitorStates == {"off", "check", "completed", "failed", "running", "report",
                  "parked", "exited"}

\* Where the call begins: an invalid pool goes straight to rejecting jobs.
FirstState ==
    IF opts.call = "shutdown" THEN "shutdown"
    ELSE IF opts.valid THEN "dispatch"
    ELSE IF NumJobs = 0 THEN "summary" ELSE "start"

\* The pool has been built; execute has validated its options (so an invalid
\* configuration is met only by a direct call of process_jobs, which has no
\* progress thread) and the caller may already have cancelled.
Init ==
    /\ opts \in Options
    /\ cancelled \in BOOLEAN
    /\ running = 0 /\ completed = 0 /\ failed = 0
    /\ queue = <<>> /\ senderOpen = TRUE /\ lock = None
    /\ pc = [a \in Actors |-> IF a = Main THEN FirstState
                              ELSE IF opts.valid THEN "lock" ELSE "exited"]
    /\ job = [a \in Actors |-> 1]
    /\ outcome = [a \in Actors |-> "Failed"]
    /\ seen = 0 /\ sent = {} /\ ran = {}
    /\ results = [j \in Jobs |-> None]
    /\ mon \in IF opts.valid /\ opts.call = "process" /\ NumJobs > 0
               THEN {"off", "check"} ELSE {"off"}
    /\ info = [completed |-> 0, failed |-> 0, running |-> 0]

Goto(a, state) == pc' = [pc EXCEPT ![a] = state]

\* Main's turn to the next job.
Advance(state) ==
    /\ job' = [job EXCEPT ![Main] = @ + 1]
    /\ Goto(Main, state)

(***************************************************************************)
(* Faulty variants of the steps below, one plausible slip each.  Nothing   *)
(* here is part of Next: each is put in the place of the step it names to  *)
(* see that a property notices.                                            *)
(***************************************************************************)

\* fail_unreported_job without the count # 0 test.
LoadRunningUnguarded ==
    /\ pc[Main] = "load" /\ seen' = running /\ Goto(Main, "cas")
    /\ UNCHANGED <<opts, cancelled, counters, queue, senderOpen, lock, job,
                   outcome, sent, results, ran, monitor>>

\* get_info reading running_jobs first.
MonitorReadsRunningFirst ==
    /\ \/ /\ mon = "completed" /\ mon' = "failed"
          /\ info' = [info EXCEPT !.running = running]
       \/ /\ mon = "failed" /\ mon' = "running"
          /\ info' = [info EXCEPT !.completed = completed]
       \/ /\ mon = "running" /\ mon' = "report"
          /\ info' = [info EXCEPT !.failed = failed]
    /\ UNCHANGED <<opts, cancelled, counters, queue, senderOpen, lock, pc, job,
                   outcome, seen, sent, results, ran>>

\* A cancelled job reported without fail_job; a failure that forgets
\* stop_on_error; a job admitted without the cancellation check.
CheckCancelledWith(w, afterCancel, afterZero, checked) ==
    /\ pc[w] = "check"
    /\ \/ /\ checked /\ cancelled
          /\ outcome' = [outcome EXCEPT ![w] = "Cancelled"]
          /\ Goto(w, afterCancel) /\ UNCHANGED ran
       \/ /\ checked => ~cancelled
          /\ IF opts.timeout = "zero"
             THEN outcome' = [outcome EXCEPT ![w] = "Failed"] /\ Goto(w, afterZero) /\ UNCHANGED ran
             ELSE ran' = ran \cup {job[w]} /\ Goto(w, "run") /\ UNCHANGED outcome
    /\ UNCHANGED <<opts, cancelled, counters, queue, senderOpen, lock, job,
                   seen, sent, results, monitor>>
CheckCancelledUncounted(w) == CheckCancelledWith(w, "send", "leave", TRUE)
CheckCancelledNoStop(w) == CheckCancelledWith(w, "leave", "leave", TRUE)
CheckCancelledIgnored(w) == CheckCancelledWith(w, "leave", "leave", FALSE)

\* A job sent twice.
DispatchJobTwice ==
    /\ pc[Main] = "dispatch" /\ job[Main] \in Jobs
    /\ queue' = queue \o <<job[Main], job[Main]>>
    /\ Advance("dispatch")
    /\ UNCHANGED <<opts, cancelled, counters, senderOpen, lock, outcome, seen,
                   sent, results, ran, monitor>>

\* The Sender kept alive across the joins.
CloseChannelLate ==
    /\ pc[Main] = "dispatch" /\ job[Main] > NumJobs
    /\ Goto(Main, "join")
    /\ UNCHANGED <<opts, cancelled, counters, queue, senderOpen, lock, job,
                   outcome, seen, sent, results, ran, monitor>>

(***************************** Worker threads ******************************)

\* Leaving the loop drops this worker's Arc of the receiver; the last one to
\* go drops the receiver and with it every queued message.
Exit(w) ==
    /\ Goto(w, "exited")
    /\ queue' = IF \A v \in Workers \ {w} : pc[v] = "exited" THEN <<>> ELSE queue

LockReceiver(w) ==
    /\ pc[w] = "lock" /\ lock = None
    /\ lock' = w
    /\ Goto(w, "recv")
    /\ UNCHANGED <<opts, cancelled, counters, queue, senderOpen, job, outcome,
                   seen, sent, results, ran, monitor>>

\* recv() blocks with the mutex held until there is a message.
ReceiveJob(w) ==
    /\ pc[w] = "recv" /\ queue # <<>> /\ Head(queue) # Shutdown
    /\ job' = [job EXCEPT ![w] = Head(queue)]
    /\ queue' = Tail(queue)
    /\ lock' = None
    /\ Goto(w, "start")
    /\ UNCHANGED <<opts, cancelled, counters, senderOpen, outcome, seen, sent,
                   results, ran, monitor>>

\* A Shutdown message, or an empty channel whose Sender is gone.
LeaveLoop(w) ==
    /\ pc[w] = "recv"
    /\ \/ queue = <<>> /\ ~senderOpen /\ Exit(w)
       \/ /\ queue # <<>> /\ Head(queue) = Shutdown
          /\ Goto(w, "exited")
          /\ queue' = IF \A v \in Workers \ {w} : pc[v] = "exited"
                      THEN <<>> ELSE Tail(queue)
    /\ lock' = None
    /\ UNCHANGED <<opts, cancelled, counters, senderOpen, job, outcome, seen,
                   sent, results, ran, monitor>>

\* The closure process_jobs wraps around a job, up to the admission check.
CheckCancelled(w) ==
    /\ pc[w] = "check"
    /\ \/ /\ cancelled
          /\ outcome' = [outcome EXCEPT ![w] = "Cancelled"]
          /\ Goto(w, "leave") /\ UNCHANGED ran
       \/ /\ ~cancelled /\ opts.timeout = "zero"
          /\ outcome' = [outcome EXCEPT ![w] = "Failed"]
          /\ Goto(w, IF opts.stopOnError THEN "stop" ELSE "leave")
          /\ UNCHANGED ran
       \/ /\ ~cancelled /\ opts.timeout # "zero"
          /\ ran' = ran \cup {job[w]}
          /\ Goto(w, "run") /\ UNCHANGED outcome
    /\ UNCHANGED <<opts, cancelled, counters, queue, senderOpen, lock, job,
                   seen, sent, results, monitor>>

\* The operation returns; a limit can turn its Ok into an Err, never back.
FinishJob(w) ==
    /\ pc[w] = "run"
    /\ \E result \in {"Success", "Failed"} :
         /\ outcome' = [outcome EXCEPT ![w] = result]
         /\ Goto(w, IF result = "Failed" /\ opts.stopOnError THEN "stop" ELSE "leave")
    /\ UNCHANGED <<opts, cancelled, counters, queue, senderOpen, lock, job,
                   seen, sent, results, ran, monitor>>

\* A panic outside catch_unwind (the drop of a panic payload) ends the thread.
WorkerDies(w) ==
    /\ pc[w] = "run"
    /\ Exit(w)
    /\ UNCHANGED <<opts, cancelled, counters, senderOpen, lock, job, outcome,
                   seen, sent, results, ran, monitor>>

StopBatch(w) ==
    /\ pc[w] = "stop"
    /\ cancelled' = TRUE
    /\ Goto(w, "leave")
    /\ UNCHANGED <<opts, counters, queue, senderOpen, lock, job, outcome, seen,
                   sent, results, ran, monitor>>

(****** Progress accounting, by a worker or by the thread that rejects *****)

StartJob(a) ==
    /\ pc[a] = "start"
    /\ running' = running + 1
    /\ Goto(a, IF a = Main THEN "leave" ELSE "check")
    /\ UNCHANGED <<opts, cancelled, completed, failed, queue, senderOpen, lock,
                   job, outcome, seen, sent, results, ran, monitor>>

\* complete_job and fail_job are two separate atomic updates.
LeaveRunning(a) ==
    /\ pc[a] = "leave"
    /\ running' = running - 1
    /\ Goto(a, "count")
    /\ UNCHANGED <<opts, cancelled, completed, failed, queue, senderOpen, lock,
                   job, outcome, seen, sent, results, ran, monitor>>

CountOutcome(a) ==
    /\ pc[a] = "count"
    /\ IF outcome[a] = "Success"
       THEN completed' = completed + 1 /\ UNCHANGED failed
       ELSE failed' = failed + 1 /\ UNCHANGED completed
    /\ IF a = Main /\ (~opts.valid \/ ~senderOpen)
       THEN /\ results' = [results EXCEPT ![job[Main]] = outcome[a]]
            /\ Advance(IF opts.valid THEN "collect"
                       ELSE IF job[Main] < NumJobs THEN "start" ELSE "summary")
       ELSE Goto(a, "send") /\ UNCHANGED <<job, results>>
    /\ UNCHANGED <<opts, cancelled, running, queue, senderOpen, lock, outcome,
                   seen, sent, ran, monitor>>

SendOutcome(a) ==
    /\ pc[a] = "send"
    /\ sent' = sent \cup {<<job[a], outcome[a]>>}
    /\ IF a = Main THEN Advance("dispatch") ELSE Goto(a, "lock") /\ UNCHANGED job
    /\ UNCHANGED <<opts, cancelled, counters, queue, senderOpen, lock, outcome,
                   seen, results, ran, monitor>>

(******************************* Main thread *******************************)

\* shutdown(): one message per worker, then join.  The Sender outlives both.
SendShutdown ==
    /\ pc[Main] = "shutdown"
    /\ IF job[Main] <= Cardinality(Workers)
       THEN /\ Advance("shutdown")
            /\ queue' = IF \E w \in Workers : pc[w] # "exited"
                        THEN Append(queue, Shutdown) ELSE queue
       ELSE Goto(Main, "join") /\ UNCHANGED <<job, queue>>
    /\ UNCHANGED <<opts, cancelled, counters, senderOpen, lock, outcome, seen,
                   sent, results, ran, monitor>>

DispatchJob ==
    /\ pc[Main] = "dispatch" /\ job[Main] \in Jobs
    /\ \E w \in Workers : pc[w] # "exited"
    /\ queue' = Append(queue, job[Main])
    /\ Advance("dispatch")
    /\ UNCHANGED <<opts, cancelled, counters, senderOpen, lock, outcome, seen,
                   sent, results, ran, monitor>>

\* send() fails once no worker is left: the job is failed on the spot.
RefuseJob ==
    /\ pc[Main] = "dispatch" /\ job[Main] \in Jobs
    /\ \A w \in Workers : pc[w] = "exited"
    /\ cancelled' = TRUE
    /\ Goto(Main, "start")
    /\ UNCHANGED <<opts, counters, queue, senderOpen, lock, job, outcome, seen,
                   sent, results, ran, monitor>>

CloseChannel ==
    /\ pc[Main] = "dispatch" /\ job[Main] > NumJobs
    /\ senderOpen' = FALSE
    /\ Goto(Main, "join")
    /\ UNCHANGED <<opts, cancelled, counters, queue, lock, job, outcome, seen,
                   sent, results, ran, monitor>>

JoinWorkers ==
    /\ pc[Main] = "join"
    /\ \A w \in Workers : pc[w] = "exited"
    /\ Goto(Main, IF opts.call = "shutdown" THEN "returned" ELSE "drain")
    /\ UNCHANGED <<opts, cancelled, counters, queue, senderOpen, lock, job,
                   outcome, seen, sent, results, ran, monitor>>

\* The result channel is closed once the queued closures are gone too.
DrainResults ==
    /\ pc[Main] = "drain" /\ queue = <<>>
    /\ results' = [j \in Jobs |-> IF \E r \in Results : <<j, r>> \in sent
                                  THEN CHOOSE r \in Results : <<j, r>> \in sent
                                  ELSE None]
    /\ job' = [job EXCEPT ![Main] = 1]
    /\ Goto(Main, "collect")
    /\ UNCHANGED <<opts, cancelled, counters, queue, senderOpen, lock, outcome,
                   seen, sent, ran, monitor>>

CollectResult ==
    /\ pc[Main] = "collect"
    /\ \/ job[Main] > NumJobs /\ Goto(Main, "summary") /\ UNCHANGED job
       \/ job[Main] \in Jobs /\ results[job[Main]] # None /\ Advance("collect")
       \/ job[Main] \in Jobs /\ results[job[Main]] = None /\ Goto(Main, "load") /\ UNCHANGED job
    /\ UNCHANGED <<opts, cancelled, counters, queue, senderOpen, lock, outcome,
                   seen, sent, results, ran, monitor>>

\* fail_unreported_job: the first load, then the compare-exchange.  Every
\* worker has been joined, so the exchange finds the value it loaded; a
\* spurious failure of the weak exchange only repeats the step.
LoadRunning ==
    /\ pc[Main] = "load"
    /\ seen' = running
    /\ Goto(Main, IF running = 0 THEN "count" ELSE "cas")
    /\ UNCHANGED <<opts, cancelled, counters, queue, senderOpen, lock, job,
                   outcome, sent, results, ran, monitor>>

ExchangeRunning ==
    /\ pc[Main] = "cas" /\ running = seen
    /\ running' = seen - 1
    /\ Goto(Main, "count")
    /\ UNCHANGED <<opts, cancelled, completed, failed, queue, senderOpen, lock,
                   job, outcome, seen, sent, results, ran, monitor>>

\* execute: join the progress thread, then build the BatchSummary.
Summarise ==
    /\ pc[Main] = "summary" /\ mon \in {"off", "exited"}
    /\ Goto(Main, "returned")
    /\ UNCHANGED <<opts, cancelled, counters, queue, senderOpen, lock, job,
                   outcome, seen, sent, results, ran, monitor>>

(******************* Progress thread and outside callers *******************)

MonitorChecks ==
    /\ mon = "check"
    /\ mon' = IF cancelled THEN "exited" ELSE "completed"
    /\ UNCHANGED <<opts, cancelled, counters, queue, senderOpen, lock, pc, job,
                   outcome, seen, sent, results, ran, info>>

\* get_info reads one atomic at a time: completed, then failed, then running.
MonitorReads ==
    /\ \/ /\ mon = "completed" /\ mon' = "failed"
          /\ info' = [info EXCEPT !.completed = completed]
       \/ /\ mon = "failed" /\ mon' = "running"
          /\ info' = [info EXCEPT !.failed = failed]
       \/ /\ mon = "running" /\ mon' = "report"
          /\ info' = [info EXCEPT !.running = running]
    /\ UNCHANGED <<opts, cancelled, counters, queue, senderOpen, lock, pc, job,
                   outcome, seen, sent, results, ran>>

IsComplete == info.completed + info.failed >= NumJobs

MonitorReports ==
    /\ mon = "report"
    /\ mon' = IF IsComplete THEN "exited" ELSE "parked"
    /\ UNCHANGED <<opts, cancelled, counters, queue, senderOpen, lock, pc, job,
                   outcome, seen, sent, results, ran, info>>

\* park_timeout ends by its interval or by main's unpark.
MonitorWakes ==
    /\ mon = "parked"
    /\ mon' = "check"
    /\ UNCHANGED <<opts, cancelled, counters, queue, senderOpen, lock, pc, job,
                   outcome, seen, sent, results, ran, info>>

\* Any holder of the shared flag may cancel at any moment.
Cancel ==
    /\ pc[Main] # "returned" /\ ~cancelled
    /\ cancelled' = TRUE
    /\ UNCHANGED <<opts, counters, queue, senderOpen, lock, pc, job, outcome,
                   seen, sent, results, ran, monitor>>

Terminating ==
    /\ pc[Main] = "returned" /\ \A w \in Workers : pc[w] = "exited"
    /\ UNCHANGED vars

WorkerStep(w) ==
    \/ LockReceiver(w) \/ ReceiveJob(w) \/ LeaveLoop(w)
    \/ StartJob(w) \/ CheckCancelled(w) \/ FinishJob(w) \/ WorkerDies(w)
    \/ StopBatch(w) \/ LeaveRunning(w) \/ CountOutcome(w) \/ SendOutcome(w)

MainStep ==
    \/ SendShutdown \/ DispatchJob \/ RefuseJob \/ CloseChannel
    \/ StartJob(Main) \/ LeaveRunning(Main) \/ CountOutcome(Main) \/ SendOutcome(Main)
    \/ JoinWorkers \/ DrainResults \/ CollectResult
    \/ LoadRunning \/ ExchangeRunning \/ Summarise

MonitorStep == MonitorChecks \/ MonitorReads \/ MonitorReports \/ MonitorWakes

Next ==
    \/ \E w \in Workers : WorkerStep(w)
    \/ MainStep
    \/ MonitorStep
    \/ Cancel
    \/ Terminating

\* Threads keep running and a started operation ends; nobody has to cancel.
Fairness ==
    /\ \A w \in Workers : WF_vars(WorkerStep(w))
    /\ WF_vars(MainStep)
    /\ WF_vars(MonitorStep)

Spec == Init /\ [][Next]_vars
FairSpec == Spec /\ Fairness

(******************************* Properties ********************************)

\* The outcome of a job as far as it has been reported.
Outcome(j) ==
    IF results[j] # None THEN results[j]
    ELSE IF \E r \in Results : <<j, r>> \in sent
         THEN CHOOSE r \in Results : <<j, r>> \in sent ELSE None

JobsWith(r) == {j \in Jobs : results[j] = r}

\* Every variable keeps its type.  running \in Nat is the deep part: the
\* AtomicUsize of BatchProgress never wraps below zero.
TypeOK ==
    /\ opts \in Options /\ cancelled \in BOOLEAN /\ senderOpen \in BOOLEAN
    /\ running \in Nat /\ completed \in Nat /\ failed \in Nat /\ seen \in Nat
    /\ queue \in Seq(Jobs \cup {Shutdown})
    /\ lock \in Workers \cup {None}
    /\ pc \in [Actors -> WorkerStates \cup MainStates]
    /\ job \in [Actors -> Nat \ {0}]
    /\ outcome \in [Actors -> Results]
    /\ sent \in SUBSET (Jobs \X Results)
    /\ results \in [Jobs -> Results \cup {None}]
    /\ ran \in SUBSET Jobs
    /\ mon \in MonitorStates
    /\ info \in [completed : Nat, failed : Nat, running : Nat]

\* A ProgressInfo handed to the callback never counts a job twice: get_info
\* is not atomic, and the sum stays within the batch only because a finishing
\* job leaves `running` before it is counted and `running` is read last.
SnapshotCountsEachJobOnce ==
    mon = "report" => info.completed + info.failed + info.running <= NumJobs

\* The progress thread stops on is_complete; when a snapshot says so, no job
\* is running any more and no counter will move again.
CompleteSnapshotIsFinal ==
    mon = "report" /\ IsComplete
        => /\ running = 0
           /\ completed = info.completed /\ failed = info.failed

\* What the callback is told is true at every poll, and at the last one for good.
SnapshotsAreHonest == SnapshotCountsEachJobOnce /\ CompleteSnapshotIsFinal

\* When process_jobs returns, the counters agree with the outcomes, whichever
\* jobs were cancelled, refused, or lost with their worker.
ProgressMatchesResults ==
    pc[Main] = "returned" /\ opts.call = "process"
        => /\ running = 0
           /\ completed = Cardinality(JobsWith("Success"))
           /\ failed = Cardinality(JobsWith("Failed") \cup JobsWith("Cancelled"))

\* With stop_on_error, whoever sees a failure reported, or counted while the
\* workers live, also sees the batch cancelled: the flag is stored before
\* fail_job and before the send.
FailureVisibleAfterStop ==
    opts.stopOnError /\ opts.valid
        /\ \/ \E j \in Jobs : <<j, "Failed">> \in sent
           \/ failed > 0 /\ \E w \in Workers : pc[w] # "exited"
      => cancelled

\* No thread holds the receiver mutex except while it waits in recv, so a
\* worker that dies in a job poisons nothing and blocks nobody.
MutexHeldOnlyInReceive ==
    \A w \in Workers : lock = w <=> pc[w] = "recv"

\* A job is in at most one place: queued once, in one worker's hands, or
\* reported with one outcome.
InHand(w) == pc[w] \in {"start", "check", "run", "stop", "leave", "count", "send"}
EachJobInOnePlace ==
    /\ \A i, k \in 1..Len(queue) : queue[i] = queue[k] /\ queue[i] # Shutdown => i = k
    /\ \A i \in 1..Len(queue) : \A w \in Workers : InHand(w) => queue[i] # job[w]
    /\ \A v, w \in Workers : InHand(v) /\ InHand(w) /\ job[v] = job[w] => v = w
    /\ \A s \in sent : /\ \A i \in 1..Len(queue) : queue[i] # s[1]
                       /\ \A w \in Workers : InHand(w) => job[w] # s[1]
                       /\ \A t \in sent : s[1] = t[1] => s = t

\* What process_jobs promises its caller, as BatchContract states it.
Contract == INSTANCE BatchContract WITH
    outcome <- [j \in Jobs |-> Outcome(j)],
    returned <- opts.call = "process" /\ pc[Main] = "returned"
KeepsContract == Contract!Spec

\* Every call returns, with workers dying, jobs failing and cancels at any
\* moment: recv under the mutex, the joins and the progress thread never hang.
CallReturns == <>(pc[Main] = "returned")

\* Once the call returns every worker thread has been joined.
WorkersJoined == pc[Main] = "returned" => \A w \in Workers : pc[w] = "exited"
=============================================================================
