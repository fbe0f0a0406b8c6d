-------------------------- MODULE BatchPoolProofs --------------------------
(***************************************************************************)
(* Proofs about BatchPool for any number of workers and jobs.              *)
(*                                                                         *)
(* The inductive invariant IInv adds to the types what each thread knows   *)
(* at its program counter: a job in hand is a real job, main's late states *)
(* are reached only when every worker has gone, a failure in hand under    *)
(* stop_on_error has already cancelled the batch, and running_jobs is at   *)
(* least the number of threads between start_job and their decrement.      *)
(*                                                                         *)
(* The second half is about where a job is, what the counters count, what  *)
(* a progress snapshot may say, and the contract of the call.  Its         *)
(* inductive invariant Account adds to IInv four parts.  Placement: a      *)
(* queued job is nowhere else, a job in hand is in one hand and not yet    *)
(* reported, and an outcome in hand fits what has run.  Walk: what main's  *)
(* walk over the result vector has filled.  Tally: each counter is the     *)
(* number of jobs in a set that can be read off the state, and while main  *)
(* walks, running_jobs is at most the number of gaps before it; without    *)
(* the gaps the decrements of fail_unreported_job, which main makes for    *)
(* jobs that never ran as well as for jobs that died with a worker, could  *)
(* not be shown to end at zero.  SnapshotPast: what get_info has read.     *)
(***************************************************************************)
EXTENDS BatchPool, FiniteSetTheorems, TLAPS

Holding == {"start", "check", "run", "stop", "leave", "count", "send", "load", "cas"}
Counted == {"check", "run", "stop", "leave"}
AfterWorkers == {"start", "leave", "count", "send", "drain", "collect", "load",
                 "cas", "summary"}

\* The threads whose start_job has not been undone yet.
Live == {a \in Actors : pc[a] \in Counted}

JobInHand == \A a \in Actors : pc[a] \in Holding => job[a] \in Jobs

ProperStates ==
    /\ \A w \in Workers : pc[w] \in WorkerStates
    /\ pc[Main] \in MainStates

WorkersGone ==
    pc[Main] \in AfterWorkers \cup {"returned"} => \A w \in Workers : pc[w] = "exited"

SeenPositive == pc[Main] = "cas" => seen > 0

\* Main fails jobs only with outcome Failed.
MainFails == outcome[Main] = "Failed"

\* What stop_on_error makes of a failure (or skip) in a worker's hands, and of
\* a job main refuses.
StopKnown ==
    opts.stopOnError /\ opts.valid =>
      /\ \A w \in Workers : pc[w] \in {"leave", "count", "send"} /\ outcome[w] # "Success"
                              => cancelled
      /\ pc[Main] = "send" => cancelled
      /\ \A s \in sent : s[2] = "Failed" => cancelled
      /\ failed > 0 /\ (\E w \in Workers : pc[w] # "exited") => cancelled

RefusalCancels ==
    opts.valid /\ senderOpen /\ pc[Main] \in {"start", "leave", "count", "send"} => cancelled

\* shutdown and process_jobs do not mix, and process_jobs drops the Sender
\* before it joins.
CallStates ==
    /\ opts.call = "shutdown" => pc[Main] \in {"shutdown", "join", "returned"}
    /\ pc[Main] = "join" /\ opts.call = "process" => ~senderOpen
    /\ pc[Main] \in {"drain", "collect", "load", "cas"} => ~senderOpen
    /\ pc[Main] = "shutdown" => opts.call = "shutdown"

RunningCoversLive == running >= Cardinality(Live)

IInv ==
    /\ TypeOK
    /\ ProperStates
    /\ JobInHand
    /\ WorkersGone
    /\ SeenPositive
    /\ MainFails
    /\ CallStates
    /\ RefusalCancels
    /\ StopKnown
    /\ MutexHeldOnlyInReceive
    /\ RunningCoversLive

\* There are finitely many live threads.
LEMMA LiveFinite == IsFiniteSet(Live) /\ Cardinality(Live) \in Nat
<1>1. IsFiniteSet(Actors)
  BY FS_AddElement, FS_Union, FS_Singleton, WorkersAssumption DEF Actors
<1>2. Live \subseteq Actors
  BY DEF Live
<1>. QED
  BY <1>1, <1>2, FS_Subset, FS_CardinalityType

\* A live thread is counted by running_jobs.
LEMMA LiveMember ==
  ASSUME NEW a \in Live PROVE Cardinality(Live) >= 1
<1>1. IsFiniteSet(Live \ {a}) /\ Cardinality(Live \ {a}) = Cardinality(Live) - 1
  BY LiveFinite, FS_RemoveElement
<1>2. Cardinality(Live \ {a}) \in Nat
  BY <1>1, FS_CardinalityType
<1>. QED
  BY <1>1, <1>2, LiveFinite

\* A call that begins: all threads idle, all counters zero.
THEOREM InitEstablishes == Init => IInv
<1>. SUFFICES ASSUME Init PROVE IInv
  OBVIOUS
<1>1. TypeOK
  BY NumJobsAssumption, WorkersAssumption
  DEF Init, FirstState, TypeOK, Options, Jobs, Actors, Results, WorkerStates, MainStates, MonitorStates
<1>2. ProperStates /\ JobInHand /\ WorkersGone /\ SeenPositive /\ MainFails /\ CallStates
  BY NumJobsAssumption, WorkersAssumption
  DEF Init, FirstState, Options, Actors, Jobs, Holding, AfterWorkers, WorkerStates, MainStates,
      ProperStates, JobInHand, WorkersGone, SeenPositive, MainFails, CallStates
<1>3. RefusalCancels /\ StopKnown /\ MutexHeldOnlyInReceive
  BY NoneAssumption, WorkersAssumption
  DEF Init, FirstState, Options, Actors, RefusalCancels, StopKnown, MutexHeldOnlyInReceive
<1>4. Live = {}
  BY WorkersAssumption DEF Init, FirstState, Options, Actors, Live, Counted
<1>5. RunningCoversLive
  BY <1>4, FS_EmptySet DEF Init, RunningCoversLive
<1>. QED
  BY <1>1, <1>2, <1>3, <1>5 DEF IInv

\* Everything but the counting of live threads, one action at a time.
Control ==
    /\ TypeOK /\ ProperStates /\ JobInHand /\ WorkersGone /\ SeenPositive
    /\ MainFails /\ CallStates /\ RefusalCancels /\ StopKnown
    /\ MutexHeldOnlyInReceive

\* A worker takes the free mutex and waits in recv.
LEMMA LockReceiverKeepsControl ==
  ASSUME IInv, NEW w \in Workers, LockReceiver(w)
  PROVE  Control'
<1>. USE NumJobsAssumption, WorkersAssumption, NoneAssumption DEF IInv, Control
<1>1. TypeOK'
  BY DEF LockReceiver, TypeOK, Options, Jobs, Actors, Results, WorkerStates, MainStates, MonitorStates, Shutdown, Goto, Advance, Exit, counters, monitor, vars, JobInHand, Holding, RunningCoversLive, SeenPositive
<1>2. ProperStates' /\ JobInHand' /\ WorkersGone' /\ SeenPositive' /\ MainFails' /\ CallStates'
  BY DEF LockReceiver, TypeOK, Options, Jobs, Actors, Results, WorkerStates, MainStates, MonitorStates, Shutdown, Goto, Advance, Exit, counters, monitor, vars, ProperStates, JobInHand, Holding, WorkersGone, AfterWorkers, SeenPositive, MainFails, CallStates
<1>3. RefusalCancels' /\ StopKnown' /\ MutexHeldOnlyInReceive'
  BY DEF LockReceiver, TypeOK, Options, Jobs, Actors, Results, WorkerStates, MainStates, MonitorStates, Shutdown, Goto, Advance, Exit, counters, monitor, vars, ProperStates, JobInHand, Holding, WorkersGone, AfterWorkers, MainFails, CallStates, RefusalCancels, StopKnown, MutexHeldOnlyInReceive
<1>. QED
  BY <1>1, <1>2, <1>3

\* A worker takes a job off the channel and gives the mutex back.
LEMMA ReceiveJobKeepsControl ==
  ASSUME IInv, NEW w \in Workers, ReceiveJob(w)
  PROVE  Control'
<1>. USE NumJobsAssumption, WorkersAssumption, NoneAssumption DEF IInv, Control
<1>1. TypeOK'
  BY DEF ReceiveJob, TypeOK, Options, Jobs, Actors, Results, WorkerStates, MainStates, MonitorStates, Shutdown, Goto, Advance, Exit, counters, monitor, vars, JobInHand, Holding, RunningCoversLive, SeenPositive
<1>2. ProperStates' /\ JobInHand' /\ WorkersGone' /\ SeenPositive' /\ MainFails' /\ CallStates'
  BY DEF ReceiveJob, TypeOK, Options, Jobs, Actors, Results, WorkerStates, MainStates, MonitorStates, Shutdown, Goto, Advance, Exit, counters, monitor, vars, ProperStates, JobInHand, Holding, WorkersGone, AfterWorkers, SeenPositive, MainFails, CallStates
<1>3. RefusalCancels' /\ StopKnown' /\ MutexHeldOnlyInReceive'
  BY DEF ReceiveJob, TypeOK, Options, Jobs, Actors, Results, WorkerStates, MainStates, MonitorStates, Shutdown, Goto, Advance, Exit, counters, monitor, vars, ProperStates, JobInHand, Holding, WorkersGone, AfterWorkers, MainFails, CallStates, RefusalCancels, StopKnown, MutexHeldOnlyInReceive
<1>. QED
  BY <1>1, <1>2, <1>3

\* A worker leaves its loop, orderly, giving the mutex back.
LEMMA LeaveLoopKeepsControl ==
  ASSUME IInv, NEW w \in Workers, LeaveLoop(w)
  PROVE  Control'
<1>. USE NumJobsAssumption, WorkersAssumption, NoneAssumption DEF IInv, Control
<1>1. TypeOK'
  <2>1. queue' \in Seq(Jobs \cup {Shutdown})
    <3>1. queue # <<>> => Tail(queue) \in Seq(Jobs \cup {Shutdown})
      BY DEF TypeOK
    <3>2. \/ queue' = <<>> \/ queue' = queue
          \/ queue # <<>> /\ queue' = Tail(queue)
      BY DEF LeaveLoop, Exit
    <3>3. queue \in Seq(Jobs \cup {Shutdown}) /\ <<>> \in Seq(Jobs \cup {Shutdown})
      BY DEF TypeOK
    <3>. QED
      BY <3>1, <3>2, <3>3
  <2>2. pc' = [pc EXCEPT ![w] = "exited"]
    BY DEF LeaveLoop, Exit, Goto
  <2>. QED
    BY <2>1, <2>2 DEF LeaveLoop, TypeOK, Actors, WorkerStates, counters, monitor
<1>2. ProperStates' /\ JobInHand' /\ WorkersGone' /\ SeenPositive' /\ MainFails' /\ CallStates'
  BY DEF LeaveLoop, TypeOK, Options, Jobs, Actors, Results, WorkerStates, MainStates, MonitorStates, Shutdown, Goto, Advance, Exit, counters, monitor, vars, ProperStates, JobInHand, Holding, WorkersGone, AfterWorkers, SeenPositive, MainFails, CallStates
<1>3. RefusalCancels' /\ StopKnown' /\ MutexHeldOnlyInReceive'
  <2>1. pc' = [pc EXCEPT ![w] = "exited"]
    BY DEF LeaveLoop, Exit, Goto
  <2>. QED
    BY <2>1 DEF LeaveLoop, TypeOK, Actors, ProperStates, RefusalCancels, StopKnown,
       MutexHeldOnlyInReceive, counters
<1>. QED
  BY <1>1, <1>2, <1>3

\* The admission check: a job that is skipped under stop_on_error found the
\* batch cancelled.
LEMMA CheckCancelledKeepsControl ==
  ASSUME IInv, NEW w \in Workers, CheckCancelled(w)
  PROVE  Control'
<1>. USE NumJobsAssumption, WorkersAssumption, NoneAssumption DEF IInv, Control
<1>1. TypeOK'
  <2>1. job[w] \in Jobs
    BY DEF CheckCancelled, JobInHand, Holding, Actors
  <2>2. ran' \in SUBSET Jobs
    BY <2>1 DEF CheckCancelled, TypeOK
  <2>3. outcome' \in [Actors -> Results]
    BY DEF CheckCancelled, TypeOK, Actors, Results
  <2>4. pc' \in [Actors -> WorkerStates \cup MainStates]
    BY DEF CheckCancelled, TypeOK, Actors, WorkerStates, Goto
  <2>. QED
    BY <2>2, <2>3, <2>4 DEF CheckCancelled, TypeOK, counters, monitor
<1>2. ProperStates' /\ JobInHand' /\ WorkersGone' /\ SeenPositive' /\ MainFails' /\ CallStates'
  <2>1. w # Main /\ w \in Actors /\ pc[w] = "check" /\ pc \in [Actors -> WorkerStates \cup MainStates]
    BY DEF CheckCancelled, TypeOK, Actors
  <2>2. /\ \A v \in Actors \ {w} : pc'[v] = pc[v] /\ outcome'[v] = outcome[v]
        /\ pc'[w] \in {"leave", "stop", "run"}
    BY <2>1 DEF CheckCancelled, TypeOK, Goto
  <2>3. UNCHANGED <<opts, senderOpen, job, seen, mon, info>>
    BY DEF CheckCancelled, monitor
  <2>4. Main \in Actors /\ Main # w /\ pc'[Main] = pc[Main] /\ outcome'[Main] = outcome[Main]
    BY <2>1, <2>2 DEF Actors
  <2>5. ProperStates'
    BY <2>1, <2>2, <2>4 DEF ProperStates, Actors, WorkerStates
  <2>6. JobInHand'
    BY <2>1, <2>2, <2>3 DEF JobInHand, Holding
  <2>7. WorkersGone'
    BY <2>1, <2>2, <2>4 DEF WorkersGone, Actors
  <2>. QED
    BY <2>3, <2>4, <2>5, <2>6, <2>7 DEF SeenPositive, MainFails, CallStates
<1>3. RefusalCancels' /\ StopKnown' /\ MutexHeldOnlyInReceive'
  <2>1. \A v \in Actors \ {w} : pc'[v] = pc[v] /\ outcome'[v] = outcome[v]
    BY DEF CheckCancelled, TypeOK, Goto
  <2>2. pc'[w] = "leave" /\ opts.stopOnError => outcome'[w] = "Cancelled" /\ cancelled
    BY DEF CheckCancelled, TypeOK, Goto, Actors
  <2>3. pc'[w] \in {"leave", "stop", "run"}
    BY DEF CheckCancelled, TypeOK, Goto, Actors
  <2>. QED
    BY <2>1, <2>2, <2>3 DEF CheckCancelled, TypeOK, Actors, ProperStates, RefusalCancels,
       StopKnown, MutexHeldOnlyInReceive, counters
<1>. QED
  BY <1>1, <1>2, <1>3

\* An operation returns: a failure under stop_on_error goes through StopBatch.
LEMMA FinishJobKeepsControl ==
  ASSUME IInv, NEW w \in Workers, FinishJob(w)
  PROVE  Control'
<1>. USE NumJobsAssumption, WorkersAssumption, NoneAssumption DEF IInv, Control
<1>1. TypeOK'
  BY DEF FinishJob, TypeOK, Options, Jobs, Actors, Results, WorkerStates, MainStates, MonitorStates, Shutdown, Goto, Advance, Exit, counters, monitor, vars, JobInHand, Holding, RunningCoversLive, SeenPositive
<1>2. ProperStates' /\ JobInHand' /\ WorkersGone' /\ SeenPositive' /\ MainFails' /\ CallStates'
  BY DEF FinishJob, TypeOK, Options, Jobs, Actors, Results, WorkerStates, MainStates, MonitorStates, Shutdown, Goto, Advance, Exit, counters, monitor, vars, ProperStates, JobInHand, Holding, WorkersGone, AfterWorkers, SeenPositive, MainFails, CallStates
<1>3. RefusalCancels' /\ StopKnown' /\ MutexHeldOnlyInReceive'
  BY DEF FinishJob, TypeOK, Options, Jobs, Actors, Results, WorkerStates, MainStates, MonitorStates, Shutdown, Goto, Advance, Exit, counters, monitor, vars, ProperStates, JobInHand, Holding, WorkersGone, AfterWorkers, MainFails, CallStates, RefusalCancels, StopKnown, MutexHeldOnlyInReceive
<1>. QED
  BY <1>1, <1>2, <1>3

\* A worker dies in a job; it does not hold the mutex there.
LEMMA WorkerDiesKeepsControl ==
  ASSUME IInv, NEW w \in Workers, WorkerDies(w)
  PROVE  Control'
<1>. USE NumJobsAssumption, WorkersAssumption, NoneAssumption DEF IInv, Control
<1>1. TypeOK'
  BY DEF WorkerDies, TypeOK, Options, Jobs, Actors, Results, WorkerStates, MainStates, MonitorStates, Shutdown, Goto, Advance, Exit, counters, monitor, vars, JobInHand, Holding, RunningCoversLive, SeenPositive
<1>2. ProperStates' /\ JobInHand' /\ WorkersGone' /\ SeenPositive' /\ MainFails' /\ CallStates'
  BY DEF WorkerDies, TypeOK, Options, Jobs, Actors, Results, WorkerStates, MainStates, MonitorStates, Shutdown, Goto, Advance, Exit, counters, monitor, vars, ProperStates, JobInHand, Holding, WorkersGone, AfterWorkers, SeenPositive, MainFails, CallStates
<1>3. RefusalCancels' /\ StopKnown' /\ MutexHeldOnlyInReceive'
  BY DEF WorkerDies, TypeOK, Options, Jobs, Actors, Results, WorkerStates, MainStates, MonitorStates, Shutdown, Goto, Advance, Exit, counters, monitor, vars, ProperStates, JobInHand, Holding, WorkersGone, AfterWorkers, MainFails, CallStates, RefusalCancels, StopKnown, MutexHeldOnlyInReceive
<1>. QED
  BY <1>1, <1>2, <1>3

\* The failure of stop_on_error cancels the batch before it is counted.
LEMMA StopBatchKeepsControl ==
  ASSUME IInv, NEW w \in Workers, StopBatch(w)
  PROVE  Control'
<1>. USE NumJobsAssumption, WorkersAssumption, NoneAssumption DEF IInv, Control
<1>1. TypeOK'
  BY DEF StopBatch, TypeOK, Options, Jobs, Actors, Results, WorkerStates, MainStates, MonitorStates, Shutdown, Goto, Advance, Exit, counters, monitor, vars, JobInHand, Holding, RunningCoversLive, SeenPositive
<1>2. ProperStates' /\ JobInHand' /\ WorkersGone' /\ SeenPositive' /\ MainFails' /\ CallStates'
  BY DEF StopBatch, TypeOK, Options, Jobs, Actors, Results, WorkerStates, MainStates, MonitorStates, Shutdown, Goto, Advance, Exit, counters, monitor, vars, ProperStates, JobInHand, Holding, WorkersGone, AfterWorkers, SeenPositive, MainFails, CallStates
<1>3. RefusalCancels' /\ StopKnown' /\ MutexHeldOnlyInReceive'
  BY DEF StopBatch, TypeOK, Options, Jobs, Actors, Results, WorkerStates, MainStates, MonitorStates, Shutdown, Goto, Advance, Exit, counters, monitor, vars, ProperStates, JobInHand, Holding, WorkersGone, AfterWorkers, MainFails, CallStates, RefusalCancels, StopKnown, MutexHeldOnlyInReceive
<1>. QED
  BY <1>1, <1>2, <1>3

\* start_job by a worker, or by main for a job it fails itself.
LEMMA StartJobKeepsControl ==
  ASSUME IInv, NEW a \in Actors, StartJob(a)
  PROVE  Control'
<1>. USE NumJobsAssumption, WorkersAssumption, NoneAssumption DEF IInv, Control
<1>1. TypeOK'
  BY DEF StartJob, TypeOK, Options, Jobs, Actors, Results, WorkerStates, MainStates, MonitorStates, Shutdown, Goto, Advance, Exit, counters, monitor, vars, JobInHand, Holding, RunningCoversLive, SeenPositive
<1>2. ProperStates' /\ JobInHand' /\ WorkersGone' /\ SeenPositive' /\ MainFails' /\ CallStates'
  BY DEF StartJob, TypeOK, Options, Jobs, Actors, Results, WorkerStates, MainStates, MonitorStates, Shutdown, Goto, Advance, Exit, counters, monitor, vars, ProperStates, JobInHand, Holding, WorkersGone, AfterWorkers, SeenPositive, MainFails, CallStates
<1>3. RefusalCancels' /\ StopKnown' /\ MutexHeldOnlyInReceive'
  BY DEF StartJob, TypeOK, Options, Jobs, Actors, Results, WorkerStates, MainStates, MonitorStates, Shutdown, Goto, Advance, Exit, counters, monitor, vars, ProperStates, JobInHand, Holding, WorkersGone, AfterWorkers, MainFails, CallStates, RefusalCancels, StopKnown, MutexHeldOnlyInReceive
<1>. QED
  BY <1>1, <1>2, <1>3

\* The decrement: the thread is live, so running_jobs is above zero.
LEMMA LeaveRunningKeepsControl ==
  ASSUME IInv, NEW a \in Actors, LeaveRunning(a)
  PROVE  Control'
<1>. USE NumJobsAssumption, WorkersAssumption, NoneAssumption DEF IInv, Control
<1>1. TypeOK'
  <2>1. running - 1 \in Nat
    <3>1. a \in Live
      BY DEF LeaveRunning, Live, Counted
    <3>. QED
      BY <3>1, LiveMember, LiveFinite DEF RunningCoversLive, TypeOK
  <2>. QED
    BY <2>1 DEF LeaveRunning, TypeOK, Actors, WorkerStates, Goto, monitor
<1>2. ProperStates' /\ JobInHand' /\ WorkersGone' /\ SeenPositive' /\ MainFails' /\ CallStates'
  BY DEF LeaveRunning, TypeOK, Options, Jobs, Actors, Results, WorkerStates, MainStates, MonitorStates, Shutdown, Goto, Advance, Exit, counters, monitor, vars, ProperStates, JobInHand, Holding, WorkersGone, AfterWorkers, SeenPositive, MainFails, CallStates
<1>3. RefusalCancels' /\ StopKnown' /\ MutexHeldOnlyInReceive'
  BY DEF LeaveRunning, TypeOK, Options, Jobs, Actors, Results, WorkerStates, MainStates, MonitorStates, Shutdown, Goto, Advance, Exit, counters, monitor, vars, ProperStates, JobInHand, Holding, WorkersGone, AfterWorkers, MainFails, CallStates, RefusalCancels, StopKnown, MutexHeldOnlyInReceive
<1>. QED
  BY <1>1, <1>2, <1>3

\* complete_job or fail_job: a failure counted has cancelled the batch before.
LEMMA CountOutcomeKeepsControl ==
  ASSUME IInv, NEW a \in Actors, CountOutcome(a)
  PROVE  Control'
<1>. USE NumJobsAssumption, WorkersAssumption, NoneAssumption DEF IInv, Control
<1>1. TypeOK'
  <2>1. job' \in [Actors -> Nat \ {0}] /\ results' \in [Jobs -> Results \cup {None}]
    <3>1. job' = job \/ job' = [job EXCEPT ![Main] = job[Main] + 1]
      BY DEF CountOutcome, Advance
    <3>2. results' = results \/ results' = [results EXCEPT ![job[Main]] = outcome[a]]
      BY DEF CountOutcome
    <3>3. outcome[a] \in Results
      BY DEF TypeOK
    <3>4. job' \in [Actors -> Nat \ {0}]
      BY <3>1 DEF TypeOK, Actors
    <3>5. results' \in [Jobs -> Results \cup {None}]
      BY <3>2, <3>3 DEF TypeOK
    <3>. QED
      BY <3>4, <3>5
  <2>2. pc' \in [Actors -> WorkerStates \cup MainStates]
    BY DEF CountOutcome, Advance, Goto, TypeOK, Actors, WorkerStates, MainStates
  <2>3. completed' \in Nat /\ failed' \in Nat
    BY DEF CountOutcome, TypeOK
  <2>. QED
    BY <2>1, <2>2, <2>3 DEF CountOutcome, TypeOK, monitor
<1>2. ProperStates' /\ JobInHand' /\ WorkersGone' /\ SeenPositive' /\ MainFails' /\ CallStates'
  <2>1. CASE a = Main /\ (~opts.valid \/ ~senderOpen)
    <3>1. /\ pc' = [pc EXCEPT ![Main] = IF opts.valid THEN "collect"
                         ELSE IF job[Main] < NumJobs THEN "start" ELSE "summary"]
          /\ job' = [job EXCEPT ![Main] = job[Main] + 1]
      BY <2>1 DEF CountOutcome, Advance, Goto, TypeOK, Actors
    <3>2. pc[Main] = "count" /\ job[Main] \in Jobs /\ \A w \in Workers : pc[w] = "exited"
      BY <2>1 DEF CountOutcome, JobInHand, Holding, WorkersGone, AfterWorkers, Actors
    <3>3. pc'[Main] = "start" => job'[Main] \in Jobs
      BY <3>1, <3>2 DEF TypeOK, Actors, Jobs
    <3>4. \A w \in Workers : pc'[w] = "exited"
      BY <3>1, <3>2 DEF TypeOK, Actors
    <3>5. pc'[Main] \in {"collect", "start", "summary"} /\ (pc'[Main] = "collect" => opts.valid)
      BY <3>1 DEF TypeOK, Actors
    <3>. QED
      BY <2>1, <3>2, <3>3, <3>4, <3>5 DEF CountOutcome, TypeOK, Actors, ProperStates, JobInHand, Holding,
         WorkersGone, SeenPositive, MainFails, CallStates, WorkerStates, MainStates, monitor
  <2>2. CASE ~(a = Main /\ (~opts.valid \/ ~senderOpen))
    <3>1. pc' = [pc EXCEPT ![a] = "send"] /\ UNCHANGED <<job, opts, senderOpen, seen, outcome>>
      BY <2>2 DEF CountOutcome, Goto
    <3>. QED
      BY <2>2, <3>1 DEF CountOutcome, TypeOK, Actors, ProperStates, JobInHand, Holding,
         WorkersGone, AfterWorkers, SeenPositive, MainFails, CallStates, WorkerStates, MainStates
  <2>. QED
    BY <2>1, <2>2
<1>3. RefusalCancels' /\ StopKnown' /\ MutexHeldOnlyInReceive'
  BY DEF CountOutcome, TypeOK, Options, Jobs, Actors, Results, WorkerStates, MainStates, MonitorStates, Shutdown, Goto, Advance, Exit, counters, monitor, vars, ProperStates, JobInHand, Holding, WorkersGone, AfterWorkers, MainFails, CallStates, RefusalCancels, StopKnown, MutexHeldOnlyInReceive
<1>. QED
  BY <1>1, <1>2, <1>3

\* The outcome goes into the result channel.
LEMMA SendOutcomeKeepsControl ==
  ASSUME IInv, NEW a \in Actors, SendOutcome(a)
  PROVE  Control'
<1>. USE NumJobsAssumption, WorkersAssumption, NoneAssumption DEF IInv, Control
<1>1. TypeOK'
  <2>1. <<job[a], outcome[a]>> \in Jobs \X Results
    BY DEF SendOutcome, JobInHand, Holding, TypeOK
  <2>2. sent' \in SUBSET (Jobs \X Results)
    BY <2>1 DEF SendOutcome, TypeOK
  <2>3. job' \in [Actors -> Nat \ {0}] /\ pc' \in [Actors -> WorkerStates \cup MainStates]
    BY DEF SendOutcome, Advance, Goto, TypeOK, Actors, WorkerStates, MainStates
  <2>. QED
    BY <2>2, <2>3 DEF SendOutcome, TypeOK, counters, monitor
<1>2. ProperStates' /\ JobInHand' /\ WorkersGone' /\ SeenPositive' /\ MainFails' /\ CallStates'
  <2>1. pc[a] = "send" /\ pc' = [pc EXCEPT ![a] = IF a = Main THEN "dispatch" ELSE "lock"]
    BY DEF SendOutcome, Advance, Goto
  <2>2. \A b \in Workers : job'[b] = job[b]
    BY DEF SendOutcome, Advance, TypeOK, Actors
  <2>3. a # Main => job' = job
    BY DEF SendOutcome
  <2>4. UNCHANGED <<opts, seen, outcome, senderOpen>>
    BY DEF SendOutcome
  <2>. QED
    BY <2>1, <2>2, <2>3, <2>4 DEF TypeOK, Actors, ProperStates, JobInHand, Holding, WorkersGone,
       AfterWorkers, SeenPositive, MainFails, CallStates, WorkerStates, MainStates
<1>3. RefusalCancels' /\ StopKnown' /\ MutexHeldOnlyInReceive'
  BY DEF SendOutcome, TypeOK, Options, Jobs, Actors, Results, WorkerStates, MainStates, MonitorStates, Shutdown, Goto, Advance, Exit, counters, monitor, vars, ProperStates, JobInHand, Holding, WorkersGone, AfterWorkers, MainFails, CallStates, RefusalCancels, StopKnown, MutexHeldOnlyInReceive
<1>. QED
  BY <1>1, <1>2, <1>3

\* One Shutdown message per worker.
LEMMA SendShutdownKeepsControl ==
  ASSUME IInv, SendShutdown
  PROVE  Control'
<1>. USE NumJobsAssumption, WorkersAssumption, NoneAssumption DEF IInv, Control
<1>1. TypeOK'
  <2>1. queue' \in Seq(Jobs \cup {Shutdown})
    <3>1. Append(queue, Shutdown) \in Seq(Jobs \cup {Shutdown})
      BY DEF TypeOK
    <3>. QED
      BY <3>1 DEF SendShutdown, TypeOK
  <2>2. job' \in [Actors -> Nat \ {0}]
    BY DEF SendShutdown, Advance, TypeOK, Actors
  <2>3. pc' = [pc EXCEPT ![Main] = "join"] \/ pc' = [pc EXCEPT ![Main] = "shutdown"]
    BY DEF SendShutdown, Advance, Goto
  <2>. QED
    BY <2>1, <2>2, <2>3 DEF SendShutdown, TypeOK, MainStates, counters, monitor
<1>2. ProperStates' /\ JobInHand' /\ WorkersGone' /\ SeenPositive' /\ MainFails' /\ CallStates'
  <2>1. pc' = [pc EXCEPT ![Main] = "join"] \/ pc' = [pc EXCEPT ![Main] = "shutdown"]
    BY DEF SendShutdown, Advance, Goto
  <2>2. \A b \in Workers : job'[b] = job[b]
    BY DEF SendShutdown, Advance, TypeOK, Actors
  <2>3. pc[Main] = "shutdown" /\ UNCHANGED <<opts, seen, outcome, senderOpen>>
    BY DEF SendShutdown
  <2>. QED
    BY <2>1, <2>2, <2>3 DEF TypeOK, Actors, ProperStates, JobInHand, Holding, WorkersGone,
       AfterWorkers, SeenPositive, MainFails, CallStates, WorkerStates, MainStates
<1>3. RefusalCancels' /\ StopKnown' /\ MutexHeldOnlyInReceive'
  BY DEF SendShutdown, TypeOK, Options, Jobs, Actors, Results, WorkerStates, MainStates, MonitorStates, Shutdown, Goto, Advance, Exit, counters, monitor, vars, ProperStates, JobInHand, Holding, WorkersGone, AfterWorkers, MainFails, CallStates, RefusalCancels, StopKnown, MutexHeldOnlyInReceive
<1>. QED
  BY <1>1, <1>2, <1>3

\* Main offers the next job.
LEMMA DispatchJobKeepsControl ==
  ASSUME IInv, DispatchJob
  PROVE  Control'
<1>. USE NumJobsAssumption, WorkersAssumption, NoneAssumption DEF IInv, Control
<1>1. TypeOK'
  BY DEF DispatchJob, TypeOK, Options, Jobs, Actors, Results, WorkerStates, MainStates, MonitorStates, Shutdown, Goto, Advance, Exit, counters, monitor, vars, JobInHand, Holding, RunningCoversLive, SeenPositive
<1>2. ProperStates' /\ JobInHand' /\ WorkersGone' /\ SeenPositive' /\ MainFails' /\ CallStates'
  BY DEF DispatchJob, TypeOK, Options, Jobs, Actors, Results, WorkerStates, MainStates, MonitorStates, Shutdown, Goto, Advance, Exit, counters, monitor, vars, ProperStates, JobInHand, Holding, WorkersGone, AfterWorkers, SeenPositive, MainFails, CallStates
<1>3. RefusalCancels' /\ StopKnown' /\ MutexHeldOnlyInReceive'
  BY DEF DispatchJob, TypeOK, Options, Jobs, Actors, Results, WorkerStates, MainStates, MonitorStates, Shutdown, Goto, Advance, Exit, counters, monitor, vars, ProperStates, JobInHand, Holding, WorkersGone, AfterWorkers, MainFails, CallStates, RefusalCancels, StopKnown, MutexHeldOnlyInReceive
<1>. QED
  BY <1>1, <1>2, <1>3

\* No worker is left: main cancels the batch and fails the job itself.
LEMMA RefuseJobKeepsControl ==
  ASSUME IInv, RefuseJob
  PROVE  Control'
<1>. USE NumJobsAssumption, WorkersAssumption, NoneAssumption DEF IInv, Control
<1>1. TypeOK'
  BY DEF RefuseJob, TypeOK, Options, Jobs, Actors, Results, WorkerStates, MainStates, MonitorStates, Shutdown, Goto, Advance, Exit, counters, monitor, vars, JobInHand, Holding, RunningCoversLive, SeenPositive
<1>2. ProperStates' /\ JobInHand' /\ WorkersGone' /\ SeenPositive' /\ MainFails' /\ CallStates'
  BY DEF RefuseJob, TypeOK, Options, Jobs, Actors, Results, WorkerStates, MainStates, MonitorStates, Shutdown, Goto, Advance, Exit, counters, monitor, vars, ProperStates, JobInHand, Holding, WorkersGone, AfterWorkers, SeenPositive, MainFails, CallStates
<1>3. RefusalCancels' /\ StopKnown' /\ MutexHeldOnlyInReceive'
  BY DEF RefuseJob, TypeOK, Options, Jobs, Actors, Results, WorkerStates, MainStates, MonitorStates, Shutdown, Goto, Advance, Exit, counters, monitor, vars, ProperStates, JobInHand, Holding, WorkersGone, AfterWorkers, MainFails, CallStates, RefusalCancels, StopKnown, MutexHeldOnlyInReceive
<1>. QED
  BY <1>1, <1>2, <1>3

\* All jobs are offered: the Sender is dropped.
LEMMA CloseChannelKeepsControl ==
  ASSUME IInv, CloseChannel
  PROVE  Control'
<1>. USE NumJobsAssumption, WorkersAssumption, NoneAssumption DEF IInv, Control
<1>1. TypeOK'
  BY DEF CloseChannel, TypeOK, Options, Jobs, Actors, Results, WorkerStates, MainStates, MonitorStates, Shutdown, Goto, Advance, Exit, counters, monitor, vars, JobInHand, Holding, RunningCoversLive, SeenPositive
<1>2. ProperStates' /\ JobInHand' /\ WorkersGone' /\ SeenPositive' /\ MainFails' /\ CallStates'
  BY DEF CloseChannel, TypeOK, Options, Jobs, Actors, Results, WorkerStates, MainStates, MonitorStates, Shutdown, Goto, Advance, Exit, counters, monitor, vars, ProperStates, JobInHand, Holding, WorkersGone, AfterWorkers, SeenPositive, MainFails, CallStates
<1>3. RefusalCancels' /\ StopKnown' /\ MutexHeldOnlyInReceive'
  BY DEF CloseChannel, TypeOK, Options, Jobs, Actors, Results, WorkerStates, MainStates, MonitorStates, Shutdown, Goto, Advance, Exit, counters, monitor, vars, ProperStates, JobInHand, Holding, WorkersGone, AfterWorkers, MainFails, CallStates, RefusalCancels, StopKnown, MutexHeldOnlyInReceive
<1>. QED
  BY <1>1, <1>2, <1>3

\* Main goes on when every worker has exited.
LEMMA JoinWorkersKeepsControl ==
  ASSUME IInv, JoinWorkers
  PROVE  Control'
<1>. USE NumJobsAssumption, WorkersAssumption, NoneAssumption DEF IInv, Control
<1>1. TypeOK'
  BY DEF JoinWorkers, TypeOK, Options, Jobs, Actors, Results, WorkerStates, MainStates, MonitorStates, Shutdown, Goto, Advance, Exit, counters, monitor, vars, JobInHand, Holding, RunningCoversLive, SeenPositive
<1>2. ProperStates' /\ JobInHand' /\ WorkersGone' /\ SeenPositive' /\ MainFails' /\ CallStates'
  BY DEF JoinWorkers, TypeOK, Options, Jobs, Actors, Results, WorkerStates, MainStates, MonitorStates, Shutdown, Goto, Advance, Exit, counters, monitor, vars, ProperStates, JobInHand, Holding, WorkersGone, AfterWorkers, SeenPositive, MainFails, CallStates
<1>3. RefusalCancels' /\ StopKnown' /\ MutexHeldOnlyInReceive'
  BY DEF JoinWorkers, TypeOK, Options, Jobs, Actors, Results, WorkerStates, MainStates, MonitorStates, Shutdown, Goto, Advance, Exit, counters, monitor, vars, ProperStates, JobInHand, Holding, WorkersGone, AfterWorkers, MainFails, CallStates, RefusalCancels, StopKnown, MutexHeldOnlyInReceive
<1>. QED
  BY <1>1, <1>2, <1>3

\* The result channel is emptied into the result vector.
LEMMA DrainResultsKeepsControl ==
  ASSUME IInv, DrainResults
  PROVE  Control'
<1>. USE NumJobsAssumption, WorkersAssumption, NoneAssumption DEF IInv, Control
<1>1. TypeOK'
  <2>1. results' \in [Jobs -> Results \cup {None}]
    <3>1. \A j \in Jobs : results'[j] \in Results \cup {None}
      BY DEF DrainResults
    <3>. QED
      BY <3>1 DEF DrainResults
  <2>2. job' \in [Actors -> Nat \ {0}] /\ job' = [job EXCEPT ![Main] = 1]
    <3>1. job' = [job EXCEPT ![Main] = 1]
      BY DEF DrainResults
    <3>2. job \in [Actors -> Nat \ {0}]
      BY DEF TypeOK
    <3>3. job' = [a \in Actors |-> IF a = Main THEN 1 ELSE job[a]]
      BY <3>1, <3>2
    <3>4. \A a \in Actors : job'[a] \in Nat \ {0}
      BY <3>2, <3>3
    <3>. QED
      BY <3>1, <3>3, <3>4
  <2>3. pc' \in [Actors -> WorkerStates \cup MainStates]
    BY DEF DrainResults, TypeOK, Goto, MainStates
  <2>. QED
    BY <2>1, <2>2, <2>3 DEF DrainResults, TypeOK, Actors, counters, monitor
<1>2. ProperStates' /\ JobInHand' /\ WorkersGone' /\ SeenPositive' /\ MainFails' /\ CallStates'
  BY DEF DrainResults, TypeOK, Options, Jobs, Actors, Results, WorkerStates, MainStates, MonitorStates, Shutdown, Goto, Advance, Exit, counters, monitor, vars, ProperStates, JobInHand, Holding, WorkersGone, AfterWorkers, SeenPositive, MainFails, CallStates
<1>3. RefusalCancels' /\ StopKnown' /\ MutexHeldOnlyInReceive'
  BY DEF DrainResults, TypeOK, Options, Jobs, Actors, Results, WorkerStates, MainStates, MonitorStates, Shutdown, Goto, Advance, Exit, counters, monitor, vars, ProperStates, JobInHand, Holding, WorkersGone, AfterWorkers, MainFails, CallStates, RefusalCancels, StopKnown, MutexHeldOnlyInReceive
<1>. QED
  BY <1>1, <1>2, <1>3

\* Main looks at the next slot of the result vector.
LEMMA CollectResultKeepsControl ==
  ASSUME IInv, CollectResult
  PROVE  Control'
<1>. USE NumJobsAssumption, WorkersAssumption, NoneAssumption DEF IInv, Control
<1>1. TypeOK'
  BY DEF CollectResult, TypeOK, Options, Jobs, Actors, Results, WorkerStates, MainStates, MonitorStates, Shutdown, Goto, Advance, Exit, counters, monitor, vars, JobInHand, Holding, RunningCoversLive, SeenPositive
<1>2. ProperStates' /\ JobInHand' /\ WorkersGone' /\ SeenPositive' /\ MainFails' /\ CallStates'
  BY DEF CollectResult, TypeOK, Options, Jobs, Actors, Results, WorkerStates, MainStates, MonitorStates, Shutdown, Goto, Advance, Exit, counters, monitor, vars, ProperStates, JobInHand, Holding, WorkersGone, AfterWorkers, SeenPositive, MainFails, CallStates
<1>3. RefusalCancels' /\ StopKnown' /\ MutexHeldOnlyInReceive'
  BY DEF CollectResult, TypeOK, Options, Jobs, Actors, Results, WorkerStates, MainStates, MonitorStates, Shutdown, Goto, Advance, Exit, counters, monitor, vars, ProperStates, JobInHand, Holding, WorkersGone, AfterWorkers, MainFails, CallStates, RefusalCancels, StopKnown, MutexHeldOnlyInReceive
<1>. QED
  BY <1>1, <1>2, <1>3

\* fail_unreported_job loads the counter, which guards the exchange.
LEMMA LoadRunningKeepsControl ==
  ASSUME IInv, LoadRunning
  PROVE  Control'
<1>. USE NumJobsAssumption, WorkersAssumption, NoneAssumption DEF IInv, Control
<1>1. TypeOK'
  BY DEF LoadRunning, TypeOK, Options, Jobs, Actors, Results, WorkerStates, MainStates, MonitorStates, Shutdown, Goto, Advance, Exit, counters, monitor, vars, JobInHand, Holding, RunningCoversLive, SeenPositive
<1>2. ProperStates' /\ JobInHand' /\ WorkersGone' /\ SeenPositive' /\ MainFails' /\ CallStates'
  BY DEF LoadRunning, TypeOK, Options, Jobs, Actors, Results, WorkerStates, MainStates, MonitorStates, Shutdown, Goto, Advance, Exit, counters, monitor, vars, ProperStates, JobInHand, Holding, WorkersGone, AfterWorkers, SeenPositive, MainFails, CallStates
<1>3. RefusalCancels' /\ StopKnown' /\ MutexHeldOnlyInReceive'
  BY DEF LoadRunning, TypeOK, Options, Jobs, Actors, Results, WorkerStates, MainStates, MonitorStates, Shutdown, Goto, Advance, Exit, counters, monitor, vars, ProperStates, JobInHand, Holding, WorkersGone, AfterWorkers, MainFails, CallStates, RefusalCancels, StopKnown, MutexHeldOnlyInReceive
<1>. QED
  BY <1>1, <1>2, <1>3

\* The exchange decrements a counter that was seen above zero.
LEMMA ExchangeRunningKeepsControl ==
  ASSUME IInv, ExchangeRunning
  PROVE  Control'
<1>. USE NumJobsAssumption, WorkersAssumption, NoneAssumption DEF IInv, Control
<1>1. TypeOK'
  BY DEF ExchangeRunning, TypeOK, Options, Jobs, Actors, Results, WorkerStates, MainStates, MonitorStates, Shutdown, Goto, Advance, Exit, counters, monitor, vars, JobInHand, Holding, RunningCoversLive, SeenPositive
<1>2. ProperStates' /\ JobInHand' /\ WorkersGone' /\ SeenPositive' /\ MainFails' /\ CallStates'
  BY DEF ExchangeRunning, TypeOK, Options, Jobs, Actors, Results, WorkerStates, MainStates, MonitorStates, Shutdown, Goto, Advance, Exit, counters, monitor, vars, ProperStates, JobInHand, Holding, WorkersGone, AfterWorkers, SeenPositive, MainFails, CallStates
<1>3. RefusalCancels' /\ StopKnown' /\ MutexHeldOnlyInReceive'
  BY DEF ExchangeRunning, TypeOK, Options, Jobs, Actors, Results, WorkerStates, MainStates, MonitorStates, Shutdown, Goto, Advance, Exit, counters, monitor, vars, ProperStates, JobInHand, Holding, WorkersGone, AfterWorkers, MainFails, CallStates, RefusalCancels, StopKnown, MutexHeldOnlyInReceive
<1>. QED
  BY <1>1, <1>2, <1>3

\* execute builds its summary and returns.
LEMMA SummariseKeepsControl ==
  ASSUME IInv, Summarise
  PROVE  Control'
<1>. USE NumJobsAssumption, WorkersAssumption, NoneAssumption DEF IInv, Control
<1>1. TypeOK'
  BY DEF Summarise, TypeOK, Options, Jobs, Actors, Results, WorkerStates, MainStates, MonitorStates, Shutdown, Goto, Advance, Exit, counters, monitor, vars, JobInHand, Holding, RunningCoversLive, SeenPositive
<1>2. ProperStates' /\ JobInHand' /\ WorkersGone' /\ SeenPositive' /\ MainFails' /\ CallStates'
  BY DEF Summarise, TypeOK, Options, Jobs, Actors, Results, WorkerStates, MainStates, MonitorStates, Shutdown, Goto, Advance, Exit, counters, monitor, vars, ProperStates, JobInHand, Holding, WorkersGone, AfterWorkers, SeenPositive, MainFails, CallStates
<1>3. RefusalCancels' /\ StopKnown' /\ MutexHeldOnlyInReceive'
  BY DEF Summarise, TypeOK, Options, Jobs, Actors, Results, WorkerStates, MainStates, MonitorStates, Shutdown, Goto, Advance, Exit, counters, monitor, vars, ProperStates, JobInHand, Holding, WorkersGone, AfterWorkers, MainFails, CallStates, RefusalCancels, StopKnown, MutexHeldOnlyInReceive
<1>. QED
  BY <1>1, <1>2, <1>3

\* The progress thread only reads.
LEMMA MonitorStepKeepsControl ==
  ASSUME IInv, MonitorStep
  PROVE  Control'
<1>. USE NumJobsAssumption, WorkersAssumption, NoneAssumption DEF IInv, Control
<1>1. TypeOK'
  BY DEF MonitorStep, MonitorChecks, MonitorReads, MonitorReports, MonitorWakes, TypeOK, Options, Jobs, Actors, Results, WorkerStates, MainStates, MonitorStates, Shutdown, Goto, Advance, Exit, counters, monitor, vars, JobInHand, Holding, RunningCoversLive, SeenPositive
<1>2. ProperStates' /\ JobInHand' /\ WorkersGone' /\ SeenPositive' /\ MainFails' /\ CallStates'
  BY DEF MonitorStep, MonitorChecks, MonitorReads, MonitorReports, MonitorWakes, TypeOK, Options, Jobs, Actors, Results, WorkerStates, MainStates, MonitorStates, Shutdown, Goto, Advance, Exit, counters, monitor, vars, ProperStates, JobInHand, Holding, WorkersGone, AfterWorkers, SeenPositive, MainFails, CallStates
<1>3. RefusalCancels' /\ StopKnown' /\ MutexHeldOnlyInReceive'
  BY DEF MonitorStep, MonitorChecks, MonitorReads, MonitorReports, MonitorWakes, TypeOK, Options, Jobs, Actors, Results, WorkerStates, MainStates, MonitorStates, Shutdown, Goto, Advance, Exit, counters, monitor, vars, ProperStates, JobInHand, Holding, WorkersGone, AfterWorkers, MainFails, CallStates, RefusalCancels, StopKnown, MutexHeldOnlyInReceive
<1>. QED
  BY <1>1, <1>2, <1>3

\* Anybody may cancel.
LEMMA CancelKeepsControl ==
  ASSUME IInv, Cancel
  PROVE  Control'
<1>. USE NumJobsAssumption, WorkersAssumption, NoneAssumption DEF IInv, Control
<1>1. TypeOK'
  BY DEF Cancel, TypeOK, Options, Jobs, Actors, Results, WorkerStates, MainStates, MonitorStates, Shutdown, Goto, Advance, Exit, counters, monitor, vars, JobInHand, Holding, RunningCoversLive, SeenPositive
<1>2. ProperStates' /\ JobInHand' /\ WorkersGone' /\ SeenPositive' /\ MainFails' /\ CallStates'
  BY DEF Cancel, TypeOK, Options, Jobs, Actors, Results, WorkerStates, MainStates, MonitorStates, Shutdown, Goto, Advance, Exit, counters, monitor, vars, ProperStates, JobInHand, Holding, WorkersGone, AfterWorkers, SeenPositive, MainFails, CallStates
<1>3. RefusalCancels' /\ StopKnown' /\ MutexHeldOnlyInReceive'
  BY DEF Cancel, TypeOK, Options, Jobs, Actors, Results, WorkerStates, MainStates, MonitorStates, Shutdown, Goto, Advance, Exit, counters, monitor, vars, ProperStates, JobInHand, Holding, WorkersGone, AfterWorkers, MainFails, CallStates, RefusalCancels, StopKnown, MutexHeldOnlyInReceive
<1>. QED
  BY <1>1, <1>2, <1>3

\* Nothing happens after the call.
LEMMA TerminatingKeepsControl ==
  ASSUME IInv, Terminating
  PROVE  Control'
<1>. USE NumJobsAssumption, WorkersAssumption, NoneAssumption DEF IInv, Control
<1>1. TypeOK'
  BY DEF Terminating, TypeOK, Options, Jobs, Actors, Results, WorkerStates, MainStates, MonitorStates, Shutdown, Goto, Advance, Exit, counters, monitor, vars, JobInHand, Holding, RunningCoversLive, SeenPositive
<1>2. ProperStates' /\ JobInHand' /\ WorkersGone' /\ SeenPositive' /\ MainFails' /\ CallStates'
  BY DEF Terminating, TypeOK, Options, Jobs, Actors, Results, WorkerStates, MainStates, MonitorStates, Shutdown, Goto, Advance, Exit, counters, monitor, vars, ProperStates, JobInHand, Holding, WorkersGone, AfterWorkers, SeenPositive, MainFails, CallStates
<1>3. RefusalCancels' /\ StopKnown' /\ MutexHeldOnlyInReceive'
  BY DEF Terminating, TypeOK, Options, Jobs, Actors, Results, WorkerStates, MainStates, MonitorStates, Shutdown, Goto, Advance, Exit, counters, monitor, vars, ProperStates, JobInHand, Holding, WorkersGone, AfterWorkers, MainFails, CallStates, RefusalCancels, StopKnown, MutexHeldOnlyInReceive
<1>. QED
  BY <1>1, <1>2, <1>3

\* running_jobs keeps covering the live threads: start_job adds to both, the
\* decrements take from both, a dying worker only leaves Live, and main's
\* compare-exchange runs when no thread is live at all.
LEMMA LiveGrows ==
  ASSUME NEW a \in Actors, IsFiniteSet(Live), Live' \subseteq Live \cup {a}
  PROVE  Cardinality(Live') <= Cardinality(Live) + 1
<1>1. IsFiniteSet(Live \cup {a}) /\ Cardinality(Live \cup {a}) <= Cardinality(Live) + 1
  BY FS_AddElement, FS_CardinalityType
<1>2. Cardinality(Live') <= Cardinality(Live \cup {a})
  BY <1>1, FS_Subset
<1>. QED
  BY <1>1, <1>2, FS_CardinalityType, FS_Subset

\* Fewer live threads count less.
LEMMA LiveShrinks ==
  ASSUME IsFiniteSet(Live), Live' \subseteq Live
  PROVE  Cardinality(Live') <= Cardinality(Live)
BY FS_Subset

\* A step that starts no job and leaves the counter alone.
LEMMA LiveStays ==
  ASSUME IInv, UNCHANGED running, Live' \subseteq Live
  PROVE  RunningCoversLive'
<1>1. Cardinality(Live') <= Cardinality(Live) /\ Cardinality(Live') \in Nat
  BY LiveFinite, LiveShrinks, FS_Subset, FS_CardinalityType
<1>. QED
  BY <1>1, LiveFinite DEF IInv, TypeOK, RunningCoversLive

\* running_jobs covers the live threads at every step.
LEMMA StepKeepsRunning ==
  ASSUME IInv, Next
  PROVE  RunningCoversLive'
<1>. USE DEF IInv
<1>1. ASSUME NEW a \in Actors, StartJob(a) PROVE RunningCoversLive'
  <2>1. Live' \subseteq Live \cup {a}
    BY <1>1 DEF StartJob, Goto, Live, TypeOK
  <2>2. Cardinality(Live') <= Cardinality(Live) + 1 /\ Cardinality(Live') \in Nat
    BY <2>1, LiveFinite, LiveGrows, FS_Subset, FS_AddElement, FS_CardinalityType
  <2>. QED
    BY <1>1, <2>2, LiveFinite DEF StartJob, RunningCoversLive, TypeOK
<1>2. ASSUME NEW a \in Actors, LeaveRunning(a) PROVE RunningCoversLive'
  <2>1. a \in Live /\ Live' = Live \ {a}
    BY <1>2 DEF LeaveRunning, Goto, Live, Counted, TypeOK
  <2>2. Cardinality(Live') = Cardinality(Live) - 1
    BY <2>1, LiveFinite, FS_RemoveElement
  <2>. QED
    BY <1>2, <2>2, LiveFinite DEF LeaveRunning, RunningCoversLive, TypeOK
<1>3. CASE ExchangeRunning
  <2>1. Live' = {}
    BY <1>3 DEF ExchangeRunning, Goto, Live, Counted, TypeOK, WorkersGone, AfterWorkers, Actors
  <2>2. running' >= 0
    BY <1>3 DEF ExchangeRunning, TypeOK, SeenPositive
  <2>. QED
    BY <2>1, <2>2, FS_EmptySet DEF RunningCoversLive
<1>4. ASSUME NEW w \in Workers,
             \/ LockReceiver(w) \/ ReceiveJob(w) \/ LeaveLoop(w) \/ CheckCancelled(w)
             \/ FinishJob(w) \/ WorkerDies(w) \/ StopBatch(w)
      PROVE  RunningCoversLive'
  <2>1. UNCHANGED running
    BY <1>4 DEF LockReceiver, ReceiveJob, LeaveLoop, CheckCancelled, FinishJob, WorkerDies,
       StopBatch, counters
  <2>2. Live' \subseteq Live
    BY <1>4 DEF LockReceiver, ReceiveJob, LeaveLoop, CheckCancelled, FinishJob, WorkerDies,
       StopBatch, Exit, Goto, Live, Counted, TypeOK
  <2>. QED
    BY <2>1, <2>2, LiveStays
<1>5. ASSUME NEW a \in Actors, CountOutcome(a) \/ SendOutcome(a) PROVE RunningCoversLive'
  <2>1. UNCHANGED running
    BY <1>5 DEF CountOutcome, SendOutcome, counters
  <2>2. Live' \subseteq Live
    BY <1>5 DEF CountOutcome, SendOutcome, Advance, Goto, Live, Counted, TypeOK
  <2>. QED
    BY <2>1, <2>2, LiveStays
<1>6. CASE \/ SendShutdown \/ DispatchJob \/ RefuseJob \/ CloseChannel \/ JoinWorkers
           \/ DrainResults \/ CollectResult \/ LoadRunning \/ Summarise
  <2>1. UNCHANGED running
    BY <1>6 DEF SendShutdown, DispatchJob, RefuseJob, CloseChannel, JoinWorkers,
       DrainResults, CollectResult, LoadRunning, Summarise, counters
  <2>2. Live' \subseteq Live
    BY <1>6 DEF SendShutdown, DispatchJob, RefuseJob, CloseChannel, JoinWorkers,
       DrainResults, CollectResult, LoadRunning, Summarise, Advance, Goto, Live, Counted, TypeOK
  <2>. QED
    BY <2>1, <2>2, LiveStays
<1>7. CASE MonitorStep \/ Cancel \/ Terminating
  <2>1. UNCHANGED <<running, pc>>
    BY <1>7 DEF MonitorStep, MonitorChecks, MonitorReads, MonitorReports, MonitorWakes,
       Cancel, Terminating, vars, counters
  <2>2. Live' \subseteq Live
    BY <2>1 DEF Live
  <2>. QED
    BY <2>1, <2>2, LiveStays
<1>. QED
  BY <1>1, <1>2, <1>3, <1>4, <1>5, <1>6, <1>7 DEF Next, WorkerStep, MainStep, Actors

\* IInv is kept by every step and by every stutter.
THEOREM StepPreserves == IInv /\ [Next]_vars => IInv'
<1>1. ASSUME IInv, Next PROVE IInv'
  <2>1. Control'
    <3>1. ASSUME NEW w \in Workers, WorkerStep(w) PROVE Control'
      BY <1>1, <3>1, LockReceiverKeepsControl, ReceiveJobKeepsControl, LeaveLoopKeepsControl,
         StartJobKeepsControl, CheckCancelledKeepsControl, FinishJobKeepsControl,
         WorkerDiesKeepsControl, StopBatchKeepsControl, LeaveRunningKeepsControl,
         CountOutcomeKeepsControl, SendOutcomeKeepsControl DEF WorkerStep, Actors
    <3>2. ASSUME MainStep PROVE Control'
      <4>1. Main \in Actors
        BY DEF Actors
      <4>. QED
        BY <1>1, <3>2, <4>1, SendShutdownKeepsControl, DispatchJobKeepsControl,
           RefuseJobKeepsControl, CloseChannelKeepsControl, StartJobKeepsControl,
           LeaveRunningKeepsControl, CountOutcomeKeepsControl, SendOutcomeKeepsControl,
           JoinWorkersKeepsControl, DrainResultsKeepsControl, CollectResultKeepsControl,
           LoadRunningKeepsControl, ExchangeRunningKeepsControl, SummariseKeepsControl
           DEF MainStep
    <3>. QED
      BY <1>1, <3>1, <3>2, MonitorStepKeepsControl, CancelKeepsControl,
         TerminatingKeepsControl DEF Next
  <2>. QED
    BY <1>1, <2>1, StepKeepsRunning DEF IInv, Control
<1>2. ASSUME IInv, UNCHANGED vars PROVE IInv'
  <2>1. Live' = Live
    BY <1>2 DEF vars, Live
  <2>. QED
    BY <1>2, <2>1 DEF IInv, TypeOK, ProperStates, JobInHand, WorkersGone, SeenPositive,
       MainFails, CallStates, RefusalCancels, StopKnown, MutexHeldOnlyInReceive,
       RunningCoversLive, vars, counters, monitor
<1>. QED
  BY <1>1, <1>2

\* The inductive invariant holds in every reachable state.
THEOREM Invariance == Spec => []IInv
BY InitEstablishes, StepPreserves, PTL DEF Spec

\* Types, with running_jobs never below zero, for any pool and any batch.
THEOREM TypeCorrect == Spec => []TypeOK
<1>1. IInv => TypeOK
  BY DEF IInv
<1>. QED
  BY <1>1, Invariance, PTL

\* stop_on_error: a failure anybody can see has already cancelled the batch.
THEOREM StopIsVisible == Spec => []FailureVisibleAfterStop
<1>1. IInv => FailureVisibleAfterStop
  BY DEF IInv, StopKnown, FailureVisibleAfterStop, TypeOK
<1>. QED
  BY <1>1, Invariance, PTL

\* The receiver mutex is held exactly by the worker waiting in recv.
THEOREM MutexScope == Spec => []MutexHeldOnlyInReceive
<1>1. IInv => MutexHeldOnlyInReceive
  BY DEF IInv
<1>. QED
  BY <1>1, Invariance, PTL

\* A call that has returned has joined every worker thread.
THEOREM JoinsWorkers == Spec => []WorkersJoined
<1>1. IInv => WorkersJoined
  BY DEF IInv, WorkersGone, WorkersJoined
<1>. QED
  BY <1>1, Invariance, PTL

(************************ Where a job is, and what is known ****************)

Offering == {"dispatch", "start", "leave", "count", "send"}

\* Jobs below this number have been offered to the channel (or refused).
NextJob == IF senderOpen /\ pc[Main] \in Offering THEN job[Main] ELSE NumJobs + 1

\* An invalid pool has no thread and is offered nothing.
InvalidIdle ==
    ~opts.valid =>
      /\ queue = <<>> /\ sent = {} /\ ran = {} /\ senderOpen
      /\ \A w \in Workers : pc[w] = "exited"
      /\ pc[Main] \in {"start", "leave", "count", "summary", "returned", "shutdown", "join"}

\* shutdown() carries no job; process_jobs sends nothing but jobs.
ShutdownIdle ==
    /\ opts.call = "shutdown" =>
         /\ sent = {} /\ ran = {}
         /\ \A w \in Workers : ~InHand(w)
         /\ \A i \in 1..Len(queue) : queue[i] = Shutdown
    /\ opts.call = "process" => \A i \in 1..Len(queue) : queue[i] # Shutdown

\* The Sender is dropped after the last job and before the joins.
SenderScope ==
    opts.valid /\ opts.call = "process" =>
      /\ pc[Main] \in {"dispatch", "start", "leave", "send"} => senderOpen
      /\ pc[Main] \in {"summary", "returned"} => ~senderOpen

\* Jobs are queued in order, and a queued job is nowhere else.
QueueOrder ==
    opts.call = "process" =>
        \A i, k \in 1..Len(queue) : i < k => queue[i] < queue[k]
QueueFresh ==
    \A i \in 1..Len(queue) :
        queue[i] # Shutdown =>
          /\ queue[i] < NextJob
          /\ queue[i] \notin ran
          /\ \A w \in Workers : InHand(w) => job[w] # queue[i]
          /\ \A s \in sent : s[1] # queue[i]

\* Two threads never hold one job, and a job in hand is not yet reported.
HandsApart == \A v, w \in Workers : InHand(v) /\ InHand(w) /\ job[v] = job[w] => v = w
HandsUnsent == \A w \in Workers : InHand(w) => /\ job[w] < NextJob
                                               /\ \A s \in sent : s[1] # job[w]
SentOnce == /\ \A s \in sent : s[1] < NextJob
            /\ \A s, t \in sent : s[1] = t[1] => s = t
RanBelow == \A j \in ran : j < NextJob

\* What a worker's outcome says about the job: a success has run, a
\* cancelled job has not and the batch is cancelled.
HandKnows ==
    \A w \in Workers :
      /\ pc[w] \in {"start", "check"} => job[w] \notin ran
      /\ pc[w] = "run" => job[w] \in ran
      /\ pc[w] \in {"stop", "leave", "count", "send"} =>
           /\ outcome[w] = "Success" => job[w] \in ran
           /\ outcome[w] = "Cancelled" => cancelled /\ job[w] \notin ran

Placement ==
    /\ InvalidIdle /\ ShutdownIdle /\ SenderScope
    /\ QueueOrder /\ QueueFresh
    /\ HandsApart /\ HandsUnsent /\ SentOnce /\ RanBelow
    /\ HandKnows

(***************************** Collected results ***************************)

\* Main walks the result vector: after the drain, or when it rejects the jobs
\* of an invalid pool.
Collecting == opts.valid /\ opts.call = "process" /\ ~senderOpen
              /\ pc[Main] \in {"collect", "load", "cas", "count", "summary", "returned"}
Walking == opts.call = "process" /\ (Collecting \/ ~opts.valid)

ResultsLate == ~Walking => \A j \in Jobs : results[j] = None
ResultsTell == Collecting => \A s \in sent : results[s[1]] = s[2]
WalkFills ==
    /\ Walking => \A j \in Jobs : j < job[Main] => results[j] # None
    /\ opts.call = "process" /\ pc[Main] \in {"summary", "returned"} => job[Main] > NumJobs
WalkMeetsGaps ==
    /\ Collecting /\ pc[Main] \in {"load", "cas", "count"} => results[job[Main]] = None
    /\ ~opts.valid => \A j \in Jobs : opts.call = "process" /\ j >= job[Main] => results[j] = None

Walk == ResultsLate /\ ResultsTell /\ WalkFills /\ WalkMeetsGaps

(******************************** Counting *********************************)

\* The jobs whose outcome r a thread has added to its counter.
CountedAs(r) ==
    {j \in Jobs : \/ results[j] = r
                  \/ <<j, r>> \in sent
                  \/ \E a \in Actors : pc[a] = "send" /\ job[a] = j /\ outcome[a] = r}
Successes == CountedAs("Success")
Failures == CountedAs("Failed") \cup CountedAs("Cancelled")

\* The jobs whose start_job no decrement has answered: in a live thread's
\* hands, or run by a worker that died.
Open ==
    {j \in Jobs : \/ \E a \in Live : job[a] = j
                  \/ /\ j \in ran
                     /\ \A a \in Actors : pc[a] \in {"count", "send"} => job[a] # j
                     /\ \A s \in sent : s[1] # j}

\* The gaps main still has before it.
Gaps == {j \in Jobs : /\ results[j] = None
                      /\ IF pc[Main] = "count" THEN j > job[Main] ELSE j >= job[Main]}

Tally ==
    /\ completed = Cardinality(Successes)
    /\ failed = Cardinality(Failures)
    /\ ~Collecting => running = Cardinality(Open)
    /\ Collecting => running <= Cardinality(Gaps)

\* A counter read earlier is not above its value now.
SnapshotPast ==
    /\ mon \in {"failed", "running", "report"} => info.completed <= completed
    /\ mon \in {"running", "report"} => info.failed <= failed
    /\ mon = "report" => info.completed + info.failed + info.running <= NumJobs

Account == IInv /\ Placement /\ Walk /\ Tally /\ SnapshotPast

(***************************** Where jobs are ******************************)

\* What the first element, and the rest, of the job channel are.
LEMMA QueueHead ==
  ASSUME TypeOK, queue # <<>>, queue' = Tail(queue)
  PROVE  /\ 1 \in 1..Len(queue) /\ Head(queue) = queue[1]
         /\ Len(queue') \in Nat
         /\ \A i \in 1..Len(queue') : /\ i + 1 \in 1..Len(queue)
                                      /\ i \in Nat /\ queue'[i] = queue[i + 1]
BY DEF TypeOK

\* What the job channel holds after a send.
LEMMA QueueLast ==
  ASSUME TypeOK, NEW x \in Jobs \cup {Shutdown}, queue' = Append(queue, x)
  PROVE  /\ Len(queue') = Len(queue) + 1 /\ Len(queue) \in Nat
         /\ \A i \in 1..Len(queue') : \/ i \in 1..Len(queue) /\ queue'[i] = queue[i]
                                      \/ i = Len(queue) + 1 /\ queue'[i] = x
BY DEF TypeOK

\* What IInv says of the numbers and of main's job.
LEMMA Numbers ==
  ASSUME Account
  PROVE  /\ NumJobs \in Nat /\ NextJob \in Nat /\ Main \in Actors /\ Workers \subseteq Actors
         /\ \A a \in Actors : job[a] \in Nat
         /\ \A i \in 1..Len(queue) : queue[i] \in Nat
         /\ \A j \in Jobs : j \in Nat
         /\ \A s \in sent : s[1] \in Jobs /\ s[2] \in Results /\ s = <<s[1], s[2]>>
BY NumJobsAssumption, WorkersAssumption
   DEF Account, IInv, TypeOK, NextJob, Jobs, Actors, Shutdown

\* The phases of an invalid pool and the scope of the Sender, at every step.
LEMMA PhasesStay ==
  ASSUME Account, Next
  PROVE  InvalidIdle' /\ SenderScope'
<1>. USE WorkersAssumption DEF Account, IInv, TypeOK, Options, Placement, ProperStates, CallStates, WorkersGone,
         AfterWorkers, Goto, Advance, Actors, counters, monitor, vars
<1>1. ASSUME NEW w \in Workers, WorkerStep(w) PROVE InvalidIdle' /\ SenderScope'
  BY <1>1 DEF WorkerStep, LockReceiver, ReceiveJob, LeaveLoop, StartJob, CheckCancelled, FinishJob,
     WorkerDies, StopBatch, LeaveRunning, CountOutcome, SendOutcome, Exit, InvalidIdle, SenderScope
<1>2. CASE StartJob(Main) \/ LeaveRunning(Main) \/ CountOutcome(Main) \/ SendOutcome(Main)
  BY <1>2 DEF StartJob, LeaveRunning, CountOutcome, SendOutcome, InvalidIdle, SenderScope
<1>3. CASE SendShutdown \/ DispatchJob \/ RefuseJob \/ CloseChannel
  BY <1>3 DEF SendShutdown, DispatchJob, RefuseJob, CloseChannel, InvalidIdle, SenderScope
<1>4. CASE JoinWorkers \/ DrainResults \/ CollectResult \/ LoadRunning \/ ExchangeRunning \/ Summarise
  BY <1>4 DEF JoinWorkers, DrainResults, CollectResult, LoadRunning, ExchangeRunning, Summarise,
     InvalidIdle, SenderScope
<1>5. CASE MonitorStep \/ Cancel \/ Terminating
  BY <1>5 DEF MonitorStep, MonitorChecks, MonitorReads, MonitorReports, MonitorWakes, Cancel,
     Terminating, InvalidIdle, SenderScope
<1>. QED
  BY <1>1, <1>2, <1>3, <1>4, <1>5 DEF Next, MainStep

\* A step that moves no job: the channel, the results sent and the jobs run
\* stay, and a worker takes up a job or lets go of one nowhere.
StillWorkers ==
    \A w \in Workers : \/ pc'[w] = pc[w]
                       \/ pc[w] = "lock" /\ pc'[w] = "recv"
                       \/ pc[w] = "start" /\ pc'[w] = "check"
                       \/ pc[w] \in {"stop", "leave"} /\ pc'[w] \in {"leave", "count"}
                       \/ pc[w] = "count" /\ pc'[w] = "send"

\* While no job moves, every job stays where it is.
LEMMA StillPlaces ==
  ASSUME Account, InvalidIdle', SenderScope', StillWorkers,
         \A j \in Jobs : j < NextJob => j < NextJob',
         UNCHANGED <<opts, queue, sent, ran, outcome>>, \A w \in Workers : job'[w] = job[w],
         cancelled => cancelled'
  PROVE  Placement'
<1>. USE DEF Account, Placement, InHand
<1>j. \A w \in Workers : InHand(w) => job[w] \in Jobs
  BY DEF IInv, JobInHand, Holding, Actors
<1>q. \A i \in 1..Len(queue) : queue[i] # Shutdown => queue[i] \in Jobs
  BY DEF IInv, TypeOK
<1>0. \A w \in Workers : InHand(w)' <=> InHand(w)
  BY DEF StillWorkers
<1>1. ShutdownIdle'
  BY <1>0 DEF ShutdownIdle
<1>2. QueueOrder' /\ QueueFresh'
  BY <1>0, <1>q, Numbers DEF QueueOrder, QueueFresh
<1>3. HandsApart' /\ HandsUnsent'
  BY <1>0, <1>j, Numbers DEF HandsApart, HandsUnsent
<1>4. SentOnce' /\ RanBelow'
  BY Numbers DEF SentOnce, RanBelow, IInv, TypeOK
<1>5. HandKnows'
  BY DEF HandKnows, StillWorkers
<1>. QED
  BY <1>1, <1>2, <1>3, <1>4, <1>5

\* The steps that move no job keep every job where it is.
LEMMA StillSteps ==
  ASSUME Account, Next,
         \/ \E w \in Workers : LockReceiver(w) \/ StopBatch(w)
         \/ \E a \in Actors : StartJob(a) \/ LeaveRunning(a) \/ CountOutcome(a)
         \/ RefuseJob \/ CloseChannel \/ JoinWorkers \/ DrainResults \/ CollectResult
         \/ LoadRunning \/ ExchangeRunning \/ Summarise \/ MonitorStep \/ Cancel \/ Terminating
  PROVE  Placement'
<1>. USE DEF Account, IInv, TypeOK, Goto, Advance, counters, monitor, vars
<1>0. Main \in Actors /\ Main \notin Workers /\ Workers \subseteq Actors
  BY WorkersAssumption DEF Actors
<1>1. /\ UNCHANGED <<opts, queue, sent, ran, outcome>>
      /\ \A w \in Workers : job'[w] = job[w]
      /\ cancelled => cancelled'
  BY <1>0 DEF LockReceiver, StopBatch, StartJob, LeaveRunning, CountOutcome, RefuseJob,
     CloseChannel, JoinWorkers, DrainResults, CollectResult, LoadRunning, ExchangeRunning, Summarise,
     MonitorStep, MonitorChecks, MonitorReads, MonitorReports, MonitorWakes, Cancel, Terminating
<1>2. StillWorkers
  <2>1. CASE \E a \in Actors : StartJob(a) \/ LeaveRunning(a) \/ CountOutcome(a)
    BY <2>1, <1>0 DEF StillWorkers, StartJob, LeaveRunning, CountOutcome, Placement, InvalidIdle
  <2>2. CASE \E w \in Workers : LockReceiver(w) \/ StopBatch(w)
    BY <2>2, <1>0 DEF StillWorkers, LockReceiver, StopBatch
  <2>3. CASE ~ \E w \in Workers : pc'[w] # pc[w]
    BY <2>3 DEF StillWorkers
  <2>4. CASE \/ RefuseJob \/ CloseChannel \/ JoinWorkers \/ DrainResults \/ CollectResult
             \/ LoadRunning \/ ExchangeRunning \/ Summarise \/ MonitorStep \/ Cancel \/ Terminating
    BY <2>4, <1>0 DEF StillWorkers, RefuseJob, CloseChannel, JoinWorkers, DrainResults, CollectResult,
       LoadRunning, ExchangeRunning, Summarise, MonitorStep, MonitorChecks, MonitorReads,
       MonitorReports, MonitorWakes, Cancel, Terminating
  <2>. QED
    BY <2>1, <2>2, <2>4
<1>3. \A j \in Jobs : j < NextJob => j < NextJob'
  <2>. USE <1>0, NumJobsAssumption DEF NextJob, Jobs, Offering, JobInHand, Holding, ProperStates, WorkerStates
  <2>1. ASSUME NEW w \in Workers, LockReceiver(w) \/ StopBatch(w) \/ StartJob(w) \/ LeaveRunning(w)
               \/ CountOutcome(w)
        PROVE  NextJob' = NextJob
    BY <2>1 DEF LockReceiver, StopBatch, StartJob, LeaveRunning, CountOutcome
  <2>2. CASE StartJob(Main) \/ LeaveRunning(Main) \/ CountOutcome(Main)
    BY <2>2 DEF StartJob, LeaveRunning, CountOutcome, Placement, InvalidIdle, SenderScope
  <2>3. CASE RefuseJob \/ CloseChannel \/ JoinWorkers \/ DrainResults \/ CollectResult
    BY <2>3 DEF RefuseJob, CloseChannel, JoinWorkers, DrainResults, CollectResult
  <2>4. CASE LoadRunning \/ ExchangeRunning \/ Summarise
    BY <2>4 DEF LoadRunning, ExchangeRunning, Summarise, Placement, SenderScope, CallStates
  <2>5. CASE MonitorStep \/ Cancel \/ Terminating
    BY <2>5 DEF MonitorStep, MonitorChecks, MonitorReads, MonitorReports, MonitorWakes, Cancel, Terminating
  <2>. QED
    BY <2>1, <2>2, <2>3, <2>4, <2>5 DEF Actors
<1>. QED
  BY <1>1, <1>2, <1>3, PhasesStay, StillPlaces

\* recv() takes the first job off the channel into a worker's hands.
LEMMA ReceiveJobPlaces ==
  ASSUME Account, NEW w \in Workers, ReceiveJob(w)
  PROVE  Placement'
<1>. DEFINE j == queue[1]
<1>. USE DEF Account, Placement, InHand
<1>1. /\ queue # <<>> /\ queue' = Tail(queue) /\ job' = [job EXCEPT ![w] = j] /\ j # Shutdown
      /\ pc' = [pc EXCEPT ![w] = "start"] /\ pc[w] = "recv"
      /\ UNCHANGED <<opts, senderOpen, sent, ran, outcome, cancelled>>
  BY QueueHead DEF ReceiveJob, Goto, IInv
<1>2. /\ 1 \in 1..Len(queue)
      /\ \A i \in 1..Len(queue') : i + 1 \in 1..Len(queue) /\ i \in Nat /\ queue'[i] = queue[i + 1]
  BY <1>1, QueueHead DEF IInv
<1>3. NextJob' = NextJob
  BY <1>1, WorkersAssumption DEF NextJob, IInv, TypeOK, Actors
<1>4. \A v \in Workers : v # w => /\ InHand(v)' <=> InHand(v)
                                  /\ pc'[v] = pc[v] /\ job'[v] = job[v]
  BY <1>1 DEF IInv, TypeOK, Actors
<1>5. job'[w] = j /\ pc'[w] = "start" /\ ~InHand(w)
  BY <1>1 DEF IInv, TypeOK, Actors
<1>6. j < NextJob /\ j \notin ran /\ (\A v \in Workers : InHand(v) => job[v] # j)
      /\ \A s \in sent : s[1] # j
  BY <1>1, <1>2 DEF QueueFresh
<1>7. opts.call = "process"
  BY <1>1, <1>2 DEF ShutdownIdle, IInv, TypeOK, Options
<1>8. \A i \in 1..Len(queue') : queue'[i] > j
  <2>1. \A i \in Nat : i + 1 \in 1..Len(queue) => 1 < i + 1 \/ i = 0
    OBVIOUS
  <2>2. \A i \in 1..Len(queue') : i # 0
    BY <1>2
  <2>3. \A i \in 1..Len(queue') : queue[1] < queue[i + 1]
    BY <1>2, <1>7, <2>1, <2>2 DEF QueueOrder
  <2>4. \A i \in 1..Len(queue') : queue[i + 1] \in Nat /\ queue[1] \in Nat
    BY <1>2, Numbers
  <2>. QED
    BY <1>2, <2>3, <2>4
<1>. HIDE DEF j
<1>9. ShutdownIdle'
  BY <1>1, <1>2, <1>7 DEF ShutdownIdle
<1>10. QueueOrder'
  BY <1>1, <1>2, <1>7 DEF QueueOrder
<1>11. QueueFresh'
  BY <1>1, <1>2, <1>3, <1>4, <1>5, <1>8, Numbers DEF QueueFresh
<1>12. HandsApart' /\ HandsUnsent'
  BY <1>1, <1>3, <1>4, <1>5, <1>6 DEF HandsApart, HandsUnsent
<1>13. SentOnce' /\ RanBelow'
  BY <1>1, <1>3 DEF SentOnce, RanBelow
<1>14. HandKnows'
  BY <1>1, <1>4, <1>5, <1>6 DEF HandKnows
<1>15. InvalidIdle' /\ SenderScope'
  <2>1. Next
    BY DEF Next, WorkerStep
  <2>. QED
    BY <2>1, PhasesStay
<1>. QED
  BY <1>9, <1>10, <1>11, <1>12, <1>13, <1>14, <1>15

\* A worker that leaves, orderly or by dying, only lets go of a job, and may
\* take the rest of the channel with it.
LEMMA LeaverPlaces ==
  ASSUME Account, NEW w \in Workers, LeaveLoop(w) \/ WorkerDies(w)
  PROVE  Placement'
<1>. USE DEF Account, Placement, InHand
<1>1. /\ UNCHANGED <<opts, senderOpen, sent, ran, job, outcome, cancelled>>
      /\ pc' = [pc EXCEPT ![w] = "exited"]
  BY DEF LeaveLoop, WorkerDies, Exit, Goto
<1>2. \/ queue' = queue \/ queue' = <<>>
      \/ queue # <<>> /\ queue' = Tail(queue)
  BY DEF LeaveLoop, WorkerDies, Exit
<1>3. \E d \in {0, 1} : \A i \in 1..Len(queue') :
           i + d \in 1..Len(queue) /\ i \in Nat /\ queue'[i] = queue[i + d]
  <2>1. CASE queue' = queue
    BY <2>1 DEF IInv, TypeOK
  <2>2. CASE queue' = <<>>
    BY <2>2
  <2>3. CASE queue # <<>> /\ queue' = Tail(queue)
    BY <2>3, QueueHead DEF IInv
  <2>. QED
    BY <1>2, <2>1, <2>2, <2>3
<1>4. \A v \in Workers : InHand(v)' => InHand(v) /\ pc'[v] = pc[v] /\ v # w
  BY <1>1 DEF IInv, TypeOK, Actors
<1>5. NextJob' = NextJob
  BY <1>1, WorkersAssumption DEF NextJob, IInv, TypeOK, Actors
<1>6. ShutdownIdle'
  BY <1>1, <1>3, <1>4 DEF ShutdownIdle
<1>7. QueueOrder' /\ QueueFresh'
  <2>1. PICK d \in {0, 1} : \A i \in 1..Len(queue') :
            i + d \in 1..Len(queue) /\ i \in Nat /\ queue'[i] = queue[i + d]
    BY <1>3
  <2>2. \A i, k \in 1..Len(queue') : i < k => i + d < k + d
    BY <2>1
  <2>3. QueueOrder'
    BY <1>1, <2>1, <2>2 DEF QueueOrder
  <2>4. QueueFresh'
    BY <1>1, <2>1, <1>4, <1>5 DEF QueueFresh
  <2>. QED
    BY <2>3, <2>4
<1>8. HandsApart' /\ HandsUnsent' /\ SentOnce' /\ RanBelow'
  BY <1>1, <1>4, <1>5 DEF HandsApart, HandsUnsent, SentOnce, RanBelow
<1>9. HandKnows'
  BY <1>1, WorkersAssumption DEF HandKnows, IInv, TypeOK, Actors
<1>10. InvalidIdle' /\ SenderScope'
  <2>1. Next
    BY DEF Next, WorkerStep
  <2>. QED
    BY <2>1, PhasesStay
<1>. QED
  BY <1>6, <1>7, <1>8, <1>9, <1>10

\* The closure of process_jobs settles a job in hand, or runs it: the job was
\* never run before.
LEMMA CheckerPlaces ==
  ASSUME Account, NEW w \in Workers, CheckCancelled(w) \/ FinishJob(w)
  PROVE  Placement'
<1>. USE DEF Account, Placement, InHand
<1>1. /\ UNCHANGED <<opts, queue, senderOpen, sent, job, cancelled>>
      /\ \A v \in Workers : v # w => pc'[v] = pc[v] /\ outcome'[v] = outcome[v]
      /\ ran \subseteq ran' /\ ran' \subseteq ran \cup {job[w]}
      /\ pc[w] \in {"check", "run"} /\ pc'[w] \in {"run", "stop", "leave"}
      /\ pc'[Main] = pc[Main]
  BY WorkersAssumption DEF CheckCancelled, FinishJob, Goto, IInv, TypeOK, Actors
<1>2. \A v \in Workers : InHand(v)' <=> InHand(v)
  BY <1>1
<1>3. NextJob' = NextJob
  BY <1>1 DEF NextJob
<1>4. /\ pc'[w] = "run" => job[w] \in ran'
      /\ pc'[w] \in {"stop", "leave"} =>
           /\ outcome'[w] = "Success" => job[w] \in ran'
           /\ outcome'[w] = "Cancelled" => cancelled /\ job[w] \notin ran'
  BY DEF CheckCancelled, FinishJob, Goto, IInv, TypeOK, Actors, HandKnows
<1>5. ShutdownIdle'
  BY <1>1, <1>2 DEF ShutdownIdle
<1>6. QueueOrder' /\ QueueFresh'
  BY <1>1, <1>2, <1>3 DEF QueueOrder, QueueFresh
<1>7. HandsApart' /\ HandsUnsent' /\ SentOnce'
  BY <1>1, <1>2, <1>3 DEF HandsApart, HandsUnsent, SentOnce
<1>8. RanBelow'
  BY <1>1, <1>3 DEF RanBelow, HandsUnsent
<1>9. HandKnows'
  BY <1>1, <1>4 DEF HandKnows, HandsApart
<1>10. InvalidIdle' /\ SenderScope'
  <2>1. Next
    BY DEF Next, WorkerStep
  <2>. QED
    BY <2>1, PhasesStay
<1>. QED
  BY <1>5, <1>6, <1>7, <1>8, <1>9, <1>10

\* A worker reports the job in its hands; main reports the job it has been
\* refused, which no thread ever saw.
LEMMA SendOutcomePlaces ==
  ASSUME Account, NEW a \in Actors, SendOutcome(a), opts.valid
  PROVE  Placement'
<1>. DEFINE s == <<job[a], outcome[a]>>
<1>. USE DEF Account, Placement, InHand
<1>1. /\ UNCHANGED <<opts, queue, senderOpen, ran, outcome, cancelled>>
      /\ sent' = sent \cup {s} /\ pc[a] = "send"
      /\ s[1] = job[a] /\ s[2] = outcome[a] /\ job[a] \in Jobs
  BY DEF SendOutcome, counters, IInv, JobInHand, Holding
<1>. HIDE DEF s
<1>2. /\ \A w \in Workers : InHand(w)' => InHand(w) /\ pc'[w] = pc[w] /\ w # a
      /\ \A w \in Workers : job'[w] = job[w]
  BY WorkersAssumption DEF SendOutcome, Goto, Advance, IInv, TypeOK, Actors
<1>3. /\ NextJob' >= NextJob /\ s[1] < NextJob' /\ NextJob' \in Nat /\ NextJob \in Nat
  <2>1. CASE a = Main
    <3>1. senderOpen /\ NextJob = job[Main] /\ job'[Main] = job[Main] + 1 /\ pc'[Main] = "dispatch"
      BY <2>1, <1>1 DEF SendOutcome, Advance, Goto, SenderScope, CallStates, NextJob, Offering,
         IInv, TypeOK, Options, Actors
    <3>. QED
      BY <3>1, <2>1, <1>1, Numbers DEF NextJob, Offering
  <2>2. CASE a \in Workers
    <3>1. NextJob' = NextJob
      BY <2>2, <1>1, WorkersAssumption DEF SendOutcome, Goto, NextJob, IInv, TypeOK, Actors
    <3>. QED
      BY <3>1, <2>2, <1>1, Numbers DEF HandsUnsent
  <2>. QED
    BY <2>1, <2>2 DEF Actors
<1>4. /\ \A i \in 1..Len(queue) : queue[i] # s[1]
      /\ \A w \in Workers : InHand(w) /\ w # a => job[w] # s[1]
      /\ \A t \in sent : t[1] # s[1]
  <2>1. CASE a = Main
    <3>1. NextJob = s[1] /\ s[1] # Shutdown
      BY <2>1, <1>1 DEF SendOutcome, SenderScope, CallStates, NextJob, Offering,
         IInv, TypeOK, Options, Jobs, Shutdown
    <3>. QED
      BY <3>1, <2>1, Numbers, WorkersAssumption DEF QueueFresh, HandsUnsent, SentOnce
  <2>2. CASE a \in Workers
    <3>1. s[1] # Shutdown
      BY <1>1 DEF Jobs, Shutdown
    <3>. QED
      BY <3>1, <2>2, <1>1 DEF QueueFresh, HandsApart, HandsUnsent
  <2>. QED
    BY <2>1, <2>2 DEF Actors
<1>5. ShutdownIdle'
  BY <1>1, <1>2 DEF ShutdownIdle, CallStates, IInv, Actors
<1>6. QueueOrder' /\ QueueFresh'
  BY <1>1, <1>2, <1>3, <1>4, Numbers DEF QueueOrder, QueueFresh
<1>7. HandsApart' /\ HandsUnsent'
  BY <1>1, <1>2, <1>3, <1>4, Numbers DEF HandsApart, HandsUnsent
<1>8. SentOnce' /\ RanBelow'
  <2>1. \A j \in ran : j \in Nat
    BY Numbers DEF IInv, TypeOK
  <2>. QED
    BY <1>1, <1>3, <1>4, <2>1, Numbers DEF SentOnce, RanBelow
<1>9. HandKnows'
  BY <1>1, <1>2 DEF HandKnows, ProperStates, IInv
<1>10. InvalidIdle' /\ SenderScope'
  <2>1. Next
    BY DEF Next, WorkerStep, MainStep, Actors
  <2>. QED
    BY <2>1, PhasesStay
<1>. QED
  BY <1>5, <1>6, <1>7, <1>8, <1>9, <1>10

\* Main's sends: the next job, which is above every job before it, or a
\* Shutdown message.
LEMMA SenderPlaces ==
  ASSUME Account, DispatchJob \/ SendShutdown
  PROVE  Placement'
<1>. USE DEF Account, Placement, InHand
<1>1. /\ UNCHANGED <<opts, senderOpen, sent, ran, outcome, cancelled>>
      /\ \A w \in Workers : pc'[w] = pc[w] /\ job'[w] = job[w]
  BY WorkersAssumption DEF DispatchJob, SendShutdown, Goto, Advance, IInv, TypeOK, Actors, Jobs
<1>2. /\ NextJob' \in Nat /\ NextJob \in Nat
      /\ \A j \in Jobs : j < NextJob => j < NextJob'
  <2>1. CASE DispatchJob
    <3>1. /\ pc[Main] = "dispatch" /\ pc'[Main] = "dispatch" /\ job'[Main] = job[Main] + 1
          /\ UNCHANGED senderOpen /\ job[Main] \in Nat
      BY <2>1, Numbers DEF DispatchJob, Goto, Advance, IInv, TypeOK
    <3>2. /\ NextJob = IF senderOpen THEN job[Main] ELSE NumJobs + 1
          /\ NextJob' = IF senderOpen THEN job[Main] + 1 ELSE NumJobs + 1
      BY <3>1 DEF NextJob, Offering
    <3>. QED
      BY <3>1, <3>2, Numbers
  <2>2. CASE SendShutdown
    <3>1. pc[Main] = "shutdown" /\ pc'[Main] \in {"shutdown", "join"}
      BY <2>2, Numbers DEF SendShutdown, Goto, Advance, IInv, TypeOK
    <3>. QED
      BY <3>1, Numbers DEF NextJob, Offering
  <2>. QED
    BY <2>1, <2>2
<1>3. /\ \A i \in 1..Len(queue) : queue[i] # Shutdown => queue[i] \in Jobs
      /\ \A w \in Workers : InHand(w) => job[w] \in Jobs
      /\ \A s \in sent : s[1] \in Jobs
      /\ ran \subseteq Jobs
  BY Numbers DEF IInv, TypeOK, JobInHand, Holding, Actors
<1>4. HandsApart' /\ HandsUnsent' /\ SentOnce' /\ RanBelow' /\ HandKnows'
  BY <1>1, <1>2, <1>3 DEF HandsApart, HandsUnsent, SentOnce, RanBelow, HandKnows
<1>5. ShutdownIdle' /\ QueueOrder' /\ QueueFresh'
  <2>1. CASE queue' = queue
    BY <2>1, <1>1, <1>2, <1>3 DEF ShutdownIdle, QueueOrder, QueueFresh
  <2>2. CASE SendShutdown /\ queue' = Append(queue, Shutdown)
    <3>1. opts.call = "shutdown"
      BY <2>2 DEF SendShutdown, CallStates, IInv, TypeOK, Options
    <3>2. \A i \in 1..Len(queue') : queue'[i] = Shutdown
      BY <2>2, <3>1, QueueLast DEF IInv, ShutdownIdle
    <3>. QED
      BY <3>1, <3>2, <1>1 DEF ShutdownIdle, QueueOrder, QueueFresh
  <2>3. CASE DispatchJob
    <3>. DEFINE j == job[Main]
    <3>1. /\ queue' = Append(queue, j) /\ j \in Jobs /\ opts.valid /\ opts.call = "process"
          /\ NextJob = j /\ NextJob' = j + 1 /\ j # Shutdown
      BY <2>3, Numbers DEF DispatchJob, InvalidIdle, SenderScope, CallStates, Goto, Advance, NextJob, Offering,
         IInv, TypeOK, Options, Jobs, Shutdown, Actors
    <3>. HIDE DEF j
    <3>2. \A i \in 1..Len(queue') : \/ i \in 1..Len(queue) /\ queue'[i] = queue[i] /\ i < Len(queue')
                                    \/ i = Len(queue') /\ queue'[i] = j
      BY <3>1, QueueLast DEF IInv
    <3>3. \A i \in 1..Len(queue) : queue[i] < j /\ queue[i] \in Nat
      BY <3>1, <1>3, Numbers DEF QueueFresh, ShutdownIdle
    <3>4. /\ j \notin ran /\ (\A w \in Workers : InHand(w) => job[w] # j)
          /\ \A s \in sent : s[1] # j
      BY <3>1, Numbers DEF RanBelow, HandsUnsent, SentOnce
    <3>5. ShutdownIdle'
      BY <3>1, <3>2, <1>1 DEF ShutdownIdle
    <3>6. QueueOrder'
      BY <3>1, <3>2, <3>3, <1>1 DEF QueueOrder
    <3>7. QueueFresh'
      <4>1. j < NextJob'
        BY <3>1, Numbers
      <4>2. ASSUME NEW i \in 1..Len(queue'), queue'[i] # Shutdown
            PROVE  /\ queue'[i] < NextJob' /\ queue'[i] \notin ran
                   /\ \A w \in Workers : InHand(w) => job[w] # queue'[i]
                   /\ \A s \in sent : s[1] # queue'[i]
        <5>1. CASE i \in 1..Len(queue) /\ queue'[i] = queue[i]
          BY <5>1, <4>2, <1>2, <1>3 DEF QueueFresh
        <5>2. CASE queue'[i] = j
          BY <5>2, <4>1, <3>4
        <5>. QED
          BY <5>1, <5>2, <3>2
      <4>. QED
        BY <4>2, <1>1 DEF QueueFresh
    <3>. QED
      BY <3>5, <3>6, <3>7
  <2>. QED
    BY <2>1, <2>2, <2>3 DEF DispatchJob, SendShutdown
<1>6. InvalidIdle' /\ SenderScope'
  <2>1. Next
    BY DEF Next, MainStep
  <2>. QED
    BY <2>1, PhasesStay
<1>. QED
  BY <1>4, <1>5, <1>6

\* Placement is kept by every step.
LEMMA StepPlaces ==
  ASSUME Account, Next
  PROVE  Placement'
<1>1. ASSUME NEW w \in Workers, WorkerStep(w) PROVE Placement'
  <2>1. w \in Actors /\ opts.valid
    BY <1>1 DEF Actors, Account, Placement, InvalidIdle, WorkerStep, LockReceiver, ReceiveJob, LeaveLoop,
       StartJob, CheckCancelled, FinishJob, WorkerDies, StopBatch, LeaveRunning, CountOutcome, SendOutcome
  <2>. QED
    BY <1>1, <2>1, StillSteps, ReceiveJobPlaces, LeaverPlaces, CheckerPlaces, SendOutcomePlaces
       DEF WorkerStep
<1>2. CASE MainStep
  <2>1. Main \in Actors /\ (SendOutcome(Main) => opts.valid)
    BY DEF Actors, Account, Placement, InvalidIdle, SendOutcome
  <2>. QED
    BY <1>2, <2>1, StillSteps, SendOutcomePlaces, SenderPlaces DEF MainStep
<1>. QED
  BY <1>1, <1>2, StillSteps DEF Next

(************************** Main walks the results *************************)

\* A worker's step touches no result, and sends nothing while main collects.
LEMMA WorkerWalk ==
  ASSUME Account, NEW w \in Workers, WorkerStep(w)
  PROVE  Walk'
<1>. USE DEF Account, IInv, TypeOK
<1>1. /\ UNCHANGED <<opts, results, senderOpen>>
      /\ pc'[Main] = pc[Main] /\ job'[Main] = job[Main]
  BY WorkersAssumption DEF WorkerStep, LockReceiver, ReceiveJob, LeaveLoop, StartJob, CheckCancelled, FinishJob,
     WorkerDies, StopBatch, LeaveRunning, CountOutcome, SendOutcome, Exit, Goto, Advance, Actors, counters
<1>2. pc[w] # "exited"
  BY DEF WorkerStep, LockReceiver, ReceiveJob, LeaveLoop, StartJob, CheckCancelled, FinishJob,
     WorkerDies, StopBatch, LeaveRunning, CountOutcome, SendOutcome
<1>3. opts.valid /\ ~Collecting
  BY <1>2 DEF Placement, InvalidIdle, Collecting, WorkersGone, AfterWorkers
<1>. QED
  BY <1>1, <1>3 DEF Walk, ResultsLate, ResultsTell, WalkFills, WalkMeetsGaps, Walking, Collecting

\* Main before its walk, or rejecting the jobs of an invalid pool.
LEMMA MainWalk ==
  ASSUME Account, \/ SendShutdown \/ DispatchJob \/ RefuseJob \/ CloseChannel
                  \/ StartJob(Main) \/ LeaveRunning(Main) \/ SendOutcome(Main) \/ JoinWorkers
  PROVE  Walk'
<1>. USE Numbers DEF Account, IInv, TypeOK, Walk, ResultsLate, ResultsTell, WalkFills, WalkMeetsGaps, Walking,
         Collecting, Placement, InvalidIdle, SenderScope, CallStates, Goto, Advance, counters
<1>1. CASE SendShutdown \/ DispatchJob
  BY <1>1 DEF SendShutdown, DispatchJob
<1>2. CASE RefuseJob \/ CloseChannel \/ JoinWorkers
  BY <1>2, WorkersAssumption DEF RefuseJob, CloseChannel, JoinWorkers, Options
<1>3. CASE StartJob(Main) \/ LeaveRunning(Main) \/ SendOutcome(Main)
  BY <1>3 DEF StartJob, LeaveRunning, SendOutcome
<1>. QED
  BY <1>1, <1>2, <1>3

\* The drain takes over exactly the outcomes sent.
LEMMA DrainTells ==
  ASSUME Account, DrainResults
  PROVE  \A j \in Jobs : \A r \in Results : <<j, r>> \in sent <=> results'[j] = r
<1>1. SUFFICES ASSUME NEW j \in Jobs, NEW r \in Results
               PROVE  <<j, r>> \in sent <=> results'[j] = r
  OBVIOUS
<1>2. results'[j] = IF \E q \in Results : <<j, q>> \in sent
                    THEN CHOOSE q \in Results : <<j, q>> \in sent ELSE None
  BY DEF DrainResults
<1>3. None \notin Results
  BY NoneAssumption DEF Results
<1>4. \A p, q \in Results : <<j, p>> \in sent /\ <<j, q>> \in sent => p = q
  <2>1. \A p, q \in Results : <<j, p>>[1] = <<j, q>>[1] /\ (<<j, p>> = <<j, q>> => p = q)
    OBVIOUS
  <2>. QED
    BY <2>1 DEF Account, Placement, SentOnce
<1>. QED
  BY <1>2, <1>3, <1>4

\* Main's walk proper.
LEMMA CollectWalk ==
  ASSUME Account, \/ CollectResult \/ LoadRunning \/ ExchangeRunning
                  \/ CountOutcome(Main) \/ Summarise \/ DrainResults
  PROVE  Walk'
<1>. USE Numbers DEF Account, IInv, TypeOK, Walk, ResultsLate, ResultsTell, WalkFills, WalkMeetsGaps, Walking,
         Collecting, Placement, InvalidIdle, SenderScope, CallStates, Goto, Advance, counters
<1>1. CASE DrainResults
  <2>1. /\ opts.call = "process" /\ opts.valid /\ ~senderOpen
        /\ pc'[Main] = "collect" /\ job'[Main] = 1 /\ UNCHANGED <<opts, senderOpen, sent>>
    BY <1>1 DEF DrainResults, Options
  <2>2. \A s \in sent : results'[s[1]] = s[2]
    BY <1>1, DrainTells
  <2>3. \A j \in Jobs : ~(j < 1)
    BY DEF Jobs
  <2>. QED
    BY <2>1, <2>2, <2>3
<1>2. CASE CollectResult
  BY <1>2, NumJobsAssumption DEF CollectResult, Options, Jobs
<1>3. CASE LoadRunning \/ ExchangeRunning
  BY <1>3 DEF LoadRunning, ExchangeRunning
<1>4. CASE Summarise
  BY <1>4 DEF Summarise
<1>5. CASE CountOutcome(Main)
  <2>1. pc[Main] = "count" /\ opts.call = "process" /\ job[Main] \in Jobs
    BY <1>5 DEF CountOutcome, JobInHand, Holding, Options
  <2>2. CASE opts.valid /\ senderOpen
    BY <1>5, <2>1, <2>2 DEF CountOutcome
  <2>3. CASE opts.valid /\ ~senderOpen
    <3>1. /\ results' = [results EXCEPT ![job[Main]] = outcome[Main]]
          /\ job'[Main] = job[Main] + 1 /\ pc'[Main] = "collect"
          /\ UNCHANGED <<opts, senderOpen, sent>>
      BY <1>5, <2>3 DEF CountOutcome
    <3>2. outcome[Main] # None
      BY NoneAssumption DEF Results, MainFails
    <3>3. \A s \in sent : s[1] # job[Main]
      BY <2>1, <2>3, NoneAssumption DEF Results
    <3>. QED
      BY <3>1, <3>2, <3>3, <2>1, <2>3
  <2>4. CASE ~opts.valid
    <3>1. /\ results' = [results EXCEPT ![job[Main]] = outcome[Main]]
          /\ job'[Main] = job[Main] + 1
          /\ pc'[Main] = IF job[Main] < NumJobs THEN "start" ELSE "summary"
          /\ UNCHANGED <<opts, senderOpen, sent>>
      BY <1>5, <2>4 DEF CountOutcome
    <3>2. outcome[Main] # None
      BY NoneAssumption DEF Results, MainFails
    <3>. QED
      BY <3>1, <3>2, <2>1, <2>4, NumJobsAssumption
  <2>. QED
    BY <2>2, <2>3, <2>4
<1>. QED
  BY <1>1, <1>2, <1>3, <1>4, <1>5

\* Walk is kept by every step.
LEMMA StepWalks ==
  ASSUME Account, Next
  PROVE  Walk'
<1>1. CASE MonitorStep \/ Cancel \/ Terminating
  BY <1>1 DEF Account, MonitorStep, MonitorChecks, MonitorReads, MonitorReports, MonitorWakes, Cancel,
     Terminating, vars, Walk, ResultsLate, ResultsTell, WalkFills, WalkMeetsGaps, Walking, Collecting
<1>. QED
  BY <1>1, WorkerWalk, MainWalk, CollectWalk DEF Next, MainStep

(******************************** Counting *********************************)

\* The counted jobs, the open jobs and the gaps are finite sets of jobs.
LEMMA TallyFinite ==
  /\ IsFiniteSet(Jobs) /\ Cardinality(Jobs) = NumJobs
  /\ \A S \in SUBSET Jobs : IsFiniteSet(S) /\ Cardinality(S) \in Nat
  /\ Successes \subseteq Jobs /\ Failures \subseteq Jobs /\ Open \subseteq Jobs /\ Gaps \subseteq Jobs
<1>1. IsFiniteSet(Jobs) /\ Cardinality(Jobs) = NumJobs
  BY FS_Interval, NumJobsAssumption DEF Jobs
<1>2. \A S \in SUBSET Jobs : IsFiniteSet(S) /\ Cardinality(S) \in Nat
  BY <1>1, FS_Subset, FS_CardinalityType
<1>. QED
  BY <1>1, <1>2 DEF Successes, Failures, CountedAs, Open, Gaps

\* One more job, one less.
LEMMA OneMore ==
  ASSUME NEW S \in SUBSET Jobs, NEW j \in Jobs
  PROVE  /\ j \notin S => Cardinality(S \cup {j}) = Cardinality(S) + 1
         /\ j \in S => Cardinality(S \ {j}) = Cardinality(S) - 1
BY TallyFinite, FS_AddElement, FS_RemoveElement

\* Live threads and main: while a worker is there, main holds no job.
LEMMA OneSide ==
  ASSUME Account, NEW w \in Workers, pc[w] # "exited"
  PROVE  /\ pc[Main] \notin {"start", "leave", "count", "send", "check", "run", "stop"}
         /\ opts.valid /\ ~Collecting /\ ~Walking
         /\ \A j \in Jobs : results[j] = None
  BY NoneAssumption
  DEF Account, IInv, WorkersGone, AfterWorkers, ProperStates, MainStates, Placement, InvalidIdle, Collecting,
      Walking, Walk, ResultsLate

\* Nobody else holds, has sent or has run what a thread is to start or count.
LEMMA OwnJob ==
  ASSUME Account, NEW a \in Actors, pc[a] \in {"start", "check", "run", "stop", "leave", "count"}
  PROVE  /\ job[a] \in Jobs
         /\ \A b \in Actors : b # a /\ pc[b] \in {"start", "check", "run", "stop", "leave", "count", "send"}
                                => job[b] # job[a]
         /\ \A s \in sent : s[1] # job[a]
         /\ results[job[a]] = None
         /\ pc[a] = "start" => job[a] \notin ran
<1>1. job[a] \in Jobs
  BY DEF Account, IInv, JobInHand, Holding
<1>2. CASE a \in Workers
  <2>1. pc[a] # "exited" /\ InHand(a)
    BY DEF InHand
  <2>2. pc[Main] \notin {"start", "leave", "count", "send", "check", "run", "stop"}
        /\ \A j \in Jobs : results[j] = None
    BY <1>2, <2>1, OneSide
  <2>. QED
    BY <1>1, <1>2, <2>1, <2>2 DEF Actors, Account, Placement, HandsApart, HandsUnsent, HandKnows, InHand
<1>3. CASE a = Main
  <2>1. \A w \in Workers : pc[w] = "exited"
    BY <1>3 DEF Account, IInv, WorkersGone, AfterWorkers, ProperStates, MainStates
  <2>2. /\ \A s \in sent : s[1] # job[a]
        /\ results[job[a]] = None
        /\ pc[a] = "start" => job[a] \notin ran
    <3>1. CASE ~opts.valid
      BY <3>1, <1>1, <1>3, Numbers DEF Account, Placement, InvalidIdle, Walk, WalkMeetsGaps, IInv, CallStates, TypeOK, Options
    <3>2. CASE opts.valid /\ senderOpen
      <4>1. NextJob = job[a] /\ opts.call = "process"
        BY <3>2, <1>3 DEF NextJob, Offering, Account, IInv, ProperStates, MainStates, CallStates, TypeOK, Options
      <4>2. ~Walking
        BY <3>2 DEF Walking, Collecting
      <4>. QED
        BY <4>1, <4>2, <1>1, Numbers DEF Account, Placement, SentOnce, RanBelow, Walk, ResultsLate
    <3>3. CASE opts.valid /\ ~senderOpen
      <4>1. pc[Main] = "count" /\ Collecting
        BY <3>3, <1>3 DEF Account, IInv, ProperStates, MainStates, Placement, SenderScope, CallStates,
           TypeOK, Options, Collecting
      <4>. QED
        BY <4>1, <1>1, <1>3, Numbers, NoneAssumption DEF Account, Walk, WalkMeetsGaps, ResultsTell, Results
    <3>. QED
      BY <3>1, <3>2, <3>3 DEF Account, IInv, TypeOK, Options
  <2>. QED
    BY <1>1, <1>3, <2>1, <2>2 DEF Actors
<1>. QED
  BY <1>2, <1>3 DEF Actors

\* What was counted before stays so while threads do not enter or leave the
\* state between counting and sending.
LEMMA CountedStay ==
  ASSUME Account, UNCHANGED <<sent, results, outcome>>,
         \A a \in Actors : /\ pc'[a] = "send" <=> pc[a] = "send"
                           /\ pc[a] = "send" => job'[a] = job[a]
  PROVE  Successes' = Successes /\ Failures' = Failures
<1>1. \A r \in Results : CountedAs(r)' = CountedAs(r)
  BY DEF CountedAs
<1>. QED
  BY <1>1 DEF Successes, Failures, Results

\* The sets that Tally counts, and the counters, may all stay.
LEMMA TallyStays ==
  ASSUME Account, UNCHANGED counters, Successes' = Successes, Failures' = Failures,
         ~Collecting' => ~Collecting /\ Open' = Open,
         Collecting' => Collecting /\ Gaps' = Gaps
  PROVE  Tally'
BY DEF Account, Tally, counters

\* start_job opens the job in hand.
LEMMA StartTallies ==
  ASSUME Account, NEW a \in Actors, StartJob(a)
  PROVE  Tally'
<1>. USE DEF Account
<1>1. /\ pc[a] = "start" /\ pc' = [pc EXCEPT ![a] = IF a = Main THEN "leave" ELSE "check"]
      /\ running' = running + 1
      /\ UNCHANGED <<opts, completed, failed, senderOpen, job, outcome, sent, results, ran>>
  BY DEF StartJob, Goto
<1>2. /\ pc'[a] \in {"leave", "check"}
      /\ \A b \in Actors : b # a => pc'[b] = pc[b]
  BY <1>1 DEF IInv, TypeOK
<1>3. Successes' = Successes /\ Failures' = Failures
  BY <1>1, <1>2, CountedStay
<1>4. ~Collecting /\ ~Collecting'
  <2>1. CASE a = Main
    BY <1>1, <1>2, <2>1, WorkersAssumption DEF Collecting, Placement, SenderScope, Actors
  <2>2. CASE a \in Workers
    BY <1>1, <1>2, <2>2, OneSide, WorkersAssumption DEF Collecting, Actors
  <2>. QED
    BY <2>1, <2>2 DEF Actors
<1>5. Live' = Live \cup {a}
  BY <1>1, <1>2 DEF Live, Counted
<1>6. job[a] \in Jobs /\ job[a] \notin Open
  BY <1>1, OwnJob DEF Open, Live, Counted
<1>7. Open' = Open \cup {job[a]}
  BY <1>1, <1>2, <1>5, <1>6 DEF Open
<1>. QED
  BY <1>1, <1>3, <1>4, <1>6, <1>7, OneMore, TallyFinite DEF Tally

\* The decrement of complete_job and fail_job answers that start_job.
LEMMA LeaveTallies ==
  ASSUME Account, NEW a \in Actors, LeaveRunning(a)
  PROVE  Tally'
<1>. USE DEF Account
<1>1. /\ pc[a] = "leave" /\ pc' = [pc EXCEPT ![a] = "count"]
      /\ running' = running - 1
      /\ UNCHANGED <<opts, completed, failed, senderOpen, job, outcome, sent, results, ran>>
  BY DEF LeaveRunning, Goto
<1>2. /\ pc'[a] = "count"
      /\ \A b \in Actors : b # a => pc'[b] = pc[b]
  BY <1>1 DEF IInv, TypeOK
<1>3. Successes' = Successes /\ Failures' = Failures
  BY <1>1, <1>2, CountedStay
<1>4. ~Collecting /\ ~Collecting'
  <2>1. CASE a = Main
    BY <1>1, <1>2, <2>1, WorkersAssumption DEF Collecting, Placement, SenderScope, Actors
  <2>2. CASE a \in Workers
    BY <1>1, <1>2, <2>2, OneSide, WorkersAssumption DEF Collecting, Actors
  <2>. QED
    BY <2>1, <2>2 DEF Actors
<1>5. a \in Live /\ Live' = Live \ {a}
  BY <1>1, <1>2 DEF Live, Counted
<1>6. job[a] \in Jobs /\ job[a] \in Open
  BY <1>1, <1>5, OwnJob DEF Open
<1>7. \A b \in Live' : job[b] # job[a]
  BY <1>1, <1>5, OwnJob DEF Live, Counted
<1>8. \A j \in Jobs : j # job[a] => (j \in Open' <=> j \in Open)
  BY <1>1, <1>2, <1>5 DEF Open
<1>9. job[a] \notin Open'
  BY <1>1, <1>2, <1>7 DEF Open
<1>10. Open' = Open \ {job[a]}
  BY <1>6, <1>8, <1>9 DEF Open
<1>. QED
  BY <1>1, <1>3, <1>4, <1>6, <1>10, OneMore, TallyFinite DEF Tally

\* The counter of the outcome takes the job in: it was not counted before.
LEMMA CountTallies ==
  ASSUME Account, NEW a \in Actors, CountOutcome(a)
  PROVE  Tally'
<1>. DEFINE j == job[a]
            r == outcome[a]
<1>. USE DEF Account
<1>1. /\ pc[a] = "count" /\ r \in Results /\ j \in Jobs
      /\ UNCHANGED <<opts, running, senderOpen, outcome, sent, ran>>
      /\ IF r = "Success" THEN completed' = completed + 1 /\ UNCHANGED failed
                          ELSE failed' = failed + 1 /\ UNCHANGED completed
  BY OwnJob DEF CountOutcome, IInv, TypeOK
<1>2. /\ \A b \in Actors : b # a => pc'[b] = pc[b] /\ job'[b] = job[b]
      /\ \/ pc'[a] = "send" /\ job'[a] = j /\ results' = results
         \/ /\ pc'[a] \in {"collect", "start", "summary"} /\ a = Main
            /\ results' = [results EXCEPT ![j] = r] /\ job'[a] = j + 1
            /\ opts.valid => pc'[a] = "collect"
      /\ a = Main /\ opts.valid /\ ~senderOpen => pc'[a] # "send"
  BY <1>1, WorkersAssumption DEF CountOutcome, Goto, Advance, IInv, TypeOK
<1>3. /\ \A b \in Actors : b # a /\ pc[b] \in {"start", "check", "run", "stop", "leave", "count", "send"}
                              => job[b] # j
      /\ \A s \in sent : s[1] # j
      /\ results[j] = None
  BY <1>1, OwnJob
<1>. HIDE DEF j, r
<1>4. \A q \in Results : j \notin CountedAs(q)
  BY <1>1, <1>3, NoneAssumption DEF CountedAs, Results
<1>5. \A q \in Results : CountedAs(q)' = IF q = r THEN CountedAs(q) \cup {j} ELSE CountedAs(q)
  <2>1. \A q \in Results : \A k \in Jobs : k # j => (k \in CountedAs(q)' <=> k \in CountedAs(q))
    <3>1. \A k \in Jobs : k # j => results'[k] = results[k]
      BY <1>2 DEF IInv, TypeOK
    <3>2. \A b \in Actors : \A k \in Jobs : k # j =>
              ((pc'[b] = "send" /\ job'[b] = k) <=> (pc[b] = "send" /\ job[b] = k))
      BY <1>1, <1>2 DEF j
    <3>. QED
      BY <1>1, <3>1, <3>2 DEF CountedAs
  <2>2. \A q \in Results : j \in CountedAs(q)' <=> q = r
    <3>1. \A q \in Results : <<j, q>> \notin sent
      BY <1>3
    <3>2. \A b \in Actors : b # a => ~(pc'[b] = "send" /\ job'[b] = j)
      BY <1>2, <1>3
    <3>3. None \notin Results
      BY NoneAssumption DEF Results
    <3>4. CASE pc'[a] = "send" /\ job'[a] = j /\ results' = results
      BY <1>1, <1>3, <3>1, <3>2, <3>3, <3>4 DEF CountedAs, r
    <3>5. CASE pc'[a] # "send" /\ results' = [results EXCEPT ![j] = r]
      <4>1. results'[j] = r
        BY <1>1, <3>5 DEF IInv, TypeOK
      <4>. QED
        BY <1>1, <3>1, <3>2, <3>5, <4>1 DEF CountedAs
    <3>. QED
      BY <1>2, <3>4, <3>5
  <2>3. \A q \in Results : CountedAs(q) \subseteq Jobs /\ CountedAs(q)' \subseteq Jobs
    BY DEF CountedAs
  <2>4. ASSUME NEW q \in Results
        PROVE  CountedAs(q)' = IF q = r THEN CountedAs(q) \cup {j} ELSE CountedAs(q)
    <3>1. CASE q = r
      <4>1. CountedAs(q)' = CountedAs(q) \cup {j}
        BY <2>1, <2>2, <2>3, <1>1, <3>1
      <4>. QED
        BY <3>1, <4>1
    <3>2. CASE q # r
      <4>1. j \notin CountedAs(q) /\ j \notin CountedAs(q)'
        BY <2>2, <1>4, <3>2
      <4>2. CountedAs(q)' = CountedAs(q)
        BY <2>1, <2>3, <4>1
      <4>. QED
        BY <3>2, <4>2
    <3>. QED
      BY <3>1, <3>2
  <2>. QED
    BY <2>4
<1>6. /\ completed' = Cardinality(Successes') /\ failed' = Cardinality(Failures')
  <2>1. CASE r = "Success"
    <3>1. Successes' = Successes \cup {j} /\ Failures' = Failures /\ j \notin Successes
      BY <1>5, <1>4, <2>1 DEF Successes, Failures, Results
    <3>. QED
      BY <1>1, <2>1, <3>1, OneMore, TallyFinite DEF Tally
  <2>2. CASE r # "Success"
    <3>1. Failures' = Failures \cup {j} /\ Successes' = Successes /\ j \notin Failures
      BY <1>1, <1>5, <1>4, <2>2 DEF Successes, Failures, Results
    <3>. QED
      BY <1>1, <2>2, <3>1, OneMore, TallyFinite DEF Tally
  <2>. QED
    BY <2>1, <2>2
<1>7. CASE Collecting
  <2>1. a = Main /\ opts.valid /\ ~senderOpen
    BY <1>1, <1>7, OneSide DEF Collecting, Actors
  <2>2. /\ pc'[Main] = "collect" /\ job'[Main] = j + 1 /\ results' = [results EXCEPT ![j] = r]
        /\ pc[Main] = "count" /\ job[Main] = j
    BY <1>1, <1>2, <2>1 DEF j
  <2>3. Collecting' /\ r # None
    BY <1>1, <1>7, <2>2, NoneAssumption DEF Collecting, Results
  <2>4. \A k \in Jobs : k >= j + 1 <=> k > j
    BY <1>1, Numbers
  <2>5. \A k \in Jobs : k > j => k # j
    BY <1>1, Numbers
  <2>6. \A k \in Jobs : k # j => results'[k] = results[k]
    BY <2>2 DEF IInv, TypeOK
  <2>7. Gaps' = {k \in Jobs : results'[k] = None /\ k >= j + 1}
    BY <2>2 DEF Gaps
  <2>8. Gaps = {k \in Jobs : results[k] = None /\ k > j}
    BY <2>2 DEF Gaps
  <2>9. Gaps' = Gaps
    BY <2>4, <2>5, <2>6, <2>7, <2>8
  <2>. QED
    BY <1>1, <1>6, <1>7, <2>3, <2>9 DEF Tally
<1>8. CASE ~Collecting
  <2>1. ~Collecting'
    <3>1. CASE a \in Workers
      BY <1>1, <1>2, <1>8, <3>1, OneSide, WorkersAssumption DEF Collecting, Actors
    <3>2. CASE a = Main
      BY <1>1, <1>2, <1>8, <3>2 DEF Collecting, Placement, SenderScope, IInv, CallStates, TypeOK, Options
    <3>. QED
      BY <3>1, <3>2 DEF Actors
  <2>2. Live' = Live
    BY <1>1, <1>2 DEF Live, Counted
  <2>3. \A b \in Live : job'[b] = job[b]
    BY <1>1, <1>2 DEF Live, Counted
  <2>4. CASE pc'[a] = "send" /\ job'[a] = j
    <3>1. \A b \in Actors : \A k \in Jobs :
              (pc[b] \in {"count", "send"} => job[b] # k) <=> (pc'[b] \in {"count", "send"} => job'[b] # k)
      BY <1>1, <1>2, <2>4 DEF j
    <3>2. Open' = Open
      BY <1>1, <2>2, <2>3, <3>1 DEF Open
    <3>. QED
      BY <1>1, <1>6, <1>8, <2>1, <3>2 DEF Tally
  <2>5. CASE pc'[a] # "send"
    <3>1. a = Main /\ ~opts.valid
      <4>1. a = Main /\ opts.call = "process"
        BY <1>1, <1>2, <2>5 DEF IInv, CallStates, TypeOK, Options
      <4>2. ~opts.valid \/ ~senderOpen
        <5>1. opts.valid /\ senderOpen => pc' = [pc EXCEPT ![a] = "send"]
          BY DEF CountOutcome, Goto
        <5>. QED
          BY <5>1, <2>5 DEF IInv, TypeOK
      <4>. QED
        BY <1>1, <1>8, <4>1, <4>2 DEF Collecting
    <3>2. ran = {}
      BY <3>1 DEF Placement, InvalidIdle
    <3>3. Open' = Open
      BY <1>1, <2>2, <2>3, <3>2 DEF Open
    <3>. QED
      BY <1>1, <1>6, <1>8, <2>1, <3>3 DEF Tally
  <2>. QED
    BY <1>2, <2>4, <2>5
<1>. QED
  BY <1>7, <1>8

\* A report moves a counted job from the thread's hands into the channel.
LEMMA SendTallies ==
  ASSUME Account, NEW a \in Actors, SendOutcome(a)
  PROVE  Tally'
<1>. DEFINE j == job[a]
            r == outcome[a]
<1>. USE DEF Account
<1>1. /\ pc[a] = "send" /\ r \in Results /\ j \in Jobs
      /\ sent' = sent \cup {<<j, r>>}
      /\ UNCHANGED <<opts, counters, senderOpen, outcome, results, ran>>
  BY DEF SendOutcome, counters, IInv, TypeOK, JobInHand, Holding
<1>2. /\ \A b \in Actors : b # a => pc'[b] = pc[b] /\ job'[b] = job[b]
      /\ pc'[a] \in {"lock", "dispatch"}
  BY <1>1, WorkersAssumption DEF SendOutcome, Goto, Advance, IInv, TypeOK
<1>. HIDE DEF j, r
<1>3. \A q \in Results : CountedAs(q)' = CountedAs(q)
  <2>1. \A q \in Results : \A k \in Jobs :
            (<<k, q>> \in sent' \/ \E b \in Actors : pc'[b] = "send" /\ job'[b] = k /\ outcome'[b] = q)
              <=> (<<k, q>> \in sent \/ \E b \in Actors : pc[b] = "send" /\ job[b] = k /\ outcome[b] = q)
    BY <1>1, <1>2 DEF j, r
  <2>. QED
    BY <1>1, <2>1 DEF CountedAs
<1>4. Successes' = Successes /\ Failures' = Failures
  BY <1>3 DEF Successes, Failures, Results
<1>5. ~Collecting /\ ~Collecting'
  <2>1. ~Collecting
    <3>1. CASE a = Main
      BY <1>1, <3>1 DEF Collecting
    <3>2. CASE a \in Workers
      BY <1>1, <3>2, OneSide
    <3>. QED
      BY <3>1, <3>2 DEF Actors
  <2>2. CASE a = Main
    <3>1. pc'[Main] \in {"lock", "dispatch"}
      BY <1>2, <2>2
    <3>2. ~Collecting'
      BY <3>1 DEF Collecting
    <3>. QED
      BY <2>1, <3>2
  <2>3. CASE a \in Workers
    <3>1. pc'[Main] = pc[Main]
      BY <1>2, <2>3, WorkersAssumption DEF Actors
    <3>. QED
      BY <1>1, <2>1, <3>1 DEF Collecting
  <2>. QED
    BY <2>1, <2>2, <2>3 DEF Actors
<1>6. Open' = Open
  <2>1. Live' = Live /\ \A b \in Live : job'[b] = job[b]
    BY <1>1, <1>2 DEF Live, Counted
  <2>2. \A k \in Jobs :
            ((\A b \in Actors : pc'[b] \in {"count", "send"} => job'[b] # k) /\ \A s \in sent' : s[1] # k)
              <=> ((\A b \in Actors : pc[b] \in {"count", "send"} => job[b] # k) /\ \A s \in sent : s[1] # k)
    <3>1. <<j, r>>[1] = j
      OBVIOUS
    <3>. QED
      BY <1>1, <1>2, <3>1 DEF j
  <2>. QED
    BY <1>1, <2>1, <2>2 DEF Open
<1>. QED
  BY <1>1, <1>4, <1>5, <1>6, TallyStays

\* A worker's other steps open and close nothing: the job it takes is not
\* started, the job it runs is open already and stays so if the worker dies.
LEMMA WorkerTallies ==
  ASSUME Account, NEW w \in Workers,
         \/ LockReceiver(w) \/ ReceiveJob(w) \/ LeaveLoop(w) \/ CheckCancelled(w)
         \/ FinishJob(w) \/ WorkerDies(w) \/ StopBatch(w)
  PROVE  Tally'
<1>. USE DEF Account
<1>1. /\ pc[w] \in {"lock", "recv", "check", "run", "stop"}
      /\ pc'[w] \in {"recv", "start", "exited", "run", "stop", "leave"}
      /\ \A b \in Actors : b # w => /\ pc'[b] = pc[b] /\ job'[b] = job[b]
                                    /\ outcome'[b] = outcome[b]
      /\ w \in Actors /\ w # Main
      /\ UNCHANGED <<opts, counters, senderOpen, results, sent>>
  BY WorkersAssumption
  DEF LockReceiver, ReceiveJob, LeaveLoop, CheckCancelled, FinishJob, WorkerDies, StopBatch, Exit,
      Goto, IInv, TypeOK, Actors, counters
<1>2. Successes' = Successes /\ Failures' = Failures
  <2>1. \A q \in Results : CountedAs(q)' = CountedAs(q)
    BY <1>1 DEF CountedAs
  <2>. QED
    BY <2>1 DEF Successes, Failures, Results
<1>3. ~Collecting /\ ~Collecting'
  <2>1. pc[w] # "exited" /\ pc'[Main] = pc[Main]
    BY <1>1 DEF Actors
  <2>2. ~Collecting
    BY <2>1, OneSide
  <2>. QED
    BY <1>1, <2>1, <2>2 DEF Collecting
<1>4. Open' = Open
  <2>1. \A k \in Jobs : (\A b \in Actors : pc'[b] \in {"count", "send"} => job'[b] # k)
                        <=> \A b \in Actors : pc[b] \in {"count", "send"} => job[b] # k
    BY <1>1
  <2>2. CASE pc[w] \in {"lock", "recv"}
    <3>1. pc'[w] \in {"recv", "start", "exited"} /\ ran' = ran
      BY <2>2 DEF LockReceiver, ReceiveJob, LeaveLoop, CheckCancelled, FinishJob, WorkerDies, StopBatch, Exit,
         Goto, IInv, TypeOK, Actors
    <3>2. Live' = Live /\ \A b \in Live : job'[b] = job[b]
      BY <1>1, <2>2, <3>1 DEF Live, Counted
    <3>. QED
      BY <1>1, <2>1, <3>1, <3>2 DEF Open
  <2>3. CASE pc[w] \in {"check", "run", "stop"}
    <3>1. /\ job' = job
          /\ ran' = ran \/ ran' = ran \cup {job[w]}
          /\ pc'[w] = "exited" => pc[w] = "run"
          /\ pc'[w] \in {"exited", "run", "stop", "leave"}
      BY <2>3 DEF LockReceiver, ReceiveJob, LeaveLoop, CheckCancelled, FinishJob, WorkerDies, StopBatch, Exit,
         Goto, IInv, TypeOK, Actors
    <3>2. /\ w \in Live /\ job[w] \in Jobs
          /\ \A s \in sent : s[1] # job[w]
          /\ \A b \in Actors : pc[b] \in {"count", "send"} => job[b] # job[w]
      BY <1>1, <2>3, OwnJob DEF Live, Counted
    <3>3. Live \ {w} \subseteq Live' /\ Live' \subseteq Live
      BY <1>1, <3>2 DEF Live
    <3>4. job[w] \in Open /\ job[w] \in Open'
      <4>1. CASE pc'[w] = "exited"
        <5>1. job[w] \in ran'
          BY <3>1, <4>1 DEF Placement, HandKnows
        <5>. QED
          BY <1>1, <2>1, <3>1, <3>2, <5>1 DEF Open
      <4>2. CASE pc'[w] # "exited"
        <5>1. w \in Live'
          BY <1>1, <3>1, <4>2 DEF Live, Counted
        <5>. QED
          BY <3>1, <3>2, <5>1 DEF Open
      <4>. QED
        BY <3>2, <4>1, <4>2 DEF Open
    <3>5. \A k \in Jobs : k # job[w] => (k \in Open' <=> k \in Open)
      BY <1>1, <2>1, <3>1, <3>3 DEF Open
    <3>. QED
      BY <3>2, <3>4, <3>5 DEF Open
  <2>. QED
    BY <1>1, <2>2, <2>3
<1>. QED
  BY <1>1, <1>2, <1>3, <1>4, TallyStays

\* Before main collects, it opens and closes nothing by sending, refusing,
\* closing the channel or joining.
LEMMA MainTallies ==
  ASSUME Account, SendShutdown \/ DispatchJob \/ RefuseJob \/ CloseChannel \/ JoinWorkers
  PROVE  Tally'
<1>. USE DEF Account
<1>1. /\ pc[Main] \in {"shutdown", "dispatch", "join"}
      /\ pc'[Main] \in {"shutdown", "dispatch", "start", "join", "drain", "returned"}
      /\ pc'[Main] = "returned" => opts.call = "shutdown"
      /\ \A b \in Actors : b # Main => pc'[b] = pc[b] /\ job'[b] = job[b]
      /\ UNCHANGED <<opts, counters, outcome, results, sent, ran>>
  BY DEF SendShutdown, DispatchJob, RefuseJob, CloseChannel, JoinWorkers,
      Goto, Advance, IInv, TypeOK, Actors, counters
<1>2. Successes' = Successes /\ Failures' = Failures
  BY <1>1, CountedStay
<1>3. ~Collecting /\ ~Collecting'
  BY <1>1 DEF Collecting
<1>4. Live' = Live /\ \A b \in Live : job'[b] = job[b]
  BY <1>1 DEF Live, Counted
<1>5. \A k \in Jobs : (\A b \in Actors : pc'[b] \in {"count", "send"} => job'[b] # k)
                        <=> \A b \in Actors : pc[b] \in {"count", "send"} => job[b] # k
  BY <1>1
<1>6. Open' = Open
  BY <1>1, <1>4, <1>5 DEF Open
<1>. QED
  BY <1>1, <1>2, <1>3, <1>6, TallyStays

\* The drain: what is still open is a job nobody reported, so main has a gap
\* for it.
LEMMA DrainTallies ==
  ASSUME Account, DrainResults
  PROVE  Tally'
<1>. USE DEF Account
<1>1. /\ pc[Main] = "drain" /\ pc'[Main] = "collect" /\ job'[Main] = 1
      /\ \A b \in Actors : b # Main => pc'[b] = pc[b] /\ job'[b] = job[b]
      /\ UNCHANGED <<opts, counters, senderOpen, outcome, sent, ran>>
  BY DEF DrainResults, Goto, IInv, TypeOK, Actors, counters
<1>2. ~Walking /\ ~Collecting /\ Collecting'
  BY <1>1 DEF Collecting, Walking, IInv, CallStates, TypeOK, Options, Placement, InvalidIdle
<1>3. \A w \in Workers : pc[w] = "exited"
  BY <1>1 DEF IInv, WorkersGone, AfterWorkers
<1>4. \A b \in Actors : pc[b] \notin {"check", "run", "stop", "leave", "count", "send"}
  BY <1>1, <1>3 DEF Actors
<1>5. \A b \in Actors : pc'[b] # "send"
  BY <1>1, <1>4
<1>6. \A j \in Jobs : results[j] = None
  BY <1>2 DEF Walk, ResultsLate
<1>7. \A q \in Results : CountedAs(q)' = CountedAs(q)
  <2>1. \A q \in Results : q # None
    BY NoneAssumption DEF Results
  <2>2. \A q \in Results : CountedAs(q) = {j \in Jobs : <<j, q>> \in sent}
    BY <1>4, <1>6, <2>1 DEF CountedAs
  <2>3. \A q \in Results : \A j \in Jobs : j \in CountedAs(q)' <=> <<j, q>> \in sent
    BY <1>1, <1>5, DrainTells DEF CountedAs
  <2>4. \A q \in Results : CountedAs(q)' \subseteq Jobs
    BY DEF CountedAs
  <2>. QED
    BY <2>2, <2>3, <2>4
<1>8. Successes' = Successes /\ Failures' = Failures
  BY <1>7 DEF Successes, Failures, Results
<1>9. Open \subseteq Gaps'
  <2>1. SUFFICES ASSUME NEW j \in Open PROVE j \in Gaps'
    OBVIOUS
  <2>2. j \in Jobs /\ \A s \in sent : s[1] # j
    BY <1>4 DEF Open, Live, Counted
  <2>3. results'[j] = None
    <3>1. \A r \in Results : <<j, r>> \notin sent
      <4>1. \A r \in Results : <<j, r>>[1] = j
        OBVIOUS
      <4>. QED
        BY <2>2, <4>1
    <3>. QED
      BY <2>2, <3>1 DEF DrainResults
  <2>. QED
    BY <1>1, <2>2, <2>3, Numbers DEF Gaps, Jobs
<1>10. Cardinality(Open) <= Cardinality(Gaps')
  <2>1. Gaps' \in SUBSET Jobs
    BY DEF Gaps, Jobs
  <2>2. IsFiniteSet(Gaps')
    BY <2>1, TallyFinite
  <2>. QED
    BY <1>9, <2>2, FS_Subset
<1>. QED
  BY <1>1, <1>2, <1>8, <1>10, TallyFinite DEF Tally, counters

\* Main's walk answers what is open, one gap at a time.
LEMMA CollectTallies ==
  ASSUME Account, CollectResult \/ LoadRunning \/ ExchangeRunning \/ Summarise
  PROVE  Tally'
<1>. USE DEF Account
<1>1. /\ pc[Main] \in {"collect", "load", "cas", "summary"}
      /\ pc'[Main] \in {"collect", "load", "cas", "count", "summary", "returned"}
      /\ \A b \in Actors : b # Main => pc'[b] = pc[b] /\ job'[b] = job[b]
      /\ UNCHANGED <<opts, completed, failed, senderOpen, outcome, results, sent, ran>>
  BY DEF CollectResult, LoadRunning, ExchangeRunning, Summarise, Goto, Advance, IInv, TypeOK, Actors, counters
<1>2. Successes' = Successes /\ Failures' = Failures
  BY <1>1, CountedStay
<1>3. CASE ~Collecting
  <2>1. Summarise /\ ~opts.valid
    BY <1>1, <1>3 DEF CollectResult, LoadRunning, ExchangeRunning, Collecting, IInv, CallStates, TypeOK, Options,
       Placement, InvalidIdle, SenderScope
  <2>2. UNCHANGED <<job, running>> /\ pc'[Main] = "returned" /\ pc[Main] = "summary"
    BY <2>1 DEF Summarise, Goto, IInv, TypeOK, Actors, counters
  <2>3. Live' = Live /\ \A b \in Live : job'[b] = job[b]
    BY <1>1, <2>2 DEF Live, Counted
  <2>4. ran = {} /\ ~Collecting'
    BY <1>1, <2>1 DEF Placement, InvalidIdle, Collecting
  <2>5. Open' = Open
    BY <1>1, <2>3, <2>4 DEF Open
  <2>. QED
    BY <1>1, <1>2, <1>3, <2>2, <2>4, <2>5 DEF Tally
<1>4. CASE Collecting
  <2>1. Collecting'
    BY <1>1, <1>4 DEF Collecting
  <2>2. Gaps \in SUBSET Jobs /\ Gaps' \in SUBSET Jobs
    BY DEF Gaps, Jobs
  <2>3. IsFiniteSet(Gaps) /\ Cardinality(Gaps) \in Nat /\ IsFiniteSet(Gaps') /\ Cardinality(Gaps') \in Nat
    BY <2>2, TallyFinite
  <2>4. running' <= Cardinality(Gaps')
    <3>1. CASE CollectResult
      <4>1. running' = running /\ pc'[Main] # "count" /\ pc[Main] # "count"
        BY <3>1 DEF CollectResult, Goto, Advance, IInv, TypeOK, Actors, counters
      <4>2. CASE job' = job
        <5>1. Gaps' = Gaps
          BY <1>1, <4>1, <4>2 DEF Gaps
        <5>. QED
          BY <1>4, <4>1, <5>1 DEF Tally
      <4>3. CASE results[job[Main]] # None /\ job'[Main] = job[Main] + 1 /\ job[Main] \in Jobs
        <5>1. \A j \in Jobs : j # job[Main] => (j >= job[Main] <=> j >= job[Main] + 1)
          BY Numbers
        <5>2. ~(job[Main] >= job[Main] + 1)
          BY Numbers
        <5>3. Gaps' = Gaps
          BY <1>1, <4>1, <4>3, <5>1, <5>2 DEF Gaps
        <5>. QED
          BY <1>4, <4>1, <5>3 DEF Tally
      <4>. QED
        BY <3>1, <4>2, <4>3, Numbers DEF CollectResult, Advance, IInv, TypeOK
    <3>2. CASE LoadRunning
      <4>1. CASE running = 0
        BY <3>2, <4>1, <2>3 DEF LoadRunning, counters
      <4>2. CASE running # 0
        <5>1. running' = running /\ job' = job /\ pc[Main] = "load" /\ pc'[Main] = "cas"
          BY <3>2, <4>2 DEF LoadRunning, counters, Goto, IInv, TypeOK, Actors
        <5>2. Gaps' = Gaps
          BY <1>1, <5>1 DEF Gaps
        <5>. QED
          BY <1>4, <5>1, <5>2 DEF Tally
      <4>. QED
        BY <4>1, <4>2
    <3>3. CASE ExchangeRunning
      <4>1. /\ running' = running - 1 /\ job' = job /\ pc[Main] = "cas" /\ pc'[Main] = "count"
            /\ job[Main] \in Jobs /\ results[job[Main]] = None
        BY <3>3, <1>4, Numbers DEF ExchangeRunning, Goto, IInv, TypeOK, JobInHand, Holding, Walk, WalkMeetsGaps
      <4>2. \A j \in Jobs : j > job[Main] <=> j >= job[Main] /\ j # job[Main]
        BY Numbers
      <4>3. job[Main] >= job[Main]
        BY Numbers
      <4>4. Gaps' = Gaps \ {job[Main]} /\ job[Main] \in Gaps
        BY <1>1, <4>1, <4>2, <4>3 DEF Gaps
      <4>5. Cardinality(Gaps') = Cardinality(Gaps) - 1
        BY <2>2, <4>1, <4>4, OneMore
      <4>. QED
        BY <1>4, <2>3, <4>1, <4>5 DEF Tally, IInv, TypeOK
    <3>4. CASE Summarise
      <4>1. running' = running /\ job' = job /\ pc[Main] = "summary" /\ pc'[Main] = "returned"
        BY <3>4 DEF Summarise, counters, Goto, IInv, TypeOK, Actors
      <4>2. Gaps' = Gaps
        BY <1>1, <4>1 DEF Gaps
      <4>. QED
        BY <1>4, <4>1, <4>2 DEF Tally
    <3>. QED
      BY <3>1, <3>2, <3>3, <3>4
  <2>. QED
    BY <1>1, <1>2, <2>1, <2>4 DEF Tally
<1>. QED
  BY <1>3, <1>4

\* Tally is kept by every step.
LEMMA StepTallies ==
  ASSUME Account, Next
  PROVE  Tally'
<1>1. CASE MonitorStep \/ Cancel \/ Terminating
  <2>1. UNCHANGED <<opts, counters, senderOpen, pc, job, outcome, results, sent, ran>>
    BY <1>1 DEF MonitorStep, MonitorChecks, MonitorReads, MonitorReports, MonitorWakes, Cancel,
       Terminating, vars
  <2>. QED
    BY <2>1 DEF Account, Tally, counters, Successes, Failures, CountedAs, Open, Gaps, Live, Collecting
<1>2. Workers \subseteq Actors /\ Main \in Actors
  BY DEF Actors
<1>. QED
  BY <1>1, <1>2, StartTallies, LeaveTallies, CountTallies, SendTallies, WorkerTallies, MainTallies,
     DrainTallies, CollectTallies DEF Next, WorkerStep, MainStep

\* A thread about to send is alone with its job.
LEMMA SendAlone ==
  ASSUME Account, NEW a \in Actors, pc[a] = "send"
  PROVE  /\ \A b \in Actors : pc[b] = "send" /\ job[b] = job[a] => b = a
         /\ \A s \in sent : s[1] # job[a]
         /\ results[job[a]] = None
<1>1. job[a] \in Jobs
  BY DEF Account, IInv, JobInHand, Holding
<1>2. CASE a \in Workers
  <2>1. InHand(a) /\ \A w \in Workers : pc[w] = "send" => InHand(w)
    BY DEF InHand
  <2>2. pc[Main] # "send" /\ \A j \in Jobs : results[j] = None
    BY <1>2, OneSide
  <2>. QED
    BY <1>1, <1>2, <2>1, <2>2 DEF Actors, Account, Placement, HandsApart, HandsUnsent
<1>3. CASE a = Main
  <2>1. /\ \A w \in Workers : pc[w] # "send"
        /\ opts.valid /\ senderOpen /\ opts.call = "process" /\ ~Walking
    BY <1>3 DEF Account, IInv, WorkersGone, AfterWorkers, Placement, InvalidIdle, SenderScope, CallStates,
       TypeOK, Options, Walking, Collecting
  <2>2. NextJob = job[a]
    BY <1>3, <2>1 DEF NextJob, Offering
  <2>. QED
    BY <1>1, <1>3, <2>1, <2>2, Numbers DEF Actors, Account, Placement, SentOnce, Walk, ResultsLate
<1>. QED
  BY <1>2, <1>3 DEF Actors

\* What has been sent is what the collected results say, once they say it.
LEMMA SentOrTold ==
  ASSUME Account, NEW s \in sent
  PROVE  results[s[1]] \in {None, s[2]}
<1>1. opts.valid
  BY DEF Account, Placement, InvalidIdle
<1>2. CASE Collecting
  BY <1>2 DEF Account, Walk, ResultsTell
<1>3. CASE ~Collecting
  BY <1>1, <1>3, Numbers DEF Account, Walk, ResultsLate, Walking
<1>. QED
  BY <1>2, <1>3

\* Why a job is counted with an outcome.
LEMMA CountedCases ==
  ASSUME Account, NEW r \in Results, NEW j \in CountedAs(r)
  PROVE  /\ j \in Jobs /\ r # None
         /\ \/ results[j] = r
            \/ \E s \in sent : s[1] = j /\ s[2] = r
            \/ \E a \in Actors : pc[a] = "send" /\ job[a] = j /\ outcome[a] = r
<1>1. <<j, r>>[1] = j /\ <<j, r>>[2] = r
  OBVIOUS
<1>2. r # None
  BY NoneAssumption DEF Results
<1>. QED
  BY <1>1, <1>2 DEF CountedAs

\* Disjoint sets of jobs add up.
LEMMA DisjointSum ==
  ASSUME NEW S \in SUBSET Jobs, NEW T \in SUBSET Jobs, S \cap T = {}
  PROVE  Cardinality(S \cup T) = Cardinality(S) + Cardinality(T)
<1>1. IsFiniteSet(S) /\ IsFiniteSet(T) /\ Cardinality(S) \in Nat /\ Cardinality(T) \in Nat
  BY TallyFinite
<1>2. Cardinality(S \cap T) = 0
  BY FS_EmptySet
<1>3. Cardinality(S \cup T) = Cardinality(S) + Cardinality(T) - Cardinality(S \cap T)
  BY <1>1, FS_Union
<1>. QED
  BY <1>1, <1>2, <1>3


(***************************** The whole account ***************************)

\* Counters only grow, and what is counted or open are different jobs: the
\* sum of the three counters never exceeds the batch.
LEMMA SumBound ==
  ASSUME Account
  PROVE  completed + failed + running <= NumJobs
<1>. USE DEF Account
<1>1. Successes \cap Failures = {}
  <2>1. \A p, q \in Results : p # q => CountedAs(p) \cap CountedAs(q) = {}
    <3>1. SUFFICES ASSUME NEW p \in Results, NEW q \in Results, p # q,
                          NEW j \in CountedAs(p), j \in CountedAs(q)
                   PROVE  FALSE
      OBVIOUS
    <3>2. /\ j \in Jobs /\ p # None /\ q # None
          /\ \/ results[j] = p
             \/ \E s \in sent : s[1] = j /\ s[2] = p
             \/ \E a \in Actors : pc[a] = "send" /\ job[a] = j /\ outcome[a] = p
          /\ \/ results[j] = q
             \/ \E s \in sent : s[1] = j /\ s[2] = q
             \/ \E a \in Actors : pc[a] = "send" /\ job[a] = j /\ outcome[a] = q
      BY <3>1, CountedCases
    <3>3. \A s \in sent : s[1] = j => results[j] \in {None, s[2]}
      BY SentOrTold
    <3>4. \A s, t \in sent : s[1] = t[1] => s = t
      BY DEF Placement, SentOnce
    <3>5. CASE \E a \in Actors : pc[a] = "send" /\ job[a] = j
      <4>1. PICK a \in Actors : pc[a] = "send" /\ job[a] = j
        BY <3>5
      <4>2. /\ \A b \in Actors : pc[b] = "send" /\ job[b] = j => b = a
            /\ \A s \in sent : s[1] # j
            /\ results[j] = None
        BY <4>1, SendAlone
      <4>. QED
        BY <3>1, <3>2, <4>2
    <3>6. CASE ~ \E a \in Actors : pc[a] = "send" /\ job[a] = j
      BY <3>1, <3>2, <3>3, <3>4, <3>6
    <3>. QED
      BY <3>5, <3>6
  <2>. QED
    BY <2>1 DEF Successes, Failures, Results
<1>2. ~Collecting => Open \cap (Successes \cup Failures) = {}
  <2>1. SUFFICES ASSUME ~Collecting, NEW j \in Open, NEW r \in Results, j \in CountedAs(r)
                 PROVE  FALSE
    BY DEF Successes, Failures, Results
  <2>2. /\ j \in Jobs /\ r # None
        /\ \/ results[j] = r
           \/ \E s \in sent : s[1] = j /\ s[2] = r
           \/ \E a \in Actors : pc[a] = "send" /\ job[a] = j /\ outcome[a] = r
    BY <2>1, CountedCases
  <2>4. CASE \E a \in Live : job[a] = j
    <3>1. PICK a \in Live : job[a] = j
      BY <2>4
    <3>2. a \in Actors /\ pc[a] \in {"check", "run", "stop", "leave"}
      BY DEF Live, Counted
    <3>3. /\ \A b \in Actors : b # a /\ pc[b] = "send" => job[b] # j
          /\ \A s \in sent : s[1] # j
          /\ results[j] = None
      BY <3>1, <3>2, OwnJob
    <3>. QED
      BY <2>2, <3>2, <3>3
  <2>5. CASE ~ \E a \in Live : job[a] = j
    <3>1. /\ j \in ran
          /\ \A a \in Actors : pc[a] \in {"count", "send"} => job[a] # j
          /\ \A s \in sent : s[1] # j
      BY <2>5 DEF Open
    <3>2. opts.valid /\ ~Walking
      BY <2>1, <3>1 DEF Placement, InvalidIdle, Walking
    <3>3. results[j] = None
      BY <2>2, <3>2 DEF Walk, ResultsLate
    <3>. QED
      BY <2>2, <3>1, <3>3
  <2>. QED
    BY <2>4, <2>5
<1>3. Collecting => Gaps \cap (Successes \cup Failures) = {}
  <2>1. SUFFICES ASSUME Collecting, NEW j \in Gaps, NEW r \in Results, j \in CountedAs(r)
                 PROVE  FALSE
    BY DEF Successes, Failures, Results
  <2>2. /\ j \in Jobs /\ r # None
        /\ \/ results[j] = r
           \/ \E s \in sent : s[1] = j /\ s[2] = r
           \/ \E a \in Actors : pc[a] = "send" /\ job[a] = j /\ outcome[a] = r
    BY <2>1, CountedCases
  <2>3. results[j] = None
    BY DEF Gaps
  <2>4. \A s \in sent : s[1] = j => results[j] = s[2]
    BY <2>1 DEF Walk, ResultsTell
  <2>5. \A s \in sent : s[2] # None
    BY Numbers, NoneAssumption DEF Results
  <2>6. \A a \in Actors : pc[a] # "send"
    BY <2>1 DEF Collecting, IInv, WorkersGone, AfterWorkers, Actors
  <2>. QED
    BY <2>2, <2>3, <2>4, <2>5, <2>6
<1>4. \A S, T, U \in SUBSET Jobs : S \cap T = {} /\ U \cap (S \cup T) = {}
          => Cardinality(S) + Cardinality(T) + Cardinality(U) <= NumJobs
  <2>1. SUFFICES ASSUME NEW S \in SUBSET Jobs, NEW T \in SUBSET Jobs, NEW U \in SUBSET Jobs,
                        S \cap T = {}, U \cap (S \cup T) = {}
                 PROVE  Cardinality(S) + Cardinality(T) + Cardinality(U) <= NumJobs
    OBVIOUS
  <2>2. Cardinality(S \cup T) = Cardinality(S) + Cardinality(T)
    BY <2>1, DisjointSum
  <2>3. Cardinality((S \cup T) \cup U) = Cardinality(S \cup T) + Cardinality(U)
    <3>1. (S \cup T) \cap U = {} /\ S \cup T \in SUBSET Jobs
      BY <2>1
    <3>. QED
      BY <3>1, DisjointSum
  <2>4. Cardinality((S \cup T) \cup U) <= NumJobs
    BY TallyFinite, FS_Subset
  <2>. QED
    BY <2>2, <2>3, <2>4, TallyFinite
<1>5. CASE ~Collecting
  <2>1. Cardinality(Successes) + Cardinality(Failures) + Cardinality(Open) <= NumJobs
    BY <1>1, <1>2, <1>4, <1>5, TallyFinite
  <2>. QED
    BY <1>5, <2>1 DEF Tally
<1>6. CASE Collecting
  <2>1. Cardinality(Successes) + Cardinality(Failures) + Cardinality(Gaps) <= NumJobs
    BY <1>1, <1>3, <1>4, <1>6, TallyFinite
  <2>2. \A c, f, r, g \in Nat : c + f + g <= NumJobs /\ r <= g => c + f + r <= NumJobs
    BY NumJobsAssumption
  <2>. QED
    BY <1>6, <2>1, <2>2, TallyFinite DEF Tally, IInv, TypeOK
<1>. QED
  BY <1>5, <1>6

\* What get_info has read stays a lower bound, because counters only grow and
\* running_jobs is read last.
LEMMA StepSnapshots ==
  ASSUME Account, Next
  PROVE  SnapshotPast'
<1>. USE DEF Account, IInv, TypeOK, SnapshotPast
<1>1. ASSUME NEW a \in Actors, CountOutcome(a) PROVE SnapshotPast'
  <2>1. UNCHANGED monitor /\ completed' >= completed /\ failed' >= failed
    BY <1>1 DEF CountOutcome
  <2>2. \A x, y, z \in Nat : x <= y /\ z >= y => x <= z
    OBVIOUS
  <2>3. completed' \in Nat /\ failed' \in Nat /\ info.completed \in Nat /\ info.failed \in Nat
    BY <1>1 DEF CountOutcome
  <2>. QED
    BY <2>1, <2>2, <2>3 DEF monitor
<1>2. CASE MonitorReads
  <2>1. CASE mon = "completed" /\ mon' = "failed" /\ info' = [info EXCEPT !.completed = completed]
    BY <1>2, <2>1 DEF MonitorReads, counters
  <2>2. CASE mon = "failed" /\ mon' = "running" /\ info' = [info EXCEPT !.failed = failed]
    BY <1>2, <2>2 DEF MonitorReads, counters
  <2>3. CASE mon = "running" /\ mon' = "report" /\ info' = [info EXCEPT !.running = running]
    <3>1. info.completed + info.failed + running <= NumJobs
      <4>1. \A c, f, r, x, y \in Nat : x <= c /\ y <= f /\ c + f + r <= NumJobs => x + y + r <= NumJobs
        BY NumJobsAssumption
      <4>2. info.completed \in Nat /\ info.failed \in Nat /\ running \in Nat /\ completed \in Nat /\ failed \in Nat
        OBVIOUS
      <4>3. info.completed <= completed /\ info.failed <= failed
        BY <2>3
      <4>. QED
        BY <4>1, <4>2, <4>3, SumBound
    <3>2. info'.completed = info.completed /\ info'.failed = info.failed /\ info'.running = running
      BY <2>3
    <3>. QED
      BY <1>2, <2>3, <3>1, <3>2 DEF MonitorReads, counters
  <2>. QED
    BY <1>2, <2>1, <2>2, <2>3 DEF MonitorReads
<1>3. CASE MonitorChecks \/ MonitorReports \/ MonitorWakes \/ Cancel \/ Terminating
  BY <1>3 DEF MonitorChecks, MonitorReports, MonitorWakes, Cancel, Terminating, vars, counters, monitor
<1>4. CASE UNCHANGED <<monitor, completed, failed>>
  BY <1>4 DEF monitor
<1>5. ASSUME NEW a \in Actors, StartJob(a) \/ LeaveRunning(a) \/ SendOutcome(a)
      PROVE  SnapshotPast'
  BY <1>4, <1>5 DEF StartJob, LeaveRunning, SendOutcome, counters
<1>6. ASSUME NEW w \in Workers,
             \/ LockReceiver(w) \/ ReceiveJob(w) \/ LeaveLoop(w) \/ CheckCancelled(w)
             \/ FinishJob(w) \/ WorkerDies(w) \/ StopBatch(w)
      PROVE  SnapshotPast'
  BY <1>4, <1>6 DEF LockReceiver, ReceiveJob, LeaveLoop, CheckCancelled, FinishJob, WorkerDies, StopBatch, counters
<1>7. CASE \/ SendShutdown \/ DispatchJob \/ RefuseJob \/ CloseChannel \/ JoinWorkers \/ DrainResults
           \/ CollectResult \/ LoadRunning \/ ExchangeRunning \/ Summarise
  BY <1>4, <1>7 DEF SendShutdown, DispatchJob, RefuseJob, CloseChannel, JoinWorkers, DrainResults, CollectResult,
     LoadRunning, ExchangeRunning, Summarise, counters
<1>8. Workers \subseteq Actors /\ Main \in Actors
  BY DEF Actors
<1>. QED
  BY <1>1, <1>2, <1>3, <1>5, <1>6, <1>7, <1>8 DEF Next, WorkerStep, MainStep, MonitorStep

\* Nothing is queued, sent, collected or counted when the call begins.
LEMMA InitAccounts == Init => Account
<1>. SUFFICES ASSUME Init PROVE Account
  OBVIOUS
<1>1. IInv
  BY InitEstablishes
<1>2. queue = <<>> /\ Len(queue) = 0 /\ (\A i \in 1..Len(queue) : FALSE)
  BY DEF Init
<1>3. \A w \in Workers : pc[w] \in {"lock", "exited"}
  BY WorkersAssumption DEF Init, Actors
<1>4. pc[Main] = FirstState /\ job[Main] = 1
  BY DEF Init, Actors
<1>5. opts.call \in {"process", "shutdown"} /\ opts.valid \in BOOLEAN
  BY DEF Init, Options
<1>6. Placement
  <2>1. InvalidIdle /\ ShutdownIdle /\ SenderScope
    <3>1. ~opts.valid => \A w \in Workers : pc[w] = "exited"
      BY WorkersAssumption DEF Init, Actors
    <3>. QED
      BY <1>2, <1>3, <1>4, <1>5, <3>1
      DEF Init, FirstState, InvalidIdle, ShutdownIdle, SenderScope, InHand
  <2>2. QueueOrder /\ QueueFresh /\ HandsApart /\ HandsUnsent /\ SentOnce /\ RanBelow /\ HandKnows
    BY <1>2, <1>3
    DEF Init, QueueOrder, QueueFresh, HandsApart, HandsUnsent, SentOnce, RanBelow, HandKnows, InHand
  <2>. QED
    BY <2>1, <2>2 DEF Placement
<1>7. ~Collecting
  BY <1>4, <1>5 DEF Init, FirstState, Collecting
<1>8. Walk
  <2>1. \A j \in Jobs : results[j] = None /\ ~(j < 1)
    BY DEF Init, Jobs
  <2>2. opts.call = "process" /\ pc[Main] \in {"summary", "returned"} => NumJobs = 0
    BY <1>4, <1>5 DEF FirstState
  <2>. QED
    BY <1>4, <1>5, <1>7, <2>1, <2>2, NumJobsAssumption
    DEF Walk, ResultsLate, ResultsTell, WalkFills, WalkMeetsGaps
<1>9. Tally
  <2>1. \A r \in Results : CountedAs(r) = {}
    <3>1. \A a \in Actors : pc[a] # "send"
      BY <1>3, <1>4, <1>5 DEF FirstState, Actors
    <3>2. \A r \in Results : \A j \in Jobs : results[j] # r /\ <<j, r>> \notin sent
      BY NoneAssumption DEF Init, Results
    <3>. QED
      BY <3>1, <3>2 DEF CountedAs
  <2>2. Open = {}
    <3>1. Live = {}
      BY <1>3, <1>4, <1>5 DEF FirstState, Live, Counted, Actors
    <3>. QED
      BY <3>1 DEF Open, Init
  <2>3. Successes = {} /\ Failures = {}
    BY <2>1 DEF Successes, Failures, Results
  <2>. QED
    BY <1>7, <2>2, <2>3, FS_EmptySet DEF Tally, Init
<1>10. SnapshotPast
  BY DEF Init, SnapshotPast
<1>. QED
  BY <1>1, <1>6, <1>8, <1>9, <1>10 DEF Account

\* The whole account is kept by every step and by every stutter.
THEOREM AccountKept == Account /\ [Next]_vars => Account'
<1>1. ASSUME Account, Next PROVE Account'
  <2>1. IInv'
    BY <1>1, StepPreserves DEF Account
  <2>. QED
    BY <1>1, <2>1, StepPlaces, StepWalks, StepTallies, StepSnapshots DEF Account
<1>2. ASSUME Account, UNCHANGED vars PROVE Account'
  <2>1. IInv'
    BY <1>2, StepPreserves DEF Account
  <2>2. Placement'
    BY <1>2 DEF Account, vars, Placement, InvalidIdle, ShutdownIdle, SenderScope, QueueOrder, QueueFresh,
       HandsApart, HandsUnsent, SentOnce, RanBelow, HandKnows, NextJob, InHand
  <2>3. Walk'
    BY <1>2 DEF Account, vars, Walk, ResultsLate, ResultsTell, WalkFills, WalkMeetsGaps, Walking, Collecting
  <2>4. Tally'
    BY <1>2 DEF Account, vars, counters, Tally, Successes, Failures, CountedAs, Open, Gaps, Live, Collecting
  <2>5. SnapshotPast'
    BY <1>2 DEF Account, vars, counters, monitor, SnapshotPast
  <2>. QED
    BY <2>1, <2>2, <2>3, <2>4, <2>5 DEF Account
<1>. QED
  BY <1>1, <1>2

\* The account holds in every reachable state, for any pool and any batch.
THEOREM AccountInvariance == Spec => []Account
BY InitAccounts, AccountKept, PTL DEF Spec

\* No job is ever in two places: twice in the channel, in the hands of two
\* workers, or still on its way when it has been reported.
THEOREM EachJobInOnePlaceAlways == Spec => []EachJobInOnePlace
<1>1. Account => EachJobInOnePlace
  <2>. SUFFICES ASSUME Account PROVE EachJobInOnePlace
    OBVIOUS
  <2>. USE DEF Account, Placement
  <2>1. ASSUME NEW i \in 1..Len(queue), NEW k \in 1..Len(queue), queue[i] = queue[k], queue[i] # Shutdown
        PROVE  i = k
    <3>1. opts.call = "process"
      BY <2>1 DEF ShutdownIdle, IInv, TypeOK, Options
    <3>2. ~(i < k) /\ ~(k < i)
      BY <2>1, <3>1, Numbers DEF QueueOrder
    <3>3. i \in Int /\ k \in Int
      OBVIOUS
    <3>. QED
      BY <3>2, <3>3
  <2>2. \A w \in Workers : InHand(w) => job[w] \in Jobs
    BY DEF IInv, JobInHand, Holding, InHand, Actors
  <2>3. \A j \in Jobs : j # Shutdown
    BY DEF Jobs, Shutdown
  <2>4. \A i \in 1..Len(queue) : \A w \in Workers : InHand(w) => queue[i] # job[w]
    BY <2>2, <2>3 DEF QueueFresh
  <2>5. \A s \in sent : \A i \in 1..Len(queue) : queue[i] # s[1]
    BY <2>3, Numbers DEF QueueFresh
  <2>. QED
    BY <2>1, <2>4, <2>5 DEF EachJobInOnePlace, HandsApart, HandsUnsent, SentOnce
<1>. QED
  BY <1>1, AccountInvariance, PTL

\* The counters of a returned call agree with the results it returns, whatever
\* was cancelled, refused, or lost with a worker.
THEOREM ProgressMatchesResultsAlways == Spec => []ProgressMatchesResults
<1>1. Account => ProgressMatchesResults
  <2>. SUFFICES ASSUME Account, pc[Main] = "returned", opts.call = "process"
                PROVE  /\ running = 0
                       /\ completed = Cardinality(JobsWith("Success"))
                       /\ failed = Cardinality(JobsWith("Failed") \cup JobsWith("Cancelled"))
    BY DEF ProgressMatchesResults
  <2>. USE DEF Account
  <2>1. /\ \A a \in Actors : pc[a] \in {"exited", "returned"}
        /\ \A j \in Jobs : ~(j >= job[Main])
    <3>1. \A w \in Workers : pc[w] = "exited"
      BY DEF IInv, WorkersGone, AfterWorkers
    <3>2. job[Main] > NumJobs
      BY DEF Walk, WalkFills
    <3>. QED
      BY <3>1, <3>2, Numbers DEF Actors, Jobs
  <2>2. ~opts.valid => sent = {} /\ ran = {}
    BY DEF Placement, InvalidIdle
  <2>3. opts.valid => Collecting
    BY DEF Placement, SenderScope, Collecting
  <2>4. \A s \in sent : results[s[1]] = s[2]
    BY <2>2, <2>3 DEF IInv, TypeOK, Options, Walk, ResultsTell
  <2>5. \A r \in Results : CountedAs(r) = JobsWith(r)
    <3>1. \A r \in Results : \A j \in Jobs : <<j, r>>[1] = j /\ <<j, r>>[2] = r
      OBVIOUS
    <3>2. \A r \in Results : \A j \in Jobs : <<j, r>> \in sent => results[j] = r
      BY <2>4, <3>1
    <3>. QED
      BY <2>1, <3>2 DEF CountedAs, JobsWith
  <2>6. running = 0
    <3>1. CASE opts.valid
      <4>1. Gaps = {}
        BY <2>1 DEF Gaps
      <4>2. running <= Cardinality(Gaps)
        BY <2>3, <3>1 DEF Tally
      <4>. QED
        BY <4>1, <4>2, FS_EmptySet DEF IInv, TypeOK
    <3>2. CASE ~opts.valid
      <4>1. Open = {}
        BY <2>1, <2>2, <3>2 DEF Open, Live, Counted
      <4>. QED
        BY <3>2, <4>1, FS_EmptySet DEF Tally, Collecting
    <3>. QED
      BY <3>1, <3>2
  <2>7. CountedAs("Success") = JobsWith("Success") /\ CountedAs("Failed") = JobsWith("Failed")
        /\ CountedAs("Cancelled") = JobsWith("Cancelled")
    BY <2>5 DEF Results
  <2>. QED
    BY <2>6, <2>7 DEF Tally, Successes, Failures
<1>. QED
  BY <1>1, AccountInvariance, PTL

\* What the progress callback is told: no job counted twice, and a snapshot
\* that says the batch is complete is final.
THEOREM SnapshotsAreHonestAlways == Spec => []SnapshotsAreHonest
<1>1. Account => SnapshotsAreHonest
  <2>. SUFFICES ASSUME Account PROVE SnapshotsAreHonest
    OBVIOUS
  <2>1. SnapshotCountsEachJobOnce
    BY DEF Account, SnapshotPast, SnapshotCountsEachJobOnce
  <2>2. CompleteSnapshotIsFinal
    <3>1. \A c, f, r, x, y \in Nat : x <= c /\ y <= f /\ c + f + r <= NumJobs /\ x + y >= NumJobs
              => r = 0 /\ c = x /\ f = y
      BY NumJobsAssumption
    <3>2. /\ completed \in Nat /\ failed \in Nat /\ running \in Nat
          /\ info.completed \in Nat /\ info.failed \in Nat
      BY DEF Account, IInv, TypeOK
    <3>3. mon = "report" => info.completed <= completed /\ info.failed <= failed
      BY DEF Account, SnapshotPast
    <3>. QED
      BY <3>1, <3>2, <3>3, SumBound DEF CompleteSnapshotIsFinal, IsComplete
  <2>. QED
    BY <2>1, <2>2 DEF SnapshotsAreHonest
<1>. QED
  BY <1>1, AccountInvariance, PTL

(***************************** The contract ********************************)

\* The outcomes reported so far, as BatchContract sees them.
Told == [j \in Jobs |-> Outcome(j)]
Over == opts.call = "process" /\ pc[Main] = "returned"

\* A job nobody has reported has no outcome yet; one that has been sent or
\* collected has that outcome.
LEMMA OutcomeIs ==
  ASSUME Account, NEW j \in Jobs
  PROVE  /\ results[j] = None /\ (\A s \in sent : s[1] # j) => Outcome(j) = None
         /\ \A r \in Results : results[j] = r => Outcome(j) = r
         /\ \A s \in sent : s[1] = j => Outcome(j) = s[2]
<1>1. \A r \in Results : <<j, r>>[1] = j /\ <<j, r>>[2] = r
  OBVIOUS
<1>2. \A r \in Results : r # None
  BY NoneAssumption DEF Results
<1>3. ASSUME \A s \in sent : s[1] # j, results[j] = None PROVE Outcome(j) = None
  <2>1. ~ \E r \in Results : <<j, r>> \in sent
    BY <1>1, <1>3
  <2>. QED
    BY <1>3, <2>1 DEF Outcome
<1>4. ASSUME NEW s \in sent, s[1] = j PROVE Outcome(j) = s[2]
  <2>1. s[2] \in Results /\ s = <<j, s[2]>>
    BY <1>4, Numbers
  <2>2. results[j] \in {None, s[2]}
    BY <1>4, SentOrTold
  <2>3. \A r \in Results : <<j, r>> \in sent => r = s[2]
    BY <1>1, <1>4 DEF Account, Placement, SentOnce
  <2>4. (CHOOSE r \in Results : <<j, r>> \in sent) = s[2]
    BY <1>4, <2>1, <2>3
  <2>. QED
    BY <1>2, <2>1, <2>2, <2>4 DEF Outcome
<1>. QED
  BY <1>2, <1>3, <1>4 DEF Outcome

\* A call begins as the contract does.
LEMMA InitContract == Init => Contract!Init
<1>. SUFFICES ASSUME Init PROVE Contract!Init
  OBVIOUS
<1>1. \A j \in Jobs : Outcome(j) = None
  BY DEF Init, Outcome
<1>2. Contract!Jobs = Jobs
  BY DEF Contract!Jobs, Jobs
<1>3. pc[Main] # "returned"
  BY DEF Init, FirstState, Actors
<1>. QED
  BY <1>1, <1>2, <1>3 DEF Init, Contract!Init

\* Steps that tell the caller nothing new.
LEMMA SilentSteps ==
  ASSUME UNCHANGED <<cancelled, ran>>, Told' = Told, Over' = Over
  PROVE  UNCHANGED Contract!vars
BY DEF Told, Over, Contract!vars

\* A thread or a caller cancels the batch before the call is over.
LEMMA StopSteps ==
  ASSUME cancelled' = TRUE, UNCHANGED <<opts, ran, sent, results>>, ~Over, ~Over'
  PROVE  Contract!Next
<1>1. UNCHANGED Told
  BY DEF Told, Outcome
<1>2. Contract!Stop
  BY <1>1 DEF Contract!Stop, Told, Over
<1>. QED
  BY <1>2 DEF Contract!Next, Over

\* A report settles a job that had no outcome, with an outcome that fits.
LEMMA SettleSteps ==
  ASSUME Account, Account', NEW j \in Jobs, NEW r \in Results,
         results[j] = None, \A s \in sent : s[1] # j,
         \/ sent' = sent \cup {<<j, r>>} /\ results' = results
         \/ results' = [results EXCEPT ![j] = r] /\ sent' = sent,
         UNCHANGED <<cancelled, ran>>,
         r = "Success" => j \in ran, r = "Cancelled" => cancelled /\ j \notin ran,
         ~Over, ~Over'
  PROVE  Contract!Next
<1>1. Outcome(j) = None
  BY OutcomeIs
<1>2. Outcome(j)' = r
  <2>1. \A s : s = <<j, r>> => s[1] = j /\ s[2] = r
    OBVIOUS
  <2>2. CASE sent' = sent \cup {<<j, r>>} /\ results' = results
    <3>1. <<j, r>> \in sent' /\ \A q \in Results : <<j, q>> \in sent' => q = r
      <4>1. \A q \in Results : <<j, q>>[1] = j /\ (<<j, q>> = <<j, r>> => q = r)
        OBVIOUS
      <4>. QED
        BY <2>2, <4>1
    <3>2. (CHOOSE q \in Results : <<j, q>> \in sent') = r
      BY <3>1
    <3>. QED
      BY <2>2, <3>1, <3>2 DEF Outcome
  <2>3. CASE results' = [results EXCEPT ![j] = r] /\ sent' = sent
    <3>1. results'[j] = r /\ r # None
      BY <2>3, NoneAssumption DEF Account, IInv, TypeOK, Results
    <3>. QED
      BY <3>1 DEF Outcome
  <2>. QED
    BY <2>2, <2>3
<1>3. \A k \in Jobs : k # j => Outcome(k)' = Outcome(k)
  <2>1. ASSUME NEW k \in Jobs, k # j PROVE Outcome(k)' = Outcome(k)
    <3>1. \A q \in Results : <<k, q>> \in sent' <=> <<k, q>> \in sent
      <4>1. \A q \in Results : <<k, q>> # <<j, r>>
        BY <2>1
      <4>. QED
        BY <4>1
    <3>2. results'[k] = results[k]
      BY <2>1 DEF Account, IInv, TypeOK
    <3>3. (CHOOSE q \in Results : <<k, q>> \in sent') = (CHOOSE q \in Results : <<k, q>> \in sent)
      BY <3>1
    <3>. QED
      BY <3>1, <3>2, <3>3 DEF Outcome
  <2>. QED
    BY <2>1
<1>4. Told' = [Told EXCEPT ![j] = r]
  BY <1>2, <1>3 DEF Told
<1>5. Told[j] = None
  BY <1>1 DEF Told
<1>6. j \in Contract!Jobs
  BY DEF Contract!Jobs, Jobs
<1>7. Contract!Settle(j)
  BY <1>4, <1>5 DEF Contract!Settle, Told, Over, Results
<1>. QED
  BY <1>6, <1>7 DEF Contract!Next, Over

\* Reports and settled gaps are the only steps that settle a job; a worker
\* runs a job once, and only in a batch nobody has cancelled.
LEMMA StepContract == Account /\ [Next]_vars => [Contract!Next]_(Contract!vars)
<1>. SUFFICES ASSUME Account, [Next]_vars PROVE [Contract!Next]_(Contract!vars)
  OBVIOUS
<1>. USE DEF Account
<1>0. /\ Account'
      /\ Main \in Actors /\ Main \notin Workers /\ Workers \subseteq Actors
  BY AccountKept, WorkersAssumption DEF Actors
<1>1. ASSUME NEW w \in Workers, pc[w] # "exited" PROVE ~Over
  BY <1>1 DEF Over, IInv, WorkersGone
<1>2. ASSUME UNCHANGED <<cancelled, ran, sent, results>>, Over' = Over
      PROVE  UNCHANGED Contract!vars
  <2>1. Told' = Told
    BY <1>2 DEF Told, Outcome
  <2>. QED
    BY <1>2, <2>1, SilentSteps
<1>3. CASE UNCHANGED vars
  BY <1>2, <1>3 DEF vars, Over
<1>4. CASE MonitorStep \/ Terminating
  BY <1>2, <1>4 DEF MonitorStep, MonitorChecks, MonitorReads, MonitorReports, MonitorWakes, Terminating,
     vars, Over
<1>5. CASE Cancel
  <2>1. ~Over /\ ~Over'
    BY <1>5 DEF Cancel, Over
  <2>. QED
    BY <1>5, <2>1, StopSteps DEF Cancel
<1>6. ASSUME NEW w \in Workers, WorkerStep(w) PROVE [Contract!Next]_(Contract!vars)
  <2>1. pc[w] # "exited" /\ pc'[Main] = pc[Main] /\ UNCHANGED opts
    BY <1>0, <1>6 DEF WorkerStep, LockReceiver, ReceiveJob, LeaveLoop, StartJob, CheckCancelled, FinishJob,
       WorkerDies, StopBatch, LeaveRunning, CountOutcome, SendOutcome, Exit, Goto, Advance, IInv, TypeOK, counters
  <2>2. ~Over /\ ~Over'
    BY <1>1, <2>1 DEF Over
  <2>3. CASE \/ LockReceiver(w) \/ ReceiveJob(w) \/ LeaveLoop(w) \/ StartJob(w) \/ FinishJob(w)
             \/ WorkerDies(w) \/ LeaveRunning(w) \/ CountOutcome(w)
    <3>1. UNCHANGED <<cancelled, ran, sent, results>>
      BY <1>0, <2>3 DEF LockReceiver, ReceiveJob, LeaveLoop, StartJob, FinishJob,
         WorkerDies, LeaveRunning, CountOutcome
    <3>. QED
      BY <1>2, <2>2, <3>1 DEF Over
  <2>4. CASE StopBatch(w)
    BY <2>2, <2>4, StopSteps DEF StopBatch
  <2>5. CASE SendOutcome(w)
    <3>1. /\ pc[w] = "send" /\ job[w] \in Jobs /\ outcome[w] \in Results
          /\ sent' = sent \cup {<<job[w], outcome[w]>>}
          /\ UNCHANGED <<cancelled, ran, results>>
      BY <1>0, <2>5 DEF SendOutcome, IInv, TypeOK, JobInHand, Holding
    <3>2. (\A s \in sent : s[1] # job[w]) /\ results[job[w]] = None
      BY <1>0, <3>1, SendAlone
    <3>3. /\ outcome[w] = "Success" => job[w] \in ran
          /\ outcome[w] = "Cancelled" => cancelled /\ job[w] \notin ran
      BY <3>1 DEF Placement, HandKnows
    <3>. QED
      BY <1>0, <2>2, <3>1, <3>2, <3>3, SettleSteps
  <2>6. CASE CheckCancelled(w)
    <3>1. CASE ran' = ran
      <4>1. UNCHANGED <<cancelled, ran, sent, results>>
        BY <2>6, <3>1 DEF CheckCancelled
      <4>. QED
        BY <1>2, <2>2, <4>1 DEF Over
    <3>2. CASE ~cancelled /\ ran' = ran \cup {job[w]}
      <4>1. /\ pc[w] = "check" /\ UNCHANGED <<cancelled, sent, results>>
        BY <2>6 DEF CheckCancelled
      <4>2. /\ job[w] \in Jobs /\ (\A s \in sent : s[1] # job[w]) /\ results[job[w]] = None
        BY <1>0, <4>1, OwnJob
      <4>3. job[w] \notin ran
        BY <4>1 DEF Placement, HandKnows
      <4>4. Told' = Told /\ Told[job[w]] = None
        BY <4>1, <4>2, OutcomeIs DEF Told, Outcome
      <4>5. Contract!Run(job[w])
        BY <2>2, <3>2, <4>1, <4>3, <4>4 DEF Contract!Run, Told, Over
      <4>6. job[w] \in Contract!Jobs
        BY <4>2 DEF Contract!Jobs, Jobs
      <4>. QED
        BY <2>2, <4>5, <4>6 DEF Contract!Next, Over
    <3>. QED
      BY <2>6, <3>1, <3>2 DEF CheckCancelled
  <2>. QED
    BY <1>6, <2>3, <2>4, <2>5, <2>6 DEF WorkerStep
<1>7. CASE MainStep
  <2>1. CASE \/ SendShutdown \/ DispatchJob \/ CloseChannel \/ StartJob(Main) \/ LeaveRunning(Main)
             \/ CollectResult \/ LoadRunning \/ ExchangeRunning
    <3>1. UNCHANGED <<cancelled, ran, sent, results>> /\ Over' = Over
      BY <1>0, <2>1 DEF SendShutdown, DispatchJob, CloseChannel, StartJob, LeaveRunning,
         CollectResult, LoadRunning, ExchangeRunning, Goto, Advance, Over, IInv, TypeOK
    <3>. QED
      BY <1>2, <3>1
  <2>2. CASE JoinWorkers
    <3>1. UNCHANGED <<cancelled, ran, sent, results>> /\ Over' = Over
      BY <1>0, <2>2 DEF JoinWorkers, Goto, Over, IInv, TypeOK
    <3>. QED
      BY <1>2, <3>1
  <2>3. CASE RefuseJob
    <3>1. ~Over /\ ~Over'
      BY <1>0, <2>3 DEF RefuseJob, Goto, Over, IInv, TypeOK
    <3>. QED
      BY <2>3, <3>1, StopSteps DEF RefuseJob
  <2>4. CASE SendOutcome(Main)
    <3>1. /\ pc[Main] = "send" /\ job[Main] \in Jobs /\ outcome[Main] = "Failed"
          /\ sent' = sent \cup {<<job[Main], outcome[Main]>>}
          /\ UNCHANGED <<cancelled, ran, results>>
      BY <1>0, <2>4 DEF SendOutcome, IInv, TypeOK, JobInHand, Holding, MainFails
    <3>2. (\A s \in sent : s[1] # job[Main]) /\ results[job[Main]] = None
      BY <1>0, <3>1, SendAlone
    <3>3. ~Over /\ ~Over'
      BY <1>0, <2>4 DEF SendOutcome, Goto, Advance, Over, IInv, TypeOK
    <3>4. outcome[Main] \in Results /\ outcome[Main] # "Success" /\ outcome[Main] # "Cancelled"
      BY <3>1 DEF Results
    <3>. QED
      BY <1>0, <3>1, <3>2, <3>3, <3>4, SettleSteps
  <2>5. CASE CountOutcome(Main)
    <3>1. /\ pc[Main] = "count" /\ UNCHANGED <<cancelled, ran, sent>>
      BY <2>5 DEF CountOutcome
    <3>2. /\ outcome[Main] \in Results /\ outcome[Main] # "Success" /\ outcome[Main] # "Cancelled"
      BY DEF IInv, MainFails, Results
    <3>3. ~Over /\ ~Over'
      BY <1>0, <2>5 DEF CountOutcome, Goto, Advance, Over, IInv, TypeOK
    <3>4. CASE results' = results
      BY <1>2, <3>1, <3>3, <3>4 DEF Over
    <3>5. CASE results' = [results EXCEPT ![job[Main]] = outcome[Main]]
      <4>1. /\ job[Main] \in Jobs /\ (\A s \in sent : s[1] # job[Main]) /\ results[job[Main]] = None
        BY <1>0, <3>1, OwnJob
      <4>. QED
        BY <1>0, <3>1, <3>2, <3>3, <3>5, <4>1, SettleSteps
    <3>. QED
      BY <2>5, <3>4, <3>5 DEF CountOutcome
  <2>6. CASE DrainResults
    <3>1. /\ UNCHANGED <<cancelled, ran, sent>> /\ Over' = Over
      BY <1>0, <2>6 DEF DrainResults, Goto, Over, IInv, TypeOK
    <3>2. ~Walking
      BY <2>6 DEF DrainResults, Walking, Collecting, IInv, Placement, InvalidIdle
    <3>3. \A j \in Jobs : results[j] = None
      BY <3>2 DEF Walk, ResultsLate
    <3>4. \A j \in Jobs : Outcome(j)' = Outcome(j)
      BY <2>6, <3>1, <3>3 DEF DrainResults, Outcome
    <3>5. Told' = Told
      BY <3>4 DEF Told
    <3>. QED
      BY <3>1, <3>5, SilentSteps
  <2>7. CASE Summarise
    <3>1. /\ pc[Main] = "summary" /\ pc'[Main] = "returned"
          /\ UNCHANGED <<opts, cancelled, ran, sent, results>>
      BY <1>0, <2>7 DEF Summarise, Goto, IInv, TypeOK
    <3>2. opts.call = "process"
      BY <3>1 DEF IInv, CallStates, TypeOK, Options
    <3>3. \A j \in Jobs : results[j] # None
      <4>1. Walking /\ job[Main] > NumJobs
        BY <3>1, <3>2 DEF Walking, Collecting, Placement, SenderScope, Walk, WalkFills, IInv, TypeOK, Options
      <4>2. \A j \in Jobs : j < job[Main]
        BY <1>0, <4>1, Numbers DEF Jobs
      <4>. QED
        BY <4>1, <4>2 DEF Walk, WalkFills
    <3>4. Told' = Told /\ \A j \in Jobs : Told[j] # None
      BY <3>1, <3>3 DEF Told, Outcome
    <3>5. Contract!Return
      BY <3>1, <3>2, <3>4 DEF Contract!Return, Contract!Jobs, Jobs, Told
    <3>. QED
      BY <3>5 DEF Contract!Next
  <2>. QED
    BY <1>7, <2>1, <2>2, <2>3, <2>4, <2>5, <2>6, <2>7 DEF MainStep
<1>. QED
  BY <1>3, <1>4, <1>5, <1>6, <1>7 DEF Next

\* process_jobs keeps its contract, for any number of workers and jobs: every
\* interleaving of threads, cancels and dying workers is a behaviour of
\* BatchContract.
THEOREM ImplementsContract == Spec => KeepsContract
BY InitContract, StepContract, AccountInvariance, PTL DEF Spec, KeepsContract, Contract!Spec
=============================================================================
