------------------------------- MODULE Scheduler -------------------------------
(* Background jobs: jobs/scheduler.cc.  Every process that runs jobs has its   *)
(* own timers, queue and worker threads; a lock in Redis keeps the processes   *)
(* from running a job too often.  A minute is one tick.                        *)
EXTENDS Naturals, Sequences

CONSTANTS
  Procs,
  Workers, Owner,   \* worker threads, and the process each belongs to
  Jobs, None,
  Interval,         \* intervalMs
  MinLock,          \* lockTtlSec
  Jitter,           \* the initial run comes 1 .. Jitter ticks after start
  MaxMishaps        \* bound: Redis failures and crashes

Max2(a, b) == IF a > b THEN a ELSE b
\* Mutant: the minute is not taken off.
LockTTLWhole == Max2(Interval, MinLock)
\* Of the lock: a tick (60 s) less than the interval.
LockTTL == Max2(Interval - 1, MinLock)

ASSUME SchedulerAssumption ==
  /\ Interval \in Nat \ {0} /\ Jitter \in Nat \ {0}
  /\ MinLock \in 1 .. Interval         \* so it is for the four jobs
  /\ MaxMishaps \in Nat
  /\ Owner \in [Workers -> Procs]
  /\ None \notin Jobs \cup Workers

VARIABLES
  started,   \* g_started
  queue,     \* g_queue
  pending,   \* g_pending
  mutex,     \* the worker that holds g_queueMu between two steps
  wpc, wjob, \* where each worker stands, and the job it has taken
  loop,      \* what the event loop of each process does
  every,     \* runEvery: ticks left
  first,     \* runAfter: 1 + ticks left; 0 once it has fired
  lock,      \* Redis job_lock:<name>: ticks left; 0: absent
  since,     \* history: ticks since the job last began (no further than Interval)
  faults

vars == <<started, queue, pending, mutex, wpc, wjob, loop, every, first,
          lock, since, faults>>
timers == <<every, first>>

WorkerPCs == {"gone", "idle", "block", "wait", "lockset", "run", "erase"}
LoopPCs == {"off", "free", "clear", "notifyAll", "join"}

Init ==
  /\ started = [p \in Procs |-> FALSE]
  /\ queue = [p \in Procs |-> <<>>]
  /\ pending = [p \in Procs |-> {}]
  /\ mutex = [p \in Procs |-> None]
  /\ wpc = [w \in Workers |-> "gone"]
  /\ wjob = [w \in Workers |-> None]
  /\ loop = [p \in Procs |-> "off"]
  /\ every = [p \in Procs |-> [j \in Jobs |-> 0]]
  /\ first = [p \in Procs |-> [j \in Jobs |-> 0]]
  /\ lock = [j \in Jobs |-> 0]
  /\ since = [j \in Jobs |-> Interval]
  /\ faults = 0

At(w, pc) == wpc[w] = pc
Goto(w, pc) == wpc' = [wpc EXCEPT ![w] = pc]
Of(p) == {w \in Workers : Owner[w] = p}
Loop(p, pc) == loop' = [loop EXCEPT ![p] = pc]
Free(p) == mutex[p] = None
Mishap == faults < MaxMishaps /\ faults' = faults + 1
\* A timer that fires once g_started is FALSE finds nothing to do: the timers
\* of a process end with it here.
NoTimers(p) ==
  /\ every' = [every EXCEPT ![p] = [j \in Jobs |-> 0]]
  /\ first' = [first EXCEPT ![p] = [j \in Jobs |-> 0]]

-----------------------------------------------------------------------------
(* The event loop: start, the timers, requestStop and stop.                    *)
StartProcess(p) ==
  /\ loop[p] = "off"
  /\ started' = [started EXCEPT ![p] = TRUE]
  /\ wpc' = [w \in Workers |-> IF Owner[w] = p THEN "idle" ELSE wpc[w]]
  /\ every' = [every EXCEPT ![p] = [j \in Jobs |-> Interval]]
  /\ \E delay \in [Jobs -> 1 .. Jitter] :
       first' = [first EXCEPT ![p] = [j \in Jobs |-> delay[j] + 1]]
  /\ Loop(p, "free")
  /\ UNCHANGED <<queue, pending, mutex, wjob, lock, since, faults>>

\* A timer of job j that is due: the repeating one, or the initial one.
Due(p, j) == every[p][j] = 0 \/ first[p][j] = 1
Rewind(p, j) ==
  \/ /\ every[p][j] = 0
     /\ every' = [every EXCEPT ![p][j] = Interval]
     /\ UNCHANGED first
  \/ /\ first[p][j] = 1
     /\ first' = [first EXCEPT ![p][j] = 0]
     /\ UNCHANGED every

NotifyOne(p) ==
  IF \E w \in Of(p) : At(w, "wait")
  THEN \E w \in Of(p) : At(w, "wait") /\ Goto(w, "idle")
  ELSE UNCHANGED wpc

\* enqueueJob, when a timer fires.
EnqueueJob(p, j) ==
  /\ loop[p] = "free" /\ started[p]
  /\ Rewind(p, j)
  /\ IF j \notin pending[p]
     THEN /\ Free(p)
          /\ pending' = [pending EXCEPT ![p] = @ \cup {j}]
          /\ queue' = [queue EXCEPT ![p] = Append(@, j)]
          /\ NotifyOne(p)
     ELSE UNCHANGED <<pending, queue, wpc>>
  /\ UNCHANGED <<started, mutex, wjob, loop, lock, since, faults>>

\* requestStop: the flag, with no lock held;
RequestStop(p) ==
  /\ loop[p] = "free"
  /\ started' = [started EXCEPT ![p] = FALSE]
  /\ Loop(p, "clear")
  /\ NoTimers(p)
  /\ UNCHANGED <<queue, pending, mutex, wpc, wjob, lock, since, faults>>

\* Mutant: what is queued is dropped without the lock.
ClearQueueUnlocked(p) ==
  /\ loop[p] = "clear"
  /\ queue' = [queue EXCEPT ![p] = <<>>]
  /\ pending' = [pending EXCEPT ![p] = {}]
  /\ Loop(p, "notifyAll")
  /\ UNCHANGED <<started, mutex, wpc, wjob, timers, lock, since, faults>>

\* then, under the lock, what is queued is dropped;
ClearQueue(p) ==
  /\ loop[p] = "clear"
  /\ Free(p)
  /\ queue' = [queue EXCEPT ![p] = <<>>]
  /\ pending' = [pending EXCEPT ![p] = {}]
  /\ Loop(p, "notifyAll")
  /\ UNCHANGED <<started, mutex, wpc, wjob, timers, lock, since, faults>>

\* then notify_all.
NotifyAll(p) ==
  /\ loop[p] = "notifyAll"
  /\ wpc' = [w \in Workers |->
       IF Owner[w] = p /\ At(w, "wait") THEN "idle" ELSE wpc[w]]
  /\ Loop(p, "join")
  /\ UNCHANGED <<started, queue, pending, mutex, wjob, timers, lock, since, faults>>

\* stop joins the workers, and the process ends.
Stopped(p) ==
  /\ loop[p] = "join"
  /\ \A w \in Of(p) : At(w, "gone")
  /\ Loop(p, "off")
  /\ UNCHANGED <<started, queue, pending, mutex, wpc, wjob, timers, lock, since, faults>>

-----------------------------------------------------------------------------
(* A worker thread: workerLoop and runJob.                                     *)
\* Mutant: the job counts as done when it is taken.
TestQueueAndErase(w) ==
  LET p == Owner[w] IN
  /\ At(w, "idle") /\ Free(p)
  /\ IF queue[p] # <<>>
     THEN /\ wjob' = [wjob EXCEPT ![w] = Head(queue[p])]
          /\ queue' = [queue EXCEPT ![p] = Tail(@)]
          /\ pending' = [pending EXCEPT ![p] = @ \ {Head(queue[p])}]
          /\ Goto(w, "lockset")
          /\ UNCHANGED mutex
     ELSE /\ IF started[p]
             THEN Goto(w, "block") /\ mutex' = [mutex EXCEPT ![p] = w]
             ELSE Goto(w, "gone") /\ UNCHANGED mutex
          /\ UNCHANGED <<queue, pending, wjob>>
  /\ UNCHANGED <<started, loop, timers, lock, since, faults>>

\* The mutex, the predicate of the wait and, when it holds, what follows: the
\* next job is taken, or the thread ends.  Otherwise the mutex is still held.
TestQueue(w) ==
  LET p == Owner[w] IN
  /\ At(w, "idle") /\ Free(p)
  /\ IF queue[p] # <<>>
     THEN /\ wjob' = [wjob EXCEPT ![w] = Head(queue[p])]
          /\ queue' = [queue EXCEPT ![p] = Tail(@)]
          /\ Goto(w, "lockset")
          /\ UNCHANGED mutex
     ELSE /\ IF started[p]
             THEN Goto(w, "block") /\ mutex' = [mutex EXCEPT ![p] = w]
             ELSE Goto(w, "gone") /\ UNCHANGED mutex
          /\ UNCHANGED <<queue, wjob>>
  /\ UNCHANGED <<started, pending, loop, timers, lock, since, faults>>

\* The wait gives up the mutex and blocks, in one step.
Wait(w) ==
  LET p == Owner[w] IN
  /\ At(w, "block")
  /\ mutex' = [mutex EXCEPT ![p] = None]
  /\ Goto(w, "wait")
  /\ UNCHANGED <<started, queue, pending, wjob, loop, timers, lock, since, faults>>

\* acquireLock: SET NX EX; skipped when Redis fails, and lost when only the
\* answer fails to arrive.
AcquireLock(w) ==
  LET j == wjob[w] IN
  /\ At(w, "lockset")
  /\ \/ /\ lock[j] = 0
        /\ lock' = [lock EXCEPT ![j] = LockTTL]
        /\ since' = [since EXCEPT ![j] = 0]
        /\ Goto(w, "run")
        /\ UNCHANGED faults
     \/ /\ lock[j] > 0
        /\ Goto(w, "erase")
        /\ UNCHANGED <<lock, since, faults>>
     \/ /\ Mishap
        /\ lock' \in {lock, [lock EXCEPT ![j] = IF @ = 0 THEN LockTTL ELSE @]}
        /\ Goto(w, "erase")
        /\ UNCHANGED since
  /\ UNCHANGED <<started, queue, pending, mutex, wjob, loop, timers>>

\* Mutant: a job that fails gives its lock back.
RunJobAndUnlock(w) ==
  /\ At(w, "run")
  /\ lock' \in {lock, [lock EXCEPT ![wjob[w]] = 0]}
  /\ Goto(w, "erase")
  /\ UNCHANGED <<started, queue, pending, mutex, wjob, loop, timers, since, faults>>

\* The job ends, well or badly; its lock stays.
RunJob(w) ==
  /\ At(w, "run")
  /\ Goto(w, "erase")
  /\ UNCHANGED <<started, queue, pending, mutex, wjob, loop, timers, lock, since, faults>>

\* Mutant: only the worker's own job field is reset.
EraseNothing(w) ==
  /\ At(w, "erase")
  /\ wjob' = [wjob EXCEPT ![w] = None]
  /\ Goto(w, "idle")
  /\ UNCHANGED <<started, queue, pending, mutex, loop, timers, lock, since, faults>>

ErasePending(w) ==
  LET p == Owner[w] IN
  /\ At(w, "erase")
  /\ Free(p)
  /\ pending' = [pending EXCEPT ![p] = @ \ {wjob[w]}]
  /\ wjob' = [wjob EXCEPT ![w] = None]
  /\ Goto(w, "idle")
  /\ UNCHANGED <<started, queue, mutex, loop, timers, lock, since, faults>>

-----------------------------------------------------------------------------
\* A minute passes, once the timers that were due have fired.
Tick ==
  /\ \A p \in Procs, j \in Jobs : started[p] => ~Due(p, j)
  /\ every' = [p \in Procs |-> [j \in Jobs |->
                 IF started[p] THEN every[p][j] - 1 ELSE 0]]
  /\ first' = [p \in Procs |-> [j \in Jobs |->
                 IF first[p][j] > 1 THEN first[p][j] - 1 ELSE 0]]
  /\ lock' = [j \in Jobs |-> IF lock[j] > 0 THEN lock[j] - 1 ELSE 0]
  /\ since' = [j \in Jobs |-> IF since[j] < Interval THEN since[j] + 1 ELSE Interval]
  /\ UNCHANGED <<started, queue, pending, mutex, wpc, wjob, loop, faults>>

\* A process dies; the locks stay in Redis.
Crash(p) ==
  /\ loop[p] # "off"
  /\ Mishap
  /\ started' = [started EXCEPT ![p] = FALSE]
  /\ queue' = [queue EXCEPT ![p] = <<>>]
  /\ pending' = [pending EXCEPT ![p] = {}]
  /\ mutex' = [mutex EXCEPT ![p] = None]
  /\ wpc' = [w \in Workers |-> IF Owner[w] = p THEN "gone" ELSE wpc[w]]
  /\ wjob' = [w \in Workers |-> IF Owner[w] = p THEN None ELSE wjob[w]]
  /\ Loop(p, "off")
  /\ NoTimers(p)
  /\ UNCHANGED <<lock, since>>

Work(w) ==
  \/ TestQueue(w) \/ Wait(w) \/ AcquireLock(w)
  \/ RunJob(w) \/ ErasePending(w)
Dispatch(p) ==
  \/ \E j \in Jobs : EnqueueJob(p, j)
  \/ ClearQueue(p) \/ NotifyAll(p)

Next ==
  \/ \E p \in Procs :
       \/ StartProcess(p) \/ Dispatch(p) \/ RequestStop(p) \/ Stopped(p) \/ Crash(p)
  \/ \E w \in Workers : Work(w)
  \/ Tick

Spec == Init /\ [][Next]_vars
\* The threads of a live process run on, and time passes.
FairSpec ==
  /\ Spec
  /\ \A w \in Workers : WF_vars(Work(w))
  /\ \A p \in Procs : WF_vars(Dispatch(p)) /\ WF_vars(Stopped(p))
  /\ WF_vars(Tick)

-----------------------------------------------------------------------------
(* Properties                                                                  *)

\* In particular a lock never outlives the interval it stands for by the time the
\* job's timer fires again.
TypeOK ==
  /\ started \in [Procs -> BOOLEAN]
  /\ queue \in [Procs -> Seq(Jobs)]
  /\ pending \in [Procs -> SUBSET Jobs]
  /\ mutex \in [Procs -> Workers \cup {None}]
  /\ wpc \in [Workers -> WorkerPCs]
  /\ wjob \in [Workers -> Jobs \cup {None}]
  /\ loop \in [Procs -> LoopPCs]
  /\ every \in [Procs -> [Jobs -> 0 .. Interval]]
  /\ first \in [Procs -> [Jobs -> 0 .. Jitter + 1]]
  /\ lock \in [Jobs -> 0 .. Max2(Interval - 1, MinLock)]
  /\ since \in [Jobs -> 0 .. Interval]
  /\ faults \in 0 .. MaxMishaps

Doing(w, j) == wjob[w] = j /\ wpc[w] \in {"lockset", "run", "erase"}

\* Every variable stays in its range, and in one process no two workers ever have
\* the same job in hand, not even while requestStop empties g_pending under a
\* running job.
OneWorkerPerJob ==
  /\ TypeOK
  /\ \A v, w \in Workers, j \in Jobs :
       Owner[v] = Owner[w] /\ Doing(v, j) /\ Doing(w, j) => v = w

\* Worker w begins to run its job.
Begins(w) == At(w, "lockset") /\ wpc'[w] = "run"

\* Whatever crashes and restarts, two runs of a job begin no closer to each
\* other than its lock lives.
RunsSpaced ==
  [][\A w \in Workers : Begins(w) => since[wjob[w]] >= Interval - 1]_vars

\* "Guarantees each job runs on exactly one process per interval": two runs of a
\* job never begin within one interval.
OncePerInterval ==
  [][\A w \in Workers : Begins(w) => since[wjob[w]] >= Interval]_vars

\* A process asked to stop does stop: no worker sleeps through requestStop.
StopEnds == \A p \in Procs : loop[p] = "clear" ~> loop[p] = "off"

\* As long as some process stays up, every job begins again and again, with
\* no missed interval stopping it for good.
JobsKeepRunning ==
  \A j \in Jobs :
    (\E p \in Procs : <>[](started[p])) => []<>(since[j] = 0)
=============================================================================
