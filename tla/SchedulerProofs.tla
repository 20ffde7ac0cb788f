---------------------------- MODULE SchedulerProofs ----------------------------
(* Theorems about Scheduler for every number of processes, workers and jobs,     *)
(* every interval and every bound on crashes and Redis failures.                 *)
EXTENDS Scheduler, TLAPS

-----------------------------------------------------------------------------
(* Types.                                                                       *)

LEMMA InitTyped == Init => TypeOK
  BY SchedulerAssumption DEF Init, TypeOK, WorkerPCs, LoopPCs, Max2

\* Timers are rewound within their range.
LEMMA RewindTyped ==
  ASSUME TypeOK, NEW p \in Procs, NEW j \in Jobs, Rewind(p, j)
  PROVE  /\ every' \in [Procs -> [Jobs -> 0 .. Interval]]
         /\ first' \in [Procs -> [Jobs -> 0 .. Jitter + 1]]
  <1>1. CASE every' = [every EXCEPT ![p][j] = Interval] /\ UNCHANGED first
    <2>1. [every[p] EXCEPT ![j] = Interval] \in [Jobs -> 0 .. Interval]
      BY SchedulerAssumption DEF TypeOK
    <2>2. every' = [every EXCEPT ![p] = [every[p] EXCEPT ![j] = Interval]]
      BY <1>1
    <2> QED BY <1>1, <2>1, <2>2 DEF TypeOK
  <1>2. CASE first' = [first EXCEPT ![p][j] = 0] /\ UNCHANGED every
    <2>1. [first[p] EXCEPT ![j] = 0] \in [Jobs -> 0 .. Jitter + 1]
      BY SchedulerAssumption DEF TypeOK
    <2>2. first' = [first EXCEPT ![p] = [first[p] EXCEPT ![j] = 0]]
      BY <1>2
    <2> QED BY <1>2, <2>1, <2>2 DEF TypeOK
  <1> QED BY <1>1, <1>2 DEF Rewind

LEMMA NextTyped == TypeOK /\ [Next]_vars => TypeOK'
  <1> SUFFICES ASSUME TypeOK, [Next]_vars PROVE TypeOK'
    OBVIOUS
  <1> USE SchedulerAssumption
  <1>1. ASSUME NEW p \in Procs, StartProcess(p) PROVE TypeOK'
    <2>1. PICK delay \in [Jobs -> 1 .. Jitter] :
            first' = [first EXCEPT ![p] = [j \in Jobs |-> delay[j] + 1]]
      BY <1>1 DEF StartProcess
    <2>2. [j \in Jobs |-> delay[j] + 1] \in [Jobs -> 0 .. Jitter + 1]
      OBVIOUS
    <2>3. first' \in [Procs -> [Jobs -> 0 .. Jitter + 1]]
      BY <2>1, <2>2 DEF TypeOK
    <2>4. every' \in [Procs -> [Jobs -> 0 .. Interval]]
      BY <1>1 DEF StartProcess, TypeOK
    <2> QED BY <1>1, <2>3, <2>4 DEF StartProcess, TypeOK, WorkerPCs, LoopPCs, Loop
  <1>2. ASSUME NEW p \in Procs, NEW j \in Jobs, EnqueueJob(p, j) PROVE TypeOK'
    <2>1. wpc' \in [Workers -> WorkerPCs]
      BY <1>2 DEF EnqueueJob, NotifyOne, Goto, At, Of, TypeOK, WorkerPCs
    <2>2. queue' \in [Procs -> Seq(Jobs)] /\ pending' \in [Procs -> SUBSET Jobs]
      <3>1. CASE j \in pending[p]
        BY <1>2, <3>1 DEF EnqueueJob, TypeOK
      <3>2. CASE j \notin pending[p]
        <4>1. Append(queue[p], j) \in Seq(Jobs)
          BY DEF TypeOK
        <4>2. queue' = [queue EXCEPT ![p] = Append(queue[p], j)]
          BY <1>2, <3>2 DEF EnqueueJob
        <4>3. pending' = [pending EXCEPT ![p] = pending[p] \cup {j}]
          BY <1>2, <3>2 DEF EnqueueJob
        <4> QED BY <4>1, <4>2, <4>3 DEF TypeOK
      <3> QED BY <3>1, <3>2
    <2>3. Rewind(p, j)
      BY <1>2 DEF EnqueueJob
    <2> QED BY <1>2, <2>1, <2>2, <2>3, RewindTyped DEF EnqueueJob, TypeOK
  <1>3. ASSUME NEW p \in Procs, ClearQueue(p) PROVE TypeOK'
    BY <1>3 DEF ClearQueue, TypeOK, LoopPCs, Loop, timers
  <1>4. ASSUME NEW p \in Procs, NotifyAll(p) PROVE TypeOK'
    BY <1>4 DEF NotifyAll, TypeOK, WorkerPCs, LoopPCs, Loop, timers
  <1>5. ASSUME NEW p \in Procs, RequestStop(p) PROVE TypeOK'
    BY <1>5 DEF RequestStop, NoTimers, TypeOK, LoopPCs, Loop
  <1>6. ASSUME NEW p \in Procs, Stopped(p) PROVE TypeOK'
    BY <1>6 DEF Stopped, TypeOK, LoopPCs, Loop, timers
  <1>7. ASSUME NEW p \in Procs, Crash(p) PROVE TypeOK'
    <2>1. faults' \in 0 .. MaxMishaps
      BY <1>7 DEF Crash, Mishap, TypeOK
    <2>2. /\ every' \in [Procs -> [Jobs -> 0 .. Interval]]
          /\ first' \in [Procs -> [Jobs -> 0 .. Jitter + 1]]
      BY <1>7 DEF Crash, NoTimers, TypeOK
    <2>3. /\ queue' \in [Procs -> Seq(Jobs)]
          /\ pending' \in [Procs -> SUBSET Jobs]
          /\ mutex' \in [Procs -> Workers \cup {None}]
          /\ started' \in [Procs -> BOOLEAN]
      <3>1. <<>> \in Seq(Jobs)
        OBVIOUS
      <3> QED BY <1>7, <3>1 DEF Crash, TypeOK
    <2>4. wpc' \in [Workers -> WorkerPCs] /\ wjob' \in [Workers -> Jobs \cup {None}]
      BY <1>7 DEF Crash, TypeOK, WorkerPCs
    <2>5. loop' \in [Procs -> LoopPCs]
      BY <1>7 DEF Crash, Loop, TypeOK, LoopPCs
    <2> QED BY <1>7, <2>1, <2>2, <2>3, <2>4, <2>5 DEF Crash, TypeOK
  <1>8. ASSUME NEW w \in Workers, TestQueue(w) PROVE TypeOK'
    <2>1. Owner[w] \in Procs
      OBVIOUS
    <2>2. CASE queue[Owner[w]] # <<>>
      <3>1. Head(queue[Owner[w]]) \in Jobs /\ Tail(queue[Owner[w]]) \in Seq(Jobs)
        BY <2>1, <2>2 DEF TypeOK
      <3>2. /\ wjob' = [wjob EXCEPT ![w] = Head(queue[Owner[w]])]
            /\ queue' = [queue EXCEPT ![Owner[w]] = Tail(queue[Owner[w]])]
            /\ wpc' = [wpc EXCEPT ![w] = "lockset"]
            /\ UNCHANGED mutex
        BY <1>8, <2>2 DEF TestQueue, Goto
      <3>3. /\ queue' \in [Procs -> Seq(Jobs)]
            /\ wjob' \in [Workers -> Jobs \cup {None}]
        BY <2>1, <3>1, <3>2 DEF TypeOK
      <3>4. wpc' \in [Workers -> WorkerPCs]
        BY <3>2 DEF TypeOK, WorkerPCs
      <3> QED BY <1>8, <3>2, <3>3, <3>4 DEF TestQueue, TypeOK, timers
    <2>3. CASE queue[Owner[w]] = <<>>
      <3>1. /\ wpc' = [wpc EXCEPT ![w] = "block"] \/ wpc' = [wpc EXCEPT ![w] = "gone"]
            /\ mutex' = [mutex EXCEPT ![Owner[w]] = w] \/ UNCHANGED mutex
            /\ UNCHANGED <<queue, wjob>>
        BY <1>8, <2>3 DEF TestQueue, Goto
      <3>2. wpc' \in [Workers -> WorkerPCs]
        BY <3>1 DEF TypeOK, WorkerPCs
      <3>3. mutex' \in [Procs -> Workers \cup {None}]
        BY <2>1, <3>1 DEF TypeOK
      <3> QED BY <1>8, <3>1, <3>2, <3>3 DEF TestQueue, TypeOK, timers
    <2> QED BY <2>2, <2>3
  <1>9. ASSUME NEW w \in Workers, Wait(w) PROVE TypeOK'
    BY <1>9 DEF Wait, Goto, TypeOK, WorkerPCs, timers
  <1>10. ASSUME NEW w \in Workers, AcquireLock(w) PROVE TypeOK'
    <2>1. LockTTL = Max2(Interval - 1, MinLock) /\ LockTTL \in 0 .. LockTTL
      BY DEF LockTTL, Max2
    <2>2. lock' \in [Jobs -> 0 .. LockTTL]
      <3>1. lock \in [Jobs -> 0 .. LockTTL]
        BY <2>1 DEF TypeOK
      <3>2. PICK j \in {wjob[w]} :
              \/ lock' = lock
              \/ lock' = [lock EXCEPT ![j] = LockTTL]
              \/ lock' = [lock EXCEPT ![j] = IF lock[j] = 0 THEN LockTTL ELSE lock[j]]
        BY <1>10 DEF AcquireLock
      <3> QED BY <2>1, <3>1, <3>2
    <2>3. faults' \in 0 .. MaxMishaps
      BY <1>10 DEF AcquireLock, Mishap, TypeOK
    <2>4. since' \in [Jobs -> 0 .. Interval]
      <3>1. PICK j \in {wjob[w]} : since' = since \/ since' = [since EXCEPT ![j] = 0]
        BY <1>10 DEF AcquireLock
      <3>2. 0 \in 0 .. Interval
        OBVIOUS
      <3> QED BY <3>1, <3>2 DEF TypeOK
    <2>5. wpc' \in [Workers -> WorkerPCs]
      BY <1>10 DEF AcquireLock, Goto, TypeOK, WorkerPCs
    <2> QED BY <1>10, <2>1, <2>2, <2>3, <2>4, <2>5 DEF AcquireLock, TypeOK, timers
  <1>11. ASSUME NEW w \in Workers, RunJob(w) PROVE TypeOK'
    BY <1>11 DEF RunJob, Goto, TypeOK, WorkerPCs, timers
  <1>12. ASSUME NEW w \in Workers, ErasePending(w) PROVE TypeOK'
    BY <1>12 DEF ErasePending, Goto, TypeOK, WorkerPCs, timers
  <1>13. ASSUME Tick PROVE TypeOK'
    <2>1. every' \in [Procs -> [Jobs -> 0 .. Interval]]
      BY <1>13 DEF Tick, Due, TypeOK
    <2>2. first' \in [Procs -> [Jobs -> 0 .. Jitter + 1]]
      BY <1>13 DEF Tick, TypeOK
    <2>3. Max2(Interval - 1, MinLock) \in Nat
      BY DEF Max2
    <2>4. lock' \in [Jobs -> 0 .. Max2(Interval - 1, MinLock)]
      BY <1>13, <2>3 DEF Tick, TypeOK
    <2>5. since' \in [Jobs -> 0 .. Interval]
      BY <1>13 DEF Tick, TypeOK
    <2> QED BY <1>13, <2>1, <2>2, <2>4, <2>5 DEF Tick, TypeOK
  <1>14. ASSUME UNCHANGED vars PROVE TypeOK'
    BY <1>14 DEF vars, timers, TypeOK
  <1> QED
    BY <1>1, <1>2, <1>3, <1>4, <1>5, <1>6, <1>7, <1>8, <1>9, <1>10, <1>11, <1>12, <1>13,
       <1>14 DEF Next, Dispatch, Work

-----------------------------------------------------------------------------
(* One worker per job.  A job in hand is registered in g_pending and is not     *)
(* queued, so no timer queues it again; requestStop breaks the first half, but  *)
(* from then on nothing is queued until every worker of the process is gone.    *)

Busy(w) == wpc[w] \in {"lockset", "run", "erase"}
Taking(p) == loop[p] \in {"free", "clear"}

HasJob == \A w \in Workers : Busy(w) => wjob[w] \in Jobs
Emptied == \A p \in Procs : Taking(p) \/ queue[p] = <<>>
AllGone == \A w \in Workers : loop[Owner[w]] = "off" => wpc[w] = "gone"
QueuedPending ==
  \A p \in Procs : \A n \in 1 .. Len(queue[p]) : queue[p][n] \in pending[p]
QueuedOnce ==
  \A p \in Procs : \A m, n \in 1 .. Len(queue[p]) :
    queue[p][m] = queue[p][n] => m = n
InHand ==
  \A w \in Workers : Busy(w) /\ Taking(Owner[w]) =>
    /\ wjob[w] \in pending[Owner[w]]
    /\ \A n \in 1 .. Len(queue[Owner[w]]) : queue[Owner[w]][n] # wjob[w]
Apart ==
  \A v, w \in Workers :
    Busy(v) /\ Busy(w) /\ Owner[v] = Owner[w] /\ wjob[v] = wjob[w] => v = w

Queues == QueuedPending /\ QueuedOnce /\ Emptied
Hands == HasJob /\ AllGone /\ InHand /\ Apart
Handed == TypeOK /\ Queues /\ Hands

LEMMA InitHanded == Init => Handed
  <1> SUFFICES ASSUME Init PROVE Queues /\ Hands
    BY InitTyped DEF Handed
  <1>1. Queues
    BY DEF Init, Queues, QueuedPending, QueuedOnce, Emptied
  <1>2. Hands
    BY SchedulerAssumption DEF Init, Hands, HasJob, AllGone, InHand, Apart, Busy
  <1> QED BY <1>1, <1>2

LEMMA StartHanded ==
  ASSUME Handed, NEW p \in Procs, StartProcess(p) PROVE Queues' /\ Hands'
  <1> USE SchedulerAssumption
  <1>1. queue[p] = <<>>
    BY DEF Handed, Queues, Emptied, StartProcess, Taking
  <1>2. /\ \A w \in Workers : Busy(w)' => Owner[w] # p /\ Busy(w)
        /\ \A q \in Procs : q # p => loop'[q] = loop[q]
        /\ loop'[p] = "free"
        /\ UNCHANGED <<queue, pending, wjob>>
    BY DEF Handed, TypeOK, StartProcess, Busy, Loop
  <1>3. Queues'
    BY <1>1, <1>2 DEF Handed, Queues, QueuedPending, QueuedOnce, Emptied, Taking
  <1>4. Hands'
    <2>1. HasJob' /\ Apart'
      BY <1>2 DEF Handed, Hands, HasJob, Apart
    <2>2. InHand'
      BY <1>2 DEF Handed, Hands, InHand, Taking
    <2>3. AllGone'
      BY <1>2 DEF Handed, Hands, AllGone, StartProcess, TypeOK
    <2> QED BY <2>1, <2>2, <2>3 DEF Hands
  <1> QED BY <1>3, <1>4

\* A queued job was not pending: no worker of the process has it in hand.
LEMMA EnqueueHanded ==
  ASSUME Handed, NEW p \in Procs, NEW j \in Jobs, EnqueueJob(p, j)
  PROVE  Queues' /\ Hands'
  <1> USE SchedulerAssumption
  <1>1. /\ \A w \in Workers : Busy(w)' <=> Busy(w)
        /\ \A w \in Workers : (wpc[w] = "gone") => (wpc'[w] = "gone")
        /\ UNCHANGED <<wjob, loop>>
        /\ Taking(p)
    BY SMTT(30) DEF Handed, TypeOK, EnqueueJob, NotifyOne, Of, At, Goto, Busy, Taking
  <1>2. CASE j \in pending[p]
    <2>1. UNCHANGED <<queue, pending>>
      BY <1>2 DEF EnqueueJob
    <2> QED
      BY <1>1, <2>1 DEF Handed, Queues, QueuedPending, QueuedOnce, Emptied, Taking,
         Hands, HasJob, AllGone, InHand, Apart
  <1>3. CASE j \notin pending[p]
    <2>1. /\ queue' = [queue EXCEPT ![p] = Append(queue[p], j)]
          /\ pending' = [pending EXCEPT ![p] = pending[p] \cup {j}]
      BY <1>3 DEF EnqueueJob
    <2>2. \A q \in Procs : q # p => queue'[q] = queue[q] /\ pending'[q] = pending[q]
      BY <2>1 DEF Handed, TypeOK
    <2>3. /\ pending'[p] = pending[p] \cup {j}
          /\ queue[p] \in Seq(Jobs)
          /\ queue'[p] = Append(queue[p], j)
      BY <2>1 DEF Handed, TypeOK
    <2>4. /\ Len(queue[p]) \in Nat
          /\ Len(queue'[p]) = Len(queue[p]) + 1
          /\ queue'[p][Len(queue[p]) + 1] = j
          /\ \A n \in 1 .. Len(queue[p]) : queue'[p][n] = queue[p][n]
      BY <2>3
    <2>5. \A n \in 1 .. Len(queue[p]) : queue[p][n] \in pending[p] /\ queue[p][n] # j
      BY <1>3 DEF Handed, Queues, QueuedPending
    <2>6. QueuedPending'
      <3> SUFFICES ASSUME NEW q \in Procs, NEW n \in 1 .. Len(queue'[q])
                   PROVE  queue'[q][n] \in pending'[q]
        BY DEF QueuedPending
      <3>1. CASE q # p
        BY <2>2, <3>1 DEF Handed, Queues, QueuedPending
      <3>2. CASE q = p
        <4>1. n \in 1 .. Len(queue[p]) \/ n = Len(queue[p]) + 1
          BY <2>4, <3>2
        <4> QED BY <2>3, <2>4, <2>5, <3>2, <4>1
      <3> QED BY <3>1, <3>2
    <2>7. QueuedOnce'
      <3> SUFFICES ASSUME NEW q \in Procs, NEW m \in 1 .. Len(queue'[q]),
                          NEW n \in 1 .. Len(queue'[q]), queue'[q][m] = queue'[q][n]
                   PROVE  m = n
        BY DEF QueuedOnce
      <3>1. CASE q # p
        BY <2>2, <3>1 DEF Handed, Queues, QueuedOnce
      <3>2. CASE q = p
        <4>1. /\ m \in 1 .. Len(queue[p]) \/ m = Len(queue[p]) + 1
              /\ n \in 1 .. Len(queue[p]) \/ n = Len(queue[p]) + 1
          BY <2>4, <3>2
        <4>2. CASE m \in 1 .. Len(queue[p]) /\ n \in 1 .. Len(queue[p])
          BY <2>4, <3>2, <4>2 DEF Handed, Queues, QueuedOnce
        <4>3. CASE m = Len(queue[p]) + 1 /\ n \in 1 .. Len(queue[p])
          BY <2>4, <2>5, <3>2, <4>3
        <4>4. CASE m \in 1 .. Len(queue[p]) /\ n = Len(queue[p]) + 1
          BY <2>4, <2>5, <3>2, <4>4
        <4> QED BY <4>1, <4>2, <4>3, <4>4
      <3> QED BY <3>1, <3>2
    <2>8. Emptied'
      BY <1>1, <2>2 DEF Handed, Queues, Emptied, Taking
    <2>9. HasJob' /\ AllGone' /\ Apart'
      BY <1>1 DEF Handed, Hands, HasJob, AllGone, Apart
    <2>10. InHand'
      <3> SUFFICES ASSUME NEW w \in Workers, Busy(w), Taking(Owner[w])
                   PROVE  /\ wjob[w] \in pending'[Owner[w]]
                          /\ \A n \in 1 .. Len(queue'[Owner[w]]) :
                               queue'[Owner[w]][n] # wjob[w]
        BY <1>1 DEF InHand, Taking
      <3>1. /\ wjob[w] \in pending[Owner[w]]
            /\ \A n \in 1 .. Len(queue[Owner[w]]) : queue[Owner[w]][n] # wjob[w]
        BY DEF Handed, Hands, InHand
      <3>2. CASE Owner[w] = p
        BY <1>3, <3>1, <3>2, <2>3, <2>4
      <3>3. CASE Owner[w] # p
        BY <3>1, <3>3, <2>2
      <3> QED BY <3>2, <3>3
    <2> QED BY <2>6, <2>7, <2>8, <2>9, <2>10 DEF Queues, Hands
  <1> QED BY <1>2, <1>3

\* Once the queue is dropped, jobs in hand need no longer be pending.
LEMMA ClearHanded ==
  ASSUME Handed, NEW p \in Procs, ClearQueue(p) PROVE Queues' /\ Hands'
  <1> USE SchedulerAssumption
  <1>1. /\ UNCHANGED <<wpc, wjob>>
        /\ loop'[p] = "notifyAll" /\ queue'[p] = <<>>
        /\ \A q \in Procs : q # p =>
             /\ loop'[q] = loop[q]
             /\ queue'[q] = queue[q]
             /\ pending'[q] = pending[q]
    BY DEF Handed, TypeOK, ClearQueue, Loop
  <1>2. Queues'
    BY <1>1 DEF Handed, Queues, QueuedPending, QueuedOnce, Emptied, Taking
  <1>3. Hands'
    BY <1>1 DEF Handed, Hands, HasJob, AllGone, InHand, Apart, Busy, Taking
  <1> QED BY <1>2, <1>3

LEMMA StopHanded ==
  ASSUME Handed, NEW p \in Procs, RequestStop(p) PROVE Queues' /\ Hands'
  <1>1. /\ UNCHANGED <<wpc, wjob, queue, pending>>
        /\ \A q \in Procs : /\ Taking(q)' <=> Taking(q)
                            /\ loop'[q] # "off" \/ loop[q] = "off"
    BY DEF Handed, TypeOK, RequestStop, Loop, Taking
  <1> QED
    BY <1>1, SchedulerAssumption DEF Handed, Queues, QueuedPending, QueuedOnce, Emptied,
       Hands, HasJob, AllGone, InHand, Apart, Busy

LEMMA NotifyHanded ==
  ASSUME Handed, NEW p \in Procs, NotifyAll(p) PROVE Queues' /\ Hands'
  <1>1. /\ UNCHANGED <<wjob, queue, pending>>
        /\ \A w \in Workers : /\ Busy(w)' <=> Busy(w)
                              /\ wpc[w] = "gone" => wpc'[w] = "gone"
        /\ \A q \in Procs : /\ Taking(q)' <=> Taking(q)
                            /\ loop'[q] # "off" \/ loop[q] = "off"
    BY DEF Handed, TypeOK, NotifyAll, Loop, Taking, Busy, At
  <1> QED
    BY <1>1, SchedulerAssumption DEF Handed, Queues, QueuedPending, QueuedOnce, Emptied,
       Hands, HasJob, AllGone, InHand, Apart

LEMMA StoppedHanded ==
  ASSUME Handed, NEW p \in Procs, Stopped(p) PROVE Queues' /\ Hands'
  <1>1. /\ UNCHANGED <<wpc, wjob, queue, pending>>
        /\ \A w \in Workers : Owner[w] = p => wpc[w] = "gone"
        /\ \A q \in Procs : Taking(q)' <=> Taking(q)
        /\ \A q \in Procs : q # p => loop'[q] = loop[q]
    BY DEF Handed, TypeOK, Stopped, Loop, Taking, Of, At
  <1> QED
    BY <1>1, SchedulerAssumption DEF Handed, Queues, QueuedPending, QueuedOnce, Emptied,
       Hands, HasJob, AllGone, InHand, Apart, Busy

LEMMA CrashHanded ==
  ASSUME Handed, NEW p \in Procs, Crash(p) PROVE Queues' /\ Hands'
  <1> USE SchedulerAssumption
  <1>1. /\ queue'[p] = <<>>
        /\ \A q \in Procs : q # p => /\ loop'[q] = loop[q]
                                     /\ queue'[q] = queue[q]
                                     /\ pending'[q] = pending[q]
        /\ loop'[p] = "off"
    BY DEF Handed, TypeOK, Crash, Loop
  <1>2. \A w \in Workers :
          /\ Owner[w] = p => wpc'[w] = "gone"
          /\ Owner[w] # p => wpc'[w] = wpc[w] /\ wjob'[w] = wjob[w]
    BY DEF Handed, TypeOK, Crash
  <1>3. Queues'
    BY <1>1 DEF Handed, Queues, QueuedPending, QueuedOnce, Emptied, Taking
  <1>4. ASSUME NEW w \in Workers, Busy(w)' PROVE Owner[w] # p /\ Busy(w)
    <2>1. CASE Owner[w] = p
      BY <1>2, <1>4, <2>1 DEF Busy
    <2>2. CASE Owner[w] # p
      BY <1>2, <1>4, <2>2 DEF Busy
    <2> QED BY <2>1, <2>2
  <1>5. HasJob' /\ Apart'
    BY <1>2, <1>4 DEF Handed, Hands, HasJob, Apart
  <1>6. AllGone'
    <2> SUFFICES ASSUME NEW w \in Workers, loop'[Owner[w]] = "off"
                 PROVE  wpc'[w] = "gone"
      BY DEF AllGone
    <2>1. CASE Owner[w] = p
      BY <1>2, <2>1
    <2>2. CASE Owner[w] # p
      BY <1>1, <1>2, <2>2 DEF Handed, Hands, AllGone
    <2> QED BY <2>1, <2>2
  <1>7. InHand'
    BY <1>1, <1>2, <1>4 DEF Handed, Hands, InHand, Taking
  <1> QED BY <1>3, <1>5, <1>6, <1>7 DEF Hands

\* The head of the queue is pending, is in nobody's hand, and is queued only once.
LEMMA TestHanded ==
  ASSUME Handed, NEW w \in Workers, TestQueue(w) PROVE Queues' /\ Hands'
  <1> USE SchedulerAssumption
  <1> DEFINE p == Owner[w]
             Q == queue[p]
  <1>1. p \in Procs /\ ~Busy(w) /\ wpc[w] # "gone" /\ UNCHANGED <<loop, pending>>
    BY DEF TestQueue, At, Busy
  <1>2. CASE Q = <<>>
    <2>1. /\ UNCHANGED <<queue, wjob>>
          /\ \A v \in Workers : /\ Busy(v)' <=> Busy(v)
                                /\ wpc[v] = "gone" => wpc'[v] = "gone"
      BY <1>1, <1>2 DEF TestQueue, Goto, Busy, Handed, TypeOK
    <2> QED
      BY <1>1, <2>1 DEF Handed, Queues, QueuedPending, QueuedOnce, Emptied,
         Hands, HasJob, AllGone, InHand, Apart, Taking
  <1>3. CASE Q # <<>>
    <2>1. Q \in Seq(Jobs)
      BY <1>1 DEF Handed, TypeOK
    <2> HIDE DEF p, Q
    <2>2. /\ Len(Q) \in Nat /\ Len(Q) >= 1
          /\ Head(Q) = Q[1] /\ Head(Q) \in Jobs
          /\ Tail(Q) \in Seq(Jobs) /\ Len(Tail(Q)) = Len(Q) - 1
          /\ \A n \in 1 .. Len(Tail(Q)) : Tail(Q)[n] = Q[n + 1]
      BY <1>3, <2>1
    <2>3. /\ queue' = [queue EXCEPT ![p] = Tail(Q)]
          /\ wjob' = [wjob EXCEPT ![w] = Head(Q)]
          /\ wpc' = [wpc EXCEPT ![w] = "lockset"]
      BY <1>3 DEF TestQueue, Goto, p, Q
    <2>4. /\ queue'[p] = Tail(Q)
          /\ \A q \in Procs : q # p => queue'[q] = queue[q]
          /\ wjob'[w] = Head(Q) /\ wpc'[w] = "lockset"
          /\ \A v \in Workers : v # w => wjob'[v] = wjob[v] /\ wpc'[v] = wpc[v]
      BY <1>1, <2>3 DEF Handed, TypeOK
    <2>5. Taking(p) /\ \A n \in 1 .. Len(Q) : Q[n] \in pending[p]
      BY <1>1, <1>3 DEF Handed, Queues, Emptied, QueuedPending, Q
    <2>6. \A m, n \in 1 .. Len(Q) : Q[m] = Q[n] => m = n
      BY <1>1 DEF Handed, Queues, QueuedOnce, Q
    <2>7. \A n \in 1 .. Len(Tail(Q)) :
            /\ n + 1 \in 1 .. Len(Q)
            /\ Tail(Q)[n] = Q[n + 1]
            /\ Tail(Q)[n] # Head(Q)
      BY <2>2, <2>6
    <2>8. \A v \in Workers : Owner[v] = p /\ Busy(v) =>
            \A n \in 1 .. Len(Q) : Q[n] # wjob[v]
      BY <2>5 DEF Handed, Hands, InHand, Q
    <2>9. \A v \in Workers : Busy(v)' <=> v = w \/ Busy(v)
      BY <2>4 DEF Busy
    <2>10. QueuedPending'
      <3> SUFFICES ASSUME NEW q \in Procs, NEW n \in 1 .. Len(queue'[q])
                   PROVE  queue'[q][n] \in pending[q]
        BY <1>1 DEF QueuedPending
      <3>1. CASE q # p
        BY <2>4, <3>1 DEF Handed, Queues, QueuedPending
      <3>2. CASE q = p
        BY ZenonT(30), <2>4, <2>5, <2>7, <3>2
      <3> QED BY <3>1, <3>2
    <2>11. QueuedOnce'
      <3> SUFFICES ASSUME NEW q \in Procs, NEW m \in 1 .. Len(queue'[q]),
                          NEW n \in 1 .. Len(queue'[q]), queue'[q][m] = queue'[q][n]
                   PROVE  m = n
        BY DEF QueuedOnce
      <3>1. CASE q # p
        BY <2>4, <3>1 DEF Handed, Queues, QueuedOnce
      <3>2. CASE q = p
        <4>1. Q[m + 1] = Q[n + 1] /\ m + 1 \in 1 .. Len(Q) /\ n + 1 \in 1 .. Len(Q)
          BY <2>4, <2>7, <3>2
        <4>2. m + 1 = n + 1
          BY <2>6, <4>1
        <4> QED BY <2>2, <2>4, <3>2, <4>2
      <3> QED BY <3>1, <3>2
    <2>12. Emptied'
      BY <1>1, <2>4, <2>5 DEF Handed, Queues, Emptied, Taking
    <2>13. HasJob' /\ AllGone'
      BY <1>1, <2>2, <2>4, <2>5, <2>9
         DEF Handed, Hands, HasJob, AllGone, Taking, p
    <2>14. InHand'
      <3> SUFFICES ASSUME NEW v \in Workers, Busy(v)', Taking(Owner[v])
                   PROVE  /\ wjob'[v] \in pending[Owner[v]]
                          /\ \A n \in 1 .. Len(queue'[Owner[v]]) :
                               queue'[Owner[v]][n] # wjob'[v]
        BY <1>1 DEF InHand, Taking
      <3>1. CASE v = w
        BY <2>2, <2>4, <2>5, <2>7, <3>1 DEF p
      <3>2. CASE v # w
        <4>1. /\ Busy(v) /\ wjob'[v] = wjob[v]
              /\ wjob[v] \in pending[Owner[v]]
              /\ \A n \in 1 .. Len(queue[Owner[v]]) : queue[Owner[v]][n] # wjob[v]
          BY <2>4, <2>9, <3>2 DEF Handed, Hands, InHand
        <4>2. CASE Owner[v] = p
          <5>1. \A n \in 1 .. Len(Q) : Q[n] # wjob[v]
            BY <2>8, <4>1, <4>2
          <5>2. \A n \in 1 .. Len(Tail(Q)) : Tail(Q)[n] # wjob[v]
            BY <2>7, <5>1
          <5>3. queue'[Owner[v]] = Tail(Q)
            BY <2>4, <4>2
          <5> QED BY <4>1, <5>2, <5>3
        <4>3. CASE Owner[v] # p
          BY <2>4, <4>1, <4>3
        <4> QED BY <4>2, <4>3
      <3> QED BY <3>1, <3>2
    <2>15. Apart'
      <3>1. \A v \in Workers : Owner[v] = p /\ Busy(v) => wjob[v] # Head(Q)
        BY <2>2, <2>8
      <3>2. \A v \in Workers : v # w /\ Owner[v] = p /\ Busy(v)' => wjob'[v] # wjob'[w]
        BY <2>4, <2>9, <3>1
      <3>3. \A u, v \in Workers : u # w /\ v # w /\ Busy(u)' /\ Busy(v)' /\
              Owner[u] = Owner[v] /\ wjob'[u] = wjob'[v] => u = v
        BY <2>4, <2>9 DEF Handed, Hands, Apart
      <3> QED BY <3>2, <3>3 DEF Apart, p
    <2> QED BY <2>10, <2>11, <2>12, <2>13, <2>14, <2>15 DEF Queues, Hands
  <1> QED BY <1>2, <1>3

LEMMA WaitHanded ==
  ASSUME Handed, NEW w \in Workers, Wait(w) PROVE Queues' /\ Hands'
  <1>1. /\ UNCHANGED <<queue, pending, wjob, loop>>
        /\ \A v \in Workers : /\ Busy(v)' <=> Busy(v)
                              /\ wpc[v] = "gone" => wpc'[v] = "gone"
    BY DEF Handed, TypeOK, Wait, Goto, At, Busy
  <1> QED
    BY <1>1, SchedulerAssumption DEF Handed, Queues, QueuedPending, QueuedOnce, Emptied,
       Hands, HasJob, AllGone, InHand, Apart, Taking

LEMMA RunHanded ==
  ASSUME Handed, NEW w \in Workers, AcquireLock(w) \/ RunJob(w)
  PROVE  Queues' /\ Hands'
  <1>1. /\ UNCHANGED <<queue, pending, wjob, loop>>
        /\ \A v \in Workers : /\ Busy(v)' <=> Busy(v)
                              /\ wpc[v] = "gone" => wpc'[v] = "gone"
    BY DEF Handed, TypeOK, AcquireLock, RunJob, Goto, At, Busy
  <1> QED
    BY <1>1, SchedulerAssumption DEF Handed, Queues, QueuedPending, QueuedOnce, Emptied,
       Hands, HasJob, AllGone, InHand, Apart, Taking

\* The job that is erased is in no other hand and not queued.
LEMMA EraseHanded ==
  ASSUME Handed, NEW w \in Workers, ErasePending(w) PROVE Queues' /\ Hands'
  <1> USE SchedulerAssumption
  <1>1. /\ Busy(w) /\ Owner[w] \in Procs
        /\ UNCHANGED <<queue, loop>>
        /\ pending'[Owner[w]] = pending[Owner[w]] \ {wjob[w]}
        /\ \A q \in Procs : q # Owner[w] => pending'[q] = pending[q]
        /\ wpc'[w] = "idle" /\ wpc[w] # "gone"
        /\ \A v \in Workers : v # w => wjob'[v] = wjob[v] /\ wpc'[v] = wpc[v]
    BY DEF Handed, TypeOK, ErasePending, Goto, At, Busy
  <1>2. \A v \in Workers : Busy(v)' <=> v # w /\ Busy(v)
    BY <1>1 DEF Busy
  <1>3. QueuedPending'
    <2> SUFFICES ASSUME NEW q \in Procs, NEW n \in 1 .. Len(queue[q])
                 PROVE  queue[q][n] \in pending'[q]
      BY <1>1 DEF QueuedPending
    <2>1. queue[q][n] \in pending[q]
      BY DEF Handed, Queues, QueuedPending
    <2>2. CASE q = Owner[w]
      <3>1. queue[q][n] # wjob[w]
        <4>1. CASE Taking(q)
          BY <1>1, <2>2, <4>1 DEF Handed, Hands, InHand
        <4>2. CASE queue[q] = <<>>
          BY <4>2
        <4> QED BY <4>1, <4>2 DEF Handed, Queues, Emptied
      <3> QED BY <1>1, <2>1, <2>2, <3>1
    <2>3. CASE q # Owner[w]
      BY <1>1, <2>1, <2>3
    <2> QED BY <2>2, <2>3
  <1>4. QueuedOnce' /\ Emptied'
    BY <1>1 DEF Handed, Queues, QueuedOnce, Emptied, Taking
  <1>5. HasJob' /\ AllGone' /\ Apart'
    BY <1>1, <1>2 DEF Handed, Hands, HasJob, AllGone, Apart
  <1>6. InHand'
    <2> SUFFICES ASSUME NEW v \in Workers, v # w, Busy(v), Taking(Owner[v])
                 PROVE  /\ wjob[v] \in pending'[Owner[v]]
                        /\ \A n \in 1 .. Len(queue[Owner[v]]) :
                             queue[Owner[v]][n] # wjob[v]
      BY <1>1, <1>2 DEF InHand, Taking
    <2>1. /\ wjob[v] \in pending[Owner[v]]
          /\ \A n \in 1 .. Len(queue[Owner[v]]) : queue[Owner[v]][n] # wjob[v]
      BY DEF Handed, Hands, InHand
    <2>2. CASE Owner[v] = Owner[w]
      <3>1. wjob[v] # wjob[w]
        BY <1>1, <2>2 DEF Handed, Hands, Apart
      <3> QED BY <1>1, <2>1, <2>2, <3>1
    <2>3. CASE Owner[v] # Owner[w]
      BY <1>1, <2>1, <2>3
    <2> QED BY <2>2, <2>3
  <1> QED BY <1>3, <1>4, <1>5, <1>6 DEF Queues, Hands

LEMMA NextHanded == Handed /\ [Next]_vars => Handed'
  <1> SUFFICES ASSUME Handed, [Next]_vars PROVE Queues' /\ Hands'
    BY NextTyped DEF Handed
  <1>1. CASE Tick \/ UNCHANGED vars
    <2>1. UNCHANGED <<wpc, wjob, queue, pending, loop>>
      BY <1>1 DEF Tick, vars
    <2> QED
      BY <2>1 DEF Queues, QueuedPending, QueuedOnce, Emptied, Hands, HasJob, AllGone,
         InHand, Apart, Busy, Taking, Handed
  <1> QED
    BY <1>1, StartHanded, EnqueueHanded, ClearHanded, NotifyHanded, StopHanded,
       StoppedHanded, CrashHanded, TestHanded, WaitHanded, RunHanded, EraseHanded
       DEF Next, Dispatch, Work

\* In every process and for every number of workers no job is in two workers'
\* hands, through timers, requestStop, restarts and crashes alike.
THEOREM OneHand == Spec => []OneWorkerPerJob
  <1>1. Handed => OneWorkerPerJob
    BY DEF Handed, Hands, Apart, OneWorkerPerJob, Doing, Busy
  <1> QED
    BY InitHanded, NextHanded, <1>1, PTL DEF Spec

-----------------------------------------------------------------------------
(* The spacing of runs.  What the lock has left and what has passed since the    *)
(* job began always add up to the lock's life.                                  *)

Spaced == TypeOK /\ \A j \in Jobs : lock[j] + since[j] >= Interval - 1

LEMMA InitSpaced == Init => Spaced
  BY InitTyped, SchedulerAssumption DEF Init, Spaced

LEMMA NextSpaced == Spaced /\ HasJob /\ [Next]_vars => Spaced'
  <1> SUFFICES ASSUME Spaced, HasJob, [Next]_vars, NEW j \in Jobs
               PROVE  lock'[j] + since'[j] >= Interval - 1
    BY NextTyped DEF Spaced
  <1> USE SchedulerAssumption
  <1>1. /\ lock[j] \in Nat /\ since[j] \in 0 .. Interval
        /\ lock[j] + since[j] >= Interval - 1
    BY DEF Spaced, TypeOK, Max2
  <1>2. CASE UNCHANGED <<lock, since>>
    BY <1>1, <1>2
  <1>3. ASSUME NEW w \in Workers, AcquireLock(w)
        PROVE  lock'[j] + since'[j] >= Interval - 1
    <2>1. LockTTL \in Nat /\ LockTTL >= Interval - 1
      BY DEF LockTTL, Max2
    <2>2. lock \in [Jobs -> Nat] /\ since \in [Jobs -> 0 .. Interval]
      BY DEF Spaced, TypeOK, Max2
    <2>3. CASE /\ lock' = [lock EXCEPT ![wjob[w]] = LockTTL]
               /\ since' = [since EXCEPT ![wjob[w]] = 0]
      BY <1>1, <2>1, <2>2, <2>3
    <2>4. CASE /\ lock' = [lock EXCEPT ![wjob[w]] =
                            IF lock[wjob[w]] = 0 THEN LockTTL ELSE lock[wjob[w]]]
               /\ UNCHANGED since
      BY <1>1, <2>1, <2>2, <2>4
    <2>5. CASE UNCHANGED <<lock, since>>
      BY <1>1, <2>5
    <2> QED BY <1>3, <2>3, <2>4, <2>5 DEF AcquireLock
  <1>4. CASE Tick
    BY <1>1, <1>4 DEF Tick
  <1>5. CASE UNCHANGED vars
    BY <1>2, <1>5 DEF vars
  <1> QED
    BY <1>2, <1>3, <1>4, <1>5 DEF Next, Dispatch, Work, StartProcess, EnqueueJob,
       ClearQueue, NotifyAll, RequestStop, Stopped, Crash, TestQueue, Wait, RunJob,
       ErasePending

\* For every interval, and whatever crashes, restarts or fails: two runs of a
\* job begin at least the life of its lock apart.
THEOREM RunsApart == Spec => RunsSpaced
  <1>1. Init => Spaced /\ Handed
    BY InitSpaced, InitHanded
  <1>2. Spaced /\ Handed /\ [Next]_vars => Spaced' /\ Handed'
    BY NextSpaced, NextHanded DEF Handed, Hands
  <1>3. Spaced /\ Handed /\ [Next]_vars =>
          [\A w \in Workers : Begins(w) => since[wjob[w]] >= Interval - 1]_vars
    <2> SUFFICES ASSUME Spaced, Handed, Next, NEW w \in Workers, Begins(w)
                 PROVE  since[wjob[w]] >= Interval - 1
      OBVIOUS
    <2>1. wjob[w] \in Jobs
      BY DEF Handed, Hands, HasJob, Busy, Begins, At
    <2>2. AcquireLock(w)
      <3>1. wpc[w] = "lockset" /\ wpc'[w] = "run"
        BY DEF Begins, At
      <3>2. wpc \in [Workers -> WorkerPCs]
        BY DEF Handed, TypeOK
      <3>3. ~UNCHANGED wpc
        BY <3>1
      <3>4. ASSUME NEW p \in Procs PROVE ~StartProcess(p) /\ ~NotifyAll(p) /\ ~Crash(p)
        BY <3>1, <3>2 DEF StartProcess, NotifyAll, Crash
      <3>5. ASSUME NEW p \in Procs, NEW j \in Jobs PROVE ~EnqueueJob(p, j)
        BY <3>1, <3>2, <3>3 DEF EnqueueJob, NotifyOne, Goto
      <3>6. ASSUME NEW v \in Workers
            PROVE  ~TestQueue(v) /\ ~Wait(v) /\ ~RunJob(v) /\ ~ErasePending(v)
        BY <3>1, <3>2 DEF TestQueue, Wait, RunJob, ErasePending, Goto
      <3>7. ASSUME NEW v \in Workers, v # w PROVE ~AcquireLock(v)
        BY <3>1, <3>2, <3>7 DEF AcquireLock, Goto
      <3> QED
        BY <3>3, <3>4, <3>5, <3>6, <3>7 DEF Next, Dispatch, Work, RequestStop,
           ClearQueue, Stopped, Tick
    <2>3. lock[wjob[w]] = 0
      BY <2>2 DEF AcquireLock, Begins, Goto, Handed, TypeOK
    <2> QED BY <2>1, <2>3, SchedulerAssumption DEF Spaced, TypeOK
  <1> QED BY <1>1, <1>2, <1>3, PTL DEF Spec, RunsSpaced
=============================================================================
