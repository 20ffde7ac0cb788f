------------------------------ MODULE SchedulerMC ------------------------------
(* Instances of Scheduler for TLC: a process with two workers, one with one.   *)
EXTENDS Scheduler, TLC

CONSTANTS p1, p2, w1, w2, w3

ThreeWorkers == (w1 :> p1) @@ (w2 :> p1) @@ (w3 :> p2)

=============================================================================
