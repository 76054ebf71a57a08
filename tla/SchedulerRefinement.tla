-------------------------- MODULE SchedulerRefinement --------------------------
(***************************************************************************)
(* The scheduler of Kernel.start implements the turns of RoundRobin.       *)
(***************************************************************************)
EXTENDS Scheduler

\* The processes of the batch still have their turn to come.
RR == INSTANCE RoundRobin WITH
        alive <- {p \in Pid : Alive(p)},
        turn <- {p \in Pid : InBatch(p)},
        onCpu <- current

\* Every step of the loop, of the host and of a syscall is a step of the
\* abstract round robin or leaves its state alone: nobody gets a second slice
\* while a process that was ready at the start of the round waits for its own.
RoundRobinTurns == RR!Spec
=============================================================================
