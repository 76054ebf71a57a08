------------------------------ MODULE RoundRobin ------------------------------
(***************************************************************************)
(* What the scheduler loop of the kernel promises about turns, without     *)
(* queues: the processes alive at the start of a round each get one turn   *)
(* in that round, one at a time, and a process that is admitted during a   *)
(* round waits for the next.  Between two turns of a process no other one  *)
(* has more than two: the rest of one round and the next.                  *)
(***************************************************************************)
CONSTANTS Pid,   \* the processes
          NoPid  \* not a process

VARIABLES alive,  \* the processes that have not exited
          turn,   \* the processes that have not had their turn in this round
          onCpu   \* the process whose turn it is, or NoPid

vars == <<alive, turn, onCpu>>

Init ==
  /\ alive \subseteq Pid
  /\ turn = {}
  /\ onCpu = NoPid

\* A round starts only when every turn of the last one is over.
NewRound ==
  /\ turn = {}
  /\ onCpu = NoPid
  /\ turn' = alive
  /\ UNCHANGED <<alive, onCpu>>

Dispatch(p) ==
  /\ onCpu = NoPid
  /\ p \in turn
  /\ onCpu' = p
  /\ turn' = turn \ {p}
  /\ UNCHANGED alive

\* A process with nothing to run gives up its turn.
Pass(p) ==
  /\ onCpu = NoPid
  /\ p \in turn
  /\ turn' = turn \ {p}
  /\ UNCHANGED <<alive, onCpu>>

Release ==
  /\ onCpu # NoPid
  /\ onCpu' = NoPid
  /\ UNCHANGED <<alive, turn>>

\* A new process has no turn in the running round.
Admit(p) ==
  /\ p \notin alive
  /\ p \notin turn
  /\ p # onCpu
  /\ alive' = alive \cup {p}
  /\ UNCHANGED <<turn, onCpu>>

\* A process may die at any time; a dead one keeps the turn it has.
Die(p) ==
  /\ p \in alive
  /\ alive' = alive \ {p}
  /\ UNCHANGED <<turn, onCpu>>

Next ==
  \/ NewRound \/ Release
  \/ \E p \in Pid : Dispatch(p) \/ Pass(p) \/ Admit(p) \/ Die(p)

Spec == Init /\ [][Next]_vars
=============================================================================
