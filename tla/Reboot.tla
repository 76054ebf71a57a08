------------------------------- MODULE Reboot -------------------------------
(***************************************************************************)
(* The syscall bus between the programs on the host and the kernels of a   *)
(* page, and the snapshots that one kernel leaves to the next:             *)
(* createSyscallDispatcher and the snapshot calls in                       *)
(* core/kernel/syscalls.ts, Kernel.create, restore, snapshot, stop and     *)
(* reboot in core/kernel/index.ts, the snapshot helpers in                 *)
(* core/fs/sqlite.ts, ui/hooks/useKernel.ts, and syscall_callback,         *)
(* syscall_response and the snapshot commands in host/src/main.rs.         *)
(*                                                                         *)
(* A reboot makes another kernel in the same page.  Each kernel has its    *)
(* own process table and loop, while the dispatcherMap, the isolates of    *)
(* the host and its snapshots are shared, and the syscall listener of a    *)
(* kernel is never removed.  What a kernel holds besides its processes is  *)
(* abstracted to the syscalls that changed it (world), those that changed  *)
(* what a snapshot has, as the tables of sockets and windows ("work"), and *)
(* those that changed what it has not, as the single-user mode, functions  *)
(* that listen, terminals and the file system's records of mounts          *)
(* ("passing").  Quotas, spawn and kill are left to Scheduler.tla, and so  *)
(* are tasks that wait for a thread of the host: here a first slice begins *)
(* its script when it is launched.                                         *)
(***************************************************************************)
EXTENDS Naturals, Sequences, FiniteSets

CONSTANTS MaxPid,      \* the machine has the processes 1 .. MaxPid
          Manifest,    \* the kinds of syscalls that each one makes
          MaxKernels,  \* bound: kernels ever made
          MaxCalls,    \* bound: syscalls ever made
          NoSnapshot   \* no row in the table of snapshots

Pid == 1 .. MaxPid
Kinds == {"work", "passing", "save", "name", "load", "reboot"}

ASSUME ManifestAssumption == Manifest \in [Pid -> SUBSET Kinds]

ASSUME BoundsAssumption ==
  /\ MaxPid \in Nat \ {0}
  /\ MaxKernels \in Nat \ {0}
  /\ MaxCalls \in Nat

Kernel == 1 .. MaxKernels

Pcbs == [Pid -> [started : BOOLEAN, exited : BOOLEAN]]
SnapshotType == [world : SUBSET (0 .. MaxCalls), table : Pcbs]

ASSUME NoSnapshotAssumption == NoSnapshot \notin SnapshotType

VARIABLES
  made,         \* kernels made so far
  pc,           \* the loop of each kernel: none, boot, step, slice, off
  running,      \* Kernel.running
  table,        \* state.processes: started and exited of each process
  world,        \* the rest of the kernel's state: the calls that changed it
  base,         \* history: the world each kernel booted with
  origin,       \* history: what each kernel was made from
  batch,        \* the processes of the round still to run
  current,      \* the process of the slice that the loop awaits
  dispatchers,  \* dispatcherMap: the kernel that serves a process, 0 for none
  calls,        \* the syscalls made, in the order of their ids
  thread,       \* host: the thread that runs a process's script for a kernel
  isolates,     \* host: domain of ISOLATES
  commands,     \* commands sent to the host and not handled
  active,       \* host: snapshot_state
  named,        \* host: the slot of snapshots that programs use
  ackedAtStop,  \* history: the working calls answered before the first reboot
  spent         \* bound: the kernels and calls of earlier lives of the host

loopVars == <<pc, table, batch, current, dispatchers>>
hostVars == <<calls, thread, isolates>>
diskVars == <<active, named>>
bootVars == <<made, running, base, origin, ackedAtStop, spent>>
vars == <<loopVars, world, hostVars, commands, diskVars, bootVars>>

FreshTable == [p \in Pid |-> [started |-> FALSE, exited |-> FALSE]]

\* The calls of one script are made one after the other by one thread.
CallOf(p, k, kind) == [pid |-> p, by |-> k, kind |-> kind, at |-> "emitted"]

Answered(c) == calls[c].at = "answered"
AnsweredWork == {c \in DOMAIN calls : calls[c].kind = "work" /\ Answered(c)}

\* A kernel whose create or restore has run has its syscall listener.
Listeners == {k \in Kernel : pc[k] \notin {"none", "boot"}}

Init ==
  /\ made = 1
  /\ pc = [k \in Kernel |-> IF k = 1 THEN "boot" ELSE "none"]
  /\ running = [k \in Kernel |-> FALSE]
  /\ table = [k \in Kernel |-> FreshTable]
  /\ world = [k \in Kernel |-> {}]
  /\ base = [k \in Kernel |-> {}]
  /\ origin = [k \in Kernel |-> "app"]
  /\ batch = [k \in Kernel |-> {}]
  /\ current = [k \in Kernel |-> {}]
  /\ dispatchers = [p \in Pid |-> 0]
  /\ calls = <<>>
  /\ thread = [k \in Kernel |-> [p \in Pid |-> "none"]]
  /\ isolates = {}
  /\ commands = <<[cmd |-> "boot", k |-> 1]>>
  /\ ackedAtStop = {}
  /\ active = NoSnapshot
  /\ named = NoSnapshot
  /\ spent = [kernels |-> 0, calls |-> 0]

-----------------------------------------------------------------------------
(* Kernel.start and runProcess of kernel k *)

\* Mutant: the loop of a kernel that has been stopped goes on.
KeepsLooping_Always(k) == TRUE

\* while (this.running)
KeepsLooping(k) == running[k]

\* A round takes every process that has not exited; a kernel that has none
\* sleeps and stays where it is.
LoopTake(k) ==
  /\ pc[k] = "step"
  /\ batch[k] = {}
  /\ KeepsLooping(k)
  /\ \E p \in Pid : ~table[k][p].exited
  /\ batch' = [batch EXCEPT ![k] = {p \in Pid : ~table[k][p].exited}]
  /\ UNCHANGED <<pc, table, current, dispatchers, world, hostVars, commands,
                 diskVars, bootVars>>

LoopEnd(k) ==
  /\ pc[k] = "step"
  /\ batch[k] = {}
  /\ ~KeepsLooping(k)
  /\ pc' = [pc EXCEPT ![k] = "off"]
  /\ UNCHANGED <<table, batch, current, dispatchers, world, hostVars, commands,
                 diskVars, bootVars>>

\* The script of the first slice is in a thread of the host, unless the host
\* finds an isolate under that pid.
ThreadAtLaunch(k, p) ==
  IF p \in isolates \/ table[k][p].started THEN thread[k][p] ELSE "running"

\* runProcess up to its first await.  Nobody is spawned, so every round has
\* the order of the pids.
Launch(k, p) ==
  /\ pc[k] = "step"
  /\ p \in batch[k]
  /\ \A q \in batch[k] : p <= q
  /\ batch' = [batch EXCEPT ![k] = @ \ {p}]
  /\ pc' = [pc EXCEPT ![k] = "slice"]
  /\ current' = [current EXCEPT ![k] = {p}]
  /\ dispatchers' = [dispatchers EXCEPT ![p] = k]
  /\ thread' = [thread EXCEPT ![k][p] = ThreadAtLaunch(k, p)]
  /\ UNCHANGED <<table, world, calls, isolates, commands, diskVars, bootVars>>

\* Mutant: the dispatcher goes only when the process has not exited.
Released_Alive(p, exited) ==
  IF exited THEN dispatchers ELSE [dispatchers EXCEPT ![p] = 0]

\* dispatcherMap.delete(pcb.pid), whichever kernel put the dispatcher there.
Released(p, exited) == [dispatchers EXCEPT ![p] = 0]

\* The end of runProcess; a process that exited has its isolate dropped.
SliceEnds(k, p, exited) ==
  /\ pc[k] = "slice"
  /\ current[k] = {p}
  /\ table' = [table EXCEPT ![k][p] =
                  [started |-> TRUE, exited |-> @.exited \/ exited]]
  /\ dispatchers' = Released(p, exited)
  /\ pc' = [pc EXCEPT ![k] = "step"]
  /\ current' = [current EXCEPT ![k] = {}]
  /\ UNCHANGED <<batch, world, calls, thread, commands, diskVars, bootVars>>

\* The task of a first slice builds an isolate and runs the script, unless
\* it finds an isolate under its pid.  One whose script has run is put back.
SliceDone(k, p) ==
  /\ \/ thread[k][p] = "ended"
     \/ p \in isolates /\ (table[k][p].started \/ thread[k][p] = "none")
  /\ SliceEnds(k, p, TRUE)
  /\ isolates' = isolates \ {p}

\* "no code": neither an isolate nor the source.
SliceFails(k, p) ==
  /\ p \notin isolates
  /\ table[k][p].started
  /\ SliceEnds(k, p, TRUE)
  /\ UNCHANGED isolates

\* The quota may end the process: the second time-out exceeds its memory, and
\* the first one does after a restore, which reads the default time quota,
\* Infinity, back as null.
SliceTimeout(k, p) ==
  \E overQuota \in BOOLEAN :
    /\ SliceEnds(k, p, overQuota)
    /\ isolates' = IF overQuota THEN isolates \ {p} ELSE isolates

-----------------------------------------------------------------------------
(* The scripts on the host *)

\* The isolate goes into the map, where a slice that is awaited finds it.
ScriptEnds(k, p) ==
  /\ thread[k][p] = "running"
  /\ thread' = [thread EXCEPT ![k][p] = "ended"]
  /\ isolates' = isolates \cup {p}
  /\ UNCHANGED <<loopVars, world, calls, commands, diskVars, bootVars>>

\* syscall_callback: the event is emitted and the thread waits in rx.recv.
Emit(k, p, kind) ==
  /\ thread[k][p] = "running"
  /\ spent.calls + Len(calls) < MaxCalls
  /\ calls' = Append(calls, CallOf(p, k, kind))
  /\ thread' = [thread EXCEPT ![k][p] = "waiting"]
  /\ UNCHANGED <<loopVars, world, isolates, commands, diskVars, bootVars>>

\* syscall_response: the first one finds the sender, wakes the thread and
\* removes the sender.
Answer(c) ==
  /\ calls' = [calls EXCEPT ![c].at = "answered"]
  /\ thread' = IF thread[calls[c].by][calls[c].pid] = "waiting"
                 THEN [thread EXCEPT ![calls[c].by][calls[c].pid] = "running"]
                 ELSE thread

Served(c) ==
  /\ calls' = [calls EXCEPT ![c].at = "served"]
  /\ UNCHANGED thread

-----------------------------------------------------------------------------
(* The syscall event in the page *)

Emitted(c) == c \in DOMAIN calls /\ calls[c].at = "emitted"
Dispatcher(c) == dispatchers[calls[c].pid]


\* Mutant: the Map of processes is written as JSON writes it, as {}.
Snapshot_PlainMap(k) == [world |-> world[k], table |-> <<>>]

\* What a snapshot takes along; 0 is of an earlier life of the host (Aged).
Lasting(w) == {c \in w : c = 0 \/ calls[c].kind = "work"}

\* For what snapshot() lists, its replacer and the reviver of restore() are
\* inverse; the rest is not listed, or lost in JSON as functions are.
Snapshot(k) == [world |-> Lasting(world[k]), table |-> table[k]]
Save(s) == [cmd |-> "save", snap |-> s]
BootOf(k) == [cmd |-> "boot", k |-> k]

\* No dispatcher, or one that rejects, as a handler that fails makes it do:
\* nobody answers.
Drop(c) ==
  /\ Emitted(c)
  /\ calls' = [calls EXCEPT ![c].at = "dropped"]
  /\ UNCHANGED <<loopVars, world, thread, isolates, commands, diskVars, bootVars>>

Handles(c, kind) == Emitted(c) /\ Dispatcher(c) # 0 /\ calls[c].kind = kind

\* Every listener runs the handler; what the state holds is the same.
Work(c) ==
  /\ Handles(c, "work") \/ Handles(c, "passing")
  /\ world' = [world EXCEPT ![Dispatcher(c)] = @ \cup {c}]
  /\ Answer(c)
  /\ UNCHANGED <<loopVars, isolates, commands, diskVars, bootVars>>

\* save_snapshot does not wait for the host.  As many equal snapshots are sent
\* as there are listeners; the model sends one.
SaveSnapshot(c) ==
  /\ Handles(c, "save")
  /\ commands' = Append(commands, Save(Snapshot(Dispatcher(c))))
  /\ Answer(c)
  /\ UNCHANGED <<loopVars, world, isolates, diskVars, bootVars>>

SaveNamed(c) ==
  /\ Handles(c, "name")
  /\ commands' = Append(commands, [cmd |-> "name", call |-> c,
                                   snap |-> Snapshot(Dispatcher(c))])
  /\ Served(c)
  /\ UNCHANGED <<loopVars, world, isolates, diskVars, bootVars>>

\* Every listener asks for the named snapshot.
LoadNamed(c) ==
  /\ Handles(c, "load")
  /\ commands' = commands \o
       [i \in 1 .. Cardinality(Listeners) |->
          [cmd |-> "load", call |-> c, k |-> Dispatcher(c)]]
  /\ Served(c)
  /\ UNCHANGED <<loopVars, world, isolates, diskVars, bootVars>>

\* Kernels n + 1 .. n + m are made, each of which asks for the snapshot.
Make(n, m, from) ==
  /\ spent.kernels + n + m <= MaxKernels
  /\ made' = n + m
  /\ pc' = [k \in Kernel |-> IF k \in (n + 1) .. (n + m) THEN "boot" ELSE pc[k]]
  /\ origin' = [k \in Kernel |-> IF k \in (n + 1) .. (n + m) THEN from ELSE origin[k]]
  /\ ackedAtStop' = IF n = 1 THEN AnsweredWork ELSE ackedAtStop

\* Mutant: the new kernel is made before the snapshot is sent.
RebootCommands_EmitFirst(s, boots) == Append(boots, s)

\* stop() sends the snapshot before "system.reboot" makes a kernel ask for it.
RebootCommands(s, boots) == <<s>> \o boots

\* reboot(), once for every listener: each emits "system.reboot", and for each
\* useKernel makes a kernel.  Whether the answer, which has no value, reaches
\* the program is left open.
Reboot(c) ==
  /\ Handles(c, "reboot")
  /\ LET d == Dispatcher(c)
         m == Cardinality(Listeners)
     IN /\ Make(made, m, "reboot")
        /\ running' = [running EXCEPT ![d] = FALSE]
        /\ commands' = commands \o
             RebootCommands(Save(Snapshot(d)),
                            [i \in 1 .. m |-> BootOf(made + i)])
  /\ Answer(c) \/ Served(c)
  /\ UNCHANGED <<table, batch, current, dispatchers, world, isolates, diskVars,
                 base, spent>>

-----------------------------------------------------------------------------
(* The host handles the commands of a page in the order they were sent; the  *)
(* reply is handled with the command.                                        *)

Command(cmd) == commands # <<>> /\ Head(commands).cmd = cmd

HostSave ==
  /\ Command("save")
  /\ active' = Head(commands).snap
  /\ commands' = Tail(commands)
  /\ UNCHANGED <<loopVars, world, hostVars, named, bootVars>>

HostSaveNamed ==
  /\ Command("name")
  /\ named' = Head(commands).snap
  /\ commands' = Tail(commands)
  /\ Answer(Head(commands).call)
  /\ UNCHANGED <<loopVars, world, isolates, active, bootVars>>

\* load_snapshot_named answers -1 when there is no such snapshot.
HostLoadNothing ==
  /\ Command("load")
  /\ named = NoSnapshot
  /\ commands' = Tail(commands)
  /\ Answer(Head(commands).call)
  /\ UNCHANGED <<loopVars, world, isolates, diskVars, bootVars>>

\* Else it stops the loop of its kernel, makes the snapshot the active one and
\* emits "system.reboot".
HostLoad ==
  /\ Command("load")
  /\ named # NoSnapshot
  /\ Make(made, 1, "load")
  /\ running' = [running EXCEPT ![Head(commands).k] = FALSE]
  /\ commands' = Tail(commands) \o <<Save(named), BootOf(made + 1)>>
  /\ Answer(Head(commands).call)
  /\ UNCHANGED <<table, batch, current, dispatchers, world, isolates, diskVars,
                 base, spent>>

\* Kernel.create: restore, or a fresh system.  start() follows at once.
Boot ==
  /\ Command("boot")
  /\ LET k == Head(commands).k
         s == IF active = NoSnapshot
                THEN [world |-> {}, table |-> FreshTable]
                ELSE active
     IN /\ table' = [table EXCEPT ![k] = s.table]
        /\ world' = [world EXCEPT ![k] = s.world]
        /\ base' = [base EXCEPT ![k] = s.world]
        /\ pc' = [pc EXCEPT ![k] = "step"]
        /\ running' = [running EXCEPT ![k] = TRUE]
  /\ commands' = Tail(commands)
  /\ UNCHANGED <<batch, current, dispatchers, hostVars, diskVars, made, origin,
                 ackedAtStop, spent>>

\* kernelRef.current of useKernel.
Latest(k) == k \in Listeners /\ \A j \in Listeners : j <= k

Anew ==
  /\ made' = 1
  /\ pc' = [k \in Kernel |-> IF k = 1 THEN "boot" ELSE "none"]
  /\ running' = [k \in Kernel |-> FALSE]
  /\ table' = [k \in Kernel |-> FreshTable]
  /\ world' = [k \in Kernel |-> {}]
  /\ base' = [k \in Kernel |-> {}]
  /\ origin' = [k \in Kernel |-> "app"]
  /\ batch' = [k \in Kernel |-> {}]
  /\ current' = [k \in Kernel |-> {}]
  /\ dispatchers' = [p \in Pid |-> 0]
  /\ calls' = <<>>
  /\ thread' = [k \in Kernel |-> [p \in Pid |-> "none"]]
  /\ isolates' = {}
  /\ commands' = <<BootOf(1)>>
  /\ ackedAtStop' = {}

\* The syscall ids start again with the host: in the snapshots of an earlier
\* life 0 stands for all that was done in it.
Aged(s) ==
  IF s = NoSnapshot \/ s.world = {} THEN s ELSE [s EXCEPT !.world = {0}]

\* The application is closed, and started again.  beforeunload calls stop() of
\* the latest kernel; its snapshot may or may not get to the host in time.
\* Kernels, isolates, threads and commands under way are gone.
CloseApp ==
  /\ spent.kernels + made < MaxKernels
  /\ spent' = [kernels |-> spent.kernels + made,
               calls |-> spent.calls + Len(calls)]
  /\ Anew
  /\ named' = Aged(named)
  /\ \/ active' = Aged(active)
     \/ \E k \in Kernel : Latest(k) /\ active' = Aged(Snapshot(k))

-----------------------------------------------------------------------------

Loop(k) ==
  \/ LoopTake(k) \/ LoopEnd(k)
  \/ \E p \in Pid :
       Launch(k, p) \/ SliceDone(k, p) \/ SliceFails(k, p) \/ SliceTimeout(k, p)

Script(k) ==
  \E p \in Pid :
    \/ ScriptEnds(k, p)
    \/ \E kind \in Manifest[p] : Emit(k, p, kind)

Bus ==
  \E c \in DOMAIN calls :
    \/ Drop(c) \/ Work(c) \/ SaveSnapshot(c) \/ SaveNamed(c) \/ LoadNamed(c)
    \/ Reboot(c)

Host == HostSave \/ HostSaveNamed \/ HostLoadNothing \/ HostLoad \/ Boot

Next == (\E k \in Kernel : Loop(k) \/ Script(k)) \/ Bus \/ Host \/ CloseApp

\* The page runs what is ready and the host's timer ends a slice that does not
\* end by itself.
Fairness == \A k \in Kernel : WF_vars(Loop(k))

Spec == Init /\ [][Next]_vars

FairSpec == Spec /\ Fairness

-----------------------------------------------------------------------------
(* Properties *)

\* Types: above all, what the host stores is a snapshot that restore can read.
TypeOK ==
  /\ made \in Kernel
  /\ pc \in [Kernel -> {"none", "boot", "step", "slice", "off"}]
  /\ running \in [Kernel -> BOOLEAN]
  /\ table \in [Kernel -> Pcbs]
  /\ world \in [Kernel -> SUBSET (0 .. MaxCalls)]
  /\ batch \in [Kernel -> SUBSET Pid]
  /\ current \in [Kernel -> {{}} \cup {{p} : p \in Pid}]
  /\ dispatchers \in [Pid -> Kernel \cup {0}]
  /\ isolates \subseteq Pid
  /\ {active, named} \subseteq SnapshotType \cup {NoSnapshot}

\* A syscall is handled only while some loop awaits a slice of its process,
\* and by the kernel whose slice that is, however many kernels share
\* dispatcherMap: no entry outlives the slice it was made for.
CallsRunInSlices ==
  \A p \in Pid : dispatchers[p] # 0 =>
    pc[dispatchers[p]] = "slice" /\ current[dispatchers[p]] = {p}

\* What programs were told is done before the first reboot of a page, and what
\* a snapshot has, is part of the state that the next kernel boots with: none
\* of it is later than the snapshot that this kernel is given.
RebootKeepsWork ==
  made >= 2 /\ origin[2] = "reboot" /\ pc[2] # "boot"
    => ackedAtStop \subseteq base[2]

\* The loop of a kernel that was stopped, by a reboot or by a load, ends,
\* although the slices of its last round are run first.
StoppedLoopsEnd ==
  \A k \in Kernel :
    pc[k] \in {"step", "slice"} /\ ~running[k] ~> pc[k] \in {"off", "none", "boot"}
=============================================================================
