------------------------------ MODULE Scheduler ------------------------------
(***************************************************************************)
(* The process table, the cooperative scheduler loop and the host's        *)
(* isolate slices: core/kernel/process.ts, Kernel.start in                 *)
(* core/kernel/index.ts, spawn/kill/set_quota/single_user in               *)
(* core/kernel/syscalls.ts, run_isolate_slice/drop_isolate in              *)
(* host/src/main.rs.                                                       *)
(*                                                                         *)
(* The kernel is one JavaScript thread: an action below is the code        *)
(* between two awaits that wait for the outside world.  The control point  *)
(* of the loop is pc:                                                      *)
(*   "step"     running; nothing else in the kernel can interleave         *)
(*   "idle"     awaiting the idle timer                                    *)
(*   "slice"    awaiting run_isolate_slice of process current, whose task  *)
(*              on the host is in state slice                              *)
(*   "done", "err", "timeout"   that promise has settled, so, but runProcess *)
(*              has not resumed                                            *)
(*   "drop"     awaiting drop_isolate of process current                   *)
(*   "off"      the loop has returned                                      *)
(* The host runs one blocking task per slice; a task outlives the slice    *)
(* when the slice times out.                                               *)
(***************************************************************************)
EXTENDS Integers, Sequences, SequencesExt

CONSTANTS MaxPid,    \* bound: processes ever created
          CpuCap,    \* cpuMs saturates here; the value of an infinite quota
          MemCap,    \* memBytes saturates here, above every memory quota
          CpuQuotas, \* values of quotaMs_total that spawn and set_quota are given
          MemQuotas, \* values of quotaMem that spawn and set_quota are given
          MaxLate    \* bound: processes with tasks that outlived their slices

ASSUME BoundsAssumption ==
  /\ MaxPid \in Nat \ {0}
  /\ CpuCap \in Nat \ {0}
  /\ MemCap \in Nat \ {0}
  /\ CpuQuotas \subseteq 1 .. CpuCap
  /\ CpuCap \in CpuQuotas
  /\ MemQuotas \subseteq 1 .. (MemCap - 1)
  /\ MemQuotas # {}
  /\ MaxLate \in Nat

VARIABLES nextPid,     \* state.nextPid
          proc,        \* state.processes: pid -> PCB
          readyQueue,  \* Kernel.readyQueue
          batch,       \* the part of start's local queue not yet run
          pc,          \* control point of Kernel.start / runProcess
          current,     \* the process runProcess works on, NoPid between calls
          slice,       \* host: the task whose result runProcess awaits
          running,     \* Kernel.running
          singleUser,  \* Kernel.singleUser
          dispatchers, \* domain of dispatcherMap
          late,        \* host: tasks of a process whose slice timed out
          isolates,    \* host: domain of ISOLATES
          drops        \* drop_isolate calls sent and not awaited

kernelVars == <<nextPid, proc, readyQueue, batch, current, running,
                singleUser, dispatchers>>
hostVars == <<slice, late, isolates, drops>>
vars == <<kernelVars, pc, hostVars>>

Pid == 1 .. MaxPid
InitPid == 1
NoPid == 0
NoSig == 0

\* A blocking task of the host is queued with or without the program's source,
\* or executes the script; "none" when runProcess awaits no task.
TaskStates == {"code", "queued", "executing"}
PcValues == {"step", "idle", "slice", "done", "err", "timeout", "drop", "off"}

Pcb == [started: BOOLEAN, code: BOOLEAN, exited: BOOLEAN,
        cpuMs: 0 .. CpuCap, memBytes: 0 .. MemCap,
        quotaMs_total: CpuQuotas, quotaMem: MemQuotas,
        quotaViolations: 0 .. 2]

\* The PCB createProcess and syscall_spawn build; code is whether the source
\* is a non-empty string.
NewPcb(code, total, mem) ==
  [started |-> FALSE, code |-> code, exited |-> FALSE, cpuMs |-> 0,
   memBytes |-> 0, quotaMs_total |-> total, quotaMem |-> mem,
   quotaViolations |-> 0]

Created(p) == p < nextPid
Alive(p) == Created(p) /\ ~proc[p].exited
Holds(q, p) == \E i \in DOMAIN q : q[i] = p
InReady(p) == Holds(readyQueue, p)
InBatch(p) == Holds(batch, p)

Active == {"slice", "done", "err", "timeout", "drop"}
OnCpu(p) == pc \in Active /\ current = p
AwaitedTask(p, st) == pc = "slice" /\ current = p /\ slice = st
HasTask(p, st) == AwaitedTask(p, st) \/ st \in late[p]

\* A message from outside is handled only when the loop awaits one.
Awaiting == pc # "step"

\* Mutant: kill leaves the ready queue alone.
Without_Unfiltered(q, p) == q

\* queue.filter(p => p.pid !== pid).  A pid is in the queue at most once
\* (ScheduledOnce), so the filter takes out at most one position.
Without(q, p) ==
  IF Holds(q, p)
    THEN RemoveAt(q, CHOOSE i \in DOMAIN q : q[i] = p)
    ELSE q

\* The quota of init is the default one, its source is /sbin/init.
Init ==
  /\ nextPid = 2
  /\ \E mem \in MemQuotas :
       proc = [p \in Pid |-> NewPcb(p = InitPid, CpuCap, mem)]
  /\ readyQueue = <<InitPid>>
  /\ batch = <<>>
  /\ pc = "step"
  /\ current = NoPid
  /\ running = TRUE
  /\ singleUser = FALSE
  /\ dispatchers = {}
  /\ slice = "none"
  /\ late = [p \in Pid |-> {}]
  /\ isolates = {}
  /\ drops = {}

-----------------------------------------------------------------------------
(* Kernel.start and runProcess *)

\* while (this.running) is false.
LoopEnd ==
  /\ pc = "step"
  /\ batch = <<>>
  /\ ~running
  /\ pc' = "off"
  /\ UNCHANGED <<kernelVars, hostVars>>

\* Mutant: the ready queue is not emptied when the loop copies it.
LoopTake_NoReset ==
  /\ pc = "step"
  /\ batch = <<>>
  /\ running
  /\ batch' = readyQueue
  /\ pc' = IF readyQueue = <<>> THEN "idle" ELSE "step"
  /\ UNCHANGED <<nextPid, proc, readyQueue, current, running, singleUser,
                 dispatchers, hostVars>>

\* queue = readyQueue.slice(); readyQueue = []; an empty queue sleeps.
LoopTake ==
  /\ pc = "step"
  /\ batch = <<>>
  /\ running
  /\ batch' = readyQueue
  /\ readyQueue' = <<>>
  /\ pc' = IF readyQueue = <<>> THEN "idle" ELSE "step"
  /\ UNCHANGED <<nextPid, proc, current, running, singleUser, dispatchers,
                 hostVars>>

IdleTimer ==
  /\ pc = "idle"
  /\ pc' = "step"
  /\ UNCHANGED <<kernelVars, hostVars>>

\* if (!pcb.exited) this.readyQueue.push(pcb)
Requeue(q, p, exited) == IF exited THEN q ELSE Append(q, p)

Runnable(p) == proc[p].started \/ proc[p].code

\* runProcess returns at once: neither started nor any code to start.
RunSkip ==
  /\ pc = "step"
  /\ batch # <<>>
  /\ ~Runnable(Head(batch))
  /\ batch' = Tail(batch)
  /\ readyQueue' = Requeue(readyQueue, Head(batch), proc[Head(batch)].exited)
  /\ UNCHANGED <<nextPid, proc, pc, current, running, singleUser, dispatchers,
                 hostVars>>

\* Mutant: the source is sent with every slice.
SliceTask_AlwaysCode(p) == "code"

\* args.code is set for a process that has not started.
SliceTask(p) == IF proc[p].started THEN "queued" ELSE "code"

\* runProcess up to its first await.  There is no test of pcb.exited.
RunLaunch ==
  /\ pc = "step"
  /\ batch # <<>>
  /\ LET p == Head(batch) IN
       /\ Runnable(p)
       /\ current' = p
       /\ dispatchers' = dispatchers \cup {p}
       /\ slice' = SliceTask(p)
  /\ batch' = Tail(batch)
  /\ pc' = "slice"
  /\ UNCHANGED <<nextPid, proc, readyQueue, running, singleUser, late,
                 isolates, drops>>

CapAt(n, cap) == IF n > cap THEN cap ELSE n

\* The counters of r after a slice that used cpu and mem, and the quota test.
Charged(r, cpu, mem) ==
  [r EXCEPT !.started = TRUE, !.code = FALSE,
            !.cpuMs = CapAt(@ + cpu, CpuCap),
            !.memBytes = CapAt(@ + mem, MemCap)]

OverQuota(r) == r.cpuMs > r.quotaMs_total \/ r.memBytes > r.quotaMem

\* Mutant: the quota kills a process at its second violation only.
QuotaKills_SecondStrike(p, over) ==
  over /\ p # InitPid /\ proc[p].quotaViolations > 0

\* syscall_kill(pid, 9), which is refused for init.
QuotaKills(p, over) == over /\ p # InitPid

\* runProcess after a slice that returned a result.  The branch that records
\* the end of a finished program is not taken when the slice is over quota.
ResumeResult(cpu, mem, finished) ==
  LET p == current
      c == Charged(proc[p], cpu, mem)
      over == OverQuota(c)
      killed == QuotaKills(p, over)
      r == [c EXCEPT
              !.quotaViolations = CapAt(@ + (IF over THEN 1 ELSE 0), 2),
              !.exited = @ \/ killed \/ (~over /\ finished)]
      q == IF killed THEN Without(readyQueue, p) ELSE readyQueue
  IN /\ proc' = [proc EXCEPT ![p] = r]
     /\ drops' = IF killed THEN drops \cup {p} ELSE drops
     /\ readyQueue' = Requeue(q, p, r.exited)
     /\ dispatchers' = IF r.exited THEN dispatchers ELSE dispatchers \ {p}
     /\ pc' = IF r.exited THEN "drop" ELSE "step"
     /\ current' = IF r.exited THEN p ELSE NoPid
     /\ UNCHANGED <<nextPid, batch, running, singleUser, slice, late, isolates>>

\* The script ran to its end; the host reports what it used.
ResumeDone ==
  /\ pc = "done"
  /\ \E cpu \in 0 .. 1 : ResumeResult(cpu, 1, TRUE)

\* The slice timed out; the host reports the whole slice and the whole memory
\* quota as used.
ResumeTimeout ==
  /\ pc = "timeout"
  /\ ResumeResult(1, proc[current].quotaMem, FALSE)

\* Mutant: a failed slice does not end the process.
ResumeErr_NotExited ==
  /\ pc = "err"
  /\ pc' = "drop"
  /\ UNCHANGED <<kernelVars, hostVars>>

\* catch (e)
ResumeErr ==
  /\ pc = "err"
  /\ proc' = [proc EXCEPT ![current].exited = TRUE]
  /\ pc' = "drop"
  /\ UNCHANGED <<nextPid, readyQueue, batch, current, running, singleUser,
                 dispatchers, hostVars>>

\* drop_isolate has removed what it found; the process is not requeued.
DropAwaited ==
  /\ pc = "drop"
  /\ isolates' = isolates \ {current}
  /\ dispatchers' = dispatchers \ {current}
  /\ current' = NoPid
  /\ pc' = "step"
  /\ UNCHANGED <<nextPid, proc, readyQueue, batch, running, singleUser, slice,
                 late, drops>>

Loop ==
  \/ LoopEnd \/ LoopTake \/ IdleTimer \/ RunSkip \/ RunLaunch
  \/ ResumeDone \/ ResumeTimeout \/ ResumeErr \/ DropAwaited

-----------------------------------------------------------------------------
(* host/src/main.rs *)

\* The blocking task takes the isolate out of the map, or builds one from the
\* source it was sent, and runs the script.
HostBegin(p, st) ==
  /\ st \in {"code", "queued"}
  /\ p \in isolates \/ st = "code"
  /\ isolates' = isolates \ {p}
  /\ \/ /\ AwaitedTask(p, st)
        /\ slice' = "executing"
        /\ UNCHANGED late
     \/ /\ st \in late[p]
        /\ late' = [late EXCEPT ![p] = (@ \ {st}) \cup {"executing"}]
        /\ UNCHANGED slice
  /\ UNCHANGED <<kernelVars, pc, drops>>

\* A task ends; the promise of the slice settles if it is still awaited.
TaskEnds(p, st, outcome) ==
  \/ /\ AwaitedTask(p, st)
     /\ slice' = "none"
     /\ pc' = outcome
     /\ UNCHANGED late
  \/ /\ st \in late[p]
     /\ late' = [late EXCEPT ![p] = @ \ {st}]
     /\ UNCHANGED <<slice, pc>>

\* No isolate in the map and no source, or source that does not compile.
HostBeginFails(p, st) ==
  /\ st \in {"code", "queued"}
  /\ p \notin isolates
  /\ TaskEnds(p, st, "err")
  /\ UNCHANGED <<kernelVars, isolates, drops>>

\* The script has run: the isolate goes back into the map, whether or not the
\* slice is still awaited and whether or not the process still lives.
HostFinish(p) ==
  /\ TaskEnds(p, "executing", "done")
  /\ isolates' = isolates \cup {p}
  /\ UNCHANGED <<kernelVars, drops>>

\* tokio's timeout: the call returns, the task goes on.  Bounds: a process has
\* at most one late task in each state, and MaxLate processes have any.
Timeout ==
  /\ pc = "slice"
  /\ slice \notin late[current]
  /\ Cardinality({p \in Pid : late[p] # {}} \cup {current}) <= MaxLate
  /\ late' = [late EXCEPT ![current] = @ \cup {slice}]
  /\ slice' = "none"
  /\ pc' = "timeout"
  /\ UNCHANGED <<kernelVars, isolates, drops>>

\* A drop_isolate call that syscall_kill sent without awaiting it.
HostDrop(p) ==
  /\ p \in drops
  /\ drops' = drops \ {p}
  /\ isolates' = isolates \ {p}
  /\ UNCHANGED <<kernelVars, pc, slice, late>>

Host ==
  \/ \E p \in Pid, st \in {"code", "queued"} :
       HostBegin(p, st) \/ HostBeginFails(p, st)
  \/ \E p \in Pid : HostFinish(p) \/ HostDrop(p)
  \/ Timeout

-----------------------------------------------------------------------------
(* Syscalls and calls from the user interface, at an await of the loop *)

\* A process makes a syscall that is answered: its script executes, in its
\* slice or late, and runProcess has its dispatcher in the map.
Caller(p) == p \in dispatchers /\ HasTask(p, "executing")

\* Mutant: the pid is read after the counter has been advanced.
Spawn_PreIncrement(code, total, mem) ==
  /\ Awaiting
  /\ nextPid <= MaxPid
  /\ nextPid' = nextPid + 1
  /\ proc' = [proc EXCEPT ![nextPid] = NewPcb(code, total, mem)]
  /\ readyQueue' = Append(readyQueue, nextPid + 1)
  /\ UNCHANGED <<batch, pc, current, running, singleUser, dispatchers,
                 hostVars>>

\* Mutant: a new process joins the round that is running.
Spawn_IntoBatch(code, total, mem) ==
  /\ Awaiting
  /\ nextPid <= MaxPid
  /\ nextPid' = nextPid + 1
  /\ proc' = [proc EXCEPT ![nextPid] = NewPcb(code, total, mem)]
  /\ batch' = Append(batch, nextPid)
  /\ UNCHANGED <<readyQueue, pc, current, running, singleUser, dispatchers,
                 hostVars>>

\* syscall_spawn, by a process, a service or the user interface.
Spawn(code, total, mem) ==
  /\ Awaiting
  /\ nextPid <= MaxPid
  /\ nextPid' = nextPid + 1
  /\ proc' = [proc EXCEPT ![nextPid] = NewPcb(code, total, mem)]
  /\ readyQueue' = Append(readyQueue, nextPid)
  /\ UNCHANGED <<batch, pc, current, running, singleUser, dispatchers,
                 hostVars>>

\* Mutant: single-user mode does not matter to SIGTERM.
KillRefused_TermAllowed(p, sig) ==
  \/ ~Created(p)
  \/ p = InitPid /\ sig \notin {NoSig, 15}

\* syscall_kill, called by process q.
KillRefused(p, sig) ==
  \/ ~Created(p)
  \/ p = InitPid /\ (~singleUser \/ sig \notin {NoSig, 15})

Kill(q, p, sig) ==
  /\ Awaiting
  /\ Caller(q)
  /\ ~KillRefused(p, sig)
  /\ proc' = [proc EXCEPT ![p].exited = TRUE]
  /\ drops' = drops \cup {p}
  /\ readyQueue' = Without(readyQueue, p)
  /\ UNCHANGED <<nextPid, batch, pc, current, running, singleUser,
                 dispatchers, slice, late, isolates>>

\* set_quota, which applies to the caller itself.
SetQuota(q, total, mem) ==
  /\ Awaiting
  /\ Caller(q)
  /\ proc' = [proc EXCEPT ![q].quotaMs_total = total, ![q].quotaMem = mem]
  /\ UNCHANGED <<nextPid, readyQueue, batch, pc, current, running, singleUser,
                 dispatchers, hostVars>>

SingleUser(on) ==
  /\ Awaiting
  /\ \E q \in Pid : Caller(q)
  /\ singleUser' = on
  /\ UNCHANGED <<nextPid, proc, readyQueue, batch, pc, current, running,
                 dispatchers, hostVars>>

\* Kernel.stop, after the snapshot is written.
Stop ==
  /\ Awaiting
  /\ running
  /\ running' = FALSE
  /\ UNCHANGED <<nextPid, proc, readyQueue, batch, pc, current, singleUser,
                 dispatchers, hostVars>>

Calls ==
  \/ \E code \in BOOLEAN, total \in CpuQuotas, mem \in MemQuotas :
       Spawn(code, total, mem)
  \/ \E q, p \in Pid, sig \in {NoSig, 9, 15} : Kill(q, p, sig)
  \/ \E q \in Pid, total \in CpuQuotas, mem \in MemQuotas :
       SetQuota(q, total, mem)
  \/ \E on \in BOOLEAN : SingleUser(on)
  \/ Stop

Next == Loop \/ Host \/ Calls

Spec == Init /\ [][Next]_vars

\* The loop is the JavaScript thread, which runs whenever it can; the timers
\* of the loop and of tokio fire; the thread pool starts each queued task and
\* the host serves each drop_isolate.  Nothing makes a script end.
Fairness ==
  /\ WF_vars(Loop)
  /\ WF_vars(Timeout)
  /\ \A p \in Pid, st \in {"code", "queued"} :
       WF_vars(HostBegin(p, st) \/ HostBeginFails(p, st))
  /\ \A p \in Pid : WF_vars(HostDrop(p))

FairSpec == Spec /\ Fairness

-----------------------------------------------------------------------------
(* Properties *)

\* Every variable has its type.
TypeOK ==
  /\ nextPid \in 2 .. (MaxPid + 1)
  /\ proc \in [Pid -> Pcb]
  /\ readyQueue \in Seq(Pid)
  /\ batch \in Seq(Pid)
  /\ pc \in PcValues
  /\ current \in Pid \cup {NoPid}
  /\ running \in BOOLEAN
  /\ singleUser \in BOOLEAN
  /\ dispatchers \subseteq Pid
  /\ slice \in TaskStates \cup {"none"}
  /\ late \in [Pid -> SUBSET TaskStates]
  /\ isolates \subseteq Pid
  /\ drops \subseteq Pid

\* A process has at most one place in the scheduler: one position of the
\* ready queue, or one of the batch, or the CPU.  Spawn, the end of a slice
\* and kill all edit the queues while start walks its own copy of one.
Injective(q) == \A i, j \in DOMAIN q : q[i] = q[j] => i = j

ScheduledOnce ==
  /\ Injective(readyQueue)
  /\ Injective(batch)
  /\ \A p \in Pid : /\ ~(InReady(p) /\ InBatch(p))
                    /\ OnCpu(p) => ~InReady(p) /\ ~InBatch(p)

\* No process is lost and none that has exited comes back: a live process has
\* a place in the scheduler, and the ready queue holds live processes only.
NoneLost ==
  \A p \in Pid : /\ Alive(p) => InReady(p) \/ InBatch(p) \/ OnCpu(p)
                 /\ InReady(p) => Alive(p)

\* The host never runs two V8 isolates of one process: none can begin, out of
\* the map or from source, while another executes in a task that outlived its
\* slice.  Each would overwrite the other when its task puts it back.
OneIsolate ==
  \A p \in Pid :
    /\ ~(AwaitedTask(p, "executing") /\ "executing" \in late[p])
    /\ p \in isolates \/ HasTask(p, "code") => ~HasTask(p, "executing")

\* The first violation of a quota ends a process, so only init, which the
\* quota cannot kill, is ever counted as a repeated offender.
RepeatOffenderIsInit ==
  \A p \in Pid : proc[p].quotaViolations > 1 => p = InitPid

\* Outside single-user mode init ends only by ending its own program or by an
\* error of its slice: no signal and no quota ends it.
InitProtected ==
  [][ Alive(InitPid) /\ ~Alive(InitPid)' =>
        singleUser \/ (pc \in {"done", "err"} /\ current = InitPid) ]_vars

\* Every process but init that has a program ends, whatever the program does,
\* while the scheduler runs: a slice that does not end is charged the whole
\* memory quota, so a second charge kills, and a later slice without an
\* isolate is an error.
EveryProgramEnds ==
  \A p \in Pid \ {InitPid} :
    (Alive(p) /\ Runnable(p)) ~> (proc[p].exited \/ ~running)
=============================================================================
