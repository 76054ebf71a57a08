---------------------------- MODULE SchedulerProofs ----------------------------
(***************************************************************************)
(* Proofs about the scheduler, for every number of processes and every     *)
(* quota: the type invariant, no process is scheduled twice or forgotten,  *)
(* one isolate runs at a time, a process over its quota ends, init is      *)
(* protected, and the scheduler implements RoundRobin.                     *)
(***************************************************************************)
EXTENDS SchedulerRefinement, SequenceTheorems, TLAPS

LEMMA AppendFacts ==
  ASSUME NEW S, NEW q \in Seq(S), NEW p \in S, Injective(q), ~Holds(q, p)
  PROVE  /\ Append(q, p) \in Seq(S)
         /\ Injective(Append(q, p))
         /\ \A x : Holds(Append(q, p), x) <=> Holds(q, x) \/ x = p
<1>1. Append(q, p) \in Seq(S)
  OBVIOUS
<1>2. Injective(Append(q, p))
  BY DEF Injective, Holds
<1>3. ASSUME NEW x PROVE Holds(Append(q, p), x) <=> Holds(q, x) \/ x = p
  <2>1. CASE Holds(q, x)
    <3>1. PICK i \in DOMAIN q : q[i] = x
      BY <2>1 DEF Holds
    <3>2. i \in DOMAIN Append(q, p) /\ Append(q, p)[i] = x
      BY <3>1
    <3> QED BY <2>1, <3>2 DEF Holds
  <2>2. CASE x = p
    <3>1. Len(q) + 1 \in DOMAIN Append(q, p) /\ Append(q, p)[Len(q) + 1] = x
      BY <2>2
    <3> QED BY <2>2, <3>1 DEF Holds
  <2>3. CASE ~Holds(q, x) /\ x # p
    BY <2>3 DEF Holds
  <2> QED BY <2>1, <2>2, <2>3
<1> QED BY <1>1, <1>2, <1>3

LEMMA TailFacts ==
  ASSUME NEW S, NEW q \in Seq(S), q # <<>>, Injective(q)
  PROVE  /\ Head(q) \in S /\ Holds(q, Head(q))
         /\ Tail(q) \in Seq(S)
         /\ Injective(Tail(q))
         /\ \A x : Holds(Tail(q), x) <=> Holds(q, x) /\ x # Head(q)
<1>1. Head(q) \in S /\ Holds(q, Head(q)) /\ Tail(q) \in Seq(S)
  BY DEF Holds
<1>2. Injective(Tail(q))
  BY DEF Injective
<1>3. ASSUME NEW x PROVE Holds(Tail(q), x) <=> Holds(q, x) /\ x # Head(q)
  <2>1. ASSUME Holds(Tail(q), x) PROVE Holds(q, x) /\ x # Head(q)
    <3>1. PICK i \in DOMAIN Tail(q) : Tail(q)[i] = x
      BY <2>1 DEF Holds
    <3>2. i + 1 \in DOMAIN q /\ q[i + 1] = x /\ i + 1 # 1 /\ 1 \in DOMAIN q
      BY <3>1
    <3> QED BY <3>2 DEF Holds, Injective
  <2>2. ASSUME Holds(q, x), x # Head(q) PROVE Holds(Tail(q), x)
    <3>1. PICK i \in DOMAIN q : q[i] = x
      BY <2>2 DEF Holds
    <3>2. i - 1 \in DOMAIN Tail(q) /\ Tail(q)[i - 1] = x
      BY <3>1, <2>2
    <3> QED BY <3>2 DEF Holds
  <2> QED BY <2>1, <2>2
<1> QED BY <1>1, <1>2, <1>3

LEMMA WithoutFacts ==
  ASSUME NEW S, NEW q \in Seq(S), NEW p, Injective(q)
  PROVE  /\ Without(q, p) \in Seq(S)
         /\ Injective(Without(q, p))
         /\ \A x : Holds(Without(q, p), x) <=> Holds(q, x) /\ x # p
<1>1. CASE ~Holds(q, p)
  BY <1>1 DEF Without, Holds
<1>2. CASE Holds(q, p)
  <2> DEFINE k == CHOOSE i \in DOMAIN q : q[i] = p
             a == SubSeq(q, 1, k - 1)
             b == SubSeq(q, k + 1, Len(q))
             r == a \o b
  <2>1. k \in 1 .. Len(q) /\ q[k] = p
    BY <1>2 DEF Holds
  <2>2. Without(q, p) = r
    BY <1>2 DEF Without, RemoveAt
  <2> HIDE DEF k
  <2>3. /\ r \in Seq(S)
        /\ Len(r) = Len(q) - 1
        /\ \A i \in 1 .. Len(r) : r[i] = IF i < k THEN q[i] ELSE q[i + 1]
    <3>1. /\ a \in Seq(S) /\ Len(a) = k - 1
          /\ \A i \in 1 .. k - 1 : a[i] = q[i]
      BY <2>1, SubSeqProperties
    <3>2. /\ b \in Seq(S) /\ Len(b) = Len(q) - k
          /\ \A i \in 1 .. Len(q) - k : b[i] = q[k + i]
      BY <2>1, SubSeqProperties
    <3> HIDE DEF a, b
    <3>3. /\ r \in Seq(S) /\ Len(r) = Len(a) + Len(b)
          /\ \A i \in 1 .. Len(a) + Len(b) :
               r[i] = IF i <= Len(a) THEN a[i] ELSE b[i - Len(a)]
      BY <3>1, <3>2, ConcatProperties
    <3> HIDE DEF r
    <3>4. ASSUME NEW i \in 1 .. Len(r)
          PROVE  r[i] = IF i < k THEN q[i] ELSE q[i + 1]
      <4>1. CASE i < k
        BY <3>1, <3>2, <3>3, <2>1, <4>1
      <4>2. CASE ~(i < k)
        <5>1. r[i] = b[i - Len(a)] /\ i - (k - 1) \in 1 .. Len(q) - k
          BY <3>1, <3>2, <3>3, <2>1, <4>2
        <5>2. b[i - (k - 1)] = q[k + (i - (k - 1))]
          BY <3>2, <5>1
        <5> QED BY <5>1, <5>2, <3>1, <2>1, <4>2
      <4> QED BY <4>1, <4>2
    <3>5. Len(r) = Len(q) - 1
      BY <3>1, <3>2, <3>3, <2>1
    <3> QED BY <3>3, <3>4, <3>5
  <2> HIDE DEF r
  <2>4. Injective(r)
    <3> SUFFICES ASSUME NEW i \in 1 .. Len(r), NEW j \in 1 .. Len(r),
                        r[i] = r[j]
                 PROVE  i = j
      BY <2>3 DEF Injective
    <3> DEFINE at(n) == IF n < k THEN n ELSE n + 1
    <3>1. /\ at(i) \in DOMAIN q /\ at(j) \in DOMAIN q
          /\ q[at(i)] = r[i] /\ q[at(j)] = r[j]
      BY <2>1, <2>3
    <3>2. at(i) = at(j)
      BY <3>1 DEF Injective
    <3> QED BY <3>2, <2>1
  <2>5. ASSUME NEW x PROVE Holds(r, x) <=> Holds(q, x) /\ x # p
    <3>1. ASSUME Holds(r, x) PROVE Holds(q, x) /\ x # p
      <4>1. PICK i \in 1 .. Len(r) : r[i] = x
        BY <3>1, <2>3 DEF Holds
      <4>2. CASE i < k
        BY <4>1, <4>2, <2>1, <2>3 DEF Holds, Injective
      <4>3. CASE ~(i < k)
        <5>1. i + 1 \in DOMAIN q /\ q[i + 1] = x /\ i + 1 # k
          BY <4>1, <4>3, <2>1, <2>3
        <5> QED BY <5>1, <2>1 DEF Holds, Injective
      <4> QED BY <4>2, <4>3
    <3>2. ASSUME Holds(q, x), x # p PROVE Holds(r, x)
      <4>1. PICK i \in 1 .. Len(q) : q[i] = x
        BY <3>2 DEF Holds
      <4>2. i # k
        BY <4>1, <3>2, <2>1
      <4>3. CASE i < k
        <5>1. i \in DOMAIN r /\ r[i] = x
          BY <4>1, <4>3, <2>1, <2>3
        <5> QED BY <5>1 DEF Holds
      <4>4. CASE i > k
        <5>1. i - 1 \in DOMAIN r /\ r[i - 1] = x
          BY <4>1, <4>4, <2>1, <2>3
        <5> QED BY <5>1 DEF Holds
      <4> QED BY <4>1, <4>2, <4>3, <4>4, <2>1
    <3> QED BY <3>1, <3>2
  <2> QED BY <2>2, <2>3, <2>4, <2>5
<1> QED BY <1>1, <1>2

-----------------------------------------------------------------------------
(* The inductive invariant *)

\* The loop works on a process exactly while runProcess is active, only that
\* process has a dispatcher, and a task is awaited only during its slice.
CpuInv ==
  /\ current = NoPid <=> pc \notin Active
  /\ dispatchers = {current} \ {NoPid}
  /\ slice = "none" <=> pc # "slice"
  /\ pc \in {"idle", "off"} => batch = <<>>
  /\ pc = "drop" => proc[current].exited
  /\ \A p \in Pid : OnCpu(p) \/ InBatch(p) => Created(p)

\* A process that has not started and still has its first slice to come has
\* nothing on the host, neither a task nor an isolate.
FreshInv ==
  \A p \in Pid :
    /\ ~Created(p) \/ (~proc[p].started /\ (InReady(p) \/ InBatch(p))) =>
         late[p] = {} /\ p \notin isolates
    /\ AwaitedTask(p, "code") => late[p] = {}

\* The source of a program is with the host at most once, and not while the
\* isolate made from it exists.
CodeInv ==
  \A p \in Pid : HasTask(p, "code") => p \notin isolates

\* A process other than init that has violated a quota has exited for good.
QuotaInv ==
  \A p \in Pid \ {InitPid} :
    proc[p].quotaViolations > 0 =>
      /\ proc[p].quotaViolations = 1
      /\ proc[p].exited
      /\ ~InReady(p) /\ ~InBatch(p)
      /\ current = p => pc = "drop"

IInv ==
  /\ TypeOK
  /\ ScheduledOnce
  /\ NoneLost
  /\ CpuInv
  /\ FreshInv
  /\ OneIsolate
  /\ CodeInv
  /\ QuotaInv

LEMMA InitInv == Init => IInv
<1> SUFFICES ASSUME Init PROVE IInv
  OBVIOUS
<1> USE BoundsAssumption DEF Init, Pid, InitPid, NoPid
<1>1. TypeOK
  <2>1. proc \in [Pid -> Pcb]
    BY DEF NewPcb, Pcb
  <2>2. readyQueue \in Seq(Pid) /\ batch \in Seq(Pid)
    OBVIOUS
  <2>3. late \in [Pid -> SUBSET TaskStates]
    OBVIOUS
  <2>4. nextPid \in 2 .. (MaxPid + 1)
    OBVIOUS
  <2> QED BY ONLY Init, <2>1, <2>2, <2>3, <2>4 DEF Init, TypeOK, PcValues, NoPid
<1>2. \A p : InReady(p) <=> p = InitPid
  BY DEF InReady, Holds
<1>3. \A p : ~InBatch(p)
  BY DEF InBatch, Holds
<1>4. ScheduledOnce
  BY <1>2, <1>3 DEF ScheduledOnce, Injective, OnCpu, Active
<1>5. NoneLost
  BY <1>2, <1>3 DEF NoneLost, Alive, Created, NewPcb, OnCpu, Active
<1>6. CpuInv
  BY <1>3 DEF CpuInv, OnCpu, Active, Created
<1>7. FreshInv /\ OneIsolate /\ CodeInv
  BY DEF FreshInv, OneIsolate, CodeInv, HasTask, AwaitedTask
<1>8. QuotaInv
  BY DEF QuotaInv, NewPcb
<1> QED BY <1>1, <1>4, <1>5, <1>6, <1>7, <1>8 DEF IInv

-----------------------------------------------------------------------------
(* What a step leaves alone stays true *)

\* Steps that leave the process table and the queues alone.
LEMMA QueueFrame ==
  ASSUME IInv, UNCHANGED <<nextPid, proc, readyQueue, batch, current>>,
         pc' \in Active <=> pc \in Active,
         pc' = "drop" <=> pc = "drop"
  PROVE  ScheduledOnce' /\ NoneLost' /\ QuotaInv'
<1>1. \A p : /\ InReady(p)' <=> InReady(p)
             /\ InBatch(p)' <=> InBatch(p)
             /\ OnCpu(p)' <=> OnCpu(p)
             /\ Alive(p)' <=> Alive(p)
  BY DEF InReady, InBatch, Holds, OnCpu, Alive, Created, Active
<1>2. ScheduledOnce'
  BY <1>1 DEF IInv, ScheduledOnce, Injective
<1>3. NoneLost'
  BY <1>1 DEF IInv, NoneLost
<1>4. QuotaInv'
  BY <1>1 DEF IInv, QuotaInv
<1> QED BY <1>2, <1>3, <1>4

\* Steps that leave the tasks and the isolates of the host alone.
LEMMA HostFrame ==
  ASSUME IInv, UNCHANGED <<slice, late>>, isolates' \subseteq isolates,
         pc' = "slice" <=> pc = "slice", pc = "slice" => current' = current
  PROVE  OneIsolate' /\ CodeInv'
<1>1. \A p, st : /\ AwaitedTask(p, st)' <=> AwaitedTask(p, st)
                 /\ HasTask(p, st)' <=> HasTask(p, st)
  BY DEF AwaitedTask, HasTask
<1> QED BY <1>1 DEF IInv, OneIsolate, CodeInv

-----------------------------------------------------------------------------
(* The steps of the loop *)

LEMMA LoopEndStep == IInv /\ LoopEnd => IInv'
<1> SUFFICES ASSUME IInv, LoopEnd PROVE IInv'
  OBVIOUS
<1> USE DEF LoopEnd, kernelVars, hostVars
<1>1. TypeOK'
  BY DEF IInv, TypeOK, PcValues
<1>2. ScheduledOnce' /\ NoneLost' /\ QuotaInv'
  BY QueueFrame DEF Active
<1>3. OneIsolate' /\ CodeInv'
  BY HostFrame
<1>4. CpuInv'
  BY DEF IInv, CpuInv, OnCpu, Active, InBatch, Created
<1>5. FreshInv'
  BY DEF IInv, FreshInv, AwaitedTask, InBatch, InReady, Created
<1> QED BY <1>1, <1>2, <1>3, <1>4, <1>5 DEF IInv

LEMMA IdleTimerStep == IInv /\ IdleTimer => IInv'
<1> SUFFICES ASSUME IInv, IdleTimer PROVE IInv'
  OBVIOUS
<1> USE DEF IdleTimer, kernelVars, hostVars
<1>1. TypeOK'
  BY DEF IInv, TypeOK, PcValues
<1>2. ScheduledOnce' /\ NoneLost' /\ QuotaInv'
  BY QueueFrame DEF Active
<1>3. OneIsolate' /\ CodeInv'
  BY HostFrame
<1>4. CpuInv'
  BY DEF IInv, CpuInv, OnCpu, Active, InBatch, Created
<1>5. FreshInv'
  BY DEF IInv, FreshInv, AwaitedTask, InBatch, InReady, Created
<1> QED BY <1>1, <1>2, <1>3, <1>4, <1>5 DEF IInv

LEMMA LoopTakeStep == IInv /\ LoopTake => IInv'
<1> SUFFICES ASSUME IInv, LoopTake PROVE IInv'
  OBVIOUS
<1> USE DEF LoopTake, hostVars
<1>1. TypeOK'
  BY DEF IInv, TypeOK, PcValues
<1>2. \A p : /\ InBatch(p)' <=> InReady(p)
             /\ ~InReady(p)' /\ ~InBatch(p)
             /\ ~OnCpu(p) /\ ~OnCpu(p)'
             /\ Alive(p)' <=> Alive(p)
  BY DEF InBatch, InReady, Holds, OnCpu, Active, Alive, Created
<1>3. ScheduledOnce'
  BY <1>2 DEF IInv, ScheduledOnce, Injective
<1>4. NoneLost'
  BY <1>2 DEF IInv, NoneLost
<1>5. CpuInv'
  <2>1. readyQueue = <<>> => batch' = <<>>
    OBVIOUS
  <2>2. \A p \in Pid : InReady(p) => Created(p)
    BY DEF IInv, NoneLost, Alive
  <2> QED BY <1>2, <2>1, <2>2 DEF IInv, CpuInv, Active, Created
<1>6. FreshInv'
  BY <1>2 DEF IInv, FreshInv, AwaitedTask, Created
<1>7. OneIsolate' /\ CodeInv'
  BY HostFrame
<1>8. QuotaInv'
  BY <1>2 DEF IInv, QuotaInv, CpuInv
<1> QED BY <1>1, <1>3, <1>4, <1>5, <1>6, <1>7, <1>8 DEF IInv

LEMMA RunSkipStep == IInv /\ RunSkip => IInv'
<1> SUFFICES ASSUME IInv, RunSkip PROVE IInv'
  OBVIOUS
<1> USE DEF RunSkip, hostVars
<1> DEFINE h == Head(batch)
<1>1. /\ h \in Pid /\ InBatch(h) /\ batch' \in Seq(Pid) /\ Injective(batch')
      /\ \A p : InBatch(p)' <=> InBatch(p) /\ p # h
  BY TailFacts DEF IInv, TypeOK, ScheduledOnce, InBatch, Holds
<1>2. ~InReady(h)
  BY <1>1 DEF IInv, ScheduledOnce
<1>3. /\ readyQueue' \in Seq(Pid) /\ Injective(readyQueue')
      /\ \A p : InReady(p)' <=> InReady(p) \/ (p = h /\ ~proc[h].exited)
  <2>1. CASE proc[h].exited
    BY <2>1 DEF Requeue, IInv, TypeOK, ScheduledOnce, InReady
  <2>2. CASE ~proc[h].exited
    <3>1. readyQueue' = Append(readyQueue, h)
      BY <2>2 DEF Requeue
    <3>2. readyQueue \in Seq(Pid) /\ Injective(readyQueue)
      BY DEF IInv, TypeOK, ScheduledOnce
    <3>3. ~Holds(readyQueue, h)
      BY <1>2 DEF InReady
    <3> HIDE DEF h, RunSkip
    <3> QED BY <2>2, <3>1, <3>2, <3>3, <1>1, AppendFacts DEF InReady
  <2> QED BY <2>1, <2>2
<1>4. \A p : ~OnCpu(p) /\ ~OnCpu(p)' /\ (Alive(p)' <=> Alive(p))
  BY DEF OnCpu, Active, Alive, Created
<1>5. Created(h) /\ current = NoPid
  BY <1>1 DEF IInv, CpuInv, Active
<1> HIDE DEF h
<1>6. TypeOK'
  BY <1>1, <1>3 DEF IInv, TypeOK
<1>7. ScheduledOnce'
  BY <1>1, <1>2, <1>3, <1>4 DEF IInv, ScheduledOnce
<1>8. NoneLost'
  BY <1>1, <1>3, <1>4, <1>5 DEF IInv, NoneLost, Alive
<1>9. CpuInv'
  BY <1>1, <1>4 DEF IInv, CpuInv, Created
<1>10. FreshInv'
  BY <1>1, <1>3 DEF IInv, FreshInv, AwaitedTask, Created
<1>11. OneIsolate' /\ CodeInv'
  BY HostFrame
<1>12. QuotaInv'
  BY <1>1, <1>3, <1>5 DEF IInv, QuotaInv
<1> QED BY <1>6, <1>7, <1>8, <1>9, <1>10, <1>11, <1>12 DEF IInv

LEMMA RunLaunchStep == IInv /\ RunLaunch => IInv'
<1> SUFFICES ASSUME IInv, RunLaunch PROVE IInv'
  OBVIOUS
<1> DEFINE h == Head(batch)
<1>1. /\ h \in Pid /\ InBatch(h) /\ batch' \in Seq(Pid) /\ Injective(batch')
      /\ \A p : InBatch(p)' <=> InBatch(p) /\ p # h
  BY TailFacts DEF RunLaunch, IInv, TypeOK, ScheduledOnce, InBatch, Holds
<1>2. /\ pc = "step" /\ pc' = "slice" /\ current' = h
      /\ slice' = SliceTask(h) /\ dispatchers' = dispatchers \cup {h}
      /\ UNCHANGED <<nextPid, proc, readyQueue, running, singleUser, late,
                     isolates, drops>>
  BY DEF RunLaunch
<1> HIDE DEF h
<1>3. \A p : /\ ~OnCpu(p) /\ (OnCpu(p)' <=> p = h)
             /\ (InReady(p)' <=> InReady(p))
             /\ (Alive(p)' <=> Alive(p)) /\ (Created(p)' <=> Created(p))
  BY <1>2 DEF OnCpu, Active, Alive, Created, InReady, Holds
<1>4. Created(h) /\ ~InReady(h) /\ dispatchers = {}
  BY <1>1, <1>2 DEF IInv, CpuInv, ScheduledOnce, Active
<1>5. ~proc[h].started => late[h] = {} /\ h \notin isolates
  BY <1>1 DEF IInv, FreshInv
<1>6. /\ slice' \in {"code", "queued"}
      /\ slice' = "code" => ~proc[h].started
  BY <1>2 DEF SliceTask
<1>7. \A p, st : AwaitedTask(p, st)' <=> p = h /\ st = slice'
  BY <1>2 DEF AwaitedTask
<1>8. \A p : /\ HasTask(p, "executing")' <=> HasTask(p, "executing")
             /\ HasTask(p, "code")' =>
                  \/ HasTask(p, "code")
                  \/ p = h /\ late[h] = {} /\ h \notin isolates
  BY <1>2, <1>5, <1>6, <1>7 DEF HasTask, AwaitedTask
<1>9. TypeOK'
  BY <1>1, <1>2, <1>6 DEF IInv, TypeOK, TaskStates, PcValues
<1>10. ScheduledOnce'
  BY <1>1, <1>2, <1>3, <1>4 DEF IInv, ScheduledOnce
<1>11. NoneLost'
  BY <1>1, <1>3 DEF IInv, NoneLost
<1>12. CpuInv'
  <2>1. h # NoPid
    BY <1>1 DEF Pid, NoPid
  <2> QED BY <1>1, <1>2, <1>3, <1>4, <1>6, <2>1 DEF IInv, CpuInv, Active
<1>13. FreshInv'
  BY <1>1, <1>2, <1>3, <1>5, <1>6, <1>7 DEF IInv, FreshInv
<1>14. OneIsolate'
  <2>1. late[h] = {} => ~HasTask(h, "executing")
    BY <1>2 DEF HasTask, AwaitedTask
  <2> QED BY <1>2, <1>6, <1>7, <1>8, <2>1 DEF IInv, OneIsolate
<1>15. CodeInv'
  BY <1>2, <1>8 DEF IInv, CodeInv
<1>16. QuotaInv'
  BY <1>1, <1>2, <1>3 DEF IInv, QuotaInv
<1> QED BY <1>9, <1>10, <1>11, <1>12, <1>13, <1>14, <1>15, <1>16 DEF IInv

\* What the end of a slice makes of the PCB and of the queue.
LEMMA ChargeFacts ==
  ASSUME NEW r \in Pcb, NEW cpu \in 0 .. 1, NEW mem \in Nat
  PROVE  /\ Charged(r, cpu, mem) \in Pcb
         /\ Charged(r, cpu, mem).started
         /\ Charged(r, cpu, mem).exited = r.exited
         /\ Charged(r, cpu, mem).quotaViolations = r.quotaViolations
<1> USE BoundsAssumption DEF Charged, CapAt, Pcb
<1>1. CapAt(r.cpuMs + cpu, CpuCap) \in 0 .. CpuCap
  OBVIOUS
<1>2. CapAt(r.memBytes + mem, MemCap) \in 0 .. MemCap
  OBVIOUS
<1> QED BY <1>1, <1>2

LEMMA ResumeResultStep ==
  ASSUME IInv, pc \in {"done", "timeout"}, NEW cpu \in 0 .. 1, NEW mem \in Nat,
         NEW finished \in BOOLEAN, ResumeResult(cpu, mem, finished)
  PROVE  IInv'
<1> DEFINE p == current
           c == Charged(proc[p], cpu, mem)
           over == OverQuota(c)
           killed == QuotaKills(p, over)
           r == [c EXCEPT
                   !.quotaViolations = CapAt(@ + (IF over THEN 1 ELSE 0), 2),
                   !.exited = @ \/ killed \/ (~over /\ finished)]
           q == IF killed THEN Without(readyQueue, p) ELSE readyQueue
<1>1. /\ proc' = [proc EXCEPT ![p] = r]
      /\ drops' = IF killed THEN drops \cup {p} ELSE drops
      /\ readyQueue' = Requeue(q, p, r.exited)
      /\ dispatchers' = IF r.exited THEN dispatchers ELSE dispatchers \ {p}
      /\ pc' = IF r.exited THEN "drop" ELSE "step"
      /\ current' = IF r.exited THEN p ELSE NoPid
      /\ UNCHANGED <<nextPid, batch, running, singleUser, slice, late,
                     isolates>>
  BY DEF ResumeResult
<1>2. p \in Pid /\ OnCpu(p) /\ Created(p) /\ dispatchers = {p}
  BY DEF IInv, TypeOK, CpuInv, OnCpu, Active, Pid, NoPid
<1>3. ~InReady(p) /\ ~InBatch(p) /\ Injective(readyQueue)
  BY <1>2 DEF IInv, ScheduledOnce
<1>4. q = readyQueue
  BY <1>3 DEF Without, InReady
<1>5. /\ c \in Pcb /\ c.started /\ c.exited = proc[p].exited
      /\ c.quotaViolations = proc[p].quotaViolations
  BY <1>2, ChargeFacts DEF IInv, TypeOK
<1>6. p # InitPid => proc[p].quotaViolations = 0
  BY <1>2 DEF IInv, TypeOK, QuotaInv, Pcb
<1>7. /\ r \in Pcb /\ r.started
      /\ p # InitPid /\ r.quotaViolations > 0 =>
           r.quotaViolations = 1 /\ r.exited
  <2> HIDE DEF c
  <2>1. over \in BOOLEAN /\ killed \in BOOLEAN
    BY DEF OverQuota, QuotaKills
  <2>2. c.exited \in BOOLEAN /\ c.quotaViolations \in 0 .. 2
    BY <1>5 DEF Pcb
  <2>3. (c.exited \/ killed \/ (~over /\ finished)) \in BOOLEAN
    OBVIOUS
  <2>4. CapAt(c.quotaViolations + (IF over THEN 1 ELSE 0), 2) \in 0 .. 2
    BY <2>2 DEF CapAt
  <2>5. r \in Pcb /\ r.started
    BY <2>3, <2>4, <1>5 DEF Pcb
  <2>6. ASSUME p # InitPid, r.quotaViolations > 0
        PROVE  r.quotaViolations = 1 /\ r.exited
    <3>1. c.quotaViolations = 0
      BY <1>5, <1>6, <2>6
    <3>2. r.quotaViolations = CapAt(c.quotaViolations + (IF over THEN 1 ELSE 0), 2)
      BY <1>5 DEF Pcb
    <3>3. over
      BY <2>6, <3>1, <3>2 DEF CapAt
    <3>4. killed
      BY <2>6, <3>3 DEF QuotaKills
    <3>5. r.exited
      BY <3>4, <1>5 DEF Pcb
    <3> HIDE DEF r, over
    <3> QED BY <3>1, <3>2, <3>3, <3>5 DEF CapAt
  <2> QED BY <2>5, <2>6
<1>8. proc[p].exited => r.exited
  BY <1>5 DEF Pcb
<1>9. p # NoPid
  BY <1>2 DEF Pid, NoPid
<1>10. r.exited \in BOOLEAN
  BY <1>7 DEF Pcb
<1>11. /\ readyQueue' \in Seq(Pid) /\ Injective(readyQueue')
       /\ \A x : InReady(x)' <=> InReady(x) \/ (x = p /\ ~r.exited)
  <2>1. CASE r.exited
    BY <1>1, <1>3, <1>4, <2>1 DEF Requeue, IInv, TypeOK, InReady
  <2>2. CASE ~r.exited
    <3>1. readyQueue' = Append(readyQueue, p)
      BY <1>1, <1>4, <2>2 DEF Requeue
    <3>2. readyQueue \in Seq(Pid) /\ ~Holds(readyQueue, p)
      BY <1>3 DEF IInv, TypeOK, InReady
    <3> HIDE DEF p, r
    <3> QED BY <3>1, <3>2, <2>2, <1>2, <1>3, AppendFacts DEF InReady
  <2> QED BY <2>1, <2>2
<1> HIDE DEF p, r, c, over, killed, q
<1>12. \A x : /\ InBatch(x)' <=> InBatch(x)
              /\ Created(x)' <=> Created(x)
              /\ OnCpu(x) <=> x = p
              /\ OnCpu(x)' <=> (x = p /\ r.exited)
  BY <1>1, <1>9 DEF p, InBatch, Holds, Created, OnCpu, Active
<1>13. /\ \A x \in Pid : x # p => proc'[x] = proc[x]
       /\ proc'[p] = r
  BY <1>1, <1>2 DEF IInv, TypeOK
<1>14. TypeOK'
  <2>1. proc' \in [Pid -> Pcb]
    BY <1>1, <1>2, <1>7 DEF IInv, TypeOK
  <2>2. drops' \subseteq Pid /\ dispatchers' \subseteq Pid
    BY <1>1, <1>2 DEF IInv, TypeOK
  <2> QED BY <1>1, <1>2, <1>11, <2>1, <2>2 DEF IInv, TypeOK, PcValues
<1>15. ScheduledOnce'
  <2>1. Injective(batch')
    BY <1>1 DEF IInv, ScheduledOnce
  <2> QED BY <1>3, <1>11, <1>12, <2>1 DEF IInv, ScheduledOnce
<1>16. NoneLost'
  <2>1. \A x \in Pid : Alive(x)' <=> IF x = p THEN ~r.exited ELSE Alive(x)
    BY <1>2, <1>12, <1>13 DEF Alive
  <2> QED BY <2>1, <1>2, <1>3, <1>11, <1>12 DEF IInv, NoneLost
<1>17. CpuInv'
  <2>1. dispatchers' = {current'} \ {NoPid}
    BY <1>1, <1>2, <1>9
  <2>2. \A x \in Pid : OnCpu(x)' \/ InBatch(x)' => Created(x)'
    BY <1>2, <1>12 DEF IInv, CpuInv
  <2> QED BY <1>1, <1>9, <1>13, <2>1, <2>2 DEF IInv, CpuInv, Active
<1>18. FreshInv'
  BY <1>1, <1>2, <1>3, <1>7, <1>11, <1>12, <1>13
     DEF IInv, FreshInv, AwaitedTask
<1>19. OneIsolate' /\ CodeInv'
  BY <1>1, HostFrame
<1>20. QuotaInv'
  <2> SUFFICES ASSUME NEW x \in Pid \ {InitPid},
                      proc'[x].quotaViolations > 0
               PROVE  /\ proc'[x].quotaViolations = 1
                      /\ proc'[x].exited
                      /\ ~InReady(x)' /\ ~InBatch(x)'
                      /\ current' = x => pc' = "drop"
    BY DEF QuotaInv
  <2>1. CASE x = p
    BY <2>1, <1>1, <1>3, <1>7, <1>11, <1>12, <1>13
  <2>2. CASE x # p
    <3>1. current' # x
      BY <2>2, <1>1 DEF Pid, NoPid
    <3> QED BY <2>2, <3>1, <1>11, <1>12, <1>13 DEF IInv, QuotaInv
  <2> QED BY <2>1, <2>2
<1> QED BY <1>14, <1>15, <1>16, <1>17, <1>18, <1>19, <1>20 DEF IInv

LEMMA ResumeDoneStep == IInv /\ ResumeDone => IInv'
BY ResumeResultStep DEF ResumeDone

LEMMA TimeoutIsResult ==
  ASSUME IInv, ResumeTimeout
  PROVE  \E mem \in Nat, cpu \in 0 .. 1, fin \in BOOLEAN :
           pc \in {"done", "timeout"} /\ ResumeResult(cpu, mem, fin)
<1>1. current \in Pid
  BY DEF IInv, TypeOK, CpuInv, Active, ResumeTimeout
<1>2. proc[current] \in Pcb
  BY <1>1 DEF IInv, TypeOK
<1>3. MemQuotas \subseteq Nat
  BY BoundsAssumption
<1> DEFINE mem == proc[current].quotaMem
<1>4. mem \in Nat
  BY <1>2, <1>3 DEF Pcb
<1>5. pc \in {"done", "timeout"} /\ ResumeResult(1, mem, FALSE)
  BY DEF ResumeTimeout
<1>6. 1 \in 0 .. 1 /\ FALSE \in BOOLEAN
  OBVIOUS
<1> HIDE DEF mem
<1> QED BY <1>4, <1>5, <1>6, Zenon

LEMMA ResumeTimeoutStep == IInv /\ ResumeTimeout => IInv'
BY TimeoutIsResult, ResumeResultStep, Zenon

\* Steps that end process p, which is not in the ready queue afterwards; the
\* control point stays among those where the process on the CPU is.
LEMMA ExitFrame ==
  ASSUME IInv, NEW p \in Pid, Created(p),
         proc' = [proc EXCEPT ![p].exited = TRUE],
         UNCHANGED <<nextPid, batch, current, slice, late, isolates>>,
         pc' = pc \/ (pc = "err" /\ pc' = "drop" /\ current = p),
         dispatchers' = dispatchers,
         readyQueue' \in Seq(Pid), Injective(readyQueue'),
         \A x : InReady(x)' <=> InReady(x) /\ x # p
  PROVE  /\ proc' \in [Pid -> Pcb]
         /\ ScheduledOnce' /\ NoneLost' /\ CpuInv' /\ FreshInv'
         /\ OneIsolate' /\ CodeInv' /\ QuotaInv'
<1>1. /\ proc' \in [Pid -> Pcb]
      /\ \A x \in Pid : /\ proc'[x].exited <=> proc[x].exited \/ x = p
                        /\ proc'[x].started = proc[x].started
                        /\ proc'[x].quotaViolations = proc[x].quotaViolations
  BY DEF IInv, TypeOK, Pcb
<1>2. \A x : /\ InBatch(x)' <=> InBatch(x)
             /\ Created(x)' <=> Created(x)
             /\ OnCpu(x)' <=> OnCpu(x)
  BY DEF InBatch, Holds, Created, OnCpu, Active
<1>3. ScheduledOnce'
  <2>1. Injective(batch')
    BY DEF IInv, ScheduledOnce
  <2> QED BY <1>2, <2>1 DEF IInv, ScheduledOnce
<1>4. NoneLost'
  <2>1. \A x \in Pid : Alive(x)' <=> Alive(x) /\ x # p
    BY <1>1, <1>2 DEF Alive
  <2> QED BY <1>2, <2>1 DEF IInv, NoneLost
<1>5. CpuInv'
  <2>1. pc' = "drop" => proc'[current].exited
    BY <1>1 DEF IInv, CpuInv, TypeOK, Active
  <2>2. pc' \in Active <=> pc \in Active
    BY DEF Active
  <2>3. \A x \in Pid : OnCpu(x)' \/ InBatch(x)' => Created(x)'
    BY <1>2 DEF IInv, CpuInv
  <2> QED BY <2>1, <2>2, <2>3 DEF IInv, CpuInv
<1>6. FreshInv'
  <2>1. \A x, st : AwaitedTask(x, st)' <=> AwaitedTask(x, st)
    BY DEF AwaitedTask
  <2> QED BY <1>1, <1>2, <2>1 DEF IInv, FreshInv
<1>7. OneIsolate' /\ CodeInv'
  BY HostFrame
<1>8. QuotaInv'
  BY <1>1, <1>2 DEF IInv, QuotaInv
<1> QED BY <1>1, <1>3, <1>4, <1>5, <1>6, <1>7, <1>8

LEMMA ResumeErrStep == IInv /\ ResumeErr => IInv'
<1> SUFFICES ASSUME IInv, ResumeErr PROVE IInv'
  OBVIOUS
<1> USE DEF ResumeErr, hostVars
<1>1. current \in Pid /\ OnCpu(current) /\ Created(current)
  BY DEF IInv, TypeOK, CpuInv, OnCpu, Active
<1>2. ~InReady(current)
  BY <1>1 DEF IInv, ScheduledOnce
<1>3. /\ readyQueue' \in Seq(Pid) /\ Injective(readyQueue')
      /\ \A x : InReady(x)' <=> InReady(x) /\ x # current
  BY <1>2 DEF IInv, TypeOK, ScheduledOnce, InReady
<1>4. /\ proc' \in [Pid -> Pcb]
      /\ ScheduledOnce' /\ NoneLost' /\ CpuInv' /\ FreshInv'
      /\ OneIsolate' /\ CodeInv' /\ QuotaInv'
  BY <1>1, <1>3, ExitFrame
<1>5. TypeOK'
  BY <1>4 DEF IInv, TypeOK, PcValues
<1> QED BY <1>4, <1>5 DEF IInv

LEMMA DropAwaitedStep == IInv /\ DropAwaited => IInv'
<1> SUFFICES ASSUME IInv, DropAwaited PROVE IInv'
  OBVIOUS
<1> USE DEF DropAwaited
<1>1. /\ current \in Pid /\ OnCpu(current) /\ proc[current].exited
      /\ dispatchers = {current}
  BY DEF IInv, TypeOK, CpuInv, OnCpu, Active, Pid, NoPid
<1>2. \A x : /\ InReady(x)' <=> InReady(x)
             /\ InBatch(x)' <=> InBatch(x)
             /\ Created(x)' <=> Created(x)
             /\ Alive(x)' <=> Alive(x)
             /\ ~OnCpu(x)'
             /\ OnCpu(x) => x = current
  BY DEF InReady, InBatch, Holds, Created, Alive, OnCpu, Active
<1>3. TypeOK'
  BY DEF IInv, TypeOK, PcValues
<1>4. ScheduledOnce'
  BY <1>2 DEF IInv, ScheduledOnce, Injective
<1>5. NoneLost'
  BY <1>1, <1>2 DEF IInv, NoneLost, Alive
<1>6. CpuInv'
  BY <1>1, <1>2 DEF IInv, CpuInv, Active
<1>7. FreshInv'
  BY <1>2 DEF IInv, FreshInv, AwaitedTask
<1>8. OneIsolate' /\ CodeInv'
  BY HostFrame
<1>9. QuotaInv'
  BY <1>2 DEF IInv, QuotaInv, Pid, NoPid
<1> QED BY <1>3, <1>4, <1>5, <1>6, <1>7, <1>8, <1>9 DEF IInv

-----------------------------------------------------------------------------
(* The steps of the host *)

\* A step of the host changes nothing of the kernel but the outcome of the
\* slice that is awaited.
LEMMA HostStep ==
  ASSUME IInv, UNCHANGED kernelVars,
         \/ UNCHANGED <<pc, slice>>
         \/ pc = "slice" /\ pc' = "slice" /\ slice' = "executing"
         \/ /\ pc = "slice" /\ slice' = "none"
            /\ pc' \in {"done", "err", "timeout"},
         late' \in [Pid -> SUBSET TaskStates],
         isolates' \subseteq Pid, drops' \subseteq Pid
  PROVE  TypeOK' /\ ScheduledOnce' /\ NoneLost' /\ CpuInv' /\ QuotaInv'
<1> USE DEF kernelVars
<1>1. /\ pc' \in Active <=> pc \in Active
      /\ pc' = "drop" <=> pc = "drop"
      /\ slice' \in TaskStates \cup {"none"}
      /\ slice' = "none" <=> pc' # "slice"
      /\ pc' \in {"idle", "off"} => pc' = pc
  BY DEF Active, IInv, TypeOK, CpuInv, TaskStates
<1>2. ScheduledOnce' /\ NoneLost' /\ QuotaInv'
  BY <1>1, QueueFrame
<1>3. TypeOK'
  BY <1>1 DEF IInv, TypeOK, PcValues
<1>4. \A x : /\ InBatch(x)' <=> InBatch(x)
             /\ OnCpu(x)' <=> OnCpu(x)
             /\ Created(x)' <=> Created(x)
  BY <1>1 DEF InBatch, Holds, OnCpu, Created
<1>5. CpuInv'
  BY <1>1, <1>4 DEF IInv, CpuInv
<1> QED BY <1>2, <1>3, <1>5

\* A process with a task on the host, late or awaited, has started or is on
\* the CPU: it is not fresh.
LEMMA FreshFrame ==
  ASSUME IInv, UNCHANGED kernelVars,
         \A p \in Pid : late'[p] # {} =>
           late[p] # {} \/ OnCpu(p) \/ p \in isolates,
         \A p \in Pid : p \in isolates' =>
           p \in isolates \/ late[p] # {} \/ OnCpu(p),
         \A p \in Pid : AwaitedTask(p, "code")' =>
           AwaitedTask(p, "code") /\ late'[p] = late[p]
  PROVE  FreshInv'
<1> USE DEF kernelVars
<1>1. \A p : /\ InReady(p)' <=> InReady(p)
             /\ InBatch(p)' <=> InBatch(p)
             /\ Created(p)' <=> Created(p)
  BY DEF InReady, InBatch, Holds, Created
<1>2. \A p \in Pid : OnCpu(p) => Created(p) /\ ~InReady(p) /\ ~InBatch(p)
  BY DEF IInv, CpuInv, ScheduledOnce
<1> QED BY <1>1, <1>2 DEF IInv, FreshInv

LEMMA HostBeginStep ==
  ASSUME IInv, NEW p \in Pid, NEW st \in {"code", "queued"}, HostBegin(p, st)
  PROVE  IInv'
<1> USE DEF HostBegin
<1>1. /\ p \in isolates \/ st = "code"
      /\ isolates' = isolates \ {p}
      /\ UNCHANGED <<pc, current>>
      /\ \/ /\ AwaitedTask(p, st) /\ slice' = "executing"
            /\ UNCHANGED late
         \/ /\ st \in late[p] /\ UNCHANGED slice
            /\ late' = [late EXCEPT ![p] = (@ \ {st}) \cup {"executing"}]
  BY DEF kernelVars
<1>2. late \in [Pid -> SUBSET TaskStates] /\ HasTask(p, st)
  BY <1>1 DEF IInv, TypeOK, HasTask
<1>3. /\ late' \in [Pid -> SUBSET TaskStates]
      /\ \A x \in Pid : x # p => late'[x] = late[x]
      /\ late'[p] # {} => late[p] # {}
  BY <1>1, <1>2 DEF TaskStates
<1>4. TypeOK' /\ ScheduledOnce' /\ NoneLost' /\ CpuInv' /\ QuotaInv'
  BY <1>1, <1>3, HostStep DEF AwaitedTask, IInv, TypeOK, kernelVars
<1>5. \A x \in Pid, s \in TaskStates :
        x # p => /\ AwaitedTask(x, s)' <=> AwaitedTask(x, s)
                 /\ HasTask(x, s)' <=> HasTask(x, s)
  BY <1>1, <1>3 DEF AwaitedTask, HasTask
<1>6. FreshInv'
  BY <1>1, <1>2, <1>3, FreshFrame DEF AwaitedTask, IInv, FreshInv
\* No other task of the process executes or holds the source.
<1>7. ~HasTask(p, "executing")
  BY <1>1, <1>2 DEF IInv, OneIsolate
<1>8. /\ AwaitedTask(p, st) => "code" \notin late[p]
      /\ st \in late[p] => ~AwaitedTask(p, "code")
      /\ st = "queued" => ~HasTask(p, "code")
  BY <1>1, <1>2 DEF IInv, FreshInv, CodeInv, HasTask, AwaitedTask
<1>9. ~(AwaitedTask(p, "executing")' /\ "executing" \in late'[p])
  BY <1>1, <1>7 DEF HasTask, AwaitedTask
<1>10. ~HasTask(p, "code")'
  BY <1>1, <1>2, <1>8 DEF HasTask, AwaitedTask
<1>11. OneIsolate'
  BY <1>1, <1>3, <1>5, <1>9, <1>10 DEF IInv, OneIsolate, TaskStates
<1>12. CodeInv'
  BY <1>1, <1>5, <1>10 DEF IInv, CodeInv, TaskStates
<1> QED BY <1>4, <1>6, <1>11, <1>12 DEF IInv

\* A task that ends takes one task from the process and adds none.
LEMMA TaskEndsFacts ==
  ASSUME IInv, NEW p \in Pid, NEW st \in TaskStates,
         NEW outcome \in {"done", "err"}, TaskEnds(p, st, outcome),
         UNCHANGED kernelVars
  PROVE  /\ HasTask(p, st)
         /\ \/ UNCHANGED <<pc, slice>>
            \/ pc = "slice" /\ slice' = "none" /\ pc' = outcome
         /\ late' \in [Pid -> SUBSET TaskStates]
         /\ \A x \in Pid : late'[x] \subseteq late[x]
         /\ \A x \in Pid, s \in TaskStates :
              /\ AwaitedTask(x, s)' => AwaitedTask(x, s) /\ late'[x] \subseteq late[x]
              /\ HasTask(x, s)' => HasTask(x, s)
         /\ ~(AwaitedTask(p, st) /\ st \in late[p]) => ~HasTask(p, st)'
<1> USE DEF TaskEnds, kernelVars
<1>1. late \in [Pid -> SUBSET TaskStates]
  BY DEF IInv, TypeOK
<1>2. CASE /\ AwaitedTask(p, st) /\ slice' = "none" /\ pc' = outcome
           /\ UNCHANGED late
  BY <1>1, <1>2 DEF HasTask, AwaitedTask
<1>3. CASE /\ st \in late[p] /\ late' = [late EXCEPT ![p] = @ \ {st}]
           /\ UNCHANGED <<slice, pc>>
  <2>1. /\ late' \in [Pid -> SUBSET TaskStates]
        /\ \A x \in Pid : late'[x] = IF x = p THEN late[x] \ {st} ELSE late[x]
    BY <1>1, <1>3
  <2> QED BY <1>3, <2>1 DEF HasTask, AwaitedTask
<1> QED BY <1>2, <1>3

LEMMA HostBeginFailsStep ==
  ASSUME IInv, NEW p \in Pid, NEW st \in {"code", "queued"},
         HostBeginFails(p, st)
  PROVE  IInv'
<1>1. /\ TaskEnds(p, st, "err") /\ UNCHANGED <<kernelVars, isolates, drops>>
      /\ st \in TaskStates
  BY DEF HostBeginFails, TaskStates
<1>2. /\ \/ UNCHANGED <<pc, slice>>
         \/ pc = "slice" /\ slice' = "none" /\ pc' = "err"
      /\ late' \in [Pid -> SUBSET TaskStates]
      /\ \A x \in Pid : late'[x] \subseteq late[x]
      /\ \A x \in Pid, s \in TaskStates :
           /\ AwaitedTask(x, s)' => AwaitedTask(x, s)
           /\ HasTask(x, s)' => HasTask(x, s)
  BY <1>1, TaskEndsFacts
<1>3. TypeOK' /\ ScheduledOnce' /\ NoneLost' /\ CpuInv' /\ QuotaInv'
  BY <1>1, <1>2, HostStep DEF IInv, TypeOK
<1>4. FreshInv'
  BY <1>1, <1>2, FreshFrame DEF IInv, FreshInv, TaskStates
<1>5. OneIsolate' /\ CodeInv'
  BY <1>1, <1>2 DEF IInv, OneIsolate, CodeInv, TaskStates
<1> QED BY <1>3, <1>4, <1>5 DEF IInv

LEMMA HostFinishStep ==
  ASSUME IInv, NEW p \in Pid, HostFinish(p)
  PROVE  IInv'
<1>1. /\ TaskEnds(p, "executing", "done") /\ UNCHANGED <<kernelVars, drops>>
      /\ isolates' = isolates \cup {p} /\ "executing" \in TaskStates
  BY DEF HostFinish, TaskStates
<1>2. /\ HasTask(p, "executing")
      /\ \/ UNCHANGED <<pc, slice>>
         \/ pc = "slice" /\ slice' = "none" /\ pc' = "done"
      /\ late' \in [Pid -> SUBSET TaskStates]
      /\ \A x \in Pid : late'[x] \subseteq late[x]
      /\ \A x \in Pid, s \in TaskStates :
           /\ AwaitedTask(x, s)' => AwaitedTask(x, s)
           /\ HasTask(x, s)' => HasTask(x, s)
      /\ ~(AwaitedTask(p, "executing") /\ "executing" \in late[p]) =>
           ~HasTask(p, "executing")'
  BY <1>1, TaskEndsFacts
<1>3. TypeOK' /\ ScheduledOnce' /\ NoneLost' /\ CpuInv' /\ QuotaInv'
  BY <1>1, <1>2, HostStep DEF IInv, TypeOK
<1>4. FreshInv'
  <2>1. late[p] # {} \/ OnCpu(p)
    BY <1>2 DEF HasTask, AwaitedTask, OnCpu, Active
  <2> QED BY <1>1, <1>2, <2>1, FreshFrame DEF IInv, FreshInv, TaskStates
<1>5. ~HasTask(p, "executing")'
  BY <1>2 DEF IInv, OneIsolate
<1>6. ~HasTask(p, "code")'
  BY <1>2 DEF IInv, OneIsolate, TaskStates
<1>7. OneIsolate'
  BY <1>1, <1>2, <1>5, <1>6 DEF IInv, OneIsolate, TaskStates
<1>8. CodeInv'
  BY <1>1, <1>2, <1>6 DEF IInv, CodeInv, TaskStates
<1> QED BY <1>3, <1>4, <1>7, <1>8 DEF IInv

LEMMA TimeoutStep == IInv /\ Timeout => IInv'
<1> SUFFICES ASSUME IInv, Timeout PROVE IInv'
  OBVIOUS
<1> USE DEF Timeout
<1>1. current \in Pid /\ OnCpu(current)
  BY DEF IInv, TypeOK, CpuInv, OnCpu, Active
<1>2. late \in [Pid -> SUBSET TaskStates] /\ slice \in TaskStates
  BY DEF IInv, TypeOK, CpuInv
<1>3. /\ late' \in [Pid -> SUBSET TaskStates]
      /\ \A x \in Pid : late'[x] = IF x = current THEN late[x] \cup {slice}
                                                  ELSE late[x]
  BY <1>1, <1>2
<1>4. TypeOK' /\ ScheduledOnce' /\ NoneLost' /\ CpuInv' /\ QuotaInv'
  BY <1>3, HostStep DEF IInv, TypeOK
<1>5. \A x \in Pid, s \in TaskStates :
        ~AwaitedTask(x, s)' /\ (HasTask(x, s)' <=> HasTask(x, s))
  BY <1>3 DEF AwaitedTask, HasTask
<1>6. FreshInv'
  BY <1>1, <1>3, <1>5, FreshFrame DEF TaskStates
<1>7. OneIsolate' /\ CodeInv'
  BY <1>5 DEF IInv, OneIsolate, CodeInv, TaskStates
<1> QED BY <1>4, <1>6, <1>7 DEF IInv

LEMMA HostDropStep ==
  ASSUME IInv, NEW p \in Pid, HostDrop(p)
  PROVE  IInv'
<1> USE DEF HostDrop
<1>1. TypeOK' /\ ScheduledOnce' /\ NoneLost' /\ CpuInv' /\ QuotaInv'
  BY HostStep DEF IInv, TypeOK
<1>2. FreshInv'
  BY FreshFrame DEF AwaitedTask, kernelVars
<1>3. OneIsolate' /\ CodeInv'
  BY HostFrame DEF kernelVars
<1> QED BY <1>1, <1>2, <1>3 DEF IInv

-----------------------------------------------------------------------------
(* The calls *)

LEMMA SpawnStep ==
  ASSUME IInv, NEW code \in BOOLEAN, NEW total \in CpuQuotas,
         NEW mem \in MemQuotas, Spawn(code, total, mem)
  PROVE  IInv'
<1> DEFINE n == nextPid
           r == NewPcb(code, total, mem)
<1>1. /\ pc # "step" /\ n <= MaxPid
      /\ nextPid' = n + 1
      /\ proc' = [proc EXCEPT ![n] = r]
      /\ readyQueue' = Append(readyQueue, n)
      /\ UNCHANGED <<batch, pc, current, running, singleUser, dispatchers,
                     slice, late, isolates, drops>>
  BY DEF Spawn, Awaiting, hostVars
<1>2. n \in Pid /\ n # InitPid /\ n \in Int
  BY <1>1, BoundsAssumption DEF IInv, TypeOK, Pid, InitPid
<1>3. /\ r \in Pcb /\ ~r.started /\ ~r.exited /\ r.quotaViolations = 0
  BY BoundsAssumption DEF NewPcb, Pcb
<1>4. ~Created(n) /\ ~InReady(n) /\ ~InBatch(n) /\ ~OnCpu(n)
  BY <1>2 DEF IInv, NoneLost, CpuInv, Alive, Created
<1>5. readyQueue \in Seq(Pid) /\ Injective(readyQueue) /\ ~Holds(readyQueue, n)
  BY <1>4 DEF IInv, TypeOK, ScheduledOnce, InReady
<1> HIDE DEF n, r
<1>6. /\ readyQueue' \in Seq(Pid) /\ Injective(readyQueue')
      /\ \A x : InReady(x)' <=> InReady(x) \/ x = n
  BY <1>1, <1>2, <1>5, AppendFacts DEF InReady
<1>7. /\ proc' \in [Pid -> Pcb]
      /\ \A x \in Pid : proc'[x] = IF x = n THEN r ELSE proc[x]
  BY <1>1, <1>2, <1>3 DEF IInv, TypeOK
<1>8. \A x \in Pid : /\ Created(x)' <=> Created(x) \/ x = n
                     /\ InBatch(x)' <=> InBatch(x)
                     /\ OnCpu(x)' <=> OnCpu(x)
  <2>1. \A x \in Pid : Created(x)' <=> Created(x) \/ x = n
    BY <1>1, <1>2 DEF Created, Pid, n
  <2> QED BY <2>1, <1>1 DEF InBatch, Holds, OnCpu, Active
<1>9. TypeOK'
  <2>1. nextPid' \in 2 .. MaxPid + 1
    BY <1>1, <1>2, BoundsAssumption DEF IInv, TypeOK, n
  <2> QED BY <1>1, <1>6, <1>7, <2>1 DEF IInv, TypeOK
<1>10. ScheduledOnce'
  <2>1. Injective(batch')
    BY <1>1 DEF IInv, ScheduledOnce
  <2> QED BY <1>4, <1>6, <1>8, <2>1 DEF IInv, ScheduledOnce
<1>11. NoneLost'
  BY <1>3, <1>6, <1>7, <1>8 DEF IInv, NoneLost, Alive
<1>12. CpuInv'
  <2>1. pc' = "drop" => proc'[current].exited
    <3>1. pc = "drop" => OnCpu(current) /\ current \in Pid
      BY DEF IInv, TypeOK, CpuInv, OnCpu, Active
    <3>2. pc = "drop" => current # n /\ current \in Pid
      BY <3>1, <1>4
    <3> QED BY <3>2, <1>1, <1>7 DEF IInv, CpuInv
  <2>2. \A x \in Pid : OnCpu(x)' \/ InBatch(x)' => Created(x)'
    BY <1>8 DEF IInv, CpuInv
  <2> QED BY <1>1, <2>1, <2>2 DEF IInv, CpuInv
<1>13. FreshInv'
  <2>1. \A x, st : AwaitedTask(x, st)' <=> AwaitedTask(x, st)
    BY <1>1 DEF AwaitedTask
  <2> QED BY <1>1, <1>3, <1>4, <1>6, <1>7, <1>8, <2>1 DEF IInv, FreshInv
<1>14. OneIsolate' /\ CodeInv'
  BY <1>1, HostFrame
<1>15. QuotaInv'
  BY <1>1, <1>3, <1>6, <1>7, <1>8 DEF IInv, QuotaInv
<1> QED BY <1>9, <1>10, <1>11, <1>12, <1>13, <1>14, <1>15 DEF IInv

LEMMA KillStep ==
  ASSUME IInv, NEW q \in Pid, NEW p \in Pid, NEW sig \in {NoSig, 9, 15},
         Kill(q, p, sig)
  PROVE  IInv'
<1>1. /\ Created(p)
      /\ proc' = [proc EXCEPT ![p].exited = TRUE]
      /\ drops' = drops \cup {p}
      /\ readyQueue' = Without(readyQueue, p)
      /\ UNCHANGED <<nextPid, batch, pc, current, running, singleUser,
                     dispatchers, slice, late, isolates>>
  BY DEF Kill, KillRefused
<1>2. readyQueue \in Seq(Pid) /\ Injective(readyQueue)
  BY DEF IInv, TypeOK, ScheduledOnce
<1>3. /\ readyQueue' \in Seq(Pid) /\ Injective(readyQueue')
      /\ \A x : InReady(x)' <=> InReady(x) /\ x # p
  BY <1>1, <1>2, WithoutFacts DEF InReady
<1>4. /\ proc' \in [Pid -> Pcb]
      /\ ScheduledOnce' /\ NoneLost' /\ CpuInv' /\ FreshInv'
      /\ OneIsolate' /\ CodeInv' /\ QuotaInv'
  BY <1>1, <1>3, ExitFrame
<1>5. TypeOK'
  BY <1>1, <1>3, <1>4 DEF IInv, TypeOK
<1> QED BY <1>4, <1>5 DEF IInv

\* Steps that change neither queues nor tasks, and of the PCBs the quotas at
\* most.
LEMMA ControlFrame ==
  ASSUME IInv,
         UNCHANGED <<nextPid, readyQueue, batch, pc, current, dispatchers,
                     slice, late, isolates, drops>>,
         running' \in BOOLEAN, singleUser' \in BOOLEAN,
         proc' \in [Pid -> Pcb],
         \A p \in Pid : /\ proc'[p].exited = proc[p].exited
                        /\ proc'[p].started = proc[p].started
                        /\ proc'[p].quotaViolations = proc[p].quotaViolations
  PROVE  IInv'
<1>1. \A p \in Pid : /\ InReady(p)' <=> InReady(p)
                     /\ InBatch(p)' <=> InBatch(p)
                     /\ OnCpu(p)' <=> OnCpu(p)
                     /\ Alive(p)' <=> Alive(p)
                     /\ Created(p)' <=> Created(p)
  BY DEF InReady, InBatch, Holds, OnCpu, Alive, Created, Active
<1>2. TypeOK'
  BY DEF IInv, TypeOK
<1>3. ScheduledOnce' /\ NoneLost'
  BY <1>1 DEF IInv, ScheduledOnce, NoneLost, Injective
<1>4. CpuInv'
  <2>1. pc = "drop" => current \in Pid
    BY DEF IInv, CpuInv, TypeOK, Active
  <2> QED BY <1>1, <2>1 DEF IInv, CpuInv
<1>5. FreshInv'
  BY <1>1 DEF IInv, FreshInv, AwaitedTask
<1>6. OneIsolate' /\ CodeInv'
  BY HostFrame
<1>7. QuotaInv'
  BY <1>1 DEF IInv, QuotaInv
<1> QED BY <1>2, <1>3, <1>4, <1>5, <1>6, <1>7 DEF IInv

LEMMA SetQuotaStep ==
  ASSUME IInv, NEW q \in Pid, NEW total \in CpuQuotas, NEW mem \in MemQuotas,
         SetQuota(q, total, mem)
  PROVE  IInv'
<1>1. /\ proc' = [proc EXCEPT ![q].quotaMs_total = total,
                               ![q].quotaMem = mem]
      /\ UNCHANGED <<nextPid, readyQueue, batch, pc, current, running,
                     singleUser, dispatchers, slice, late, isolates, drops>>
  BY DEF SetQuota, hostVars
<1>2. /\ proc' \in [Pid -> Pcb]
      /\ \A p \in Pid : /\ proc'[p].exited = proc[p].exited
                        /\ proc'[p].started = proc[p].started
                        /\ proc'[p].quotaViolations = proc[p].quotaViolations
  BY <1>1 DEF IInv, TypeOK, Pcb
<1>3. running' \in BOOLEAN /\ singleUser' \in BOOLEAN
  BY <1>1 DEF IInv, TypeOK
<1> QED BY <1>1, <1>2, <1>3, ControlFrame

LEMMA ControlStep ==
  ASSUME IInv, Stop \/ (\E on \in BOOLEAN : SingleUser(on)) \/ UNCHANGED vars
  PROVE  IInv'
<1>1. /\ UNCHANGED <<nextPid, proc, readyQueue, batch, pc, current,
                     dispatchers, slice, late, isolates, drops>>
      /\ running' \in BOOLEAN /\ singleUser' \in BOOLEAN
  BY DEF Stop, SingleUser, vars, kernelVars, hostVars, IInv, TypeOK
<1> QED BY <1>1, ControlFrame DEF IInv, TypeOK

LEMMA NextInv == IInv /\ [Next]_vars => IInv'
<1> SUFFICES ASSUME IInv, [Next]_vars PROVE IInv'
  OBVIOUS
<1>1. CASE Loop
  BY <1>1, LoopEndStep, LoopTakeStep, IdleTimerStep, RunSkipStep,
     RunLaunchStep, ResumeDoneStep, ResumeTimeoutStep, ResumeErrStep,
     DropAwaitedStep DEF Loop
<1>2. CASE Host
  BY <1>2, HostBeginStep, HostBeginFailsStep, HostFinishStep, HostDropStep,
     TimeoutStep DEF Host
<1>3. CASE Calls
  BY <1>3, SpawnStep, KillStep, SetQuotaStep, ControlStep DEF Calls
<1>4. CASE UNCHANGED vars
  BY <1>4, ControlStep
<1> QED BY <1>1, <1>2, <1>3, <1>4 DEF Next

LEMMA Inductive == Spec => []IInv
BY InitInv, NextInv, PTL DEF Spec

-----------------------------------------------------------------------------
(* The theorems *)

\* Every variable keeps its type, whatever the interleaving of the loop, the
\* host's tasks and the syscalls.
THEOREM TypeCorrect == Spec => []TypeOK
<1>1. IInv => TypeOK
  BY DEF IInv
<1> QED BY Inductive, <1>1, PTL

\* No process is ever scheduled twice: spawn, kill and the end of a slice keep
\* the ready queue, the round being run and the CPU apart.
THEOREM EachScheduledOnce == Spec => []ScheduledOnce
<1>1. IInv => ScheduledOnce
  BY DEF IInv
<1> QED BY Inductive, <1>1, PTL

\* No live process is lost by the scheduler, and no exited one is queued.
THEOREM NoProcessLost == Spec => []NoneLost
<1>1. IInv => NoneLost
  BY DEF IInv
<1> QED BY Inductive, <1>1, PTL

\* The host never runs two isolates of one process, although tasks outlive
\* their slices and kill drops isolates while they are away.
THEOREM OneIsolateEach == Spec => []OneIsolate
<1>1. IInv => OneIsolate
  BY DEF IInv
<1> QED BY Inductive, <1>1, PTL

\* Only init is ever counted as a repeated violator of its quota.
THEOREM QuotaEndsProcess == Spec => []RepeatOffenderIsInit
<1>1. ASSUME IInv PROVE RepeatOffenderIsInit
  <2> SUFFICES ASSUME NEW p \in Pid, proc[p].quotaViolations > 1, p # InitPid
               PROVE  FALSE
    BY DEF RepeatOffenderIsInit
  <2>1. proc[p].quotaViolations \in 0 .. 2
    BY <1>1 DEF IInv, TypeOK, Pcb
  <2>2. proc[p].quotaViolations > 0 => proc[p].quotaViolations = 1
    BY <1>1 DEF IInv, QuotaInv
  <2> QED BY <2>1, <2>2
<1> QED BY Inductive, <1>1, PTL

\* No signal and no quota ends init outside single-user mode: of the steps that
\* mark a process exited, kill is refused and the quota spares init, which
\* leaves the end of its own program and a failed slice.
LEMMA InitProtectedStep ==
  ASSUME IInv, [Next]_vars, Alive(InitPid), ~Alive(InitPid)'
  PROVE  singleUser \/ (pc \in {"done", "err"} /\ current = InitPid)
<1> DEFINE ends == proc'[InitPid].exited /\ ~proc[InitPid].exited
<1>1. InitPid \in Pid /\ proc \in [Pid -> Pcb]
  BY BoundsAssumption DEF IInv, TypeOK, InitPid, Pid
<1>2. Created(InitPid) /\ Created(InitPid)'
  BY NextInv, BoundsAssumption DEF IInv, TypeOK, Created, InitPid
<1>3. ends
  BY <1>2 DEF Alive
<1>4. CASE LoopEnd \/ LoopTake \/ IdleTimer \/ RunSkip \/ RunLaunch
             \/ DropAwaited \/ Host \/ Stop \/ UNCHANGED vars
             \/ \E on \in BOOLEAN : SingleUser(on)
  BY <1>3, <1>4
     DEF LoopEnd, LoopTake, IdleTimer, RunSkip, RunLaunch, DropAwaited,
         Host, HostBegin, HostBeginFails, HostFinish, Timeout, HostDrop,
         Stop, SingleUser, vars, kernelVars
<1>5. CASE ResumeDone \/ ResumeErr
  <2>1. current = InitPid
    BY <1>1, <1>3, <1>5 DEF ResumeDone, ResumeResult, ResumeErr
  <2> QED BY <1>5, <2>1 DEF ResumeDone, ResumeErr
<1>6. CASE ResumeTimeout
  <2>1. current = InitPid
    BY <1>1, <1>3, <1>6 DEF ResumeTimeout, ResumeResult
  <2> DEFINE mem == proc[InitPid].quotaMem
             c == Charged(proc[InitPid], 1, mem)
             over == OverQuota(c)
             killed == QuotaKills(InitPid, over)
  <2>2. proc'[InitPid].exited = (c.exited \/ killed \/ (~over /\ FALSE))
    <3> HIDE DEF c, over, killed
    <3> QED BY <1>1, <1>6, <2>1 DEF ResumeTimeout, ResumeResult, c, over, killed
  <2>3. ~killed
    BY DEF QuotaKills
  <2>4. c.exited = proc[InitPid].exited
    BY <1>1 DEF Charged, Pcb
  <2> QED BY <1>3, <2>2, <2>3, <2>4
<1>7. CASE \E q, p \in Pid, sig \in {NoSig, 9, 15} : Kill(q, p, sig)
  <2>1. PICK q \in Pid, p \in Pid, sig \in {NoSig, 9, 15} : Kill(q, p, sig)
    BY <1>7
  <2>2. p = InitPid
    BY <1>1, <1>3, <2>1 DEF Kill
  <2> QED BY <2>1, <2>2 DEF Kill, KillRefused
<1>8. CASE \E q \in Pid, total \in CpuQuotas, mem \in MemQuotas :
             SetQuota(q, total, mem)
  BY <1>1, <1>3, <1>8 DEF SetQuota, Pcb
<1>9. CASE \E code \in BOOLEAN, total \in CpuQuotas, mem \in MemQuotas :
             Spawn(code, total, mem)
  BY <1>1, <1>3, <1>9 DEF Spawn, NewPcb
<1> QED BY <1>4, <1>5, <1>6, <1>7, <1>8, <1>9 DEF Next, Loop, Calls

THEOREM InitIsProtected == Spec => InitProtected
<1>1. IInv /\ [Next]_vars =>
        [Alive(InitPid) /\ ~Alive(InitPid)' =>
           singleUser \/ (pc \in {"done", "err"} /\ current = InitPid)]_vars
  BY InitProtectedStep
<1> QED BY <1>1, Inductive, PTL DEF Spec, InitProtected

-----------------------------------------------------------------------------
(* The refinement: initial states map to initial states, and each step    *)
(* maps to a step of RoundRobin or to a stutter.                            *)

LEMMA InitRefines == Init => RR!Init
<1> SUFFICES ASSUME Init PROVE RR!Init
  OBVIOUS
<1>1. {p \in Pid : InBatch(p)} = {}
  BY DEF Init, InBatch, Holds
<1> QED BY <1>1 DEF Init, RR!Init

\* The mapped state after a step, in terms of what the step does to a process.
LEMMA NextRefines == IInv /\ IInv' /\ [Next]_vars => [RR!Next]_RR!vars
<1> SUFFICES ASSUME IInv, IInv', [Next]_vars PROVE RR!Next \/ UNCHANGED RR!vars
  OBVIOUS
<1> DEFINE live == {p \in Pid : Alive(p)}
           turns == {p \in Pid : InBatch(p)}
<1>1. ASSUME UNCHANGED <<nextPid, proc, batch, current>>
      PROVE  UNCHANGED RR!vars
  BY <1>1 DEF RR!vars, Alive, Created, InBatch, Holds
<1>2. CASE LoopEnd \/ IdleTimer \/ Host \/ Stop \/ UNCHANGED vars
             \/ \E on \in BOOLEAN : SingleUser(on)
  BY <1>1, <1>2
     DEF LoopEnd, IdleTimer, Host, HostBegin, HostBeginFails, HostFinish,
         Timeout, HostDrop, Stop, SingleUser, vars, kernelVars
<1>3. CASE LoopTake
  <2>1. current = NoPid /\ turns = {} /\ UNCHANGED <<nextPid, proc, current>>
    BY <1>3 DEF LoopTake, IInv, CpuInv, Active, InBatch, Holds
  <2>2. \A p \in Pid : Alive(p) <=> InBatch(p)'
    BY <1>3, <2>1
       DEF LoopTake, IInv, NoneLost, InReady, InBatch, Holds, OnCpu, Active
  <2>3. turns' = live /\ live' = live
    BY <2>1, <2>2 DEF Alive, Created
  <2> QED BY <2>1, <2>3 DEF RR!Next, RR!NewRound
<1>4. CASE RunSkip \/ RunLaunch
  <2> DEFINE h == Head(batch)
  <2>1. /\ h \in Pid /\ InBatch(h) /\ current = NoPid
        /\ \A p : InBatch(p)' <=> InBatch(p) /\ p # h
        /\ UNCHANGED <<nextPid, proc>>
        /\ current' \in {NoPid, h}
    <3>1. /\ batch' = Tail(batch) /\ batch # <<>> /\ pc = "step"
          /\ UNCHANGED <<nextPid, proc>>
          /\ current' = current \/ current' = h
      BY <1>4 DEF RunSkip, RunLaunch, hostVars
    <3>2. batch \in Seq(Pid) /\ Injective(batch) /\ current = NoPid
      BY <3>1 DEF IInv, TypeOK, ScheduledOnce, CpuInv, Active
    <3>3. /\ h \in Pid /\ Holds(batch, h)
          /\ \A x : Holds(Tail(batch), x) <=> Holds(batch, x) /\ x # h
      BY <3>1, <3>2, TailFacts
    <3> HIDE DEF h
    <3> QED BY <3>1, <3>2, <3>3 DEF InBatch
  <2> HIDE DEF h
  <2>2. turns' = turns \ {h} /\ h \in turns /\ live' = live
    BY <2>1 DEF Alive, Created
  <2> QED BY <2>1, <2>2 DEF RR!Next, RR!Dispatch, RR!Pass
<1>5. CASE DropAwaited
  <2>1. current # NoPid
    BY <1>5 DEF DropAwaited, IInv, CpuInv, Active
  <2> QED BY <1>5, <2>1
          DEF DropAwaited, RR!Next, RR!Release, Alive, Created, InBatch, Holds
\* A step that marks process p exited, dead already or not.
<1>6. ASSUME NEW p \in Pid, Created(p), UNCHANGED <<nextPid, batch, current>>,
             proc' = [proc EXCEPT ![p] = proc'[p]], proc'[p].exited
      PROVE  RR!Next \/ UNCHANGED RR!vars
  <2>1. \A x \in Pid : Alive(x)' <=> Alive(x) /\ x # p
    BY <1>6 DEF Alive, Created, IInv, TypeOK
  <2>2. turns' = turns /\ live' = live \ {p}
    BY <1>6, <2>1 DEF InBatch, Holds
  <2>3. CASE Alive(p)
    BY <1>6, <2>2, <2>3 DEF RR!Next, RR!Die
  <2>4. CASE ~Alive(p)
    BY <1>6, <2>2, <2>4 DEF RR!vars
  <2> QED BY <2>3, <2>4
<1>7. ASSUME NEW cpu \in 0 .. 1, NEW mem \in Nat, NEW finished \in BOOLEAN,
             pc \in {"done", "timeout"}, ResumeResult(cpu, mem, finished)
      PROVE  RR!Next \/ UNCHANGED RR!vars
  <2> DEFINE p == current
  <2>1. p \in Pid /\ Created(p) /\ current # NoPid /\ p # NoPid
    BY <1>7 DEF IInv, TypeOK, CpuInv, OnCpu, Active, Pid, NoPid
  <2>2. PICK r : /\ proc' = [proc EXCEPT ![p] = r]
                 /\ current' = IF r.exited THEN p ELSE NoPid
                 /\ UNCHANGED <<nextPid, batch>>
                 /\ proc[p].exited => r.exited
    BY <1>7, <2>1 DEF ResumeResult, Charged, IInv, TypeOK, Pcb
  <2>3. proc'[p] = r
    BY <2>1, <2>2 DEF IInv, TypeOK
  <2>4. CASE r.exited
    BY <1>6, <2>1, <2>2, <2>3, <2>4
  <2>5. CASE ~r.exited
    <3>1. turns' = turns /\ live' = live
      BY <2>1, <2>2, <2>3, <2>5
         DEF InBatch, Holds, Alive, Created, IInv, TypeOK
    <3> QED BY <2>1, <2>2, <2>5, <3>1 DEF RR!Next, RR!Release
  <2> QED BY <2>4, <2>5
<1>8. CASE ResumeDone
  BY <1>7, <1>8 DEF ResumeDone
<1>9. CASE ResumeTimeout
  BY <1>7, <1>9, TimeoutIsResult, Zenon
<1>10. CASE ResumeErr
  <2>1. current \in Pid /\ Created(current)
    BY <1>10 DEF ResumeErr, IInv, TypeOK, CpuInv, OnCpu, Active
  <2> QED BY <1>6, <1>10, <2>1 DEF ResumeErr, IInv, TypeOK, Pcb
<1>11. CASE \E q, p \in Pid, sig \in {NoSig, 9, 15} : Kill(q, p, sig)
  BY <1>6, <1>11 DEF Kill, KillRefused, IInv, TypeOK, Pcb
<1>12. CASE \E q \in Pid, total \in CpuQuotas, mem \in MemQuotas :
              SetQuota(q, total, mem)
  <2>1. \A x \in Pid : Alive(x)' <=> Alive(x)
    BY <1>12 DEF SetQuota, Alive, Created, IInv, TypeOK, Pcb
  <2>2. live' = live /\ turns' = turns /\ UNCHANGED current
    BY <1>12, <2>1 DEF SetQuota, InBatch, Holds
  <2> QED BY <2>2 DEF RR!vars
<1>13. CASE \E code \in BOOLEAN, total \in CpuQuotas, mem \in MemQuotas :
              Spawn(code, total, mem)
  <2> DEFINE n == nextPid
  <2>1. PICK r : /\ ~r.exited /\ proc' = [proc EXCEPT ![n] = r]
                 /\ n <= MaxPid /\ nextPid' = n + 1
                 /\ UNCHANGED <<batch, current>>
    <3>1. PICK code \in BOOLEAN, total \in CpuQuotas, mem \in MemQuotas :
            Spawn(code, total, mem)
      BY <1>13
    <3>2. ~NewPcb(code, total, mem).exited
      BY DEF NewPcb
    <3> QED BY <3>1, <3>2 DEF Spawn
  <2>2. n \in Pid
    BY <2>1 DEF IInv, TypeOK, Pid
  <2>3. ~Created(n) /\ ~InBatch(n) /\ ~OnCpu(n)
    BY <2>2 DEF IInv, CpuInv, Created, Pid
  <2>4. n # current
    BY <2>2, <2>3 DEF OnCpu, IInv, CpuInv, Pid, NoPid
  <2>5. \A x \in Pid : Alive(x)' <=> Alive(x) \/ x = n
    BY <2>1, <2>2, <2>3 DEF Alive, Created, IInv, TypeOK, Pid
  <2>6. live' = live \cup {n} /\ turns' = turns
    BY <2>1, <2>2, <2>5 DEF InBatch, Holds
  <2>7. n \notin live /\ n \notin turns
    BY <2>3 DEF Alive
  <2> HIDE DEF n
  <2> QED BY <2>1, <2>2, <2>4, <2>6, <2>7 DEF RR!Next, RR!Admit
<1> QED BY <1>2, <1>3, <1>4, <1>5, <1>8, <1>9, <1>10, <1>11, <1>12, <1>13
        DEF Next, Loop, Calls

\* The loop of Kernel.start gives every process that is ready at the start of
\* a round one turn in it, and no other.
THEOREM ImplementsRoundRobin == Spec => RoundRobinTurns
<1>1. IInv /\ [Next]_vars => IInv'
  BY NextInv
<1> QED BY <1>1, Inductive, InitRefines, NextRefines, PTL
        DEF Spec, RoundRobinTurns, RR!Spec

==============================================================================
