----------------------------- MODULE RebootProofs -----------------------------
(***************************************************************************)
(* Proofs, for every number of processes, kernels and calls, that the      *)
(* state and the stored snapshots have their types (TypeOK), that a call   *)
(* is handled only in a slice of its process (CallsRunInSlices), and that  *)
(* a reboot keeps acknowledged work (RebootKeepsWork).                     *)
(*                                                                         *)
(* The last one rests on the order of the commands: the boot of kernel 2   *)
(* stands right behind a snapshot with all the work that was answered by   *)
(* then, or, when that has been handled, that snapshot is the active one.  *)
(* QueueOK says so, and that no kernel is booted twice.                    *)
(***************************************************************************)
EXTENDS Reboot, FiniteSetTheorems, SequenceTheorems, TLAPS

-----------------------------------------------------------------------------
(* The invariant *)

CallType == [pid : Pid, by : Kernel, kind : Kinds,
             at : {"emitted", "served", "answered", "dropped"}]

\* Types of what TypeOK leaves out.
MoreTypes ==
  /\ spent \in [kernels : Nat, calls : Nat]
  /\ calls \in Seq(CallType)
  /\ spent.calls + Len(calls) <= MaxCalls
  /\ base \in [Kernel -> SUBSET (0 .. MaxCalls)]

\* Kernels that are not made do nothing.
NewKernels == \A k \in Kernel : k > made => pc[k] = "none"

\* Calls of other kinds than work, and the work that kernel 2 has to have.
Others == {c \in DOMAIN calls : calls[c].kind # "work"}
Owed == IF made = 1 THEN {} ELSE IF origin[2] = "reboot" THEN ackedAtStop ELSE {}
InBoot == {k \in Kernel : pc[k] = "boot"}

CommandOK(x, others) ==
  /\ x.cmd \in {"save", "name"} => x.snap \in SnapshotType
  /\ x.cmd \in {"name", "load"} => x.call \in others

Boots(s) == {i \in 1 .. Len(s) : s[i].cmd = "boot"}

\* A snapshot that holds the work owed.
Holds(snap, owed) == snap \in SnapshotType /\ owed \subseteq snap.world

\* The boot of kernel 2 comes next after a save of what it has to have.
Preceded(s, i, owed, current_) ==
  IF i = 1 THEN Holds(current_, owed)
  ELSE s[i - 1].cmd = "save" /\ Holds(s[i - 1].snap, owed)

QueueOK(s, inBoot, others, owed, current_) ==
  /\ s \in Seq(Range(s))
  /\ \A i \in 1 .. Len(s) : CommandOK(s[i], others)
  /\ \A i \in Boots(s) : s[i].k \in inBoot
  /\ \A i, j \in Boots(s) : s[i].k = s[j].k => i = j
  /\ \A i \in Boots(s) : s[i].k = 2 => Preceded(s, i, owed, current_)

\* What is added to the queue when the kernels of c are made: their boots, that
\* of kernel 2 behind a save of what it has to have.
AdditionOK(t, c, others, owed) ==
  /\ \E S : t \in Seq(S)
  /\ \A i \in 1 .. Len(t) : CommandOK(t[i], others)
  /\ \A i \in Boots(t) : t[i].k \in c
  /\ \A i, j \in Boots(t) : t[i].k = t[j].k => i = j
  /\ \A i \in Boots(t) : t[i].k = 2 =>
       i # 1 /\ t[i - 1].cmd = "save" /\ Holds(t[i - 1].snap, owed)

\* While there is one kernel it has all the work that was answered, which is
\* none until it has booted.
FirstHasWork ==
  made = 1 => /\ AnsweredWork \subseteq world[1]
              /\ pc[1] = "boot" => AnsweredWork = {}

IInv ==
  /\ TypeOK
  /\ MoreTypes
  /\ CallsRunInSlices
  /\ NewKernels
  /\ QueueOK(commands, InBoot, Others, Owed, active)
  /\ FirstHasWork
  /\ RebootKeepsWork

-----------------------------------------------------------------------------
(* The queue of commands *)

\* A command that is no boot is added at the end.
LEMMA QueueAppend ==
  ASSUME NEW s, NEW x, NEW b, NEW o, NEW w, NEW a,
         QueueOK(s, b, o, w, a), CommandOK(x, o), x.cmd # "boot"
  PROVE  QueueOK(Append(s, x), b, o, w, a)
<1> DEFINE T == Range(s) \cup {x}
           t == Append(s, x)
<1>1. s \in Seq(T) /\ x \in T
  BY SeqMonotonic DEF QueueOK
<1> HIDE DEF T
<1>2. /\ t \in Seq(T)
      /\ Len(t) = Len(s) + 1
      /\ \A i \in 1 .. Len(s) : t[i] = s[i]
      /\ t[Len(s) + 1] = x
  BY <1>1, AppendProperties
<1>3. Len(s) \in Nat
  BY <1>1, LenProperties
<1>4. t \in Seq(Range(t))
  BY <1>2, SeqOfRange
<1> HIDE DEF t
<1>5. Boots(t) = Boots(s)
  BY <1>2, <1>3 DEF Boots
<1>6. \A i \in Boots(s) : Preceded(s, i, w, a) => Preceded(t, i, w, a)
  BY <1>2, <1>3 DEF Boots, Preceded
<1>7. \A i \in 1 .. Len(t) : CommandOK(t[i], o)
  BY <1>2, <1>3 DEF QueueOK
<1>8. \A i \in Boots(s) : t[i] = s[i]
  BY <1>2 DEF Boots
<1>9. QueueOK(t, b, o, w, a)
  BY <1>4, <1>5, <1>6, <1>7, <1>8 DEF QueueOK
<1> QED BY <1>9 DEF t

\* The boots of new kernels are added, the first of them behind a save.
LEMMA QueueConcat ==
  ASSUME NEW s, NEW t, NEW b, NEW c, NEW o, NEW v, NEW w, NEW a,
         QueueOK(s, b, o, v, a), b \cap c = {},
         2 \in b => v = w,
         AdditionOK(t, c, o, w)
  PROVE  QueueOK(s \o t, b \cup c, o, w, a)
<1> PICK S : t \in Seq(S)
  BY DEF AdditionOK
<1> USE DEF AdditionOK
<1> DEFINE T == Range(s) \cup S
           u == s \o t
           m == Len(s)
           n == Len(t)
<1>1. s \in Seq(T) /\ t \in Seq(T)
  BY SeqMonotonic DEF QueueOK
<1> HIDE DEF T
<1>2. /\ u \in Seq(T)
      /\ Len(u) = m + n
      /\ \A i \in 1 .. (m + n) : u[i] = IF i <= m THEN s[i] ELSE t[i - m]
  BY <1>1, ConcatProperties
<1>3. m \in Nat /\ n \in Nat
  BY <1>1, LenProperties
<1>4. u \in Seq(Range(u))
  BY <1>2, SeqOfRange
<1> HIDE DEF u, m, n
<1>5. \A i \in 1 .. Len(u) :
        \/ i \in 1 .. m /\ u[i] = s[i]
        \/ i - m \in 1 .. n /\ i > m /\ u[i] = t[i - m]
  BY <1>2, <1>3
<1>6. \A i \in Boots(u) :
        \/ i \in Boots(s) /\ u[i] = s[i]
        \/ i - m \in Boots(t) /\ i > m /\ u[i] = t[i - m]
  BY <1>5 DEF Boots, m, n
<1>7. \A i \in 1 .. Len(u) : CommandOK(u[i], o)
  BY <1>5 DEF QueueOK, m, n
<1>8. \A i \in Boots(u) : u[i].k \in b \cup c
  BY <1>6 DEF QueueOK
<1>9. ASSUME NEW i \in Boots(u), NEW j \in Boots(u), u[i].k = u[j].k
      PROVE  i = j
  <2>1. i \in Int /\ j \in Int
    BY <1>2, <1>3 DEF Boots
  <2>2. CASE i \in Boots(s) /\ u[i] = s[i] /\ j \in Boots(s) /\ u[j] = s[j]
    BY <2>2, <1>9 DEF QueueOK
  <2>3. CASE i - m \in Boots(t) /\ u[i] = t[i - m] /\ j - m \in Boots(t) /\ u[j] = t[j - m]
    <3>1. i - m = j - m
      BY <2>3, <1>9
    <3> QED BY <3>1, <2>1, <1>3
  <2>4. CASE i \in Boots(s) /\ u[i] = s[i] /\ j - m \in Boots(t) /\ u[j] = t[j - m]
    BY <2>4, <1>9 DEF QueueOK
  <2>5. CASE i - m \in Boots(t) /\ u[i] = t[i - m] /\ j \in Boots(s) /\ u[j] = s[j]
    BY <2>5, <1>9 DEF QueueOK
  <2> QED BY <1>6, <2>2, <2>3, <2>4, <2>5
<1>10. ASSUME NEW i \in Boots(u), u[i].k = 2
       PROVE  Preceded(u, i, w, a)
  <2>1. CASE i \in Boots(s) /\ u[i] = s[i]
    <3>1. Preceded(s, i, v, a) /\ 2 \in b
      BY <2>1, <1>10 DEF QueueOK
    <3>2. i \in 1 .. m /\ (i # 1 => i - 1 \in 1 .. m)
      BY <2>1, <1>3 DEF Boots, m
    <3>3. i # 1 => u[i - 1] = s[i - 1]
      BY <3>2, <1>2, <1>3
    <3> QED BY <3>1, <3>3 DEF Preceded
  <2>2. CASE i - m \in Boots(t) /\ i > m /\ u[i] = t[i - m]
    <3>1. i - m # 1 /\ t[(i - m) - 1].cmd = "save" /\ Holds(t[(i - m) - 1].snap, w)
      BY <2>2, <1>10
    <3>2. i \in Int /\ i - m \in 1 .. n
      BY <2>2, <1>2, <1>3 DEF Boots, n
    <3>3. i - 1 \in 1 .. (m + n) /\ ~(i - 1 <= m) /\ (i - 1) - m = (i - m) - 1 /\ i # 1
      BY <3>1, <3>2, <1>3
    <3>4. u[i - 1] = t[(i - m) - 1]
      BY <3>3, <1>2
    <3> QED BY <3>1, <3>3, <3>4 DEF Preceded
  <2> QED BY <1>6, <2>1, <2>2
<1>11. QueueOK(u, b \cup c, o, w, a)
  BY <1>4, <1>7, <1>8, <1>9, <1>10 DEF QueueOK
<1> QED BY <1>11 DEF u

\* The host takes the first command; a save becomes the active snapshot.
LEMMA QueueTail ==
  ASSUME NEW s, NEW b, NEW o, NEW w, NEW a, NEW d, s # <<>>,
         QueueOK(s, b, o, w, a),
         Head(s).cmd = "save" => d = Head(s).snap
  PROVE  /\ CommandOK(Head(s), o)
         /\ Head(s).cmd = "boot" => /\ Head(s).k \in b
                                    /\ Head(s).k = 2 => Holds(a, w)
                                    /\ QueueOK(Tail(s), b \ {Head(s).k}, o, w, d)
         /\ Head(s).cmd # "boot" => QueueOK(Tail(s), b, o, w, d)
<1> DEFINE T == Range(s)
           t == Tail(s)
<1>1. s \in Seq(T)
  BY DEF QueueOK
<1> HIDE DEF T
<1>2. /\ t \in Seq(T)
      /\ Len(t) = Len(s) - 1
      /\ \A i \in 1 .. Len(t) : t[i] = s[i + 1]
  BY <1>1, HeadTailProperties
<1>3. Len(s) \in Nat \ {0} /\ Head(s) = s[1]
  BY <1>1, EmptySeq
<1>4. t \in Seq(Range(t))
  BY <1>2, SeqOfRange
<1> HIDE DEF t
<1>5. \A i \in 1 .. Len(t) : i + 1 \in 1 .. Len(s) /\ t[i] = s[i + 1]
  BY <1>2, <1>3
<1>6. \A i \in Boots(t) : i + 1 \in Boots(s) /\ t[i] = s[i + 1]
  BY <1>5 DEF Boots
<1>7. CommandOK(Head(s), o) /\ \A i \in 1 .. Len(t) : CommandOK(t[i], o)
  BY <1>3, <1>5 DEF QueueOK
<1>8. ASSUME NEW i \in Boots(t), NEW j \in Boots(t), t[i].k = t[j].k
      PROVE  i = j
  <2>1. i + 1 = j + 1
    BY <1>6, <1>8 DEF QueueOK
  <2>2. i \in Int /\ j \in Int
    BY <1>2, <1>3 DEF Boots
  <2> QED BY <2>1, <2>2
<1>9. ASSUME NEW i \in Boots(t), t[i].k = 2
      PROVE  Preceded(t, i, w, d)
  <2>1. i \in 1 .. Len(t) /\ i + 1 # 1 /\ (i + 1) - 1 = i
    BY <1>2, <1>3 DEF Boots
  <2>2. Preceded(s, i + 1, w, a)
    BY <1>6, <1>9 DEF QueueOK
  <2>3. s[i].cmd = "save" /\ Holds(s[i].snap, w)
    BY <2>1, <2>2 DEF Preceded
  <2>4. i # 1 => i - 1 \in 1 .. Len(t) /\ t[i - 1] = s[i]
    <3>1. i # 1 => i - 1 \in 1 .. Len(t) /\ (i - 1) + 1 = i
      BY <2>1, <1>2, <1>3
    <3> QED BY <3>1, <1>5
  <2> QED BY <2>3, <2>4, <1>3 DEF Preceded
<1>10. ASSUME Head(s).cmd = "boot"
       PROVE  /\ Head(s).k \in b
              /\ Head(s).k = 2 => Holds(a, w)
              /\ \A i \in Boots(t) : t[i].k # Head(s).k
  <2>1. 1 \in Boots(s)
    BY <1>3, <1>10 DEF Boots
  <2>2. Head(s).k \in b /\ (Head(s).k = 2 => Preceded(s, 1, w, a))
    BY <2>1, <1>3 DEF QueueOK
  <2>3. \A i \in Boots(t) : t[i].k = Head(s).k => i + 1 = 1
    BY <2>1, <1>3, <1>6 DEF QueueOK
  <2>4. \A i \in Boots(t) : i + 1 # 1
    BY <1>2, <1>3 DEF Boots
  <2> QED BY <2>2, <2>3, <2>4 DEF Preceded
<1>11. \A i \in Boots(t) : t[i].k \in b
  BY <1>6 DEF QueueOK
<1>12. Head(s).cmd = "boot" => QueueOK(t, b \ {Head(s).k}, o, w, d)
  BY <1>4, <1>7, <1>8, <1>9, <1>10, <1>11 DEF QueueOK
<1>13. QueueOK(t, b, o, w, d)
  BY <1>4, <1>7, <1>8, <1>9, <1>11 DEF QueueOK
<1> QED BY <1>7, <1>10, <1>12, <1>13 DEF t

\* More calls change nothing for the commands there are.
LEMMA QueueKeeps ==
  ASSUME NEW s, NEW b, NEW o, NEW w, NEW a, NEW p,
         QueueOK(s, b, o, w, a), o \subseteq p
  PROVE  QueueOK(s, b, p, w, a)
BY DEF QueueOK, CommandOK

-----------------------------------------------------------------------------
(* Steps of the loops and of the scripts: the calls, the commands and the    *)
(* snapshots stay.                                                           *)

LEMMA QuietStep ==
  ASSUME IInv, UNCHANGED <<world, calls, commands, diskVars, bootVars>>,
         TypeOK', CallsRunInSlices',
         \A k \in Kernel : pc'[k] = "boot" <=> pc[k] = "boot",
         \A k \in Kernel : pc[k] = "none" => pc'[k] = "none"
  PROVE  IInv'
<1> USE DEF IInv, diskVars, bootVars
<1>1. InBoot' = InBoot /\ Others' = Others /\ Owed' = Owed /\ AnsweredWork' = AnsweredWork
  BY DEF InBoot, Others, Owed, AnsweredWork, Answered
<1>2. MoreTypes' /\ NewKernels' /\ FirstHasWork'
  BY <1>1, BoundsAssumption DEF MoreTypes, NewKernels, FirstHasWork, Kernel
<1>3. QueueOK(commands', InBoot', Others', Owed', active')
  BY <1>1
<1>4. RebootKeepsWork'
  <2>1. made >= 2 => 2 \in Kernel
    BY BoundsAssumption DEF TypeOK, Kernel
  <2> QED BY <2>1 DEF RebootKeepsWork
<1> QED BY <1>2, <1>3, <1>4

LEMMA LoopStep ==
  ASSUME IInv, NEW k \in Kernel, Loop(k)
  PROVE  IInv'
<1> USE DEF IInv, loopVars, hostVars, diskVars, bootVars
<1>1. CASE LoopTake(k)
  <2>1. TypeOK'
    BY <1>1 DEF LoopTake, TypeOK
  <2> QED BY <1>1, <2>1, QuietStep DEF LoopTake, CallsRunInSlices
<1>2. CASE LoopEnd(k)
  <2>1. TypeOK'
    BY <1>2 DEF LoopEnd, TypeOK
  <2>2. pc[k] = "step" /\ pc' = [pc EXCEPT ![k] = "off"]
    BY <1>2 DEF LoopEnd
  <2>3. CallsRunInSlices' /\ \A j \in Kernel : pc'[j] = IF j = k THEN "off" ELSE pc[j]
    BY <1>2, <2>2 DEF LoopEnd, TypeOK, CallsRunInSlices
  <2> QED BY <1>2, <2>1, <2>2, <2>3, QuietStep DEF LoopEnd
<1>3. ASSUME NEW p \in Pid, Launch(k, p) PROVE IInv'
  <2>1. TypeOK'
    BY <1>3 DEF Launch, TypeOK
  <2>2. pc[k] = "step" /\ \A j \in Kernel : pc'[j] = IF j = k THEN "slice" ELSE pc[j]
    BY <1>3 DEF Launch, TypeOK
  <2>3. CallsRunInSlices'
    BY <1>3, <2>2 DEF Launch, TypeOK, CallsRunInSlices
  <2> QED BY <1>3, <2>1, <2>2, <2>3, QuietStep DEF Launch
<1>4. ASSUME NEW p \in Pid, NEW e \in BOOLEAN, SliceEnds(k, p, e), isolates' \subseteq Pid
      PROVE  IInv'
  <2>1. TypeOK'
    <3>1. table' \in [Kernel -> Pcbs]
      <4> DEFINE old == table[k][p].exited
                 row == [table[k] EXCEPT ![p] = [started |-> TRUE, exited |-> old \/ e]]
      <4>1. table \in [Kernel -> Pcbs]
        BY DEF TypeOK
      <4>2. old \in BOOLEAN /\ (old \/ e) \in BOOLEAN
        BY <4>1, <1>4 DEF Pcbs
      <4>3. row \in Pcbs
        BY <4>1, <4>2 DEF Pcbs
      <4>4. table' = [table EXCEPT ![k] = row]
        BY <1>4 DEF SliceEnds
      <4> QED BY <4>1, <4>3, <4>4
    <3> QED BY <1>4, <3>1 DEF SliceEnds, Released, TypeOK
  <2>2. pc[k] = "slice" /\ \A j \in Kernel : pc'[j] = IF j = k THEN "step" ELSE pc[j]
    BY <1>4 DEF SliceEnds, TypeOK
  <2>3. CallsRunInSlices'
    <3> SUFFICES ASSUME NEW q \in Pid, dispatchers'[q] # 0
                 PROVE  /\ pc'[dispatchers'[q]] = "slice"
                        /\ current'[dispatchers'[q]] = {q}
      BY DEF CallsRunInSlices
    <3>1. q # p /\ dispatchers'[q] = dispatchers[q]
      BY <1>4 DEF SliceEnds, Released, TypeOK
    <3>2. /\ dispatchers[q] \in Kernel
          /\ pc[dispatchers[q]] = "slice" /\ current[dispatchers[q]] = {q}
      BY <3>1 DEF CallsRunInSlices, TypeOK
    <3>3. dispatchers[q] # k
      BY <1>4, <3>1, <3>2 DEF SliceEnds
    <3> QED BY <1>4, <3>1, <3>2, <3>3 DEF SliceEnds, TypeOK
  <2> QED BY <1>4, <2>1, <2>2, <2>3, QuietStep DEF SliceEnds
<1>5. isolates \subseteq Pid
  BY DEF TypeOK
<1>6. ASSUME NEW p \in Pid, SliceDone(k, p) \/ SliceFails(k, p) \/ SliceTimeout(k, p)
      PROVE  IInv'
  BY <1>4, <1>5, <1>6 DEF SliceDone, SliceFails, SliceTimeout
<1> QED BY <1>1, <1>2, <1>3, <1>6 DEF Loop

-----------------------------------------------------------------------------
(* Calls *)

LEMMA ScriptEndsStep ==
  ASSUME IInv, NEW k \in Kernel, NEW p \in Pid, ScriptEnds(k, p)
  PROVE  IInv'
<1> USE DEF IInv, ScriptEnds, loopVars, diskVars, bootVars
<1>1. TypeOK'
  BY DEF TypeOK
<1>2. CallsRunInSlices'
  BY DEF CallsRunInSlices
<1> QED BY <1>1, <1>2, QuietStep

LEMMA EmitStep ==
  ASSUME IInv, NEW k \in Kernel, NEW p \in Pid, NEW kind \in Manifest[p], Emit(k, p, kind)
  PROVE  IInv'
<1> USE DEF IInv, Emit, loopVars, diskVars, bootVars
<1> DEFINE x == CallOf(p, k, kind)
           n == Len(calls)
<1>1. calls \in Seq(CallType) /\ x \in CallType
  BY ManifestAssumption DEF MoreTypes, CallOf, CallType
<1>2. /\ calls' \in Seq(CallType) /\ Len(calls') = n + 1
      /\ \A i \in 1 .. n : calls'[i] = calls[i]
      /\ calls'[n + 1] = x
  BY <1>1, AppendProperties
<1>3. n \in Nat /\ DOMAIN calls = 1 .. n /\ DOMAIN calls' = 1 .. (n + 1)
  BY <1>1, <1>2, LenProperties
<1>4. Others \subseteq Others' /\ AnsweredWork' = AnsweredWork
  <2>1. calls'[n + 1].at = "emitted"
    BY <1>2 DEF CallOf
  <2>2. \A c \in DOMAIN calls' : c \in DOMAIN calls \/ c = n + 1
    BY <1>3
  <2>3. \A c \in DOMAIN calls : c \in DOMAIN calls' /\ calls'[c] = calls[c]
    BY <1>2, <1>3
  <2> HIDE DEF n
  <2> QED BY <2>1, <2>2, <2>3 DEF Others, AnsweredWork, Answered
<1>5. TypeOK'
  BY DEF TypeOK
<1>6. MoreTypes'
  BY <1>2, <1>3, BoundsAssumption DEF MoreTypes
<1>7. CallsRunInSlices' /\ NewKernels' /\ FirstHasWork' /\ RebootKeepsWork'
  BY <1>4 DEF CallsRunInSlices, NewKernels, FirstHasWork, RebootKeepsWork
<1>8. Owed' = Owed /\ InBoot' = InBoot
  BY DEF Owed, InBoot
<1>9. QueueOK(commands', InBoot', Others', Owed', active')
  BY <1>4, <1>8, QueueKeeps
<1> QED BY <1>5, <1>6, <1>7, <1>9

LEMMA SnapshotIsTyped ==
  ASSUME IInv, NEW k \in Kernel
  PROVE  Snapshot(k) \in SnapshotType
BY DEF IInv, TypeOK, Snapshot, Lasting, SnapshotType

LEMMA HandlerIsKernel ==
  ASSUME IInv, NEW c, NEW kind, Handles(c, kind)
  PROVE  /\ c \in DOMAIN calls /\ calls[c].kind = kind
         /\ Dispatcher(c) \in Kernel /\ pc[Dispatcher(c)] = "slice"
<1>1. c \in DOMAIN calls /\ calls[c].kind = kind /\ Dispatcher(c) # 0
  BY DEF Handles, Emitted
<1>2. calls \in Seq(CallType)
  BY DEF IInv, MoreTypes
<1>3. calls[c] \in CallType
  BY <1>1, <1>2, LenProperties, ElementOfSeq
<1>4. calls[c].pid \in Pid
  BY <1>3 DEF CallType
<1>5. Dispatcher(c) \in Kernel /\ pc[Dispatcher(c)] = "slice"
  BY <1>1, <1>4 DEF IInv, TypeOK, CallsRunInSlices, Dispatcher
<1> QED BY <1>1, <1>5

LEMMA CallChanges ==
  ASSUME IInv, NEW c \in DOMAIN calls,
         NEW x \in {"served", "answered", "dropped"},
         calls' = [calls EXCEPT ![c].at = x]
  PROVE  /\ calls' \in Seq(CallType)
         /\ Len(calls') = Len(calls)
         /\ Others' = Others
         /\ AnsweredWork' \subseteq AnsweredWork \cup {c}
         /\ calls[c].kind # "work" \/ x # "answered" => AnsweredWork' \subseteq AnsweredWork
<1>1. calls \in Seq(CallType)
  BY DEF IInv, MoreTypes
<1>2. /\ Len(calls) \in Nat /\ DOMAIN calls = 1 .. Len(calls)
      /\ calls \in [1 .. Len(calls) -> CallType]
  BY <1>1, LenProperties
<1>3. [calls[c] EXCEPT !.at = x] \in CallType
  BY <1>2 DEF CallType
<1>4. calls' = [calls EXCEPT ![c] = [calls[c] EXCEPT !.at = x]]
  OBVIOUS
<1>5. calls' \in Seq(CallType) /\ Len(calls') = Len(calls)
  BY <1>1, <1>2, <1>3, <1>4, ExceptSeq
<1>6. DOMAIN calls' = DOMAIN calls
  OBVIOUS
<1>7. \A i \in DOMAIN calls :
        IF i = c THEN calls'[i].at = x /\ calls'[i].kind = calls[i].kind
        ELSE calls'[i] = calls[i]
  BY <1>2, <1>3, <1>4 DEF CallType
<1>8. Others' = Others
  BY <1>6, <1>7 DEF Others
<1>9. \A i \in AnsweredWork' : i \in AnsweredWork \/ (i = c /\ x = "answered" /\ calls[c].kind = "work")
  BY <1>6, <1>7 DEF AnsweredWork, Answered
<1> QED BY <1>5, <1>8, <1>9

\* A step of a listener that changes the calls, the work and the commands.
LEMMA ListenerStep ==
  ASSUME IInv, NEW c \in DOMAIN calls,
         NEW x \in {"served", "answered", "dropped"},
         calls' = [calls EXCEPT ![c].at = x],
         UNCHANGED <<loopVars, isolates, diskVars, bootVars>>,
         world' \in [Kernel -> SUBSET (0 .. MaxCalls)],
         QueueOK(commands', InBoot, Others, Owed, active),
         FirstHasWork'
  PROVE  IInv'
<1> USE DEF IInv, loopVars, diskVars, bootVars
<1>1. Others' = Others /\ calls' \in Seq(CallType) /\ Len(calls') = Len(calls)
  BY CallChanges
<1>2. TypeOK'
  BY DEF TypeOK
<1>3. MoreTypes'
  BY <1>1 DEF MoreTypes
<1>4. InBoot' = InBoot /\ Owed' = Owed
  BY DEF InBoot, Owed
<1>5. CallsRunInSlices' /\ NewKernels' /\ RebootKeepsWork'
  BY DEF CallsRunInSlices, NewKernels, RebootKeepsWork
<1> QED BY <1>1, <1>2, <1>3, <1>4, <1>5

\* Calls of other kinds than work leave the answered work as it is.
LEMMA NoWorkStep ==
  ASSUME IInv, NEW c \in DOMAIN calls,
         NEW x \in {"served", "answered", "dropped"},
         calls' = [calls EXCEPT ![c].at = x],
         calls[c].kind # "work" \/ x # "answered",
         UNCHANGED <<loopVars, world, isolates, diskVars, bootVars>>,
         QueueOK(commands', InBoot, Others, Owed, active)
  PROVE  IInv'
<1>1. AnsweredWork' \subseteq AnsweredWork
  BY CallChanges
<1>2. FirstHasWork'
  BY <1>1 DEF IInv, FirstHasWork, loopVars, bootVars
<1>3. world' \in [Kernel -> SUBSET (0 .. MaxCalls)]
  BY DEF IInv, TypeOK
<1> QED BY <1>2, <1>3, ListenerStep

LEMMA DropStep == ASSUME IInv, NEW c \in DOMAIN calls, Drop(c) PROVE IInv'
<1> USE DEF Drop
<1>1. QueueOK(commands', InBoot, Others, Owed, active)
  BY DEF IInv
<1> QED BY <1>1, NoWorkStep

LEMMA WorkStep == ASSUME IInv, NEW c \in DOMAIN calls, Work(c) PROVE IInv'
<1> USE DEF Work
<1> DEFINE d == Dispatcher(c)
<1>1. d \in Kernel /\ pc[d] = "slice"
  BY HandlerIsKernel
<1>2. calls' = [calls EXCEPT ![c].at = "answered"]
  BY DEF Answer
<1>3. world \in [Kernel -> SUBSET (0 .. MaxCalls)]
  BY DEF IInv, TypeOK
<1>4. c \in 0 .. MaxCalls
  <2>1. calls \in Seq(CallType) /\ spent.calls \in Nat /\ spent.calls + Len(calls) <= MaxCalls
    BY DEF IInv, MoreTypes
  <2>2. Len(calls) \in Nat /\ c \in 1 .. Len(calls)
    BY <2>1, LenProperties
  <2> QED BY <2>1, <2>2, BoundsAssumption
<1>5. world' \in [Kernel -> SUBSET (0 .. MaxCalls)]
  BY <1>1, <1>3, <1>4
<1>6. AnsweredWork' \subseteq AnsweredWork \cup {c}
  BY <1>2, CallChanges
<1>7. FirstHasWork'
  <2> SUFFICES ASSUME made = 1
               PROVE  AnsweredWork' \subseteq world'[1] /\ pc[1] # "boot"
    BY DEF FirstHasWork, bootVars, loopVars
  <2>1. d = 1
    BY <1>1 DEF IInv, NewKernels, Kernel
  <2>2. world'[1] = world[1] \cup {c}
    BY <1>1, <1>3, <2>1
  <2> QED BY <1>1, <1>6, <2>1, <2>2 DEF IInv, FirstHasWork
<1>8. QueueOK(commands', InBoot, Others, Owed, active)
  BY DEF IInv
<1> QED BY <1>2, <1>5, <1>7, <1>8, ListenerStep

LEMMA SaveSnapshotStep == ASSUME IInv, NEW c \in DOMAIN calls, SaveSnapshot(c) PROVE IInv'
<1> USE DEF SaveSnapshot
<1> DEFINE x == Save(Snapshot(Dispatcher(c)))
<1>1. Dispatcher(c) \in Kernel /\ calls[c].kind = "save"
  BY HandlerIsKernel
<1>2. calls' = [calls EXCEPT ![c].at = "answered"]
  BY DEF Answer
<1>3. CommandOK(x, Others) /\ x.cmd # "boot"
  BY <1>1, SnapshotIsTyped DEF Save, CommandOK
<1> HIDE DEF x
<1>4. QueueOK(commands', InBoot, Others, Owed, active)
  BY <1>3, QueueAppend DEF IInv, x
<1> QED BY <1>1, <1>2, <1>4, NoWorkStep

LEMMA SaveNamedStep == ASSUME IInv, NEW c \in DOMAIN calls, SaveNamed(c) PROVE IInv'
<1> USE DEF SaveNamed
<1> DEFINE x == [cmd |-> "name", call |-> c, snap |-> Snapshot(Dispatcher(c))]
<1>1. Dispatcher(c) \in Kernel /\ calls[c].kind = "name"
  BY HandlerIsKernel
<1>2. calls' = [calls EXCEPT ![c].at = "served"]
  BY DEF Served
<1>3. CommandOK(x, Others) /\ x.cmd # "boot"
  BY <1>1, SnapshotIsTyped DEF CommandOK, Others
<1> HIDE DEF x
<1>4. QueueOK(commands', InBoot, Others, Owed, active)
  BY <1>3, QueueAppend DEF IInv, x
<1> QED BY <1>1, <1>2, <1>4, NoWorkStep

LEMMA ListenersAreFinite == IsFiniteSet(Listeners) /\ Cardinality(Listeners) \in Nat
<1>1. IsFiniteSet(Kernel) /\ Listeners \in SUBSET Kernel
  BY FS_Interval, BoundsAssumption DEF Kernel, Listeners
<1> QED BY <1>1, FS_Subset, FS_CardinalityType

LEMMA LoadNamedStep == ASSUME IInv, NEW c \in DOMAIN calls, LoadNamed(c) PROVE IInv'
<1> USE DEF LoadNamed
<1> DEFINE x == [cmd |-> "load", call |-> c, k |-> Dispatcher(c)]
           m == Cardinality(Listeners)
           t == [i \in 1 .. m |-> x]
<1>1. Dispatcher(c) \in Kernel /\ calls[c].kind = "load"
  BY HandlerIsKernel
<1>2. calls' = [calls EXCEPT ![c].at = "served"]
  BY DEF Served
<1>3. CommandOK(x, Others) /\ x.cmd # "boot"
  BY <1>1 DEF CommandOK, Others
<1> HIDE DEF x, m
<1>4. m \in Nat
  BY ListenersAreFinite DEF m
<1>5. t \in Seq({x}) /\ Len(t) = m /\ \A i \in 1 .. m : t[i] = x
  BY <1>4, IsASeq
<1>6. commands' = commands \o t
  BY DEF x, m
<1> HIDE DEF t
<1>7. AdditionOK(t, {}, Others, Owed)
  <2>1. Boots(t) = {} /\ \A i \in 1 .. Len(t) : CommandOK(t[i], Others)
    BY <1>3, <1>5 DEF Boots
  <2> QED BY <1>5, <2>1 DEF AdditionOK
<1>8. QueueOK(commands \o t, InBoot \cup {}, Others, Owed, active)
  BY <1>7, QueueConcat DEF IInv
<1>9. QueueOK(commands', InBoot, Others, Owed, active)
  BY <1>6, <1>8
<1> QED BY <1>1, <1>2, <1>9, NoWorkStep

-----------------------------------------------------------------------------
(* Kernels are made *)

\* What a reboot or a load does to the invariant but for the queue.
LEMMA MakeStep ==
  ASSUME IInv, NEW m \in Nat \ {0}, NEW from \in {"reboot", "load"}, Make(made, m, from),
         NEW d, running' = [running EXCEPT ![d] = FALSE],
         NEW c \in DOMAIN calls, NEW x \in {"served", "answered", "dropped"},
         calls' = [calls EXCEPT ![c].at = x],
         UNCHANGED <<table, batch, current, dispatchers, world, isolates, base, spent>>,
         active' = active, named' = named
  PROVE  /\ QueueOK(commands', InBoot', Others', Owed', active') => IInv'
         /\ InBoot' = InBoot \cup ((made + 1) .. (made + m))
         /\ InBoot \cap ((made + 1) .. (made + m)) = {}
         /\ Others' = Others
         /\ made # 1 => Owed' = Owed
         /\ made = 1 => Owed' = IF from = "reboot" THEN AnsweredWork ELSE {}
<1> DEFINE new == (made + 1) .. (made + m)
<1> USE DEF IInv
<1>1. /\ made \in Kernel /\ made \in Nat \ {0}
      /\ MaxKernels \in Nat
      /\ spent.kernels \in Nat
  BY BoundsAssumption DEF TypeOK, Kernel, MoreTypes
<1>2. spent.kernels + made + m <= MaxKernels /\ made' = made + m
  BY DEF Make
<1>3. made' \in Kernel /\ made' # 1 /\ made' \in Nat /\ new \subseteq Kernel
  BY <1>1, <1>2 DEF Kernel
<1>4. /\ \A k \in Kernel : pc'[k] = IF k \in new THEN "boot" ELSE pc[k]
      /\ \A k \in Kernel : origin'[k] = IF k \in new THEN from ELSE origin[k]
      /\ DOMAIN pc' = Kernel
  BY DEF Make
<1>5. \A k \in new : k > made /\ k <= made' /\ k \in Kernel /\ pc[k] = "none"
  BY <1>1, <1>2, <1>3 DEF NewKernels
<1>6. InBoot' = InBoot \cup new /\ InBoot \cap new = {}
  BY <1>3, <1>4, <1>5 DEF InBoot
<1>7. Others' = Others /\ calls' \in Seq(CallType) /\ Len(calls') = Len(calls)
  BY CallChanges
<1>8. TypeOK'
  <2>1. pc' \in [Kernel -> {"none", "boot", "step", "slice", "off"}]
    BY DEF Make, TypeOK
  <2> QED BY <1>3, <2>1 DEF TypeOK
<1>9. MoreTypes'
  BY <1>7 DEF MoreTypes
<1>10. CallsRunInSlices'
  BY <1>4, <1>5 DEF CallsRunInSlices, TypeOK
<1>11. NewKernels'
  <2> SUFFICES ASSUME NEW k \in Kernel, k > made' PROVE pc'[k] = "none"
    BY DEF NewKernels
  <2>1. k \in Nat /\ k > made /\ k \notin new
    BY <1>1, <1>2 DEF Kernel
  <2> QED BY <2>1, <1>4 DEF NewKernels
<1>12. FirstHasWork'
  BY <1>3 DEF FirstHasWork
<1>13. 2 \in Kernel /\ (made = 1 => 2 \in new) /\ (made # 1 => 2 \notin new /\ made >= 2)
  BY <1>1, <1>2, <1>3 DEF Kernel
<1>14. made # 1 => Owed' = Owed
  BY <1>3, <1>4, <1>13 DEF Owed, Make
<1>15. made = 1 => Owed' = IF from = "reboot" THEN AnsweredWork ELSE {}
  BY <1>3, <1>4, <1>13 DEF Owed, Make
<1>16. RebootKeepsWork'
  <2> SUFFICES ASSUME made' >= 2, origin'[2] = "reboot", pc'[2] # "boot"
               PROVE  ackedAtStop' \subseteq base'[2]
    BY DEF RebootKeepsWork
  <2>1. made # 1 /\ made >= 2
    BY <1>4, <1>13
  <2>2. origin[2] = "reboot" /\ pc[2] # "boot" /\ ackedAtStop' = ackedAtStop
    BY <1>4, <1>13, <2>1 DEF Make
  <2> QED BY <2>1, <2>2 DEF RebootKeepsWork
<1> QED BY <1>6, <1>7, <1>8, <1>9, <1>10, <1>11, <1>12, <1>14, <1>15, <1>16

\* A save and the boots of the kernels n + 1 .. n + m behind it.
SaveThenBoots(snap, n, m) == <<Save(snap)>> \o [i \in 1 .. m |-> BootOf(n + i)]

LEMMA SaveThenBootsIsOK ==
  ASSUME NEW snap \in SnapshotType, NEW n \in Nat \ {0}, NEW m \in Nat,
         NEW o, NEW w, n = 1 => w \subseteq snap.world,
         NEW t, t = SaveThenBoots(snap, n, m)
  PROVE  AdditionOK(t, (n + 1) .. (n + m), o, w)
<1> DEFINE S == {Save(snap)} \cup {BootOf(n + i) : i \in 1 .. m}
           boots == [i \in 1 .. m |-> BootOf(n + i)]
<1>1. boots \in Seq(S) /\ Len(boots) = m /\ \A i \in 1 .. m : boots[i] = BootOf(n + i)
  <2>1. \A i \in 1 .. m : BootOf(n + i) \in S
    OBVIOUS
  <2> HIDE DEF S
  <2> QED BY <2>1, IsASeq
<1>2. <<Save(snap)>> \in Seq(S) /\ Len(<<Save(snap)>>) = 1 /\ <<Save(snap)>>[1] = Save(snap)
  OBVIOUS
<1>3. t = <<Save(snap)>> \o boots
  BY DEF SaveThenBoots
<1> HIDE DEF S, boots
<1>4. /\ t \in Seq(S) /\ Len(t) = 1 + m
      /\ \A i \in 1 .. (1 + m) : t[i] = IF i <= 1 THEN Save(snap) ELSE boots[i - 1]
  BY <1>1, <1>2, <1>3, ConcatProperties
<1>5. t[1] = Save(snap)
  BY <1>4
<1>6. t[1].cmd = "save" /\ t[1].snap = snap
  BY <1>5 DEF Save
<1>7. ASSUME NEW i \in 2 .. (1 + m)
      PROVE  /\ i \in Int /\ t[i].cmd = "boot" /\ t[i].k = n + (i - 1)
             /\ t[i].k \in (n + 1) .. (n + m)
  <2>1. i - 1 \in 1 .. m /\ t[i] = boots[i - 1]
    BY <1>4
  <2>2. t[i] = BootOf(n + (i - 1))
    BY <1>1, <2>1
  <2>3. t[i].cmd = "boot" /\ t[i].k = n + (i - 1)
    BY <2>2 DEF BootOf
  <2> QED BY <2>1, <2>3
<1>8. \A i \in 1 .. Len(t) : i = 1 \/ i \in 2 .. (1 + m)
  BY <1>4
<1>9. \A i \in 1 .. Len(t) : CommandOK(t[i], o)
  <2>1. CommandOK(t[1], o)
    BY <1>6 DEF CommandOK
  <2>2. \A i \in 2 .. (1 + m) : CommandOK(t[i], o)
    BY <1>7 DEF CommandOK
  <2> QED BY <1>8, <2>1, <2>2
<1>10. \A i \in Boots(t) : i \in 2 .. (1 + m)
  BY <1>6, <1>8 DEF Boots
<1>11. \A i \in Boots(t) : t[i].k \in (n + 1) .. (n + m)
  BY <1>7, <1>10
<1>12. \A i, j \in Boots(t) : t[i].k = t[j].k => i = j
  <2> SUFFICES ASSUME NEW i \in Boots(t), NEW j \in Boots(t), t[i].k = t[j].k
               PROVE  i = j
    OBVIOUS
  <2>1. i \in Int /\ j \in Int /\ n + (i - 1) = n + (j - 1)
    BY <1>7, <1>10
  <2> QED BY <2>1
<1>13. ASSUME NEW i \in Boots(t), t[i].k = 2
       PROVE  i # 1 /\ t[i - 1].cmd = "save" /\ Holds(t[i - 1].snap, w)
  <2>1. i \in 2 .. (1 + m) /\ n + (i - 1) = 2
    BY <1>7, <1>10, <1>13
  <2>2. i = 2 /\ n = 1 /\ i - 1 = 1
    BY <2>1
  <2> QED BY <2>2, <1>6 DEF Holds
<1> QED BY <1>4, <1>9, <1>11, <1>12, <1>13 DEF AdditionOK

LEMMA RebootStep == ASSUME IInv, NEW c \in DOMAIN calls, Reboot(c) PROVE IInv'
<1> DEFINE d == Dispatcher(c)
           m == Cardinality(Listeners)
           t == SaveThenBoots(Snapshot(d), made, m)
<1>1. /\ Handles(c, "reboot") /\ Make(made, m, "reboot")
      /\ running' = [running EXCEPT ![d] = FALSE]
      /\ commands' = commands \o t
      /\ Answer(c) \/ Served(c)
      /\ UNCHANGED <<table, batch, current, dispatchers, world, isolates, base, spent>>
      /\ active' = active /\ named' = named
  BY DEF Reboot, RebootCommands, SaveThenBoots, diskVars
<1>2. d \in Kernel /\ pc[d] = "slice"
  BY <1>1, HandlerIsKernel
<1>3. m \in Nat \ {0}
  <2>1. d \in Listeners
    BY <1>2 DEF Listeners
  <2> QED BY <2>1, ListenersAreFinite, FS_EmptySet
<1>4. PICK x \in {"served", "answered", "dropped"} : calls' = [calls EXCEPT ![c].at = x]
  BY <1>1 DEF Answer, Served
<1> HIDE DEF m
<1>5. made \in Nat \ {0} /\ made \in Kernel
  BY DEF IInv, TypeOK, Kernel
<1> HIDE DEF d
<1>6. /\ QueueOK(commands', InBoot', Others', Owed', active') => IInv'
      /\ InBoot' = InBoot \cup ((made + 1) .. (made + m))
      /\ InBoot \cap ((made + 1) .. (made + m)) = {}
      /\ Others' = Others
      /\ made # 1 => Owed' = Owed
      /\ made = 1 => Owed' = AnsweredWork
  BY <1>1, <1>3, <1>4, MakeStep
<1>7. made = 1 => Owed' \subseteq Snapshot(d).world
  <2> SUFFICES ASSUME made = 1 PROVE AnsweredWork \subseteq world[d]
    BY <1>6 DEF Snapshot, Lasting, AnsweredWork
  <2>1. d = 1
    BY <1>2 DEF IInv, NewKernels, Kernel
  <2> QED BY <2>1 DEF IInv, FirstHasWork
<1>8. Snapshot(d) \in SnapshotType
  BY <1>2, SnapshotIsTyped
<1> HIDE DEF t
<1>9. AdditionOK(t, (made + 1) .. (made + m), Others, Owed')
  BY <1>3, <1>5, <1>7, <1>8, SaveThenBootsIsOK DEF t
<1>10. 2 \in InBoot => Owed = Owed'
  <2>1. 2 \in InBoot => made # 1
    BY DEF IInv, InBoot, NewKernels
  <2> QED BY <2>1, <1>6
<1>11. QueueOK(commands \o t, InBoot \cup ((made + 1) .. (made + m)), Others, Owed', active)
  <2>1. QueueOK(commands, InBoot, Others, Owed, active)
    BY DEF IInv
  <2> QED BY <2>1, <1>6, <1>9, <1>10, QueueConcat
<1> QED BY <1>1, <1>6, <1>11

-----------------------------------------------------------------------------
(* The host handles a command *)

\* The head of the queue, and what is left when it is taken.
LEMMA HeadStep ==
  ASSUME IInv, NEW cmd, Command(cmd),
         cmd = "save" => active' = Head(commands).snap,
         cmd # "save" => active' = active
  PROVE  /\ CommandOK(Head(commands), Others)
         /\ cmd = "boot" => /\ Head(commands).k \in InBoot
                            /\ Head(commands).k = 2 => Holds(active, Owed)
                            /\ QueueOK(Tail(commands), InBoot \ {Head(commands).k},
                                       Others, Owed, active')
         /\ cmd # "boot" => QueueOK(Tail(commands), InBoot, Others, Owed, active')
BY QueueTail DEF IInv, Command

LEMMA HostSaveStep == ASSUME IInv, HostSave PROVE IInv'
<1> USE DEF IInv, HostSave, loopVars, hostVars, bootVars
<1>1. /\ CommandOK(Head(commands), Others)
      /\ QueueOK(Tail(commands), InBoot, Others, Owed, active')
  BY HeadStep
<1>2. Head(commands).snap \in SnapshotType
  BY <1>1 DEF CommandOK, Command
<1>3. TypeOK'
  BY <1>2 DEF TypeOK
<1>4. Others' = Others /\ InBoot' = InBoot /\ Owed' = Owed /\ AnsweredWork' = AnsweredWork
  BY DEF Others, InBoot, Owed, AnsweredWork, Answered
<1>5. MoreTypes' /\ CallsRunInSlices' /\ NewKernels' /\ FirstHasWork' /\ RebootKeepsWork'
  BY <1>4 DEF MoreTypes, CallsRunInSlices, NewKernels, FirstHasWork, RebootKeepsWork
<1> QED BY <1>1, <1>3, <1>4, <1>5

LEMMA OthersAreCalls ==
  ASSUME NEW c \in Others
  PROVE  c \in DOMAIN calls /\ calls[c].kind # "work"
BY DEF Others

LEMMA HostSaveNamedStep == ASSUME IInv, HostSaveNamed PROVE IInv'
<1> USE DEF IInv, HostSaveNamed, loopVars, bootVars
<1> DEFINE c == Head(commands).call
<1>1. /\ CommandOK(Head(commands), Others)
      /\ QueueOK(Tail(commands), InBoot, Others, Owed, active')
  BY HeadStep
<1>2. Head(commands).snap \in SnapshotType /\ c \in Others
  BY <1>1 DEF CommandOK, Command
<1> HIDE DEF c
<1>3. c \in DOMAIN calls /\ calls[c].kind # "work"
  BY <1>2, OthersAreCalls
<1>4. calls' = [calls EXCEPT ![c].at = "answered"]
  BY DEF Answer, c
<1>5. /\ Others' = Others /\ AnsweredWork' \subseteq AnsweredWork
      /\ calls' \in Seq(CallType) /\ Len(calls') = Len(calls)
  BY <1>3, <1>4, CallChanges
<1>6. TypeOK'
  BY <1>2 DEF TypeOK
<1>7. InBoot' = InBoot /\ Owed' = Owed
  BY DEF InBoot, Owed
<1>8. MoreTypes' /\ CallsRunInSlices' /\ NewKernels' /\ RebootKeepsWork'
  BY <1>5 DEF MoreTypes, CallsRunInSlices, NewKernels, RebootKeepsWork
<1>9. FirstHasWork'
  BY <1>5 DEF FirstHasWork
<1> QED BY <1>1, <1>5, <1>6, <1>7, <1>8, <1>9

LEMMA HostLoadNothingStep == ASSUME IInv, HostLoadNothing PROVE IInv'
<1> USE DEF HostLoadNothing
<1> DEFINE c == Head(commands).call
<1>1. /\ CommandOK(Head(commands), Others)
      /\ QueueOK(Tail(commands), InBoot, Others, Owed, active)
  BY HeadStep DEF diskVars
<1>2. c \in Others
  BY <1>1 DEF CommandOK, Command
<1> HIDE DEF c
<1>3. c \in DOMAIN calls /\ calls[c].kind # "work"
  BY <1>2, OthersAreCalls
<1>4. calls' = [calls EXCEPT ![c].at = "answered"]
  BY DEF Answer, c
<1> QED BY <1>1, <1>3, <1>4, NoWorkStep

LEMMA HostLoadStep == ASSUME IInv, HostLoad PROVE IInv'
<1> DEFINE c == Head(commands).call
           d == Head(commands).k
           t == <<Save(named), BootOf(made + 1)>>
<1>1. /\ Command("load") /\ named # NoSnapshot /\ Make(made, 1, "load")
      /\ running' = [running EXCEPT ![d] = FALSE]
      /\ commands' = Tail(commands) \o t
      /\ calls' = [calls EXCEPT ![c].at = "answered"]
      /\ UNCHANGED <<table, batch, current, dispatchers, world, isolates, base, spent>>
      /\ active' = active /\ named' = named
  BY DEF HostLoad, Answer, diskVars
<1>2. /\ CommandOK(Head(commands), Others)
      /\ QueueOK(Tail(commands), InBoot, Others, Owed, active)
  BY <1>1, HeadStep
<1>3. c \in Others
  BY <1>1, <1>2 DEF CommandOK, Command
<1> HIDE DEF c, d
<1>4. c \in DOMAIN calls
  BY <1>3, OthersAreCalls
<1>5. /\ QueueOK(commands', InBoot', Others', Owed', active') => IInv'
      /\ InBoot' = InBoot \cup ((made + 1) .. (made + 1))
      /\ InBoot \cap ((made + 1) .. (made + 1)) = {}
      /\ Others' = Others
      /\ made # 1 => Owed' = Owed
      /\ made = 1 => Owed' = {}
  <2>1. 1 \in Nat \ {0} /\ "load" \in {"reboot", "load"} /\ "load" # "reboot"
        /\ "answered" \in {"served", "answered", "dropped"}
    OBVIOUS
  <2>2. /\ QueueOK(commands', InBoot', Others', Owed', active') => IInv'
        /\ InBoot' = InBoot \cup ((made + 1) .. (made + 1))
        /\ InBoot \cap ((made + 1) .. (made + 1)) = {}
        /\ Others' = Others
        /\ made # 1 => Owed' = Owed
        /\ made = 1 => Owed' = IF "load" = "reboot" THEN AnsweredWork ELSE {}
    BY <1>1, <1>4, <2>1, MakeStep
  <2> QED BY <2>1, <2>2
<1>6. made \in Nat \ {0} /\ named \in SnapshotType
  BY <1>1 DEF IInv, TypeOK, Kernel
<1>7. t = SaveThenBoots(named, made, 1)
  <2>1. [i \in 1 .. 1 |-> BootOf(made + i)] = <<BootOf(made + 1)>>
    OBVIOUS
  <2> QED BY <2>1 DEF SaveThenBoots
<1> HIDE DEF t
<1>8. made = 1 => Owed' \subseteq named.world
  BY <1>5
<1>9. AdditionOK(t, (made + 1) .. (made + 1), Others, Owed')
  BY <1>6, <1>7, <1>8, SaveThenBootsIsOK
<1>10. 2 \in InBoot => Owed = Owed'
  <2>1. 2 \in InBoot => made # 1
    BY DEF IInv, InBoot, NewKernels
  <2> QED BY <2>1, <1>5
<1>11. QueueOK(Tail(commands) \o t, InBoot \cup ((made + 1) .. (made + 1)), Others, Owed', active)
  BY <1>2, <1>5, <1>9, <1>10, QueueConcat
<1> QED BY <1>1, <1>5, <1>11

LEMMA FreshTableIsTyped == FreshTable \in Pcbs
BY DEF FreshTable, Pcbs

LEMMA BootStep == ASSUME IInv, Boot PROVE IInv'
<1> DEFINE k == Head(commands).k
           s == IF active = NoSnapshot THEN [world |-> {}, table |-> FreshTable] ELSE active
<1>1. /\ Command("boot")
      /\ table' = [table EXCEPT ![k] = s.table]
      /\ world' = [world EXCEPT ![k] = s.world]
      /\ base' = [base EXCEPT ![k] = s.world]
      /\ pc' = [pc EXCEPT ![k] = "step"]
      /\ running' = [running EXCEPT ![k] = TRUE]
      /\ commands' = Tail(commands)
      /\ UNCHANGED <<batch, current, dispatchers, calls, thread, isolates, active, named,
                     made, origin, ackedAtStop, spent>>
  BY DEF Boot, hostVars, diskVars
<1>2. /\ k \in InBoot
      /\ k = 2 => Holds(active, Owed)
      /\ QueueOK(commands', InBoot \ {k}, Others, Owed, active')
  BY <1>1, HeadStep
<1>3. k \in Kernel /\ pc[k] = "boot"
  BY <1>2 DEF InBoot
<1>4. s.table \in Pcbs /\ s.world \in SUBSET (0 .. MaxCalls)
  <2>1. CASE active = NoSnapshot
    BY <2>1, FreshTableIsTyped
  <2>2. CASE active # NoSnapshot
    <3>1. active \in SnapshotType
      BY <2>2 DEF IInv, TypeOK
    <3> QED BY <2>2, <3>1 DEF SnapshotType
  <2> QED BY <2>1, <2>2
<1>5. k = 2 => Owed \subseteq s.world
  BY <1>2, NoSnapshotAssumption DEF Holds
<1> HIDE DEF k, s
<1>6. /\ \A j \in Kernel : pc'[j] = IF j = k THEN "step" ELSE pc[j]
      /\ \A j \in Kernel : base'[j] = IF j = k THEN s.world ELSE base[j]
      /\ \A j \in Kernel : world'[j] = IF j = k THEN s.world ELSE world[j]
  BY <1>1 DEF IInv, TypeOK, MoreTypes
<1>7. TypeOK'
  BY <1>1, <1>3, <1>4 DEF IInv, TypeOK
<1>8. MoreTypes'
  BY <1>1, <1>3, <1>4 DEF IInv, MoreTypes
<1>9. CallsRunInSlices'
  BY <1>1, <1>3, <1>6 DEF IInv, TypeOK, CallsRunInSlices
<1>10. NewKernels'
  BY <1>1, <1>3, <1>6 DEF IInv, NewKernels
<1>11. Others' = Others /\ Owed' = Owed /\ AnsweredWork' = AnsweredWork
  BY <1>1 DEF Others, Owed, AnsweredWork, Answered
<1>12. InBoot' = InBoot \ {k}
  BY <1>6 DEF InBoot
<1>13. FirstHasWork'
  <2> SUFFICES ASSUME made = 1
               PROVE  /\ AnsweredWork \subseteq world'[1]
                      /\ pc'[1] = "boot" => AnsweredWork = {}
    BY <1>1, <1>11 DEF FirstHasWork
  <2>1. 1 \in Kernel
    BY BoundsAssumption DEF Kernel
  <2> QED BY <1>3, <1>6, <2>1 DEF IInv, FirstHasWork
<1>14. RebootKeepsWork'
  <2> SUFFICES ASSUME made >= 2, origin[2] = "reboot", pc'[2] # "boot"
               PROVE  ackedAtStop \subseteq base'[2]
    BY <1>1 DEF RebootKeepsWork
  <2>1. made \in Kernel /\ 2 \in Kernel /\ made # 1
    BY BoundsAssumption DEF IInv, TypeOK, Kernel
  <2>2. Owed = ackedAtStop
    BY <2>1 DEF Owed
  <2> QED BY <1>5, <1>6, <2>1, <2>2 DEF IInv, RebootKeepsWork
<1>15. QueueOK(commands', InBoot', Others', Owed', active')
  BY <1>2, <1>11, <1>12
<1> QED BY <1>7, <1>8, <1>9, <1>10, <1>13, <1>14, <1>15 DEF IInv

LEMMA HostStep == ASSUME IInv, Host PROVE IInv'
BY HostSaveStep, HostSaveNamedStep, HostLoadNothingStep, HostLoadStep, BootStep DEF Host

LEMMA BusStep == ASSUME IInv, Bus PROVE IInv'
BY DropStep, WorkStep, SaveSnapshotStep, SaveNamedStep, LoadNamedStep, RebootStep DEF Bus

-----------------------------------------------------------------------------
(* A new life of the host *)

\* The queue with the boot of the first kernel.
LEMMA FirstBoot ==
  ASSUME NEW o, NEW a
  PROVE  QueueOK(<<BootOf(1)>>, {1}, o, {}, a)
<1> DEFINE s == <<BootOf(1)>>
<1>1. s \in Seq({BootOf(1)}) /\ Len(s) = 1 /\ s[1] = BootOf(1)
  OBVIOUS
<1>2. s \in Seq(Range(s))
  BY <1>1, SeqOfRange
<1> HIDE DEF s
<1>3. Boots(s) \subseteq {1} /\ s[1].k = 1 /\ s[1].cmd = "boot"
  BY <1>1 DEF Boots, BootOf
<1>4. QueueOK(s, {1}, o, {}, a)
  BY <1>1, <1>2, <1>3 DEF QueueOK, CommandOK
<1> QED BY <1>4 DEF s

LEMMA IInvInit == Init => IInv
<1> SUFFICES ASSUME Init PROVE IInv
  OBVIOUS
<1> USE DEF Init
<1>1. 1 \in Kernel /\ 0 \in 0 .. MaxCalls /\ MaxCalls \in Nat
  BY BoundsAssumption DEF Kernel
<1>2. TypeOK
  BY <1>1, FreshTableIsTyped DEF TypeOK
<1>3. MoreTypes
  <2>1. calls \in Seq(CallType) /\ Len(calls) = 0
    BY EmptySeq
  <2> QED BY <1>1, <2>1 DEF MoreTypes
<1>4. CallsRunInSlices /\ NewKernels
  BY DEF CallsRunInSlices, NewKernels, Kernel
<1>5. AnsweredWork = {} /\ Owed = {} /\ InBoot = {1}
  BY <1>1 DEF AnsweredWork, Owed, InBoot
<1>6. FirstHasWork /\ RebootKeepsWork
  BY <1>5 DEF FirstHasWork, RebootKeepsWork
<1>7. QueueOK(commands, InBoot, Others, Owed, active)
  BY <1>5, FirstBoot DEF BootOf
<1> QED BY <1>2, <1>3, <1>4, <1>6, <1>7 DEF IInv

LEMMA AgedIsTyped ==
  ASSUME NEW s \in SnapshotType \cup {NoSnapshot}
  PROVE  Aged(s) \in SnapshotType \cup {NoSnapshot}
BY BoundsAssumption DEF Aged, SnapshotType

LEMMA CloseAppStep == ASSUME IInv, CloseApp PROVE IInv'
<1> USE DEF CloseApp, Anew
<1>1. 1 \in Kernel /\ 0 \in 0 .. MaxCalls /\ MaxCalls \in Nat
  BY BoundsAssumption DEF Kernel
<1>2. active' \in SnapshotType \cup {NoSnapshot}
  <2>1. active \in SnapshotType \cup {NoSnapshot}
    BY DEF IInv, TypeOK
  <2>2. \A k \in Kernel : Snapshot(k) \in SnapshotType \cup {NoSnapshot}
    BY SnapshotIsTyped
  <2> QED BY <2>1, <2>2, AgedIsTyped
<1>3. named' \in SnapshotType \cup {NoSnapshot}
  <2>1. named \in SnapshotType \cup {NoSnapshot}
    BY DEF IInv, TypeOK
  <2> QED BY <2>1, AgedIsTyped
<1>4. TypeOK'
  BY <1>1, <1>2, <1>3, FreshTableIsTyped DEF TypeOK
<1>5. MoreTypes'
  <2>1. calls' \in Seq(CallType) /\ Len(calls') = 0
    BY EmptySeq
  <2>2. /\ spent \in [kernels : Nat, calls : Nat] /\ made \in Nat
        /\ Len(calls) \in Nat /\ spent.calls + Len(calls) <= MaxCalls
    BY LenProperties DEF IInv, TypeOK, MoreTypes, Kernel
  <2>3. /\ spent' = [kernels |-> spent.kernels + made, calls |-> spent.calls + Len(calls)]
        /\ base' = [k \in Kernel |-> {}]
    OBVIOUS
  <2>4. /\ spent' \in [kernels : Nat, calls : Nat]
        /\ spent'.calls + Len(calls') <= MaxCalls
    BY <2>1, <2>2, <2>3
  <2> QED BY <2>1, <2>3, <2>4 DEF MoreTypes
<1>6. CallsRunInSlices' /\ NewKernels'
  BY DEF CallsRunInSlices, NewKernels, Kernel
<1>7. AnsweredWork' = {} /\ Owed' = {} /\ InBoot' = {1}
  BY <1>1 DEF AnsweredWork, Owed, InBoot
<1>8. FirstHasWork' /\ RebootKeepsWork'
  BY <1>7 DEF FirstHasWork, RebootKeepsWork
<1>9. QueueOK(commands', InBoot', Others', Owed', active')
  BY <1>7, FirstBoot
<1> QED BY <1>4, <1>5, <1>6, <1>8, <1>9 DEF IInv

-----------------------------------------------------------------------------
LEMMA IInvNext == IInv /\ [Next]_vars => IInv'
<1> SUFFICES ASSUME IInv, [Next]_vars PROVE IInv'
  OBVIOUS
<1>1. CASE Next
  BY <1>1, LoopStep, ScriptEndsStep, EmitStep, BusStep, HostStep, CloseAppStep
  DEF Next, Script
<1>2. CASE UNCHANGED vars
  <2> USE <1>2 DEF vars, IInv, loopVars, hostVars, diskVars, bootVars
  <2>1. TypeOK' /\ CallsRunInSlices'
    BY DEF TypeOK, CallsRunInSlices
  <2> QED BY <2>1, QuietStep
<1> QED BY <1>1, <1>2

LEMMA AlwaysIInv == Spec => []IInv
BY IInvInit, IInvNext, PTL DEF Spec

\* The state and the snapshots that the host stores have their types: what is
\* stored can be restored (Map written and read back, index.ts restore).
THEOREM SnapshotsAreTyped == Spec => []TypeOK
<1>1. IInv => TypeOK
  BY DEF IInv
<1> QED BY <1>1, AlwaysIInv, PTL

\* A call is handled only while the loop of the kernel that handles it awaits
\* a slice of its process (dispatcherMap in process.ts and index.ts).
THEOREM CallsAreOfSlices == Spec => []CallsRunInSlices
<1>1. IInv => CallsRunInSlices
  BY DEF IInv
<1> QED BY <1>1, AlwaysIInv, PTL

\* The kernel that a first reboot makes boots with all the work that snapshots
\* hold and that was answered before (stop, reboot, Kernel.create in index.ts).
THEOREM RebootsKeepWork == Spec => []RebootKeepsWork
<1>1. IInv => RebootKeepsWork
  BY DEF IInv
<1> QED BY <1>1, AlwaysIInv, PTL
=============================================================================
