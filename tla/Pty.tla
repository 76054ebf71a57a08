--------------------------------- MODULE Pty ---------------------------------
(***************************************************************************)
(* Pseudo-terminals: PtyManager (core/kernel/tty.ts) and the ways to reach *)
(* one, openPty in core/kernel/syscalls.ts for programs, allocatePty and   *)
(* openPty in core/kernel/index.ts for the terminal window and sshd, the   *)
(* option pty of spawn.  A terminal has two sides; what is written on one  *)
(* side goes to the buffer of the other and wakes everyone who waits       *)
(* there.                                                                  *)
(*                                                                         *)
(* A user is a program with one descriptor, or a window, with one handle.  *)
(* It waits and reads, or reads without waiting.  After k reboots of a     *)
(* page k + 1 listeners handle each syscall of a program, one after the    *)
(* other, and the program gets the first answer.  The files under /dev are *)
(* left out: openPty makes them and nothing reads them; so is what old     *)
(* kernels do with their own terminals.                                    *)
(***************************************************************************)
EXTENDS Naturals, Sequences, FiniteSets, SequencesExt

CONSTANTS
  User,
  Program,    \* the users that are processes: a reboot keeps their descriptors
  Loyal,      \* the users that neither close nor are killed
  Length,     \* the length that read is called with
  MaxPtys, MaxWritten, MaxReboots    \* bounds

VARIABLES
  ptys,       \* the terminals by number
  nextId,
  handles,    \* the side of a terminal that a user has open, or Closed
  at,         \* what a user is doing: "idle", "waiting", "woken" from a wait, or
              \* "lost" in a wait that a reboot has cut off
  killed,
  written,    \* (history) what was written into each buffer
  taken,      \* (history) what the handlers of read took from it
  reboots

vars == <<ptys, nextId, handles, at, killed, written, taken, reboots>>

Side == {"master", "slave"}
Other(side) == IF side = "master" THEN "slave" ELSE "master"
Id == 0..(MaxPtys - 1)
End == [id : Id, side : Side]
Closed == [id |-> MaxPtys, side |-> "none"]

\* A terminal: the buffer that each side reads, and who waits on that side.
NewPty == [buffer |-> [s \in Side |-> <<>>], waiters |-> [s \in Side |-> {}]]

Init ==
  /\ ptys = <<>>
  /\ nextId = 0
  /\ handles = [u \in User |-> Closed]
  /\ at = [u \in User |-> "idle"]
  /\ killed = {}
  /\ written = [e \in End |-> <<>>]
  /\ taken = [e \in End |-> <<>>]
  /\ reboots = 0

Exists(id) == id \in DOMAIN ptys
Changed(id, buffer, waiters) == [ptys EXCEPT ![id] = [buffer |-> buffer, waiters |-> waiters]]
Buffer(e) == IF Exists(e.id) THEN ptys[e.id].buffer[e.side] ELSE <<>>
History == <<written, taken, reboots>>

-----------------------------------------------------------------------------
\* The handlers of a call of u.
Handlers(u) == IF u \in Program THEN reboots + 1 ELSE 1

Allocated(count) ==
  /\ nextId + count <= MaxPtys
  /\ ptys' = [id \in DOMAIN ptys \cup nextId .. nextId + count - 1 |->
                IF id \in DOMAIN ptys THEN ptys[id] ELSE NewPty]
  /\ nextId' = nextId + count

CanOpen(u) == u \notin killed /\ handles[u] = Closed

\* allocatePty, and spawn with the option pty: nobody has it open yet.
Allocate ==
  /\ \E count \in {1, reboots + 1} : Allocated(count)
  /\ UNCHANGED <<handles, at, killed>> /\ UNCHANGED History

\* /dev/ptmx.  The program knows the first of the terminals.
OpenMaster(u) ==
  /\ CanOpen(u)
  /\ Allocated(Handlers(u))
  /\ handles' = [handles EXCEPT ![u] = [id |-> nextId, side |-> "master"]]
  /\ UNCHANGED <<at, killed>> /\ UNCHANGED History

\* /dev/tty<n> and /dev/pty<n>, and openPty for a window.  When there is no
\* terminal n a handler allocates one, with whatever number comes next.
OpenSide(u, e) ==
  /\ CanOpen(u)
  /\ IF Exists(e.id) THEN UNCHANGED <<ptys, nextId>>
     ELSE Allocated(Min({Handlers(u), e.id - nextId + 1}))
  /\ handles' = [handles EXCEPT ![u] = e]
  /\ UNCHANGED <<at, killed>> /\ UNCHANGED History

Close(u) ==
  /\ u \notin killed \cup Loyal /\ handles[u] # Closed /\ at[u] = "idle"
  /\ handles' = [handles EXCEPT ![u] = Closed]
  /\ UNCHANGED <<ptys, nextId, at, killed>> /\ UNCHANGED History

-----------------------------------------------------------------------------
Sent(e) == Len(written[e])
TotalSent == FoldFunction(LAMBDA w, n : Len(w) + n, 0, written)

\* (mutation) a write wakes one waiter only, a killed one when there is one.
Woken_First(id, side) ==
  LET waiters == ptys[id].waiters[side]
  IN IF waiters = {} THEN {} ELSE {CHOOSE w \in waiters : w \in killed \/ waiters \cap killed = {}}
\* (mutation) a write wakes those who wait on its own side.
Woken_OwnSide(id, side) == ptys[id].waiters[Other(side)]

Woken(id, side) == ptys[id].waiters[side]

\* The waiters that sleep on.
Asleep(waiters, woken) == [s \in Side |-> waiters[s] \ woken]

\* Bytes are numbered in the order they come; a write of a terminal that does
\* not exist is dropped.
Write(u) ==
  LET id == handles[u].id
      side == Other(handles[u].side)
      e == [id |-> id, side |-> side]
      woken == Woken(id, side)
      bytes == [i \in 1 .. Handlers(u) |-> Sent(e) + i]
  IN /\ u \notin killed /\ handles[u] # Closed /\ at[u] = "idle"
     /\ Exists(id) /\ TotalSent + Handlers(u) <= MaxWritten
     /\ ptys' = Changed(id, [ptys[id].buffer EXCEPT ![side] = @ \o bytes],
                           Asleep(ptys[id].waiters, woken))
     /\ at' = [w \in User |-> IF w \in woken THEN "woken" ELSE at[w]]
     /\ written' = [written EXCEPT ![e] = @ \o bytes]
     /\ UNCHANGED <<nextId, handles, killed, taken, reboots>>

\* (mutation) read leaves the bytes where they are.
Rest_All(buffer, count) == buffer

\* What reads of count bytes in all leave of a buffer: splice.
Rest(buffer, count) == SubSeq(buffer, count + 1, Len(buffer))

\* What they return.
Taken(buffer, count) == SubSeq(buffer, 1, Min({count, Len(buffer)}))

\* It does not wait: an empty answer is all that says that there is nothing.
ReadBytes(u) ==
  LET e == handles[u]
      count == Handlers(u) * Length
      bytes == Taken(Buffer(e), count)
  IN /\ u \notin killed /\ handles[u] # Closed /\ at[u] \in {"idle", "woken"}
     /\ IF Exists(e.id)
        THEN /\ ptys' = Changed(e.id, [ptys[e.id].buffer EXCEPT ![e.side] = Rest(@, count)],
                                ptys[e.id].waiters)
             /\ taken' = [taken EXCEPT ![e] = @ \o bytes]
        ELSE UNCHANGED <<ptys, taken>>
     /\ at' = [at EXCEPT ![u] = "idle"]
     /\ UNCHANGED <<nextId, handles, killed, written, reboots>>

\* It returns at once when there is something to read, or no such terminal.
Wait(u) ==
  LET e == handles[u]
  IN /\ u \notin killed /\ Exists(e.id) /\ at[u] = "idle"
     /\ IF Buffer(e) = <<>>
        THEN /\ ptys' = Changed(e.id, ptys[e.id].buffer,
                                [ptys[e.id].waiters EXCEPT ![e.side] = @ \cup {u}])
             /\ at' = [at EXCEPT ![u] = "waiting"]
        ELSE /\ at' = [at EXCEPT ![u] = "woken"]
             /\ UNCHANGED ptys
     /\ UNCHANGED <<nextId, handles, killed>> /\ UNCHANGED History

\* A process that is killed stays among the waiters.
Kill(u) ==
  /\ u \in Program \ (killed \cup Loyal)
  /\ killed' = killed \cup {u}
  /\ UNCHANGED <<ptys, nextId, handles, at>> /\ UNCHANGED History

\* The PtyManager is not part of a snapshot: the new kernel has no terminals
\* and counts from 0, the descriptors of the processes keep their numbers.  A
\* wait that is under way is never answered, unless the new kernel begins the
\* program again.
Reboot ==
  /\ reboots < MaxReboots
  /\ reboots' = reboots + 1
  /\ ptys' = <<>> /\ nextId' = 0
  /\ handles' = [u \in User |-> IF u \in Program THEN handles[u] ELSE Closed]
  /\ \E lost \in SUBSET {u \in Program : at[u] \in {"waiting", "lost"}} :
       at' = [u \in User |-> IF u \in lost THEN "lost" ELSE "idle"]
  /\ written' = [e \in End |-> <<>>] /\ taken' = [e \in End |-> <<>>]
  /\ UNCHANGED killed

Next ==
  \/ Allocate \/ Reboot
  \/ \E u \in User :
       \/ OpenMaster(u) \/ Close(u)
       \/ \E e \in End : OpenSide(u, e)
       \/ Write(u) \/ ReadBytes(u) \/ Wait(u) \/ Kill(u)

Spec == Init /\ [][Next]_vars

\* A program that has waited reads; one that is idle waits again.
FairSpec == Spec /\ \A u \in User : WF_vars(Wait(u)) /\ WF_vars(at[u] = "woken" /\ ReadBytes(u))

-----------------------------------------------------------------------------
(***************************************************************************)
(* Properties                                                              *)
(***************************************************************************)
\* Each direction of a terminal is a stream of bytes, whoever reads it: no
\* handler takes a byte that another one took, or takes one out of order, and
\* none leaves the buffer otherwise.  Until the first reboot a call has one
\* handler, and what it takes is what the program reads.
Streams == INSTANCE ByteStreams WITH
  Stream <- End, Byte <- 1..MaxWritten, put <- written, taken <- taken
ImplementsStreams == Streams!Spec

\* login and cat take an empty answer for the end of the input.  A reader whose
\* wait has ended finds bytes, unless another one that has the same side of the
\* terminal open takes them before it reads.
NothingToRead(u) == at[u] = "woken" /\ Buffer(handles[u]) = <<>>
EmptyReadsHaveRivals ==
  [][\A u \in User :
       NothingToRead(u)' /\ ~NothingToRead(u) =>
         /\ at[u] = "woken"
         /\ \E v \in User \ {u} : handles[v] = handles[u]]_vars

\* No wake-up is lost: what a reader that goes on waiting and reading can read
\* is taken by somebody, even if others waited before it and were killed.  A
\* reader whose wait was cut off by a reboot does not go on.
BytesAreRead ==
  \A e \in End :
    Buffer(e) # <<>> /\ (\E u \in Loyal : handles[u] = e /\ at[u] # "lost")
      ~> Buffer(e) = <<>>
=============================================================================
