------------------------------- MODULE FileIO -------------------------------
(***************************************************************************)
(* The file calls of the kernel (core/kernel/syscalls.ts: open, read,      *)
(* write, close, mkdir, readdir, unlink, rename, chdir, and what unmount   *)
(* does to descriptors) and the lists of descriptors under /proc           *)
(* (core/kernel/process.ts).                                               *)
(*                                                                         *)
(* A handler runs from one await to the next: the file system it calls is  *)
(* an AsyncFileSystem, whose answer comes later although it acts at once.  *)
(* A process waits for the answer of its call; one that is killed makes no *)
(* more calls, and what it has stays.  A call is handled by every          *)
(* listener there is, one more after each reboot, all of them with the     *)
(* dispatcher and the descriptors of the newest kernel; the first answer   *)
(* counts, and a handler that throws gives none.                           *)
(*                                                                         *)
(* A path is a sequence of names.  Of permissions only reading and writing *)
(* are kept.  Pseudo-terminals are in Pty.tla, volumes in Volumes.tla: one *)
(* volume and its mount point stand for all here.                          *)
(***************************************************************************)
EXTENDS Naturals, Sequences, FiniteSets, SequencesExt

CONSTANTS
  Process,
  Uid, Gid,       \* the user and the group of each process
  Path,           \* the paths in use
  Up,             \* the name ".."
  InitialNodes,   \* the nodes before the first call
  InitialFds,     \* the descriptors each process has then, by number
  Volume,         \* the mount point
  Image,          \* the files of the volume, by path
  Flag,           \* the flags that open is called with: sets of letters
  Chunk,          \* the number of bytes of a read
  MaxCalls,       \* a bound on the calls of all processes
  MaxListeners    \* a bound on the listeners, one more than the reboots

ASSUME ListenerAssumption == MaxListeners \in Nat \ {0} /\ MaxCalls \in Nat
\* The descriptors that a process has are open, and numbered from 3 on.
Fd == [path : Path, position : Nat, flags : Flag, open : {TRUE}]
ASSUME FdsAssumption ==
  /\ InitialFds = [p \in Process |-> InitialFds[p]]
  /\ \A p \in Process :
       /\ IsFiniteSet(DOMAIN InitialFds[p])
       /\ DOMAIN InitialFds[p] = 3..(2 + Cardinality(DOMAIN InitialFds[p]))
       /\ \A n \in DOMAIN InitialFds[p] : InitialFds[p][n] \in Fd
ASSUME ImageAssumption == \A p \in DOMAIN Image : Front(p) = Volume
\* Nodes are records, whose data is a list of bytes.
IsNode(n) ==
  /\ n = [f \in {"kind", "uid", "gid", "mode", "data"} |-> n[f]]
  /\ n.data \in Seq(Range(n.data))
ASSUME NodesAssumption ==
  /\ \A p \in DOMAIN InitialNodes : IsNode(InitialNodes[p])
  /\ \A p \in DOMAIN Image : IsNode(Image[p])
ASSUME ChunkAssumption == Chunk \subseteq Nat

VARIABLES
  nodes,      \* the files and directories, by path
  mounted,    \* is the volume mounted
  fds,        \* the descriptors a process has ever had, by number
  nextFd,
  cwd,
  procFds,    \* the files in /proc/<pid>/fd
  waiting,    \* the thread of the process waits for an answer
  handlers,   \* the calls under way, by process and listener
  listeners,  \* the number of kernels that listen for calls
  calls       \* the number of calls made

vars == <<nodes, mounted, fds, nextFd, cwd, procFds, waiting,
          handlers, listeners, calls>>

-----------------------------------------------------------------------------
(***************************************************************************)
(* Nodes                                                                   *)
(***************************************************************************)
Mode644 == [owner |-> {"r", "w"}, group |-> {"r"}, other |-> {"r"}]
Mode777 == [owner |-> {"r", "w"}, group |-> {"r", "w"}, other |-> {"r", "w"}]

\* createFile and createDirectory make nodes of the user and the group 0.
NewFile == [kind |-> "file", uid |-> 0, gid |-> 0, mode |-> Mode644, data |-> <<>>]
NewDir(mode) == [kind |-> "dir", uid |-> 0, gid |-> 0, mode |-> mode, data |-> <<>>]

IsFile(p) == p \in DOMAIN nodes /\ nodes[p].kind = "file"
IsDir(p) == p \in DOMAIN nodes /\ nodes[p].kind = "dir"
Kids(p) == {q \in DOMAIN nodes : q # <<>> /\ Front(q) = p}
With(p, node) == [q \in DOMAIN nodes \cup {p} |-> IF q = p THEN node ELSE nodes[q]]
Without(gone) == [q \in DOMAIN nodes \ gone |-> nodes[q]]

Rights(p, node) ==
  CASE Uid[p] = 0 -> {"r", "w"}
    [] Uid[p] # 0 /\ Uid[p] = node.uid -> node.mode.owner
    [] Uid[p] # 0 /\ Uid[p] # node.uid /\ Gid[p] = node.gid -> node.mode.group
    [] OTHER -> node.mode.other

\* The calls that look at a node before they act let pass what is not there.
May(p, path, right) == path \in DOMAIN nodes => right \in Rights(p, nodes[path])

\* The rights that the flags of open ask for.
Needs(flags) == (flags \cap {"r"}) \cup (IF flags \cap {"w", "a"} # {} THEN {"w"} ELSE {})

-----------------------------------------------------------------------------
(***************************************************************************)
(* Calls and handlers                                                      *)
(***************************************************************************)
Idle == [at |-> "idle"]

Init ==
  /\ nodes = InitialNodes
  /\ mounted = (DOMAIN Image \subseteq DOMAIN InitialNodes)
  /\ fds = InitialFds
  /\ nextFd = [p \in Process |-> 3 + Cardinality(DOMAIN InitialFds[p])]
  /\ cwd = [p \in Process |-> <<>>]
  /\ procFds = [p \in Process |-> DOMAIN InitialFds[p]]
  /\ waiting = [p \in Process |-> FALSE]
  /\ handlers = [p \in Process |-> [l \in 1..MaxListeners |-> Idle]]
  /\ listeners = 1
  /\ calls = 0

Free(p) == \A l \in 1..MaxListeners : handlers[p][l] = Idle

\* The thread of a program calls; all listeners start before one has an answer.
Call(p, call) ==
  /\ calls' = calls + 1
  /\ waiting' = [waiting EXCEPT ![p] = TRUE]
  /\ handlers' = [handlers EXCEPT ![p] =
                    [l \in 1..MaxListeners |-> IF l <= listeners THEN call ELSE Idle]]
  /\ UNCHANGED <<nodes, mounted, fds, nextFd, cwd, procFds, listeners>>

\* An absolute path is taken as it is; of a relative one ".." goes up.
Resolve(p, arg) ==
  CASE arg.absolute -> arg.names
    [] ~arg.absolute /\ arg.names = <<Up>> ->
         IF cwd[p] = <<>> THEN <<>> ELSE Front(cwd[p])
    [] OTHER -> cwd[p] \o arg.names

Argument ==
  [absolute : {TRUE}, names : Path] \cup
  [absolute : {FALSE}, names : {<<Up>>} \cup {q \in Path : Len(q) = 1}]

\* A descriptor that is open: a closed one keeps its object as long as a
\* handler has it, but no call finds it.
Open(p, fd) == fd \in DOMAIN fds[p] /\ fds[p][fd].open

\* The continuation of a handler.
Step(p, l, at) ==
  /\ handlers[p][l].at = at
  /\ UNCHANGED <<listeners, calls>>
Continue(p, l, h) ==
  handlers' = [handlers EXCEPT ![p][l] = h] /\ UNCHANGED waiting
Answer(p, l) ==
  /\ handlers' = [handlers EXCEPT ![p][l] = Idle]
  /\ waiting' = [waiting EXCEPT ![p] = FALSE]
Throw(p, l) == Continue(p, l, Idle)
NoFds == UNCHANGED <<fds, nextFd, cwd, procFds>>
NoNodes == UNCHANGED <<nodes, mounted>>

-----------------------------------------------------------------------------
(***************************************************************************)
(* open                                                                    *)
(***************************************************************************)
\* registerProcFd and removeProcFd, with the entry they are about.
Register(p, fd, entry) ==
  /\ fds' = [fds EXCEPT ![p] = [n \in DOMAIN @ \cup {fd} |-> IF n = fd THEN entry ELSE @[n]]]
  /\ procFds' = [procFds EXCEPT ![p] = @ \cup {fd}]

Entry(h, position) == [path |-> h.path, position |-> position, flags |-> h.flags, open |-> TRUE]

\* fs.open makes a file that is missing, whatever the caller may do there.
OpenFile(p, l) ==
  LET h == handlers[p][l]
      missing == h.path \notin DOMAIN nodes
      creates == /\ missing /\ h.flags \cap {"w", "a"} # {}
                 /\ h.path # <<>> /\ IsDir(Front(h.path))
  IN /\ Step(p, l, "open")
     /\ nodes' = IF creates THEN With(h.path, NewFile) ELSE nodes
     /\ IF missing /\ ~creates THEN Throw(p, l)
        ELSE Continue(p, l, [h EXCEPT !.at = "opened", !.node = nodes'[h.path]])
     /\ NoFds /\ UNCHANGED mounted

\* (mutation) the number is taken when the descriptor is entered.
OpenChecked_LateNumber(p, l) ==
  LET h == handlers[p][l]
  IN /\ Step(p, l, "opened")
     /\ IF h.node.kind = "dir" \/ ~(Needs(h.flags) \subseteq Rights(p, h.node))
        THEN Throw(p, l) /\ NoFds
        ELSE IF "a" \in h.flags
        THEN /\ UNCHANGED <<fds, nextFd, procFds, cwd>>
             /\ IF IsFile(h.path)
                THEN Continue(p, l, [h EXCEPT !.at = "measured", !.fd = nextFd[p],
                                              !.data = nodes[h.path].data])
                ELSE Throw(p, l)
        ELSE /\ nextFd' = [nextFd EXCEPT ![p] = @ + 1]
             /\ Register(p, nextFd[p], Entry(h, 0)) /\ Answer(p, l) /\ UNCHANGED cwd
     /\ NoNodes

\* The check of the permissions; the number is taken before the file is read
\* for its length, which "a" asks for.
OpenChecked(p, l) ==
  LET h == handlers[p][l]
      fd == nextFd[p]
  IN /\ Step(p, l, "opened")
     /\ IF h.node.kind = "dir" \/ ~(Needs(h.flags) \subseteq Rights(p, h.node))
        THEN Throw(p, l) /\ NoFds
        ELSE /\ nextFd' = [nextFd EXCEPT ![p] = fd + 1]
             /\ UNCHANGED cwd
             /\ IF "a" \notin h.flags
                THEN Register(p, fd, Entry(h, 0)) /\ Answer(p, l)
                ELSE /\ UNCHANGED <<fds, procFds>>
                     /\ IF IsFile(h.path)
                        THEN Continue(p, l, [h EXCEPT !.at = "measured", !.fd = fd,
                                                      !.data = nodes[h.path].data])
                        ELSE Throw(p, l)
     /\ NoNodes

OpenMeasured(p, l) ==
  LET h == handlers[p][l]
  IN /\ Step(p, l, "measured")
     /\ Register(p, h.fd, Entry(h, Len(h.data)))
     /\ Answer(p, l)
     /\ UNCHANGED <<nextFd, cwd>> /\ NoNodes

-----------------------------------------------------------------------------
(***************************************************************************)
(* read, write and close                                                   *)
(***************************************************************************)
\* What both do before they await the file system's read.
Fetch(p, l, at, next, flags) ==
  LET h == handlers[p][l]
      path == fds[p][h.fd].path
  IN /\ Step(p, l, at)
     /\ IF Open(p, h.fd) /\ (flags = {} \/ fds[p][h.fd].flags \cap flags # {}) /\ IsFile(path)
        THEN Continue(p, l, [h EXCEPT !.at = next, !.data = nodes[path].data])
        ELSE Throw(p, l)
     /\ NoFds /\ NoNodes

\* slice and subarray: no further than the end.
Slice(s, from, to) == SubSeq(s, from + 1, Min({to, Len(s)}))

ReadFile(p, l) == Fetch(p, l, "read", "fetched", {})

Advance(p, fd, n) == fds' = [fds EXCEPT ![p][fd].position = @ + n]

ReadDone(p, l) ==
  LET h == handlers[p][l]
      entry == fds[p][h.fd]
  IN /\ Step(p, l, "fetched")
     /\ Advance(p, h.fd, Len(Slice(h.data, entry.position, entry.position + h.length)))
     /\ Answer(p, l)
     /\ UNCHANGED <<nextFd, cwd, procFds>> /\ NoNodes

WriteFetch(p, l) == Fetch(p, l, "write", "merge", {"w", "a"})

\* (mutation) the rest of the file starts where the writing started.
Merged_KeepsAll(current, position, bytes) ==
  Slice(current, 0, position) \o bytes \o Slice(current, position, Len(current))

\* The file as it was read, with the bytes in place of those at the position;
\* a position beyond the end of the file counts as the end.
Merged(current, position, bytes) ==
  Slice(current, 0, position) \o bytes
    \o Slice(current, position + Len(bytes), Len(current))

\* The whole file is written, to what has that path now.
WriteMerged(p, l) ==
  LET h == handlers[p][l]
      entry == fds[p][h.fd]
  IN /\ Step(p, l, "merge")
     /\ IF IsFile(entry.path)
        THEN /\ nodes' = [nodes EXCEPT ![entry.path].data =
                             Merged(h.data, entry.position, h.bytes)]
             /\ Continue(p, l, [h EXCEPT !.at = "written"])
        ELSE Throw(p, l) /\ UNCHANGED nodes
     /\ NoFds /\ UNCHANGED mounted

WriteDone(p, l) ==
  LET h == handlers[p][l]
  IN /\ Step(p, l, "written")
     /\ Advance(p, h.fd, Len(h.bytes))
     /\ Answer(p, l)
     /\ UNCHANGED <<nextFd, cwd, procFds>> /\ NoNodes

Drop(p, gone) ==
  /\ fds' = [fds EXCEPT ![p] = [n \in DOMAIN @ |->
                 IF n \in gone THEN [@[n] EXCEPT !.open = FALSE] ELSE @[n]]]
  /\ procFds' = [procFds EXCEPT ![p] = @ \ gone]

\* close answers -1 for what is not open.
Close(p, l) ==
  /\ Step(p, l, "close")
  /\ Drop(p, {handlers[p][l].fd})
  /\ Answer(p, l)
  /\ UNCHANGED <<nextFd, cwd>> /\ NoNodes

-----------------------------------------------------------------------------
(***************************************************************************)
(* Calls on paths                                                          *)
(***************************************************************************)
\* The file system does it, or the call throws.  Between the act and the answer
\* the handler only waits: that it waits is left out.
Act(p, l, allowed, after) ==
  /\ IF allowed THEN nodes' = after /\ Answer(p, l)
     ELSE Throw(p, l) /\ UNCHANGED nodes
  /\ NoFds /\ UNCHANGED mounted

Mkdir(p, l) ==
  LET path == handlers[p][l].path
  IN /\ Step(p, l, "mkdir")
     /\ Act(p, l,
            /\ path # <<>> /\ May(p, Front(path), "w")
            /\ path \notin DOMAIN nodes /\ IsDir(Front(path)),
            With(path, NewDir(Mode777)))

Readdir(p, l) ==
  LET path == handlers[p][l].path
  IN Step(p, l, "readdir") /\ Act(p, l, May(p, path, "r") /\ IsDir(path), nodes)

Unlink(p, l) ==
  LET path == handlers[p][l].path
  IN /\ Step(p, l, "unlink")
     /\ Act(p, l,
            /\ path \in DOMAIN nodes \ {<<>>} /\ May(p, path, "w")
            /\ Kids(path) = {} /\ IsDir(Front(path)),
            Without({path}))

Moved(old, new) ==
  LET below == {q \in DOMAIN nodes : IsPrefix(old, q)}
      to(q) == new \o SubSeq(q, Len(old) + 1, Len(q))
  IN [q \in (DOMAIN nodes \ below) \cup {to(b) : b \in below} |->
        IF \E b \in below : to(b) = q THEN nodes[CHOOSE b \in below : to(b) = q]
        ELSE nodes[q]]

\* A rename of a directory into itself is in InMemoryFs.tla.
Rename(p, l) ==
  LET old == handlers[p][l].path
      new == handlers[p][l].target
  IN /\ Step(p, l, "rename")
     /\ Act(p, l,
            /\ old \in DOMAIN nodes /\ new \notin DOMAIN nodes
            /\ May(p, old, "w")
            /\ old # <<>> /\ IsDir(Front(old)) /\ IsDir(Front(new)),
            Moved(old, new))

\* readdir's failure is caught: the answer is -1.
Chdir(p, l) ==
  LET path == handlers[p][l].path
  IN /\ Step(p, l, "chdir")
     /\ IF IsDir(path) THEN Continue(p, l, [at |-> "entered", path |-> path])
        ELSE Answer(p, l)
     /\ NoFds /\ NoNodes

ChdirDone(p, l) ==
  /\ Step(p, l, "entered")
  /\ cwd' = [cwd EXCEPT ![p] = handlers[p][l].path]
  /\ Answer(p, l)
  /\ UNCHANGED <<fds, nextFd, procFds>> /\ NoNodes

-----------------------------------------------------------------------------
(***************************************************************************)
(* The volume.  Unmounting takes out the files of the image; afterwards    *)
(* the descriptors of every process below the mount point are closed.      *)
(***************************************************************************)
Mount(p, l) ==
  /\ Step(p, l, "mount")
  /\ IF ~mounted /\ IsDir(Volume) /\ DOMAIN Image \cap DOMAIN nodes = {}
     THEN /\ nodes' = [q \in DOMAIN nodes \cup DOMAIN Image |->
                         IF q \in DOMAIN Image THEN Image[q] ELSE nodes[q]]
          /\ mounted' = TRUE
          /\ Answer(p, l)
     ELSE Throw(p, l) /\ NoNodes
  /\ NoFds

Unmount(p, l) ==
  /\ Step(p, l, "unmount")
  /\ IF mounted
     THEN /\ nodes' = Without(DOMAIN Image) /\ mounted' = FALSE
          /\ Continue(p, l, [at |-> "unmounted"])
     ELSE Throw(p, l) /\ NoNodes
  /\ NoFds

OnVolume(path) == IsPrefix(Volume, path)

\* (mutation) the files under /proc stay.
CloseVolume_Listed(p, l) ==
  /\ Step(p, l, "unmounted")
  /\ fds' = [q \in Process |-> [n \in DOMAIN fds[q] |->
               IF OnVolume(fds[q][n].path) THEN [fds[q][n] EXCEPT !.open = FALSE]
               ELSE fds[q][n]]]
  /\ Answer(p, l)
  /\ UNCHANGED <<nextFd, cwd, procFds>> /\ NoNodes

CloseVolume(p, l) ==
  /\ Step(p, l, "unmounted")
  /\ fds' = [q \in Process |-> [n \in DOMAIN fds[q] |->
               IF OnVolume(fds[q][n].path) THEN [fds[q][n] EXCEPT !.open = FALSE]
               ELSE fds[q][n]]]
  /\ procFds' = [q \in Process |->
                   {n \in procFds[q] : ~(Open(q, n) /\ OnVolume(fds[q][n].path))}]
  /\ Answer(p, l)
  /\ UNCHANGED <<nextFd, cwd>> /\ NoNodes

-----------------------------------------------------------------------------
Handle(p, l) ==
  \/ OpenFile(p, l) \/ OpenChecked(p, l) \/ OpenMeasured(p, l)
  \/ ReadFile(p, l) \/ ReadDone(p, l)
  \/ WriteFetch(p, l) \/ WriteMerged(p, l) \/ WriteDone(p, l)
  \/ Close(p, l)
  \/ Mkdir(p, l) \/ Readdir(p, l) \/ Unlink(p, l) \/ Rename(p, l)
  \/ Chdir(p, l) \/ ChdirDone(p, l)
  \/ Mount(p, l) \/ Unmount(p, l) \/ CloseVolume(p, l)

\* A call, with room for what its handler keeps between its awaits.
OpenCall(path, flags) ==
  [at |-> "open", path |-> path, flags |-> flags, fd |-> 0, data |-> <<>>, node |-> NewFile]
PathCall(op, path) == [at |-> op, path |-> path]

\* A program writes its own name, so that its bytes can be told from others.
Program(p) ==
  /\ ~waiting[p] /\ Free(p) /\ calls < MaxCalls
  /\ \/ \E arg \in Argument :
          LET path == Resolve(p, arg)
          IN /\ path \in Path
             /\ \/ \E flags \in Flag : Call(p, OpenCall(path, flags))
                \/ \E op \in {"mkdir", "readdir", "unlink", "chdir"} : Call(p, PathCall(op, path))
                \/ \E target \in Path :
                     /\ ~IsPrefix(path, target)
                     /\ \A q \in DOMAIN nodes : IsPrefix(path, q) =>
                          target \o SubSeq(q, Len(path) + 1, Len(q)) \in Path
                     /\ Call(p, [at |-> "rename", path |-> path, target |-> target])
     \/ \E fd \in DOMAIN fds[p] :
          \/ \E n \in Chunk :
               Call(p, [at |-> "read", fd |-> fd, length |-> n, data |-> <<>>])
          \/ Call(p, [at |-> "write", fd |-> fd, bytes |-> <<p>>, data |-> <<>>])
          \/ Call(p, [at |-> "close", fd |-> fd])
     \/ Call(p, [at |-> "mount"])
     \/ Call(p, [at |-> "unmount"])

(***************************************************************************)
(* A reboot.  The new kernel has the processes with their descriptors, and *)
(* enters each in /proc; the programs start again, and what the handlers   *)
(* of the old kernel still do is done to its own objects.  The record of   *)
(* mounts of the file system is gone.                                      *)
(***************************************************************************)
Reboot ==
  /\ listeners < MaxListeners
  /\ listeners' = listeners + 1
  /\ handlers' = [p \in Process |-> [l \in 1..MaxListeners |-> Idle]]
  /\ waiting' = [p \in Process |-> FALSE]
  /\ fds' = [p \in Process |-> [n \in {m \in DOMAIN fds[p] : Open(p, m)} |-> fds[p][n]]]
  /\ procFds' = [p \in Process |-> procFds[p] \cup {n \in DOMAIN fds[p] : Open(p, n)}]
  /\ mounted' = FALSE
  /\ UNCHANGED <<nodes, nextFd, cwd, calls>>

Next ==
  \/ \E p \in Process : Program(p)
  \/ \E p \in Process, l \in 1..MaxListeners : Handle(p, l)
  \/ Reboot

Spec == Init /\ [][Next]_vars

-----------------------------------------------------------------------------
(***************************************************************************)
(* Properties                                                              *)
(***************************************************************************)
\* /proc/<pid>/fd lists the open descriptors of a process, no more and no
\* fewer, whoever opened or closed them: the process, an unmount, a reboot.
ProcFdsAgree ==
  \A p \in Process : procFds[p] = {n \in DOMAIN fds[p] : Open(p, n)}

\* A descriptor stays on the path it was opened for, with its flags: no open
\* takes the number of another, though two that run at once await the file
\* system between taking a number and entering it.
DescriptorKeepsFile ==
  [][\A p \in Process : \A n \in DOMAIN fds[p] \cap DOMAIN fds'[p] :
       /\ fds'[p][n].path = fds[p][n].path
       /\ fds'[p][n].flags = fds[p][n].flags]_vars

\* Whose turn it is to write a path back.
Writes(p, l, path) ==
  /\ handlers[p][l].at = "merge" /\ handlers'[p][l].at = "written"
  /\ fds[p][handlers[p][l].fd].path = path
Unlike(s, t) ==
  {i \in DOMAIN s \cup DOMAIN t : ~(i \in DOMAIN s \cap DOMAIN t /\ s[i] = t[i])}

\* Bytes that a write does not name are lost only to a race: a write whose file
\* is as it was when the write read it changes nothing beyond its own bytes.
OnlyRacersLoseBytes ==
  [][\A p \in Process, l \in 1..MaxListeners : \A path \in DOMAIN nodes :
       Writes(p, l, path) /\ handlers[p][l].data = nodes[path].data =>
         Cardinality(Unlike(nodes[path].data, nodes'[path].data))
           <= Len(handlers[p][l].bytes)]_vars

=============================================================================
