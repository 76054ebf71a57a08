----------------------------- MODULE FileIOProofs -----------------------------
(***************************************************************************)
(* Proof that /proc/<pid>/fd lists the open descriptors (ProcFdsAgree) and *)
(* that a descriptor stays on its file (DescriptorKeepsFile), for every    *)
(* number of processes, paths, calls and reboots.                          *)
(*                                                                         *)
(* A handler of open takes a number and enters the descriptor one await    *)
(* later; with several listeners other handlers of the process run in      *)
(* between.  The invariant says that such a number is spent: it is below   *)
(* the next one, no descriptor has ever had it, and no other handler has.  *)
(*                                                                         *)
(* Proof, too, that a write whose file is as the write read it changes no  *)
(* byte but its own (OnlyRacersLoseBytes).  It adds to the invariant what  *)
(* handlers keep over an await: data that was read from a file, and the    *)
(* number of a descriptor that is still there, with a position.            *)
(***************************************************************************)
EXTENDS FileIO, FiniteSetTheorems, SequenceTheorems, TLAPS

Listener == 1..MaxListeners

-----------------------------------------------------------------------------
(* The invariant *)

EntryOK(e) ==
  /\ e = [f \in {"path", "position", "flags", "open"} |-> e[f]]
  /\ e.open \in BOOLEAN

\* What a handler of open keeps.
HandlerOK(h) ==
  /\ "at" \in DOMAIN h
  /\ h.at \in {"open", "opened", "measured"} =>
       h = [f \in {"at", "path", "flags", "fd", "data", "node"} |-> h[f]]

\* The handler h of the process p has a number that is not entered yet.
Spent(p, h) == h.fd \in Nat /\ h.fd < nextFd[p] /\ h.fd \notin DOMAIN fds[p]

Typed ==
  /\ fds = [p \in Process |-> fds[p]]
  /\ nextFd \in [Process -> Nat]
  /\ procFds = [p \in Process |-> procFds[p]]
  /\ handlers = [p \in Process |-> [l \in Listener |-> handlers[p][l]]]

NumbersOK ==
  \A p \in Process : \A n \in DOMAIN fds[p] : n \in Nat /\ n < nextFd[p] /\ EntryOK(fds[p][n])

SpentOK ==
  \A p \in Process, l \in Listener : handlers[p][l].at = "measured" =>
    /\ Spent(p, handlers[p][l])
    /\ \A k \in Listener : handlers[p][k].at = "measured" /\ k # l =>
         handlers[p][k].fd # handlers[p][l].fd

HandlersOK == \A p \in Process, l \in Listener : HandlerOK(handlers[p][l])

IInv == Typed /\ NumbersOK /\ HandlersOK /\ SpentOK /\ ProcFdsAgree

\* What DescriptorKeepsFile says of a step.
FilesKept ==
  \A p \in Process : \A n \in DOMAIN fds[p] \cap DOMAIN fds'[p] :
    /\ fds'[p][n].path = fds[p][n].path
    /\ fds'[p][n].flags = fds[p][n].flags

-----------------------------------------------------------------------------
(***************************************************************************)
(* The handlers                                                            *)
(***************************************************************************)
\* One handler goes on to h.
Sets(p, l, h) ==
  /\ handlers' = [handlers EXCEPT ![p][l] = h]
  /\ HandlerOK(h)

\* It has no number to enter.
GoesOn(p, l, h) == Sets(p, l, h) /\ h.at # "measured"

\* Then the other handlers are as they were.
OthersStay(p, l, h) ==
  /\ handlers' = [q \in Process |-> [k \in Listener |-> handlers'[q][k]]]
  /\ HandlersOK'
  /\ \A q \in Process, k \in Listener :
       handlers'[q][k] = IF q = p /\ k = l THEN h ELSE handlers[q][k]

LEMMA OneHandler ==
  ASSUME IInv, NEW p \in Process, NEW l \in Listener, NEW h, Sets(p, l, h)
  PROVE  OthersStay(p, l, h)
BY DEF IInv, Typed, HandlersOK, HandlerOK, Sets, OthersStay

\* A step of a handler that leaves the descriptors alone.
LEMMA QuietStep ==
  ASSUME IInv, NEW p \in Process, NEW l \in Listener, NEW h, GoesOn(p, l, h), NoFds
  PROVE  IInv' /\ FilesKept
<1>1. UNCHANGED <<fds, nextFd, procFds>>
  BY DEF NoFds
<1>2. OthersStay(p, l, h)
  BY OneHandler DEF GoesOn
<1>3. Typed'
  BY <1>1, <1>2 DEF IInv, Typed, OthersStay
<1>4. NumbersOK' /\ ProcFdsAgree'
  BY <1>1 DEF IInv, NumbersOK, ProcFdsAgree, Open
<1>5. SpentOK'
  BY <1>1, <1>2 DEF IInv, SpentOK, Spent, GoesOn, OthersStay
<1>6. FilesKept
  BY <1>1 DEF FilesKept
<1> QED BY <1>2, <1>3, <1>4, <1>5, <1>6 DEF IInv, OthersStay

\* A step of a handler that changes descriptors which there are, but neither
\* their path nor their flags.
LEMMA ChangeStep ==
  ASSUME IInv, NEW p \in Process, NEW l \in Listener, NEW h, GoesOn(p, l, h),
         nextFd' = nextFd,
         fds' = [q \in Process |-> fds'[q]],
         procFds' = [q \in Process |-> procFds'[q]],
         \A q \in Process : DOMAIN fds'[q] = DOMAIN fds[q],
         \A q \in Process : \A n \in DOMAIN fds[q] :
           /\ EntryOK(fds'[q][n])
           /\ fds'[q][n].path = fds[q][n].path /\ fds'[q][n].flags = fds[q][n].flags,
         ProcFdsAgree'
  PROVE  IInv' /\ FilesKept
<1>1. OthersStay(p, l, h)
  BY OneHandler DEF GoesOn
<1>2. Typed'
  BY <1>1 DEF IInv, Typed, OthersStay
<1>3. NumbersOK'
  BY DEF IInv, NumbersOK
<1>4. SpentOK'
  <2>1. ASSUME NEW q \in Process, NEW k \in Listener, handlers'[q][k].at = "measured"
        PROVE  handlers'[q][k] = handlers[q][k] /\ Spent(q, handlers[q][k])
    BY <1>1, <2>1 DEF IInv, SpentOK, GoesOn, OthersStay
  <2>2. \A q \in Process, j, k \in Listener :
          handlers'[q][j].at = "measured" /\ handlers'[q][k].at = "measured" /\ j # k =>
            handlers'[q][j].fd # handlers'[q][k].fd
    BY <2>1 DEF IInv, SpentOK
  <2> QED BY <2>1, <2>2 DEF SpentOK, Spent
<1>5. FilesKept
  BY DEF FilesKept
<1> QED BY <1>1, <1>2, <1>3, <1>4, <1>5 DEF IInv, OthersStay

\* A step of a handler that enters a number which no descriptor has had.
LEMMA EnterStep ==
  ASSUME IInv, NEW p \in Process, NEW l \in Listener, NEW h, GoesOn(p, l, h),
         NEW fd \in Nat, NEW entry, EntryOK(entry), entry.open,
         fd \notin DOMAIN fds[p], Register(p, fd, entry),
         nextFd' \in [Process -> Nat], fd < nextFd'[p],
         \A q \in Process : nextFd[q] <= nextFd'[q],
         \A k \in Listener : k # l /\ handlers[p][k].at = "measured" => handlers[p][k].fd # fd
  PROVE  IInv' /\ FilesKept
<1>1. OthersStay(p, l, h)
  BY OneHandler DEF GoesOn
<1>2. /\ fds' = [q \in Process |-> fds'[q]] /\ procFds' = [q \in Process |-> procFds'[q]]
      /\ \A q \in Process : q # p => fds'[q] = fds[q] /\ procFds'[q] = procFds[q]
      /\ DOMAIN fds'[p] = DOMAIN fds[p] \cup {fd}
      /\ \A n \in DOMAIN fds'[p] : fds'[p][n] = IF n = fd THEN entry ELSE fds[p][n]
      /\ procFds'[p] = procFds[p] \cup {fd}
  BY DEF Register, IInv, Typed
<1>3. Typed'
  BY <1>1, <1>2 DEF IInv, Typed, OthersStay
<1>4. NumbersOK'
  <2>1. ASSUME NEW q \in Process, NEW n \in DOMAIN fds'[q]
        PROVE  n \in Nat /\ n < nextFd'[q] /\ EntryOK(fds'[q][n])
    <3>1. CASE q = p /\ n = fd
      BY <1>2, <3>1
    <3>2. CASE ~(q = p /\ n = fd)
      <4>1. n \in DOMAIN fds[q] /\ fds'[q][n] = fds[q][n]
        BY <1>2, <2>1, <3>2
      <4>2. n \in Nat /\ n < nextFd[q] /\ EntryOK(fds[q][n])
        BY <4>1 DEF IInv, NumbersOK
      <4>3. nextFd[q] \in Nat /\ nextFd'[q] \in Nat /\ nextFd[q] <= nextFd'[q]
        BY DEF IInv, Typed
      <4> QED BY <4>1, <4>2, <4>3
    <3> QED BY <3>1, <3>2
  <2> QED BY <2>1 DEF NumbersOK, EntryOK
<1>5. SpentOK'
  <2>1. ASSUME NEW q \in Process, NEW k \in Listener, handlers'[q][k].at = "measured"
        PROVE  /\ handlers'[q][k] = handlers[q][k] /\ ~(q = p /\ k = l)
               /\ handlers'[q][k].fd \in Nat /\ handlers'[q][k].fd < nextFd'[q]
               /\ handlers'[q][k].fd \notin DOMAIN fds'[q]
    <3>1. handlers'[q][k] = handlers[q][k] /\ ~(q = p /\ k = l)
      BY <1>1, <2>1 DEF GoesOn, OthersStay
    <3>2. Spent(q, handlers[q][k])
      BY <2>1, <3>1 DEF IInv, SpentOK
    <3>3. nextFd[q] \in Nat /\ nextFd'[q] \in Nat /\ nextFd[q] <= nextFd'[q]
      BY DEF IInv, Typed
    <3>4. handlers[q][k].fd < nextFd'[q]
      BY <3>2, <3>3 DEF Spent
    <3>5. handlers[q][k].fd \notin DOMAIN fds'[q]
      BY <1>2, <2>1, <3>1, <3>2 DEF Spent
    <3> QED BY <3>1, <3>2, <3>4, <3>5 DEF Spent
  <2>2. \A q \in Process, j, k \in Listener :
          handlers'[q][j].at = "measured" /\ handlers'[q][k].at = "measured" /\ j # k =>
            handlers'[q][j].fd # handlers'[q][k].fd
    BY <2>1 DEF IInv, SpentOK
  <2> QED BY <2>1, <2>2 DEF SpentOK, Spent
<1>6. ProcFdsAgree'
  BY <1>2 DEF IInv, ProcFdsAgree, Open
<1>7. FilesKept
  BY <1>2 DEF FilesKept
<1> QED BY <1>1, <1>3, <1>4, <1>5, <1>6, <1>7 DEF IInv, OthersStay

-----------------------------------------------------------------------------
(***************************************************************************)
(* The steps                                                               *)
(***************************************************************************)
LEMMA IdleGoesOn ==
  ASSUME NEW p, NEW l, handlers' = [handlers EXCEPT ![p][l] = Idle]
  PROVE  GoesOn(p, l, Idle)
BY DEF GoesOn, Sets, HandlerOK, Idle

LEMMA OpenFileStep ==
  ASSUME IInv, NEW p \in Process, NEW l \in Listener, OpenFile(p, l)
  PROVE  IInv' /\ FilesKept
<1> DEFINE h == handlers[p][l]
           g == [h EXCEPT !.at = "opened", !.node = nodes'[h.path]]
<1>1. NoFds
  BY DEF OpenFile
<1>2. h.at = "open" /\ HandlerOK(h)
  BY DEF OpenFile, Step, IInv, HandlersOK
<1>3. CASE handlers' = [handlers EXCEPT ![p][l] = Idle]
  BY <1>1, <1>3, IdleGoesOn, QuietStep
<1>4. CASE handlers' = [handlers EXCEPT ![p][l] = g]
  <2>1. HandlerOK(g) /\ g.at = "opened"
    BY <1>2 DEF HandlerOK
  <2> HIDE DEF g
  <2>2. GoesOn(p, l, g)
    BY <1>4, <2>1 DEF GoesOn, Sets
  <2> QED BY <1>1, <2>2, QuietStep
<1> QED BY <1>3, <1>4 DEF OpenFile, Continue, Throw

\* The handlers that read a file, for a read or for a write.
LEMMA FetchStep ==
  ASSUME IInv, NEW p \in Process, NEW l \in Listener, ReadFile(p, l) \/ WriteFetch(p, l)
  PROVE  IInv' /\ FilesKept
<1> DEFINE h == handlers[p][l]
<1>1. PICK at, next, flags : Fetch(p, l, at, next, flags) /\ next \in {"fetched", "merge"}
  BY DEF ReadFile, WriteFetch
<1> DEFINE g == [h EXCEPT !.at = next, !.data = nodes[fds[p][h.fd].path].data]
<1>2. NoFds /\ HandlerOK(h)
  BY <1>1 DEF Fetch, IInv, HandlersOK
<1>3. CASE handlers' = [handlers EXCEPT ![p][l] = Idle]
  BY <1>2, <1>3, IdleGoesOn, QuietStep
<1>4. CASE handlers' = [handlers EXCEPT ![p][l] = g]
  <2>1. HandlerOK(g) /\ g.at = next
    BY <1>1, <1>2 DEF HandlerOK
  <2> HIDE DEF g
  <2>2. GoesOn(p, l, g)
    BY <1>1, <1>4, <2>1 DEF GoesOn, Sets
  <2> QED BY <1>2, <2>2, QuietStep
<1> QED BY <1>1, <1>3, <1>4 DEF Fetch, Continue, Throw

LEMMA MergeStep ==
  ASSUME IInv, NEW p \in Process, NEW l \in Listener, WriteMerged(p, l)
  PROVE  IInv' /\ FilesKept
<1> DEFINE h == handlers[p][l]
           g == [h EXCEPT !.at = "written"]
<1>1. NoFds /\ HandlerOK(h)
  BY DEF WriteMerged, IInv, HandlersOK
<1>2. CASE handlers' = [handlers EXCEPT ![p][l] = Idle]
  BY <1>1, <1>2, IdleGoesOn, QuietStep
<1>3. CASE handlers' = [handlers EXCEPT ![p][l] = g]
  <2>1. HandlerOK(g) /\ g.at = "written"
    BY <1>1 DEF HandlerOK
  <2> HIDE DEF g
  <2>2. GoesOn(p, l, g)
    BY <1>3, <2>1 DEF GoesOn, Sets
  <2> QED BY <1>1, <2>2, QuietStep
<1> QED BY <1>2, <1>3 DEF WriteMerged, Continue, Throw

\* The calls on paths and on volumes touch no descriptor before they end.
LEMMA PathStep ==
  ASSUME IInv, NEW p \in Process, NEW l \in Listener,
         \/ Mkdir(p, l) \/ Readdir(p, l) \/ Unlink(p, l) \/ Rename(p, l)
         \/ Chdir(p, l) \/ Mount(p, l) \/ Unmount(p, l)
  PROVE  IInv' /\ FilesKept
<1>1. NoFds
  BY DEF Mkdir, Readdir, Unlink, Rename, Chdir, Mount, Unmount, Act
<1>2. \/ handlers' = [handlers EXCEPT ![p][l] = Idle]
      \/ \E path : handlers' = [handlers EXCEPT ![p][l] = [at |-> "entered", path |-> path]]
      \/ handlers' = [handlers EXCEPT ![p][l] = [at |-> "unmounted"]]
  BY DEF Mkdir, Readdir, Unlink, Rename, Chdir, Mount, Unmount, Act, Answer, Throw, Continue
<1>3. CASE handlers' = [handlers EXCEPT ![p][l] = Idle]
  BY <1>1, <1>3, IdleGoesOn, QuietStep
<1>4. ASSUME NEW path, handlers' = [handlers EXCEPT ![p][l] = [at |-> "entered", path |-> path]]
      PROVE  IInv' /\ FilesKept
  <2>1. GoesOn(p, l, [at |-> "entered", path |-> path])
    BY <1>4 DEF GoesOn, Sets, HandlerOK
  <2> QED BY <1>1, <2>1, QuietStep
<1>5. CASE handlers' = [handlers EXCEPT ![p][l] = [at |-> "unmounted"]]
  <2>1. GoesOn(p, l, [at |-> "unmounted"])
    BY <1>5 DEF GoesOn, Sets, HandlerOK
  <2> QED BY <1>1, <2>1, QuietStep
<1> QED BY <1>2, <1>3, <1>4, <1>5

LEMMA ChangedEntry ==
  ASSUME NEW e, EntryOK(e), NEW x
  PROVE  /\ LET d == [e EXCEPT !.position = x]
            IN EntryOK(d) /\ d.open = e.open /\ d.path = e.path /\ d.flags = e.flags
         /\ LET d == [e EXCEPT !.open = FALSE]
            IN EntryOK(d) /\ d.open = FALSE /\ d.path = e.path /\ d.flags = e.flags
BY DEF EntryOK

\* A position moves on.
LEMMA AdvanceStep ==
  ASSUME IInv, NEW p \in Process, NEW l \in Listener,
         ReadDone(p, l) \/ WriteDone(p, l)
  PROVE  IInv' /\ FilesKept
<1>1. PICK fd, n : Advance(p, fd, n)
  BY DEF ReadDone, WriteDone
<1>2. /\ handlers' = [handlers EXCEPT ![p][l] = Idle]
      /\ nextFd' = nextFd /\ procFds' = procFds
  BY DEF ReadDone, WriteDone, Answer
<1>3. GoesOn(p, l, Idle)
  BY <1>2, IdleGoesOn
<1>4. /\ fds' = [q \in Process |-> fds'[q]]
      /\ \A q \in Process : DOMAIN fds'[q] = DOMAIN fds[q]
      /\ \A q \in Process : \A m \in DOMAIN fds[q] :
           fds'[q][m] = IF q = p /\ m = fd THEN [fds[q][m] EXCEPT !.position = @ + n]
                        ELSE fds[q][m]
  BY <1>1 DEF Advance, IInv, Typed
<1>5. \A q \in Process : \A m \in DOMAIN fds[q] :
        /\ EntryOK(fds'[q][m]) /\ fds'[q][m].open = fds[q][m].open
        /\ fds'[q][m].path = fds[q][m].path /\ fds'[q][m].flags = fds[q][m].flags
  <2>1. ASSUME NEW q \in Process, NEW m \in DOMAIN fds[q], NEW e, e = fds[q][m]
        PROVE  /\ EntryOK(fds'[q][m]) /\ fds'[q][m].open = e.open
               /\ fds'[q][m].path = e.path /\ fds'[q][m].flags = e.flags
    <3>1. EntryOK(e)
      BY <2>1 DEF IInv, NumbersOK
    <3>2. PICK x : fds'[q][m] = e \/ fds'[q][m] = [e EXCEPT !.position = x]
      BY <1>4, <2>1
    <3> DEFINE d == [e EXCEPT !.position = x]
    <3>3. EntryOK(d) /\ d.open = e.open /\ d.path = e.path /\ d.flags = e.flags
      BY <3>1, ChangedEntry
    <3> QED BY <3>1, <3>2, <3>3
  <2> QED BY <2>1
<1>6. ProcFdsAgree'
  BY <1>2, <1>4, <1>5 DEF IInv, ProcFdsAgree, Open
<1>7. procFds' = [q \in Process |-> procFds'[q]]
  BY <1>2 DEF IInv, Typed
<1> QED BY <1>2, <1>3, <1>4, <1>5, <1>6, <1>7, ChangeStep

\* Descriptors are closed and their files under /proc removed.
LEMMA CloseStep ==
  ASSUME IInv, NEW p \in Process, NEW l \in Listener,
         Close(p, l) \/ CloseVolume(p, l)
  PROVE  IInv' /\ FilesKept
<1>1. handlers' = [handlers EXCEPT ![p][l] = Idle] /\ nextFd' = nextFd
  BY DEF Close, CloseVolume, Answer
<1>2. GoesOn(p, l, Idle)
  BY <1>1, IdleGoesOn
<1> DEFINE gone(q) ==
             IF Close(p, l) THEN {m \in DOMAIN fds[q] : q = p /\ m = handlers[p][l].fd}
             ELSE {m \in DOMAIN fds[q] : OnVolume(fds[q][m].path)}
<1>3. /\ fds' = [q \in Process |-> fds'[q]]
      /\ procFds' = [q \in Process |-> procFds'[q]]
      /\ \A q \in Process : DOMAIN fds'[q] = DOMAIN fds[q]
      /\ \A q \in Process : \A m \in DOMAIN fds[q] :
           fds'[q][m] = IF m \in gone(q) THEN [fds[q][m] EXCEPT !.open = FALSE] ELSE fds[q][m]
      /\ \A q \in Process : \A m \in DOMAIN fds[q] :
           m \in procFds'[q] <=> m \in procFds[q] /\ m \notin gone(q)
      /\ \A q \in Process : procFds'[q] \subseteq procFds[q]
  <2>1. CASE Close(p, l)
    <3>1. /\ fds' = [fds EXCEPT ![p] = [m \in DOMAIN @ |->
                 IF m \in {handlers[p][l].fd} THEN [@[m] EXCEPT !.open = FALSE] ELSE @[m]]]
          /\ procFds' = [procFds EXCEPT ![p] = @ \ {handlers[p][l].fd}]
      BY <2>1 DEF Close, Drop
    <3>2. \A q : gone(q) = {m \in DOMAIN fds[q] : q = p /\ m = handlers[p][l].fd}
      BY <2>1
    <3> HIDE DEF gone
    <3> QED BY <3>1, <3>2 DEF IInv, Typed
  <2>2. CASE ~Close(p, l)
    <3>1. /\ fds' = [q \in Process |-> [m \in DOMAIN fds[q] |->
                 IF OnVolume(fds[q][m].path) THEN [fds[q][m] EXCEPT !.open = FALSE]
                 ELSE fds[q][m]]]
          /\ procFds' = [q \in Process |->
                 {m \in procFds[q] : ~(Open(q, m) /\ OnVolume(fds[q][m].path))}]
      BY <2>2 DEF CloseVolume
    <3>2. \A q : gone(q) = {m \in DOMAIN fds[q] : OnVolume(fds[q][m].path)}
      BY <2>2
    <3> HIDE DEF gone
    <3> QED BY <3>1, <3>2 DEF IInv, Typed, ProcFdsAgree
  <2> QED BY <2>1, <2>2
<1> HIDE DEF gone
<1>4. ASSUME NEW q \in Process, NEW m \in DOMAIN fds[q], NEW e, e = fds[q][m]
      PROVE  /\ EntryOK(fds'[q][m]) /\ (fds'[q][m].open <=> e.open /\ m \notin gone(q))
             /\ fds'[q][m].path = e.path /\ fds'[q][m].flags = e.flags
  <2>1. EntryOK(e)
    BY <1>4 DEF IInv, NumbersOK
  <2>2. CASE m \in gone(q)
    <3>1. fds'[q][m] = [e EXCEPT !.open = FALSE]
      BY <1>3, <1>4, <2>2
    <3> QED BY <2>1, <2>2, <3>1, ChangedEntry
  <2>3. CASE m \notin gone(q)
    <3>1. fds'[q][m] = e
      BY <1>3, <1>4, <2>3
    <3> QED BY <2>1, <2>3, <3>1 DEF EntryOK
  <2> QED BY <2>2, <2>3
<1>5. \A q \in Process : \A m \in DOMAIN fds[q] :
        fds'[q][m].open <=> fds[q][m].open /\ m \notin gone(q)
  BY <1>4
<1>6. ASSUME NEW q \in Process
      PROVE  procFds'[q] = {m \in DOMAIN fds'[q] : fds'[q][m].open}
  <2>1. procFds[q] = {m \in DOMAIN fds[q] : fds[q][m].open}
    BY DEF IInv, ProcFdsAgree, Open
  <2>2. procFds'[q] \subseteq DOMAIN fds[q]
    BY <1>3, <2>1
  <2> QED BY <1>3, <1>5, <2>1, <2>2
<1>7. ProcFdsAgree'
  BY <1>6 DEF ProcFdsAgree, Open
<1> QED BY <1>1, <1>2, <1>3, <1>4, <1>7, ChangeStep

\* The next number is new to the process and to its other handlers.
LEMMA NextIsNew ==
  ASSUME IInv, NEW p \in Process
  PROVE  /\ nextFd[p] \in Nat /\ nextFd[p] \notin DOMAIN fds[p]
         /\ \A k \in Listener : handlers[p][k].at = "measured" => handlers[p][k].fd # nextFd[p]
<1>1. nextFd[p] \in Nat
  BY DEF IInv, Typed
<1>2. nextFd[p] \notin DOMAIN fds[p]
  BY <1>1 DEF IInv, NumbersOK
<1>3. \A k \in Listener : handlers[p][k].at = "measured" => handlers[p][k].fd # nextFd[p]
  BY <1>1 DEF IInv, SpentOK, Spent
<1> QED BY <1>1, <1>2, <1>3

\* A handler takes the next number and enters nothing yet: it has the number,
\* or it throws and the number is lost.
LEMMA TakeStep ==
  ASSUME IInv, NEW p \in Process, NEW l \in Listener, NEW h, Sets(p, l, h),
         UNCHANGED <<fds, procFds>>,
         nextFd' = [nextFd EXCEPT ![p] = nextFd[p] + 1],
         h.at = "measured" => h.fd = nextFd[p]
  PROVE  IInv' /\ FilesKept
<1>1. OthersStay(p, l, h)
  BY OneHandler
<1>2. /\ nextFd' \in [Process -> Nat]
      /\ \A q \in Process : nextFd[q] \in Nat /\ nextFd'[q] \in Nat
      /\ \A q \in Process : nextFd[q] <= nextFd'[q]
      /\ nextFd[p] < nextFd'[p]
  BY DEF IInv, Typed
<1>3. Typed'
  BY <1>1, <1>2 DEF IInv, Typed, OthersStay
<1>4. NumbersOK'
  <2>1. ASSUME NEW q \in Process, NEW n \in DOMAIN fds'[q]
        PROVE  n \in Nat /\ n < nextFd'[q] /\ EntryOK(fds'[q][n])
    <3>1. n \in Nat /\ n < nextFd[q] /\ EntryOK(fds[q][n])
      BY DEF IInv, NumbersOK
    <3> QED BY <1>2, <3>1
  <2> QED BY <2>1 DEF NumbersOK, EntryOK
<1>5. SpentOK'
  <2>1. ASSUME NEW q \in Process, NEW k \in Listener, handlers'[q][k].at = "measured"
        PROVE  handlers'[q][k].fd \in Nat /\ handlers'[q][k].fd < nextFd'[q]
               /\ handlers'[q][k].fd \notin DOMAIN fds'[q]
    <3>1. CASE q = p /\ k = l
      BY <1>1, <1>2, <2>1, <3>1, NextIsNew DEF OthersStay
    <3>2. CASE ~(q = p /\ k = l)
      <4>1. handlers'[q][k] = handlers[q][k]
        BY <1>1, <3>2 DEF OthersStay
      <4>2. handlers[q][k].fd \in Nat /\ handlers[q][k].fd < nextFd[q]
            /\ handlers[q][k].fd \notin DOMAIN fds[q]
        BY <2>1, <4>1 DEF IInv, SpentOK, Spent
      <4> QED BY <1>2, <4>1, <4>2
    <3> QED BY <3>1, <3>2
  <2>2. ASSUME NEW q \in Process, NEW j \in Listener, NEW k \in Listener, j # k,
               handlers'[q][j].at = "measured", handlers'[q][k].at = "measured"
        PROVE  handlers'[q][j].fd # handlers'[q][k].fd
    <3>1. CASE q = p /\ (j = l \/ k = l)
      BY <1>1, <2>2, <3>1, NextIsNew DEF OthersStay
    <3>2. CASE ~(q = p /\ (j = l \/ k = l))
      <4>1. handlers'[q][j] = handlers[q][j] /\ handlers'[q][k] = handlers[q][k]
        BY <1>1, <3>2 DEF OthersStay
      <4> QED BY <2>2, <4>1 DEF IInv, SpentOK
    <3> QED BY <3>1, <3>2
  <2> QED BY <2>1, <2>2 DEF SpentOK, Spent
<1>6. ProcFdsAgree' /\ FilesKept
  BY DEF IInv, ProcFdsAgree, Open, FilesKept
<1> QED BY <1>1, <1>3, <1>4, <1>5, <1>6 DEF IInv, OthersStay

LEMMA OpenCheckedStep ==
  ASSUME IInv, NEW p \in Process, NEW l \in Listener, OpenChecked(p, l)
  PROVE  IInv' /\ FilesKept
<1> DEFINE h == handlers[p][l]
           g == [h EXCEPT !.at = "measured", !.fd = nextFd[p], !.data = nodes[h.path].data]
<1>1. h.at = "opened" /\ HandlerOK(h)
  BY DEF OpenChecked, Step, IInv, HandlersOK
<1>2. CASE Throw(p, l) /\ NoFds
  BY <1>2, IdleGoesOn, QuietStep DEF Throw, Continue
<1>3. CASE /\ nextFd' = [nextFd EXCEPT ![p] = nextFd[p] + 1]
           /\ Register(p, nextFd[p], Entry(h, 0)) /\ Answer(p, l)
  <2>1. GoesOn(p, l, Idle)
    BY <1>3, IdleGoesOn DEF Answer
  <2>2. EntryOK(Entry(h, 0)) /\ Entry(h, 0).open
    BY DEF EntryOK, Entry
  <2>3. /\ nextFd' \in [Process -> Nat] /\ nextFd[p] < nextFd'[p]
        /\ \A q \in Process : nextFd[q] <= nextFd'[q]
    BY <1>3 DEF IInv, Typed
  <2> QED BY <1>3, <2>1, <2>2, <2>3, NextIsNew, EnterStep
<1>4. CASE /\ nextFd' = [nextFd EXCEPT ![p] = nextFd[p] + 1]
           /\ UNCHANGED <<fds, procFds>>
           /\ Continue(p, l, g) \/ Throw(p, l)
  <2>1. CASE Continue(p, l, g)
    <3>1. HandlerOK(g) /\ g.fd = nextFd[p]
      BY <1>1 DEF HandlerOK
    <3> HIDE DEF g
    <3>2. Sets(p, l, g)
      BY <2>1, <3>1 DEF Continue, Sets
    <3> QED BY <1>4, <3>1, <3>2, TakeStep
  <2>2. CASE Throw(p, l)
    <3>1. Sets(p, l, Idle) /\ Idle.at # "measured"
      BY <2>2, IdleGoesOn DEF Throw, Continue, GoesOn
    <3> QED BY <1>4, <3>1, TakeStep
  <2> QED BY <1>4, <2>1, <2>2
<1> QED BY <1>2, <1>3, <1>4 DEF OpenChecked

LEMMA OpenMeasuredStep ==
  ASSUME IInv, NEW p \in Process, NEW l \in Listener, OpenMeasured(p, l)
  PROVE  IInv' /\ FilesKept
<1> DEFINE h == handlers[p][l]
<1>1. /\ h.at = "measured" /\ Register(p, h.fd, Entry(h, Len(h.data)))
      /\ Answer(p, l) /\ nextFd' = nextFd
  BY DEF OpenMeasured, Step
<1>2. GoesOn(p, l, Idle)
  BY <1>1, IdleGoesOn DEF Answer
<1>3. EntryOK(Entry(h, Len(h.data))) /\ Entry(h, Len(h.data)).open
  BY DEF EntryOK, Entry
<1>4. /\ h.fd \in Nat /\ h.fd < nextFd'[p] /\ h.fd \notin DOMAIN fds[p]
      /\ \A k \in Listener : k # l /\ handlers[p][k].at = "measured" => handlers[p][k].fd # h.fd
  BY <1>1 DEF IInv, SpentOK, Spent
<1>5. nextFd' \in [Process -> Nat] /\ \A q \in Process : nextFd[q] <= nextFd'[q]
  BY <1>1 DEF IInv, Typed
<1> HIDE DEF h
<1> QED BY <1>1, <1>2, <1>3, <1>4, <1>5, EnterStep

LEMMA ChdirDoneStep ==
  ASSUME IInv, NEW p \in Process, NEW l \in Listener, ChdirDone(p, l)
  PROVE  IInv' /\ FilesKept
<1>1. handlers' = [handlers EXCEPT ![p][l] = Idle] /\ UNCHANGED <<fds, nextFd, procFds>>
  BY DEF ChdirDone, Answer
<1>2. GoesOn(p, l, Idle)
  BY <1>1, IdleGoesOn
<1>3. /\ fds' = [q \in Process |-> fds'[q]] /\ procFds' = [q \in Process |-> procFds'[q]]
  BY <1>1 DEF IInv, Typed
<1>4. \A q \in Process : \A n \in DOMAIN fds[q] : EntryOK(fds'[q][n])
  BY <1>1 DEF IInv, NumbersOK
<1>5. ProcFdsAgree'
  BY <1>1 DEF IInv, ProcFdsAgree, Open
<1> QED BY <1>1, <1>2, <1>3, <1>4, <1>5, ChangeStep

-----------------------------------------------------------------------------
(***************************************************************************)
(* Calls and reboots                                                       *)
(***************************************************************************)
\* The handlers that start or end all at once have no number.
LEMMA FreshHandlers ==
  ASSUME IInv, nextFd' = nextFd,
         handlers' = [q \in Process |-> [k \in Listener |-> handlers'[q][k]]],
         \A q \in Process, k \in Listener :
           \/ handlers'[q] = handlers[q]
           \/ HandlerOK(handlers'[q][k]) /\ handlers'[q][k].at # "measured",
         fds' = [q \in Process |-> fds'[q]],
         procFds' = [q \in Process |-> procFds'[q]],
         \A q \in Process : DOMAIN fds'[q] \subseteq DOMAIN fds[q],
         \A q \in Process : \A n \in DOMAIN fds'[q] : fds'[q][n] = fds[q][n],
         ProcFdsAgree'
  PROVE  IInv' /\ FilesKept
<1>1. Typed'
  BY DEF IInv, Typed
<1>2. NumbersOK'
  BY DEF IInv, NumbersOK
<1>3. HandlersOK'
  <2>1. ASSUME NEW q \in Process, NEW k \in Listener PROVE HandlerOK(handlers'[q][k])
    <3>1. CASE handlers'[q] = handlers[q]
      BY <3>1 DEF IInv, HandlersOK
    <3>2. CASE handlers'[q] # handlers[q]
      BY <3>2
    <3> QED BY <3>1, <3>2
  <2> QED BY <2>1 DEF HandlersOK, HandlerOK
<1>4. SpentOK'
  <2>1. ASSUME NEW q \in Process, NEW k \in Listener, handlers'[q][k].at = "measured"
        PROVE  handlers'[q] = handlers[q]
    BY <2>1
  <2> QED BY <2>1 DEF IInv, SpentOK, Spent
<1>5. FilesKept
  BY DEF FilesKept
<1> QED BY <1>1, <1>2, <1>3, <1>4, <1>5 DEF IInv

LEMMA CallStep ==
  ASSUME IInv, NEW p \in Process, NEW call, HandlerOK(call), call.at # "measured",
         Call(p, call)
  PROVE  IInv' /\ FilesKept
<1>1. HandlerOK(Idle) /\ Idle.at # "measured"
  BY DEF HandlerOK, Idle
<1>2. UNCHANGED <<fds, nextFd, procFds>>
  BY DEF Call
<1>3. /\ handlers' = [q \in Process |-> [k \in Listener |-> handlers'[q][k]]]
      /\ \A q \in Process : q # p => handlers'[q] = handlers[q]
      /\ \A k \in Listener : handlers'[p][k] \in {call, Idle}
  BY DEF Call, IInv, Typed, Listener
<1>4. \A q \in Process, k \in Listener :
        \/ handlers'[q] = handlers[q]
        \/ HandlerOK(handlers'[q][k]) /\ handlers'[q][k].at # "measured"
  BY <1>1, <1>3
<1>5. fds' = [q \in Process |-> fds'[q]] /\ procFds' = [q \in Process |-> procFds'[q]]
  BY <1>2 DEF IInv, Typed
<1>6. ProcFdsAgree'
  BY <1>2 DEF IInv, ProcFdsAgree, Open
<1> QED BY <1>2, <1>3, <1>4, <1>5, <1>6, FreshHandlers

LEMMA ProgramStep ==
  ASSUME IInv, NEW p \in Process, Program(p)
  PROVE  IInv' /\ FilesKept
<1>1. \E call : HandlerOK(call) /\ call.at # "measured" /\ Call(p, call)
  BY DEF Program, HandlerOK, OpenCall, PathCall
<1> QED BY <1>1, CallStep

LEMMA RebootStep ==
  ASSUME IInv, Reboot
  PROVE  IInv' /\ FilesKept
<1>1. HandlerOK(Idle) /\ Idle.at # "measured"
  BY DEF HandlerOK, Idle
<1>2. /\ nextFd' = nextFd
      /\ handlers' = [q \in Process |-> [k \in Listener |-> Idle]]
      /\ fds' = [q \in Process |-> [n \in {m \in DOMAIN fds[q] : Open(q, m)} |-> fds[q][n]]]
      /\ procFds' = [q \in Process |-> procFds[q] \cup {n \in DOMAIN fds[q] : Open(q, n)}]
  BY DEF Reboot, Listener
<1>3. /\ handlers' = [q \in Process |-> [k \in Listener |-> handlers'[q][k]]]
      /\ \A q \in Process, k \in Listener : handlers'[q][k] = Idle
      /\ fds' = [q \in Process |-> fds'[q]] /\ procFds' = [q \in Process |-> procFds'[q]]
  BY <1>2
<1>4. \A q \in Process :
        /\ DOMAIN fds'[q] = {m \in DOMAIN fds[q] : fds[q][m].open}
        /\ \A n \in DOMAIN fds'[q] : fds'[q][n] = fds[q][n]
        /\ procFds'[q] = {m \in DOMAIN fds[q] : fds[q][m].open}
  BY <1>2 DEF IInv, ProcFdsAgree, Open
<1>5. ProcFdsAgree'
  BY <1>4 DEF ProcFdsAgree, Open
<1> QED BY <1>1, <1>2, <1>3, <1>4, <1>5, FreshHandlers

-----------------------------------------------------------------------------
LEMMA IInvInit ==
  ASSUME Init
  PROVE  IInv
<1>1. \A p \in Process :
        /\ Cardinality(DOMAIN InitialFds[p]) \in Nat
        /\ DOMAIN InitialFds[p] = 3..(2 + Cardinality(DOMAIN InitialFds[p]))
        /\ \A n \in DOMAIN InitialFds[p] : EntryOK(InitialFds[p][n]) /\ InitialFds[p][n].open
  BY FdsAssumption, FS_CardinalityType DEF EntryOK, Fd
<1>2. Typed
  BY <1>1, FdsAssumption DEF Init, Typed, Listener
<1>3. NumbersOK
  <2>1. ASSUME NEW p \in Process, NEW n \in DOMAIN fds[p]
        PROVE  n \in Nat /\ n < nextFd[p] /\ EntryOK(fds[p][n])
    <3>1. n \in 3..(2 + Cardinality(DOMAIN InitialFds[p])) /\ EntryOK(fds[p][n])
      BY <1>1 DEF Init
    <3>2. nextFd[p] = 3 + Cardinality(DOMAIN InitialFds[p])
      BY DEF Init
    <3> QED BY <1>1, <3>1, <3>2
  <2> QED BY <2>1 DEF NumbersOK
<1>4. \A p \in Process, l \in Listener : handlers[p][l] = Idle
  BY DEF Init, Listener
<1>5. HandlersOK /\ SpentOK
  BY <1>4 DEF HandlersOK, SpentOK, HandlerOK, Idle
<1>6. ProcFdsAgree
  BY <1>1 DEF Init, ProcFdsAgree, Open
<1> QED BY <1>2, <1>3, <1>5, <1>6 DEF IInv

LEMMA IInvNext ==
  ASSUME IInv, [Next]_vars
  PROVE  IInv' /\ FilesKept
<1>1. ASSUME NEW p \in Process, Program(p) PROVE IInv' /\ FilesKept
  BY <1>1, ProgramStep
<1>2. ASSUME NEW p \in Process, NEW l \in Listener, Handle(p, l) PROVE IInv' /\ FilesKept
  BY <1>2, OpenFileStep, OpenCheckedStep, OpenMeasuredStep, FetchStep, MergeStep,
     AdvanceStep, CloseStep, PathStep, ChdirDoneStep DEF Handle
<1>3. CASE Reboot
  BY <1>3, RebootStep
<1>4. CASE UNCHANGED vars
  <2>1. UNCHANGED <<fds, nextFd, procFds, handlers>>
    BY <1>4 DEF vars
  <2>2. IInv'
    BY <2>1 DEF IInv, Typed, NumbersOK, HandlersOK, SpentOK, Spent, ProcFdsAgree, Open
  <2> QED BY <2>1, <2>2 DEF FilesKept
<1> QED BY <1>1, <1>2, <1>3, <1>4 DEF Next, Listener

\* In every reachable state the list under /proc/<pid>/fd is that of the open
\* descriptors (registerProcFd and removeProcFd), whoever opened and closed.
THEOREM ProcListsDescriptors == Spec => []ProcFdsAgree
<1>1. IInv => ProcFdsAgree
  BY DEF IInv
<1>2. IInv /\ [Next]_vars => IInv'
  BY IInvNext
<1> QED BY <1>1, <1>2, IInvInit, PTL DEF Spec

\* No step of any caller moves a descriptor to another file: the number that
\* open takes before it awaits the file system is nobody else's.
THEOREM DescriptorsKeepFiles == Spec => DescriptorKeepsFile
<1>1. IInv /\ [Next]_vars => IInv'
  BY IInvNext
<1>2. IInv /\ [Next]_vars => [FilesKept]_vars
  BY IInvNext
<1> QED BY <1>1, <1>2, IInvInit, PTL DEF Spec, DescriptorKeepsFile, FilesKept

-----------------------------------------------------------------------------
(***************************************************************************)
(* Bytes                                                                   *)
(***************************************************************************)
List(s) == s \in Seq(Range(s))

FilesOK == \A q \in DOMAIN nodes : IsNode(nodes[q])

PositionsOK == \A p \in Process : \A n \in DOMAIN fds[p] : fds[p][n].position \in Nat

\* What the handlers of open, read and write keep of a file over an await, and
\* that they have a descriptor of their process.
Keeps(p, h) ==
  /\ h.at \in {"open", "opened", "measured"} => List(h.data)
  /\ h.at \in {"read", "fetched"} =>
       /\ h = [f \in {"at", "fd", "length", "data"} |-> h[f]]
       /\ h.fd \in DOMAIN fds[p] /\ h.length \in Nat /\ List(h.data)
  /\ h.at \in {"write", "merge", "written"} =>
       /\ h = [f \in {"at", "fd", "bytes", "data"} |-> h[f]]
       /\ h.fd \in DOMAIN fds[p] /\ h.bytes = <<p>> /\ List(h.data)

KeptOK == \A p \in Process, l \in Listener : Keeps(p, handlers[p][l])

BytesOK == IInv /\ FilesOK /\ PositionsOK /\ KeptOK

-----------------------------------------------------------------------------
(* Merged *)

LEMMA Lists ==
  /\ List(<<>>)
  /\ \A S : \A s \in Seq(S) : List(s)
  /\ \A s : List(s) => Len(s) \in Nat /\ DOMAIN s = 1..Len(s)
<1>1. ASSUME NEW S, NEW s \in Seq(S) PROVE List(s)
  <2>1. s = [i \in 1..Len(s) |-> s[i]] /\ Len(s) \in Nat /\ DOMAIN s = 1..Len(s)
    OBVIOUS
  <2>2. \A i \in 1..Len(s) : s[i] \in Range(s)
    BY <2>1 DEF Range
  <2> QED  BY <2>1, <2>2 DEF List
<1>2. List(<<>>)
  BY DEF List
<1> QED  BY <1>1, <1>2 DEF List

LEMMA MinOf ==
  ASSUME NEW a \in Nat, NEW b \in Nat
  PROVE  Min({a, b}) = IF a <= b THEN a ELSE b
BY DEF Min

\* The list t is s but for one byte, which is new or comes after the end.
OneByteMore(s, t) ==
  /\ List(t)
  /\ \E m \in 0..Len(s) :
       /\ Len(t) = IF m < Len(s) THEN Len(s) ELSE Len(s) + 1
       /\ \A i \in 1..Len(s) : i # m + 1 => t[i] = s[i]

LEMMA MergedIs ==
  ASSUME NEW s, List(s), NEW at \in Nat, NEW b
  PROVE  OneByteMore(s, Merged(s, at, <<b>>))
<1> DEFINE m == IF at <= Len(s) THEN at ELSE Len(s)
           T == Range(s) \cup {b}
           u == SubSeq(s, 1, m)
           v == SubSeq(s, at + 2, Len(s))
<1>1. Len(s) \in Nat /\ s \in Seq(T) /\ m \in 0..Len(s)
  BY DEF List
<1>2. Slice(s, 0, at) = u
  BY <1>1, MinOf DEF Slice
<1>3. Len(<<b>>) = 1 /\ Slice(s, at + Len(<<b>>), Len(s)) = v
  <2>1. Min({Len(s), Len(s)}) = Len(s)
    BY <1>1, MinOf
  <2>2. Len(<<b>>) = 1 /\ at + 1 + 1 = at + 2
    OBVIOUS
  <2>3. Slice(s, at + 1, Len(s)) = SubSeq(s, at + 2, Len(s))
    BY <2>1, <2>2 DEF Slice
  <2> QED  BY <2>2, <2>3
<1>4. /\ u \in Seq(T) /\ Len(u) = m /\ \A i \in 1..m : u[i] = s[i]
  BY <1>1
<1>5. /\ v \in Seq(T) /\ Len(v) = IF m < Len(s) THEN Len(s) - m - 1 ELSE 0
      /\ \A i \in 1..Len(v) : m < Len(s) /\ v[i] = s[m + 1 + i]
  <2>1. CASE at < Len(s)
    BY <1>1, <2>1
  <2>2. CASE ~(at < Len(s))
    <3>1. v = <<>> /\ m = Len(s)
      BY <1>1, <2>2
    <3> QED  BY <1>1, <3>1
  <2> QED  BY <2>1, <2>2
<1> DEFINE w == (u \o <<b>>) \o v
<1> HIDE DEF u, v
<1>6. <<b>> \in Seq(T) /\ <<b>>[1] = b
  OBVIOUS
<1>7. /\ u \o <<b>> \in Seq(T) /\ Len(u \o <<b>>) = m + 1 /\ (u \o <<b>>)[m + 1] = b
      /\ \A i \in 1..m : (u \o <<b>>)[i] = s[i]
  BY <1>1, <1>4, <1>6
<1> DEFINE x == u \o <<b>>
<1> HIDE DEF x
<1>8. /\ x \in Seq(T) /\ Len(x) = m + 1 /\ x[m + 1] = b
      /\ \A i \in 1..m : x[i] = s[i]
  BY <1>7 DEF x
<1>9. /\ x \o v \in Seq(T) /\ Len(x \o v) = IF m < Len(s) THEN Len(s) ELSE Len(s) + 1
      /\ \A i \in 1..m + 1 : (x \o v)[i] = x[i]
      /\ \A i \in m + 2..Len(s) : (x \o v)[i] = s[i]
  <2> HIDE DEF m, T
  <2>1. x \o v \in Seq(T) /\ Len(x \o v) = Len(x) + Len(v)
    BY <1>5, <1>8
  <2>2. \A i \in 1..m + 1 : (x \o v)[i] = x[i]
    BY <1>1, <1>5, <1>8
  <2>3. ASSUME NEW i \in m + 2..Len(s) PROVE (x \o v)[i] = s[i]
    <3>1. i - (m + 1) \in 1..Len(v) /\ m < Len(s)
      BY <1>1, <1>5
    <3>2. (x \o v)[i] = v[i - (m + 1)]
      BY <1>1, <1>5, <1>8, <3>1
    <3>3. v[i - (m + 1)] = s[m + 1 + (i - (m + 1))]
      BY <1>5, <3>1
    <3>4. m + 1 + (i - (m + 1)) = i
      BY <1>1
    <3> QED  BY <3>2, <3>3, <3>4
  <2>4. Len(x \o v) = IF m < Len(s) THEN Len(s) ELSE Len(s) + 1
    <3>1. Len(x \o v) = (m + 1) + (IF m < Len(s) THEN Len(s) - m - 1 ELSE 0)
      BY <1>5, <1>8, <2>1
    <3>2. CASE m < Len(s)
      BY <1>1, <3>1, <3>2
    <3>3. CASE ~(m < Len(s))
      <4>1. m = Len(s)
        BY <1>1, <3>3
      <4> QED  BY <1>1, <3>1, <3>3, <4>1
    <3> QED  BY <3>2, <3>3
  <2> QED  BY <2>1, <2>2, <2>3, <2>4
<1>10. Merged(s, at, <<b>>) = x \o v
  BY <1>2, <1>3 DEF Merged, x
<1> HIDE DEF m, T
<1>11. \A i \in 1..Len(s) : i # m + 1 => (x \o v)[i] = s[i]
  BY <1>1, <1>8, <1>9
<1>13. List(x \o v)
  BY <1>9, Lists
<1> QED  BY <1>1, <1>9, <1>10, <1>11, <1>13 DEF OneByteMore

LEMMA OneUnlike ==
  ASSUME NEW s, List(s), NEW at \in Nat, NEW b
  PROVE  Cardinality(Unlike(s, Merged(s, at, <<b>>))) <= 1
<1> DEFINE t == Merged(s, at, <<b>>)
<1>0. OneByteMore(s, t)
  BY MergedIs
<1> HIDE DEF t
<1>1. PICK m \in 0..Len(s) :
        /\ Len(t) = IF m < Len(s) THEN Len(s) ELSE Len(s) + 1
        /\ \A i \in 1..Len(s) : i # m + 1 => t[i] = s[i]
  BY <1>0 DEF OneByteMore
<1>2. Len(s) \in Nat /\ DOMAIN s = 1..Len(s) /\ DOMAIN t = 1..Len(t)
  BY <1>0, Lists DEF OneByteMore
<1>3. Unlike(s, t) \subseteq {m + 1}
  BY <1>1, <1>2 DEF Unlike
<1>4. IsFiniteSet({m + 1}) /\ Cardinality({m + 1}) = 1
  BY FS_Singleton
<1>5. Cardinality(Unlike(s, t)) <= 1
  BY <1>3, <1>4, FS_Subset
<1> QED  BY <1>5 DEF t

-----------------------------------------------------------------------------
(* The steps *)

BytesKept == FilesOK' /\ PositionsOK' /\ KeptOK'

LEMMA KeptStep ==
  ASSUME BytesOK, NEW p \in Process, NEW l \in Listener, NEW h, Keeps(p, h),
         handlers' = [handlers EXCEPT ![p][l] = h],
         \A q \in Process : DOMAIN fds[q] \subseteq DOMAIN fds'[q]
  PROVE  KeptOK'
<1>1. \A q \in Process, k \in Listener :
        handlers'[q][k] = IF q = p /\ k = l THEN h ELSE handlers[q][k]
  BY DEF BytesOK, IInv, Typed
<1>2. \A q \in Process, k \in Listener : Keeps(q, handlers'[q][k])
  BY <1>1 DEF BytesOK, KeptOK
<1>3. ASSUME NEW q \in Process, NEW k \in Listener, NEW g, Keeps(q, g), g = handlers'[q][k]
      PROVE  Keeps(q, handlers[q][k])'
  BY <1>3 DEF Keeps
<1> QED  BY <1>2, <1>3 DEF KeptOK

LEMMA EndKeeps ==
  ASSUME NEW p
  PROVE  /\ Keeps(p, Idle) /\ Keeps(p, [at |-> "unmounted"])
         /\ \A path : Keeps(p, [at |-> "entered", path |-> path])
BY DEF Keeps, Idle

\* A handler that leaves the descriptors alone.
LEMMA QuietBytes ==
  ASSUME BytesOK, NEW p \in Process, NEW l \in Listener, NEW h, Keeps(p, h),
         handlers' = [handlers EXCEPT ![p][l] = h], NoFds, FilesOK'
  PROVE  BytesKept
<1>1. fds' = fds
  BY DEF NoFds
<1>2. PositionsOK'
  BY <1>1 DEF BytesOK, PositionsOK
<1> QED  BY <1>1, <1>2, KeptStep DEF BytesKept

LEMMA NewNodes ==
  /\ IsNode(NewFile)
  /\ \A mode : IsNode(NewDir(mode))
  /\ FilesOK => \A q, n : IsNode(n) => \A r \in DOMAIN With(q, n) : IsNode(With(q, n)[r])
<1>1. IsNode(NewFile) /\ \A mode : IsNode(NewDir(mode))
  BY DEF IsNode, NewFile, NewDir
<1> QED  BY <1>1 DEF FilesOK, With

LEMMA OpenFileBytes ==
  ASSUME BytesOK, NEW p \in Process, NEW l \in Listener, OpenFile(p, l)
  PROVE  BytesKept
<1> DEFINE h == handlers[p][l]
           g == [h EXCEPT !.at = "opened", !.node = nodes'[h.path]]
<1>1. NoFds /\ h.at = "open" /\ HandlerOK(h) /\ Keeps(p, h)
  BY DEF OpenFile, Step, BytesOK, IInv, HandlersOK, KeptOK
<1>2. FilesOK'
  <2>1. CASE nodes' = nodes
    BY <2>1 DEF BytesOK, FilesOK
  <2>2. CASE nodes' = With(h.path, NewFile)
    BY <2>2, NewNodes DEF BytesOK, FilesOK
  <2> QED  BY <2>1, <2>2 DEF OpenFile
<1>3. CASE handlers' = [handlers EXCEPT ![p][l] = Idle]
  BY <1>1, <1>2, <1>3, EndKeeps, QuietBytes
<1>4. CASE handlers' = [handlers EXCEPT ![p][l] = g]
  <2>1. g.at = "opened" /\ g.data = h.data
    BY <1>1 DEF HandlerOK
  <2>2. Keeps(p, g)
    BY <1>1, <2>1 DEF Keeps
  <2> HIDE DEF g
  <2> QED  BY <1>1, <1>2, <1>4, <2>2, QuietBytes
<1> QED  BY <1>3, <1>4 DEF OpenFile, Continue, Throw

LEMMA FetchBytes ==
  ASSUME BytesOK, NEW p \in Process, NEW l \in Listener, ReadFile(p, l) \/ WriteFetch(p, l)
  PROVE  BytesKept
<1> DEFINE h == handlers[p][l]
           path == fds[p][h.fd].path
<1>1. NoFds /\ FilesOK' /\ Keeps(p, h)
  BY DEF ReadFile, WriteFetch, Fetch, NoNodes, BytesOK, FilesOK, KeptOK
<1>2. CASE handlers' = [handlers EXCEPT ![p][l] = Idle]
  BY <1>1, <1>2, EndKeeps, QuietBytes
<1>3. CASE ~(handlers' = [handlers EXCEPT ![p][l] = Idle])
  <2>1. path \in DOMAIN nodes
    BY <1>3 DEF ReadFile, WriteFetch, Fetch, Throw, Continue, IsFile
  <2>2. List(nodes[path].data)
    BY <2>1 DEF BytesOK, FilesOK, IsNode, List
  <2>3. CASE ReadFile(p, l)
    <3> DEFINE g == [h EXCEPT !.at = "fetched", !.data = nodes[path].data]
    <3>1. h.at = "read" /\ handlers' = [handlers EXCEPT ![p][l] = g]
      BY <1>3, <2>3 DEF ReadFile, Fetch, Throw, Continue, Step
    <3>2. Keeps(p, g)
      BY <1>1, <2>2, <3>1 DEF Keeps
    <3> HIDE DEF g
    <3> QED  BY <1>1, <3>1, <3>2, QuietBytes
  <2>4. CASE WriteFetch(p, l)
    <3> DEFINE g == [h EXCEPT !.at = "merge", !.data = nodes[path].data]
    <3>1. h.at = "write" /\ handlers' = [handlers EXCEPT ![p][l] = g]
      BY <1>3, <2>4 DEF WriteFetch, Fetch, Throw, Continue, Step
    <3>2. Keeps(p, g)
      BY <1>1, <2>2, <3>1 DEF Keeps
    <3> HIDE DEF g
    <3> QED  BY <1>1, <3>1, <3>2, QuietBytes
  <2> QED  BY <2>3, <2>4
<1> QED  BY <1>2, <1>3

LEMMA MergeBytes ==
  ASSUME BytesOK, NEW p \in Process, NEW l \in Listener, WriteMerged(p, l)
  PROVE  BytesKept
<1> DEFINE h == handlers[p][l]
           e == fds[p][h.fd]
           t == Merged(h.data, e.position, h.bytes)
           g == [h EXCEPT !.at = "written"]
<1>1. h.at = "merge" /\ Keeps(p, h) /\ NoFds
  BY DEF WriteMerged, Step, BytesOK, KeptOK
<1>2. h.fd \in DOMAIN fds[p] /\ h.bytes = <<p>> /\ List(h.data) /\ e.position \in Nat
  BY <1>1 DEF Keeps, BytesOK, PositionsOK
<1>3. List(t)
  BY <1>2, MergedIs DEF OneByteMore
<1>4. CASE IsFile(e.path)
  <2>1. /\ nodes' = [nodes EXCEPT ![e.path].data = t]
        /\ handlers' = [handlers EXCEPT ![p][l] = g]
    BY <1>4 DEF WriteMerged, Continue
  <2>2. ASSUME NEW q \in DOMAIN nodes PROVE IsNode(nodes'[q])
    <3> HIDE DEF t
    <3>1. PICK n : n = nodes[q]
      OBVIOUS
    <3>2. IsNode(n)
      BY <3>1 DEF BytesOK, FilesOK
    <3>3. nodes'[q] = n \/ nodes'[q] = [n EXCEPT !.data = t]
      BY <2>1, <3>1
    <3>4. IsNode([n EXCEPT !.data = t])
      BY <1>3, <3>2 DEF IsNode, List
    <3> QED  BY <3>2, <3>3, <3>4
  <2>3. FilesOK'
    BY <2>1, <2>2 DEF FilesOK
  <2>4. Keeps(p, g)
    BY <1>1 DEF Keeps
  <2> HIDE DEF g
  <2> QED  BY <1>1, <2>1, <2>3, <2>4, QuietBytes
<1>5. CASE ~IsFile(e.path)
  <2>1. nodes' = nodes /\ handlers' = [handlers EXCEPT ![p][l] = Idle]
    BY <1>5 DEF WriteMerged, Throw, Continue
  <2>2. FilesOK'
    BY <2>1 DEF BytesOK, FilesOK
  <2> QED  BY <1>1, <2>1, <2>2, EndKeeps, QuietBytes
<1> QED  BY <1>4, <1>5

LEMMA MovedNodes ==
  ASSUME FilesOK, NEW old, NEW new
  PROVE  \A q \in DOMAIN Moved(old, new) : IsNode(Moved(old, new)[q])
<1> DEFINE below == {q \in DOMAIN nodes : IsPrefix(old, q)}
           to(q) == new \o SubSeq(q, Len(old) + 1, Len(q))
<1> SUFFICES ASSUME NEW q \in (DOMAIN nodes \ below) \cup {to(b) : b \in below}
             PROVE  IsNode(IF \E b \in below : to(b) = q
                           THEN nodes[CHOOSE b \in below : to(b) = q] ELSE nodes[q])
  BY DEF Moved
<1>1. below \subseteq DOMAIN nodes
  OBVIOUS
<1> HIDE DEF below, to
<1>2. CASE \E b \in below : to(b) = q
  BY <1>1, <1>2 DEF FilesOK
<1>3. CASE ~\E b \in below : to(b) = q
  BY <1>1, <1>3 DEF FilesOK
<1> QED  BY <1>2, <1>3

LEMMA PathBytes ==
  ASSUME BytesOK, NEW p \in Process, NEW l \in Listener,
         \/ Mkdir(p, l) \/ Readdir(p, l) \/ Unlink(p, l) \/ Rename(p, l)
         \/ Chdir(p, l) \/ Mount(p, l) \/ Unmount(p, l)
  PROVE  BytesKept
<1>1. NoFds
  BY DEF Mkdir, Readdir, Unlink, Rename, Chdir, Mount, Unmount, Act
<1>2. \E h : handlers' = [handlers EXCEPT ![p][l] = h] /\ Keeps(p, h)
  BY EndKeeps
     DEF Mkdir, Readdir, Unlink, Rename, Chdir, Mount, Unmount, Act, Answer, Throw, Continue
<1>3. FilesOK'
  <2>1. CASE nodes' = nodes
    BY <2>1 DEF BytesOK, FilesOK
  <2>2. CASE Mkdir(p, l)
    <3>1. nodes' = nodes \/ \E path : nodes' = With(path, NewDir(Mode777))
      BY <2>2 DEF Mkdir, Act
    <3> QED  BY <2>1, <3>1, NewNodes DEF BytesOK, FilesOK
  <2>3. CASE Unlink(p, l) \/ Unmount(p, l)
    <3>1. nodes' = nodes \/ \E gone : nodes' = Without(gone)
      BY <2>3 DEF Unlink, Unmount, Act, NoNodes
    <3> QED  BY <2>1, <3>1 DEF BytesOK, FilesOK, Without
  <2>4. CASE Rename(p, l)
    <3>1. nodes' = nodes \/ \E old, new : nodes' = Moved(old, new)
      BY <2>4 DEF Rename, Act
    <3> QED  BY <2>1, <3>1, MovedNodes DEF BytesOK, FilesOK
  <2>5. CASE Mount(p, l)
    <3>1. \/ nodes' = nodes
          \/ nodes' = [q \in DOMAIN nodes \cup DOMAIN Image |->
                         IF q \in DOMAIN Image THEN Image[q] ELSE nodes[q]]
      BY <2>5 DEF Mount, NoNodes
    <3> QED  BY <2>1, <3>1, NodesAssumption DEF BytesOK, FilesOK
  <2>6. CASE Readdir(p, l) \/ Chdir(p, l)
    BY <2>1, <2>6 DEF Readdir, Chdir, Act, NoNodes
  <2> QED  BY <2>2, <2>3, <2>4, <2>5, <2>6
<1> QED  BY <1>1, <1>2, <1>3, QuietBytes

\* A handler that ends and enters, closes or advances descriptors.
LEMMA EntryBytes ==
  ASSUME BytesOK, NEW p \in Process, NEW l \in Listener,
         handlers' = [handlers EXCEPT ![p][l] = Idle], NoNodes,
         \A q \in Process : DOMAIN fds[q] \subseteq DOMAIN fds'[q],
         \A q \in Process : \A n \in DOMAIN fds'[q] : fds'[q][n].position \in Nat
  PROVE  BytesKept
<1>1. FilesOK' /\ PositionsOK'
  BY DEF NoNodes, BytesOK, FilesOK, PositionsOK
<1> QED  BY <1>1, KeptStep, EndKeeps DEF BytesKept

LEMMA RegisterBytes ==
  ASSUME BytesOK, NEW p \in Process, NEW l \in Listener, NEW fd, NEW n \in Nat, NEW h,
         handlers' = [handlers EXCEPT ![p][l] = Idle], NoNodes, Register(p, fd, Entry(h, n))
  PROVE  BytesKept
<1>1. /\ \A q \in Process : q # p => fds'[q] = fds[q]
      /\ fds'[p] = [m \in DOMAIN fds[p] \cup {fd} |-> IF m = fd THEN Entry(h, n) ELSE fds[p][m]]
  BY DEF Register, BytesOK, IInv, Typed
<1>2. Entry(h, n).position \in Nat
  BY DEF Entry
<1>3. \A q \in Process : DOMAIN fds[q] \subseteq DOMAIN fds'[q]
  BY <1>1
<1>4. ASSUME NEW q \in Process, NEW m \in DOMAIN fds'[q] PROVE fds'[q][m].position \in Nat
  <2>1. CASE q # p
    BY <1>1, <2>1 DEF BytesOK, PositionsOK
  <2>2. CASE q = p
    BY <1>1, <1>2, <2>2 DEF BytesOK, PositionsOK
  <2> QED  BY <2>1, <2>2
<1> QED  BY <1>3, <1>4, EntryBytes

LEMMA OpenBytes ==
  ASSUME BytesOK, NEW p \in Process, NEW l \in Listener, OpenChecked(p, l) \/ OpenMeasured(p, l)
  PROVE  BytesKept
<1> DEFINE h == handlers[p][l]
<1>1. NoNodes /\ Keeps(p, h) /\ HandlerOK(h)
  BY DEF OpenChecked, OpenMeasured, BytesOK, KeptOK, IInv, HandlersOK
<1>2. CASE OpenMeasured(p, l)
  <2>1. /\ h.at = "measured" /\ Register(p, h.fd, Entry(h, Len(h.data)))
        /\ handlers' = [handlers EXCEPT ![p][l] = Idle]
    BY <1>2 DEF OpenMeasured, Step, Answer
  <2>2. Len(h.data) \in Nat
    BY <1>1, <2>1, Lists DEF Keeps
  <2> QED  BY <1>1, <2>1, <2>2, RegisterBytes
<1>3. CASE OpenChecked(p, l) /\ \E fd : Register(p, fd, Entry(h, 0)) /\ Answer(p, l)
  BY <1>1, <1>3, RegisterBytes DEF Answer
<1>4. CASE OpenChecked(p, l) /\ ~\E fd : Register(p, fd, Entry(h, 0)) /\ Answer(p, l)
  <2>1. /\ h.at = "opened" /\ fds' = fds
        /\ \/ Throw(p, l)
           \/ IsFile(h.path) /\ Continue(p, l, [h EXCEPT !.at = "measured", !.fd = nextFd[p],
                                                         !.data = nodes[h.path].data])
    BY <1>4 DEF OpenChecked, Step, NoFds
  <2>2. FilesOK' /\ PositionsOK'
    BY <1>1, <2>1 DEF NoNodes, BytesOK, FilesOK, PositionsOK
  <2>3. CASE Throw(p, l)
    BY <2>1, <2>2, <2>3, KeptStep, EndKeeps DEF BytesKept, Throw, Continue
  <2>4. CASE ~Throw(p, l)
    <3> DEFINE g == [h EXCEPT !.at = "measured", !.fd = nextFd[p], !.data = nodes[h.path].data]
    <3>1. IsFile(h.path) /\ handlers' = [handlers EXCEPT ![p][l] = g]
      BY <2>1, <2>4 DEF Continue
    <3>2. List(nodes[h.path].data)
      BY <3>1 DEF IsFile, BytesOK, FilesOK, IsNode, List
    <3>3. Keeps(p, g)
      BY <1>1, <2>1, <3>2 DEF HandlerOK, Keeps
    <3> HIDE DEF g
    <3> QED  BY <2>1, <2>2, <3>1, <3>3, KeptStep DEF BytesKept
  <2> QED  BY <2>3, <2>4
<1> QED  BY <1>2, <1>3, <1>4

LEMMA SliceLength ==
  ASSUME NEW s, List(s), NEW from \in Nat, NEW to \in Nat
  PROVE  Len(Slice(s, from, to)) \in Nat
<1>1. Len(s) \in Nat /\ s \in Seq(Range(s))
  BY DEF List
<1>2. PICK n \in Nat : Min({to, Len(s)}) = n /\ n <= Len(s)
  BY <1>1, MinOf
<1>3. SubSeq(s, from + 1, n) \in Seq(Range(s))
  BY <1>1, <1>2
<1> QED  BY <1>2, <1>3 DEF Slice

LEMMA AdvanceBytes ==
  ASSUME BytesOK, NEW p \in Process, NEW l \in Listener, ReadDone(p, l) \/ WriteDone(p, l)
  PROVE  BytesKept
<1> DEFINE h == handlers[p][l]
           e == fds[p][h.fd]
<1>1. NoNodes /\ Keeps(p, h) /\ handlers' = [handlers EXCEPT ![p][l] = Idle]
  BY DEF ReadDone, WriteDone, Answer, BytesOK, KeptOK
<1>2. \E n \in Nat : Advance(p, h.fd, n)
  <2>1. CASE ReadDone(p, l)
    <3>1. /\ h.at = "fetched"
          /\ Advance(p, h.fd, Len(Slice(h.data, e.position, e.position + h.length)))
      BY <2>1 DEF ReadDone, Step
    <3>2. h.fd \in DOMAIN fds[p] /\ h.length \in Nat /\ List(h.data)
      BY <1>1, <3>1 DEF Keeps
    <3>3. e.position \in Nat
      BY <3>2 DEF BytesOK, PositionsOK
    <3>4. e.position + h.length \in Nat
      BY <3>2, <3>3
    <3> HIDE DEF h, e
    <3>5. Len(Slice(h.data, e.position, e.position + h.length)) \in Nat
      BY <3>2, <3>3, <3>4, SliceLength
    <3> QED  BY <3>1, <3>5
  <2>2. CASE WriteDone(p, l)
    <3>1. h.at = "written" /\ Advance(p, h.fd, Len(h.bytes))
      BY <2>2 DEF WriteDone, Step
    <3>2. h.bytes = <<p>>
      BY <1>1, <3>1 DEF Keeps
    <3>3. Len(<<p>>) = 1
      OBVIOUS
    <3> QED  BY <3>1, <3>2, <3>3
  <2> QED  BY <2>1, <2>2
<1>3. PICK n \in Nat : Advance(p, h.fd, n)
  BY <1>2
<1>4. /\ \A q \in Process : DOMAIN fds'[q] = DOMAIN fds[q]
      /\ \A q \in Process : \A m \in DOMAIN fds[q] :
           fds'[q][m] = fds[q][m] \/ fds'[q][m] = [fds[q][m] EXCEPT !.position = @ + n]
  BY <1>3 DEF Advance, BytesOK, IInv, Typed
<1>5. ASSUME NEW q \in Process, NEW m \in DOMAIN fds'[q] PROVE fds'[q][m].position \in Nat
  <2>1. PICK d : d = fds[q][m]
    OBVIOUS
  <2>2. EntryOK(d) /\ d.position \in Nat
    BY <1>4, <2>1 DEF BytesOK, IInv, NumbersOK, PositionsOK
  <2>3. PICK x \in Nat : x = d.position + n
    BY <2>2
  <2>4. fds'[q][m] = d \/ fds'[q][m] = [d EXCEPT !.position = x]
    BY <1>4, <2>1, <2>3
  <2>5. [d EXCEPT !.position = x].position = x
    BY <2>2 DEF EntryOK
  <2> HIDE DEF h, e
  <2> QED  BY <2>2, <2>4, <2>5
<1> QED  BY <1>1, <1>4, <1>5, EntryBytes

LEMMA CloseBytes ==
  ASSUME BytesOK, NEW p \in Process, NEW l \in Listener, Close(p, l) \/ CloseVolume(p, l)
  PROVE  BytesKept
<1>1. NoNodes /\ handlers' = [handlers EXCEPT ![p][l] = Idle]
  BY DEF Close, CloseVolume, Answer
<1>2. /\ \A q \in Process : DOMAIN fds'[q] = DOMAIN fds[q]
      /\ \A q \in Process : \A m \in DOMAIN fds[q] :
           fds'[q][m] = fds[q][m] \/ fds'[q][m] = [fds[q][m] EXCEPT !.open = FALSE]
  <2>1. CASE Close(p, l)
    <3>1. PICK gone : fds' = [fds EXCEPT ![p] = [n \in DOMAIN @ |->
                        IF n \in gone THEN [@[n] EXCEPT !.open = FALSE] ELSE @[n]]]
      BY <2>1 DEF Close, Drop
    <3> QED  BY <3>1 DEF BytesOK, IInv, Typed
  <2>2. CASE CloseVolume(p, l)
    BY <2>2 DEF CloseVolume
  <2> QED  BY <2>1, <2>2
<1>3. ASSUME NEW q \in Process, NEW m \in DOMAIN fds'[q] PROVE fds'[q][m].position \in Nat
  <2>1. PICK d : d = fds[q][m]
    OBVIOUS
  <2>2. EntryOK(d) /\ d.position \in Nat
    BY <1>2, <2>1 DEF BytesOK, IInv, NumbersOK, PositionsOK
  <2>3. fds'[q][m] = d \/ fds'[q][m] = [d EXCEPT !.open = FALSE]
    BY <1>2, <2>1
  <2>4. [d EXCEPT !.open = FALSE].position = d.position
    BY <2>2 DEF EntryOK
  <2> QED  BY <2>2, <2>3, <2>4
<1> QED  BY <1>1, <1>2, <1>3, EntryBytes

LEMMA ChdirDoneBytes ==
  ASSUME BytesOK, NEW p \in Process, NEW l \in Listener, ChdirDone(p, l)
  PROVE  BytesKept
<1>1. NoNodes /\ handlers' = [handlers EXCEPT ![p][l] = Idle] /\ fds' = fds
  BY DEF ChdirDone, Answer
<1> QED  BY <1>1, EntryBytes DEF BytesOK, PositionsOK

LEMMA CallBytes ==
  ASSUME BytesOK, NEW p \in Process, NEW call, Keeps(p, call), Call(p, call)
  PROVE  BytesKept
<1>1. fds' = fds /\ nodes' = nodes
  BY DEF Call
<1>2. /\ \A q \in Process : q # p => handlers'[q] = handlers[q]
      /\ \A k \in Listener : handlers'[p][k] \in {call, Idle}
  BY DEF Call, BytesOK, IInv, Typed, Listener
<1>3. \A q \in Process, k \in Listener : Keeps(q, handlers'[q][k])
  BY <1>2, EndKeeps DEF BytesOK, KeptOK
<1>4. KeptOK'
  BY <1>1, <1>3 DEF KeptOK, Keeps
<1> QED  BY <1>1, <1>4 DEF BytesKept, BytesOK, FilesOK, PositionsOK

LEMMA ProgramBytes ==
  ASSUME BytesOK, NEW p \in Process, Program(p)
  PROVE  BytesKept
<1>0. List(<<>>)
  BY Lists
<1>1. \A path, flags : Keeps(p, OpenCall(path, flags))
  BY <1>0 DEF Keeps, OpenCall
<1>2. \A path : \A op \in {"mkdir", "readdir", "unlink", "chdir"} : Keeps(p, PathCall(op, path))
  BY DEF Keeps, PathCall
<1>3. \A path, target : Keeps(p, [at |-> "rename", path |-> path, target |-> target])
  BY DEF Keeps
<1>4. \A fd \in DOMAIN fds[p] :
        /\ \A n \in Chunk : Keeps(p, [at |-> "read", fd |-> fd, length |-> n, data |-> <<>>])
        /\ Keeps(p, [at |-> "write", fd |-> fd, bytes |-> <<p>>, data |-> <<>>])
        /\ Keeps(p, [at |-> "close", fd |-> fd])
  BY <1>0, ChunkAssumption DEF Keeps
<1>5. Keeps(p, [at |-> "mount"]) /\ Keeps(p, [at |-> "unmount"])
  BY DEF Keeps
<1>6. \E call : Keeps(p, call) /\ Call(p, call)
  BY <1>1, <1>2, <1>3, <1>4, <1>5 DEF Program
<1> QED  BY <1>6, CallBytes

LEMMA RebootBytes ==
  ASSUME BytesOK, Reboot
  PROVE  BytesKept
<1>1. /\ nodes' = nodes
      /\ handlers' = [q \in Process |-> [k \in Listener |-> Idle]]
      /\ fds' = [q \in Process |-> [n \in {m \in DOMAIN fds[q] : Open(q, m)} |-> fds[q][n]]]
  BY DEF Reboot, Listener
<1>2. PositionsOK'
  BY <1>1 DEF BytesOK, PositionsOK
<1>3. KeptOK'
  BY <1>1 DEF KeptOK, Keeps, Idle
<1> QED  BY <1>1, <1>2, <1>3 DEF BytesKept, BytesOK, FilesOK

LEMMA BytesInit == Init => BytesOK
<1> SUFFICES ASSUME Init PROVE BytesOK
  OBVIOUS
<1>1. IInv
  BY IInvInit
<1>2. FilesOK
  BY NodesAssumption DEF Init, FilesOK
<1>3. PositionsOK
  BY FdsAssumption DEF Init, PositionsOK, Fd
<1>4. \A p \in Process, l \in Listener : handlers[p][l] = Idle
  BY DEF Init, Listener
<1>5. KeptOK
  BY <1>4, EndKeeps DEF KeptOK
<1> QED  BY <1>1, <1>2, <1>3, <1>5 DEF BytesOK

LEMMA BytesNext == BytesOK /\ [Next]_vars => BytesOK'
<1> SUFFICES ASSUME BytesOK, [Next]_vars PROVE BytesOK'
  OBVIOUS
<1>1. IInv'
  BY IInvNext DEF BytesOK
<1>2. ASSUME NEW p \in Process, Program(p) PROVE BytesKept
  BY <1>2, ProgramBytes
<1>3. ASSUME NEW p \in Process, NEW l \in Listener, Handle(p, l) PROVE BytesKept
  BY <1>3, OpenFileBytes, OpenBytes, FetchBytes, MergeBytes, AdvanceBytes, CloseBytes,
     PathBytes, ChdirDoneBytes DEF Handle
<1>4. ASSUME Reboot PROVE BytesKept
  BY <1>4, RebootBytes
<1>5. ASSUME UNCHANGED vars PROVE BytesKept
  <2>1. UNCHANGED <<nodes, fds, handlers>>
    BY <1>5 DEF vars
  <2> QED  BY <2>1 DEF BytesKept, BytesOK, FilesOK, PositionsOK, KeptOK, Keeps
<1>6. BytesKept
  BY <1>2, <1>3, <1>4, <1>5 DEF Next, Listener
<1> QED  BY <1>1, <1>6 DEF BytesOK, BytesKept

-----------------------------------------------------------------------------
(* What a write changes *)

\* The handler of a caller moves, if it does, to where its own step puts it.
LEMMA OwnStep ==
  ASSUME IInv, NEW q \in Process, NEW k \in Listener, Handle(q, k)
  PROVE  \A p \in Process, l \in Listener :
           ~(p = q /\ l = k) => handlers'[p][l] = handlers[p][l]
<1>1. \E h : handlers' = [handlers EXCEPT ![q][k] = h]
  BY DEF Handle, OpenFile, OpenChecked, OpenMeasured, ReadFile, ReadDone, WriteFetch, WriteMerged,
         WriteDone, Close, Mkdir, Readdir, Unlink, Rename, Chdir, ChdirDone, Mount, Unmount,
         CloseVolume, Fetch, Act, Answer, Throw, Continue
<1>2. PICK h : handlers' = [handlers EXCEPT ![q][k] = h]
  BY <1>1
<1> QED  BY <1>2 DEF IInv, Typed

\* Only the handler that writes the file goes on from where it has read it.
LEMMA Writer ==
  ASSUME IInv, [Next]_vars, NEW p \in Process, NEW l \in Listener, NEW path, Writes(p, l, path)
  PROVE  WriteMerged(p, l)
<1>1. handlers[p][l].at = "merge" /\ handlers'[p][l].at = "written"
  BY DEF Writes
<1>2. ~UNCHANGED vars
  BY <1>1 DEF vars
<1>3. ASSUME Reboot PROVE FALSE
  <2>1. handlers'[p][l] = Idle
    BY <1>3 DEF Reboot, Listener
  <2> QED  BY <1>1, <2>1 DEF Idle
<1>4. ASSUME NEW q \in Process, Program(q) PROVE FALSE
  <2>0. \E call : call.at # "written" /\ Call(q, call)
    BY <1>4 DEF Program, OpenCall, PathCall
  <2>1. PICK call : call.at # "written" /\ Call(q, call)
    BY <2>0
  <2>2. \A r \in Process : r # q => handlers'[r] = handlers[r]
    BY <2>1 DEF Call, IInv, Typed
  <2>3. \A j \in Listener : handlers'[q][j] \in {call, Idle}
    BY <2>1 DEF Call, IInv, Typed, Listener
  <2> QED  BY <1>1, <2>1, <2>2, <2>3 DEF Idle
<1>5. PICK q \in Process, k \in Listener : Handle(q, k)
  BY <1>2, <1>3, <1>4 DEF Next, Listener
<1>6. q = p /\ k = l
  BY <1>1, <1>5, OwnStep
<1>7. Handle(p, l)
  BY <1>5, <1>6
<1> QED  BY <1>1, <1>7
     DEF Handle, OpenFile, OpenChecked, OpenMeasured, ReadFile, ReadDone, WriteFetch,
         WriteDone, Close, Mkdir, Readdir, Unlink, Rename, Chdir, ChdirDone, Mount, Unmount,
         CloseVolume, Fetch, Step

\* What OnlyRacersLoseBytes says of a step.
OwnBytesOnly ==
  \A p \in Process, l \in 1..MaxListeners : \A path \in DOMAIN nodes :
    Writes(p, l, path) /\ handlers[p][l].data = nodes[path].data =>
      Cardinality(Unlike(nodes[path].data, nodes'[path].data)) <= Len(handlers[p][l].bytes)

LEMMA WriteChanges == BytesOK /\ [Next]_vars => OwnBytesOnly
<1> SUFFICES ASSUME BytesOK, [Next]_vars, NEW p \in Process, NEW l \in Listener,
                    NEW path \in DOMAIN nodes,
                    Writes(p, l, path), handlers[p][l].data = nodes[path].data
             PROVE  Cardinality(Unlike(nodes[path].data, nodes'[path].data))
                      <= Len(handlers[p][l].bytes)
  BY DEF OwnBytesOnly, Listener
<1> DEFINE h == handlers[p][l]
           e == fds[p][h.fd]
<1>1. WriteMerged(p, l) /\ h.at = "merge" /\ handlers'[p][l].at = "written" /\ e.path = path
  BY Writer DEF BytesOK, Writes
<1>2. h.fd \in DOMAIN fds[p] /\ h.bytes = <<p>> /\ List(h.data)
  BY <1>1 DEF BytesOK, KeptOK, Keeps
<1>3. e.position \in Nat
  BY <1>2 DEF BytesOK, PositionsOK
<1>4. IsFile(path)
  <2>1. ASSUME ~IsFile(path) PROVE FALSE
    <3>1. handlers' = [handlers EXCEPT ![p][l] = Idle]
      BY <1>1, <2>1 DEF WriteMerged, Throw, Continue
    <3>2. handlers'[p][l] = Idle
      BY <3>1 DEF BytesOK, IInv, Typed
    <3> QED  BY <1>1, <3>2 DEF Idle
  <2> QED  BY <2>1
<1>5. PICK t : t = Merged(h.data, e.position, <<p>>)
  OBVIOUS
<1>6. nodes' = [nodes EXCEPT ![path].data = t]
  BY <1>1, <1>2, <1>4, <1>5 DEF WriteMerged
<1>7. nodes'[path].data = t
  <2>1. IsNode(nodes[path])
    BY DEF BytesOK, FilesOK
  <2> QED  BY <1>6, <2>1 DEF IsNode
<1>8. Cardinality(Unlike(h.data, t)) <= 1
  BY <1>2, <1>3, <1>5, OneUnlike
<1>9. Len(h.bytes) = 1
  BY <1>2
<1> QED  BY <1>7, <1>8, <1>9

\* Bytes that a write does not name are lost only to a race: when the file is
\* as the write read it (the await of syscall_write between fs.read and
\* fs.write), writing it back changes the bytes at the position and no other,
\* for every number of writers, listeners and bytes.
THEOREM BytesAreLostToRacers == Spec => OnlyRacersLoseBytes
<1>1. BytesOK /\ [Next]_vars => [OwnBytesOnly]_vars
  BY WriteChanges
<1> QED  BY <1>1, BytesInit, BytesNext, PTL DEF Spec, OnlyRacersLoseBytes, OwnBytesOnly
=============================================================================
