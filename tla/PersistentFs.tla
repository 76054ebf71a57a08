----------------------------- MODULE PersistentFs -----------------------------
(***************************************************************************)
(* The file system on SQLite: core/fs/persistent.ts.                       *)
(*                                                                         *)
(* Its calls are asynchronous functions of one JavaScript thread: a call   *)
(* runs from the reply to one database statement until it has sent the     *)
(* next, and the calls of different callers interleave at every statement. *)
(* All of them use one connection, so a statement that one call sends      *)
(* while another has a transaction open executes inside that transaction.  *)
(*                                                                         *)
(* A statement and the handling of its reply are one step, unless the      *)
(* handler uses the cache; then the reply (pc "found", "inserted",         *)
(* "created", "committed") is handled in a later step.  Permissions,       *)
(* owners, times and the rows that only readdir and read return are left   *)
(* out.                                                                    *)
(***************************************************************************)
EXTENDS Integers, Sequences, SequencesExt, FiniteSetsExt

CONSTANTS Caller,    \* the concurrent callers of the file system
          Name,      \* names of files and directories
          Content,   \* contents of a file
          Empty,     \* the empty content
          MaxDepth,  \* bound: components of a path
          MaxId,     \* bound: the largest inode id; an insert beyond it fails
          Ops,       \* the operations that are called
          NoCaller, NoInode, NoBlob, NoEntry, NoNode

ASSUME ParameterAssumption ==
  /\ MaxDepth \in Nat \ {0}
  /\ MaxId \in Nat \ {0}
  /\ Empty \in Content
  /\ NoCaller \notin Caller
  /\ NoBlob \notin Content
  /\ Ops \subseteq {"open", "create", "read", "write", "mkdir", "readdir",
                    "unlink", "rename", "unmount"}

VARIABLES db,     \* the tables as the connection sees them
          saved,  \* the tables as of the last commit
          tx,     \* the caller whose transaction is open, or NoCaller
          cache,  \* PersistentFileSystem.cache
          call    \* per caller, the call in progress

vars == <<db, saved, tx, cache, call>>

Path == UNION {[1 .. n -> Name] : n \in 0 .. MaxDepth}
RootPath == <<>>
Id == 1 .. MaxId
RootId == 1

\* A row of inodes; len is the content whose length the column size holds.
Inode == [parent: Id, name: Name, kind: {"dir", "file"}, len: Content]

\* The tables inodes and file_data.
Tables == [ino: [Id -> Inode \cup {NoInode}],
           blob: [Id -> Content \cup {NoBlob}]]

\* What the code keeps of an Inode object: the row is read again for the rest.
Node == [id: Id, kind: {"dir", "file"}]
RootNode == [id |-> RootId, kind |-> "dir"]

\* The root has no parent and no name; its row is always there.
Live(t) == {x \in Id : x = RootId \/ t.ino[x] # NoInode}
NodeOf(t, x) == [id |-> x, kind |-> IF x = RootId THEN "dir" ELSE t.ino[x].kind]

ChildrenOf(t, d) == {x \in Id : t.ino[x] # NoInode /\ t.ino[x].parent = d}
Named(t, d, n) == {x \in ChildrenOf(t, d) : t.ino[x].name = n}

\* SELECT * FROM inodes WHERE parent_id = d AND name = n
Select(t, d, n) ==
  IF Named(t, d, n) = {}
    THEN NoNode
    ELSE NodeOf(t, CHOOSE x \in Named(t, d, n) : TRUE)

\* INTEGER PRIMARY KEY without AUTOINCREMENT: one more than the largest id.
NextId(t) == Max(Live(t)) + 1

\* FOREIGN KEY, UNIQUE and the bound on ids let the insert through.
CanInsert(t, d, n) == d \in Live(t) /\ Named(t, d, n) = {} /\ NextId(t) \in Id

Insert(t, d, n, kind) ==
  [t EXCEPT !.ino[NextId(t)] =
     [parent |-> d, name |-> n, kind |-> kind, len |-> Empty]]

\* The inode x and, by ON DELETE CASCADE, everything below it.
Below(t, x) ==
  LET level[n \in 0 .. MaxId] ==
        IF n = 0 THEN {x}
        ELSE level[n - 1] \cup UNION {ChildrenOf(t, y) : y \in level[n - 1]}
  IN level[MaxId]

Delete(t, x) ==
  [ino |-> [y \in Id |-> IF y \in Below(t, x) THEN NoInode ELSE t.ino[y]],
   blob |-> [y \in Id |-> IF y \in Below(t, x) THEN NoBlob ELSE t.blob[y]]]

ASSUME NoInodeAssumption == NoInode \notin Inode
ASSUME NoNodeAssumption == NoNode \notin Node /\ NoEntry \notin Node \cup {NoNode}

-----------------------------------------------------------------------------
(* Calls and the resolution of paths *)

Idle == [op |-> "none", path |-> RootPath, to |-> RootPath, data |-> Empty,
         pc |-> "idle", i |-> 0, dir |-> RootId, node |-> NoNode,
         got |-> NoNode]

Prefix(p, j) == SubSeq(p, 1, j)
Parent(p) == IF p = RootPath THEN RootPath ELSE Front(p)

\* lookup from component i on, in the directory d: it needs no statement as
\* long as the cache has the next prefix of p.
Found(n) == [select |-> FALSE, node |-> n]
Ask(j, d) == [select |-> TRUE, i |-> j, dir |-> d]

Walk(ca, p, i, d) ==
  LET open == {j \in i .. Len(p) : ca[Prefix(p, j)] \notin Node}
      j == Min(open)
  IN IF open = {} THEN Found(ca[p])
     ELSE IF ca[Prefix(p, j)] = NoNode THEN Found(NoNode)
     ELSE Ask(j, IF j = i THEN d ELSE ca[Prefix(p, j - 1)].id)

\* The root is always read again; a path the cache has is not walked.
Lookup(ca, p) ==
  IF p = RootPath THEN Ask(0, RootId)
  ELSE IF ca[p] # NoEntry THEN Found(ca[p])
  ELSE Walk(ca, p, 1, RootId)

\* Mutant: a parent that exists is taken for a directory.
IsDir_AnyNode(n) == n # NoNode

IsDir(n) == n # NoNode /\ n.kind = "dir"
IsFile(n) == n # NoNode /\ n.kind = "file"

\* The path whose directory a call looks up.
Target(k) == IF k.op = "rename" THEN k.to ELSE k.path

\* Mutant: mkdir leaves its transaction open when there is no such directory.
WithDir_NoRollback(k, n) ==
  LET k2 == [k EXCEPT !.dir = IF n = NoNode THEN RootId ELSE n.id] IN
  IF ~IsDir(n)
    THEN Idle
    ELSE [k2 EXCEPT !.pc = IF k.op = "rename" THEN "begin" ELSE "insert"]

\* Call k after it has the directory of its target.
WithDir(k, n) ==
  LET k2 == [k EXCEPT !.dir = IF n = NoNode THEN RootId ELSE n.id] IN
  IF ~IsDir(n)
    THEN IF k.op = "mkdir" THEN [k EXCEPT !.pc = "rollback"] ELSE Idle
    ELSE [k2 EXCEPT !.pc = IF k.op = "rename" THEN "begin" ELSE "insert"]

AskFor(k, pc, o) == [k EXCEPT !.pc = pc, !.i = o.i, !.dir = o.dir]

FindDir(ca, k) ==
  LET o == Lookup(ca, Parent(Target(k)))
  IN IF o.select THEN AskFor(k, "findDir", o) ELSE WithDir(k, o.node)

\* Call k after lookup has found n, or nothing, at its path.
WithNode(ca, k, n) ==
  LET k2 == [k EXCEPT !.node = n] IN
  CASE k.op = "create" /\ n = NoNode -> FindDir(ca, k2)
    [] k.op \in {"open", "create", "read"} /\ IsFile(n) ->
         [k2 EXCEPT !.pc = "touch"]
    [] k.op = "write" /\ IsFile(n) -> [k2 EXCEPT !.pc = "begin"]
    [] k.op = "unlink" /\ n # NoNode /\ k.path # RootPath ->
         [k2 EXCEPT !.pc = "kids"]
    [] k.op = "rename" /\ n # NoNode -> FindDir(ca, k2)
    [] k.op = "unmount" /\ n # NoNode -> [k2 EXCEPT !.pc = "begin"]
    [] OTHER -> Idle

Find(ca, k) ==
  LET o == Lookup(ca, k.path)
  IN IF o.select THEN AskFor(k, "find", o) ELSE WithNode(ca, k, o.node)

Init ==
  /\ db = [ino |-> [x \in Id |-> NoInode], blob |-> [x \in Id |-> NoBlob]]
  /\ saved = db
  /\ tx = NoCaller
  /\ cache = [p \in Path \ {RootPath} |-> NoEntry]
  /\ call = [c \in Caller |-> Idle]

\* A call begins.  Bound: the root is neither renamed nor unmounted, nor is
\* anything renamed to it.
Call(c, op, path, to, data) ==
  /\ call[c] = Idle
  /\ op \in {"rename", "unmount", "mkdir", "create"} => path # RootPath
  /\ op = "rename" <=> to # RootPath
  /\ op # "write" => data = Empty
  /\ LET k == [Idle EXCEPT !.op = op, !.path = path, !.to = to, !.data = data]
     IN call' = [call EXCEPT ![c] = IF op = "mkdir"
                                      THEN [k EXCEPT !.pc = "begin"]
                                      ELSE Find(cache, k)]
  /\ UNCHANGED <<db, saved, tx, cache>>

-----------------------------------------------------------------------------
(* Statements *)

At(c, pc) == call[c].pc = pc
Continue(c, k) == call' = [call EXCEPT ![c] = k]
GoTo(c, pc) == Continue(c, [call[c] EXCEPT !.pc = pc])
Return(c) == Continue(c, Idle)

\* A statement changes the tables; outside a transaction it commits itself.
Change(t) ==
  /\ db' = t
  /\ saved' = IF tx = NoCaller THEN t ELSE saved

\* The path a lookup in progress is about.
LookedUp(k) ==
  IF k.pc \in {"find", "found"} THEN k.path ELSE Parent(Target(k))

SelectStep(c) ==
  /\ At(c, "find") \/ At(c, "findDir")
  /\ LET k == call[c]
         n == IF k.i = 0 THEN RootNode
                         ELSE Select(db, k.dir, LookedUp(k)[k.i])
     IN Continue(c, [k EXCEPT !.got = n,
                              !.pc = IF k.pc = "find" THEN "found"
                                                      ELSE "foundDir"])
  /\ UNCHANGED <<db, saved, tx, cache>>

\* The rest of lookup after the reply: also a missing row is cached.
Selected(c) ==
  /\ At(c, "found") \/ At(c, "foundDir")
  /\ LET k == call[c]
         p == LookedUp(k)
         ca == IF k.i = 0 THEN cache
                          ELSE [cache EXCEPT ![Prefix(p, k.i)] = k.got]
         o == IF k.i = 0 \/ k.got = NoNode THEN Found(k.got)
                                           ELSE Walk(ca, p, k.i + 1, k.got.id)
     IN /\ cache' = ca
        /\ Continue(c,
             IF o.select
               THEN AskFor(k, IF k.pc = "found" THEN "find" ELSE "findDir", o)
               ELSE IF k.pc = "found" THEN WithNode(ca, k, o.node)
                                      ELSE WithDir(k, o.node))
  /\ UNCHANGED <<db, saved, tx>>

\* Mutant: BEGIN stands inside the try block, so that a call that cannot begin
\* sends ROLLBACK.
Begin_InsideTry(c) ==
  /\ At(c, "begin")
  /\ IF tx = NoCaller
       THEN /\ tx' = c
            /\ GoTo(c, CASE call[c].op = "mkdir" -> "begun"
                         [] call[c].op = "write" -> "replace"
                         [] call[c].op = "unlink" -> "delete"
                         [] call[c].op = "rename" -> "move"
                         [] call[c].op = "unmount" -> "remove")
       ELSE /\ GoTo(c, "rollback")
            /\ UNCHANGED tx
  /\ UNCHANGED <<db, saved, cache>>

\* BEGIN IMMEDIATE fails within a transaction, and so does the call.
Begin(c) ==
  /\ At(c, "begin")
  /\ IF tx = NoCaller
       THEN /\ tx' = c
            /\ GoTo(c, CASE call[c].op = "mkdir" -> "begun"
                         [] call[c].op = "write" -> "replace"
                         [] call[c].op = "unlink" -> "delete"
                         [] call[c].op = "rename" -> "move"
                         [] call[c].op = "unmount" -> "remove")
       ELSE /\ Return(c)
            /\ UNCHANGED tx
  /\ UNCHANGED <<db, saved, cache>>

\* mkdir looks up the parent inside its transaction.
Begun(c) ==
  /\ At(c, "begun")
  /\ Continue(c, FindDir(cache, call[c]))
  /\ UNCHANGED <<db, saved, tx, cache>>

InsertStep(c) ==
  /\ At(c, "insert")
  /\ LET k == call[c]
         new == [id |-> NextId(db), kind |-> IF k.op = "mkdir" THEN "dir"
                                                               ELSE "file"]
         name == Last(k.path)
     IN IF CanInsert(db, k.dir, name)
          THEN /\ Change(Insert(db, k.dir, name, new.kind))
               /\ Continue(c, [k EXCEPT !.node = new,
                                        !.pc = IF k.op = "mkdir"
                                                 THEN "inserted"
                                                 ELSE "insertBlob"])
          ELSE /\ IF k.op = "mkdir" THEN GoTo(c, "rollback") ELSE Return(c)
               /\ UNCHANGED <<db, saved>>
  /\ UNCHANGED <<tx, cache>>

\* FOREIGN KEY and PRIMARY KEY of file_data.
InsertBlob(c) ==
  /\ At(c, "insertBlob")
  /\ LET x == call[c].node.id
     IN IF x \in Live(db) /\ db.blob[x] = NoBlob
          THEN Change([db EXCEPT !.blob[x] = Empty]) /\ GoTo(c, "created")
          ELSE Return(c) /\ UNCHANGED <<db, saved>>
  /\ UNCHANGED <<tx, cache>>

\* createFileInternal and createDirectoryInternal cache what they created.
Created(c) ==
  /\ At(c, "created") \/ At(c, "inserted")
  /\ cache' = [cache EXCEPT ![call[c].path] = call[c].node]
  /\ GoTo(c, IF At(c, "created") THEN "touch" ELSE "commit")
  /\ UNCHANGED <<db, saved, tx>>

\* open and read end with the update of atime and of the cache.
Touch(c) ==
  /\ At(c, "touch")
  /\ cache' = [cache EXCEPT ![call[c].path] = call[c].node]
  /\ Return(c)
  /\ UNCHANGED <<db, saved, tx>>

\* REPLACE INTO file_data
Replace(c) ==
  /\ At(c, "replace")
  /\ LET x == call[c].node.id
     IN IF x \in Live(db)
          THEN Change([db EXCEPT !.blob[x] = call[c].data]) /\ GoTo(c, "size")
          ELSE GoTo(c, "rollback") /\ UNCHANGED <<db, saved>>
  /\ UNCHANGED <<tx, cache>>

\* UPDATE inodes SET size
Size(c) ==
  /\ At(c, "size")
  /\ LET x == call[c].node.id
     IN Change(IF db.ino[x] = NoInode THEN db
               ELSE [db EXCEPT !.ino[x].len = call[c].data])
  /\ GoTo(c, "commit")
  /\ UNCHANGED <<tx, cache>>

\* unlink refuses a directory that is not empty.
Kids(c) ==
  /\ At(c, "kids")
  /\ IF ChildrenOf(db, call[c].node.id) = {} THEN GoTo(c, "begin")
                                             ELSE Return(c)
  /\ UNCHANGED <<db, saved, tx, cache>>

DeleteStep(c) ==
  /\ At(c, "delete")
  /\ Change(Delete(db, call[c].node.id))
  /\ GoTo(c, "commit")
  /\ UNCHANGED <<tx, cache>>

\* UPDATE inodes SET parent_id, name: nothing is asked about where the new
\* directory lies.
Move(c) ==
  /\ At(c, "move")
  /\ LET k == call[c]
         x == k.node.id
         name == Last(k.to)
     IN IF db.ino[x] = NoInode
          THEN GoTo(c, "commit") /\ UNCHANGED <<db, saved>>
        ELSE IF k.dir \in Live(db) /\ Named(db, k.dir, name) \subseteq {x}
          THEN /\ Change([db EXCEPT !.ino[x] = [@ EXCEPT !.parent = k.dir,
                                                         !.name = name]])
               /\ GoTo(c, "commit")
          ELSE GoTo(c, "rollback") /\ UNCHANGED <<db, saved>>
  /\ UNCHANGED <<tx, cache>>

\* removeRecursive deletes what is below the mount point, children first.  A
\* directory that lies below itself has no leaf: the code descends for ever.
RemoveStep(c) ==
  /\ At(c, "remove")
  /\ \E x \in Below(db, call[c].node.id) :
       /\ ChildrenOf(db, x) = {}
       /\ Change(Delete(db, x))
       /\ GoTo(c, IF x = call[c].node.id THEN "commit" ELSE "remove")
  /\ UNCHANGED <<tx, cache>>

Commit(c) ==
  /\ At(c, "commit")
  /\ saved' = db
  /\ tx' = NoCaller
  /\ IF call[c].op = "mkdir" THEN Return(c) ELSE GoTo(c, "committed")
  /\ UNCHANGED <<db, cache>>

Rollback(c) ==
  /\ At(c, "rollback")
  /\ db' = saved
  /\ tx' = NoCaller
  /\ Return(c)
  /\ UNCHANGED <<saved, cache>>

\* Mutant: unlink leaves its path in the cache.
Committed_KeepsEntry(c) ==
  /\ At(c, "committed")
  /\ LET k == call[c]
     IN cache' = CASE k.op \in {"write", "unlink"} ->
                        [cache EXCEPT ![k.path] = k.node]
                   [] k.op = "unmount" -> [cache EXCEPT ![k.path] = NoEntry]
                   [] k.op = "rename" -> [cache EXCEPT ![k.path] = NoEntry,
                                                       ![k.to] = NoEntry]
  /\ Return(c)
  /\ UNCHANGED <<db, saved, tx>>

\* What write, unlink, unmount and rename do to the cache after the commit.
Committed(c) ==
  /\ At(c, "committed")
  /\ LET k == call[c]
     IN cache' = CASE k.op = "write" -> [cache EXCEPT ![k.path] = k.node]
                   [] k.op \in {"unlink", "unmount"} ->
                        [cache EXCEPT ![k.path] = NoEntry]
                   [] k.op = "rename" -> [cache EXCEPT ![k.path] = NoEntry,
                                                       ![k.to] = NoEntry]
  /\ Return(c)
  /\ UNCHANGED <<db, saved, tx>>

\* The application ends without notice; SQLite recovers the last commit.
Crash ==
  /\ db' = saved
  /\ tx' = NoCaller
  /\ cache' = [p \in Path \ {RootPath} |-> NoEntry]
  /\ call' = [c \in Caller |-> Idle]
  /\ UNCHANGED saved

\* The cache is an LRU map of 256 entries (LruCache); paths that have no part
\* in the model push an entry out at any time.
Evict(p) ==
  /\ cache[p] # NoEntry
  /\ cache' = [cache EXCEPT ![p] = NoEntry]
  /\ UNCHANGED <<db, saved, tx, call>>

Step(c) ==
  \/ SelectStep(c) \/ Selected(c) \/ Begin(c) \/ Begun(c) \/ InsertStep(c)
  \/ InsertBlob(c) \/ Created(c) \/ Touch(c) \/ Replace(c) \/ Size(c)
  \/ Kids(c) \/ DeleteStep(c) \/ Move(c) \/ RemoveStep(c) \/ Commit(c)
  \/ Rollback(c) \/ Committed(c)

Next ==
  \/ \E c \in Caller : Step(c)
  \/ \E c \in Caller, op \in Ops, path \in Path, to \in Path,
        data \in Content : Call(c, op, path, to, data)
  \/ \E p \in Path \ {RootPath} : Evict(p)
  \/ Crash

Spec == Init /\ [][Next]_vars

\* SQLite answers every statement and the thread handles every reply.
FairSpec == Spec /\ \A c \in Caller : WF_vars(Step(c))

-----------------------------------------------------------------------------
(* Properties *)

\* Whatever the interleaving and wherever a crash hits, the volume that is on
\* disk is consistent: the size of every inode is the length of its data.  The
\* two are written by two statements, with those of other callers between.
SizeIsLength ==
  \A x \in Id :
    saved.ino[x] # NoInode =>
      saved.ino[x].len = IF saved.blob[x] = NoBlob THEN Empty ELSE saved.blob[x]

\* No call leaves its transaction open, which would make every later write of
\* every caller fail: also a call that fails halfway commits or rolls back.
TransactionsEnd == \A c \in Caller : tx = c ~> tx # c

\* The node a path leads to in the tables.
NodeAt(t, p) ==
  LET at[n \in 0 .. Len(p)] ==
        IF n = 0 THEN RootNode
        ELSE IF at[n - 1] = NoNode THEN NoNode
        ELSE Select(t, at[n - 1].id, p[n])
  IN at[Len(p)]

\* While no call is in progress, the cache says of a path what the tables say,
\* the negative entries included.
CacheAgrees ==
  (\A c \in Caller : call[c] = Idle) =>
    \A p \in DOMAIN cache : cache[p] # NoEntry => cache[p] = NodeAt(db, p)

\* Every inode lies in a directory, and can be reached from the root.
TreeOK ==
  \A x \in Live(db) \ {RootId} :
    /\ db.ino[x].parent \in Live(db)
    /\ NodeOf(db, db.ino[x].parent).kind = "dir"
    /\ x \in Below(db, RootId)
=============================================================================
