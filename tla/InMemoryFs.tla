----------------------------- MODULE InMemoryFs -----------------------------
(***************************************************************************)
(* InMemoryFileSystem (core/fs/index.ts): the file system a kernel boots   *)
(* with.  It keeps every node twice: in the map "nodes" from paths to      *)
(* nodes, which every operation starts from, and in the map "children" of  *)
(* the node's directory.  Both hold the same JavaScript object until the   *)
(* file system is restored from a snapshot: serialize writes the map and   *)
(* the children of each node as separate JSON, so deserialize makes a      *)
(* child in its parent's map a COPY, which no longer follows the node of   *)
(* that path.                                                              *)
(*                                                                         *)
(* A path is a sequence of names, <<>> being "/".  Permissions, owners,    *)
(* times and virtual nodes are left out.  A mount point is never "/".      *)
(***************************************************************************)
EXTENDS Naturals, Sequences, FiniteSets

CONSTANTS
  Name,       \* the names of files and directories
  Data,       \* the contents of files
  Empty,      \* the contents of a new file
  NoData,     \* what a directory has for contents
  Path,       \* the paths that programs use, each with those it is below
  MaxNodes,   \* a bound on the nodes of the file system
  MaxSaves    \* a bound on the saves under way

ASSUME PathAssumption ==
  /\ Path \subseteq Seq(Name) /\ <<>> \in Path
  /\ \A p \in Path \ {<<>>} : SubSeq(p, 1, Len(p) - 1) \in Path
ASSUME BoundsAssumption == MaxNodes \in Nat /\ MaxSaves \in Nat
ASSUME DataAssumption == Empty \in Data /\ NoData \notin Data

VARIABLES
  nodes,      \* the map from paths to nodes
  saved,      \* what the next kernel would boot with, as deserialize reads it
  saves,      \* the calls of save_fs the host has still to handle
  missed,     \* the call it handled last failed
  booted,     \* the host has the snapshot of a kernel: saved is its file system
  circular,   \* a node is reachable from itself: JSON.stringify throws
  mounts      \* the images mounted, by mount point

onDisk == <<saved, saves, missed, booted>>
fsVars == <<nodes, onDisk, circular, mounts>>

Root == <<>>
Parent(p) == IF p = Root THEN Root ELSE SubSeq(p, 1, Len(p) - 1)
Base(p) == p[Len(p)]
Rest(p, q) == SubSeq(q, Len(p) + 1, Len(q))
Within(p, q) == Len(p) <= Len(q) /\ SubSeq(q, 1, Len(p)) = p

(***************************************************************************)
(* Nodes.  "kids" are the names in the map of children.  An entry stands   *)
(* for one node of a tree and the path to it.  The children that a restore *)
(* made copies are in "copies", with all that was below them.              *)
(***************************************************************************)
Entry == [at : Seq(Name) \ {Root}, kind : {"file", "dir"}, data : Data \cup {NoData}]
Node == [kind : {"file", "dir"}, data : Data \cup {NoData},
         kids : SUBSET Name, copies : SUBSET Entry]

Dir == [kind |-> "dir", data |-> NoData, kids |-> {}, copies |-> {}]
File(d) == [kind |-> "file", data |-> d, kids |-> {}, copies |-> {}]

Copied(node) == {Head(c.at) : c \in node.copies}

\* children.set and children.delete, with the nodes map.
WithKid(node, n) ==
  [node EXCEPT !.kids = @ \cup {n}, !.copies = {c \in @ : Head(c.at) # n}]

Put(fs, p, node) ==
  [q \in DOMAIN fs \cup {p} |->
     IF q = p THEN node
     ELSE IF q = Parent(p) THEN WithKid(fs[q], Base(p)) ELSE fs[q]]

Cut(fs, gone) ==
  [q \in DOMAIN fs \ gone |->
     [fs[q] EXCEPT !.kids = {n \in @ : Append(q, n) \notin gone},
                   !.copies = {c \in @ : Append(q, Head(c.at)) \notin gone}]]

IsDir(fs, p) == p \in DOMAIN fs /\ fs[p].kind = "dir"
IsFile(fs, p) == p \in DOMAIN fs /\ fs[p].kind = "file"

-----------------------------------------------------------------------------
(***************************************************************************)
(* What a walk down the children of p finds: the nodes of the map, as long *)
(* as the children are the nodes themselves, and then the copies.          *)
(***************************************************************************)
Linked(fs, p, q) ==
  /\ Within(p, q)
  /\ \A i \in (Len(p) + 1)..Len(q) :
       LET d == SubSeq(q, 1, i - 1)
       IN d \in DOMAIN fs /\ q[i] \in fs[d].kids \ Copied(fs[d])

Subtree(fs, p) == {q \in DOMAIN fs : Linked(fs, p, q)}

Entries(fs, p) ==
  LET met == Subtree(fs, p)
  IN {[at |-> Rest(p, q), kind |-> fs[q].kind, data |-> fs[q].data] : q \in met}
     \cup UNION {{[c EXCEPT !.at = Rest(p, q) \o @] : c \in fs[q].copies} : q \in met}

Below(fs, p) == {e \in Entries(fs, p) : e.at # Root}

\* serialize and deserialize: every node of the map gets copies of all below it.
Serialized(fs) ==
  [p \in DOMAIN fs |-> [fs[p] EXCEPT !.copies = Below(fs, p)]]

\* A node of a tree given by its entries, its children being the tree's own.
NodeAt(tree, r) ==
  LET e == CHOOSE x \in tree : x.at = r
  IN [kind |-> e.kind, data |-> e.data, copies |-> {},
      kids |-> {n \in Name : \E x \in tree : x.at = Append(r, n)}]

\* The file system with the nodes of a tree set below p, over what is there.
Graft(fs, p, tree) ==
  LET new == {p \o e.at : e \in tree}
      top == {Head(e.at) : e \in {x \in tree : Len(x.at) = 1}}
  IN [q \in DOMAIN fs \cup new |->
        IF q \in new THEN NodeAt(tree, Rest(p, q))
        ELSE IF q = p
        THEN [fs[p] EXCEPT !.kids = @ \cup top,
                           !.copies = {c \in @ : Head(c.at) \notin top}]
        ELSE fs[q]]

(***************************************************************************)
(* persist, called at the end of an operation, gives the host a copy and   *)
(* does not wait for it.  When it throws, what the operation has done      *)
(* stays.  Once the host has the snapshot of a kernel, Kernel.create takes *)
(* that, and what save_fs writes is never read: such calls are left out.   *)
(***************************************************************************)
Persisted(queue, fs) ==
  IF circular \/ booted THEN queue ELSE Append(queue, Serialized(fs))

Persist(fs) == Len(saves) < MaxSaves /\ saves' = Persisted(saves, fs)

\* The host handles commands in the order of the calls; the hook ignores
\* those that fail.  (A second that fails after the first changes nothing.)
SaveEnds ==
  /\ saves # <<>>
  /\ saves' = Tail(saves)
  /\ \/ saved' = Head(saves) /\ missed' = FALSE
     \/ ~missed /\ saved' = saved /\ missed' = TRUE
  /\ UNCHANGED <<nodes, booted, circular, mounts>>

FsInit ==
  /\ nodes = [p \in {Root} |-> Dir]
  /\ saved = nodes
  /\ saves = <<>>
  /\ missed = FALSE
  /\ booted = FALSE
  /\ circular = FALSE
  /\ mounts = <<>>

-----------------------------------------------------------------------------
(***************************************************************************)
(* Files and directories                                                   *)
(***************************************************************************)
Create(p, node) ==
  /\ Cardinality(DOMAIN nodes) < MaxNodes
  /\ p \notin DOMAIN nodes /\ IsDir(nodes, Parent(p))
  /\ nodes' = Put(nodes, p, node)
  /\ Persist(nodes')
  /\ UNCHANGED <<saved, missed, booted, circular, mounts>>

CreateDirectory(p) == Create(p, Dir)
CreateFile(p) == Create(p, File(Empty))

WriteFile(p, d) ==
  /\ IsFile(nodes, p)
  /\ nodes' = [nodes EXCEPT ![p].data = d]
  /\ Persist(nodes')
  /\ UNCHANGED <<saved, missed, booted, circular, mounts>>

\* (mutation) remove does not look whether a directory has children.
Removable_NotEmpty(p) ==
  /\ p \in DOMAIN nodes \ {Root}
  /\ IsDir(nodes, Parent(p))

Removable(p) ==
  /\ p \in DOMAIN nodes \ {Root}
  /\ nodes[p].kids = {}
  /\ IsDir(nodes, Parent(p))

Remove(p) ==
  /\ Removable(p)
  /\ nodes' = Cut(nodes, {p})
  /\ Persist(nodes')
  /\ UNCHANGED <<saved, missed, booted, circular, mounts>>

(***************************************************************************)
(* rename moves the object, then updatePaths walks down its children and   *)
(* enters each under its new path.  The children it walks are the node's   *)
(* own: after a restore they are copies, and they replace in the map the   *)
(* nodes that were used since.                                             *)
(***************************************************************************)
CanRename(old, new) ==
  /\ old \in DOMAIN nodes /\ new \notin DOMAIN nodes
  /\ IsDir(nodes, Parent(old)) /\ IsDir(nodes, Parent(new))

\* (mutation) updatePaths does not descend.
Moved_TopOnly(fs, old, new) ==
  LET tree == Entries(fs, old)
      rest == Cut(fs, {old \o e.at : e \in tree})
  IN [q \in DOMAIN rest \cup {new} |->
        IF q = new THEN NodeAt(tree, Root)
        ELSE IF q = Parent(new) THEN WithKid(rest[q], Base(new)) ELSE rest[q]]

Moved(fs, old, new) ==
  LET tree == Entries(fs, old)
      rest == Cut(fs, {old \o e.at : e \in tree})
      new_ == {new \o e.at : e \in tree}
  IN [q \in DOMAIN rest \cup new_ |->
        IF q \in new_ THEN NodeAt(tree, Rest(new, q))
        ELSE IF q = Parent(new) THEN WithKid(rest[q], Base(new)) ELSE rest[q]]

\* (mutation) rename persists before updatePaths.
Rename_PersistFirst(old, new) ==
  /\ CanRename(old, new) /\ ~Within(old, new)
  /\ \A e \in Entries(nodes, old) : new \o e.at \in Path
  /\ nodes' = Moved(nodes, old, new)
  /\ Persist(nodes)
  /\ UNCHANGED <<saved, missed, booted, circular, mounts>>

Rename(old, new) ==
  /\ CanRename(old, new) /\ ~Within(old, new)
  /\ \A e \in Entries(nodes, old) : new \o e.at \in Path
  /\ nodes' = Moved(nodes, old, new)
  /\ Persist(nodes')
  /\ UNCHANGED <<saved, missed, booted, circular, mounts>>

(***************************************************************************)
(* Nothing keeps a directory from being renamed to a path inside itself.   *)
(* updatePaths then goes round the cycle until the stack overflows: the    *)
(* nodes it met are left in the map under paths that only grow, and those  *)
(* that come after the cycle among the children of their directory are not *)
(* met.  A rename into a part of the tree that a copy stands for, which    *)
(* makes no cycle, is left out.                                            *)
(***************************************************************************)
RenameIntoItself(old, new) ==
  /\ CanRename(old, new) /\ Linked(nodes, old, Parent(new))
  /\ LET met == {old \o e.at : e \in Entries(nodes, old)}
         aside == {q \in met : /\ ~Within(q, Parent(new))
                               /\ Parent(q) # Parent(new)
                               /\ Within(Parent(q), Parent(new))}
     IN \E unmet \in SUBSET aside :
          nodes' = Cut(nodes, {q \in met : \A u \in unmet : ~Within(u, q)})
  /\ circular' = TRUE
  /\ UNCHANGED <<onDisk, mounts>>

-----------------------------------------------------------------------------
(***************************************************************************)
(* Disk images: the entries of a tree without its root.                    *)
(***************************************************************************)
\* nodes once the mount point is there, which mount creates (and persists).
WithMountPoint(p) == IF p \in DOMAIN nodes THEN nodes ELSE Put(nodes, p, Dir)

CanMountAt(p) ==
  /\ p # Root
  /\ IF p \in DOMAIN nodes THEN IsDir(nodes, p) ELSE IsDir(nodes, Parent(p))

Clash(p, image) == {e \in image : p \o e.at \in DOMAIN WithMountPoint(p)}

\* createDirectory throws after the directory is made when it cannot persist.
Stopped(p) == circular /\ p \notin DOMAIN nodes

MountImage(p, image) ==
  /\ CanMountAt(p) /\ ~Stopped(p) /\ Clash(p, image) = {}
  /\ nodes' = Graft(WithMountPoint(p), p, image)
  /\ mounts' = [q \in DOMAIN mounts \cup {p} |->
                  IF q = p THEN [image |-> image, created |-> p \notin DOMAIN nodes]
                  ELSE mounts[q]]
  /\ IF p \in DOMAIN nodes THEN Persist(nodes')
     ELSE /\ Len(saves) + 1 < MaxSaves
          /\ saves' = Persisted(Persisted(saves, WithMountPoint(p)), nodes')
  /\ UNCHANGED <<saved, missed, booted, circular>>

\* A name of the image is taken: the entries before it, in the order of their
\* depth, stay; there is neither a mount nor a persist.
MountFails(p, image) ==
  LET clash == Clash(p, image)
      depth(e) == Len(e.at)
      first == CHOOSE e \in clash : \A x \in clash : depth(e) <= depth(x)
  IN /\ CanMountAt(p)
     /\ Stopped(p) \/ clash # {}
     /\ \E done \in SUBSET (image \ clash) :
          /\ IF Stopped(p) THEN done = {}
             ELSE /\ \A e \in image : depth(e) < depth(first) => e \in done
                  /\ \A e \in done : depth(e) <= depth(first)
          /\ nodes' = Graft(WithMountPoint(p), p, done)
     /\ IF p \in DOMAIN nodes THEN UNCHANGED saves ELSE Persist(WithMountPoint(p))
     /\ UNCHANGED <<saved, missed, booted, circular, mounts>>

\* unmount takes out what the image held when it was mounted, deepest first.
UnmountImage(p) ==
  /\ p \in DOMAIN mounts
  /\ LET rest == Cut(nodes, {p \o e.at : e \in mounts[p].image})
         bare == mounts[p].created /\ p \in DOMAIN rest /\ rest[p].kids = {}
     IN nodes' = IF bare THEN Cut(rest, {p}) ELSE rest
  /\ mounts' = [q \in DOMAIN mounts \ {p} |-> mounts[q]]
  /\ Persist(nodes')
  /\ UNCHANGED <<saved, missed, booted, circular>>

-----------------------------------------------------------------------------
\* A new InMemoryFileSystem from what serialize wrote; it has no mounts.
\* The calls of save_fs still under way are lost, or handled before.
Restore(snapshot) ==
  /\ nodes' = snapshot
  /\ saves' = <<>> /\ missed' = FALSE
  /\ circular' = FALSE
  /\ mounts' = <<>>

FileOp ==
  \E p \in Path :
    \/ CreateDirectory(p) \/ CreateFile(p) \/ Remove(p)
    \/ \E d \in Data : WriteFile(p, d)
    \/ \E q \in Path : Rename(p, q) \/ RenameIntoItself(p, q)
=============================================================================
