---------------------------- MODULE VolumesProofs ----------------------------
(***************************************************************************)
(* Proofs about InMemoryFs and Volumes.                                    *)
(*                                                                         *)
(* One invariant carries the theorems: TreesOK, which says that the trees  *)
(* in memory, on disk and on the way to the disk are nodes whose names     *)
(* resolve and whose copies form trees, and that the last of those on the  *)
(* way only has what memory has, with ImagesOK, that a readable image file *)
(* holds a tree.  The lemmas before it say what each helper of the model   *)
(* (Put, Cut, Entries, NodeAt, Moved, Graft, Serialized) keeps of that,    *)
(* and of every node being listed in its directory.                        *)
(***************************************************************************)
EXTENDS Volumes, SequenceTheorems, TLAPS

L == INSTANCE ListLemmas

-----------------------------------------------------------------------------
(* Which images are registered *)

LEMMA RegisteredStep ==
  ASSUME VolumesRegistered, [VolumesNext]_vars
  PROVE  VolumesRegistered'
<1>1. CASE FileOp /\ UNCHANGED kernelVars
  <2>1. mounts' = mounts /\ (circular => circular')
    BY <1>1 DEF FileOp, CreateDirectory, CreateFile, Create, Remove, WriteFile, Rename,
                RenameIntoItself
  <2> QED  BY <1>1, <2>1 DEF VolumesRegistered, kernelVars
<1>2. ASSUME NEW p \in Path, NEW f \in ImageFile, Mount(f, p) PROVE VolumesRegistered'
  BY <1>2 DEF Mount, MountImage, Free, VolumesRegistered
<1>3. ASSUME NEW p \in Path, NEW f \in ImageFile, MountTaken(f, p) \/ MountUnreadable(f, p)
      PROVE  VolumesRegistered'
  BY <1>3 DEF MountTaken, MountUnreadable, MountFails, VolumesRegistered, kernelVars
<1>4. ASSUME NEW p \in Path, Unmount(p) PROVE VolumesRegistered'
  BY <1>4 DEF Unmount, UnmountImage, VolumesRegistered
<1>5. ASSUME NEW p \in Path, WriteBack(p) \/ WriteBackFails(p) PROVE VolumesRegistered'
  BY <1>5 DEF WriteBack, WriteBackFails, fsVars, VolumesRegistered
<1>6. CASE Reboot \/ Crash
  BY <1>6 DEF Reboot, Crash, Restore, VolumesRegistered
<1>7. CASE UNCHANGED vars
  BY <1>7 DEF vars, fsVars, kernelVars, VolumesRegistered
<1>8. CASE SaveEnds /\ UNCHANGED kernelVars
  BY <1>8 DEF SaveEnds, kernelVars, VolumesRegistered
<1> QED  BY <1>1, <1>2, <1>3, <1>4, <1>5, <1>6, <1>7, <1>8, ImageAssumption DEF VolumesNext

\* The kernel has the image file of everything that is mounted in
\* mountedVolumes (syscall_mount, syscall_unmount), and of what is being
\* written back, for every number of images, paths and restarts.
THEOREM MountsAreRegistered == Spec => []VolumesRegistered
<1>1. VolumesInit => VolumesRegistered
  BY DEF VolumesInit, FsInit, VolumesRegistered
<1> QED  BY <1>1, RegisteredStep, PTL DEF Spec

-----------------------------------------------------------------------------
(* Paths *)

LEMMA RestFacts ==
  ASSUME NEW p \in Seq(Name), NEW s \in Seq(Name)
  PROVE  /\ p \o s \in Seq(Name) /\ Len(p \o s) = Len(p) + Len(s)
         /\ Rest(p, p \o s) = s /\ Within(p, p \o s)
         /\ \A n \in Name : Append(p \o s, n) = p \o Append(s, n)
         /\ p \o Root = p
<1>1. p \o s \in Seq(Name) /\ Len(p \o s) = Len(p) + Len(s)
  OBVIOUS
<1>2. Rest(p, p \o s) = s
  <2>1. Len(p) \in Nat /\ Len(s) \in Nat
    OBVIOUS
  <2> DEFINE t == Rest(p, p \o s)
  <2>2. t \in Seq(Name) /\ Len(t) = Len(s)
    BY <1>1, <2>1 DEF Rest
  <2>3. ASSUME NEW i \in 1..Len(s) PROVE t[i] = s[i]
    <3>1. t[i] = (p \o s)[Len(p) + 1 + i - 1]
      BY <1>1, <2>1 DEF Rest
    <3>2. (p \o s)[Len(p) + i] = s[i]
      BY <2>1
    <3>3. Len(p) + 1 + i - 1 = Len(p) + i
      BY <2>1
    <3> QED  BY <3>1, <3>2, <3>3
  <2> HIDE DEF t
  <2>4. t = s
    BY <2>2, <2>3, SeqEqual
  <2> QED  BY <2>4 DEF t
<1>3. Within(p, p \o s)
  <2>1. Len(p) \in Nat /\ Len(s) \in Nat
    OBVIOUS
  <2> DEFINE t == SubSeq(p \o s, 1, Len(p))
  <2>2. t \in Seq(Name) /\ Len(t) = Len(p) /\ \A i \in 1..Len(p) : t[i] = p[i]
    BY <1>1, <2>1
  <2> HIDE DEF t
  <2>3. t = p
    BY <2>2, SeqEqual
  <2> QED  BY <1>1, <2>1, <2>3 DEF t, Within
<1>4. ASSUME NEW n \in Name PROVE Append(p \o s, n) = p \o Append(s, n)
  <2>1. <<n>> \in Seq(Name)
    OBVIOUS
  <2>2. Append(p \o s, n) = (p \o s) \o <<n>> /\ Append(s, n) = s \o <<n>>
    BY <1>1, AppendIsConcat
  <2> QED  BY <2>1, <2>2, ConcatAssociative
<1>5. p \o Root = p
  BY ConcatEmptySeq DEF Root
<1> QED  BY <1>1, <1>2, <1>3, <1>4, <1>5

LEMMA WithinIsConcat ==
  ASSUME NEW p \in Seq(Name), NEW q \in Seq(Name), Within(p, q)
  PROVE  Rest(p, q) \in Seq(Name) /\ q = p \o Rest(p, q) /\ Len(Rest(p, q)) = Len(q) - Len(p)
<1>1. Len(p) \in Nat /\ Len(q) \in Nat /\ Len(p) <= Len(q) /\ SubSeq(q, 1, Len(p)) = p
  BY DEF Within
<1>2. Rest(p, q) \in Seq(Name) /\ Len(Rest(p, q)) = Len(q) - Len(p)
  BY <1>1 DEF Rest
<1>3. \A i \in 1..Len(p) : p[i] = q[i]
  <2>1. \A i \in 1..Len(p) : SubSeq(q, 1, Len(p))[i] = q[i]
    BY <1>1
  <2> QED  BY <1>1, <2>1
<1>4. \A i \in 1..(Len(q) - Len(p)) : Rest(p, q)[i] = q[Len(p) + i]
  BY <1>1 DEF Rest
<1> DEFINE r == Rest(p, q)
<1> HIDE DEF r
<1>5. /\ r \in Seq(Name) /\ Len(r) = Len(q) - Len(p)
      /\ \A i \in 1..(Len(q) - Len(p)) : r[i] = q[Len(p) + i]
  BY <1>2, <1>4 DEF r
<1>6. p \o r \in Seq(Name) /\ Len(p \o r) = Len(q)
  BY <1>1, <1>5
<1>7. ASSUME NEW i \in 1..Len(q) PROVE (p \o r)[i] = q[i]
  <2>1. CASE i <= Len(p)
    BY <1>1, <1>3, <1>5, <2>1
  <2>2. CASE ~(i <= Len(p))
    <3>1. (p \o r)[i] = r[i - Len(p)]
      BY <1>1, <1>5, <2>2
    <3>2. i - Len(p) \in 1..(Len(q) - Len(p)) /\ Len(p) + (i - Len(p)) = i
      BY <1>1, <2>2
    <3> QED  BY <1>5, <3>1, <3>2
  <2> QED  BY <2>1, <2>2
<1>8. q = p \o r
  BY <1>6, <1>7, SeqEqual
<1> QED  BY <1>2, <1>8 DEF r

LEMMA ParentBase ==
  ASSUME NEW p \in Seq(Name), p # Root
  PROVE  /\ Parent(p) \in Seq(Name) /\ Base(p) \in Name /\ Append(Parent(p), Base(p)) = p
         /\ Len(Parent(p)) = Len(p) - 1 /\ Len(p) >= 1
<1>1. Len(p) \in Nat /\ Len(p) >= 1
  BY EmptySeq DEF Root
<1>0. PICK m \in Nat : m = Len(p) - 1
  BY <1>1
<1>2. Parent(p) = SubSeq(p, 1, m)
  BY <1>0 DEF Parent
<1>3. Parent(p) \in Seq(Name) /\ Len(Parent(p)) = Len(p) - 1
  BY <1>0, <1>1, <1>2
<1>4. Base(p) \in Name
  BY <1>1 DEF Base
<1>5. \A i \in 1..(Len(p) - 1) : Parent(p)[i] = p[i]
  BY <1>0, <1>1, <1>2
<1> DEFINE t == Append(Parent(p), Base(p))
<1>6. t \in Seq(Name) /\ Len(t) = Len(p)
  BY <1>1, <1>3, <1>4
<1>7. \A i \in 1..Len(p) : t[i] = p[i]
  BY <1>1, <1>3, <1>4, <1>5 DEF Base
<1> HIDE DEF t
<1>8. t = p
  BY <1>6, <1>7, SeqEqual
<1> QED  BY <1>1, <1>3, <1>4, <1>8 DEF t

LEMMA AppendParent ==
  ASSUME NEW p \in Seq(Name), NEW n \in Name
  PROVE  /\ Append(p, n) \in Seq(Name) \ {Root} /\ Parent(Append(p, n)) = p
         /\ Base(Append(p, n)) = n /\ Len(Append(p, n)) = Len(p) + 1
<1> DEFINE q == Append(p, n)
<1>1. q \in Seq(Name) /\ Len(q) = Len(p) + 1 /\ q[Len(p) + 1] = n /\ Len(p) \in Nat
      /\ \A i \in 1..Len(p) : q[i] = p[i]
  OBVIOUS
<1> HIDE DEF q
<1>2. q # Root
  BY <1>1, EmptySeq DEF Root
<1>3. Parent(q) \in Seq(Name) /\ Len(Parent(q)) = Len(p)
  BY <1>1, <1>2 DEF Parent
<1>4. \A i \in 1..Len(p) : Parent(q)[i] = p[i]
  BY <1>1, <1>2 DEF Parent
<1>5. Parent(q) = p
  BY <1>3, <1>4, SeqEqual
<1> QED  BY <1>1, <1>2, <1>5 DEF q, Base

LEMMA BelowFacts ==
  ASSUME NEW p \in Seq(Name), NEW t \in Seq(Name), NEW b \in Name
  PROVE  /\ p \o Append(t, b) = Append(p \o t, b)
         /\ Parent(p \o Append(t, b)) = p \o t /\ Base(p \o Append(t, b)) = b
<1>1. p \o t \in Seq(Name) /\ Append(p \o t, b) = p \o Append(t, b)
  BY RestFacts
<1>2. Parent(Append(p \o t, b)) = p \o t /\ Base(Append(p \o t, b)) = b
  BY <1>1, AppendParent
<1> QED  BY <1>1, <1>2

LEMMA Prefixes ==
  ASSUME NEW q \in Seq(Name), q # Root
  PROVE  \A i \in 0..(Len(q) - 1) : SubSeq(q, 1, i) = SubSeq(Parent(q), 1, i)
<1>1. PICK m \in Nat : m = Len(q) - 1
  BY ParentBase
<1>2. PICK P \in Seq(Name) : P = SubSeq(q, 1, m) /\ P = Parent(q) /\ Len(P) = m
  BY <1>1, ParentBase DEF Parent
<1>3. \A j \in 1..m : P[j] = q[j]
  BY <1>1, <1>2
<1>4. ASSUME NEW i \in 0..m PROVE SubSeq(q, 1, i) = SubSeq(P, 1, i)
  <2>0. i \in Nat /\ i <= Len(q) /\ i <= Len(P)
    BY <1>1, <1>2
  <2>1. PICK s \in Seq(Name) : s = SubSeq(q, 1, i) /\ Len(s) = i /\ \A j \in 1..i : s[j] = q[j]
    <3>1. SubSeq(q, 1, i) \in Seq(Name) /\ Len(SubSeq(q, 1, i)) = i
      BY <2>0
    <3>2. \A j \in 1..i : SubSeq(q, 1, i)[j] = q[j]
      BY <2>0
    <3> QED  BY <3>1, <3>2
  <2>2. PICK t \in Seq(Name) : t = SubSeq(P, 1, i) /\ Len(t) = i /\ \A j \in 1..i : t[j] = P[j]
    <3>1. SubSeq(P, 1, i) \in Seq(Name) /\ Len(SubSeq(P, 1, i)) = i
      BY <2>0
    <3>2. \A j \in 1..i : SubSeq(P, 1, i)[j] = P[j]
      BY <2>0
    <3> QED  BY <3>1, <3>2
  <2>3. \A j \in 1..i : s[j] = t[j]
    BY <1>1, <1>3, <2>1, <2>2
  <2>4. s = t
    BY <2>1, <2>2, <2>3, SeqEqual
  <2> QED  BY <2>1, <2>2, <2>4
<1> QED  BY <1>1, <1>2, <1>4

LEMMA FirstName ==
  ASSUME NEW q \in Seq(Name), Len(q) > 1
  PROVE  Parent(q) # Root /\ Head(Parent(q)) = Head(q)
<1>1. PICK P \in Seq(Name) : P = Parent(q) /\ Len(P) = Len(q) - 1
  BY ParentBase DEF Root
<1>2. Len(P) >= 1
  BY <1>1
<1>3. P[1] = q[1]
  BY <1>1, <1>2 DEF Parent
<1> QED  BY <1>1, <1>2, <1>3 DEF Root

LEMMA WithinParent ==
  ASSUME NEW p \in Seq(Name), NEW q \in Seq(Name), q # Root, Within(p, Parent(q))
  PROVE  Within(p, q)
<1>1. PICK P \in Seq(Name) : P = Parent(q) /\ Len(P) = Len(q) - 1
  BY ParentBase
<1>2. Len(p) \in Nat /\ Len(q) \in Nat /\ Len(p) <= Len(P) /\ SubSeq(P, 1, Len(p)) = p
  BY <1>1 DEF Within
<1>3. Len(p) \in 0..(Len(q) - 1)
  BY <1>1, <1>2
<1>4. SubSeq(q, 1, Len(p)) = SubSeq(P, 1, Len(p))
  BY <1>1, <1>3, Prefixes
<1> QED  BY <1>2, <1>3, <1>4 DEF Within

LEMMA ParentLinked ==
  ASSUME NEW fs, NEW p \in Seq(Name), NEW q \in Seq(Name), Linked(fs, p, q), q # p
  PROVE  /\ q # Root /\ Linked(fs, p, Parent(q)) /\ Len(p) < Len(q)
         /\ Parent(q) \in DOMAIN fs /\ Base(q) \in fs[Parent(q)].kids
<1>1. Len(p) \in Nat /\ Len(q) \in Nat /\ Len(p) <= Len(q) /\ SubSeq(q, 1, Len(p)) = p
  BY DEF Linked, Within
<1>2. Len(p) # Len(q)
  <2> SUFFICES ASSUME Len(p) = Len(q) PROVE FALSE
    OBVIOUS
  <2>1. \A j \in 1..Len(q) : SubSeq(q, 1, Len(q))[j] = q[j]
    OBVIOUS
  <2>2. \A j \in 1..Len(q) : p[j] = q[j]
    BY <1>1, <2>1
  <2> QED  BY <2>2, SeqEqual
<1>3. Len(p) < Len(q) /\ q # Root
  BY <1>1, <1>2, EmptySeq DEF Root
<1>4. PICK P \in Seq(Name) : P = Parent(q) /\ Len(P) = Len(q) - 1
  BY <1>3, ParentBase
<1>5. \A i \in 0..(Len(q) - 1) : SubSeq(q, 1, i) = SubSeq(P, 1, i)
  BY <1>3, <1>4, Prefixes
<1>6. Within(p, P)
  BY <1>1, <1>3, <1>4, <1>5 DEF Within
<1>7. \A i \in 1..(Len(q) - 1) : P[i] = q[i]
  BY <1>3, <1>4 DEF Parent
<1>8. ASSUME NEW i \in (Len(p) + 1)..Len(q)
      PROVE  SubSeq(q, 1, i - 1) \in DOMAIN fs
             /\ q[i] \in fs[SubSeq(q, 1, i - 1)].kids \ Copied(fs[SubSeq(q, 1, i - 1)])
  BY DEF Linked
<1>9. ASSUME NEW i \in (Len(p) + 1)..Len(P)
      PROVE  SubSeq(P, 1, i - 1) \in DOMAIN fs
             /\ P[i] \in fs[SubSeq(P, 1, i - 1)].kids \ Copied(fs[SubSeq(P, 1, i - 1)])
  <2>1. i \in (Len(p) + 1)..Len(q) /\ i - 1 \in 0..(Len(q) - 1) /\ i \in 1..(Len(q) - 1)
    BY <1>1, <1>4
  <2> QED  BY <1>5, <1>7, <1>8, <2>1
<1>10. Linked(fs, p, P)
  BY <1>6, <1>9 DEF Linked
<1>11. P \in DOMAIN fs /\ Base(q) \in fs[P].kids
  <2>1. Len(q) \in (Len(p) + 1)..Len(q)
    BY <1>1, <1>3
  <2>2. P = SubSeq(q, 1, Len(q) - 1)
    BY <1>3, <1>4 DEF Parent
  <2> QED  BY <1>8, <2>1, <2>2 DEF Base
<1> QED  BY <1>3, <1>4, <1>10, <1>11

LEMMA ChildLinked ==
  ASSUME NEW fs, NEW p \in Seq(Name), NEW q \in Seq(Name), q # Root,
         Linked(fs, p, Parent(q)), Parent(q) \in DOMAIN fs,
         Base(q) \in fs[Parent(q)].kids, fs[Parent(q)].copies = {}
  PROVE  Linked(fs, p, q)
<1>1. PICK P \in Seq(Name) : P = Parent(q) /\ Len(P) = Len(q) - 1
  BY ParentBase
<1>2. Len(p) \in Nat /\ Len(q) \in Nat /\ Len(q) >= 1 /\ Len(p) <= Len(P)
      /\ SubSeq(P, 1, Len(p)) = p
  BY <1>1, ParentBase DEF Linked, Within
<1>3. \A i \in 0..(Len(q) - 1) : SubSeq(q, 1, i) = SubSeq(P, 1, i)
  BY <1>1, Prefixes
<1>4. Within(p, q)
  BY <1>1, <1>2, <1>3 DEF Within
<1>5. \A i \in 1..(Len(q) - 1) : P[i] = q[i]
  BY <1>1 DEF Parent
<1>6. ASSUME NEW i \in (Len(p) + 1)..Len(P)
      PROVE  SubSeq(P, 1, i - 1) \in DOMAIN fs
             /\ P[i] \in fs[SubSeq(P, 1, i - 1)].kids \ Copied(fs[SubSeq(P, 1, i - 1)])
  BY <1>1 DEF Linked
<1>7. ASSUME NEW i \in (Len(p) + 1)..Len(q)
      PROVE  SubSeq(q, 1, i - 1) \in DOMAIN fs
             /\ q[i] \in fs[SubSeq(q, 1, i - 1)].kids \ Copied(fs[SubSeq(q, 1, i - 1)])
  <2>1. CASE i = Len(q)
    <3>1. SubSeq(q, 1, i - 1) = P
      BY <1>1, <2>1 DEF Parent
    <3>2. Copied(fs[P]) = {}
      BY <1>1 DEF Copied
    <3> QED  BY <1>1, <2>1, <3>1, <3>2 DEF Base
  <2>2. CASE i # Len(q)
    <3>1. i \in (Len(p) + 1)..Len(P) /\ i - 1 \in 0..(Len(q) - 1) /\ i \in 1..(Len(q) - 1)
      BY <1>1, <1>2, <2>2
    <3> QED  BY <1>3, <1>5, <1>6, <3>1
  <2> QED  BY <2>1, <2>2
<1> QED  BY <1>4, <1>7 DEF Linked

-----------------------------------------------------------------------------
(* Nodes *)

\* What a file system is: nodes by path, and what a tree is made of.
FsOK(fs) == DOMAIN fs \subseteq Seq(Name) /\ \A p \in DOMAIN fs : fs[p] \in Node
Leaf == [at : Seq(Name), kind : {"file", "dir"}, data : Data \cup {NoData}]

\* The children of a node are nodes.
Linkless(fs) == \A p \in DOMAIN fs : \A n \in fs[p].kids : Append(p, n) \in DOMAIN fs

\* The entries of a tree without its root, or of the part of it that a mount placed.
Closed(tree) ==
  /\ \A e, x \in tree : e.at = x.at => e = x
  /\ \A e \in tree : Len(e.at) > 1 =>
       \E x \in tree : x.at = Parent(e.at) /\ x.kind = "dir"

\* Only directories have children, and the copies of a node are a tree.
GrownNode(node) ==
  Closed(node.copies) /\ (node.kids # {} \/ node.copies # {} => node.kind = "dir")
Grown(fs) == \A p \in DOMAIN fs : GrownNode(fs[p])

Sound(fs) == FsOK(fs) /\ Linkless(fs) /\ Grown(fs)

\* Every node stands in the directory that lists it.
OrphanFree(fs) == \A p \in DOMAIN fs \ {Root} : Listed(fs, p)

LEMMA NewNode ==
  /\ Dir \in Node /\ Dir.kids = {} /\ Dir.copies = {} /\ Dir.kind = "dir"
  /\ \A d \in Data : File(d) \in Node /\ File(d).kids = {} /\ File(d).copies = {}
BY DataAssumption DEF Dir, File, Node

LEMMA NothingGrown == ASSUME NEW node, node.kids = {}, node.copies = {} PROVE GrownNode(node)
BY DEF GrownNode, Closed

\* What is left of a tree when whole branches are taken out is a tree.
LEMMA FilterClosed ==
  ASSUME NEW tree \in SUBSET Entry, Closed(tree), NEW out \in SUBSET tree,
         \A c \in out : \A x \in tree : Head(x.at) = Head(c.at) => x \in out
  PROVE  Closed(out)
<1>1. ASSUME NEW e \in out, Len(e.at) > 1
      PROVE  \E x \in out : x.at = Parent(e.at) /\ x.kind = "dir"
  <2>1. PICK x \in tree : x.at = Parent(e.at) /\ x.kind = "dir"
    BY <1>1 DEF Closed
  <2>2. e.at \in Seq(Name)
    BY DEF Entry
  <2>3. Head(x.at) = Head(e.at)
    BY <1>1, <2>1, <2>2, FirstName
  <2> QED  BY <2>1, <2>3
<1> QED  BY <1>1 DEF Closed

LEMMA WithKidOK ==
  ASSUME NEW node \in Node, NEW n \in Name
  PROVE  /\ WithKid(node, n) \in Node
         /\ WithKid(node, n).kids = node.kids \cup {n}
         /\ WithKid(node, n).kind = node.kind /\ WithKid(node, n).data = node.data
         /\ GrownNode(node) /\ node.kind = "dir" => GrownNode(WithKid(node, n))
<1> DEFINE C == {c \in node.copies : Head(c.at) # n}
<1>1. WithKid(node, n) = [node EXCEPT !.kids = @ \cup {n}, !.copies = C]
  BY DEF WithKid
<1>2. C \in SUBSET node.copies /\ \A c \in C : \A x \in node.copies :
        Head(x.at) = Head(c.at) => x \in C
  OBVIOUS
<1> HIDE DEF C
<1> DEFINE K == node.kids \cup {n}
<1>3. WithKid(node, n) = [node EXCEPT !.kids = K, !.copies = C]
  BY <1>1
<1>4. K \in SUBSET Name /\ C \in SUBSET Entry /\ node.copies \in SUBSET Entry
  BY <1>2 DEF Node
<1>5. K = node.kids \cup {n}
  OBVIOUS
<1> HIDE DEF K
<1>6. WithKid(node, n) =
        [kind |-> node.kind, data |-> node.data, kids |-> K, copies |-> C]
  BY <1>3 DEF Node
<1>7. node.kind \in {"file", "dir"} /\ node.data \in Data \cup {NoData}
  BY DEF Node
<1>8. WithKid(node, n) \in Node
  BY <1>4, <1>6, <1>7 DEF Node
<1>9. ASSUME GrownNode(node), node.kind = "dir" PROVE GrownNode(WithKid(node, n))
  <2>1. Closed(C)
    BY <1>2, <1>4, <1>9, FilterClosed DEF GrownNode
  <2> QED  BY <1>6, <1>9, <2>1 DEF GrownNode
<1> QED  BY <1>5, <1>6, <1>8, <1>9

\* What Cut and Put leave of a file system fs.
IsCut(fs, gone, out) ==
  /\ FsOK(out) /\ DOMAIN out = DOMAIN fs \ gone
  /\ \A q \in DOMAIN out :
       /\ out[q].kids = {n \in fs[q].kids : Append(q, n) \notin gone}
       /\ out[q].kind = fs[q].kind /\ out[q].data = fs[q].data
       /\ GrownNode(fs[q]) => GrownNode(out[q])

IsPut(fs, p, node, out) ==
  /\ FsOK(out) /\ DOMAIN out = DOMAIN fs \cup {p} /\ out[p] = node
  /\ \A q \in DOMAIN fs \ {p} :
       /\ out[q].kids = IF q = Parent(p) THEN fs[q].kids \cup {Base(p)} ELSE fs[q].kids
       /\ out[q].kind = fs[q].kind /\ out[q].data = fs[q].data
       /\ GrownNode(fs[q]) /\ (q = Parent(p) => fs[q].kind = "dir") => GrownNode(out[q])

LEMMA CutOK ==
  ASSUME NEW fs, FsOK(fs), NEW gone
  PROVE  IsCut(fs, gone, Cut(fs, gone))
<1>1. DOMAIN Cut(fs, gone) = DOMAIN fs \ gone
  BY DEF Cut
<1>2. ASSUME NEW q \in DOMAIN fs \ gone
      PROVE  /\ Cut(fs, gone)[q] \in Node
             /\ Cut(fs, gone)[q].kids = {n \in fs[q].kids : Append(q, n) \notin gone}
             /\ Cut(fs, gone)[q].kind = fs[q].kind /\ Cut(fs, gone)[q].data = fs[q].data
             /\ GrownNode(fs[q]) => GrownNode(Cut(fs, gone)[q])
  <2> DEFINE K == {n \in fs[q].kids : Append(q, n) \notin gone}
             C == {c \in fs[q].copies : Append(q, Head(c.at)) \notin gone}
  <2>1. PICK node \in Node : node = fs[q]
    BY DEF FsOK
  <2>2. Cut(fs, gone)[q] = [node EXCEPT !.kids = K, !.copies = C]
    BY <2>1 DEF Cut
  <2>3. /\ K \subseteq node.kids /\ C \in SUBSET node.copies
        /\ \A c \in C : \A x \in node.copies : Head(x.at) = Head(c.at) => x \in C
    BY <2>1
  <2> HIDE DEF K, C
  <2>4. Cut(fs, gone)[q] \in Node /\ Cut(fs, gone)[q].kids = K
        /\ Cut(fs, gone)[q].copies = C
        /\ Cut(fs, gone)[q].kind = node.kind /\ Cut(fs, gone)[q].data = node.data
    BY <2>2, <2>3 DEF Node
  <2>5. ASSUME GrownNode(node) PROVE GrownNode(Cut(fs, gone)[q])
    <3>1. node.copies \in SUBSET Entry
      BY DEF Node
    <3>2. Closed(C)
      BY <2>3, <2>5, <3>1, FilterClosed DEF GrownNode
    <3> QED  BY <2>3, <2>4, <2>5, <3>2 DEF GrownNode
  <2> QED  BY <2>1, <2>4, <2>5 DEF K
<1> QED  BY <1>1, <1>2 DEF FsOK, IsCut

LEMMA PutOK ==
  ASSUME NEW fs, FsOK(fs), NEW p \in Seq(Name), p # Root, NEW node \in Node
  PROVE  IsPut(fs, p, node, Put(fs, p, node))
<1>1. Base(p) \in Name
  BY ParentBase
<1>2. /\ DOMAIN Put(fs, p, node) = DOMAIN fs \cup {p} /\ Put(fs, p, node)[p] = node
      /\ \A q \in DOMAIN fs \ {p} :
           Put(fs, p, node)[q] = IF q = Parent(p) THEN WithKid(fs[q], Base(p)) ELSE fs[q]
  BY DEF Put
<1>3. ASSUME NEW q \in DOMAIN fs \ {p}
      PROVE  /\ Put(fs, p, node)[q] \in Node
             /\ Put(fs, p, node)[q].kids =
                  IF q = Parent(p) THEN fs[q].kids \cup {Base(p)} ELSE fs[q].kids
             /\ Put(fs, p, node)[q].kind = fs[q].kind
             /\ Put(fs, p, node)[q].data = fs[q].data
             /\ GrownNode(fs[q]) /\ (q = Parent(p) => fs[q].kind = "dir")
                  => GrownNode(Put(fs, p, node)[q])
  <2>1. PICK old \in Node : old = fs[q]
    BY DEF FsOK
  <2>2. CASE q = Parent(p)
    <3>1. Put(fs, p, node)[q] = WithKid(old, Base(p))
      BY <1>2, <2>1, <2>2
    <3> QED  BY <1>1, <2>1, <2>2, <3>1, WithKidOK
  <2>3. CASE q # Parent(p)
    BY <1>2, <2>1, <2>3
  <2> QED  BY <2>2, <2>3
<1> QED  BY <1>2, <1>3 DEF FsOK, IsPut

LEMMA CutLinks ==
  ASSUME NEW fs, NEW gone, NEW out, IsCut(fs, gone, out), Linkless(fs)
  PROVE  Linkless(out)
<1>1. ASSUME NEW p \in DOMAIN out, NEW n \in out[p].kids PROVE Append(p, n) \in DOMAIN out
  <2>1. n \in fs[p].kids /\ Append(p, n) \notin gone /\ p \in DOMAIN fs
    BY <1>1 DEF IsCut
  <2>2. Append(p, n) \in DOMAIN fs
    BY <2>1 DEF Linkless
  <2> QED  BY <2>1, <2>2 DEF IsCut
<1> QED  BY <1>1 DEF Linkless

LEMMA PutLinks ==
  ASSUME NEW fs, NEW p \in Seq(Name), p # Root, NEW node, node.kids = {}, NEW out,
         IsPut(fs, p, node, out), Linkless(fs)
  PROVE  Linkless(out)
<1>1. Append(Parent(p), Base(p)) = p
  BY ParentBase
<1>2. ASSUME NEW q \in DOMAIN out, NEW n \in out[q].kids PROVE Append(q, n) \in DOMAIN out
  <2>1. q # p /\ q \in DOMAIN fs
    BY <1>2 DEF IsPut
  <2>2. CASE n \in fs[q].kids
    BY <2>1, <2>2 DEF Linkless, IsPut
  <2>3. CASE n \notin fs[q].kids
    <3>1. q = Parent(p) /\ n = Base(p)
      BY <1>2, <2>1, <2>3 DEF IsPut
    <3> QED  BY <1>1, <3>1 DEF IsPut
  <2> QED  BY <2>2, <2>3
<1> QED  BY <1>2 DEF Linkless

\* What a walk finds.
LEMMA SubtreeOK ==
  ASSUME NEW fs, FsOK(fs), NEW p \in Seq(Name)
  PROVE  /\ Entries(fs, p) \subseteq Leaf /\ Below(fs, p) \subseteq Entry
         /\ \A q \in Subtree(fs, p) : q \in DOMAIN fs /\ Linked(fs, p, q) /\ Within(p, q)
         /\ p \in DOMAIN fs => \E e \in Entries(fs, p) : e.at = Root
<1>1. \A q \in Subtree(fs, p) : q \in DOMAIN fs /\ Linked(fs, p, q) /\ Within(p, q)
  BY DEF Subtree, Linked
<1>2. ASSUME NEW q \in Subtree(fs, p)
      PROVE  /\ [at |-> Rest(p, q), kind |-> fs[q].kind, data |-> fs[q].data] \in Leaf
             /\ \A c \in fs[q].copies : [c EXCEPT !.at = Rest(p, q) \o @] \in Leaf
  <2>1. q \in Seq(Name) /\ fs[q] \in Node /\ Within(p, q)
    BY <1>1 DEF FsOK
  <2>2. PICK r \in Seq(Name) : r = Rest(p, q)
    BY <2>1, WithinIsConcat
  <2>3. ASSUME NEW c \in fs[q].copies PROVE [c EXCEPT !.at = r \o @] \in Leaf
    <3>1. c \in Entry
      BY <2>1 DEF Node
    <3>2. PICK t \in Seq(Name) : t = r \o c.at
      BY <3>1, RestFacts DEF Entry
    <3>3. [c EXCEPT !.at = t] \in Leaf
      BY <3>1, <3>2 DEF Entry, Leaf
    <3> QED  BY <3>2, <3>3
  <2>4. [at |-> r, kind |-> fs[q].kind, data |-> fs[q].data] \in Leaf
    BY <2>1 DEF Node, Leaf
  <2> QED  BY <2>2, <2>3, <2>4
<1>3. Entries(fs, p) \subseteq Leaf
  <2>1. ASSUME NEW e \in Entries(fs, p) PROVE e \in Leaf
    <3>1. \/ \E q \in Subtree(fs, p) :
                e = [at |-> Rest(p, q), kind |-> fs[q].kind, data |-> fs[q].data]
          \/ \E q \in Subtree(fs, p) : \E c \in fs[q].copies :
                e = [c EXCEPT !.at = Rest(p, q) \o @]
      BY <2>1 DEF Entries
    <3> QED  BY <1>2, <3>1
  <2> QED  BY <2>1
<1>4. Below(fs, p) \subseteq Entry
  BY <1>3 DEF Below, Leaf, Entry
<1>5. ASSUME p \in DOMAIN fs PROVE \E e \in Entries(fs, p) : e.at = Root
  <2>1. Rest(p, p) = Root /\ Within(p, p)
    <3>1. Root \in Seq(Name) /\ p \o Root = p
      BY ConcatEmptySeq DEF Root
    <3> QED  BY <3>1, RestFacts
  <2>2. Linked(fs, p, p)
    <3>1. Len(p) \in Nat
      OBVIOUS
    <3> QED  BY <2>1, <3>1 DEF Linked
  <2>3. p \in Subtree(fs, p)
    BY <1>5, <2>2 DEF Subtree
  <2>4. [at |-> Rest(p, p), kind |-> fs[p].kind, data |-> fs[p].data] \in Entries(fs, p)
    BY <2>3 DEF Entries
  <2> QED  BY <2>1, <2>4
<1> QED  BY <1>1, <1>3, <1>4, <1>5

\* Where an entry of a walk comes from: it is a node of the map, or a copy below it.
From(fs, q, r, e) ==
  \/ r = Root /\ e.kind = fs[q].kind /\ e.data = fs[q].data
  \/ \E c \in fs[q].copies : c.at = r /\ e.kind = c.kind /\ e.data = c.data

LEMMA EntryFrom ==
  ASSUME NEW fs, FsOK(fs), NEW p \in Seq(Name), NEW e \in Entries(fs, p)
  PROVE  \E q \in Subtree(fs, p), r \in Seq(Name) :
           e.at = Rest(p, q) \o r /\ p \o e.at = q \o r /\ From(fs, q, r, e)
<1>1. PICK q \in Subtree(fs, p) :
        \/ e = [at |-> Rest(p, q), kind |-> fs[q].kind, data |-> fs[q].data]
        \/ \E c \in fs[q].copies : e = [c EXCEPT !.at = Rest(p, q) \o @]
  BY DEF Entries
<1>2. q \in Seq(Name) /\ fs[q] \in Node /\ Within(p, q)
  BY SubtreeOK DEF FsOK
<1>3. PICK t \in Seq(Name) : t = Rest(p, q) /\ q = p \o t
  BY <1>2, WithinIsConcat
<1>4. CASE e = [at |-> t, kind |-> fs[q].kind, data |-> fs[q].data]
  <2>1. Root \in Seq(Name) /\ t \o Root = t /\ q \o Root = q
    BY <1>2, RestFacts, ConcatEmptySeq DEF Root
  <2>2. From(fs, q, Root, e)
    BY <1>4 DEF From
  <2> QED  BY <1>3, <1>4, <2>1, <2>2
<1>5. ASSUME NEW c \in fs[q].copies, e = [c EXCEPT !.at = t \o @]
      PROVE  \E r \in Seq(Name) : e.at = t \o r /\ p \o e.at = q \o r /\ From(fs, q, r, e)
  <2>1. c \in Entry
    BY <1>2 DEF Node
  <2>2. PICK r \in Seq(Name) : r = c.at
    BY <2>1 DEF Entry
  <2>3. PICK z : z = t \o r
    OBVIOUS
  <2>4. e = [c EXCEPT !.at = z]
    BY <1>5, <2>2, <2>3
  <2>5. e.at = z /\ e.kind = c.kind /\ e.data = c.data
    BY <2>1, <2>4 DEF Entry
  <2>6. p \o (t \o r) = (p \o t) \o r
    BY ConcatAssociative
  <2> QED  BY <1>3, <2>2, <2>3, <2>5, <2>6 DEF From
<1> QED  BY <1>1, <1>3, <1>4, <1>5

\* A walk does not go on below a node whose child of that name is a copy.
LEMMA NoShadow ==
  ASSUME NEW fs, NEW p \in Seq(Name), NEW q1 \in Seq(Name), NEW q2 \in Seq(Name),
         Linked(fs, p, q1), Linked(fs, p, q2), NEW r1 \in Seq(Name), NEW r2 \in Seq(Name),
         q1 \o r1 = q2 \o r2, Len(q1) < Len(q2), NEW c \in fs[q1].copies, c.at = r1
  PROVE  FALSE
<1>1. PICK k \in Nat : k = Len(q1) /\ k < Len(q2) /\ Len(p) \in Nat /\ Len(p) <= k
  BY DEF Linked, Within
<1>2. PICK l \in Nat : l = Len(q2)
  OBVIOUS
<1>3. \A i \in 1..k : (q1 \o r1)[i] = q1[i]
  BY <1>1
<1>4. \A i \in 1..l : (q2 \o r2)[i] = q2[i]
  BY <1>2
<1>5. SubSeq(q2, 1, k) = q1
  <2>1. PICK z \in Seq(Name) : z = SubSeq(q2, 1, k) /\ Len(z) = k /\ \A i \in 1..k : z[i] = q2[i]
    <3>1. SubSeq(q2, 1, k) \in Seq(Name) /\ Len(SubSeq(q2, 1, k)) = k
      BY <1>1
    <3>2. \A i \in 1..k : SubSeq(q2, 1, k)[i] = q2[i]
      BY <1>1
    <3> QED  BY <3>1, <3>2
  <2>2. \A i \in 1..k : i \in 1..l
    BY <1>1, <1>2
  <2>3. \A i \in 1..k : z[i] = q1[i]
    BY <1>3, <1>4, <2>1, <2>2
  <2>4. z = q1
    BY <1>1, <2>1, <2>3, SeqEqual
  <2> QED  BY <2>1, <2>4
<1>6. k + 1 \in (Len(p) + 1)..Len(q2) /\ k + 1 \in 1..l /\ (k + 1) - 1 = k
  BY <1>1, <1>2
<1>7. q2[k + 1] \notin Copied(fs[q1])
  <2>1. \A i \in (Len(p) + 1)..Len(q2) :
          q2[i] \in fs[SubSeq(q2, 1, i - 1)].kids \ Copied(fs[SubSeq(q2, 1, i - 1)])
    BY DEF Linked
  <2> QED  BY <1>5, <1>6, <2>1
<1>8. Len(r1) >= 1
  <2>1. Len(q1 \o r1) = Len(q1) + Len(r1) /\ Len(q2 \o r2) = Len(q2) + Len(r2)
    OBVIOUS
  <2>2. Len(r1) \in Nat /\ Len(r2) \in Nat
    OBVIOUS
  <2> QED  BY <1>1, <1>2, <2>1, <2>2
<1>9. (q1 \o r1)[k + 1] = r1[1]
  BY <1>1, <1>8
<1>10. q2[k + 1] = Head(r1)
  BY <1>4, <1>6, <1>8, <1>9
<1>11. Head(c.at) \in Copied(fs[q1])
  BY DEF Copied
<1> QED  BY <1>7, <1>10, <1>11

\* The entries of a walk are a tree: a path has one, and what holds it is a directory.
Rooted(tree) ==
  /\ \A e, x \in tree : e.at = x.at => e = x
  /\ \A e \in tree : e.at # Root => \E x \in tree : x.at = Parent(e.at) /\ x.kind = "dir"

LEMMA SameEntry ==
  ASSUME NEW fs, FsOK(fs), Grown(fs), NEW p \in Seq(Name),
         NEW e \in Entries(fs, p), NEW x \in Entries(fs, p), e.at = x.at
  PROVE  e = x
<1>1. PICK q1 \in Subtree(fs, p), r1 \in Seq(Name) :
        p \o e.at = q1 \o r1 /\ From(fs, q1, r1, e)
  BY EntryFrom
<1>2. PICK q2 \in Subtree(fs, p), r2 \in Seq(Name) :
        p \o x.at = q2 \o r2 /\ From(fs, q2, r2, x)
  BY EntryFrom
<1>3. /\ q1 \in Seq(Name) /\ fs[q1] \in Node /\ Linked(fs, p, q1) /\ GrownNode(fs[q1])
      /\ q2 \in Seq(Name) /\ fs[q2] \in Node /\ Linked(fs, p, q2) /\ GrownNode(fs[q2])
  BY SubtreeOK DEF FsOK, Grown
<1>4. q1 \o r1 = q2 \o r2
  BY <1>1, <1>2
<1>5. PICK l1 \in Nat, l2 \in Nat, m1 \in Nat, m2 \in Nat :
        l1 = Len(q1) /\ l2 = Len(q2) /\ m1 = Len(r1) /\ m2 = Len(r2) /\ l1 + m1 = l2 + m2
  <2>1. Len(q1 \o r1) = Len(q1) + Len(r1) /\ Len(q2 \o r2) = Len(q2) + Len(r2)
    BY <1>3
  <2> QED  BY <1>3, <1>4, <2>1
<1>6. l1 = l2
  <2>1. ASSUME l1 < l2 PROVE FALSE
    <3>1. r1 # Root
      BY <1>5, <2>1 DEF Root
    <3>2. PICK c \in fs[q1].copies : c.at = r1
      BY <1>1, <3>1 DEF From
    <3> QED  BY <1>3, <1>4, <1>5, <2>1, <3>2, NoShadow
  <2>2. ASSUME l2 < l1 PROVE FALSE
    <3>1. r2 # Root
      BY <1>5, <2>2 DEF Root
    <3>2. PICK c \in fs[q2].copies : c.at = r2
      BY <1>2, <3>1 DEF From
    <3> QED  BY <1>3, <1>4, <1>5, <2>2, <3>2, NoShadow
  <2> QED  BY <1>5, <2>1, <2>2
<1>7. q1 = q2 /\ r1 = r2
  <2>1. \A i \in 1..l1 : q1[i] = q2[i]
    <3>1. \A i \in 1..l1 : (q1 \o r1)[i] = q1[i]
      BY <1>3, <1>5
    <3>2. \A i \in 1..l1 : (q2 \o r2)[i] = q2[i]
      BY <1>3, <1>5, <1>6
    <3> QED  BY <1>4, <3>1, <3>2
  <2>2. q1 = q2
    BY <1>3, <1>5, <1>6, <2>1, SeqEqual
  <2>3. Rest(q1, q1 \o r1) = r1 /\ Rest(q1, q1 \o r2) = r2
    BY <1>3, RestFacts
  <2> QED  BY <1>4, <2>2, <2>3
<1>8. e.kind = x.kind /\ e.data = x.data
  <2>1. \A c \in fs[q1].copies : c.at # Root
    BY <1>3 DEF Node, Entry
  <2>2. \A c, d \in fs[q1].copies : c.at = d.at => c = d
    BY <1>3 DEF GrownNode, Closed
  <2> QED  BY <1>1, <1>2, <1>7, <2>1, <2>2 DEF From
<1>9. e \in Leaf /\ x \in Leaf
  BY SubtreeOK
<1>10. /\ e = [at |-> e.at, kind |-> e.kind, data |-> e.data]
       /\ x = [at |-> x.at, kind |-> x.kind, data |-> x.data]
  BY <1>9 DEF Leaf
<1>11. PICK z, k, d : z = e.at /\ k = e.kind /\ d = e.data
  OBVIOUS
<1>12. e = [at |-> z, kind |-> k, data |-> d]
  BY <1>10, <1>11
<1>13. x = [at |-> z, kind |-> k, data |-> d]
  BY <1>8, <1>10, <1>11
<1> QED  BY <1>12, <1>13

LEMMA EntriesRooted ==
  ASSUME NEW fs, FsOK(fs), Grown(fs), NEW p \in Seq(Name)
  PROVE  Rooted(Entries(fs, p))
<1>1. ASSUME NEW e \in Entries(fs, p), e.at # Root
      PROVE  \E x \in Entries(fs, p) : x.at = Parent(e.at) /\ x.kind = "dir"
  <2>1. PICK q \in Subtree(fs, p), r \in Seq(Name) : e.at = Rest(p, q) \o r /\ From(fs, q, r, e)
    BY EntryFrom
  <2>2. q \in Seq(Name) /\ q \in DOMAIN fs /\ fs[q] \in Node /\ Linked(fs, p, q)
        /\ Within(p, q) /\ GrownNode(fs[q])
    BY SubtreeOK DEF FsOK, Grown
  <2>3. PICK t \in Seq(Name) : t = Rest(p, q) /\ q = p \o t
    BY <2>2, WithinIsConcat
  <2>4. CASE r = Root
    <3>1. e.at = t
      BY <2>1, <2>3, <2>4, RestFacts
    <3>2. q # p
      <4>1. Rest(p, p) = Root
        <5>1. p \o Root = p /\ Root \in Seq(Name)
          BY RestFacts, ConcatEmptySeq DEF Root
        <5>2. Rest(p, p \o Root) = Root
          BY <5>1, RestFacts
        <5> QED  BY <5>1, <5>2
      <4> QED  BY <1>1, <2>3, <3>1, <4>1
    <3>3. q # Root /\ Linked(fs, p, Parent(q)) /\ Parent(q) \in DOMAIN fs
          /\ Base(q) \in fs[Parent(q)].kids
      BY <2>2, <3>2, ParentLinked
    <3>4. PICK P \in Subtree(fs, p) : P = Parent(q) /\ P \in Seq(Name) /\ Within(p, P)
      BY <3>3, SubtreeOK DEF Subtree, FsOK
    <3>5. fs[P].kind = "dir"
      BY <3>3, <3>4 DEF Grown, GrownNode
    <3>6. PICK u \in Seq(Name) : u = Rest(p, P) /\ P = p \o u
      BY <3>4, WithinIsConcat
    <3>7. PICK b \in Name : b = Base(q) /\ Append(P, b) = q
      BY <2>2, <3>3, <3>4, ParentBase
    <3>8. t = Append(u, b)
      <4>0. Append(u, b) \in Seq(Name)
        BY AppendParent
      <4>1. Append(p \o u, b) = p \o Append(u, b)
        BY RestFacts
      <4>2. Rest(p, p \o Append(u, b)) = Append(u, b)
        BY <4>0, RestFacts
      <4> QED  BY <2>3, <3>6, <3>7, <4>1, <4>2
    <3>9. Parent(e.at) = u
      BY <3>1, <3>8, AppendParent
    <3>10. PICK x : x = [at |-> u, kind |-> fs[P].kind, data |-> fs[P].data]
      OBVIOUS
    <3>11. x \in Entries(fs, p)
      BY <3>4, <3>6, <3>10 DEF Entries
    <3> QED  BY <3>5, <3>9, <3>10, <3>11
  <2>5. CASE r # Root
    <3>1. PICK c \in fs[q].copies : c.at = r
      BY <2>1, <2>5 DEF From
    <3>2. PICK v \in Seq(Name) : v = Parent(r)
      BY <2>5, ParentBase
    <3>3. PICK b \in Name : Append(v, b) = r
      BY <2>5, <3>2, ParentBase
    <3>4. Parent(t \o Append(v, b)) = t \o v
      BY BelowFacts
    <3>5. Parent(e.at) = t \o v
      BY <2>1, <2>3, <3>3, <3>4
    <3>6. CASE Len(r) > 1
      <4>1. PICK d \in fs[q].copies : d.at = v /\ d.kind = "dir"
        BY <2>2, <3>1, <3>2, <3>6 DEF GrownNode, Closed
      <4>2. d \in Entry
        BY <2>2 DEF Node
      <4>3. PICK x : x = [d EXCEPT !.at = Rest(p, q) \o @]
        OBVIOUS
      <4>4. x \in Entries(fs, p)
        <5> DEFINE Part(y) == {[k EXCEPT !.at = Rest(p, y) \o @] : k \in fs[y].copies}
        <5>1. x \in Part(q)
          BY <4>3
        <5>2. \A y \in Subtree(fs, p) : Part(y) \subseteq Entries(fs, p)
          BY DEF Entries
        <5> QED  BY <5>1, <5>2
      <4>5. PICK z : z = t \o v
        OBVIOUS
      <4>6. x = [d EXCEPT !.at = z]
        BY <2>3, <4>1, <4>3, <4>5
      <4>7. x.at = z /\ x.kind = d.kind
        BY <4>2, <4>6 DEF Entry
      <4> QED  BY <3>5, <4>1, <4>4, <4>5, <4>7
    <3>7. CASE ~(Len(r) > 1)
      <4>1. v = Root
        <5>1. Len(r) \in Nat /\ Len(v) \in Nat
          OBVIOUS
        <5>2. Len(v) = Len(r) - 1
          BY <2>5, <3>2, ParentBase
        <5>3. Len(v) = 0
          BY <3>7, <5>1, <5>2
        <5> QED  BY <5>3, EmptySeq DEF Root
      <4>2. t \o v = t
        BY <4>1, RestFacts
      <4>3. fs[q].kind = "dir"
        BY <2>2, <3>1 DEF GrownNode
      <4>4. PICK x : x = [at |-> t, kind |-> fs[q].kind, data |-> fs[q].data]
        OBVIOUS
      <4>5. x \in Entries(fs, p)
        BY <2>3, <4>4 DEF Entries
      <4> QED  BY <3>5, <4>2, <4>3, <4>4, <4>5
    <3> QED  BY <3>6, <3>7
  <2> QED  BY <2>4, <2>5
<1>2. ASSUME NEW e \in Entries(fs, p), NEW x \in Entries(fs, p), e.at = x.at PROVE e = x
  BY <1>2, SameEntry
<1> QED  BY <1>1, <1>2 DEF Rooted

\* serialize and deserialize change nothing but the copies.
SameTree(fs, out) ==
  /\ FsOK(out) /\ DOMAIN out = DOMAIN fs
  /\ \A p \in DOMAIN out :
       out[p].kids = fs[p].kids /\ out[p].kind = fs[p].kind /\ out[p].data = fs[p].data

LEMMA SerializedOK ==
  ASSUME NEW fs, FsOK(fs)
  PROVE  SameTree(fs, Serialized(fs))
<1>1. DOMAIN Serialized(fs) = DOMAIN fs
  BY DEF Serialized
<1>2. ASSUME NEW p \in DOMAIN fs
      PROVE  /\ Serialized(fs)[p] \in Node
             /\ Serialized(fs)[p].kids = fs[p].kids /\ Serialized(fs)[p].kind = fs[p].kind
             /\ Serialized(fs)[p].data = fs[p].data
  <2>1. p \in Seq(Name)
    BY DEF FsOK
  <2>2. PICK B : B = Below(fs, p) /\ B \subseteq Entry
    BY <2>1, SubtreeOK
  <2>3. PICK node \in Node : node = fs[p]
    BY DEF FsOK
  <2>4. Serialized(fs)[p] = [node EXCEPT !.copies = B]
    BY <2>2, <2>3 DEF Serialized
  <2> QED  BY <2>2, <2>3, <2>4 DEF Node
<1> QED  BY <1>1, <1>2 DEF FsOK, SameTree

LEMMA SerializedGrown ==
  ASSUME NEW fs, FsOK(fs), Grown(fs)
  PROVE  Grown(Serialized(fs))
<1> SUFFICES ASSUME NEW p \in DOMAIN fs PROVE GrownNode(Serialized(fs)[p])
  BY DEF Grown, Serialized
<1>1. p \in Seq(Name)
  BY DEF FsOK
<1>2. PICK tree : tree = Entries(fs, p)
  OBVIOUS
<1>3. Rooted(tree) /\ tree \subseteq Leaf
  BY <1>1, <1>2, EntriesRooted, SubtreeOK
<1>4. PICK B : B = Below(fs, p) /\ B \subseteq Entry
  BY <1>1, SubtreeOK
<1>5. B = {e \in tree : e.at # Root}
  BY <1>2, <1>4 DEF Below
<1>6. Closed(B)
  <2>1. ASSUME NEW e \in B, Len(e.at) > 1
        PROVE  \E x \in B : x.at = Parent(e.at) /\ x.kind = "dir"
    <3>1. PICK x \in tree : x.at = Parent(e.at) /\ x.kind = "dir"
      BY <1>3, <1>5 DEF Rooted
    <3>2. e.at \in Seq(Name)
      BY <1>4 DEF Entry
    <3>3. x.at # Root
      BY <2>1, <3>1, <3>2, FirstName
    <3> QED  BY <1>5, <3>1, <3>3
  <2>2. \A e, x \in B : e.at = x.at => e = x
    BY <1>3, <1>5 DEF Rooted
  <2> QED  BY <2>1, <2>2 DEF Closed
<1>7. PICK node \in Node : node = fs[p]
  BY DEF FsOK
<1>8. Serialized(fs)[p] = [node EXCEPT !.copies = B]
  BY <1>4, <1>7 DEF Serialized
<1>9. /\ Serialized(fs)[p].copies = B /\ Serialized(fs)[p].kids = node.kids
      /\ Serialized(fs)[p].kind = node.kind
  BY <1>8 DEF Node
<1>10. ASSUME B # {} PROVE node.kind = "dir"
  <2>1. PICK e \in tree : e.at # Root
    BY <1>5, <1>10
  <2>2. PICK q \in Subtree(fs, p), r \in Seq(Name) : e.at = Rest(p, q) \o r /\ From(fs, q, r, e)
    BY <1>1, <1>2, EntryFrom
  <2>3. Linked(fs, p, q) /\ q \in Seq(Name)
    BY <1>1, SubtreeOK DEF FsOK
  <2>4. CASE q = p
    <3>1. Rest(p, p) = Root
      <4>1. p \o Root = p /\ Root \in Seq(Name)
        BY <1>1, RestFacts, ConcatEmptySeq DEF Root
      <4>2. Rest(p, p \o Root) = Root
        BY <1>1, <4>1, RestFacts
      <4> QED  BY <4>1, <4>2
    <3>2. r # Root
      <4>1. Root \o Root = Root
        BY RestFacts, ConcatEmptySeq DEF Root
      <4> QED  BY <2>1, <2>2, <2>4, <3>1, <4>1
    <3> QED  BY <1>7, <2>2, <2>4, <3>2 DEF From, Grown, GrownNode
  <2>5. CASE q # p
    <3>1. Len(p) \in Nat /\ Len(q) \in Nat /\ Len(p) < Len(q)
      BY <1>1, <2>3, <2>5, ParentLinked
    <3>2. PICK i \in (Len(p) + 1)..Len(q) : i = Len(p) + 1 /\ i - 1 = Len(p)
      BY <3>1
    <3>3. q[i] \in fs[SubSeq(q, 1, i - 1)].kids
      BY <2>3 DEF Linked
    <3>4. SubSeq(q, 1, Len(p)) = p
      BY <2>3 DEF Linked, Within
    <3> QED  BY <1>7, <3>2, <3>3, <3>4 DEF Grown, GrownNode
  <2> QED  BY <2>4, <2>5
<1>11. node.kids # {} => node.kind = "dir"
  BY <1>7 DEF Grown, GrownNode
<1> QED  BY <1>6, <1>9, <1>10, <1>11 DEF GrownNode

LEMMA SerializedSound == ASSUME NEW fs, Sound(fs) PROVE Sound(Serialized(fs))
<1>1. SameTree(fs, Serialized(fs)) /\ Grown(Serialized(fs))
  BY SerializedOK, SerializedGrown DEF Sound
<1> QED  BY <1>1 DEF Sound, SameTree, Linkless

\* The nodes of a tree.
NodeOf(tree, r, node) ==
  \E x \in tree : x.at = r /\ node.kind = x.kind /\ node.data = x.data
KidsIn(tree, r) == {n \in Name : \E x \in tree : x.at = Append(r, n)}

LEMMA NodeAtOK ==
  ASSUME NEW tree, tree \subseteq Leaf, NEW e \in tree
  PROVE  /\ NodeAt(tree, e.at) \in Node /\ NodeAt(tree, e.at).copies = {}
         /\ NodeAt(tree, e.at).kids = KidsIn(tree, e.at)
         /\ NodeOf(tree, e.at, NodeAt(tree, e.at))
<1> DEFINE r == e.at
           c == CHOOSE x \in tree : x.at = r
           K == {n \in Name : \E x \in tree : x.at = Append(r, n)}
<1>1. c \in tree /\ c.at = r
  OBVIOUS
<1>2. NodeAt(tree, r) = [kind |-> c.kind, data |-> c.data, copies |-> {}, kids |-> K]
  BY DEF NodeAt
<1>3. K \subseteq Name
  OBVIOUS
<1>4. c.kind \in {"file", "dir"} /\ c.data \in Data \cup {NoData}
  BY <1>1 DEF Leaf
<1> HIDE DEF c, K
<1>5. NodeAt(tree, r) \in Node
  BY <1>2, <1>3, <1>4 DEF Node
<1> QED  BY <1>1, <1>2, <1>5 DEF K, KidsIn, NodeOf

LEMMA NodeAtGrown ==
  ASSUME NEW tree, tree \subseteq Leaf, \A e, x \in tree : e.at = x.at => e = x,
         NEW e \in tree, NEW x \in tree, e.at # Root, x.at = Parent(e.at), x.kind = "dir"
  PROVE  /\ NodeAt(tree, x.at).kind = "dir"
         /\ Base(e.at) \in NodeAt(tree, x.at).kids
<1>1. NodeAt(tree, x.at).kids = KidsIn(tree, x.at) /\ NodeOf(tree, x.at, NodeAt(tree, x.at))
  BY NodeAtOK
<1>2. NodeAt(tree, x.at).kind = "dir"
  BY <1>1 DEF NodeOf
<1>3. PICK s \in Seq(Name) : s = e.at
  BY DEF Leaf
<1>4. Base(s) \in Name /\ Append(Parent(s), Base(s)) = s
  BY <1>3, ParentBase
<1>5. Base(s) \in KidsIn(tree, x.at)
  BY <1>3, <1>4 DEF KidsIn
<1> QED  BY <1>1, <1>2, <1>3, <1>5

\* The paths of the nodes of a tree that is set at p.
Placed(p, tree) == {p \o e.at : e \in tree}

LEMMA PlacedWithin ==
  ASSUME NEW tree, tree \subseteq Leaf, NEW p \in Seq(Name), NEW q \in Placed(p, tree)
  PROVE  Within(p, q)
<1>1. PICK e \in tree : q = p \o e.at
  BY DEF Placed
<1>2. e.at \in Seq(Name)
  BY DEF Leaf
<1> QED  BY <1>1, <1>2, RestFacts

LEMMA PlacedOK ==
  ASSUME NEW tree, tree \subseteq Leaf, NEW p \in Seq(Name), NEW q \in Placed(p, tree)
  PROVE  /\ q \in Seq(Name) /\ NodeAt(tree, Rest(p, q)) \in Node
         /\ \A n \in NodeAt(tree, Rest(p, q)).kids : Append(q, n) \in Placed(p, tree)
<1>1. PICK e \in tree : q = p \o e.at
  BY DEF Placed
<1>2. e.at \in Seq(Name)
  BY DEF Leaf
<1>3. q \in Seq(Name) /\ Rest(p, q) = e.at
  BY <1>1, <1>2, RestFacts
<1>4. NodeAt(tree, Rest(p, q)) \in Node
  BY <1>3, NodeAtOK
<1>5. ASSUME NEW n \in NodeAt(tree, Rest(p, q)).kids PROVE Append(q, n) \in Placed(p, tree)
  <2>1. n \in Name /\ \E x \in tree : x.at = Append(e.at, n)
    <3>1. NodeAt(tree, e.at).kids = KidsIn(tree, e.at)
      BY NodeAtOK
    <3> QED  BY <1>3, <1>5, <3>1 DEF KidsIn
  <2>2. PICK x \in tree : x.at = Append(e.at, n)
    BY <2>1
  <2>3. Append(q, n) = p \o x.at
    <3>1. PICK t \in Seq(Name) : t = e.at
      BY <1>2
    <3>2. Append(p \o t, n) = p \o Append(t, n)
      BY <2>1, RestFacts
    <3> QED  BY <1>1, <2>2, <3>1, <3>2
  <2> QED  BY <2>2, <2>3 DEF Placed
<1> QED  BY <1>3, <1>4, <1>5

LEMMA PlacedGrown ==
  ASSUME NEW tree, tree \subseteq Leaf, NEW p \in Seq(Name), NEW q \in Placed(p, tree),
         \A e, x \in tree : e.at = x.at => e = x,
         \A e \in tree : (\E f \in tree : f.at # Root /\ Parent(f.at) = e.at)
           => \E x \in tree : x.at = e.at /\ x.kind = "dir"
  PROVE  GrownNode(NodeAt(tree, Rest(p, q)))
<1>1. PICK e \in tree : q = p \o e.at
  BY DEF Placed
<1>2. e.at \in Seq(Name)
  BY DEF Leaf
<1>3. Rest(p, q) = e.at
  BY <1>1, <1>2, RestFacts
<1>4. /\ NodeAt(tree, e.at).copies = {} /\ NodeAt(tree, e.at).kids = KidsIn(tree, e.at)
      /\ NodeOf(tree, e.at, NodeAt(tree, e.at))
  BY NodeAtOK
<1>5. ASSUME NodeAt(tree, e.at).kids # {} PROVE NodeAt(tree, e.at).kind = "dir"
  <2>1. PICK n \in Name, f \in tree : f.at = Append(e.at, n)
    BY <1>4, <1>5 DEF KidsIn
  <2>2. f.at # Root /\ Parent(f.at) = e.at
    BY <1>2, <2>1, AppendParent
  <2> QED  BY <1>4, <2>2 DEF NodeOf
<1>6. Closed({})
  BY DEF Closed
<1> QED  BY <1>3, <1>4, <1>5, <1>6 DEF GrownNode

LEMMA MovedOK ==
  ASSUME NEW fs, Sound(fs), NEW old \in DOMAIN fs,
         NEW new \in Seq(Name), new # Root, IsDir(fs, Parent(new))
  PROVE  Sound(Moved(fs, old, new))
<1>1. old \in Seq(Name) /\ FsOK(fs) /\ Linkless(fs) /\ Grown(fs)
  BY DEF Sound, FsOK
<1>2. PICK tree : tree = Entries(fs, old)
  OBVIOUS
<1>3. tree \subseteq Leaf /\ (\E e \in tree : e.at = Root) /\ Rooted(tree)
  BY <1>1, <1>2, SubtreeOK, EntriesRooted
<1>4. PICK rest : rest = Cut(fs, Placed(old, tree))
  OBVIOUS
<1>5. IsCut(fs, Placed(old, tree), rest) /\ Linkless(rest)
  BY <1>1, <1>4, CutOK, CutLinks
<1>6. PICK m : m = Moved(fs, old, new)
  OBVIOUS
<1>7. /\ DOMAIN m = DOMAIN rest \cup Placed(new, tree)
      /\ \A q \in Placed(new, tree) : m[q] = NodeAt(tree, Rest(new, q))
      /\ \A q \in DOMAIN rest \ Placed(new, tree) :
           m[q] = IF q = Parent(new) THEN WithKid(rest[q], Base(new)) ELSE rest[q]
  BY <1>2, <1>4, <1>6 DEF Moved, Placed
<1>8. new \in Placed(new, tree)
  BY <1>3, RestFacts DEF Placed
<1>9. Base(new) \in Name /\ Append(Parent(new), Base(new)) = new
  BY ParentBase
<1>10. ASSUME NEW q \in DOMAIN m
       PROVE  /\ q \in Seq(Name) /\ m[q] \in Node /\ GrownNode(m[q])
              /\ \A n \in m[q].kids : Append(q, n) \in DOMAIN m
  <2>1. CASE q \in Placed(new, tree)
    <3>1. q \in Seq(Name) /\ m[q] \in Node /\ \A n \in m[q].kids : Append(q, n) \in DOMAIN m
      BY <1>3, <1>7, <2>1, PlacedOK
    <3>2. GrownNode(NodeAt(tree, Rest(new, q)))
      BY <1>3, <2>1, PlacedGrown DEF Rooted
    <3> QED  BY <1>7, <2>1, <3>1, <3>2
  <2>2. CASE q \notin Placed(new, tree)
    <3>1. q \in DOMAIN rest /\ q \in Seq(Name)
      BY <1>5, <1>7, <1>10, <2>2 DEF IsCut, FsOK
    <3>2. PICK node \in Node : node = rest[q] /\ GrownNode(node) /\ node.kind = fs[q].kind
      BY <1>1, <1>5, <3>1 DEF IsCut, FsOK, Grown
    <3>3. \A n \in node.kids : Append(q, n) \in DOMAIN m
      BY <1>5, <1>7, <3>1, <3>2 DEF Linkless
    <3>4. CASE q = Parent(new)
      <4>1. m[q] = WithKid(node, Base(new)) /\ node.kind = "dir"
        BY <1>7, <2>2, <3>1, <3>2, <3>4 DEF IsDir
      <4>2. m[q] \in Node /\ m[q].kids = node.kids \cup {Base(new)} /\ GrownNode(m[q])
        BY <1>9, <3>2, <4>1, WithKidOK
      <4> QED  BY <1>7, <1>8, <1>9, <3>1, <3>3, <3>4, <4>2
    <3>5. CASE q # Parent(new)
      BY <1>7, <2>2, <3>1, <3>2, <3>3, <3>5
    <3> QED  BY <3>4, <3>5
  <2> QED  BY <2>1, <2>2
<1> QED  BY <1>6, <1>10 DEF Sound, FsOK, Linkless, Grown

LEMMA GraftOK ==
  ASSUME NEW fs, Sound(fs), NEW p \in Seq(Name), IsDir(fs, p),
         NEW tree, tree \subseteq Entry, Closed(tree), Placed(p, tree) \cap DOMAIN fs = {}
  PROVE  Sound(Graft(fs, p, tree))
<1>0. FsOK(fs) /\ Linkless(fs) /\ Grown(fs)
  BY DEF Sound
<1>1. tree \subseteq Leaf
  BY DEF Leaf, Entry
<1>2. PICK top : top = {Head(e.at) : e \in {x \in tree : Len(x.at) = 1}}
  OBVIOUS
<1>3. top \subseteq Name /\ \A n \in top : Append(p, n) \in Placed(p, tree)
  <2>1. ASSUME NEW n \in top PROVE n \in Name /\ Append(p, n) \in Placed(p, tree)
    <3>1. PICK e \in tree : Len(e.at) = 1 /\ n = Head(e.at)
      BY <1>2
    <3>2. PICK s \in Seq(Name) : s = e.at
      BY <1>1 DEF Leaf
    <3>3. n \in Name /\ s = <<n>>
      <4>1. n = s[1] /\ Len(s) = 1
        BY <3>1, <3>2
      <4>2. n \in Name
        BY <4>1
      <4>3. <<n>> \in Seq(Name) /\ Len(<<n>>) = 1 /\ <<n>>[1] = n
        BY <4>2
      <4>4. \A i \in 1..1 : s[i] = <<n>>[i]
        BY <4>1, <4>3
      <4>5. PICK t \in Seq(Name) : t = <<n>> /\ Len(t) = 1
        BY <4>3
      <4> QED  BY <4>1, <4>2, <4>4, <4>5, SeqEqual
    <3>4. Append(p, n) = p \o s
      BY <3>3, AppendIsConcat
    <3> QED  BY <3>2, <3>3, <3>4 DEF Placed
  <2> QED  BY <2>1
<1>4. PICK g : g = Graft(fs, p, tree)
  OBVIOUS
<1>5. /\ DOMAIN g = DOMAIN fs \cup Placed(p, tree)
      /\ \A q \in Placed(p, tree) : g[q] = NodeAt(tree, Rest(p, q))
      /\ \A q \in DOMAIN fs \ Placed(p, tree) :
           g[q] = IF q = p THEN [fs[p] EXCEPT !.kids = @ \cup top,
                                              !.copies = {c \in @ : Head(c.at) \notin top}]
                  ELSE fs[q]
  BY <1>2, <1>4 DEF Graft, Placed
<1>6. ASSUME NEW q \in DOMAIN g
      PROVE  /\ q \in Seq(Name) /\ g[q] \in Node /\ GrownNode(g[q])
             /\ \A n \in g[q].kids : Append(q, n) \in DOMAIN g
  <2>1. CASE q \in Placed(p, tree)
    <3>1. /\ q \in Seq(Name) /\ NodeAt(tree, Rest(p, q)) \in Node
          /\ \A n \in NodeAt(tree, Rest(p, q)).kids : Append(q, n) \in Placed(p, tree)
      BY <1>1, <2>1, PlacedOK
    <3>2. GrownNode(NodeAt(tree, Rest(p, q)))
      <4>1. \A e \in tree : e.at # Root
        BY DEF Entry
      <4>2. ASSUME NEW e \in tree, NEW f \in tree, Parent(f.at) = e.at
            PROVE  \E x \in tree : x.at = e.at /\ x.kind = "dir"
        <5>1. PICK s \in Seq(Name) : s = f.at /\ s # Root
          BY <1>1, <4>1 DEF Leaf
        <5>2. PICK u \in Seq(Name) : u = e.at /\ u # Root
          BY <1>1, <4>1 DEF Leaf
        <5>3. Len(u) = Len(s) - 1 /\ Len(u) \in Nat /\ Len(s) \in Nat
          BY <4>2, <5>1, <5>2, ParentBase
        <5>4. Len(u) >= 1
          BY <5>2, ParentBase
        <5>5. Len(f.at) > 1
          BY <5>1, <5>3, <5>4
        <5> QED  BY <4>2, <5>5 DEF Closed
      <4> QED  BY <1>1, <2>1, <4>2, PlacedGrown DEF Closed
    <3> QED  BY <1>5, <2>1, <3>1, <3>2
  <2>2. CASE q \notin Placed(p, tree)
    <3>1. q \in DOMAIN fs /\ q \in Seq(Name)
      BY <1>0, <1>5, <1>6, <2>2 DEF FsOK
    <3>2. PICK node \in Node : node = fs[q] /\ GrownNode(node)
      BY <1>0, <3>1 DEF FsOK, Grown
    <3>3. \A n \in node.kids : Append(q, n) \in DOMAIN g
      BY <1>0, <1>5, <3>1, <3>2 DEF Linkless
    <3>4. CASE q = p
      <4>1. PICK C \in SUBSET node.copies : /\ C = {c \in node.copies : Head(c.at) \notin top}
              /\ \A c \in C : \A x \in node.copies : Head(x.at) = Head(c.at) => x \in C
        OBVIOUS
      <4>2. PICK K : K = node.kids \cup top
        OBVIOUS
      <4>3. g[q] = [node EXCEPT !.kids = K, !.copies = C]
        BY <1>5, <2>2, <3>1, <3>2, <3>4, <4>1, <4>2
      <4>4. C \in SUBSET Entry /\ K \in SUBSET Name
        BY <1>3, <4>1, <4>2 DEF Node
      <4>5. g[q] \in Node /\ g[q].kids = K /\ g[q].copies = C /\ g[q].kind = node.kind
        BY <4>3, <4>4 DEF Node
      <4>6. node.copies \in SUBSET Entry /\ Closed(node.copies)
        BY <3>2 DEF Node, GrownNode
      <4>7. Closed(C)
        BY <4>1, <4>6, FilterClosed
      <4>8. GrownNode(g[q])
        BY <3>2, <3>4, <4>5, <4>7 DEF GrownNode, IsDir
      <4> QED  BY <1>3, <1>5, <3>1, <3>3, <3>4, <4>2, <4>5, <4>8
    <3>5. CASE q # p
      BY <1>5, <2>2, <3>1, <3>2, <3>3, <3>5
    <3> QED  BY <3>4, <3>5
  <2> QED  BY <2>1, <2>2
<1> QED  BY <1>4, <1>6 DEF Sound, FsOK, Linkless, Grown

-----------------------------------------------------------------------------
(* What is on disk *)

Follows(fs, disk) ==
  \A p \in DOMAIN disk :
    p \in DOMAIN fs /\ fs[p].kind = disk[p].kind /\ fs[p].data = disk[p].data

\* The trees in memory, on disk and on the way to the disk are sound, and the last
\* that reaches the disk only has what memory has.
TreesOK ==
  /\ Sound(nodes) /\ Sound(saved)
  /\ \E S : saves \in Seq(S) /\ \A fs \in S : Sound(fs)
  /\ ~circular /\ ~booted =>
       IF saves = <<>> THEN ~missed => Follows(nodes, saved)
                       ELSE Follows(nodes, saves[Len(saves)])

ImagesOK ==
  DOMAIN images = ImageFile
  /\ \A f \in ImageFile : images[f] = Unreadable \/ IsImage(images[f])

LEMMA SameTreeFollows ==
  ASSUME NEW fs, NEW out, SameTree(fs, out)
  PROVE  Follows(fs, out) /\ Follows(out, fs)
BY DEF Follows, SameTree

\* A queue of trees grows by one, which is then the last.
LEMMA PushedLast ==
  ASSUME NEW S, NEW queue \in Seq(S), \A fs \in S : Sound(fs), NEW x, Sound(x)
  PROVE  /\ \E T : Append(queue, x) \in Seq(T) /\ \A fs \in T : Sound(fs)
         /\ Append(queue, x) # <<>> /\ Append(queue, x)[Len(Append(queue, x))] = x
<1>1. PICK T : T = S \cup {x} /\ queue \in Seq(T) /\ x \in T
  <2>1. queue \in Seq(S \cup {x})
    <3>1. \A i \in 1..Len(queue) : queue[i] \in S \cup {x}
      OBVIOUS
    <3>2. Len(queue) \in Nat /\ queue = [i \in 1..Len(queue) |-> queue[i]]
      OBVIOUS
    <3> QED  BY <3>1, <3>2, SeqDef
  <2> QED  BY <2>1
<1>2. Append(queue, x) \in Seq(T) /\ Len(Append(queue, x)) = Len(queue) + 1
      /\ Append(queue, x)[Len(queue) + 1] = x /\ Len(queue) \in Nat
  BY <1>1
<1>3. Append(queue, x) # <<>>
  BY <1>2
<1>4. \A fs \in T : Sound(fs)
  BY <1>1
<1> QED  BY <1>2, <1>3, <1>4

\* An operation that ends with persist gives the host what is then in memory, or
\* what all that came after keeps.
LEMMA PersistedOK ==
  ASSUME TreesOK, Sound(nodes'), NEW fs, Sound(fs), Follows(nodes', fs),
         NEW S, NEW queue \in Seq(S), \A x \in S : Sound(x), saves' = Persisted(queue, fs),
         circular \/ booted => queue = saves, UNCHANGED <<saved, missed, booted, circular>>
  PROVE  TreesOK'
<1>1. CASE circular \/ booted
  <2>1. saves' = saves
    BY <1>1 DEF Persisted
  <2> QED  BY <1>1, <2>1 DEF TreesOK
<1>2. CASE ~circular /\ ~booted
  <2>1. saves' = Append(queue, Serialized(fs))
    BY <1>2 DEF Persisted
  <2>2. Sound(Serialized(fs)) /\ Follows(fs, Serialized(fs))
    BY SerializedSound, SerializedOK, SameTreeFollows DEF Sound
  <2>3. /\ \E T : saves' \in Seq(T) /\ \A x \in T : Sound(x)
        /\ saves' # <<>> /\ saves'[Len(saves')] = Serialized(fs)
    BY <2>1, <2>2, PushedLast
  <2>4. Follows(nodes', Serialized(fs))
    BY <2>2 DEF Follows
  <2>5. saved' = saved
    OBVIOUS
  <2> QED  BY <2>3, <2>4, <2>5 DEF TreesOK
<1> QED  BY <1>1, <1>2

LEMMA PersistOK ==
  ASSUME TreesOK, Sound(nodes'), Persist(nodes'), UNCHANGED <<saved, missed, booted, circular>>
  PROVE  TreesOK'
<1>1. PICK fs : fs = nodes'
  OBVIOUS
<1>2. PICK S : saves \in Seq(S) /\ \A x \in S : Sound(x)
  BY DEF TreesOK
<1>3. Follows(nodes', fs) /\ saves' = Persisted(saves, fs)
  BY <1>1 DEF Follows, Persist
<1> QED  BY <1>1, <1>2, <1>3, PersistedOK

\* The host handles the first of the calls of save_fs.
LEMMA SaveEndsTrees ==
  ASSUME TreesOK, SaveEnds PROVE TreesOK'
<1>1. PICK S : saves \in Seq(S) /\ \A x \in S : Sound(x)
  BY DEF TreesOK
<1>2. saves # <<>> /\ saves' = Tail(saves) /\ UNCHANGED <<nodes, booted, circular>>
  BY DEF SaveEnds
<1>3. Head(saves) \in S /\ Tail(saves) \in Seq(S) /\ Len(Tail(saves)) = Len(saves) - 1
      /\ Len(saves) \in Nat /\ Len(saves) >= 1 /\ Head(saves) = saves[1]
  BY <1>1, <1>2
<1>4. Sound(saved')
  BY <1>1, <1>3 DEF SaveEnds, TreesOK
<1>5. CASE saves' = <<>>
  <2>1. Len(saves) = 1
    <3>1. PICK k \in Nat : k = Len(saves)
      BY <1>3
    <3>2. k - 1 = 0
      <4>1. Len(<<>>) = 0 /\ Len(Tail(saves)) = k - 1
        BY <1>3, <3>1, EmptySeq
      <4> QED  BY <1>2, <1>5, <4>1
    <3>3. k = 1
      BY <3>2
    <3> QED  BY <3>1, <3>3
  <2>2. ~missed' => saved' = saves[Len(saves)]
    BY <1>3, <2>1 DEF SaveEnds
  <2> QED  BY <1>1, <1>2, <1>3, <1>4, <1>5, <2>2 DEF TreesOK
<1>6. CASE saves' # <<>>
  <2>1. saves'[Len(saves')] = saves[Len(saves)]
    <3>1. PICK k \in Nat : k = Len(saves)
      BY <1>3
    <3>2. PICK u \in Seq(S) : u = Tail(saves) /\ Len(u) = k - 1
      BY <1>3, <3>1
    <3>3. k - 1 \in 1..(k - 1)
      BY <1>2, <1>6, <3>1, <3>2
    <3>4. \A i \in 1..(k - 1) : u[i] = saves[i + 1]
      BY <1>1, <1>2, <3>1, <3>2
    <3>5. (k - 1) + 1 = k
      BY <3>1
    <3> QED  BY <1>2, <3>1, <3>2, <3>3, <3>4, <3>5
  <2> QED  BY <1>1, <1>2, <1>3, <1>4, <1>6, <2>1 DEF TreesOK
<1> QED  BY <1>5, <1>6

LEMMA NotRoot ==
  ASSUME NEW fs, NEW p, p \notin DOMAIN fs, IsDir(fs, Parent(p))
  PROVE  p # Root
BY DEF IsDir, Parent

\* createDirectory and createFile.
LEMMA PutTrees ==
  ASSUME NEW fs, Sound(fs), NEW p \in Path, p # Root, IsDir(fs, Parent(p)),
         NEW node \in Node, node.kids = {}, node.copies = {}
  PROVE  Sound(Put(fs, p, node))
<1>1. p \in Seq(Name) /\ FsOK(fs) /\ Linkless(fs) /\ Grown(fs)
  BY PathAssumption DEF Sound
<1>2. IsPut(fs, p, node, Put(fs, p, node))
  BY <1>1, PutOK
<1>3. FsOK(Put(fs, p, node)) /\ Linkless(Put(fs, p, node))
  BY <1>1, <1>2, PutLinks DEF IsPut
<1>4. ASSUME NEW q \in DOMAIN Put(fs, p, node) PROVE GrownNode(Put(fs, p, node)[q])
  <2>1. CASE q = p
    BY <1>2, <2>1, NothingGrown DEF IsPut
  <2>2. CASE q # p
    BY <1>1, <1>2, <2>2 DEF IsPut, Grown, IsDir
  <2> QED  BY <2>1, <2>2
<1> QED  BY <1>3, <1>4 DEF Sound, Grown

LEMMA CutTrees ==
  ASSUME NEW fs, Sound(fs), NEW gone
  PROVE  Sound(Cut(fs, gone))
<1>1. IsCut(fs, gone, Cut(fs, gone))
  BY CutOK DEF Sound
<1>2. FsOK(Cut(fs, gone)) /\ Linkless(Cut(fs, gone))
  BY <1>1, CutLinks DEF IsCut, Sound
<1>3. Grown(Cut(fs, gone))
  BY <1>1 DEF IsCut, Sound, Grown
<1> QED  BY <1>2, <1>3 DEF Sound

\* The mount point is made before the image is read.
LEMMA MountPointOK ==
  ASSUME TreesOK, NEW p \in Path, CanMountAt(p)
  PROVE  Sound(WithMountPoint(p)) /\ IsDir(WithMountPoint(p), p)
<1>1. p # Root /\ p \in Seq(Name) /\ Sound(nodes)
  BY PathAssumption DEF CanMountAt, TreesOK
<1>2. CASE p \in DOMAIN nodes
  BY <1>1, <1>2 DEF CanMountAt, WithMountPoint
<1>3. CASE p \notin DOMAIN nodes
  <2>1. IsDir(nodes, Parent(p)) /\ WithMountPoint(p) = Put(nodes, p, Dir)
    BY <1>3 DEF CanMountAt, WithMountPoint
  <2>2. Sound(Put(nodes, p, Dir))
    BY <1>1, <2>1, NewNode, PutTrees
  <2>3. IsPut(nodes, p, Dir, Put(nodes, p, Dir))
    BY <1>1, NewNode, PutOK DEF Sound
  <2> QED  BY <2>1, <2>2, <2>3, NewNode DEF IsPut, IsDir
<1> QED  BY <1>2, <1>3

\* What a mount places before a clash holds the directory of all it holds: its
\* entries are placed in the order of their depth.
LEMMA DoneClosed ==
  ASSUME NEW image, IsImage(image), NEW clash \in SUBSET image, clash # {},
         NEW first, first = CHOOSE e \in clash : \A x \in clash : Len(e.at) <= Len(x.at),
         NEW done \in SUBSET image,
         \A e \in image : Len(e.at) < Len(first.at) => e \in done,
         \A e \in done : Len(e.at) <= Len(first.at)
  PROVE  Closed(done)
<1>1. \A e \in image : e.at \in Seq(Name) /\ e.at # Root /\ Len(e.at) \in Nat
  BY DEF IsImage, Entry
<1>2. first \in clash
  <2> DEFINE T == {Len(e.at) : e \in clash}
  <2>1. T \in SUBSET Nat /\ T # {}
    BY <1>1
  <2>2. PICK n \in T : \A k \in T : n <= k
    <3> HIDE DEF T
    <3> QED  BY <2>1, L!LeastElement
  <2>3. PICK e \in clash : n = Len(e.at)
    OBVIOUS
  <2>4. \A x \in clash : Len(e.at) <= Len(x.at)
    BY <2>2, <2>3
  <2> QED  BY <2>4
<1>3. ASSUME NEW e \in done, Len(e.at) > 1
      PROVE  \E x \in done : x.at = Parent(e.at) /\ x.kind = "dir"
  <2>1. PICK x \in image : x.at = Parent(e.at) /\ x.kind = "dir"
    BY <1>3 DEF IsImage
  <2>2. Len(x.at) = Len(e.at) - 1
    <3>1. PICK s \in Seq(Name) : s = e.at /\ s # Root
      BY <1>1
    <3> QED  BY <2>1, <3>1, ParentBase
  <2>3. Len(e.at) <= Len(first.at) /\ Len(e.at) \in Nat /\ Len(first.at) \in Nat
    BY <1>1, <1>2
  <2>4. Len(x.at) < Len(first.at)
    BY <2>2, <2>3
  <2> QED  BY <2>1, <2>4
<1>4. \A e, x \in done : e.at = x.at => e = x
  BY DEF IsImage
<1> QED  BY <1>3, <1>4 DEF Closed

\* Whether it finds a name taken or the mount point is all that is made, what a
\* failed mount placed is a tree of new nodes.
LEMMA DoneOK ==
  ASSUME NEW p, NEW image, IsImage(image), MountFails(p, image)
  PROVE  \E done \in SUBSET image :
           /\ Closed(done) /\ Placed(p, done) \cap DOMAIN WithMountPoint(p) = {}
           /\ nodes' = Graft(WithMountPoint(p), p, done)
<1>1. PICK clash : clash = Clash(p, image) /\ clash \subseteq image
  BY DEF Clash
<1>2. PICK first : first = CHOOSE e \in clash : \A x \in clash : Len(e.at) <= Len(x.at)
  OBVIOUS
<1>3. PICK done \in SUBSET (image \ clash) :
        /\ IF Stopped(p) THEN done = {}
           ELSE /\ \A e \in image : Len(e.at) < Len(first.at) => e \in done
                /\ \A e \in done : Len(e.at) <= Len(first.at)
        /\ nodes' = Graft(WithMountPoint(p), p, done)
  BY <1>1, <1>2 DEF MountFails
<1>4. Placed(p, done) \cap DOMAIN WithMountPoint(p) = {}
  BY <1>1, <1>3 DEF Placed, Clash
<1>5. CASE Stopped(p)
  BY <1>3, <1>4, <1>5 DEF Closed
<1>6. CASE ~Stopped(p)
  <2>1. clash # {}
    BY <1>1, <1>6 DEF MountFails
  <2>2. Closed(done)
    BY <1>1, <1>2, <1>3, <1>6, <2>1, DoneClosed
  <2> QED  BY <1>3, <1>4, <2>2
<1> QED  BY <1>5, <1>6

\* The entries of a mount that fails are all new.
LEMMA GraftFollows ==
  ASSUME NEW fs, NEW p, NEW tree, Placed(p, tree) \cap DOMAIN fs = {}
  PROVE  \A q \in DOMAIN fs :
           /\ q \in DOMAIN Graft(fs, p, tree)
           /\ fs[q] \in Node => /\ Graft(fs, p, tree)[q].kind = fs[q].kind
                                /\ Graft(fs, p, tree)[q].data = fs[q].data
<1>1. PICK top : top = {Head(e.at) : e \in {x \in tree : Len(x.at) = 1}}
  OBVIOUS
<1>2. PICK g : g = Graft(fs, p, tree)
  OBVIOUS
<1>3. /\ DOMAIN g = DOMAIN fs \cup Placed(p, tree)
      /\ \A q \in DOMAIN fs \ Placed(p, tree) :
           g[q] = IF q = p THEN [fs[p] EXCEPT !.kids = @ \cup top,
                                              !.copies = {c \in @ : Head(c.at) \notin top}]
                  ELSE fs[q]
  BY <1>1, <1>2 DEF Graft, Placed
<1>4. ASSUME NEW q \in DOMAIN fs, fs[q] \in Node
      PROVE  g[q].kind = fs[q].kind /\ g[q].data = fs[q].data
  <2>1. CASE q = p
    <3>1. PICK node \in Node : node = fs[q]
      BY <1>4
    <3>2. PICK C : C = {c \in node.copies : Head(c.at) \notin top}
      OBVIOUS
    <3>3. PICK K : K = node.kids \cup top
      OBVIOUS
    <3>4. g[q] = [node EXCEPT !.kids = K, !.copies = C]
      BY <1>3, <2>1, <3>1, <3>2, <3>3
    <3> QED  BY <3>1, <3>4 DEF Node
  <2>2. CASE q # p
    BY <1>3, <2>2
  <2> QED  BY <2>1, <2>2
<1> QED  BY <1>2, <1>3, <1>4

LEMMA FileOpTrees ==
  ASSUME TreesOK, FileOp PROVE TreesOK'
<1>0. Sound(nodes) /\ FsOK(nodes) /\ Linkless(nodes) /\ Grown(nodes)
  BY DEF TreesOK, Sound
<1>1. ASSUME NEW p \in Path, NEW node \in Node, node.kids = {}, node.copies = {},
             Create(p, node)
      PROVE  TreesOK'
  <2>1. p # Root /\ IsDir(nodes, Parent(p)) /\ nodes' = Put(nodes, p, node)
    BY <1>1, NotRoot DEF Create
  <2>2. Sound(nodes')
    BY <1>0, <1>1, <2>1, PutTrees
  <2> QED  BY <1>1, <2>2, PersistOK DEF Create
<1>2. ASSUME NEW p \in Path, NEW d \in Data, WriteFile(p, d) PROVE TreesOK'
  <2>1. p \in DOMAIN nodes /\ nodes' = [nodes EXCEPT ![p].data = d]
    BY <1>2 DEF WriteFile, IsFile
  <2>2. DOMAIN nodes' = DOMAIN nodes
    BY <2>1
  <2>3. ASSUME NEW q \in DOMAIN nodes
        PROVE  nodes'[q] \in Node /\ nodes'[q].kids = nodes[q].kids /\ GrownNode(nodes'[q])
    <3>1. PICK node \in Node : node = nodes[q] /\ GrownNode(node)
      BY <1>0 DEF FsOK, Grown
    <3>2. CASE q = p
      <4>1. nodes'[q] = [node EXCEPT !.data = d]
        BY <2>1, <3>1, <3>2
      <4> QED  BY <3>1, <4>1 DEF Node, GrownNode
    <3>3. CASE q # p
      BY <2>1, <3>1, <3>3
    <3> QED  BY <3>2, <3>3
  <2>4. Sound(nodes')
    BY <1>0, <2>2, <2>3 DEF Sound, FsOK, Linkless, Grown
  <2> QED  BY <1>2, <2>4, PersistOK DEF WriteFile
<1>3. ASSUME NEW p \in Path, Remove(p) PROVE TreesOK'
  <2>1. Sound(nodes')
    BY <1>0, <1>3, CutTrees DEF Remove
  <2> QED  BY <1>3, <2>1, PersistOK DEF Remove
<1>4. ASSUME NEW p \in Path, NEW q \in Path, Rename(p, q) PROVE TreesOK'
  <2>1. q # Root /\ q \in Seq(Name) /\ p \in DOMAIN nodes /\ IsDir(nodes, Parent(q))
    BY <1>4, NotRoot, PathAssumption DEF Rename, CanRename
  <2>2. Sound(nodes')
    BY <1>0, <1>4, <2>1, MovedOK DEF Rename
  <2> QED  BY <1>4, <2>2, PersistOK DEF Rename
<1>5. ASSUME NEW p \in Path, NEW q \in Path, RenameIntoItself(p, q) PROVE TreesOK'
  <2>1. circular' /\ UNCHANGED <<saved, saves>> /\ \E gone : nodes' = Cut(nodes, gone)
    BY <1>5 DEF RenameIntoItself, onDisk
  <2>2. Sound(nodes')
    BY <1>0, <2>1, CutTrees
  <2> QED  BY <2>1, <2>2 DEF TreesOK
<1> QED  BY <1>1, <1>2, <1>3, <1>4, <1>5, NewNode, DataAssumption
         DEF FileOp, CreateDirectory, CreateFile

\* The mount point a mount makes is given to the host before the entries are.
LEMMA MountTrees ==
  ASSUME TreesOK, NEW p \in Path, NEW image, IsImage(image), MountImage(p, image)
  PROVE  TreesOK'
<1>1. p \in Seq(Name) /\ CanMountAt(p)
  BY PathAssumption DEF MountImage
<1>2. PICK fs : fs = WithMountPoint(p)
  OBVIOUS
<1>3. Sound(fs) /\ IsDir(fs, p)
  BY <1>1, <1>2, MountPointOK
<1>4. nodes' = Graft(fs, p, image) /\ UNCHANGED <<saved, missed, booted, circular>>
  BY <1>2 DEF MountImage
<1>5. Placed(p, image) \cap DOMAIN fs = {} /\ image \subseteq Entry /\ Closed(image)
  BY <1>2 DEF MountImage, Placed, Clash, IsImage, Closed
<1>6. Sound(nodes')
  BY <1>1, <1>3, <1>4, <1>5, GraftOK
<1>7. CASE p \in DOMAIN nodes
  BY <1>4, <1>6, <1>7, PersistOK DEF MountImage
<1>8. CASE p \notin DOMAIN nodes
  <2>1. PICK S : saves \in Seq(S) /\ \A x \in S : Sound(x)
    BY DEF TreesOK
  <2>2. PICK queue : queue = Persisted(saves, fs)
    OBVIOUS
  <2>3. PICK out : out = nodes'
    OBVIOUS
  <2>4. saves' = Persisted(queue, out) /\ Follows(nodes', out) /\ Sound(out)
    BY <1>2, <1>6, <1>8, <2>2, <2>3 DEF MountImage, Follows
  <2>5. circular \/ booted => queue = saves
    BY <2>2 DEF Persisted
  <2>6. \E T : queue \in Seq(T) /\ \A x \in T : Sound(x)
    <3>1. CASE circular \/ booted
      BY <2>1, <2>5, <3>1
    <3>2. CASE ~circular /\ ~booted
      <4>1. queue = Append(saves, Serialized(fs)) /\ Sound(Serialized(fs))
        BY <1>3, <2>2, <3>2, SerializedSound DEF Persisted
      <4> QED  BY <2>1, <4>1, PushedLast
    <3> QED  BY <3>1, <3>2
  <2> QED  BY <1>4, <1>6, <2>4, <2>5, <2>6, PersistedOK
<1> QED  BY <1>7, <1>8

LEMMA MountFailsTrees ==
  ASSUME TreesOK, NEW p \in Path, NEW image, IsImage(image), MountFails(p, image)
  PROVE  TreesOK'
<1>1. p \in Seq(Name) /\ CanMountAt(p)
  BY PathAssumption DEF MountFails
<1>2. PICK fs : fs = WithMountPoint(p)
  OBVIOUS
<1>3. Sound(fs) /\ IsDir(fs, p)
  BY <1>1, <1>2, MountPointOK
<1>4. PICK done \in SUBSET image :
        Closed(done) /\ Placed(p, done) \cap DOMAIN fs = {} /\ nodes' = Graft(fs, p, done)
  BY <1>2, DoneOK
<1>5. Sound(nodes')
  BY <1>1, <1>3, <1>4, GraftOK DEF IsImage
<1>6. Follows(nodes', fs)
  BY <1>3, <1>4, GraftFollows DEF Follows, Sound, FsOK
<1>7. UNCHANGED <<saved, missed, booted, circular>>
  BY DEF MountFails
<1>8. CASE p \in DOMAIN nodes
  <2>1. fs = nodes /\ UNCHANGED saves
    BY <1>2, <1>8 DEF WithMountPoint, MountFails
  <2>2. \A disk : Follows(nodes, disk) => Follows(nodes', disk)
    BY <1>6, <2>1 DEF Follows
  <2> QED  BY <1>5, <1>7, <2>1, <2>2 DEF TreesOK
<1>9. CASE p \notin DOMAIN nodes
  <2>1. saves' = Persisted(saves, fs)
    BY <1>2, <1>9 DEF MountFails, Persist
  <2>2. PICK S : saves \in Seq(S) /\ \A x \in S : Sound(x)
    BY DEF TreesOK
  <2> QED  BY <1>3, <1>5, <1>6, <1>7, <2>1, <2>2, PersistedOK
<1> QED  BY <1>8, <1>9

LEMMA UnmountTrees ==
  ASSUME TreesOK, NEW p, UnmountImage(p) PROVE TreesOK'
<1>1. PICK rest : rest = Cut(nodes, {p \o e.at : e \in mounts[p].image})
  OBVIOUS
<1>2. Sound(rest)
  BY <1>1, CutTrees DEF TreesOK
<1>3. nodes' = rest \/ nodes' = Cut(rest, {p})
  BY <1>1 DEF UnmountImage
<1>4. Sound(nodes')
  BY <1>2, <1>3, CutTrees
<1> QED  BY <1>4, PersistOK DEF UnmountImage

LEMMA VolumesStep ==
  ASSUME TreesOK, ImagesOK, [VolumesNext]_vars PROVE TreesOK' /\ ImagesOK'
<1>1. CASE FileOp /\ UNCHANGED kernelVars
  BY <1>1, FileOpTrees DEF ImagesOK, kernelVars
<1>2. ASSUME NEW p \in Path, NEW f \in ImageFile,
             Mount(f, p) \/ MountTaken(f, p) \/ MountUnreadable(f, p)
      PROVE  TreesOK' /\ ImagesOK'
  <2>1. ImagesOK'
    BY <1>2 DEF Mount, MountTaken, MountUnreadable, ImagesOK, kernelVars
  <2>2. CASE Mount(f, p)
    <3>1. IsImage(images[f]) /\ MountImage(p, images[f])
      BY <2>2 DEF Mount, Readable, ImagesOK
    <3> QED  BY <2>1, <3>1, MountTrees
  <2>3. CASE MountTaken(f, p)
    <3>1. IsImage(images[f]) /\ MountFails(p, images[f])
      BY <2>3 DEF MountTaken, Readable, ImagesOK
    <3> QED  BY <2>1, <3>1, MountFailsTrees
  <2>4. CASE MountUnreadable(f, p)
    <3>1. Sound(nodes')
      BY <2>4, MountPointOK DEF MountUnreadable
    <3> QED  BY <2>1, <2>4, <3>1, PersistOK DEF MountUnreadable
  <2> QED  BY <1>2, <2>2, <2>3, <2>4
<1>3. ASSUME NEW p \in Path, Unmount(p) PROVE TreesOK' /\ ImagesOK'
  BY <1>3, UnmountTrees DEF Unmount, ImagesOK
<1>4. ASSUME NEW p \in Path, WriteBack(p) \/ WriteBackFails(p) PROVE TreesOK' /\ ImagesOK'
  <2>1. TreesOK'
    BY <1>4 DEF WriteBack, WriteBackFails, fsVars, onDisk, TreesOK
  <2>2. ImagesOK'
    BY <1>4 DEF WriteBack, WriteBackFails, ImagesOK
  <2> QED  BY <2>1, <2>2
<1>5. CASE Reboot
  <2>1. nodes' = Serialized(nodes) /\ saved' = nodes' /\ saves' = <<>> /\ booted'
    BY <1>5 DEF Reboot, Restore
  <2>2. Sound(nodes') /\ Sound(saved')
    BY <2>1, SerializedSound DEF TreesOK
  <2>3. saves' \in Seq({})
    BY <2>1
  <2>4. ImagesOK'
    BY <1>5 DEF Reboot, ImagesOK
  <2> QED  BY <2>1, <2>2, <2>3, <2>4 DEF TreesOK
<1>6. CASE Crash
  <2>1. UNCHANGED saved /\ nodes' = saved /\ saves' = <<>>
    BY <1>6 DEF Crash, Restore
  <2>2. saves' \in Seq({})
    BY <2>1
  <2>3. TreesOK'
    BY <2>1, <2>2 DEF TreesOK, Follows
  <2>4. ImagesOK'
    BY <1>6 DEF Crash, ImagesOK
  <2> QED  BY <2>3, <2>4
<1>7. CASE UNCHANGED vars
  BY <1>7 DEF vars, fsVars, onDisk, kernelVars, TreesOK, ImagesOK
<1>8. CASE SaveEnds /\ UNCHANGED kernelVars
  BY <1>8, SaveEndsTrees DEF ImagesOK, kernelVars
<1> QED  BY <1>1, <1>2, <1>3, <1>4, <1>5, <1>6, <1>7, <1>8, ImageAssumption DEF VolumesNext

LEMMA VolumesStart ==
  ASSUME VolumesInit PROVE TreesOK /\ ImagesOK
<1>1. Root \in Seq(Name) /\ Root = <<>>
  BY DEF Root
<1>2. DOMAIN nodes = {Root} /\ nodes[Root] = Dir /\ saved = nodes /\ saves = <<>>
  BY DEF VolumesInit, FsInit
<1>3. GrownNode(Dir)
  BY NewNode, NothingGrown
<1>4. Sound(nodes)
  BY <1>1, <1>2, <1>3, NewNode DEF Sound, FsOK, Linkless, Grown
<1>5. saves \in Seq({})
  BY <1>2
<1> QED  BY <1>2, <1>4, <1>5, ImageAssumption
         DEF VolumesInit, TreesOK, ImagesOK, Follows

\* Every name a directory lists can be opened (children and nodes of
\* InMemoryFileSystem name the same things), whatever is created, renamed,
\* mounted and unmounted, through mounts that fail half way, renames of
\* a directory into itself, and restarts.
THEOREM NamesResolve == Spec => []LinksResolve
<1>1. TreesOK => LinksResolve
  BY DEF TreesOK, Sound, Linkless, LinksResolve
<1> QED  BY <1>1, VolumesStart, VolumesStep, PTL DEF Spec

\* What a crash would bring back, once the host has handled the calls of save_fs
\* and the last did not fail, is in memory with the same content: persist
\* is the last thing an operation does, and what a failed mount leaves is new.
THEOREM DiskIsBehindMemory == Spec => []DiskFollows
<1>1. TreesOK => DiskFollows
  BY DEF TreesOK, Follows, DiskFollows
<1> QED  BY <1>1, VolumesStart, VolumesStep, PTL DEF Spec

-----------------------------------------------------------------------------
(* Ancestors *)

LEMMA Ancestors ==
  ASSUME NEW fs, FsOK(fs), OrphanFree(fs), NEW p \in Seq(Name), NEW s \in Seq(Name),
         p \o s \in DOMAIN fs
  PROVE  p \in DOMAIN fs
<1> DEFINE N == {n \in Nat : \A r \in Seq(Name) :
                    Len(r) = n /\ p \o r \in DOMAIN fs => p \in DOMAIN fs}
<1>1. 0 \in N
  <2>1. ASSUME NEW r \in Seq(Name), Len(r) = 0 PROVE p \o r = p
    BY <2>1, EmptySeq, RestFacts DEF Root
  <2> QED  BY <2>1
<1>2. ASSUME NEW n \in Nat, n \in N PROVE n + 1 \in N
  <2>1. ASSUME NEW r \in Seq(Name), Len(r) = n + 1, p \o r \in DOMAIN fs
        PROVE  p \in DOMAIN fs
    <3>1. r # Root
      BY <2>1, EmptySeq DEF Root
    <3>2. PICK t \in Seq(Name) : t = Parent(r) /\ Len(t) = n
      BY <2>1, <3>1, ParentBase
    <3>3. PICK b \in Name : Append(t, b) = r
      BY <3>1, <3>2, ParentBase
    <3>4. p \o t \in Seq(Name) /\ p \o r = Append(p \o t, b)
      BY <3>2, <3>3, RestFacts
    <3>5. p \o r # Root /\ Parent(p \o r) = p \o t
      BY <3>4, AppendParent
    <3>6. p \o t \in DOMAIN fs
      BY <2>1, <3>5 DEF OrphanFree, Listed, IsDir
    <3> QED  BY <1>2, <3>2, <3>6
  <2> QED  BY <2>1
<1> HIDE DEF N
<1>3. Len(s) \in N
  BY <1>1, <1>2, L!Induction
<1> QED  BY <1>3 DEF N

-----------------------------------------------------------------------------
(* Nodes that are listed nowhere *)

LEMMA PutListed ==
  ASSUME NEW fs, OrphanFree(fs), NEW p, p \notin DOMAIN fs, IsDir(fs, Parent(p)),
         NEW node, NEW out, IsPut(fs, p, node, out)
  PROVE  OrphanFree(out)
<1> SUFFICES ASSUME NEW q \in DOMAIN out \ {Root} PROVE Listed(out, q)
  BY DEF OrphanFree
<1>1. Parent(q) \in DOMAIN fs /\ fs[Parent(q)].kind = "dir"
  BY DEF IsPut, OrphanFree, Listed, IsDir
<1>2. Parent(q) # p /\ out[Parent(q)].kind = "dir" /\ Parent(q) \in DOMAIN out
  BY <1>1 DEF IsPut
<1>3. CASE q = p
  BY <1>1, <1>2, <1>3 DEF IsPut, Listed, IsDir
<1>4. CASE q # p
  <2>1. Base(q) \in fs[Parent(q)].kids
    BY <1>4 DEF IsPut, OrphanFree, Listed
  <2> QED  BY <1>1, <1>2, <2>1 DEF IsPut, Listed, IsDir
<1> QED  BY <1>3, <1>4

LEMMA RemoveListed ==
  ASSUME NEW fs, FsOK(fs), OrphanFree(fs), NEW p \in DOMAIN fs, fs[p].kids = {},
         NEW out, IsCut(fs, {p}, out)
  PROVE  OrphanFree(out)
<1> SUFFICES ASSUME NEW q \in DOMAIN out \ {Root} PROVE Listed(out, q)
  BY DEF OrphanFree
<1>1. q \in DOMAIN fs /\ q # p /\ q \in Seq(Name)
  BY DEF IsCut, FsOK
<1>2. Parent(q) \in DOMAIN fs /\ fs[Parent(q)].kind = "dir" /\ Base(q) \in fs[Parent(q)].kids
  BY <1>1 DEF OrphanFree, Listed, IsDir
<1>3. Append(Parent(q), Base(q)) = q
  BY <1>1, ParentBase
<1>4. Parent(q) \in DOMAIN out /\ Base(q) \in out[Parent(q)].kids
  BY <1>1, <1>2, <1>3 DEF IsCut
<1> QED  BY <1>2, <1>4 DEF IsCut, Listed, IsDir

LEMMA SameTreeListed ==
  ASSUME NEW fs, OrphanFree(fs), NEW out, SameTree(fs, out) PROVE OrphanFree(out)
BY DEF OrphanFree, Listed, IsDir, SameTree

LEMMA GraftListed ==
  ASSUME NEW fs, FsOK(fs), OrphanFree(fs), NEW p \in Seq(Name), IsDir(fs, p),
         NEW tree, tree \subseteq Entry, Closed(tree), Placed(p, tree) \cap DOMAIN fs = {}
  PROVE  OrphanFree(Graft(fs, p, tree))
<1>1. PICK top : top = {Head(e.at) : e \in {x \in tree : Len(x.at) = 1}}
  OBVIOUS
<1>2. PICK g : g = Graft(fs, p, tree)
  OBVIOUS
<1>3. /\ DOMAIN g = DOMAIN fs \cup Placed(p, tree)
      /\ \A q \in Placed(p, tree) : g[q] = NodeAt(tree, Rest(p, q))
      /\ \A q \in DOMAIN fs \ Placed(p, tree) :
           g[q] = IF q = p THEN [fs[p] EXCEPT !.kids = @ \cup top,
                                              !.copies = {c \in @ : Head(c.at) \notin top}]
                  ELSE fs[q]
  BY <1>1, <1>2 DEF Graft, Placed
<1>4. ASSUME NEW q \in DOMAIN fs
      PROVE  /\ g[q].kind = fs[q].kind /\ fs[q].kids \subseteq g[q].kids
             /\ q = p => top \subseteq g[q].kids
  <2>1. PICK node \in Node : node = fs[q]
    BY DEF FsOK
  <2>2. CASE q = p
    <3>1. PICK C : C = {c \in node.copies : Head(c.at) \notin top}
      OBVIOUS
    <3>2. PICK K : K = node.kids \cup top
      OBVIOUS
    <3>3. g[q] = [node EXCEPT !.kids = K, !.copies = C]
      BY <1>3, <2>1, <2>2, <3>1, <3>2
    <3>4. g[q].kind = node.kind /\ g[q].kids = K
      BY <3>3 DEF Node
    <3> QED  BY <2>1, <3>2, <3>4
  <2>3. CASE q # p
    BY <1>3, <2>3
  <2> QED  BY <2>2, <2>3
<1>5. tree \subseteq Leaf
  BY DEF Leaf, Entry
<1>6. ASSUME NEW q \in DOMAIN g \ {Root} PROVE Listed(g, q)
  <2>1. CASE q \in DOMAIN fs
    <3>1. Parent(q) \in DOMAIN fs /\ fs[Parent(q)].kind = "dir"
          /\ Base(q) \in fs[Parent(q)].kids
      BY <1>6, <2>1 DEF OrphanFree, Listed, IsDir
    <3> QED  BY <1>3, <1>4, <3>1 DEF Listed, IsDir
  <2>2. CASE q \notin DOMAIN fs
    <3>1. PICK e \in tree : q = p \o e.at
      BY <1>3, <1>6, <2>2 DEF Placed
    <3>2. PICK s \in Seq(Name) : s = e.at /\ s # Root
      BY DEF Entry
    <3>3. PICK t \in Seq(Name) : t = Parent(s) /\ Len(t) = Len(s) - 1
      BY <3>2, ParentBase
    <3>4. PICK b \in Name : b = Base(s) /\ Append(t, b) = s
      BY <3>2, <3>3, ParentBase
    <3>5. p \o t \in Seq(Name) /\ q = Append(p \o t, b) /\ Rest(p, p \o t) = t
      <4>1. p \o t \in Seq(Name) /\ Rest(p, p \o t) = t
        BY RestFacts
      <4>2. Append(p \o t, b) = p \o Append(t, b)
        BY RestFacts
      <4> QED  BY <3>1, <3>2, <3>4, <4>1, <4>2
    <3>6. Parent(q) = p \o t /\ Base(q) = b
      BY <3>5, AppendParent
    <3>7. CASE Len(s) = 1
      <4>1. t = Root
        BY <3>3, <3>7, EmptySeq DEF Root
      <4>2. Parent(q) = p
        BY <3>6, <4>1, RestFacts
      <4>3. b \in top
        <5>1. Base(s) = Head(s)
          BY <3>7, <3>2 DEF Base
        <5> QED  BY <1>1, <3>2, <3>4, <3>7, <5>1
      <4> QED  BY <1>3, <1>4, <3>6, <4>2, <4>3 DEF Listed, IsDir
    <3>8. CASE Len(s) # 1
      <4>1. Len(s) > 1
        <5>1. PICK k \in Nat : k = Len(s)
          OBVIOUS
        <5>2. k >= 1
          BY <3>2, <5>1, ParentBase
        <5> QED  BY <3>8, <5>1, <5>2
      <4>2. PICK x \in tree : x.at = t /\ x.kind = "dir"
        BY <3>2, <3>3, <4>1 DEF Closed
      <4>3. p \o t \in Placed(p, tree)
        BY <4>2 DEF Placed
      <4>4. g[p \o t] = NodeAt(tree, t)
        BY <1>3, <3>5, <4>3
      <4>5. NodeAt(tree, t).kids = KidsIn(tree, t)
            /\ \E y \in tree : y.at = t /\ NodeAt(tree, t).kind = y.kind
        <5>1. NodeAt(tree, x.at).kids = KidsIn(tree, x.at)
          BY <1>5, NodeAtOK
        <5>2. NodeOf(tree, x.at, NodeAt(tree, x.at))
          BY <1>5, NodeAtOK
        <5> QED  BY <4>2, <5>1, <5>2 DEF NodeOf
      <4>6. NodeAt(tree, t).kind = "dir"
        BY <4>2, <4>5 DEF Closed
      <4>7. b \in KidsIn(tree, t)
        BY <3>1, <3>2, <3>4 DEF KidsIn
      <4> QED  BY <1>3, <3>6, <4>3, <4>4, <4>5, <4>6, <4>7 DEF Listed, IsDir
    <3> QED  BY <3>7, <3>8
  <2> QED  BY <2>1, <2>2
<1> QED  BY <1>2, <1>6 DEF OrphanFree

\* rename takes all of a subtree along, as long as no child is a copy; of a subtree
\* with copies it may leave nodes behind, all below the directory it moved.
LEMMA MovedListed ==
  ASSUME NEW fs, Sound(fs), OrphanFree(fs), NEW old \in DOMAIN fs,
         NEW new \in Seq(Name), new \notin DOMAIN fs, IsDir(fs, Parent(new)), ~Within(old, new),
         NEW q \in DOMAIN Moved(fs, old, new) \ {Root}, ~Listed(Moved(fs, old, new), q)
  PROVE  Within(old, q) /\ \E p \in Subtree(fs, old) : fs[p].copies # {}
<1>1. old \in Seq(Name) /\ new # Root /\ FsOK(fs) /\ Grown(fs)
  BY NotRoot DEF Sound, FsOK
<1>2. PICK tree : tree = Entries(fs, old)
  OBVIOUS
<1>3. tree \subseteq Leaf /\ Rooted(tree)
  BY <1>1, <1>2, SubtreeOK, EntriesRooted
<1>4. PICK rest : rest = Cut(fs, Placed(old, tree))
  OBVIOUS
<1>5. IsCut(fs, Placed(old, tree), rest)
  BY <1>1, <1>4, CutOK
<1>6. PICK m : m = Moved(fs, old, new)
  OBVIOUS
<1>7. /\ DOMAIN m = DOMAIN rest \cup Placed(new, tree)
      /\ \A r \in Placed(new, tree) : m[r] = NodeAt(tree, Rest(new, r))
      /\ \A r \in DOMAIN rest \ Placed(new, tree) :
           m[r] = IF r = Parent(new) THEN WithKid(rest[r], Base(new)) ELSE rest[r]
  BY <1>2, <1>4, <1>6 DEF Moved, Placed
<1>8. Base(new) \in Name /\ Append(Parent(new), Base(new)) = new
  BY <1>1, ParentBase
<1>9. \A r \in Placed(old, tree) : Within(old, r)
  BY <1>1, <1>3, PlacedWithin
<1>10. Placed(new, tree) \cap DOMAIN fs = {}
  <2>1. ASSUME NEW e \in tree, new \o e.at \in DOMAIN fs PROVE FALSE
    <3>1. e.at \in Seq(Name)
      BY <1>3 DEF Leaf
    <3> QED  BY <1>1, <2>1, <3>1, Ancestors
  <2> QED  BY <2>1 DEF Placed
<1>11. ASSUME NEW r \in DOMAIN fs \ Placed(old, tree)
       PROVE  /\ r \in DOMAIN m /\ m[r].kind = fs[r].kind
              /\ \A n \in fs[r].kids : Append(r, n) \notin Placed(old, tree) => n \in m[r].kids
              /\ r = Parent(new) => Base(new) \in m[r].kids
  <2>1. r \in DOMAIN rest \ Placed(new, tree)
    BY <1>5, <1>10 DEF IsCut
  <2>2. PICK node \in Node : node = rest[r]
    BY <1>5, <2>1 DEF IsCut, FsOK
  <2>3. /\ node.kind = fs[r].kind
        /\ \A n \in fs[r].kids : Append(r, n) \notin Placed(old, tree) => n \in node.kids
    BY <1>5, <2>1, <2>2 DEF IsCut
  <2>4. CASE r = Parent(new)
    <3>1. m[r] = WithKid(node, Base(new))
      BY <1>7, <2>1, <2>2, <2>4
    <3>2. m[r].kind = node.kind /\ m[r].kids = node.kids \cup {Base(new)}
      BY <1>8, <3>1, WithKidOK
    <3> QED  BY <1>7, <2>1, <2>3, <3>2
  <2>5. CASE r # Parent(new)
    BY <1>7, <2>1, <2>2, <2>3, <2>5
  <2> QED  BY <2>4, <2>5
<1>12. ASSUME NEW e \in tree, q = new \o e.at PROVE Listed(m, q)
  <2>1. CASE e.at = Root
    <3>1. q = new
      BY <1>12, <2>1, RestFacts
    <3>2. Parent(new) \in DOMAIN fs /\ fs[Parent(new)].kind = "dir"
      BY DEF IsDir
    <3>3. Parent(new) \notin Placed(old, tree)
      BY <1>1, <1>9, WithinParent
    <3> QED  BY <1>11, <3>1, <3>2, <3>3 DEF Listed, IsDir
  <2>2. CASE e.at # Root
    <3>1. PICK x \in tree : x.at = Parent(e.at) /\ x.kind = "dir"
      BY <1>3, <2>2 DEF Rooted
    <3>2. PICK t \in Seq(Name) : t = Parent(e.at)
      BY <1>3, <2>2, ParentBase DEF Leaf
    <3>3. PICK b \in Name : b = Base(e.at) /\ Append(t, b) = e.at
      BY <1>3, <2>2, <3>2, ParentBase DEF Leaf
    <3>4. Parent(new \o Append(t, b)) = new \o t /\ Base(new \o Append(t, b)) = b
      BY BelowFacts
    <3>5. new \o t \in Placed(new, tree)
      BY <3>1, <3>2 DEF Placed
    <3>6. m[new \o t] = NodeAt(tree, t) /\ new \o t \in DOMAIN m
      <4>1. Rest(new, new \o t) = t
        BY RestFacts
      <4> QED  BY <1>7, <3>5, <4>1
    <3>7. NodeAt(tree, x.at).kind = "dir" /\ Base(e.at) \in NodeAt(tree, x.at).kids
      BY <1>3, <2>2, <3>1, NodeAtGrown DEF Rooted
    <3>8. Parent(q) = new \o t /\ Base(q) = b
      BY <1>12, <3>3, <3>4
    <3> QED  BY <3>1, <3>2, <3>3, <3>6, <3>7, <3>8 DEF Listed, IsDir
  <2> QED  BY <2>1, <2>2
<1>13. q \in DOMAIN fs \ Placed(old, tree)
  <2>1. q \notin Placed(new, tree)
    BY <1>6, <1>12 DEF Placed
  <2> QED  BY <1>5, <1>6, <1>7, <2>1 DEF IsCut
<1>14. /\ Parent(q) \in DOMAIN fs /\ fs[Parent(q)].kind = "dir"
       /\ Base(q) \in fs[Parent(q)].kids /\ q \in Seq(Name)
  BY <1>1, <1>13 DEF OrphanFree, Listed, IsDir, FsOK
<1>15. Append(Parent(q), Base(q)) = q
  BY <1>14, ParentBase
<1>16. Parent(q) \in Placed(old, tree)
  <2> SUFFICES ASSUME Parent(q) \notin Placed(old, tree) PROVE FALSE
    OBVIOUS
  <2>1. Listed(m, q)
    BY <1>11, <1>13, <1>14, <1>15 DEF Listed, IsDir
  <2> QED  BY <1>6, <2>1
<1>17. Within(old, q)
  BY <1>1, <1>9, <1>14, <1>16, WithinParent
<1>18. ASSUME \A p \in Subtree(fs, old) : fs[p].copies = {} PROVE FALSE
  <2>1. PICK e \in tree : Parent(q) = old \o e.at
    BY <1>16 DEF Placed
  <2>2. PICK u \in Subtree(fs, old), r \in Seq(Name) : old \o e.at = u \o r /\ From(fs, u, r, e)
    BY <1>1, <1>2, EntryFrom
  <2>3. r = Root /\ u \in Seq(Name)
    BY <1>1, <1>18, <2>2, SubtreeOK DEF From, FsOK
  <2>4. Parent(q) = u
    BY <2>1, <2>2, <2>3, RestFacts
  <2>5. Linked(fs, old, q)
    BY <1>1, <1>14, <1>18, <2>2, <2>4, ChildLinked, SubtreeOK
  <2>6. q \in Subtree(fs, old)
    BY <1>13, <2>5 DEF Subtree
  <2>7. PICK x : x = [at |-> Rest(old, q), kind |-> fs[q].kind, data |-> fs[q].data]
    OBVIOUS
  <2>8. x \in tree /\ x.at = Rest(old, q)
    BY <1>2, <2>6, <2>7 DEF Entries
  <2>9. q = old \o Rest(old, q)
    BY <1>1, <1>14, <1>17, WithinIsConcat
  <2> QED  BY <1>13, <2>8, <2>9 DEF Placed
<1> QED  BY <1>17, <1>18

\* A node that a cut leaves and nothing lists stood in a directory that was cut.
LEMMA CutListed ==
  ASSUME NEW fs, Sound(fs), OrphanFree(fs), NEW gone,
         NEW q \in DOMAIN Cut(fs, gone) \ {Root}, ~Listed(Cut(fs, gone), q)
  PROVE  Parent(q) \in gone /\ q \in Seq(Name)
<1>1. PICK out : out = Cut(fs, gone) /\ IsCut(fs, gone, out)
  BY CutOK DEF Sound
<1>2. q \in DOMAIN fs \ gone /\ q \in Seq(Name)
  BY <1>1 DEF IsCut, FsOK
<1>3. Parent(q) \in DOMAIN fs /\ fs[Parent(q)].kind = "dir" /\ Base(q) \in fs[Parent(q)].kids
  BY <1>2 DEF OrphanFree, Listed, IsDir
<1>4. Append(Parent(q), Base(q)) = q
  BY <1>2, ParentBase
<1>5. Parent(q) \notin gone => Listed(out, q)
  BY <1>1, <1>2, <1>3, <1>4 DEF IsCut, Listed, IsDir
<1> QED  BY <1>1, <1>2, <1>5

LEMMA MountPointListed ==
  ASSUME TreesOK, OrphanFree(nodes), NEW p \in Path, CanMountAt(p)
  PROVE  OrphanFree(WithMountPoint(p))
<1>1. p \in Seq(Name) /\ p # Root
  BY PathAssumption DEF CanMountAt
<1>2. CASE p \in DOMAIN nodes
  BY <1>2 DEF CanMountAt, WithMountPoint
<1>3. CASE p \notin DOMAIN nodes
  <2>1. IsPut(nodes, p, Dir, Put(nodes, p, Dir))
    BY <1>1, NewNode, PutOK DEF TreesOK, Sound
  <2>2. IsDir(nodes, Parent(p)) /\ WithMountPoint(p) = Put(nodes, p, Dir)
    BY <1>3 DEF CanMountAt, WithMountPoint
  <2>3. OrphanFree(Put(nodes, p, Dir))
    BY <1>3, <2>1, <2>2, PutListed
  <2> QED  BY <2>2, <2>3
<1> QED  BY <1>2, <1>3

LEMMA MountListed ==
  ASSUME TreesOK, OrphanFree(nodes), NEW p \in Path, NEW image, IsImage(image),
         MountImage(p, image) \/ MountFails(p, image)
  PROVE  OrphanFree(nodes')
<1>1. p \in Seq(Name) /\ CanMountAt(p)
  BY PathAssumption DEF MountImage, MountFails
<1>2. PICK fs : fs = WithMountPoint(p)
  OBVIOUS
<1>3. FsOK(fs) /\ OrphanFree(fs) /\ IsDir(fs, p)
  BY <1>1, <1>2, MountPointOK, MountPointListed DEF Sound
<1>4. PICK done \in SUBSET image :
        Closed(done) /\ Placed(p, done) \cap DOMAIN fs = {} /\ nodes' = Graft(fs, p, done)
  <2>1. CASE MountImage(p, image)
    <3>1. /\ Closed(image) /\ Placed(p, image) \cap DOMAIN fs = {}
          /\ nodes' = Graft(fs, p, image)
      BY <1>2, <2>1 DEF MountImage, Clash, Placed, IsImage, Closed
    <3> QED  BY <3>1
  <2>2. CASE MountFails(p, image)
    BY <1>2, <2>2, DoneOK
  <2> QED  BY <2>1, <2>2
<1> QED  BY <1>1, <1>3, <1>4, GraftListed DEF IsImage

\* unmount leaves what was made in the directories of the image.
LEMMA UnmountListed ==
  ASSUME TreesOK, OrphanFree(nodes), NEW p, UnmountImage(p),
         NEW q \in DOMAIN nodes' \ {Root}, ~Listed(nodes', q)
  PROVE  \E e \in mounts[p].image : Parent(q) = p \o e.at
<1>1. PICK gone : gone = {p \o e.at : e \in mounts[p].image}
  OBVIOUS
<1>2. PICK rest : rest = Cut(nodes, gone)
  OBVIOUS
<1>3. IsCut(nodes, gone, rest) /\ Sound(nodes) /\ Sound(rest)
  BY <1>2, CutOK, CutTrees DEF TreesOK, Sound
<1>4. CASE nodes' = rest
  BY <1>1, <1>2, <1>3, <1>4, CutListed
<1>5. CASE nodes' # rest
  <2>1. nodes' = Cut(rest, {p}) /\ p \in DOMAIN rest /\ rest[p].kids = {}
    BY <1>1, <1>2, <1>5 DEF UnmountImage
  <2>2. IsCut(rest, {p}, nodes')
    BY <1>3, <2>1, CutOK DEF Sound
  <2>3. q \in DOMAIN rest \ {p}
    BY <2>2 DEF IsCut
  <2>4. ASSUME Listed(rest, q) PROVE FALSE
    <3>1. Parent(q) \in DOMAIN rest /\ rest[Parent(q)].kind = "dir" /\ Base(q) \in rest[Parent(q)].kids
      BY <2>4 DEF Listed, IsDir
    <3>2. Parent(q) # p
      BY <2>1, <3>1
    <3>3. Append(Parent(q), Base(q)) = q
      BY <1>3, <2>3, ParentBase DEF Sound, FsOK
    <3> QED  BY <2>2, <2>3, <3>1, <3>2, <3>3 DEF IsCut, Listed, IsDir
  <2>5. ~Listed(rest, q)
    BY <2>4
  <2> QED  BY <1>1, <1>2, <1>3, <2>3, <2>5, CutListed
<1> QED  BY <1>4, <1>5

\* A rename of a directory into itself leaves nodes that were below it.
LEMMA CycleListed ==
  ASSUME TreesOK, OrphanFree(nodes), NEW old \in Path, NEW new \in Path,
         RenameIntoItself(old, new), NEW q \in DOMAIN nodes' \ {Root}, ~Listed(nodes', q)
  PROVE  Within(old, q)
<1>1. PICK tree : tree = Entries(nodes, old)
  OBVIOUS
<1>2. PICK gone \in SUBSET Placed(old, tree) : nodes' = Cut(nodes, gone)
  <2>1. PICK met : met = Placed(old, tree)
    OBVIOUS
  <2>2. \E S : nodes' = Cut(nodes, {r \in met : \A u \in S : ~Within(u, r)})
    BY <1>1, <2>1 DEF RenameIntoItself, Placed
  <2> QED  BY <2>1, <2>2
<1>3. old \in Seq(Name) /\ Sound(nodes)
  BY PathAssumption DEF TreesOK
<1>4. Parent(q) \in gone /\ q \in Seq(Name)
  BY <1>2, <1>3, CutListed
<1>5. tree \subseteq Leaf
  BY <1>1, <1>3, SubtreeOK DEF Sound
<1>6. Within(old, Parent(q))
  BY <1>3, <1>4, <1>5, PlacedWithin
<1>7. q # Root
  OBVIOUS
<1> QED  BY <1>3, <1>4, <1>6, <1>7, WithinParent

LEMMA FileOpListed ==
  ASSUME TreesOK, OrphanFree(nodes), FileOp, NEW q \in DOMAIN nodes' \ {Root}, ~Listed(nodes', q)
  PROVE  LeftBehind(q)
<1>0. Sound(nodes) /\ FsOK(nodes)
  BY DEF TreesOK, Sound
<1>1. ASSUME NEW p \in Path, NEW node \in Node, Create(p, node) PROVE OrphanFree(nodes')
  <2>1. p \in Seq(Name) /\ p # Root
    BY <1>1, NotRoot, PathAssumption DEF Create
  <2>2. IsPut(nodes, p, node, Put(nodes, p, node))
    BY <1>0, <2>1, PutOK
  <2> QED  BY <1>1, <2>2, PutListed DEF Create
<1>2. ASSUME NEW p \in Path, NEW d \in Data, WriteFile(p, d) PROVE OrphanFree(nodes')
  <2>1. p \in DOMAIN nodes /\ nodes' = [nodes EXCEPT ![p].data = d]
    BY <1>2 DEF WriteFile, IsFile
  <2>2. DOMAIN nodes' = DOMAIN nodes
    BY <2>1
  <2>3. ASSUME NEW r \in DOMAIN nodes
        PROVE  nodes'[r].kind = nodes[r].kind /\ nodes'[r].kids = nodes[r].kids
    <3>1. PICK node \in Node : node = nodes[r]
      BY <1>0 DEF FsOK
    <3>2. CASE r = p
      <4>1. nodes'[r] = [node EXCEPT !.data = d]
        BY <2>1, <3>1, <3>2
      <4> QED  BY <3>1, <4>1 DEF Node
    <3>3. CASE r # p
      BY <2>1, <3>1, <3>3
    <3> QED  BY <3>2, <3>3
  <2> QED  BY <2>2, <2>3 DEF OrphanFree, Listed, IsDir
<1>3. ASSUME NEW p \in Path, Remove(p) PROVE OrphanFree(nodes')
  <2>1. p \in DOMAIN nodes /\ nodes[p].kids = {} /\ nodes' = Cut(nodes, {p})
    BY <1>3 DEF Remove, Removable
  <2>2. IsCut(nodes, {p}, Cut(nodes, {p}))
    BY <1>0, CutOK
  <2> QED  BY <1>0, <2>1, <2>2, RemoveListed
<1>4. ASSUME NEW old \in Path, NEW new \in Path, Rename(old, new) PROVE LeftBehind(q)
  <2>1. Within(old, q) /\ \E p \in Subtree(nodes, old) : nodes[p].copies # {}
    BY <1>0, <1>4, MovedListed, PathAssumption DEF Rename, CanRename
  <2> QED  BY <1>4, <2>1 DEF LeftBehind
<1>5. ASSUME NEW old \in Path, NEW new \in Path, RenameIntoItself(old, new) PROVE LeftBehind(q)
  <2>1. Within(old, q)
    BY <1>5, CycleListed
  <2> QED  BY <1>5, <2>1 DEF LeftBehind
<1>6. Dir \in Node /\ File(Empty) \in Node
  BY NewNode, DataAssumption
<1>7. ~OrphanFree(nodes')
  BY DEF OrphanFree
<1> QED  BY <1>1, <1>2, <1>3, <1>4, <1>5, <1>6, <1>7 DEF FileOp, CreateDirectory, CreateFile

LEMMA OrphansStep ==
  ASSUME TreesOK, ImagesOK, VolumesNext, OrphanFree(nodes), OrphanFree(saved),
         NEW q \in DOMAIN nodes' \ {Root}, ~Listed(nodes', q)
  PROVE  LeftBehind(q)
<1>0. ~OrphanFree(nodes')
  BY DEF OrphanFree
<1>1. CASE FileOp
  BY <1>1, FileOpListed
<1>2. ASSUME NEW p \in Path, NEW f \in ImageFile,
             Mount(f, p) \/ MountTaken(f, p) \/ MountUnreadable(f, p)
      PROVE  FALSE
  <2>1. CASE Mount(f, p) \/ MountTaken(f, p)
    <3>1. IsImage(images[f]) /\ (MountImage(p, images[f]) \/ MountFails(p, images[f]))
      BY <2>1 DEF Mount, MountTaken, Readable, ImagesOK
    <3> QED  BY <1>0, <3>1, MountListed
  <2>2. CASE MountUnreadable(f, p)
    BY <1>0, <2>2, MountPointListed DEF MountUnreadable
  <2> QED  BY <1>2, <2>1, <2>2
<1>3. ASSUME NEW p \in Path, Unmount(p) PROVE LeftBehind(q)
  <2>1. UnmountImage(p) /\ p \in DOMAIN mounts
    BY <1>3 DEF Unmount, UnmountImage
  <2>2. PICK e \in mounts[p].image : Parent(q) = p \o e.at
    BY <2>1, UnmountListed
  <2> QED  BY <2>1, <2>2 DEF LeftBehind
<1>4. ASSUME NEW p \in Path, WriteBack(p) \/ WriteBackFails(p) PROVE FALSE
  BY <1>0, <1>4 DEF WriteBack, WriteBackFails, fsVars
<1>5. CASE Reboot
  <2>1. SameTree(nodes, Serialized(nodes)) /\ nodes' = Serialized(nodes)
    BY <1>5, SerializedOK DEF Reboot, Restore, TreesOK, Sound
  <2> QED  BY <1>0, <2>1, SameTreeListed
<1>6. CASE Crash
  BY <1>0, <1>6 DEF Crash, Restore
<1>7. CASE SaveEnds
  BY <1>0, <1>7 DEF SaveEnds
<1> QED  BY <1>1, <1>2, <1>3, <1>4, <1>5, <1>6, <1>7, ImageAssumption DEF VolumesNext

\* No create, write or remove, no mount, whole or half way, no restart and no rename
\* of nodes that follow the map leaves a node of InMemoryFileSystem that can be opened
\* and is listed nowhere; what the other operations leave is what LeftBehind names.
THEOREM NothingIsOrphaned == Spec => NoNewOrphans
<1> DEFINE Kept == Orphans(nodes) = {} /\ Orphans(saved) = {}
                     => \A q \in Orphans(nodes') : LeftBehind(q)
<1>1. TreesOK /\ ImagesOK /\ [VolumesNext]_vars => [Kept]_vars
  <2>1. ASSUME TreesOK, ImagesOK, VolumesNext, Orphans(nodes) = {}, Orphans(saved) = {},
               NEW q \in Orphans(nodes')
        PROVE  LeftBehind(q)
    <3>1. OrphanFree(nodes) /\ OrphanFree(saved)
      BY <2>1 DEF Orphans, OrphanFree
    <3>2. q \in DOMAIN nodes' \ {Root} /\ ~Listed(nodes', q)
      BY DEF Orphans
    <3> QED  BY <2>1, <3>1, <3>2, OrphansStep
  <2> QED  BY <2>1
<1>2. VolumesInit => TreesOK /\ ImagesOK
  BY VolumesStart
<1>3. TreesOK /\ ImagesOK /\ [VolumesNext]_vars => (TreesOK /\ ImagesOK)'
  BY VolumesStep
<1> QED  BY <1>1, <1>2, <1>3, PTL DEF Spec, NoNewOrphans
=============================================================================
