-------------------------- MODULE PersistentFsProofs --------------------------
(***************************************************************************)
(* Proofs, for every number of names, contents and inodes.                 *)
(*                                                                         *)
(* With any number of callers, the sizes and the data on disk agree        *)
(* (SizeIsLength).                                                         *)
(*                                                                         *)
(* The two are written by two statements of write, and the tables the      *)
(* other callers see in between disagree about one inode.  The invariant   *)
(* says which: the one that the call at its second statement is writing.   *)
(* That call has the transaction, so no other statement is committed, and  *)
(* no other call can be in its place.                                      *)
(*                                                                         *)
(* With one caller that neither renames nor unmounts, the inodes stay a    *)
(* tree (TreeOK) and the cache of paths stays right (CacheAgrees).  The    *)
(* invariant SInv says that what a call has found is so until it changes   *)
(* it, and that the cache is right but for the path that a call has        *)
(* changed and not yet recorded.  With two callers or a rename neither     *)
(* holds; Sequential is what the code needs and does not ensure.           *)
(***************************************************************************)
EXTENDS PersistentFs, WellFoundedInduction, SequenceTheorems, TLAPS

-----------------------------------------------------------------------------
(* The invariant *)

\* A call has the nine fields of a call record.
HasFields(k) ==
  k = [f \in {"op", "path", "to", "data", "pc", "i", "dir", "node", "got"} |-> k[f]]

\* The control points between BEGIN IMMEDIATE and COMMIT or ROLLBACK.
InTx(k) ==
  \/ k.pc \in {"begun", "inserted", "replace", "size", "delete", "move",
               "remove", "commit", "rollback"}
  \/ k.op = "mkdir" /\ k.pc \in {"findDir", "foundDir", "insert"}

\* Which operation can be at which control point, and with what arguments.
CallOK(k) ==
  /\ HasFields(k)
  /\ k.path \in Path
  /\ k.to \in Path
  /\ k.data \in Content
  /\ k.op \in {"mkdir", "create"} => k.path # RootPath
  /\ k.op = "rename" => k.to # RootPath
  /\ k.pc \in {"find", "found"} => k.op # "mkdir"
  /\ k.pc \in {"findDir", "foundDir"} => k.op \in {"mkdir", "create", "rename"}
  /\ k.pc = "insert" => k.op \in {"mkdir", "create"}
  /\ k.pc = "insertBlob" => k.op = "create"
  /\ k.pc \in {"begun", "inserted"} => k.op = "mkdir"
  /\ k.pc = "begin" => k.op \in {"mkdir", "write", "unlink", "rename", "unmount"}
  /\ k.pc = "move" => k.op = "rename"
  /\ k.pc = "kids" => k.op = "unlink"

\* Data belongs to inodes that exist.
DataHasInode(t) == \A x \in Id : t.blob[x] # NoBlob => x \in Live(t)

Length(t, x) == IF t.blob[x] = NoBlob THEN Empty ELSE t.blob[x]
Agrees(t, x) == t.ino[x] # NoInode => t.ino[x].len = Length(t, x)

\* The inode x is between the two statements of a write.
HalfWritten(x) == \E c \in Caller : call[c].pc = "size" /\ call[c].node.id = x

Typed ==
  /\ db \in Tables
  /\ saved \in Tables
  /\ tx \in Caller \cup {NoCaller}
  /\ call = [c \in Caller |-> call[c]]
  /\ \A c \in Caller : CallOK(call[c])

IInv ==
  /\ Typed
  /\ \A c \in Caller : InTx(call[c]) => tx = c
  /\ DataHasInode(db)
  /\ DataHasInode(saved)
  /\ \A x \in Id : Agrees(saved, x)
  /\ \A x \in Id : Agrees(db, x) \/ HalfWritten(x)
  /\ \A c \in Caller : call[c].pc = "size" =>
       /\ call[c].node.id \in Live(db)
       /\ db.blob[call[c].node.id] = call[c].data

-----------------------------------------------------------------------------
(* The tables *)

\* The ids in use have a largest one.
LEMMA LargestId ==
  ASSUME NEW S \in SUBSET Id, S # {}
  PROVE  Max(S) \in S /\ \A y \in S : Max(S) >= y
<1> DEFINE T == {MaxId - x : x \in S}
           R == {ss \in Nat \X Nat : ss[1] < ss[2]}
<1>1. T \subseteq Nat /\ T # {}
  <2>1. \A x \in S : MaxId - x \in Nat
    BY ParameterAssumption DEF Id
  <2> QED BY <2>1
<1> HIDE DEF T
<1>2. PICK m \in T : \A n \in T : ~ (<<n, m>> \in R)
  <2>1. IsWellFoundedOn(R, Nat)
    BY NatLessThanWellFounded DEF OpToRel
  <2> HIDE DEF R
  <2> QED BY <1>1, <2>1, WFMin
<1>3. PICK x \in S : m = MaxId - x
  BY DEF T
<1>4. \A y \in S : x >= y
  <2> SUFFICES ASSUME NEW y \in S PROVE x >= y
    OBVIOUS
  <2>1. MaxId - y \in T /\ MaxId - y \in Nat /\ m \in Nat
    BY <1>1 DEF T
  <2>2. ~ (MaxId - y < m)
    BY <1>2, <2>1
  <2> QED BY <1>3, <2>2, ParameterAssumption DEF Id
<1> QED BY <1>3, <1>4 DEF Max

LEMMA NextIdIsFree ==
  ASSUME NEW t \in Tables, NextId(t) \in Id
  PROVE  NextId(t) \notin Live(t) /\ NextId(t) # RootId
<1>1. Live(t) \in SUBSET Id /\ RootId \in Live(t)
  BY ParameterAssumption DEF Live, Id, RootId
<1>2. Max(Live(t)) \in Live(t) /\ \A y \in Live(t) : Max(Live(t)) >= y
  BY <1>1, LargestId
<1> QED BY <1>1, <1>2 DEF NextId, Id

LEMMA LastIsName ==
  ASSUME NEW p \in Path, p # RootPath
  PROVE  Last(p) \in Name
<1>1. PICK n \in 0 .. MaxDepth : p \in [1 .. n -> Name]
  BY DEF Path
<1>2. n \in Nat /\ p \in Seq(Name) /\ Len(p) = n
  BY <1>1, ParameterAssumption
<1>3. n # 0
  BY <1>1, <1>2 DEF RootPath
<1> QED BY <1>1, <1>2, <1>3 DEF Last

\* What a statement may do to the tables t, which become u: it leaves no data
\* without an inode, and no inode disagrees with its data that agreed before.
Sound(t, u) ==
  /\ u \in Tables
  /\ DataHasInode(u)
  /\ \A x \in Id : Agrees(t, x) => Agrees(u, x)

\* It leaves the data that there is, and its inodes.
Kept(t, u) ==
  \A x \in Id : x \in Live(t) /\ t.blob[x] # NoBlob =>
                 x \in Live(u) /\ u.blob[x] = t.blob[x]

LEMMA SameIsSound ==
  ASSUME NEW t \in Tables, DataHasInode(t)
  PROVE  Sound(t, t) /\ Kept(t, t)
BY DEF Sound, Kept

LEMMA InsertIsSound ==
  ASSUME NEW t \in Tables, DataHasInode(t),
         NEW d, NEW n \in Name, NEW kind \in {"dir", "file"},
         CanInsert(t, d, n)
  PROVE  Sound(t, Insert(t, d, n, kind)) /\ Kept(t, Insert(t, d, n, kind))
<1> DEFINE x == NextId(t)
           row == [parent |-> d, name |-> n, kind |-> kind, len |-> Empty]
           u == Insert(t, d, n, kind)
<1>1. d \in Id /\ x \in Id
  BY DEF CanInsert, Live
<1>2. x \notin Live(t) /\ x # RootId
  BY <1>1, NextIdIsFree
<1>3. row \in Inode
  BY <1>1, ParameterAssumption DEF Inode
<1>4. u \in Tables /\ u.blob = t.blob
  BY <1>1, <1>3 DEF Insert, Tables
<1>5. u.ino[x].len = Empty /\ \A y \in Id \ {x} : u.ino[y] = t.ino[y]
  BY <1>1 DEF Insert, Tables
<1>6. t.blob[x] = NoBlob
  BY <1>1, <1>2 DEF DataHasInode
<1> HIDE DEF x, row, u
<1>7. \A y \in Id : y \in Live(t) => y \in Live(u)
  BY <1>2, <1>5 DEF Live
<1>8. \A y \in Id : Agrees(t, y) => Agrees(u, y)
  BY <1>1, <1>4, <1>5, <1>6 DEF Agrees, Length
<1>9. DataHasInode(u) /\ Kept(t, u)
  BY <1>4, <1>7 DEF DataHasInode, Kept
<1> QED BY <1>4, <1>8, <1>9 DEF Sound, u

LEMMA InsertBlobIsSound ==
  ASSUME NEW t \in Tables, DataHasInode(t),
         NEW x \in Live(t), t.blob[x] = NoBlob
  PROVE  Sound(t, [t EXCEPT !.blob[x] = Empty])
         /\ Kept(t, [t EXCEPT !.blob[x] = Empty])
<1> DEFINE u == [t EXCEPT !.blob[x] = Empty]
<1>1. x \in Id
  BY DEF Live
<1>2. u \in Tables /\ u.ino = t.ino
  BY <1>1, ParameterAssumption DEF Tables
<1>3. u.blob[x] = Empty /\ \A y \in Id \ {x} : u.blob[y] = t.blob[y]
  BY <1>1 DEF Tables
<1> HIDE DEF u
<1>4. Live(u) = Live(t)
  BY <1>2 DEF Live
<1>5. \A y \in Id : Agrees(t, y) => Agrees(u, y)
  BY <1>2, <1>3 DEF Agrees, Length
<1>6. DataHasInode(u) /\ Kept(t, u)
  BY <1>3, <1>4 DEF DataHasInode, Kept
<1> QED BY <1>2, <1>5, <1>6 DEF Sound, u

LEMMA MoveIsSound ==
  ASSUME NEW t \in Tables, DataHasInode(t),
         NEW x, t.ino[x] # NoInode, NEW d \in Id, NEW n \in Name
  PROVE  LET u == [t EXCEPT !.ino[x] = [@ EXCEPT !.parent = d, !.name = n]]
         IN Sound(t, u) /\ Kept(t, u)
<1> DEFINE u == [t EXCEPT !.ino[x] = [@ EXCEPT !.parent = d, !.name = n]]
<1>1. CASE x \in Id
  <2>1. t.ino[x] \in Inode
    BY <1>1 DEF Tables
  <2>2. u.blob = t.blob /\ u.ino = [t.ino EXCEPT ![x] =
                             [@ EXCEPT !.parent = d, !.name = n]]
    BY <1>1, <2>1 DEF Tables, Inode
  <2>3. [t.ino[x] EXCEPT !.parent = d, !.name = n] \in Inode
    BY <2>1 DEF Inode
  <2>4. u.ino[x] \in Inode /\ u.ino[x].len = t.ino[x].len
    BY <1>1, <2>1, <2>2, <2>3 DEF Tables, Inode
  <2>5. \A y \in Id \ {x} : u.ino[y] = t.ino[y]
    BY <1>1, <2>2 DEF Tables
  <2>6. u \in Tables
    BY <1>1, <2>3 DEF Tables
  <2> HIDE DEF u
  <2>7. Live(u) = Live(t)
    BY <1>1, <2>1, <2>4, <2>5, NoInodeAssumption DEF Live
  <2>8. \A y \in Id : Agrees(t, y) => Agrees(u, y)
    BY <2>1, <2>2, <2>4, <2>5, NoInodeAssumption DEF Agrees, Length
  <2>9. DataHasInode(u) /\ Kept(t, u)
    BY <2>2, <2>7 DEF DataHasInode, Kept
  <2> QED BY <2>6, <2>8, <2>9 DEF Sound, u
<1>2. CASE x \notin Id
  <2>1. u = t
    BY <1>2 DEF Tables
  <2> QED BY <2>1, SameIsSound
<1> QED BY <1>1, <1>2

LEMMA DeleteIsSound ==
  ASSUME NEW t \in Tables, DataHasInode(t), NEW x
  PROVE  Sound(t, Delete(t, x))
<1> DEFINE u == Delete(t, x)
<1>1. u \in Tables
  BY DEF Delete, Tables
<1>2. \A y \in Id : \/ u.ino[y] = NoInode /\ u.blob[y] = NoBlob
                    \/ u.ino[y] = t.ino[y] /\ u.blob[y] = t.blob[y]
  BY DEF Delete
<1> HIDE DEF u
<1>3. DataHasInode(u)
  BY <1>2 DEF DataHasInode, Live
<1>4. \A y \in Id : Agrees(t, y) => Agrees(u, y)
  BY <1>2 DEF Agrees, Length
<1> QED BY <1>1, <1>3, <1>4 DEF Sound, u

-----------------------------------------------------------------------------
(* The calls *)

LEMMA IdleIsOK == CallOK(Idle) /\ ~InTx(Idle) /\ Idle.pc # "size"
<1>1. RootPath \in Path
  <2>1. RootPath \in [1 .. 0 -> Name]
    BY DEF RootPath
  <2>2. 0 \in 0 .. MaxDepth
    BY ParameterAssumption
  <2> QED BY <2>1, <2>2 DEF Path
<1> QED BY <1>1, ParameterAssumption DEF CallOK, HasFields, InTx, Idle

LEMMA WithDirResult ==
  ASSUME NEW k, CallOK(k), k.op \in {"mkdir", "create", "rename"}, NEW n
  PROVE  /\ CallOK(WithDir(k, n))
         /\ WithDir(k, n).pc # "size"
         /\ InTx(WithDir(k, n)) <=> k.op = "mkdir"
<1> DEFINE d == IF n = NoNode THEN RootId ELSE n.id
<1>1. CASE ~IsDir(n) /\ k.op = "mkdir"
  <2>1. WithDir(k, n) = [k EXCEPT !.pc = "rollback"]
    BY <1>1 DEF WithDir
  <2> QED BY <1>1, <2>1 DEF CallOK, HasFields, InTx
<1>2. CASE ~IsDir(n) /\ k.op # "mkdir"
  <2>1. WithDir(k, n) = Idle
    BY <1>2 DEF WithDir
  <2> QED BY <1>2, <2>1, IdleIsOK
<1>3. CASE IsDir(n)
  <2> HIDE DEF d
  <2>1. WithDir(k, n) = [[k EXCEPT !.dir = d] EXCEPT
                           !.pc = IF k.op = "rename" THEN "begin" ELSE "insert"]
    BY <1>3 DEF WithDir, d
  <2>2. CASE k.op = "rename"
    BY <2>1, <2>2 DEF CallOK, HasFields, InTx
  <2>3. CASE k.op # "rename"
    BY <2>1, <2>3 DEF CallOK, HasFields, InTx
  <2> QED BY <2>2, <2>3
<1> QED BY <1>1, <1>2, <1>3

LEMMA FindDirResult ==
  ASSUME NEW k, CallOK(k), k.op \in {"mkdir", "create", "rename"}, NEW ca
  PROVE  /\ CallOK(FindDir(ca, k))
         /\ FindDir(ca, k).pc # "size"
         /\ InTx(FindDir(ca, k)) <=> k.op = "mkdir"
<1> DEFINE o == Lookup(ca, Parent(Target(k)))
<1> HIDE DEF o
<1>1. FindDir(ca, k) = IF o.select THEN AskFor(k, "findDir", o)
                                   ELSE WithDir(k, o.node)
  BY DEF FindDir, o
<1>2. CASE o.select
  <2>1. FindDir(ca, k) = [k EXCEPT !.pc = "findDir", !.i = o.i, !.dir = o.dir]
    BY <1>1, <1>2 DEF AskFor
  <2> QED BY <2>1 DEF CallOK, HasFields, InTx
<1>3. CASE ~o.select
  BY <1>1, <1>3, WithDirResult
<1> QED BY <1>2, <1>3

LEMMA WithNodeResult ==
  ASSUME NEW k, CallOK(k), k.op # "mkdir", NEW ca, NEW n
  PROVE  /\ CallOK(WithNode(ca, k, n))
         /\ WithNode(ca, k, n).pc # "size"
         /\ ~InTx(WithNode(ca, k, n))
<1> DEFINE k2 == [k EXCEPT !.node = n]
           r == WithNode(ca, k, n)
           found == FindDir(ca, k2)
<1>1. /\ HasFields(k2) /\ k2.op = k.op /\ k2.path = k.path /\ k2.to = k.to
      /\ k2.data = k.data /\ k2.pc = k.pc
  BY DEF CallOK, HasFields
<1>2. CallOK(k2)
  <2> HIDE DEF k2
  <2> QED BY <1>1 DEF CallOK
<1>3. k.op \in {"create", "rename"} =>
        CallOK(found) /\ found.pc # "size" /\ ~InTx(found)
  <2> HIDE DEF k2
  <2> QED BY <1>1, <1>2, FindDirResult
<1>4. \/ r = found /\ k.op \in {"create", "rename"}
      \/ r = [k2 EXCEPT !.pc = "touch"]
      \/ r = [k2 EXCEPT !.pc = "begin"] /\ k.op \in {"write", "unmount"}
      \/ r = [k2 EXCEPT !.pc = "kids"] /\ k.op = "unlink"
      \/ r = Idle
  <2> HIDE DEF found, k2
  <2> QED BY DEF WithNode, k2, found
<1> HIDE DEF k2, r, found
<1>5. CASE r = Idle
  BY <1>5, IdleIsOK DEF r
<1>6. CASE r = [k2 EXCEPT !.pc = "touch"]
  BY <1>1, <1>2, <1>6 DEF CallOK, HasFields, InTx, r
<1>7. CASE r = [k2 EXCEPT !.pc = "begin"] /\ k.op \in {"write", "unmount"}
  BY <1>1, <1>2, <1>7 DEF CallOK, HasFields, InTx, r
<1>8. CASE r = [k2 EXCEPT !.pc = "kids"] /\ k.op = "unlink"
  BY <1>1, <1>2, <1>8 DEF CallOK, HasFields, InTx, r
<1>9. CASE r = found /\ k.op \in {"create", "rename"}
  BY <1>3, <1>9 DEF r
<1> QED BY <1>4, <1>5, <1>6, <1>7, <1>8, <1>9

LEMMA FindResult ==
  ASSUME NEW k, CallOK(k), k.op # "mkdir", NEW ca
  PROVE  /\ CallOK(Find(ca, k))
         /\ Find(ca, k).pc # "size"
         /\ ~InTx(Find(ca, k))
<1> DEFINE o == Lookup(ca, k.path)
<1> HIDE DEF o
<1>1. Find(ca, k) = IF o.select THEN AskFor(k, "find", o)
                                ELSE WithNode(ca, k, o.node)
  BY DEF Find, o
<1>2. CASE o.select
  <2>1. Find(ca, k) = [k EXCEPT !.pc = "find", !.i = o.i, !.dir = o.dir]
    BY <1>1, <1>2 DEF AskFor
  <2> QED BY <2>1 DEF CallOK, HasFields, InTx
<1>3. CASE ~o.select
  BY <1>1, <1>3, WithNodeResult
<1> QED BY <1>2, <1>3

-----------------------------------------------------------------------------
(* The steps *)

LEMMA InitHolds == Init => IInv
<1> SUFFICES ASSUME Init PROVE IInv
  OBVIOUS
<1>1. db \in Tables /\ saved \in Tables
  BY DEF Init, Tables
<1>2. Typed
  BY <1>1, IdleIsOK DEF Init, Typed
<1>3. DataHasInode(db) /\ DataHasInode(saved)
  BY DEF Init, DataHasInode
<1>4. \A x \in Id : Agrees(db, x) /\ Agrees(saved, x)
  BY DEF Init, Agrees
<1> QED BY <1>2, <1>3, <1>4, IdleIsOK DEF IInv, Init

\* A step of the call c that leaves the tables alone.
LEMMA QuietStep ==
  ASSUME IInv, NEW c \in Caller, NEW k, CallOK(k),
         call' = [call EXCEPT ![c] = k],
         k.pc # "size", call[c].pc # "size", InTx(k) => tx = c,
         UNCHANGED <<db, saved, tx>>
  PROVE  IInv'
<1>1. \A e \in Caller : call'[e] = IF e = c THEN k ELSE call[e]
  BY DEF IInv, Typed
<1>2. Typed'
  BY <1>1 DEF IInv, Typed
<1>3. \A x \in Id : HalfWritten(x) => HalfWritten(x)'
  BY <1>1 DEF HalfWritten
<1>4. \A x \in Id : (Agrees(db, x) \/ HalfWritten(x))'
  BY <1>3 DEF IInv, Agrees, Length
<1>5. (DataHasInode(db) /\ DataHasInode(saved))'
  BY DEF IInv, DataHasInode, Live
<1>6. \A x \in Id : Agrees(saved, x)'
  BY DEF IInv, Agrees, Length
<1>7. \A e \in Caller : InTx(call'[e]) => tx' = e
  BY <1>1 DEF IInv
<1>8. \A e \in Caller : call'[e].pc = "size" =>
         /\ call'[e].node.id \in Live(db')
         /\ db'.blob[call'[e].node.id] = call'[e].data
  BY <1>1 DEF IInv
<1> QED BY <1>2, <1>4, <1>5, <1>6, <1>7, <1>8 DEF IInv

\* A statement of the call c that changes the tables to u, which does no harm
\* to the data of a call that is writing: it keeps all data, or it belongs to
\* the transaction, so that no other call is writing.
LEMMA StatementStep ==
  ASSUME IInv, NEW c \in Caller, NEW k, CallOK(k),
         call' = [call EXCEPT ![c] = k],
         k.pc # "size", call[c].pc # "size", InTx(k) => tx = c,
         NEW u, Change(u), UNCHANGED tx,
         Sound(db, u), Kept(db, u) \/ tx = c
  PROVE  IInv'
<1>1. \A e \in Caller : call'[e] = IF e = c THEN k ELSE call[e]
  BY DEF IInv, Typed
<1>2. db' = u /\ u \in Tables /\ saved' \in Tables
  BY DEF IInv, Typed, Change, Sound
<1>3. Typed'
  BY <1>1, <1>2 DEF IInv, Typed
<1>4. \A x \in Id : HalfWritten(x) => HalfWritten(x)'
  BY <1>1 DEF HalfWritten
<1>5. \A x \in Id : (Agrees(db, x) \/ HalfWritten(x))'
  BY <1>2, <1>4 DEF IInv, Sound
<1>6. DataHasInode(u)
  BY DEF Sound
<1>7. tx = NoCaller => \A x \in Id : Agrees(u, x)
  <2> SUFFICES ASSUME tx = NoCaller, NEW x \in Id PROVE Agrees(u, x)
    OBVIOUS
  <2>1. ~HalfWritten(x)
    BY ParameterAssumption DEF HalfWritten, IInv, InTx
  <2> QED BY <2>1 DEF IInv, Sound
<1>8. DataHasInode(saved') /\ \A x \in Id : Agrees(saved', x)
  BY <1>6, <1>7 DEF Change, IInv
<1>9. \A e \in Caller : InTx(call'[e]) => tx' = e
  BY <1>1 DEF IInv
<1>10. ASSUME NEW e \in Caller, call'[e].pc = "size"
       PROVE  /\ call'[e].node.id \in Live(u)
              /\ u.blob[call'[e].node.id] = call'[e].data
  <2>1. e # c /\ call'[e] = call[e]
    BY <1>1, <1>10
  <2>2. tx = e
    BY <1>10, <2>1 DEF IInv, InTx
  <2>3. Kept(db, u)
    BY <2>1, <2>2
  <2>4. /\ call[e].node.id \in Live(db)
        /\ db.blob[call[e].node.id] = call[e].data
        /\ call[e].data # NoBlob
    BY <1>10, <2>1, ParameterAssumption DEF IInv, Typed, CallOK
  <2>5. call[e].node.id \in Id
    BY <2>4 DEF Live
  <2> QED BY <2>1, <2>3, <2>4, <2>5 DEF Kept
<1> QED BY <1>2, <1>3, <1>5, <1>6, <1>8, <1>9, <1>10 DEF IInv

\* A call that moves to another control point is still one that can be there.
LEMMA GoToResult ==
  ASSUME NEW k, CallOK(k), NEW pc,
         \/ pc \in {"touch", "replace", "size", "delete", "remove",
                   "commit", "rollback", "committed", "created"}
         \/ pc = "begin" /\ k.op \in {"mkdir", "write", "unlink", "rename", "unmount"}
         \/ pc = "move" /\ k.op = "rename"
         \/ pc = "begun" /\ k.op = "mkdir"
  PROVE  /\ CallOK([k EXCEPT !.pc = pc])
         /\ [k EXCEPT !.pc = pc].pc = pc
         /\ InTx([k EXCEPT !.pc = pc]) =>
              pc \in {"begun", "inserted", "replace", "size", "delete", "move",
                     "remove", "commit", "rollback"}
BY DEF CallOK, HasFields, InTx

LEMMA CallStep ==
  ASSUME IInv, NEW c \in Caller, NEW op, NEW path \in Path, NEW to \in Path,
         NEW data \in Content, Call(c, op, path, to, data)
  PROVE  IInv'
<1> DEFINE k == [Idle EXCEPT !.op = op, !.path = path, !.to = to, !.data = data]
           r == IF op = "mkdir" THEN [k EXCEPT !.pc = "begin"] ELSE Find(cache, k)
<1>1. call' = [call EXCEPT ![c] = r] /\ UNCHANGED <<db, saved, tx>>
  BY DEF Call
<1>2. call[c].pc # "size"
  BY IdleIsOK DEF Call
<1>3. CallOK(k) /\ k.op = op
  <2>1. /\ HasFields(k) /\ k.op = op /\ k.path = path /\ k.to = to
        /\ k.data = data /\ k.pc = Idle.pc
    <3>1. HasFields(Idle)
      BY IdleIsOK DEF CallOK
    <3>2. k = [Idle EXCEPT !.op = op, !.path = path, !.to = to, !.data = data]
      OBVIOUS
    <3> HIDE DEF k
    <3> QED BY <3>1, <3>2 DEF HasFields
  <2>3. Idle.pc = "idle"
    BY DEF Idle
  <2>2. /\ op \in {"mkdir", "create"} => path # RootPath
        /\ op = "rename" => to # RootPath
    BY DEF Call
  <2> QED BY <2>1, <2>2, <2>3 DEF CallOK
<1> HIDE DEF k
<1>4. CallOK(r) /\ r.pc # "size" /\ ~InTx(r)
  <2>1. CASE op = "mkdir"
    BY <1>3, <2>1 DEF CallOK, HasFields, InTx
  <2>2. CASE op # "mkdir"
    BY <1>3, <2>2, FindResult
  <2> QED BY <2>1, <2>2
<1> HIDE DEF r
<1> QED BY <1>1, <1>2, <1>4, QuietStep

LEMMA SelectedStep ==
  ASSUME IInv, NEW c \in Caller, Selected(c)
  PROVE  IInv'
<1> DEFINE k == call[c]
           p == LookedUp(k)
           ca == IF k.i = 0 THEN cache
                            ELSE [cache EXCEPT ![Prefix(p, k.i)] = k.got]
           o == IF k.i = 0 \/ k.got = NoNode THEN Found(k.got)
                                             ELSE Walk(ca, p, k.i + 1, k.got.id)
           r == IF o.select
                  THEN AskFor(k, IF k.pc = "found" THEN "find" ELSE "findDir", o)
                  ELSE IF k.pc = "found" THEN WithNode(ca, k, o.node)
                                         ELSE WithDir(k, o.node)
<1>1. call' = [call EXCEPT ![c] = r] /\ UNCHANGED <<db, saved, tx>>
  <2> HIDE DEF p, ca, o
  <2> QED BY DEF Selected, Continue, p, ca, o
<1>2. k.pc \in {"found", "foundDir"} /\ CallOK(k) /\ (InTx(k) => tx = c)
  BY DEF Selected, At, IInv, Typed
<1> HIDE DEF ca, o, p, k
<1>3. CallOK(r) /\ r.pc # "size" /\ (InTx(r) => InTx(k))
  <2>1. CASE o.select
    <3>1. r = [k EXCEPT !.pc = IF k.pc = "found" THEN "find" ELSE "findDir",
                        !.i = o.i, !.dir = o.dir]
      BY <2>1 DEF AskFor
    <3> HIDE DEF r
    <3> QED BY <1>2, <3>1 DEF CallOK, HasFields, InTx
  <2>2. CASE ~o.select /\ k.pc = "found"
    <3>1. k.op # "mkdir" /\ r = WithNode(ca, k, o.node)
      BY <1>2, <2>2 DEF CallOK
    <3> QED BY <1>2, <3>1, WithNodeResult
  <2>3. CASE ~o.select /\ k.pc = "foundDir"
    <3>1. r = WithDir(k, o.node) /\ k.op \in {"mkdir", "create", "rename"}
      BY <1>2, <2>3 DEF CallOK
    <3> QED BY <1>2, <2>3, <3>1, WithDirResult DEF InTx
  <2> QED BY <1>2, <2>1, <2>2, <2>3
<1> HIDE DEF r
<1>4. call[c].pc # "size"
  BY <1>2 DEF k
<1> QED BY <1>1, <1>2, <1>3, <1>4, QuietStep

LEMMA BeginStep ==
  ASSUME IInv, NEW c \in Caller, Begin(c)
  PROVE  IInv'
<1> DEFINE k == call[c]
           pc == CASE k.op = "mkdir" -> "begun"
                   [] k.op = "write" -> "replace"
                   [] k.op = "unlink" -> "delete"
                   [] k.op = "rename" -> "move"
                   [] k.op = "unmount" -> "remove"
           r == [k EXCEPT !.pc = pc]
<1>1. k.pc = "begin" /\ CallOK(k)
  BY DEF Begin, At, IInv, Typed
<1>2. CASE tx = NoCaller
  <2>1. tx' = c /\ call' = [call EXCEPT ![c] = r] /\ UNCHANGED <<db, saved>>
    BY <1>2 DEF Begin, GoTo, Continue
  <2>2. \/ pc \in {"replace", "delete", "remove"}
        \/ pc = "move" /\ k.op = "rename"
        \/ pc = "begun" /\ k.op = "mkdir"
    BY <1>1 DEF CallOK
  <2> HIDE DEF pc
  <2>3. CallOK(r) /\ r.pc = pc /\ pc # "size"
    BY <1>1, <2>2, GoToResult DEF k
  <2> HIDE DEF r
  <2>4. \A e \in Caller : call'[e] = IF e = c THEN r ELSE call[e]
    BY <2>1 DEF IInv, Typed
  <2>5. \A e \in Caller : ~InTx(call[e])
    BY <1>2, ParameterAssumption DEF IInv
  <2>6. Typed'
    BY <2>1, <2>3, <2>4 DEF IInv, Typed
  <2>7. \A x \in Id : HalfWritten(x) => HalfWritten(x)'
    BY <1>1, <2>4 DEF HalfWritten
  <2>8. \A x \in Id : (Agrees(db, x) \/ HalfWritten(x))' /\ Agrees(saved, x)'
    BY <2>1, <2>7 DEF IInv, Agrees, Length
  <2>9. (DataHasInode(db) /\ DataHasInode(saved))'
    BY <2>1 DEF IInv, DataHasInode, Live
  <2>10. \A e \in Caller : InTx(call'[e]) => tx' = e
    BY <2>1, <2>4, <2>5
  <2>11. \A e \in Caller : call'[e].pc # "size"
    BY <2>3, <2>4, <2>5 DEF InTx
  <2> QED BY <2>6, <2>8, <2>9, <2>10, <2>11 DEF IInv
<1>3. CASE tx # NoCaller
  <2>1. call' = [call EXCEPT ![c] = Idle] /\ UNCHANGED <<db, saved, tx>>
    BY <1>3 DEF Begin, Return, Continue
  <2> QED BY <1>1, <2>1, IdleIsOK, QuietStep
<1> QED BY <1>2, <1>3

\* The steps that go to another control point and nothing else that counts.
LEMMA GoToStep ==
  ASSUME IInv, NEW c \in Caller, NEW pc, pc # "size", call[c].pc # "size",
         call' = [call EXCEPT ![c] = [call[c] EXCEPT !.pc = pc]],
         UNCHANGED <<db, saved, tx>>,
         pc \in {"touch", "commit", "rollback"},
         pc \in {"commit", "rollback"} => InTx(call[c])
  PROVE  IInv'
<1> DEFINE r == [call[c] EXCEPT !.pc = pc]
<1>1. CallOK(call[c])
  BY DEF IInv, Typed
<1>2. CallOK(r) /\ r.pc # "size" /\ (InTx(r) => tx = c)
  BY <1>1, GoToResult DEF IInv
<1> HIDE DEF r
<1> QED BY <1>2, QuietStep DEF r

LEMMA ReturnStep ==
  ASSUME IInv, NEW c \in Caller, call[c].pc # "size",
         call' = [call EXCEPT ![c] = Idle], UNCHANGED <<db, saved, tx>>
  PROVE  IInv'
BY IdleIsOK, QuietStep

LEMMA SelectIsQuiet ==
  ASSUME IInv, NEW c \in Caller, SelectStep(c)
  PROVE  IInv'
<1> DEFINE k == call[c]
           n == IF k.i = 0 THEN RootNode
                           ELSE Select(db, k.dir, LookedUp(k)[k.i])
           pc == IF k.pc = "find" THEN "found" ELSE "foundDir"
           r == [k EXCEPT !.got = n, !.pc = pc]
<1>1. /\ call' = [call EXCEPT ![c] = r] /\ UNCHANGED <<db, saved, tx>>
      /\ k.pc \in {"find", "findDir"}
  <2> HIDE DEF n
  <2> QED BY DEF SelectStep, Continue, At, n
<1>2. CallOK(k) /\ (InTx(k) => tx = c)
  BY DEF IInv, Typed
<1> HIDE DEF n, k
<1>3. CallOK(r) /\ r.pc # "size" /\ (InTx(r) => InTx(k))
  BY <1>1, <1>2 DEF CallOK, HasFields, InTx
<1> HIDE DEF r
<1> QED BY <1>1, <1>2, <1>3, QuietStep DEF k

LEMMA BegunStep ==
  ASSUME IInv, NEW c \in Caller, Begun(c)
  PROVE  IInv'
<1>1. call[c].pc = "begun" /\ CallOK(call[c]) /\ tx = c
  BY DEF Begun, At, IInv, Typed, InTx
<1>2. call[c].op = "mkdir"
  BY <1>1 DEF CallOK
<1> DEFINE r == FindDir(cache, call[c])
<1>3. call' = [call EXCEPT ![c] = r] /\ UNCHANGED <<db, saved, tx>>
  BY DEF Begun, Continue
<1>4. CallOK(r) /\ r.pc # "size"
  BY <1>1, <1>2, FindDirResult
<1> HIDE DEF r
<1> QED BY <1>1, <1>3, <1>4, QuietStep

LEMMA InsertStepHolds ==
  ASSUME IInv, NEW c \in Caller, InsertStep(c)
  PROVE  IInv'
<1> DEFINE k == call[c]
           kind == IF k.op = "mkdir" THEN "dir" ELSE "file"
           new == [id |-> NextId(db), kind |-> kind]
           pc == IF k.op = "mkdir" THEN "inserted" ELSE "insertBlob"
           r == [k EXCEPT !.node = new, !.pc = pc]
           name == Last(k.path)
           u == Insert(db, k.dir, name, kind)
<1>1. k.pc = "insert" /\ CallOK(k) /\ (InTx(k) => tx = c)
  BY DEF InsertStep, At, IInv, Typed
<1>2. k.op \in {"mkdir", "create"} /\ name \in Name
  BY <1>1, LastIsName DEF CallOK
<1>3. CASE CanInsert(db, k.dir, name)
  <2>1. Change(u) /\ call' = [call EXCEPT ![c] = r] /\ UNCHANGED tx
    <3> HIDE DEF k, name
    <3> QED BY <1>3 DEF InsertStep, Continue, k, name
  <2>2. Sound(db, u) /\ Kept(db, u)
    BY <1>2, <1>3, InsertIsSound DEF IInv, Typed
  <2> HIDE DEF new, u, name
  <2>3. CallOK(r) /\ r.pc # "size" /\ (InTx(r) => InTx(k))
    BY <1>1, <1>2 DEF CallOK, HasFields, InTx
  <2> HIDE DEF r
  <2> QED BY <1>1, <2>1, <2>2, <2>3, StatementStep
<1>4. CASE ~CanInsert(db, k.dir, name)
  <2>1. UNCHANGED <<db, saved, tx>>
    BY <1>4 DEF InsertStep
  <2>2. CASE k.op = "mkdir"
    <3>1. call' = [call EXCEPT ![c] = [call[c] EXCEPT !.pc = "rollback"]]
      BY <1>4, <2>2 DEF InsertStep, GoTo, Continue
    <3> QED BY <1>1, <2>1, <2>2, <3>1, GoToStep DEF InTx
  <2>3. CASE k.op # "mkdir"
    <3>1. call' = [call EXCEPT ![c] = Idle]
      BY <1>4, <2>3 DEF InsertStep, Return, Continue
    <3> QED BY <1>1, <2>1, <3>1, ReturnStep
  <2> QED BY <2>2, <2>3
<1> QED BY <1>3, <1>4

LEMMA InsertBlobStep ==
  ASSUME IInv, NEW c \in Caller, InsertBlob(c)
  PROVE  IInv'
<1> DEFINE k == call[c]
           x == k.node.id
           u == [db EXCEPT !.blob[x] = Empty]
           r == [k EXCEPT !.pc = "created"]
<1>1. k.pc = "insertBlob" /\ CallOK(k)
  BY DEF InsertBlob, At, IInv, Typed
<1>2. CASE x \in Live(db) /\ db.blob[x] = NoBlob
  <2>1. Change(u) /\ call' = [call EXCEPT ![c] = r] /\ UNCHANGED tx
    BY <1>2 DEF InsertBlob, GoTo, Continue
  <2>2. Sound(db, u) /\ Kept(db, u)
    BY <1>2, InsertBlobIsSound DEF IInv, Typed
  <2>3. CallOK(r) /\ r.pc = "created" /\ ~InTx(r)
    BY <1>1, GoToResult
  <2> HIDE DEF u, r
  <2> QED BY <1>1, <2>1, <2>2, <2>3, StatementStep
<1>3. CASE ~(x \in Live(db) /\ db.blob[x] = NoBlob)
  BY <1>1, <1>3, ReturnStep DEF InsertBlob, Return, Continue
<1> QED BY <1>2, <1>3

LEMMA CreatedStep ==
  ASSUME IInv, NEW c \in Caller, Created(c)
  PROVE  IInv'
<1> DEFINE pc == IF call[c].pc = "created" THEN "touch" ELSE "commit"
<1>1. /\ call' = [call EXCEPT ![c] = [call[c] EXCEPT !.pc = pc]]
      /\ UNCHANGED <<db, saved, tx>>
      /\ call[c].pc \in {"created", "inserted"}
  BY DEF Created, GoTo, Continue, At
<1>2. pc \in {"touch", "commit"} /\ (pc = "commit" => InTx(call[c]))
  BY <1>1 DEF InTx
<1> HIDE DEF pc
<1> QED BY <1>1, <1>2, GoToStep

\* The first statement of write: from here on the inode is half written.
LEMMA ReplaceStep ==
  ASSUME IInv, NEW c \in Caller, Replace(c)
  PROVE  IInv'
<1> DEFINE k == call[c]
           x == k.node.id
           u == [db EXCEPT !.blob[x] = k.data]
           r == [k EXCEPT !.pc = "size"]
<1>1. k.pc = "replace" /\ CallOK(k) /\ tx = c
  BY DEF Replace, At, IInv, Typed, InTx
<1>2. CASE x \in Live(db)
  <2>1. db' = u /\ UNCHANGED <<saved, tx>> /\ call' = [call EXCEPT ![c] = r]
    BY <1>1, <1>2, ParameterAssumption DEF Replace, Change, GoTo, Continue
  <2>2. x \in Id /\ k.data \in Content /\ db \in Tables
    BY <1>1, <1>2 DEF Live, CallOK, IInv, Typed
  <2>3. u \in Tables /\ u.ino = db.ino /\ u.blob[x] = k.data
        /\ \A y \in Id \ {x} : u.blob[y] = db.blob[y]
    BY <2>2 DEF Tables
  <2>4. CallOK(r) /\ r.pc = "size" /\ r.node = k.node /\ r.data = k.data
    <3>1. r.node = k.node /\ r.data = k.data
      BY <1>1 DEF CallOK, HasFields
    <3> QED BY <1>1, <3>1, GoToResult
  <2> HIDE DEF u, r
  <2>5. \A e \in Caller : call'[e] = IF e = c THEN r ELSE call[e]
    BY <2>1 DEF IInv, Typed
  <2>6. Typed'
    BY <2>1, <2>3, <2>4, <2>5 DEF IInv, Typed
  <2>7. Live(u) = Live(db)
    BY <2>3 DEF Live
  <2>8. DataHasInode(u)
    BY <1>2, <2>3, <2>7 DEF IInv, DataHasInode
  <2>9. \A e \in Caller : e # c => ~InTx(call[e]) /\ call[e].pc # "size"
    BY <1>1 DEF IInv, InTx
  <2>10. ASSUME NEW y \in Id PROVE Agrees(u, y) \/ HalfWritten(y)'
    <3>1. CASE y = x
      BY <2>4, <2>5, <3>1 DEF HalfWritten
    <3>2. CASE y # x
      <4>1. ~HalfWritten(y)
        BY <1>1, <2>9 DEF HalfWritten
      <4> QED BY <2>3, <3>2, <4>1 DEF IInv, Agrees, Length
    <3> QED BY <3>1, <3>2
  <2>11. \A e \in Caller : InTx(call'[e]) => tx' = e
    BY <1>1, <2>1, <2>5, <2>9
  <2>12. \A e \in Caller : call'[e].pc = "size" =>
           /\ call'[e].node.id \in Live(db')
           /\ db'.blob[call'[e].node.id] = call'[e].data
    BY <1>2, <2>1, <2>3, <2>4, <2>5, <2>7, <2>9
  <2>13. DataHasInode(db') /\ DataHasInode(saved')
         /\ \A y \in Id : Agrees(saved', y)
    BY <2>1, <2>8 DEF IInv
  <2> QED BY <2>1, <2>6, <2>10, <2>11, <2>12, <2>13 DEF IInv
<1>3. CASE x \notin Live(db)
  <2>1. call' = [call EXCEPT ![c] = [call[c] EXCEPT !.pc = "rollback"]]
        /\ UNCHANGED <<db, saved, tx>>
    BY <1>3 DEF Replace, GoTo, Continue
  <2> QED BY <1>1, <2>1, GoToStep DEF InTx
<1> QED BY <1>2, <1>3

\* The second statement of write makes the inode agree with its data again.
LEMMA SizeStep ==
  ASSUME IInv, NEW c \in Caller, Size(c)
  PROVE  IInv'
<1> DEFINE k == call[c]
           x == k.node.id
           u == IF db.ino[x] = NoInode THEN db
                ELSE [db EXCEPT !.ino[x].len = k.data]
           r == [k EXCEPT !.pc = "commit"]
<1>1. k.pc = "size" /\ CallOK(k) /\ tx = c
  BY DEF Size, At, IInv, Typed, InTx
<1>2. x \in Live(db) /\ db.blob[x] = k.data
  BY <1>1 DEF IInv
<1>3. db' = u /\ UNCHANGED <<saved, tx>> /\ call' = [call EXCEPT ![c] = r]
  BY <1>1, ParameterAssumption DEF Size, Change, GoTo, Continue
<1>4. x \in Id /\ k.data \in Content /\ db \in Tables /\ k.data # NoBlob
  BY <1>1, <1>2, ParameterAssumption DEF Live, CallOK, IInv, Typed
<1>5. /\ u \in Tables
      /\ u.blob = db.blob
      /\ \A y \in Id \ {x} : u.ino[y] = db.ino[y]
      /\ u.ino[x] = NoInode <=> db.ino[x] = NoInode
      /\ u.ino[x] # NoInode => u.ino[x].len = k.data
  <2>1. CASE db.ino[x] = NoInode
    BY <1>4, <2>1
  <2>2. CASE db.ino[x] # NoInode
    <3> DEFINE row == [db.ino[x] EXCEPT !.len = k.data]
    <3>1. db.ino[x] \in Inode
      BY <1>4, <2>2 DEF Tables
    <3>2. row \in Inode /\ row.len = k.data
      BY <1>4, <3>1 DEF Inode
    <3>3. u = [db EXCEPT !.ino[x] = row]
      BY <2>2
    <3> HIDE DEF row, u, x, k
    <3> QED BY <1>4, <2>2, <3>2, <3>3, NoInodeAssumption DEF Tables
  <2> QED BY <2>1, <2>2
<1>6. CallOK(r) /\ r.pc = "commit"
  BY <1>1, GoToResult
<1> HIDE DEF u, r
<1>7. \A e \in Caller : call'[e] = IF e = c THEN r ELSE call[e]
  BY <1>3 DEF IInv, Typed
<1>8. Typed'
  BY <1>3, <1>5, <1>6, <1>7 DEF IInv, Typed
<1>9. Live(u) = Live(db)
  BY <1>5 DEF Live
<1>10. \A e \in Caller : e # c => ~InTx(call[e]) /\ call[e].pc # "size"
  BY <1>1 DEF IInv, InTx
<1>11. ASSUME NEW y \in Id PROVE Agrees(u, y)
  <2>1. CASE y = x
    BY <1>2, <1>4, <1>5, <2>1 DEF Agrees, Length
  <2>2. CASE y # x
    <3>1. ~HalfWritten(y)
      BY <1>10, <2>2 DEF HalfWritten
    <3> QED BY <1>5, <2>2, <3>1 DEF IInv, Agrees, Length
  <2> QED BY <2>1, <2>2
<1>12. DataHasInode(db') /\ DataHasInode(saved')
       /\ \A y \in Id : Agrees(saved', y)
  BY <1>3, <1>5, <1>9 DEF IInv, DataHasInode
<1>13. \A e \in Caller : (InTx(call'[e]) => tx' = e) /\ call'[e].pc # "size"
  BY <1>1, <1>3, <1>6, <1>7, <1>10
<1> QED BY <1>3, <1>8, <1>11, <1>12, <1>13 DEF IInv

LEMMA KidsStep ==
  ASSUME IInv, NEW c \in Caller, Kids(c)
  PROVE  IInv'
<1>1. /\ call[c].pc = "kids" /\ call[c].op = "unlink"
      /\ UNCHANGED <<db, saved, tx>>
  BY DEF Kids, At, IInv, Typed, CallOK
<1>2. CASE ChildrenOf(db, call[c].node.id) = {}
  <2> DEFINE r == [call[c] EXCEPT !.pc = "begin"]
  <2>1. call' = [call EXCEPT ![c] = r]
    BY <1>2 DEF Kids, GoTo, Continue
  <2>2. CallOK(r) /\ r.pc = "begin" /\ ~InTx(r)
    BY <1>1, GoToResult DEF IInv, Typed
  <2> HIDE DEF r
  <2> QED BY <1>1, <2>1, <2>2, QuietStep
<1>3. CASE ChildrenOf(db, call[c].node.id) # {}
  BY <1>1, <1>3, ReturnStep DEF Kids, Return, Continue
<1> QED BY <1>2, <1>3

LEMMA DeleteStepHolds ==
  ASSUME IInv, NEW c \in Caller, DeleteStep(c)
  PROVE  IInv'
<1> DEFINE k == call[c]
           u == Delete(db, k.node.id)
           r == [k EXCEPT !.pc = "commit"]
<1>1. k.pc = "delete" /\ CallOK(k) /\ tx = c
  BY DEF DeleteStep, At, IInv, Typed, InTx
<1>2. Change(u) /\ call' = [call EXCEPT ![c] = r] /\ UNCHANGED tx
  BY DEF DeleteStep, GoTo, Continue
<1>3. Sound(db, u)
  BY DeleteIsSound DEF IInv, Typed
<1>4. CallOK(r) /\ r.pc = "commit"
  BY <1>1, GoToResult
<1> HIDE DEF u, r
<1> QED BY <1>1, <1>2, <1>3, <1>4, StatementStep

LEMMA RemoveStepHolds ==
  ASSUME IInv, NEW c \in Caller, RemoveStep(c)
  PROVE  IInv'
<1> DEFINE k == call[c]
<1>1. k.pc = "remove" /\ CallOK(k) /\ tx = c
  BY DEF RemoveStep, At, IInv, Typed, InTx
<1>2. PICK x : /\ Change(Delete(db, x))
               /\ GoTo(c, IF x = k.node.id THEN "commit" ELSE "remove")
  BY DEF RemoveStep
<1> DEFINE pc == IF x = k.node.id THEN "commit" ELSE "remove"
           r == [k EXCEPT !.pc = pc]
<1>3. call' = [call EXCEPT ![c] = r] /\ UNCHANGED tx
  BY <1>2 DEF RemoveStep, GoTo, Continue
<1>4. Sound(db, Delete(db, x))
  BY DeleteIsSound DEF IInv, Typed
<1>5. pc \in {"commit", "remove"}
  OBVIOUS
<1> HIDE DEF pc
<1>6. CallOK(r) /\ r.pc # "size"
  BY <1>1, <1>5, GoToResult
<1> HIDE DEF r
<1> QED BY <1>1, <1>2, <1>3, <1>4, <1>6, StatementStep

LEMMA MoveStep ==
  ASSUME IInv, NEW c \in Caller, Move(c)
  PROVE  IInv'
<1> DEFINE k == call[c]
           x == k.node.id
           name == Last(k.to)
           u == [db EXCEPT !.ino[x] = [@ EXCEPT !.parent = k.dir, !.name = name]]
           r == [k EXCEPT !.pc = "commit"]
<1>1. k.pc = "move" /\ CallOK(k) /\ tx = c /\ InTx(k)
  BY DEF Move, At, IInv, Typed, InTx
<1>2. UNCHANGED tx
  BY DEF Move
<1>3. name \in Name
  BY <1>1, LastIsName DEF CallOK
<1>4. CASE db.ino[x] = NoInode
  <2>1. call' = [call EXCEPT ![c] = [call[c] EXCEPT !.pc = "commit"]]
        /\ UNCHANGED <<db, saved>>
    BY <1>4 DEF Move, GoTo, Continue
  <2> HIDE DEF u, r, x, name
  <2> QED BY <1>1, <1>2, <2>1, GoToStep
<1>5. CASE /\ db.ino[x] # NoInode
           /\ k.dir \in Live(db) /\ Named(db, k.dir, name) \subseteq {x}
  <2>1. Change(u) /\ call' = [call EXCEPT ![c] = r]
    BY <1>5 DEF Move, GoTo, Continue
  <2>2. Sound(db, u)
    <3>1. k.dir \in Id
      BY <1>5 DEF Live
    <3> HIDE DEF x, name, k
    <3> QED BY <1>3, <1>5, <3>1, MoveIsSound DEF IInv, Typed
  <2>3. CallOK(r) /\ r.pc = "commit"
    BY <1>1, GoToResult
  <2> HIDE DEF u, r
  <2> QED BY <1>1, <1>2, <2>1, <2>2, <2>3, StatementStep
<1>6. CASE /\ db.ino[x] # NoInode
           /\ ~(k.dir \in Live(db) /\ Named(db, k.dir, name) \subseteq {x})
  <2>1. call' = [call EXCEPT ![c] = [call[c] EXCEPT !.pc = "rollback"]]
        /\ UNCHANGED <<db, saved>>
    BY <1>6 DEF Move, GoTo, Continue
  <2> QED BY <1>1, <1>2, <2>1, GoToStep
<1> QED BY <1>4, <1>5, <1>6

\* COMMIT and ROLLBACK make the tables and what is on disk the same; no other
\* call is between the two statements of a write, so both agree entirely.
LEMMA EndOfTransaction ==
  ASSUME IInv, NEW c \in Caller, tx = c, call[c].pc # "size",
         NEW k, CallOK(k), ~InTx(k), call' = [call EXCEPT ![c] = k],
         tx' = NoCaller, db' = saved', db' \in {db, saved}
  PROVE  IInv'
<1>1. \A e \in Caller : call'[e] = IF e = c THEN k ELSE call[e]
  BY DEF IInv, Typed
<1>2. Typed'
  BY <1>1 DEF IInv, Typed
<1>3. \A e \in Caller : ~InTx(call'[e])
  BY <1>1 DEF IInv
<1>4. \A x \in Id : ~HalfWritten(x)
  BY DEF IInv, HalfWritten, InTx
<1>5. \A x \in Id : Agrees(db', x)
  BY <1>4 DEF IInv
<1>6. DataHasInode(db')
  BY DEF IInv
<1>7. \A e \in Caller : call'[e].pc # "size"
  BY <1>3 DEF InTx
<1> QED BY <1>2, <1>3, <1>5, <1>6, <1>7 DEF IInv

LEMMA CommitStep ==
  ASSUME IInv, NEW c \in Caller, Commit(c)
  PROVE  IInv'
<1> DEFINE r == IF call[c].op = "mkdir" THEN Idle
                ELSE [call[c] EXCEPT !.pc = "committed"]
<1>1. call[c].pc = "commit" /\ CallOK(call[c]) /\ tx = c
  BY DEF Commit, At, IInv, Typed, InTx
<1>2. /\ call' = [call EXCEPT ![c] = r]
      /\ saved' = db /\ db' = db /\ tx' = NoCaller
  BY DEF Commit, Return, GoTo, Continue
<1>3. CallOK(r) /\ ~InTx(r)
  <2>1. CASE call[c].op = "mkdir"
    BY <2>1, IdleIsOK
  <2>2. CASE call[c].op # "mkdir"
    BY <1>1, <2>2 DEF CallOK, HasFields, InTx
  <2> QED BY <2>1, <2>2
<1> HIDE DEF r
<1> QED BY <1>1, <1>2, <1>3, EndOfTransaction

LEMMA RollbackStep ==
  ASSUME IInv, NEW c \in Caller, Rollback(c)
  PROVE  IInv'
<1>1. call[c].pc = "rollback" /\ tx = c
  BY DEF Rollback, At, IInv, InTx
<1>2. /\ call' = [call EXCEPT ![c] = Idle]
      /\ db' = saved /\ saved' = saved /\ tx' = NoCaller
  BY DEF Rollback, Return, Continue
<1> QED BY <1>1, <1>2, IdleIsOK, EndOfTransaction

LEMMA CrashStep == IInv /\ Crash => IInv'
<1> SUFFICES ASSUME IInv, Crash PROVE IInv'
  OBVIOUS
<1>1. /\ db' = saved /\ saved' = saved /\ tx' = NoCaller
      /\ call' = [c \in Caller |-> Idle]
  BY DEF Crash
<1>2. Typed'
  BY <1>1, IdleIsOK DEF IInv, Typed
<1>3. \A x \in Id : Agrees(db', x)
  BY <1>1 DEF IInv
<1>4. DataHasInode(db')
  BY <1>1 DEF IInv
<1> QED BY <1>1, <1>2, <1>3, <1>4, IdleIsOK DEF IInv

-----------------------------------------------------------------------------
(* The theorem *)

LEMMA StepHolds ==
  ASSUME IInv, NEW c \in Caller, Step(c)
  PROVE  IInv'
<1>1. CASE SelectStep(c)
  BY <1>1, SelectIsQuiet
<1>2. CASE Selected(c)
  BY <1>2, SelectedStep
<1>3. CASE Begin(c)
  BY <1>3, BeginStep
<1>4. CASE Begun(c)
  BY <1>4, BegunStep
<1>5. CASE InsertStep(c)
  BY <1>5, InsertStepHolds
<1>6. CASE InsertBlob(c)
  BY <1>6, InsertBlobStep
<1>7. CASE Created(c)
  BY <1>7, CreatedStep
<1>8. CASE Touch(c)
  BY <1>8, ReturnStep DEF Touch, At, Return, Continue
<1>9. CASE Replace(c)
  BY <1>9, ReplaceStep
<1>10. CASE Size(c)
  BY <1>10, SizeStep
<1>11. CASE Kids(c)
  BY <1>11, KidsStep
<1>12. CASE DeleteStep(c)
  BY <1>12, DeleteStepHolds
<1>13. CASE Move(c)
  BY <1>13, MoveStep
<1>14. CASE RemoveStep(c)
  BY <1>14, RemoveStepHolds
<1>15. CASE Commit(c)
  BY <1>15, CommitStep
<1>16. CASE Rollback(c)
  BY <1>16, RollbackStep
<1>17. CASE Committed(c)
  BY <1>17, ReturnStep DEF Committed, At, Return, Continue
<1> QED BY <1>1, <1>2, <1>3, <1>4, <1>5, <1>6, <1>7, <1>8, <1>9, <1>10, <1>11,
           <1>12, <1>13, <1>14, <1>15, <1>16, <1>17 DEF Step

LEMMA UnchangedHolds == IInv /\ UNCHANGED <<db, saved, tx, call>> => IInv'
BY DEF IInv, Typed, DataHasInode, Live, Agrees, Length, HalfWritten

LEMMA Inductive == Spec => []IInv
<1>1. IInv /\ [Next]_vars => IInv'
  <2> SUFFICES ASSUME IInv, [Next]_vars PROVE IInv'
    OBVIOUS
  <2>1. CASE \E c \in Caller : Step(c)
    BY <2>1, StepHolds
  <2>2. CASE \E c \in Caller, op \in Ops, path \in Path, to \in Path,
                data \in Content : Call(c, op, path, to, data)
    BY <2>2, CallStep
  <2>3. CASE \E p \in Path \ {RootPath} : Evict(p)
    BY <2>3, UnchangedHolds DEF Evict
  <2>4. CASE Crash
    BY <2>4, CrashStep
  <2>5. CASE UNCHANGED vars
    BY <2>5, UnchangedHolds DEF vars
  <2> QED BY <2>1, <2>2, <2>3, <2>4, <2>5 DEF Next
<1> QED BY <1>1, InitHolds, PTL DEF Spec

\* However the statements of the callers interleave and wherever a crash hits,
\* the size of every inode on disk is the length of its data: Replace and Size
\* are committed together or not at all.
THEOREM SizesOnDiskAgree == Spec => []SizeIsLength
<1>1. IInv => SizeIsLength
  BY DEF IInv, SizeIsLength, Agrees, Length
<1> QED BY <1>1, Inductive, PTL

\* At any time at most one call is between its BEGIN IMMEDIATE and its COMMIT
\* or ROLLBACK, and it is the one whose transaction is open.
THEOREM OneCallInTransaction ==
  Spec => [](\A c, d \in Caller : InTx(call[c]) /\ InTx(call[d]) => c = d)
<1>1. IInv => \A c, d \in Caller : InTx(call[c]) /\ InTx(call[d]) => c = d
  BY DEF IInv
<1> QED BY <1>1, Inductive, PTL

-----------------------------------------------------------------------------
(* Induction and recursion over the natural numbers and the paths *)

Lists == INSTANCE ListLemmas

\* A function defined by recursion on the numbers up to m exists.
Recursive(S, a, step, m) ==
  \E f \in [0 .. m -> S] :
    f[0] = a /\ \A n \in 1 .. m : f[n] = step[<<n, f[n - 1]>>]

LEMMA Recursion ==
  ASSUME NEW S, NEW a \in S, NEW step \in [Nat \X S -> S], NEW m \in Nat
  PROVE  Recursive(S, a, step, m)
<1> DEFINE Is(f, n) == /\ f \in [0 .. n -> S] /\ f[0] = a
                       /\ \A i \in 1 .. n : f[i] = step[<<i, f[i - 1]>>]
           N == {n \in Nat : \E f : Is(f, n)}
<1>1. 0 \in N
  <2> DEFINE f == [i \in 0 .. 0 |-> a]
  <2>1. Is(f, 0)
    OBVIOUS
  <2> QED  BY <2>1
<1>2. ASSUME NEW n \in Nat, n \in N PROVE n + 1 \in N
  <2>1. PICK f : Is(f, n)
    BY <1>2
  <2>2. f[n] \in S /\ step[<<n + 1, f[n]>>] \in S
    BY <2>1
  <2> DEFINE g == [i \in 0 .. n + 1 |-> IF i = n + 1 THEN step[<<n + 1, f[n]>>] ELSE f[i]]
  <2>3. /\ \A i \in 0 .. n : g[i] = f[i]
        /\ g[n + 1] = step[<<n + 1, f[n]>>]
    OBVIOUS
  <2>4. g \in [0 .. n + 1 -> S]
    BY <2>1, <2>2
  <2> HIDE DEF g
  <2>5. ASSUME NEW i \in 1 .. n + 1 PROVE g[i] = step[<<i, g[i - 1]>>]
    <3>1. CASE i = n + 1
      <4>1. g[i - 1] = f[n]
        BY <2>3, <3>1
      <4> QED  BY <2>3, <3>1, <4>1
    <3>2. CASE i # n + 1
      <4>1. i \in 1 .. n /\ i - 1 \in 0 .. n /\ i \in 0 .. n
        BY <3>2
      <4> QED  BY <2>1, <2>3, <4>1
    <3> QED  BY <3>1, <3>2
  <2>6. g[0] = a
    BY <2>1, <2>3
  <2>7. Is(g, n + 1)
    BY <2>4, <2>5, <2>6
  <2> HIDE DEF Is
  <2> QED  BY <2>7
<1> HIDE DEF N
<1>3. m \in N
  BY <1>1, <1>2, Lists!Induction
<1> QED  BY <1>3 DEF N, Recursive

\* A path is a sequence of names, and so are its prefixes.
LEMMA PathFacts ==
  /\ RootPath \in Path
  /\ \A p \in Path : p \in Seq(Name) /\ Len(p) \in 0 .. MaxDepth
  /\ \A p \in Seq(Name) : Len(p) <= MaxDepth => p \in Path
<1>1. RootPath \in Path
  BY IdleIsOK DEF CallOK, Idle
<1>2. ASSUME NEW p \in Path PROVE p \in Seq(Name) /\ Len(p) \in 0 .. MaxDepth
  <2>1. PICK n \in 0 .. MaxDepth : p \in [1 .. n -> Name]
    BY DEF Path
  <2> QED  BY <2>1, ParameterAssumption
<1>3. ASSUME NEW p \in Seq(Name), Len(p) <= MaxDepth PROVE p \in Path
  <2>1. Len(p) \in 0 .. MaxDepth /\ p \in [1 .. Len(p) -> Name]
    BY <1>3, ParameterAssumption
  <2> QED  BY <2>1 DEF Path
<1> QED  BY <1>1, <1>2, <1>3

LEMMA PrefixFacts ==
  ASSUME NEW p \in Path, NEW j \in 0 .. Len(p)
  PROVE  /\ Prefix(p, j) \in Path /\ Len(Prefix(p, j)) = j
         /\ \A i \in 1 .. j : Prefix(p, j)[i] = p[i]
<1>1. p \in Seq(Name) /\ Len(p) \in 0 .. MaxDepth
  BY PathFacts
<1>2. j \in Nat /\ j <= Len(p) /\ j <= MaxDepth
  BY <1>1, ParameterAssumption
<1>3. Prefix(p, j) \in Seq(Name) /\ Len(Prefix(p, j)) = j
  BY <1>1, <1>2 DEF Prefix
<1>4. \A i \in 1 .. j : Prefix(p, j)[i] = p[i]
  BY <1>1, <1>2 DEF Prefix
<1> QED  BY <1>2, <1>3, <1>4, PathFacts

LEMMA SamePath ==
  ASSUME NEW p \in Path, NEW q \in Path, Len(p) = Len(q), \A i \in 1 .. Len(p) : p[i] = q[i]
  PROVE  p = q
BY PathFacts, SeqEqual

LEMMA PrefixSteps ==
  ASSUME NEW p \in Path
  PROVE  /\ Prefix(p, 0) = RootPath /\ Prefix(p, Len(p)) = p
         /\ \A j \in 1 .. Len(p) : /\ Prefix(p, j) # RootPath
                                   /\ Front(Prefix(p, j)) = Prefix(p, j - 1)
                                   /\ Last(Prefix(p, j)) = p[j]
<1>1. Len(p) \in Nat /\ p \in Seq(Name)
  BY PathFacts
<1>2. RootPath \in Path /\ Len(RootPath) = 0
  BY PathFacts DEF RootPath
<1>3. Prefix(p, 0) = RootPath
  BY <1>1, <1>2, PrefixFacts, SamePath
<1>4. Prefix(p, Len(p)) = p
  <2>1. Len(p) \in 0 .. Len(p)
    BY <1>1
  <2> QED  BY <2>1, PrefixFacts, SamePath
<1>5. ASSUME NEW j \in 1 .. Len(p)
      PROVE  /\ Prefix(p, j) # RootPath /\ Front(Prefix(p, j)) = Prefix(p, j - 1)
             /\ Last(Prefix(p, j)) = p[j]
  <2>1. j \in 0 .. Len(p) /\ j - 1 \in 0 .. Len(p) /\ j \in Nat /\ j - 1 \in Nat
        /\ j - 1 \in 0 .. j
    BY <1>1
  <2>2. PICK q \in Path : q = Prefix(p, j) /\ Len(q) = j /\ \A i \in 1 .. j : q[i] = p[i]
    BY <2>1, PrefixFacts
  <2>3. PICK r \in Path : /\ r = Prefix(p, j - 1) /\ Len(r) = j - 1
                          /\ \A i \in 1 .. (j - 1) : r[i] = p[i]
    BY <2>1, PrefixFacts
  <2>4. PICK s \in Path : /\ s = Prefix(q, j - 1) /\ Len(s) = j - 1
                          /\ \A i \in 1 .. (j - 1) : s[i] = q[i]
    BY <2>1, <2>2, PrefixFacts
  <2>5. s = r
    <3>1. \A i \in 1 .. (j - 1) : s[i] = r[i]
      BY <2>1, <2>2, <2>3, <2>4
    <3> QED  BY <2>3, <2>4, <3>1, SamePath
  <2>6. Front(q) = s
    BY <2>2, <2>4 DEF Front, Prefix
  <2>7. Last(q) = p[j] /\ q # RootPath
    BY <2>1, <2>2, <1>2 DEF Last
  <2> QED  BY <2>2, <2>3, <2>5, <2>6, <2>7
<1> QED  BY <1>3, <1>4, <1>5

\* The directory of a path, and the last name of it.
LEMMA FrontFacts ==
  ASSUME NEW p \in Path, p # RootPath
  PROVE  /\ Front(p) \in Path /\ Len(Front(p)) = Len(p) - 1 /\ Len(p) >= 1
         /\ Front(p) = Prefix(p, Len(p) - 1) /\ Last(p) = p[Len(p)] /\ Last(p) \in Name
         /\ Parent(p) = Front(p)
<1>1. Len(p) \in Nat /\ p \in Seq(Name)
  BY PathFacts
<1>2. Len(p) >= 1
  BY <1>1, EmptySeq DEF RootPath
<1>3. Len(p) - 1 \in 0 .. Len(p)
  BY <1>1, <1>2
<1>4. Front(p) = Prefix(p, Len(p) - 1)
  BY DEF Front, Prefix
<1> QED  BY <1>2, <1>3, <1>4, PrefixFacts, LastIsName DEF Last, Parent

LEMMA SameFront ==
  ASSUME NEW p \in Path \ {RootPath}, NEW q \in Path \ {RootPath},
         Front(p) = Front(q), Last(p) = Last(q)
  PROVE  p = q
<1>1. PICK n \in Nat : n = Len(p)
  BY PathFacts
<1>2. Len(q) = n /\ n >= 1
  <2>1. Len(p) - 1 = Len(q) - 1 /\ Len(p) >= 1
    BY FrontFacts
  <2>2. Len(q) \in Nat
    BY PathFacts
  <2> QED  BY <1>1, <2>1, <2>2
<1>3. n - 1 \in 0 .. n
  BY <1>2
<1>4. \A i \in 1 .. (n - 1) : Front(p)[i] = p[i]
  <2>1. Front(p) = Prefix(p, n - 1) /\ n - 1 \in 0 .. Len(p)
    BY <1>1, <1>3, FrontFacts
  <2> QED  BY <2>1, PrefixFacts
<1>5. \A i \in 1 .. (n - 1) : Front(q)[i] = q[i]
  <2>1. Front(q) = Prefix(q, n - 1) /\ n - 1 \in 0 .. Len(q)
    BY <1>2, <1>3, FrontFacts
  <2> QED  BY <2>1, PrefixFacts
<1>6. p[n] = q[n]
  BY <1>1, <1>2, FrontFacts
<1>7. \A i \in 1 .. n : p[i] = q[i]
  BY <1>2, <1>4, <1>5, <1>6
<1> QED  BY <1>1, <1>2, <1>7, SamePath

\* What holds of the root, and of a path when it holds of its directory, holds
\* of every path.
LEMMA PathInduction ==
  ASSUME NEW S, RootPath \in S, \A p \in Path \ {RootPath} : Front(p) \in S => p \in S
  PROVE  Path \subseteq S
<1> DEFINE N == {n \in Nat : \A p \in Path : Len(p) = n => p \in S}
<1>1. 0 \in N
  <2>1. ASSUME NEW p \in Path, Len(p) = 0 PROVE p = RootPath
    BY <2>1, PathFacts, EmptySeq DEF RootPath
  <2> QED  BY <2>1
<1>2. ASSUME NEW n \in Nat, n \in N PROVE n + 1 \in N
  <2>1. ASSUME NEW p \in Path, Len(p) = n + 1 PROVE p \in S
    <3>1. p # RootPath
      BY <2>1 DEF RootPath
    <3>2. Front(p) \in Path /\ Len(Front(p)) = n
      BY <2>1, <3>1, FrontFacts
    <3> QED  BY <1>2, <3>1, <3>2
  <2> QED  BY <2>1
<1> HIDE DEF N
<1>3. \A n \in Nat : n \in N
  BY <1>1, <1>2, Lists!Induction
<1>4. ASSUME NEW p \in Path PROVE p \in S
  <2>1. Len(p) \in Nat
    BY PathFacts
  <2> QED  BY <1>3, <2>1 DEF N
<1> QED  BY <1>4

-----------------------------------------------------------------------------
(* NodeAt and Below *)

\* One component further down.
Further(t, v, n) == IF v = NoNode THEN NoNode ELSE Select(t, v.id, n)

LEMMA SelectResult ==
  ASSUME NEW t \in Tables, NEW d, NEW n
  PROVE  /\ Select(t, d, n) \in Node \cup {NoNode}
         /\ Select(t, d, n) # NoNode <=> Named(t, d, n) # {}
         /\ Select(t, d, n) # NoNode =>
              \E x \in Named(t, d, n) : Select(t, d, n) = NodeOf(t, x)
         /\ \A x \in Named(t, d, n) :
              x \in Id /\ t.ino[x] \in Inode /\ t.ino[x] # NoInode
              /\ t.ino[x].parent = d /\ t.ino[x].name = n
         /\ \A x \in Id : t.ino[x] # NoInode =>
              t.ino[x] \in Inode /\ NodeOf(t, x) \in Node
<1>1. \A x \in Named(t, d, n) :
        x \in Id /\ t.ino[x] \in Inode /\ t.ino[x] # NoInode
        /\ t.ino[x].parent = d /\ t.ino[x].name = n
  BY DEF Named, ChildrenOf, Tables
<1>2. ASSUME NEW x \in Id, t.ino[x] # NoInode
      PROVE  t.ino[x] \in Inode /\ NodeOf(t, x) \in Node
  <2>1. t.ino[x] \in Inode
    BY <1>2 DEF Tables
  <2> QED  BY <2>1 DEF NodeOf, Node, Inode
<1>3. CASE Named(t, d, n) = {}
  BY <1>1, <1>2, <1>3 DEF Select
<1>4. CASE Named(t, d, n) # {}
  <2>1. PICK x \in Named(t, d, n) : Select(t, d, n) = NodeOf(t, x)
    BY <1>4 DEF Select
  <2>2. NodeOf(t, x) \in Node
    BY <1>1, <1>2
  <2> QED  BY <1>1, <1>2, <1>4, <2>1, <2>2, NoNodeAssumption
<1> QED  BY <1>3, <1>4

\* NodeAt goes down component by component.
LEMMA WalkTable ==
  ASSUME NEW t \in Tables, NEW p \in Path
  PROVE  \E at : /\ at[0] = RootNode
                 /\ \A n \in 1 .. Len(p) : /\ at[n] = Further(t, at[n - 1], p[n])
                                           /\ at[n] \in Node \cup {NoNode}
                 /\ NodeAt(t, p) = at[Len(p)]
<1>1. PICK m \in Nat : m = Len(p)
  BY PathFacts
<1> DEFINE Is(g) == g = [n \in 0 .. m |->
                           IF n = 0 THEN RootNode
                           ELSE IF g[n - 1] = NoNode THEN NoNode
                           ELSE Select(t, g[n - 1].id, p[n])]
           at == CHOOSE g : Is(g)
           step == [z \in Nat \X (Node \cup {NoNode}) |->
                      IF z[2] = NoNode THEN NoNode ELSE Select(t, z[2].id, p[z[1]])]
<1>2. RootNode \in Node \cup {NoNode}
  BY ParameterAssumption DEF RootNode, RootId, Node, Id
<1>3. step \in [Nat \X (Node \cup {NoNode}) -> Node \cup {NoNode}]
  <2>1. ASSUME NEW z \in Nat \X (Node \cup {NoNode})
        PROVE  (IF z[2] = NoNode THEN NoNode ELSE Select(t, z[2].id, p[z[1]]))
                  \in Node \cup {NoNode}
    BY SelectResult
  <2> QED  BY <2>1
<1>4. \A n \in Nat : \A v \in Node \cup {NoNode} : step[<<n, v>>] = Further(t, v, p[n])
  <2>1. ASSUME NEW n \in Nat, NEW v \in Node \cup {NoNode}
        PROVE  step[<<n, v>>] = Further(t, v, p[n])
    <3>1. <<n, v>> \in Nat \X (Node \cup {NoNode}) /\ <<n, v>>[1] = n /\ <<n, v>>[2] = v
      OBVIOUS
    <3> QED  BY <3>1 DEF Further
  <2> QED  BY <2>1
<1> HIDE DEF step
<1>5. PICK f \in [0 .. m -> Node \cup {NoNode}] :
        f[0] = RootNode /\ \A n \in 1 .. m : f[n] = step[<<n, f[n - 1]>>]
  <2>1. PICK S : S = Node \cup {NoNode}
    OBVIOUS
  <2>2. RootNode \in S /\ step \in [Nat \X S -> S]
    BY <1>2, <1>3, <2>1
  <2>3. \E f \in [0 .. m -> S] :
          f[0] = RootNode /\ \A n \in 1 .. m : f[n] = step[<<n, f[n - 1]>>]
    <3>1. Recursive(S, RootNode, step, m)
      BY <2>2, Recursion
    <3> QED  BY <3>1 DEF Recursive
  <2> QED  BY <2>1, <2>3
<1>6. ASSUME NEW n \in 0 .. m
      PROVE  f[n] = IF n = 0 THEN RootNode
                    ELSE IF f[n - 1] = NoNode THEN NoNode
                    ELSE Select(t, f[n - 1].id, p[n])
  <2>1. CASE n = 0
    BY <1>5, <2>1
  <2>2. CASE n # 0
    <3>1. n \in 1 .. m /\ n - 1 \in 0 .. m /\ n \in Nat
      BY <2>2
    <3>2. f[n - 1] \in Node \cup {NoNode}
      BY <3>1
    <3>3. f[n] = Further(t, f[n - 1], p[n])
      BY <1>4, <1>5, <3>1, <3>2
    <3> QED  BY <2>2, <3>3 DEF Further
  <2> QED  BY <2>1, <2>2
<1>7. Is(f)
  BY <1>6
<1>8. Is(at)
  <2> HIDE DEF Is
  <2> QED  BY <1>7
<1>9. NodeAt(t, p) = at[m]
  BY <1>1 DEF NodeAt
<1>10. \A g : Is(g) => g[0] = RootNode /\ \A n \in 1 .. m : g[n] = Further(t, g[n - 1], p[n])
  <2>1. ASSUME NEW g, Is(g) PROVE g[0] = RootNode
    BY <2>1
  <2>2. ASSUME NEW g, Is(g), NEW n \in 1 .. m PROVE g[n] = Further(t, g[n - 1], p[n])
    <3> DEFINE e(i) == IF i = 0 THEN RootNode
                       ELSE IF g[i - 1] = NoNode THEN NoNode
                       ELSE Select(t, g[i - 1].id, p[i])
    <3>1. \A i \in 0 .. m : g[i] = e(i)
      BY <2>2
    <3>2. n \in 0 .. m /\ n # 0
      OBVIOUS
    <3> QED  BY <3>1, <3>2 DEF Further
  <2> QED  BY <2>1, <2>2
<1>11. at[0] = RootNode /\ \A n \in 1 .. m : at[n] = Further(t, at[n - 1], p[n])
  <2> HIDE DEF Is, at
  <2> QED  BY <1>8, <1>10
<1> HIDE DEF at
<1>12. \A n \in 1 .. m : at[n] \in Node \cup {NoNode}
  <2>1. \A v, n : Further(t, v, n) \in Node \cup {NoNode}
    BY SelectResult DEF Further
  <2> QED  BY <1>11, <2>1
<1> QED  BY <1>1, <1>9, <1>11, <1>12

LEMMA NodeAtFacts ==
  ASSUME NEW t \in Tables
  PROVE  /\ NodeAt(t, RootPath) = RootNode
         /\ \A p \in Path \ {RootPath} : NodeAt(t, p) = Further(t, NodeAt(t, Front(p)), Last(p))
         /\ \A p \in Path : NodeAt(t, p) \in Node \cup {NoNode}
<1>0. RootNode \in Node
  BY ParameterAssumption DEF RootNode, RootId, Node, Id
<1>1. RootPath \in Path /\ Len(RootPath) = 0
  BY PathFacts DEF RootPath
<1>2. NodeAt(t, RootPath) = RootNode
  BY <1>1, WalkTable
<1>3. ASSUME NEW p \in Path PROVE NodeAt(t, p) \in Node \cup {NoNode}
  <2>1. PICK at : /\ at[0] = RootNode
                  /\ \A n \in 1 .. Len(p) : at[n] \in Node \cup {NoNode}
                  /\ NodeAt(t, p) = at[Len(p)]
    BY WalkTable
  <2>2. Len(p) \in Nat
    BY PathFacts
  <2>3. Len(p) = 0 \/ Len(p) \in 1 .. Len(p)
    BY <2>2
  <2> QED  BY <1>0, <2>1, <2>3
<1>4. ASSUME NEW p \in Path, p # RootPath
      PROVE  NodeAt(t, p) = Further(t, NodeAt(t, Front(p)), Last(p))
  <2>1. PICK m \in Nat : m = Len(p) - 1 /\ Len(p) = m + 1
    <3>1. Len(p) \in Nat /\ Len(p) >= 1
      BY <1>4, FrontFacts, PathFacts
    <3> QED  BY <3>1
  <2>2. PICK q \in Path : q = Front(p) /\ Len(q) = m /\ q = Prefix(p, m)
    BY <1>4, <2>1, FrontFacts
  <2>3. \A i \in 1 .. m : q[i] = p[i]
    <3>1. m \in 0 .. Len(p)
      BY <2>1
    <3> QED  BY <2>2, <3>1, PrefixFacts
  <2>4. PICK f : /\ f[0] = RootNode /\ NodeAt(t, p) = f[m + 1]
                 /\ \A n \in 1 .. (m + 1) : f[n] = Further(t, f[n - 1], p[n])
    BY <2>1, WalkTable
  <2>5. PICK g : /\ g[0] = RootNode /\ NodeAt(t, q) = g[m]
                 /\ \A n \in 1 .. m : g[n] = Further(t, g[n - 1], q[n])
    BY <2>2, WalkTable
  <2> DEFINE N == {n \in Nat : n <= m => f[n] = g[n]}
  <2>6. 0 \in N
    BY <2>4, <2>5
  <2>7. ASSUME NEW n \in Nat, n \in N PROVE n + 1 \in N
    <3>1. ASSUME n + 1 <= m PROVE f[n + 1] = g[n + 1]
      <4>1. n + 1 \in 1 .. m /\ n + 1 \in 1 .. (m + 1) /\ (n + 1) - 1 = n /\ n <= m
        BY <3>1
      <4>2. f[n] = g[n] /\ q[n + 1] = p[n + 1]
        BY <2>3, <2>7, <4>1
      <4>3. f[n + 1] = Further(t, f[n], p[n + 1])
        BY <2>4, <4>1
      <4>4. g[n + 1] = Further(t, g[n], q[n + 1])
        BY <2>5, <4>1
      <4> QED  BY <4>2, <4>3, <4>4
    <3> QED  BY <3>1
  <2> HIDE DEF N
  <2>8. m \in N
    BY <2>6, <2>7, Lists!Induction
  <2>9. f[m] = g[m]
    BY <2>8 DEF N
  <2>10. f[m + 1] = Further(t, f[m], p[m + 1])
    <3>1. m + 1 \in 1 .. (m + 1) /\ (m + 1) - 1 = m
      OBVIOUS
    <3> QED  BY <2>4, <3>1
  <2>11. Last(p) = p[m + 1]
    BY <1>4, <2>1, FrontFacts
  <2> QED  BY <2>2, <2>4, <2>5, <2>9, <2>10, <2>11
<1> QED  BY <1>2, <1>3, <1>4

\* Below goes down level by level.
IsLevels(t, x, level) ==
  /\ level[0] = {x} /\ Below(t, x) = level[MaxId]
  /\ \A n \in 1 .. MaxId :
       level[n] = level[n - 1] \cup UNION {ChildrenOf(t, y) : y \in level[n - 1]}

LEMMA LevelTable ==
  ASSUME NEW t, NEW x \in Id
  PROVE  \E level : IsLevels(t, x, level)
<1> DEFINE Next1(L) == L \cup UNION {ChildrenOf(t, y) : y \in L}
           Is(g) == g = [n \in 0 .. MaxId |-> IF n = 0 THEN {x} ELSE Next1(g[n - 1])]
           level == CHOOSE g : Is(g)
           step == [z \in Nat \X SUBSET Id |-> Next1(z[2])]
<1>1. MaxId \in Nat
  BY ParameterAssumption
<1>2. \A L \in SUBSET Id : Next1(L) \in SUBSET Id
  BY DEF ChildrenOf
<1>3. Below(t, x) = level[MaxId]
  BY DEF Below
<1> HIDE DEF Next1
<1>4. step \in [Nat \X SUBSET Id -> SUBSET Id]
      /\ \A n \in Nat : \A L \in SUBSET Id : step[<<n, L>>] = Next1(L)
  BY <1>2
<1> HIDE DEF step
<1>5. PICK f \in [0 .. MaxId -> SUBSET Id] :
        f[0] = {x} /\ \A n \in 1 .. MaxId : f[n] = step[<<n, f[n - 1]>>]
  <2>1. PICK S : S = SUBSET Id
    OBVIOUS
  <2>2. {x} \in S /\ step \in [Nat \X S -> S]
    BY <1>4, <2>1
  <2>3. \E f \in [0 .. MaxId -> S] :
          f[0] = {x} /\ \A n \in 1 .. MaxId : f[n] = step[<<n, f[n - 1]>>]
    <3>1. Recursive(S, {x}, step, MaxId)
      BY <1>1, <2>2, Recursion
    <3> QED  BY <3>1 DEF Recursive
  <2> QED  BY <2>1, <2>3
<1>6. ASSUME NEW n \in 0 .. MaxId
      PROVE  f[n] = IF n = 0 THEN {x} ELSE Next1(f[n - 1])
  <2>1. CASE n = 0
    BY <1>5, <2>1
  <2>2. CASE n # 0
    <3>1. n \in 1 .. MaxId /\ n - 1 \in 0 .. MaxId /\ n \in Nat
      BY <1>1, <2>2
    <3> QED  BY <1>4, <1>5, <2>2, <3>1
  <2> QED  BY <2>1, <2>2
<1>7. Is(f)
  BY <1>6
<1>8. Is(level)
  <2> HIDE DEF Is
  <2> QED  BY <1>7
<1> HIDE DEF level
<1>9. level[0] = {x} /\ \A n \in 1 .. MaxId : level[n] = Next1(level[n - 1])
  <2> DEFINE e(i) == IF i = 0 THEN {x} ELSE Next1(level[i - 1])
  <2>1. \A i \in 0 .. MaxId : level[i] = e(i)
    BY <1>8
  <2>2. 0 \in 0 .. MaxId /\ \A n \in 1 .. MaxId : n \in 0 .. MaxId /\ n # 0
    BY <1>1
  <2> QED  BY <2>1, <2>2
<1>10. IsLevels(t, x, level)
  BY <1>3, <1>9 DEF IsLevels, Next1
<1> QED  BY <1>10

\* The inodes form a tree: a row is in a directory, which was made before it,
\* and a directory has one row of a name.
Tree(t) ==
  /\ t.ino[RootId] = NoInode
  /\ \A x \in Id : t.ino[x] # NoInode =>
       /\ t.ino[x].parent \in Live(t) /\ t.ino[x].parent < x
       /\ NodeOf(t, t.ino[x].parent).kind = "dir"
  /\ \A x, y \in Id :
       t.ino[x] # NoInode /\ t.ino[y] # NoInode
         /\ t.ino[x].parent = t.ino[y].parent /\ t.ino[x].name = t.ino[y].name => x = y

LEMMA TreeReached ==
  ASSUME NEW t \in Tables, Tree(t), NEW y \in Live(t)
  PROVE  y \in Below(t, RootId)
<1>1. RootId \in Id /\ RootId = 1 /\ MaxId \in Nat /\ Live(t) \subseteq Id /\ Id \subseteq Nat
  BY ParameterAssumption DEF RootId, Id, Live
<1>2. PICK level : IsLevels(t, RootId, level)
  BY <1>1, LevelTable
<1> DEFINE N == {n \in Nat : n <= MaxId => \A z \in Live(t) : z <= n + 1 => z \in level[n]}
<1>3. 0 \in N
  <2>1. ASSUME NEW z \in Live(t), z <= 0 + 1 PROVE z \in level[0]
    BY <1>1, <1>2, <2>1 DEF Id, IsLevels
  <2> QED  BY <2>1
<1>4. ASSUME NEW n \in Nat, n \in N PROVE n + 1 \in N
  <2>1. ASSUME n + 1 <= MaxId, NEW z \in Live(t), z <= (n + 1) + 1 PROVE z \in level[n + 1]
    <3>1. n + 1 \in 1 .. MaxId /\ (n + 1) - 1 = n /\ n <= MaxId
      BY <1>1, <2>1
    <3>2. level[n + 1] = level[n] \cup UNION {ChildrenOf(t, w) : w \in level[n]}
      BY <1>2, <3>1 DEF IsLevels
    <3>3. CASE z = RootId
      <4>1. z <= n + 1
        BY <1>1, <3>3
      <4> QED  BY <1>4, <3>1, <3>2, <4>1
    <3>4. CASE z # RootId
      <4>1. z \in Id /\ t.ino[z] # NoInode
        BY <3>4 DEF Live
      <4>2. PICK w \in Live(t) : w = t.ino[z].parent /\ w < z
        BY <4>1 DEF Tree
      <4>3. w <= n + 1
        <5>1. w \in Nat /\ z \in Nat
          BY <1>1
        <5> QED  BY <2>1, <4>2, <5>1
      <4>4. w \in level[n]
        BY <1>4, <3>1, <4>3
      <4>5. z \in ChildrenOf(t, w)
        BY <4>1, <4>2 DEF ChildrenOf
      <4> QED  BY <3>2, <4>4, <4>5
    <3> QED  BY <3>3, <3>4
  <2> QED  BY <2>1
<1> HIDE DEF N
<1>5. MaxId \in N
  BY <1>1, <1>3, <1>4, Lists!Induction
<1>6. y <= MaxId + 1
  BY <1>1 DEF Id
<1> QED  BY <1>1, <1>2, <1>5, <1>6 DEF N, IsLevels

LEMMA LeafBelow ==
  ASSUME NEW t, NEW x \in Id, ChildrenOf(t, x) = {}
  PROVE  Below(t, x) = {x}
<1>1. PICK level : IsLevels(t, x, level)
  BY LevelTable
<1> DEFINE N == {n \in Nat : n <= MaxId => level[n] = {x}}
<1>2. 0 \in N
  BY <1>1 DEF IsLevels
<1>3. ASSUME NEW n \in Nat, n \in N PROVE n + 1 \in N
  <2>1. ASSUME n + 1 <= MaxId PROVE level[n + 1] = {x}
    <3>1. n + 1 \in 1 .. MaxId /\ (n + 1) - 1 = n /\ n <= MaxId
      BY <2>1, ParameterAssumption
    <3>2. level[n] = {x}
      BY <1>3, <3>1
    <3>3. level[n + 1] = {x} \cup UNION {ChildrenOf(t, z) : z \in {x}}
      BY <1>1, <3>1, <3>2 DEF IsLevels
    <3> QED  BY <3>3
  <2> QED  BY <2>1
<1> HIDE DEF N
<1>4. MaxId \in N
  BY <1>2, <1>3, Lists!Induction, ParameterAssumption
<1> QED  BY <1>1, <1>4, ParameterAssumption DEF N, IsLevels

\* The row of the node that a path leads to.
LEMMA Led ==
  ASSUME NEW t \in Tables, Tree(t), NEW p \in Path, NodeAt(t, p) # NoNode
  PROVE  /\ NodeAt(t, p) \in Node /\ NodeAt(t, p).id \in Live(t)
         /\ NodeAt(t, p) = NodeOf(t, NodeAt(t, p).id)
         /\ p = RootPath <=> NodeAt(t, p).id = RootId
         /\ p # RootPath =>
              LET x == NodeAt(t, p).id
                  d == NodeAt(t, Front(p))
              IN /\ t.ino[x] # NoInode /\ t.ino[x].name = Last(p)
                 /\ d # NoNode /\ t.ino[x].parent = d.id
<1>1. NodeAt(t, p) \in Node
  BY NodeAtFacts
<1>2. CASE p = RootPath
  <2>1. NodeAt(t, p) = RootNode
    BY <1>2, NodeAtFacts
  <2>2. RootId \in Live(t)
    BY ParameterAssumption DEF Live, RootId, Id
  <2> QED  BY <1>1, <1>2, <2>1, <2>2 DEF RootNode, NodeOf
<1>3. CASE p # RootPath
  <2>1. PICK d : d = NodeAt(t, Front(p)) /\ NodeAt(t, p) = Further(t, d, Last(p))
    BY <1>3, NodeAtFacts
  <2>2. d # NoNode /\ NodeAt(t, p) = Select(t, d.id, Last(p))
    BY <2>1 DEF Further
  <2>3. PICK x \in Named(t, d.id, Last(p)) : NodeAt(t, p) = NodeOf(t, x)
    BY <2>2, SelectResult
  <2>4. x \in Id /\ t.ino[x] # NoInode /\ t.ino[x].parent = d.id /\ t.ino[x].name = Last(p)
    BY SelectResult
  <2>5. NodeOf(t, x).id = x
    BY DEF NodeOf
  <2>6. x # RootId /\ x \in Live(t)
    BY <2>4 DEF Tree, Live
  <2> QED  BY <1>1, <1>3, <2>1, <2>2, <2>3, <2>4, <2>5, <2>6
<1> QED  BY <1>2, <1>3

\* Two paths do not lead to the same inode.
LEMMA OnePath ==
  ASSUME NEW t \in Tables, Tree(t)
  PROVE  \A p, q \in Path :
           NodeAt(t, p) # NoNode /\ NodeAt(t, q) # NoNode
             /\ NodeAt(t, p).id = NodeAt(t, q).id => p = q
<1> DEFINE Alone(p) == \A q \in Path :
             NodeAt(t, p) # NoNode /\ NodeAt(t, q) # NoNode
               /\ NodeAt(t, p).id = NodeAt(t, q).id => p = q
           S == {p \in Path : Alone(p)}
<1>0. RootPath \in Path
  BY PathFacts
<1>1. RootPath \in S
  BY <1>0, Led
<1>2. ASSUME NEW p \in Path \ {RootPath}, Front(p) \in S PROVE p \in S
  <2>1. ASSUME NEW q \in Path, NodeAt(t, p) # NoNode, NodeAt(t, q) # NoNode,
               NodeAt(t, p).id = NodeAt(t, q).id
        PROVE  p = q
    <3>1. q # RootPath
      BY <2>1, Led
    <3>2. PICK x : x = NodeAt(t, p).id
      OBVIOUS
    <3>3. /\ t.ino[x].name = Last(p) /\ NodeAt(t, Front(p)) # NoNode
          /\ t.ino[x].parent = NodeAt(t, Front(p)).id
      BY <2>1, <3>2, Led
    <3>4. /\ t.ino[x].name = Last(q) /\ NodeAt(t, Front(q)) # NoNode
          /\ t.ino[x].parent = NodeAt(t, Front(q)).id
      BY <2>1, <3>1, <3>2, Led
    <3>5. Front(q) \in Path
      BY <3>1, FrontFacts
    <3>6. Front(p) = Front(q)
      BY <1>2, <3>3, <3>4, <3>5
    <3> QED  BY <3>1, <3>3, <3>4, <3>6, SameFront
  <2> QED  BY <2>1
<1> HIDE DEF S
<1>3. Path \subseteq S
  BY <1>1, <1>2, PathInduction
<1> QED  BY <1>3 DEF S

\* Below nothing there is nothing.
LEMMA NothingBelow ==
  ASSUME NEW t \in Tables, NEW p \in Path, NEW j \in 0 .. Len(p),
         NodeAt(t, Prefix(p, j)) = NoNode
  PROVE  NodeAt(t, p) = NoNode
<1>1. Len(p) \in Nat /\ j \in Nat
  BY PathFacts
<1> DEFINE N == {n \in Nat : j + n <= Len(p) => NodeAt(t, Prefix(p, j + n)) = NoNode}
<1>2. 0 \in N
  BY <1>1
<1>3. ASSUME NEW n \in Nat, n \in N PROVE n + 1 \in N
  <2>1. ASSUME j + (n + 1) <= Len(p) PROVE NodeAt(t, Prefix(p, j + (n + 1))) = NoNode
    <3>1. PICK i \in 1 .. Len(p) : i = j + (n + 1) /\ i - 1 = j + n
      BY <1>1, <2>1
    <3>2. NodeAt(t, Prefix(p, i - 1)) = NoNode
      BY <1>1, <1>3, <3>1
    <3>3. Prefix(p, i) \in Path \ {RootPath} /\ Front(Prefix(p, i)) = Prefix(p, i - 1)
      <4>1. i \in 0 .. Len(p)
        OBVIOUS
      <4> QED  BY <4>1, PrefixFacts, PrefixSteps
    <3>4. NodeAt(t, Prefix(p, i)) = Further(t, NoNode, Last(Prefix(p, i)))
      BY <3>2, <3>3, NodeAtFacts
    <3> QED  BY <3>1, <3>4 DEF Further
  <2> QED  BY <2>1
<1> HIDE DEF N
<1>4. PICK n \in Nat : j + n = Len(p)
  <2>1. Len(p) - j \in Nat
    BY <1>1
  <2> QED  BY <1>1, <2>1
<1>5. n \in N
  BY <1>2, <1>3, Lists!Induction
<1> QED  BY <1>1, <1>4, <1>5, PrefixSteps DEF N

\* What a walk sees of the tables is what Select returns.
LEMMA SameSelects ==
  ASSUME NEW t \in Tables, NEW u \in Tables,
         \A e, m : Select(u, e, m) = Select(t, e, m)
  PROVE  \A p \in Path : NodeAt(u, p) = NodeAt(t, p)
<1> DEFINE S == {p \in Path : NodeAt(u, p) = NodeAt(t, p)}
<1>1. RootPath \in S
  BY PathFacts, NodeAtFacts
<1>2. ASSUME NEW p \in Path \ {RootPath}, Front(p) \in S PROVE p \in S
  <2>1. NodeAt(u, p) = Further(u, NodeAt(u, Front(p)), Last(p))
    BY NodeAtFacts
  <2>2. NodeAt(t, p) = Further(t, NodeAt(t, Front(p)), Last(p))
    BY NodeAtFacts
  <2> QED  BY <1>2, <2>1, <2>2 DEF Further
<1> HIDE DEF S
<1>3. Path \subseteq S
  BY <1>1, <1>2, PathInduction
<1> QED  BY <1>3 DEF S

\* A statement that leaves parents, names and kinds alone.
SameRows(t, u) ==
  \A x \in Id : /\ u.ino[x] = NoInode <=> t.ino[x] = NoInode
                /\ t.ino[x] # NoInode => /\ u.ino[x].parent = t.ino[x].parent
                                         /\ u.ino[x].name = t.ino[x].name
                                         /\ u.ino[x].kind = t.ino[x].kind

LEMMA SameRowsResult ==
  ASSUME NEW t \in Tables, NEW u \in Tables, Tree(t), SameRows(t, u)
  PROVE  /\ Tree(u)
         /\ \A p \in Path : NodeAt(u, p) = NodeAt(t, p)
         /\ \A x : ChildrenOf(u, x) = ChildrenOf(t, x)
<1>1. RootId \in Id
  BY ParameterAssumption DEF RootId, Id
<1>2. Live(u) = Live(t)
  BY DEF Live, SameRows
<1>3. \A x \in Live(t) : NodeOf(u, x) = NodeOf(t, x)
  BY DEF NodeOf, Live, SameRows
<1>4. Tree(u)
  BY <1>1, <1>2, <1>3 DEF Tree, SameRows
<1>5. \A x : ChildrenOf(u, x) = ChildrenOf(t, x)
  BY DEF ChildrenOf, SameRows
<1>6. \A e, m : Named(u, e, m) = Named(t, e, m)
  BY <1>5 DEF Named, SameRows, ChildrenOf
<1>7. ASSUME NEW e, NEW m PROVE Select(u, e, m) = Select(t, e, m)
  <2>1. PICK N : N = Named(t, e, m) /\ N = Named(u, e, m)
    BY <1>6
  <2>2. CASE N = {}
    BY <2>1, <2>2 DEF Select
  <2>3. CASE N # {}
    <3>1. PICK x : x \in N /\ x = CHOOSE y \in N : TRUE
      BY <2>3
    <3>2. x \in Live(t)
      BY <2>1, <3>1 DEF Named, ChildrenOf, Live
    <3>3. Select(u, e, m) = NodeOf(u, x) /\ Select(t, e, m) = NodeOf(t, x)
      BY <2>1, <2>3, <3>1 DEF Select
    <3> QED  BY <1>3, <3>2, <3>3
  <2> QED  BY <2>2, <2>3
<1> QED  BY <1>4, <1>5, <1>7, SameSelects

\* The tables u are t with the path p leading to a new node.
Added(t, u, p, new) ==
  /\ u \in Tables /\ Tree(u) /\ new \in Node /\ new.id \in Live(u)
  /\ u.blob = t.blob
  /\ \A q \in Path : NodeAt(u, q) = IF q = p THEN new ELSE NodeAt(t, q)

\* A row that is inserted is what the path to it leads to, and nothing else
\* has changed.
LEMMA InsertTree ==
  ASSUME NEW t \in Tables, Tree(t), NEW d, NEW n \in Name, NEW kind \in {"dir", "file"},
         CanInsert(t, d, n), NodeOf(t, d).kind = "dir",
         NEW p \in Path \ {RootPath}, Last(p) = n,
         NodeAt(t, Front(p)) # NoNode, NodeAt(t, Front(p)).id = d
  PROVE  Added(t, Insert(t, d, n, kind), p, [id |-> NextId(t), kind |-> kind])
<1> DEFINE y == NextId(t)
           row == [parent |-> d, name |-> n, kind |-> kind, len |-> Empty]
           u == Insert(t, d, n, kind)
           new == [id |-> y, kind |-> kind]
<1>1. /\ d \in Live(t) /\ d \in Id /\ y \in Id /\ Named(t, d, n) = {}
      /\ RootId \in Id /\ Id \subseteq Nat /\ RootId \in Live(t)
  BY ParameterAssumption DEF CanInsert, Live, RootId, Id
<1>2. y \notin Live(t) /\ y # RootId
  BY <1>1, NextIdIsFree
<1>3. \A x \in Live(t) : x < y
  <2>1. Live(t) \in SUBSET Id /\ Live(t) # {}
    BY <1>1 DEF Live
  <2>2. PICK m \in Live(t) : m = Max(Live(t)) /\ \A x \in Live(t) : m >= x
    BY <2>1, LargestId
  <2>3. y = m + 1
    BY <2>2 DEF NextId
  <2>4. m \in Nat /\ \A x \in Live(t) : x \in Nat
    BY <1>1, <2>1
  <2> HIDE DEF y
  <2> QED  BY <2>2, <2>3, <2>4
<1>4. row \in Inode /\ row # NoInode
  BY <1>1, ParameterAssumption, NoInodeAssumption DEF Inode
<1>5. u \in Tables /\ u.blob = t.blob
  BY <1>1, <1>4 DEF Insert, Tables
<1>6. u.ino[y] = row /\ \A x \in Id \ {y} : u.ino[x] = t.ino[x]
  BY <1>1 DEF Insert, Tables
<1>7. new \in Node
  BY <1>1 DEF Node
<1>8. t.ino[y] = NoInode
  BY <1>1, <1>2 DEF Live
<1> HIDE DEF u, y
<1>9. Live(u) = Live(t) \cup {y}
  BY <1>1, <1>4, <1>6 DEF Live
<1>10. \A x \in Live(t) : NodeOf(u, x) = NodeOf(t, x)
  BY <1>2, <1>6 DEF NodeOf, Live
<1>11. NodeOf(u, y) = new
  BY <1>2, <1>6 DEF NodeOf
<1> HIDE DEF new
<1>12. \A x \in Id : t.ino[x] # NoInode => x \in Live(t) /\ x # y
  BY <1>8 DEF Live
<1>13. \A e, m : Named(u, e, m) = IF e = d /\ m = n THEN {y} ELSE Named(t, e, m)
  <2>1. ASSUME NEW e, NEW m
        PROVE  Named(u, e, m) = IF e = d /\ m = n THEN {y} ELSE Named(t, e, m)
    <3>1. ASSUME NEW x \in Id \ {y} PROVE x \in Named(u, e, m) <=> x \in Named(t, e, m)
      BY <1>6 DEF Named, ChildrenOf
    <3>2. y \notin Named(t, e, m) /\ (y \in Named(u, e, m) <=> e = d /\ m = n)
      BY <1>1, <1>4, <1>6, <1>8 DEF Named, ChildrenOf
    <3>3. Named(u, e, m) \subseteq Id /\ Named(t, e, m) \subseteq Id
      BY DEF Named, ChildrenOf
    <3>4. CASE e = d /\ m = n
      BY <1>1, <3>1, <3>2, <3>3, <3>4
    <3>5. CASE ~(e = d /\ m = n)
      BY <3>1, <3>2, <3>3, <3>5
    <3> QED  BY <3>4, <3>5
  <2> QED  BY <2>1
<1>14. ASSUME NEW e, NEW m
       PROVE  Select(u, e, m) = IF e = d /\ m = n THEN new ELSE Select(t, e, m)
  <2>1. CASE e = d /\ m = n
    <3>1. Named(u, e, m) = {y}
      BY <1>13, <2>1
    <3> QED  BY <1>11, <2>1, <3>1 DEF Select
  <2>2. CASE ~(e = d /\ m = n)
    <3>1. PICK N : N = Named(t, e, m) /\ N = Named(u, e, m)
      BY <1>13, <2>2
    <3>2. CASE N = {}
      BY <2>2, <3>1, <3>2 DEF Select
    <3>3. CASE N # {}
      <4>1. PICK x : x \in N /\ x = CHOOSE z \in N : TRUE
        BY <3>3
      <4>2. x \in Live(t)
        BY <3>1, <4>1 DEF Named, ChildrenOf, Live
      <4>3. Select(u, e, m) = NodeOf(u, x) /\ Select(t, e, m) = NodeOf(t, x)
        BY <3>1, <3>3, <4>1 DEF Select
      <4> QED  BY <1>10, <2>2, <4>2, <4>3
    <3> QED  BY <3>2, <3>3
  <2> QED  BY <2>1, <2>2
<1>15. Tree(u)
  <2>1. u.ino[RootId] = NoInode
    BY <1>1, <1>2, <1>6 DEF Tree
  <2>2. ASSUME NEW x \in Id, u.ino[x] # NoInode
        PROVE  /\ u.ino[x].parent \in Live(u) /\ u.ino[x].parent < x
               /\ NodeOf(u, u.ino[x].parent).kind = "dir"
    <3>1. CASE x = y
      <4>1. u.ino[x].parent = d
        BY <1>6, <3>1
      <4>2. d \in Live(u) /\ d < y /\ NodeOf(u, d).kind = "dir"
        BY <1>1, <1>3, <1>9, <1>10
      <4> QED  BY <3>1, <4>1, <4>2
    <3>2. CASE x # y
      <4>1. u.ino[x] = t.ino[x]
        BY <1>6, <3>2
      <4>2. t.ino[x].parent \in Live(t) /\ t.ino[x].parent < x /\ NodeOf(t, t.ino[x].parent).kind = "dir"
        BY <2>2, <4>1 DEF Tree
      <4> QED  BY <1>9, <1>10, <4>1, <4>2
    <3> QED  BY <3>1, <3>2
  <2>3. ASSUME NEW x \in Id, NEW z \in Id, u.ino[x] # NoInode, u.ino[z] # NoInode,
               u.ino[x].parent = u.ino[z].parent, u.ino[x].name = u.ino[z].name
        PROVE  x = z
    <3>1. \A w \in Id \ {y} : ~(t.ino[w] # NoInode /\ t.ino[w].parent = d /\ t.ino[w].name = n)
      BY <1>1 DEF Named, ChildrenOf
    <3>2. CASE x = y \/ z = y
      BY <1>6, <2>3, <3>1, <3>2
    <3>3. CASE x # y /\ z # y
      BY <1>6, <2>3, <3>3 DEF Tree
    <3> QED  BY <3>2, <3>3
  <2> QED  BY <2>1, <2>2, <2>3 DEF Tree
<1>16. Front(p) \in Path
  BY FrontFacts
<1>17. NodeAt(t, p) = NoNode
  <2>1. NodeAt(t, p) = Further(t, NodeAt(t, Front(p)), n)
    BY NodeAtFacts
  <2> QED  BY <1>1, <2>1 DEF Further, Select
<1> DEFINE S == {q \in Path : NodeAt(u, q) = IF q = p THEN new ELSE NodeAt(t, q)}
<1>18. RootPath \in S
  BY <1>5, PathFacts, NodeAtFacts
<1>19. ASSUME NEW q \in Path \ {RootPath}, Front(q) \in S PROVE q \in S
  <2>1. NodeAt(u, q) = Further(u, NodeAt(u, Front(q)), Last(q))
    BY <1>5, NodeAtFacts
  <2>2. NodeAt(t, q) = Further(t, NodeAt(t, Front(q)), Last(q))
    BY NodeAtFacts
  <2>3. CASE Front(q) = p
    <3>1. NodeAt(u, Front(q)) = new /\ NodeAt(t, q) = NoNode
      BY <1>17, <1>19, <2>2, <2>3 DEF Further
    <3>2. Named(t, y, Last(q)) = {} /\ y # d /\ new.id = y
      BY <1>1, <1>2, <1>12 DEF Named, ChildrenOf, Tree, new
    <3>3. Select(u, y, Last(q)) = NoNode
      BY <1>14, <3>2 DEF Select
    <3>4. q # p
      <4>1. Len(Front(q)) = Len(q) - 1 /\ Len(q) \in Nat
        BY FrontFacts, PathFacts
      <4> QED  BY <2>3, <4>1
    <3>5. NodeAt(u, q) = NoNode
      BY <2>1, <3>1, <3>2, <3>3 DEF Further
    <3> QED  BY <3>1, <3>4, <3>5
  <2>4. CASE Front(q) # p
    <3>1. PICK v : v = NodeAt(t, Front(q)) /\ v = NodeAt(u, Front(q))
      BY <1>19, <2>4
    <3>2. Front(q) \in Path
      BY <1>19
    <3>3. CASE v = NoNode
      BY <2>1, <2>2, <3>1, <3>3 DEF Further
    <3>4. CASE v # NoNode /\ v.id = d /\ Last(q) = n
      <4>1. Front(q) = Front(p)
        BY <1>16, <3>1, <3>2, <3>4, OnePath
      <4>2. q = p
        BY <3>4, <4>1, SameFront
      <4>3. NodeAt(u, q) = new
        BY <1>14, <2>1, <3>1, <3>4 DEF Further
      <4> QED  BY <4>2, <4>3
    <3>5. CASE v # NoNode /\ ~(v.id = d /\ Last(q) = n)
      <4>1. q # p
        BY <3>1, <3>5
      <4>2. NodeAt(u, q) = NodeAt(t, q)
        BY <1>14, <2>1, <2>2, <3>1, <3>5 DEF Further
      <4> QED  BY <4>1, <4>2
    <3> QED  BY <3>3, <3>4, <3>5
  <2> QED  BY <2>3, <2>4
<1> HIDE DEF S
<1>20. Path \subseteq S
  BY <1>18, <1>19, PathInduction
<1>21. \A q \in Path : NodeAt(u, q) = IF q = p THEN new ELSE NodeAt(t, q)
  BY <1>20 DEF S
<1>22. new.id \in Live(u)
  BY <1>9 DEF new
<1>23. Added(t, u, p, new)
  BY <1>5, <1>7, <1>15, <1>21, <1>22 DEF Added
<1> QED  BY <1>23 DEF u, new, y

\* An inode without children that is deleted is not found any more, and
\* nothing else has changed.
LEMMA DeleteTree ==
  ASSUME NEW t \in Tables, Tree(t), NEW x \in Live(t), x # RootId, ChildrenOf(t, x) = {}
  PROVE  LET u == Delete(t, x)
         IN /\ u \in Tables /\ Tree(u)
            /\ \A q \in Path : NodeAt(u, q) = IF NodeAt(t, q) # NoNode /\ NodeAt(t, q).id = x
                                                THEN NoNode ELSE NodeAt(t, q)
<1> DEFINE u == Delete(t, x)
           Cut(v) == IF v # NoNode /\ v.id = x THEN NoNode ELSE v
<1>1. x \in Id /\ RootId \in Id /\ Below(t, x) = {x}
  BY LeafBelow, ParameterAssumption DEF Live, RootId, Id
<1>2. u \in Tables
  BY DEF Delete, Tables
<1>3. u.ino[x] = NoInode /\ \A y \in Id \ {x} : u.ino[y] = t.ino[y]
  BY <1>1 DEF Delete
<1> HIDE DEF u
<1>4. Live(u) = Live(t) \ {x}
  BY <1>1, <1>3 DEF Live
<1>5. \A y \in Live(u) : NodeOf(u, y) = NodeOf(t, y)
  BY <1>3, <1>4 DEF NodeOf, Live
<1>6. \A e, m : Named(u, e, m) = Named(t, e, m) \ {x}
  BY <1>1, <1>3 DEF Named, ChildrenOf
<1>7. Tree(u)
  <2>1. u.ino[RootId] = NoInode
    BY <1>1, <1>3 DEF Tree
  <2>2. ASSUME NEW y \in Id, u.ino[y] # NoInode
        PROVE  /\ u.ino[y].parent \in Live(u) /\ u.ino[y].parent < y
               /\ NodeOf(u, u.ino[y].parent).kind = "dir"
    <3>1. y # x /\ u.ino[y] = t.ino[y]
      BY <1>3, <2>2
    <3>2. t.ino[y].parent \in Live(t) /\ t.ino[y].parent < y /\ NodeOf(t, t.ino[y].parent).kind = "dir"
      BY <2>2, <3>1 DEF Tree
    <3>3. t.ino[y].parent # x
      BY <2>2, <3>1 DEF ChildrenOf
    <3> QED  BY <1>4, <1>5, <3>1, <3>2, <3>3
  <2>3. \A y, z \in Id :
          u.ino[y] # NoInode /\ u.ino[z] # NoInode
            /\ u.ino[y].parent = u.ino[z].parent /\ u.ino[y].name = u.ino[z].name => y = z
    BY <1>3 DEF Tree
  <2> QED  BY <2>1, <2>2, <2>3 DEF Tree
<1>8. ASSUME NEW e, NEW m PROVE Select(u, e, m) = Cut(Select(t, e, m))
  <2>1. PICK N : N = Named(t, e, m) /\ Named(u, e, m) = N \ {x}
    BY <1>6
  <2>2. CASE N = {}
    BY <2>1, <2>2 DEF Select
  <2>3. CASE N # {}
    <3>1. PICK y \in N : Select(t, e, m) = NodeOf(t, y)
      BY <2>1, <2>3 DEF Select
    <3>2. N = {y}
      <4>1. \A z \in N : z = y
        BY <2>1, <3>1 DEF Named, ChildrenOf, Tree
      <4> QED  BY <4>1
    <3>3. Select(t, e, m) # NoNode /\ Select(t, e, m).id = y
      <4>1. Select(t, e, m) # NoNode
        BY <2>1, <2>3, SelectResult
      <4> QED  BY <3>1, <4>1 DEF NodeOf
    <3>4. CASE y = x
      BY <2>1, <3>2, <3>3, <3>4 DEF Select
    <3>5. CASE y # x
      <4>1. Named(u, e, m) = {y} /\ y \in Live(u)
        BY <1>4, <2>1, <3>2, <3>5 DEF Named, ChildrenOf, Live
      <4>2. Select(u, e, m) = NodeOf(u, y)
        BY <4>1 DEF Select
      <4> QED  BY <1>5, <3>1, <3>3, <3>5, <4>1, <4>2
    <3> QED  BY <3>4, <3>5
  <2> QED  BY <2>2, <2>3
<1> HIDE DEF Cut
<1> DEFINE S == {q \in Path : NodeAt(u, q) = Cut(NodeAt(t, q))}
<1>9. RootPath \in S
  <2>1. Cut(RootNode) = RootNode
    BY DEF Cut, RootNode
  <2> QED  BY <1>2, <2>1, PathFacts, NodeAtFacts
<1>10. ASSUME NEW q \in Path \ {RootPath}, Front(q) \in S PROVE q \in S
  <2>1. NodeAt(u, q) = Further(u, NodeAt(u, Front(q)), Last(q))
    BY <1>2, NodeAtFacts
  <2>2. PICK v : v = NodeAt(t, Front(q)) /\ NodeAt(t, q) = Further(t, v, Last(q))
    BY NodeAtFacts
  <2>3. NodeAt(u, Front(q)) = Cut(v)
    BY <1>10, <2>2
  <2>4. CASE v = NoNode
    BY <2>1, <2>2, <2>3, <2>4 DEF Cut, Further
  <2>5. CASE v # NoNode /\ v.id = x
    <3>1. Select(t, x, Last(q)) = NoNode
      BY DEF Select, Named
    <3> QED  BY <2>1, <2>2, <2>3, <2>5, <3>1 DEF Cut, Further
  <2>6. CASE v # NoNode /\ v.id # x
    <3>1. NodeAt(u, q) = Select(u, v.id, Last(q)) /\ NodeAt(t, q) = Select(t, v.id, Last(q))
      BY <2>1, <2>2, <2>3, <2>6 DEF Cut, Further
    <3> QED  BY <1>8, <3>1
  <2> QED  BY <2>4, <2>5, <2>6
<1> HIDE DEF S
<1>11. Path \subseteq S
  BY <1>9, <1>10, PathInduction
<1>12. \A q \in Path : NodeAt(u, q) = Cut(NodeAt(t, q))
  BY <1>11 DEF S
<1> QED  BY <1>2, <1>7, <1>12 DEF u, Cut

-----------------------------------------------------------------------------
(* Lookups *)

\* The cache says of a path what the tables say.
CacheGood(ca, t) ==
  /\ DOMAIN ca = Path \ {RootPath}
  /\ \A p \in Path \ {RootPath} : ca[p] # NoEntry => ca[p] = NodeAt(t, p)

\* A lookup that asks for component i of p, in the directory d, has come to d.
AskRight(t, p, i, d) ==
  /\ i \in 0 .. Len(p)
  /\ i = 0 => p = RootPath
  /\ i # 0 => NodeAt(t, Prefix(p, i - 1)) # NoNode /\ d = NodeAt(t, Prefix(p, i - 1)).id

OutcomeRight(t, p, o) ==
  IF o.select THEN AskRight(t, p, o.i, o.dir) ELSE o.node = NodeAt(t, p)

LEMMA WalkRight ==
  ASSUME NEW t \in Tables, NEW ca, CacheGood(ca, t), NEW p \in Path \ {RootPath},
         NEW i \in 1 .. (Len(p) + 1), NodeAt(t, Prefix(p, i - 1)) # NoNode,
         i = Len(p) + 1 => ca[p] \in Node
  PROVE  OutcomeRight(t, p, Walk(ca, p, i, NodeAt(t, Prefix(p, i - 1)).id))
<1>1. PICK m \in Nat : m = Len(p)
  BY PathFacts
<1>2. m >= 1 /\ Prefix(p, m) = p
  BY <1>1, FrontFacts, PrefixSteps
<1>3. PICK d : d = NodeAt(t, Prefix(p, i - 1)).id
  OBVIOUS
<1> DEFINE open == {j \in i .. m : ca[Prefix(p, j)] \notin Node}
           j == Min(open)
<1>4. Walk(ca, p, i, d) =
        IF open = {} THEN Found(ca[p])
        ELSE IF ca[Prefix(p, j)] = NoNode THEN Found(NoNode)
        ELSE Ask(j, IF j = i THEN d ELSE ca[Prefix(p, j - 1)].id)
  BY <1>1 DEF Walk
<1>5. \A l \in 1 .. m : Prefix(p, l) \in Path \ {RootPath}
  <2>1. ASSUME NEW l \in 1 .. m PROVE Prefix(p, l) \in Path \ {RootPath}
    <3>1. l \in 0 .. Len(p) /\ l \in 1 .. Len(p)
      BY <1>1
    <3> QED  BY <3>1, PrefixFacts, PrefixSteps
  <2> QED  BY <2>1
<1>6. CASE open = {}
  <2>1. ca[p] \in Node
    <3>1. CASE i = m + 1
      BY <1>1, <3>1
    <3>2. CASE i # m + 1
      <4>1. m \in i .. m
        BY <1>1, <3>2
      <4> QED  BY <1>2, <1>6, <4>1
    <3> QED  BY <3>1, <3>2
  <2>2. ca[p] = NodeAt(t, p)
    BY <2>1, NoNodeAssumption DEF CacheGood
  <2>3. Walk(ca, p, i, d) = Found(ca[p])
    BY <1>4, <1>6
  <2> QED  BY <1>3, <2>2, <2>3 DEF OutcomeRight, Found
<1>7. CASE open # {}
  <2>1. j \in open /\ \A l \in open : j <= l
    <3>1. open \in SUBSET Nat
      BY <1>1
    <3> HIDE DEF open
    <3>2. \E n \in open : \A l \in open : n <= l
      BY <1>7, <3>1, Lists!LeastElement
    <3> QED  BY <3>2 DEF Min
  <2> HIDE DEF j
  <2>2. j \in 1 .. m /\ j \in i .. m /\ ca[Prefix(p, j)] \notin Node
    BY <1>1, <2>1
  <2>3. CASE ca[Prefix(p, j)] = NoNode
    <3>1. NodeAt(t, Prefix(p, j)) = NoNode
      BY <1>5, <2>2, <2>3, NoNodeAssumption DEF CacheGood
    <3>2. NodeAt(t, p) = NoNode
      <4>1. j \in 0 .. Len(p)
        BY <1>1, <2>2
      <4> QED  BY <3>1, <4>1, NothingBelow
    <3>3. Walk(ca, p, i, d) = Found(NoNode)
      BY <1>4, <1>7, <2>3
    <3> QED  BY <1>3, <3>2, <3>3 DEF OutcomeRight, Found
  <2>4. CASE ca[Prefix(p, j)] # NoNode
    <3>1. PICK e : e = IF j = i THEN d ELSE ca[Prefix(p, j - 1)].id
      OBVIOUS
    <3>2. NodeAt(t, Prefix(p, j - 1)) # NoNode /\ e = NodeAt(t, Prefix(p, j - 1)).id
      <4>1. CASE j = i
        BY <1>3, <3>1, <4>1
      <4>2. CASE j # i
        <5>1. j - 1 \in i .. m /\ j - 1 \in 1 .. m /\ ~(j <= j - 1)
          BY <1>1, <2>2, <4>2
        <5>2. ca[Prefix(p, j - 1)] \in Node
          BY <2>1, <5>1
        <5>3. ca[Prefix(p, j - 1)] = NodeAt(t, Prefix(p, j - 1))
          BY <1>5, <5>1, <5>2, NoNodeAssumption DEF CacheGood
        <5> QED  BY <3>1, <4>2, <5>2, <5>3, NoNodeAssumption
      <4> QED  BY <4>1, <4>2
    <3>3. Walk(ca, p, i, d) = Ask(j, e)
      BY <1>4, <1>7, <2>4, <3>1
    <3>4. Ask(j, e).select /\ Ask(j, e).i = j /\ Ask(j, e).dir = e
      BY DEF Ask
    <3>5. j \in 0 .. Len(p) /\ j # 0
      BY <1>1, <2>2
    <3>6. AskRight(t, p, j, e)
      BY <3>2, <3>5 DEF AskRight
    <3> QED  BY <1>3, <3>3, <3>4, <3>6 DEF OutcomeRight
  <2> QED  BY <2>3, <2>4
<1> QED  BY <1>6, <1>7

LEMMA LookupRight ==
  ASSUME NEW t \in Tables, NEW ca, CacheGood(ca, t), NEW p \in Path
  PROVE  OutcomeRight(t, p, Lookup(ca, p))
<1>1. CASE p = RootPath
  <2>1. 0 \in 0 .. Len(p)
    BY PathFacts
  <2>2. AskRight(t, p, 0, RootId)
    BY <1>1, <2>1 DEF AskRight
  <2>3. Lookup(ca, p) = Ask(0, RootId)
    BY <1>1 DEF Lookup
  <2>4. Ask(0, RootId).select /\ Ask(0, RootId).i = 0 /\ Ask(0, RootId).dir = RootId
    BY DEF Ask
  <2> QED  BY <2>2, <2>3, <2>4 DEF OutcomeRight
<1>2. CASE p # RootPath /\ ca[p] # NoEntry
  BY <1>2 DEF Lookup, OutcomeRight, Found, CacheGood
<1>3. CASE p # RootPath /\ ca[p] = NoEntry
  <2>1. Lookup(ca, p) = Walk(ca, p, 1, RootId)
    BY <1>3 DEF Lookup
  <2>2. Prefix(p, 0) = RootPath /\ NodeAt(t, RootPath) = RootNode
    BY PrefixSteps, NodeAtFacts
  <2>3. 1 - 1 = 0 /\ RootNode.id = RootId /\ RootNode # NoNode
    <3>1. RootNode \in Node
      BY ParameterAssumption DEF RootNode, RootId, Node, Id
    <3> QED  BY <3>1, NoNodeAssumption DEF RootNode
  <2>4. 1 \in 1 .. (Len(p) + 1) /\ 1 # Len(p) + 1
    <3>1. Len(p) \in Nat /\ Len(p) >= 1
      BY <1>3, FrontFacts, PathFacts
    <3> QED  BY <3>1
  <2>5. OutcomeRight(t, p, Walk(ca, p, 1, NodeAt(t, Prefix(p, 1 - 1)).id))
    BY <1>3, <2>2, <2>3, <2>4, WalkRight
  <2> QED  BY <2>1, <2>2, <2>3, <2>5
<1> QED  BY <1>1, <1>2, <1>3

-----------------------------------------------------------------------------
(* One caller *)

\* The control points at which the node of a call is the one its path leads to.
HasNode(k) ==
  \/ k.pc \in {"insertBlob", "created", "inserted", "touch", "kids", "replace",
               "size", "delete"}
  \/ k.op \in {"write", "unlink"} /\ k.pc = "begin"
  \/ k.op = "write" /\ k.pc \in {"commit", "committed"}

\* Those of a transaction that has not changed the tables.
Unwritten(k) ==
  \/ k.pc \in {"begun", "replace", "delete", "rollback"}
  \/ k.op = "mkdir" /\ k.pc \in {"findDir", "foundDir", "insert"}

\* Those between a change of the tables and that of the cache.
Stale(k) ==
  \/ k.pc \in {"insertBlob", "created", "inserted"}
  \/ k.op = "unlink" /\ k.pc \in {"commit", "committed"}

\* What the call k knows of the tables t is so.
CallRight(t, k) ==
  /\ k.op \notin {"rename", "unmount"} /\ k.pc # "remove"
  /\ k.pc \in {"find", "findDir"} => AskRight(t, LookedUp(k), k.i, k.dir)
  /\ k.pc \in {"found", "foundDir"} =>
       /\ k.i \in 0 .. Len(LookedUp(k)) /\ (k.i = 0 => LookedUp(k) = RootPath)
       /\ k.got = NodeAt(t, Prefix(LookedUp(k), k.i))
  /\ k.pc = "insert" =>
       /\ NodeAt(t, Parent(k.path)) # NoNode /\ NodeAt(t, Parent(k.path)).kind = "dir"
       /\ NodeAt(t, Parent(k.path)).id = k.dir
  /\ HasNode(k) => k.node # NoNode /\ k.node = NodeAt(t, k.path)
  /\ k.pc = "insertBlob" => t.blob[k.node.id] = NoBlob
  /\ k.op = "unlink" /\ k.pc \in {"kids", "begin", "delete"} => k.path # RootPath
  /\ k.op = "unlink" /\ k.pc \in {"begin", "delete"} => ChildrenOf(t, k.node.id) = {}
  /\ k.pc \in {"replace", "size"} => k.op = "write"
  /\ k.pc = "delete" => k.op = "unlink"
  /\ k.pc = "commit" => k.op \in {"mkdir", "write", "unlink"}
  /\ k.pc = "committed" => k.op \in {"write", "unlink"}
  /\ k.pc = "created" => k.op = "create"

\* The cache is right but for the path that a call has changed and not yet
\* recorded.
CacheRight(ca, t, k) ==
  /\ DOMAIN ca = Path \ {RootPath}
  /\ \A p \in Path \ {RootPath} :
       ca[p] # NoEntry /\ ~(p = k.path /\ Stale(k)) => ca[p] = NodeAt(t, p)

\* A call that has just been sent on, with nothing changed.
Fresh(t, s, k) == CallRight(t, k) /\ ~Stale(k) /\ (Unwritten(k) => t = s)

LEMMA IdleIsFresh ==
  ASSUME NEW t, NEW s
  PROVE  Fresh(t, s, Idle)
BY DEF Fresh, CallRight, HasNode, Unwritten, Stale, Idle

\* A call whose place and arguments are those of k but for its control point.
LEMMA Elsewhere ==
  ASSUME NEW k, HasFields(k), NEW pc
  PROVE  LET r == [k EXCEPT !.pc = pc]
         IN /\ HasFields(r) /\ r.pc = pc /\ r.op = k.op /\ r.path = k.path /\ r.to = k.to
            /\ r.data = k.data /\ r.i = k.i /\ r.dir = k.dir /\ r.node = k.node /\ r.got = k.got
BY DEF HasFields

LEMMA WithDirRight ==
  ASSUME NEW t \in Tables, NEW s, NEW k, CallOK(k), k.op \in {"mkdir", "create"},
         k.op = "mkdir" => t = s, NEW n, n = NodeAt(t, Parent(k.path))
  PROVE  Fresh(t, s, WithDir(k, n))
<1>1. CASE ~IsDir(n) /\ k.op = "mkdir"
  <2>1. PICK r : r = WithDir(k, n) /\ r = [k EXCEPT !.pc = "rollback"]
    BY <1>1 DEF WithDir
  <2>2. r.pc = "rollback" /\ r.op = k.op
    BY <2>1, Elsewhere DEF CallOK
  <2> QED  BY <1>1, <2>1, <2>2 DEF Fresh, CallRight, HasNode, Unwritten, Stale
<1>2. CASE ~IsDir(n) /\ k.op # "mkdir"
  BY <1>2, IdleIsFresh DEF WithDir
<1>3. CASE IsDir(n)
  <2>1. PICK r : r = WithDir(k, n) /\ r = [[k EXCEPT !.dir = n.id] EXCEPT !.pc = "insert"]
    BY <1>3 DEF WithDir, IsDir
  <2>2. r.pc = "insert" /\ r.op = k.op /\ r.path = k.path /\ r.dir = n.id
    BY <2>1 DEF CallOK, HasFields
  <2> QED  BY <1>3, <2>1, <2>2 DEF Fresh, CallRight, HasNode, Unwritten, Stale, IsDir
<1> QED  BY <1>1, <1>2, <1>3

LEMMA Asked ==
  ASSUME NEW k, HasFields(k), NEW pc, NEW o
  PROVE  LET r == AskFor(k, pc, o)
         IN /\ r.pc = pc /\ r.op = k.op /\ r.path = k.path /\ r.to = k.to
            /\ r.i = o.i /\ r.dir = o.dir
BY DEF HasFields, AskFor

LEMMA FindDirRight ==
  ASSUME NEW t \in Tables, NEW s, NEW k, CallOK(k), k.op \in {"mkdir", "create"},
         k.op = "mkdir" => t = s, NEW ca, CacheGood(ca, t)
  PROVE  Fresh(t, s, FindDir(ca, k))
<1>1. PICK p \in Path : p = Parent(k.path) /\ p = Parent(Target(k))
  BY FrontFacts DEF CallOK, Parent, Target
<1>2. PICK o : o = Lookup(ca, p) /\ OutcomeRight(t, p, o)
  BY LookupRight
<1>3. CASE o.select
  <2>1. PICK r : r = FindDir(ca, k) /\ r = AskFor(k, "findDir", o)
    BY <1>1, <1>2, <1>3 DEF FindDir
  <2>2. /\ r.pc = "findDir" /\ r.op = k.op /\ r.path = k.path /\ r.to = k.to
        /\ r.i = o.i /\ r.dir = o.dir
    BY <2>1, Asked DEF CallOK
  <2>3. LookedUp(r) = p
    BY <1>1, <2>2 DEF LookedUp, Target
  <2>4. AskRight(t, p, o.i, o.dir)
    BY <1>2, <1>3 DEF OutcomeRight
  <2> QED  BY <2>1, <2>2, <2>3, <2>4 DEF Fresh, CallRight, HasNode, Unwritten, Stale
<1>4. CASE ~o.select
  <2>1. FindDir(ca, k) = WithDir(k, o.node)
    BY <1>1, <1>2, <1>4 DEF FindDir
  <2>2. o.node = NodeAt(t, Parent(k.path))
    BY <1>1, <1>2, <1>4 DEF OutcomeRight
  <2> QED  BY <2>1, <2>2, WithDirRight
<1> QED  BY <1>3, <1>4

LEMMA WithNodeRight ==
  ASSUME NEW t \in Tables, NEW s, NEW k, CallOK(k), k.op \notin {"mkdir", "rename", "unmount"},
         NEW ca, CacheGood(ca, t), NEW n, n = NodeAt(t, k.path)
  PROVE  Fresh(t, s, WithNode(ca, k, n))
<1>1. PICK k2 : k2 = [k EXCEPT !.node = n]
  OBVIOUS
<1>2. /\ HasFields(k2) /\ k2.op = k.op /\ k2.path = k.path /\ k2.to = k.to
      /\ k2.data = k.data /\ k2.pc = k.pc /\ k2.node = n
  BY <1>1 DEF CallOK, HasFields
<1>3. CallOK(k2)
  BY <1>2 DEF CallOK
<1>4. \/ WithNode(ca, k, n) = FindDir(ca, k2) /\ k.op = "create"
      \/ WithNode(ca, k, n) = [k2 EXCEPT !.pc = "touch"] /\ n # NoNode
      \/ WithNode(ca, k, n) = [k2 EXCEPT !.pc = "begin"] /\ k.op = "write" /\ n # NoNode
      \/ /\ WithNode(ca, k, n) = [k2 EXCEPT !.pc = "kids"] /\ k.op = "unlink"
         /\ n # NoNode /\ k.path # RootPath
      \/ WithNode(ca, k, n) = Idle
  <2>1. PICK found : found = FindDir(ca, k2)
    OBVIOUS
  <2>2. WithNode(ca, k, n) =
          CASE k.op = "create" /\ n = NoNode -> found
            [] k.op \in {"open", "create", "read"} /\ IsFile(n) -> [k2 EXCEPT !.pc = "touch"]
            [] k.op = "write" /\ IsFile(n) -> [k2 EXCEPT !.pc = "begin"]
            [] k.op = "unlink" /\ n # NoNode /\ k.path # RootPath -> [k2 EXCEPT !.pc = "kids"]
            [] k.op = "rename" /\ n # NoNode -> found
            [] k.op = "unmount" /\ n # NoNode -> [k2 EXCEPT !.pc = "begin"]
            [] OTHER -> Idle
    BY <1>1, <2>1 DEF WithNode
  <2> QED  BY <2>1, <2>2 DEF IsFile
<1>5. CASE WithNode(ca, k, n) = FindDir(ca, k2) /\ k.op = "create"
  BY <1>2, <1>3, <1>5, FindDirRight
<1>6. CASE WithNode(ca, k, n) = [k2 EXCEPT !.pc = "touch"] /\ n # NoNode
  <2>1. PICK r : r = WithNode(ca, k, n) /\ r = [k2 EXCEPT !.pc = "touch"]
    BY <1>6
  <2>2. r.pc = "touch" /\ r.op = k.op /\ r.path = k.path /\ r.node = n
    BY <1>2, <2>1, Elsewhere
  <2> QED  BY <1>6, <2>1, <2>2 DEF Fresh, CallRight, HasNode, Unwritten, Stale
<1>7. CASE WithNode(ca, k, n) = [k2 EXCEPT !.pc = "begin"] /\ k.op = "write" /\ n # NoNode
  <2>1. PICK r : r = WithNode(ca, k, n) /\ r = [k2 EXCEPT !.pc = "begin"]
    BY <1>7
  <2>2. r.pc = "begin" /\ r.op = k.op /\ r.path = k.path /\ r.node = n
    BY <1>2, <2>1, Elsewhere
  <2> QED  BY <1>7, <2>1, <2>2 DEF Fresh, CallRight, HasNode, Unwritten, Stale
<1>8. CASE /\ WithNode(ca, k, n) = [k2 EXCEPT !.pc = "kids"] /\ k.op = "unlink"
           /\ n # NoNode /\ k.path # RootPath
  <2>1. PICK r : r = WithNode(ca, k, n) /\ r = [k2 EXCEPT !.pc = "kids"]
    BY <1>8
  <2>2. r.pc = "kids" /\ r.op = k.op /\ r.path = k.path /\ r.node = n
    BY <1>2, <2>1, Elsewhere
  <2> QED  BY <1>8, <2>1, <2>2 DEF Fresh, CallRight, HasNode, Unwritten, Stale
<1>9. CASE WithNode(ca, k, n) = Idle
  BY <1>9, IdleIsFresh
<1> QED  BY <1>4, <1>5, <1>6, <1>7, <1>8, <1>9

LEMMA FindRight ==
  ASSUME NEW t \in Tables, NEW s, NEW k, CallOK(k), k.op \notin {"mkdir", "rename", "unmount"},
         NEW ca, CacheGood(ca, t)
  PROVE  Fresh(t, s, Find(ca, k))
<1>1. PICK p \in Path : p = k.path
  BY DEF CallOK
<1>2. PICK o : o = Lookup(ca, p) /\ OutcomeRight(t, p, o)
  BY LookupRight
<1>3. CASE o.select
  <2>1. PICK r : r = Find(ca, k) /\ r = AskFor(k, "find", o)
    BY <1>1, <1>2, <1>3 DEF Find
  <2>2. /\ r.pc = "find" /\ r.op = k.op /\ r.path = k.path /\ r.to = k.to
        /\ r.i = o.i /\ r.dir = o.dir
    BY <2>1, Asked DEF CallOK
  <2>3. LookedUp(r) = p
    BY <1>1, <2>2 DEF LookedUp
  <2>4. AskRight(t, p, o.i, o.dir)
    BY <1>2, <1>3 DEF OutcomeRight
  <2> QED  BY <2>1, <2>2, <2>3, <2>4 DEF Fresh, CallRight, HasNode, Unwritten, Stale
<1>4. CASE ~o.select
  <2>1. Find(ca, k) = WithNode(ca, k, o.node)
    BY <1>1, <1>2, <1>4 DEF Find
  <2>2. o.node = NodeAt(t, k.path)
    BY <1>1, <1>2, <1>4 DEF OutcomeRight
  <2> QED  BY <2>1, <2>2, WithNodeRight
<1> QED  BY <1>3, <1>4

\* The inductive invariant, for a single caller that neither renames nor
\* unmounts.
SInv ==
  /\ Tree(db) /\ Tree(saved)
  /\ tx = NoCaller => db = saved
  /\ \A c \in Caller : /\ CallRight(db, call[c])
                       /\ Unwritten(call[c]) => db = saved
                       /\ CacheRight(cache, db, call[c])

\* One caller, for whom the tree and the cache are right.  A second
\* caller leaves stale answers in the cache and can insert below an id that was
\* freed and given to a file; a rename or an unmount leaves what lies below the
\* path in the cache.
Sequential ==
  /\ \E c : Caller = {c}
  /\ Ops \cap {"rename", "unmount"} = {}

LEMMA GoodIsRight ==
  ASSUME NEW ca, NEW t, NEW k
  PROVE  /\ CacheGood(ca, t) => CacheRight(ca, t, k)
         /\ ~Stale(k) /\ CacheRight(ca, t, k) => CacheGood(ca, t)
BY DEF CacheGood, CacheRight

\* The call of the one caller, after a step.
LEMMA OneStep ==
  ASSUME NEW c \in Caller, Caller = {c}, IInv, NEW k, call' = [call EXCEPT ![c] = k],
         Tree(db'), Tree(saved'), tx' = NoCaller => db' = saved',
         CallRight(db', k), Unwritten(k) => db' = saved', CacheRight(cache', db', k)
  PROVE  SInv'
<1>1. \A e \in Caller : call'[e] = k
  BY DEF IInv, Typed
<1> QED  BY <1>1 DEF SInv

\* A step that leaves the tables alone.
LEMMA FreshStep ==
  ASSUME NEW c \in Caller, Caller = {c}, IInv, SInv, NEW k, call' = [call EXCEPT ![c] = k],
         UNCHANGED <<db, saved>>, tx' = tx \/ db = saved,
         Fresh(db, saved, k), CacheGood(cache', db)
  PROVE  SInv'
<1>1. Tree(db') /\ Tree(saved') /\ (tx' = NoCaller => db' = saved')
  BY DEF SInv
<1>2. CallRight(db', k) /\ (Unwritten(k) => db' = saved')
  BY DEF Fresh
<1>3. CacheRight(cache', db', k)
  BY GoodIsRight
<1> QED  BY <1>1, <1>2, <1>3, OneStep

\* One that changes them.
LEMMA ChangeStep ==
  ASSUME NEW c \in Caller, Caller = {c}, IInv, SInv, NEW k, call' = [call EXCEPT ![c] = k],
         NEW u, Tree(u), Change(u), UNCHANGED tx,
         CallRight(u, k), ~Unwritten(k), CacheRight(cache', u, k)
  PROVE  SInv'
<1>1. db' = u /\ saved' = IF tx = NoCaller THEN u ELSE saved
  BY DEF Change
<1>2. Tree(db') /\ Tree(saved') /\ (tx' = NoCaller => db' = saved')
  BY <1>1 DEF SInv
<1>3. CallRight(db', k) /\ CacheRight(cache', db', k)
  BY <1>1
<1> QED  BY <1>2, <1>3, OneStep

LEMMA OneInit == Init => SInv
<1> SUFFICES ASSUME Init PROVE SInv
  OBVIOUS
<1>1. \A x \in Id : db.ino[x] = NoInode
  BY DEF Init
<1>2. RootId \in Id
  BY ParameterAssumption DEF RootId, Id
<1>3. Tree(db) /\ saved = db
  BY <1>1, <1>2 DEF Tree, Init
<1>4. \A c \in Caller : call[c] = Idle
  BY DEF Init
<1>5. CacheGood(cache, db)
  BY DEF CacheGood, Init
<1>6. ASSUME NEW c \in Caller
      PROVE  /\ CallRight(db, call[c]) /\ (Unwritten(call[c]) => db = saved)
             /\ CacheRight(cache, db, call[c])
  BY <1>3, <1>4, <1>5, GoodIsRight, IdleIsFresh DEF Fresh
<1> QED  BY <1>3, <1>6 DEF SInv

\* What the invariants say of the one call.
LEMMA TheCall ==
  ASSUME NEW c \in Caller, Caller = {c}, IInv, SInv
  PROVE  /\ db \in Tables /\ saved \in Tables /\ CallOK(call[c]) /\ HasFields(call[c])
         /\ CallRight(db, call[c]) /\ CacheRight(cache, db, call[c])
         /\ Unwritten(call[c]) => db = saved
         /\ ~Stale(call[c]) => CacheGood(cache, db)
         /\ call[c].path \in Path /\ c # NoCaller
BY GoodIsRight, ParameterAssumption DEF IInv, Typed, SInv, CallOK

LEMMA OneCall ==
  ASSUME NEW c \in Caller, Caller = {c}, IInv, SInv,
         NEW op, op \notin {"rename", "unmount"}, NEW path \in Path, NEW to \in Path,
         NEW data \in Content, Call(c, op, path, to, data)
  PROVE  SInv'
<1>1. PICK k : k = [Idle EXCEPT !.op = op, !.path = path, !.to = to, !.data = data]
  OBVIOUS
<1>2. PICK r : /\ r = IF op = "mkdir" THEN [k EXCEPT !.pc = "begin"] ELSE Find(cache, k)
               /\ call' = [call EXCEPT ![c] = r]
  BY <1>1 DEF Call
<1>3. call[c] = Idle /\ UNCHANGED <<db, saved, tx, cache>>
  BY DEF Call
<1>4. ~Stale(Idle)
  BY DEF Stale, Idle
<1>5. CacheGood(cache, db) /\ db \in Tables
  BY <1>3, <1>4, TheCall
<1>6. HasFields(k) /\ k.op = op /\ k.path = path /\ k.to = to /\ k.data = data /\ k.pc = "idle"
  <2>1. HasFields(Idle) /\ Idle.pc = "idle"
    BY IdleIsOK DEF CallOK, Idle
  <2> QED  BY <1>1, <2>1 DEF HasFields
<1>7. CallOK(k)
  <2>1. /\ op \in {"mkdir", "create"} => path # RootPath
        /\ op = "rename" => to # RootPath
    BY DEF Call
  <2> QED  BY <1>6, <2>1 DEF CallOK
<1>8. Fresh(db, saved, r)
  <2>1. CASE op = "mkdir"
    <3>1. r.pc = "begin" /\ r.op = "mkdir"
      BY <1>2, <1>6, <2>1, Elsewhere
    <3> QED  BY <3>1 DEF Fresh, CallRight, HasNode, Unwritten, Stale
  <2>2. CASE op # "mkdir"
    BY <1>2, <1>5, <1>6, <1>7, <2>2, FindRight
  <2> QED  BY <2>1, <2>2
<1> QED  BY <1>2, <1>3, <1>5, <1>8, FreshStep

\* The component that a reply was about.
LEMMA OneSelect ==
  ASSUME NEW c \in Caller, Caller = {c}, IInv, SInv, SelectStep(c)
  PROVE  SInv'
<1>1. PICK k : k = call[c]
  OBVIOUS
<1>2. PICK p : p = LookedUp(k)
  OBVIOUS
<1>3. PICK n : n = IF k.i = 0 THEN RootNode ELSE Select(db, k.dir, p[k.i])
  OBVIOUS
<1>4. PICK r : /\ r = [k EXCEPT !.got = n, !.pc = IF k.pc = "find" THEN "found" ELSE "foundDir"]
               /\ call' = [call EXCEPT ![c] = r]
  BY <1>1, <1>2, <1>3 DEF SelectStep, Continue
<1>5. k.pc \in {"find", "findDir"} /\ UNCHANGED <<db, saved, tx, cache>>
  BY <1>1 DEF SelectStep, At
<1>6. CallOK(k) /\ HasFields(k) /\ db \in Tables /\ CallRight(db, k)
      /\ (Unwritten(k) => db = saved)
  BY <1>1, TheCall
<1>7. CacheGood(cache, db)
  BY <1>1, <1>5, <1>6, TheCall DEF Stale, CallRight
<1>8. p \in Path /\ AskRight(db, p, k.i, k.dir)
  BY <1>2, <1>5, <1>6, FrontFacts DEF CallRight, LookedUp, Parent, Target, CallOK
<1>9. n = NodeAt(db, Prefix(p, k.i))
  <2>1. CASE k.i = 0
    <3>1. Prefix(p, 0) = RootPath /\ NodeAt(db, RootPath) = RootNode
      BY <1>6, <1>8, PrefixSteps, NodeAtFacts
    <3> QED  BY <1>3, <2>1, <3>1
  <2>2. CASE k.i # 0
    <3>1. k.i \in 1 .. Len(p) /\ k.i \in 0 .. Len(p)
      <4>1. Len(p) \in Nat
        BY <1>8, PathFacts
      <4> QED  BY <1>8, <2>2, <4>1 DEF AskRight
    <3>2. PICK q \in Path : q = Prefix(p, k.i)
      BY <1>8, <3>1, PrefixFacts
    <3>3. q # RootPath /\ Front(q) = Prefix(p, k.i - 1) /\ Last(q) = p[k.i]
      BY <1>8, <3>1, <3>2, PrefixSteps
    <3>4. NodeAt(db, q) = Further(db, NodeAt(db, Prefix(p, k.i - 1)), p[k.i])
      BY <1>6, <3>3, NodeAtFacts
    <3>5. NodeAt(db, Prefix(p, k.i - 1)) # NoNode /\ k.dir = NodeAt(db, Prefix(p, k.i - 1)).id
      BY <1>8, <2>2 DEF AskRight
    <3> QED  BY <1>3, <2>2, <3>2, <3>4, <3>5 DEF Further
  <2> QED  BY <2>1, <2>2
<1>10. /\ r.op = k.op /\ r.path = k.path /\ r.to = k.to /\ r.i = k.i /\ r.got = n
       /\ r.pc = IF k.pc = "find" THEN "found" ELSE "foundDir"
  BY <1>4, <1>6 DEF HasFields
<1>11. LookedUp(r) = p
  BY <1>2, <1>5, <1>10 DEF LookedUp, Target
<1>12. k.i \in 0 .. Len(p) /\ (k.i = 0 => p = RootPath)
  BY <1>8 DEF AskRight
<1>13. Fresh(db, saved, r)
  BY <1>5, <1>6, <1>9, <1>10, <1>11, <1>12
     DEF Fresh, CallRight, HasNode, Unwritten, Stale
<1> QED  BY <1>4, <1>5, <1>7, <1>13, FreshStep

LEMMA OneSelected ==
  ASSUME NEW c \in Caller, Caller = {c}, IInv, SInv, Selected(c)
  PROVE  SInv'
<1>1. PICK k : k = call[c]
  OBVIOUS
<1>2. PICK p : p = LookedUp(k)
  OBVIOUS
<1>3. PICK ca : ca = IF k.i = 0 THEN cache ELSE [cache EXCEPT ![Prefix(p, k.i)] = k.got]
  OBVIOUS
<1>4. PICK o : o = IF k.i = 0 \/ k.got = NoNode THEN Found(k.got)
                                                ELSE Walk(ca, p, k.i + 1, k.got.id)
  OBVIOUS
<1>5. PICK r : /\ r = IF o.select
                        THEN AskFor(k, IF k.pc = "found" THEN "find" ELSE "findDir", o)
                        ELSE IF k.pc = "found" THEN WithNode(ca, k, o.node)
                                               ELSE WithDir(k, o.node)
               /\ call' = [call EXCEPT ![c] = r] /\ cache' = ca
  BY <1>1, <1>2, <1>3, <1>4 DEF Selected, Continue
<1>6. k.pc \in {"found", "foundDir"} /\ UNCHANGED <<db, saved, tx>>
  BY <1>1 DEF Selected, At
<1>7. CallOK(k) /\ HasFields(k) /\ db \in Tables /\ CallRight(db, k)
      /\ (Unwritten(k) => db = saved)
  BY <1>1, TheCall
<1>8. CacheGood(cache, db)
  BY <1>1, <1>6, <1>7, TheCall DEF Stale, CallRight
<1>9. /\ p \in Path /\ k.i \in 0 .. Len(p) /\ (k.i = 0 => p = RootPath)
      /\ k.got = NodeAt(db, Prefix(p, k.i))
      /\ p = IF k.pc = "found" THEN k.path ELSE Parent(k.path)
      /\ k.pc = "foundDir" => k.op \in {"mkdir", "create"}
      /\ k.pc = "found" => k.op \notin {"mkdir", "rename", "unmount"}
  <2>1. p = IF k.pc = "found" THEN k.path ELSE Parent(k.path)
    BY <1>2, <1>6, <1>7 DEF CallRight, LookedUp, Target
  <2>2. p \in Path
    BY <1>7, <2>1, FrontFacts DEF Parent, CallOK
  <2>3. /\ k.i \in 0 .. Len(p) /\ (k.i = 0 => p = RootPath)
        /\ k.got = NodeAt(db, Prefix(p, k.i))
    BY <1>2, <1>6, <1>7 DEF CallRight
  <2> QED  BY <1>6, <1>7, <2>1, <2>2, <2>3 DEF CallRight, CallOK
<1>10. CacheGood(ca, db)
  <2>1. ASSUME NEW q \in Path \ {RootPath}, ca[q] # NoEntry PROVE ca[q] = NodeAt(db, q)
    BY <1>3, <1>8, <1>9, <2>1 DEF CacheGood
  <2> QED  BY <1>3, <1>8, <2>1 DEF CacheGood
<1>11. OutcomeRight(db, p, o)
  <2>1. CASE k.i = 0
    <3>1. k.got = NodeAt(db, p)
      BY <1>9, <2>1, PrefixSteps
    <3> QED  BY <1>4, <2>1, <3>1 DEF OutcomeRight, Found
  <2>2. CASE k.i # 0 /\ k.got = NoNode
    <3>1. NodeAt(db, p) = NoNode
      BY <1>7, <1>9, <2>2, NothingBelow
    <3> QED  BY <1>4, <2>2, <3>1 DEF OutcomeRight, Found
  <2>3. CASE k.i # 0 /\ k.got # NoNode
    <3>1. PICK i : i = k.i + 1
      OBVIOUS
    <3>2. Len(p) \in Nat /\ k.i \in Nat
      BY <1>9, PathFacts
    <3>3. i \in 1 .. (Len(p) + 1) /\ i - 1 = k.i /\ k.i >= 1
      BY <1>9, <2>3, <3>1, <3>2
    <3>4. p # RootPath
      BY <1>9, <3>2, <3>3 DEF RootPath
    <3>5. ASSUME i = Len(p) + 1 PROVE ca[p] \in Node
      <4>1. k.i = Len(p) /\ Prefix(p, k.i) = p
        BY <1>9, <3>1, <3>2, <3>5, PrefixSteps
      <4>2. ca[p] = k.got
        BY <1>3, <1>8, <1>9, <2>3, <3>4, <4>1 DEF CacheGood
      <4>3. k.got \in Node \cup {NoNode}
        BY <1>7, <1>9, <4>1, NodeAtFacts
      <4> QED  BY <2>3, <4>2, <4>3
    <3>6. OutcomeRight(db, p, Walk(ca, p, i, NodeAt(db, Prefix(p, i - 1)).id))
      BY <1>7, <1>9, <1>10, <2>3, <3>3, <3>4, <3>5, WalkRight
    <3> QED  BY <1>4, <1>9, <2>3, <3>1, <3>3, <3>6
  <2> QED  BY <2>1, <2>2, <2>3
<1>12. k.op = "mkdir" => db = saved
  BY <1>6, <1>7 DEF Unwritten, CallOK
<1>13. Fresh(db, saved, r)
  <2>1. CASE o.select
    <3>1. PICK pc : pc = IF k.pc = "found" THEN "find" ELSE "findDir"
      OBVIOUS
    <3>2. r = AskFor(k, pc, o)
      BY <1>5, <2>1, <3>1
    <3>3. /\ r.pc = pc /\ r.op = k.op /\ r.path = k.path /\ r.to = k.to
          /\ r.i = o.i /\ r.dir = o.dir
      BY <1>7, <3>2, Asked
    <3>4. LookedUp(r) = p
      BY <1>2, <1>6, <3>1, <3>3 DEF LookedUp, Target
    <3>5. AskRight(db, p, o.i, o.dir)
      BY <1>11, <2>1 DEF OutcomeRight
    <3>6. pc \in {"find", "findDir"} /\ k.op \notin {"rename", "unmount"}
      BY <1>6, <1>7, <3>1 DEF CallRight
    <3> QED  BY <1>12, <3>3, <3>4, <3>5, <3>6 DEF Fresh, CallRight, HasNode, Unwritten, Stale
  <2>2. CASE ~o.select /\ k.pc = "found"
    <3>1. r = WithNode(ca, k, o.node) /\ o.node = NodeAt(db, k.path)
      BY <1>5, <1>9, <1>11, <2>2 DEF OutcomeRight
    <3> QED  BY <1>7, <1>9, <1>10, <2>2, <3>1, WithNodeRight
  <2>3. CASE ~o.select /\ k.pc = "foundDir"
    <3>1. r = WithDir(k, o.node) /\ o.node = NodeAt(db, Parent(k.path))
      BY <1>5, <1>9, <1>11, <2>3 DEF OutcomeRight
    <3> QED  BY <1>7, <1>9, <1>12, <2>3, <3>1, WithDirRight
  <2> QED  BY <1>6, <2>1, <2>2, <2>3
<1> QED  BY <1>5, <1>6, <1>10, <1>13, FreshStep

\* The step of a call to another control point, with nothing else changed.
LEMMA OneGoTo ==
  ASSUME NEW c \in Caller, Caller = {c}, IInv, SInv, NEW pc,
         GoTo(c, pc), UNCHANGED <<db, saved>>, tx' = tx \/ db = saved,
         Fresh(db, saved, [call[c] EXCEPT !.pc = pc]), CacheGood(cache', db)
  PROVE  SInv'
<1>1. PICK r : r = [call[c] EXCEPT !.pc = pc]
  OBVIOUS
<1>2. call' = [call EXCEPT ![c] = r]
  BY <1>1 DEF GoTo, Continue
<1> QED  BY <1>1, <1>2, FreshStep

LEMMA OneReturn ==
  ASSUME NEW c \in Caller, Caller = {c}, IInv, SInv, Return(c), UNCHANGED <<db, saved>>,
         tx' = tx \/ db = saved, CacheGood(cache', db)
  PROVE  SInv'
BY IdleIsFresh, FreshStep DEF Return, Continue

LEMMA OneBegin ==
  ASSUME NEW c \in Caller, Caller = {c}, IInv, SInv, Begin(c)
  PROVE  SInv'
<1>1. PICK k : k = call[c]
  OBVIOUS
<1>2. k.pc = "begin" /\ UNCHANGED <<db, saved, cache>>
  BY <1>1 DEF Begin, At
<1>3. CallOK(k) /\ HasFields(k) /\ CallRight(db, k)
  BY <1>1, TheCall
<1>4. CacheGood(cache, db)
  BY <1>1, <1>2, TheCall DEF Stale
<1>5. CASE tx = NoCaller
  <2>1. db = saved
    BY <1>5 DEF SInv
  <2>2. PICK pc : /\ GoTo(c, pc)
                  /\ pc = CASE k.op = "mkdir" -> "begun"
                            [] k.op = "write" -> "replace"
                            [] k.op = "unlink" -> "delete"
                            [] k.op = "rename" -> "move"
                            [] k.op = "unmount" -> "remove"
    BY <1>1, <1>5 DEF Begin
  <2>3. \/ k.op = "mkdir" /\ pc = "begun"
        \/ k.op = "write" /\ pc = "replace"
        \/ k.op = "unlink" /\ pc = "delete"
    BY <1>2, <1>3, <2>2 DEF CallOK, CallRight
  <2>4. PICK r : r = [k EXCEPT !.pc = pc]
    OBVIOUS
  <2>5. /\ r.pc = pc /\ r.op = k.op /\ r.path = k.path /\ r.node = k.node
    BY <1>3, <2>4, Elsewhere
  <2>6. CallRight(db, r)
    BY <1>2, <1>3, <2>3, <2>5 DEF CallRight, HasNode
  <2>7. Fresh(db, saved, r)
    BY <2>1, <2>3, <2>5, <2>6 DEF Fresh, Stale
  <2> QED  BY <1>1, <1>2, <1>4, <2>1, <2>2, <2>4, <2>7, OneGoTo
<1>6. CASE tx # NoCaller
  <2>1. Return(c) /\ tx' = tx
    BY <1>6 DEF Begin
  <2> QED  BY <1>2, <1>4, <2>1, OneReturn
<1> QED  BY <1>5, <1>6

LEMMA OneBegun ==
  ASSUME NEW c \in Caller, Caller = {c}, IInv, SInv, Begun(c)
  PROVE  SInv'
<1>1. PICK k : k = call[c]
  OBVIOUS
<1>2. PICK r : r = FindDir(cache, k) /\ call' = [call EXCEPT ![c] = r]
  BY <1>1 DEF Begun, Continue
<1>3. k.pc = "begun" /\ UNCHANGED <<db, saved, tx, cache>>
  BY <1>1 DEF Begun, At
<1>4. CallOK(k) /\ db \in Tables /\ k.op = "mkdir" /\ db = saved
  BY <1>1, <1>3, TheCall DEF CallOK, Unwritten
<1>5. CacheGood(cache, db)
  BY <1>1, <1>3, <1>4, TheCall DEF Stale
<1>6. Fresh(db, saved, r)
  BY <1>2, <1>4, <1>5, FindDirRight
<1> QED  BY <1>2, <1>3, <1>5, <1>6, FreshStep

LEMMA OneInsert ==
  ASSUME NEW c \in Caller, Caller = {c}, IInv, SInv, InsertStep(c)
  PROVE  SInv'
<1>1. PICK k : k = call[c]
  OBVIOUS
<1>2. PICK p : p = k.path
  OBVIOUS
<1>3. k.pc = "insert" /\ UNCHANGED <<tx, cache>>
  BY <1>1 DEF InsertStep, At
<1>4. /\ CallOK(k) /\ HasFields(k) /\ CallRight(db, k) /\ db \in Tables
      /\ k.op \in {"mkdir", "create"} /\ p \in Path \ {RootPath} /\ Tree(db) /\ DataHasInode(db)
      /\ k.op = "mkdir" => db = saved
  BY <1>1, <1>2, <1>3, TheCall DEF CallOK, Unwritten, SInv, IInv
<1>5. CacheGood(cache, db)
  BY <1>1, <1>3, <1>4, TheCall DEF Stale
<1>6. PICK kind \in {"dir", "file"} : kind = IF k.op = "mkdir" THEN "dir" ELSE "file"
  OBVIOUS
<1>7. PICK new : new = [id |-> NextId(db), kind |-> kind]
  OBVIOUS
<1>8. PICK n \in Name : n = Last(p)
  BY <1>4, LastIsName
<1>9. CASE CanInsert(db, k.dir, n)
  <2>1. PICK u : u = Insert(db, k.dir, n, kind) /\ Change(u)
    BY <1>1, <1>2, <1>6, <1>8, <1>9 DEF InsertStep
  <2>2. PICK r : /\ r = [k EXCEPT !.node = new,
                                  !.pc = IF k.op = "mkdir" THEN "inserted" ELSE "insertBlob"]
                 /\ call' = [call EXCEPT ![c] = r]
    BY <1>1, <1>2, <1>6, <1>7, <1>8, <1>9 DEF InsertStep, Continue
  <2>3. /\ NodeAt(db, Front(p)) # NoNode /\ NodeAt(db, Front(p)).kind = "dir"
        /\ NodeAt(db, Front(p)).id = k.dir
    BY <1>2, <1>3, <1>4, FrontFacts DEF CallRight
  <2>4. NodeOf(db, k.dir).kind = "dir"
    <3>1. Front(p) \in Path
      BY <1>4, FrontFacts
    <3>2. NodeAt(db, Front(p)) = NodeOf(db, k.dir)
      BY <1>4, <2>3, <3>1, Led
    <3> QED  BY <2>3, <3>2
  <2>5. /\ Tree(u) /\ new \in Node /\ NextId(db) \in Live(u) /\ u.blob = db.blob
        /\ \A q \in Path : NodeAt(u, q) = IF q = p THEN new ELSE NodeAt(db, q)
    <3>1. Added(db, u, p, new)
      BY <1>4, <1>7, <1>8, <1>9, <2>1, <2>3, <2>4, InsertTree
    <3> QED  BY <1>7, <3>1 DEF Added
  <2>6. /\ r.op = k.op /\ r.path = p /\ r.node = new
        /\ r.pc = IF k.op = "mkdir" THEN "inserted" ELSE "insertBlob"
    BY <1>2, <1>4, <2>2 DEF HasFields
  <2>7. u.blob[new.id] = NoBlob
    <3>1. NextId(db) \in Id
      BY <1>9 DEF CanInsert
    <3>2. NextId(db) \notin Live(db)
      BY <1>4, <3>1, NextIdIsFree
    <3> QED  BY <1>4, <1>7, <2>5, <3>1, <3>2 DEF DataHasInode
  <2>8. NodeAt(u, p) = new /\ new # NoNode
    BY <1>4, <2>5, NoNodeAssumption
  <2>9. CallRight(u, r)
    BY <1>4, <2>6, <2>7, <2>8 DEF CallRight, HasNode
  <2>10. ~Unwritten(r) /\ Stale(r)
    BY <1>4, <2>6 DEF Unwritten, Stale
  <2>11. CacheRight(cache', u, r)
    BY <1>3, <1>5, <2>5, <2>6, <2>10 DEF CacheRight, CacheGood
  <2> QED  BY <1>3, <2>1, <2>2, <2>5, <2>9, <2>10, <2>11, ChangeStep
<1>10. CASE ~CanInsert(db, k.dir, n) /\ k.op = "mkdir"
  <2>1. GoTo(c, "rollback") /\ UNCHANGED <<db, saved>>
    BY <1>1, <1>2, <1>8, <1>10 DEF InsertStep
  <2>2. PICK r : r = [k EXCEPT !.pc = "rollback"]
    OBVIOUS
  <2>3. r.pc = "rollback" /\ r.op = "mkdir"
    BY <1>4, <1>10, <2>2, Elsewhere
  <2>4. Fresh(db, saved, r)
    BY <1>4, <1>10, <2>3 DEF Fresh, CallRight, HasNode, Stale
  <2> QED  BY <1>1, <1>3, <1>5, <2>1, <2>2, <2>4, OneGoTo
<1>11. CASE ~CanInsert(db, k.dir, n) /\ k.op # "mkdir"
  <2>1. Return(c) /\ UNCHANGED <<db, saved>>
    BY <1>1, <1>2, <1>8, <1>11 DEF InsertStep
  <2> QED  BY <1>3, <1>5, <2>1, OneReturn
<1> QED  BY <1>9, <1>10, <1>11

\* The inode of the node that a call has.
LEMMA TheNode ==
  ASSUME NEW c \in Caller, Caller = {c}, IInv, SInv, HasNode(call[c])
  PROVE  /\ call[c].node # NoNode /\ call[c].node = NodeAt(db, call[c].path)
         /\ call[c].node.id \in Live(db) /\ call[c].node.id \in Id
         /\ call[c].path # RootPath <=> call[c].node.id # RootId
<1>1. call[c].node # NoNode /\ call[c].node = NodeAt(db, call[c].path)
  BY TheCall DEF CallRight
<1>2. call[c].path \in Path /\ db \in Tables /\ Tree(db)
  BY TheCall DEF SInv
<1> QED  BY <1>1, <1>2, Led DEF Live

\* A statement of a call that leaves parents, names and kinds alone.
LEMMA SameRowsStep ==
  ASSUME NEW c \in Caller, Caller = {c}, IInv, SInv, HasNode(call[c]), call[c].op # "unlink",
         call[c].op \notin {"rename", "unmount"},
         NEW u \in Tables, SameRows(db, u), Change(u), UNCHANGED <<tx, cache>>, NEW pc,
         GoTo(c, pc), Stale(call[c]) => pc = "created",
         \/ pc = "created" /\ call[c].op = "create"
         \/ pc \in {"size", "commit"} /\ call[c].op = "write"
  PROVE  SInv'
<1>1. PICK k : k = call[c]
  OBVIOUS
<1>2. PICK r : r = [k EXCEPT !.pc = pc] /\ call' = [call EXCEPT ![c] = r]
  BY <1>1 DEF GoTo, Continue
<1>3. db \in Tables /\ HasFields(k) /\ CacheRight(cache, db, k) /\ Tree(db) /\ k.path \in Path
  BY <1>1, TheCall DEF SInv
<1>4. r.op = k.op /\ r.path = k.path /\ r.pc = pc /\ r.node = k.node
  BY <1>2, <1>3, Elsewhere
<1>5. Tree(u) /\ \A p \in Path : NodeAt(u, p) = NodeAt(db, p)
  BY <1>3, SameRowsResult
<1>6. k.node # NoNode /\ k.node = NodeAt(u, k.path)
  BY <1>1, <1>3, <1>5, TheNode
<1>7. CallRight(u, r) /\ ~Unwritten(r)
  BY <1>1, <1>4, <1>6 DEF CallRight, HasNode, Unwritten
<1>8. Stale(k) => Stale(r)
  BY <1>1, <1>4 DEF Stale
<1>9. CacheRight(cache', u, r)
  BY <1>3, <1>4, <1>5, <1>8 DEF CacheRight
<1> QED  BY <1>2, <1>5, <1>7, <1>9, ChangeStep

LEMMA OneInsertBlob ==
  ASSUME NEW c \in Caller, Caller = {c}, IInv, SInv, InsertBlob(c)
  PROVE  SInv'
<1>1. PICK x : x = call[c].node.id
  OBVIOUS
<1>2. call[c].pc = "insertBlob" /\ UNCHANGED <<tx, cache>>
  BY DEF InsertBlob, At
<1>3. HasNode(call[c]) /\ db.blob[x] = NoBlob /\ call[c].op = "create" /\ db \in Tables
  BY <1>1, <1>2, TheCall DEF HasNode, CallRight, CallOK
<1>4. x \in Live(db) /\ x \in Id
  BY <1>1, <1>3, TheNode
<1>5. PICK u : u = [db EXCEPT !.blob[x] = Empty]
  OBVIOUS
<1>6. Change(u) /\ GoTo(c, "created")
  BY <1>1, <1>3, <1>4, <1>5 DEF InsertBlob
<1>7. u \in Tables /\ u.ino = db.ino
  BY <1>3, <1>4, <1>5, ParameterAssumption DEF Tables
<1>8. SameRows(db, u)
  BY <1>7 DEF SameRows
<1> QED  BY <1>2, <1>3, <1>6, <1>7, <1>8, SameRowsStep

LEMMA OneReplace ==
  ASSUME NEW c \in Caller, Caller = {c}, IInv, SInv, Replace(c)
  PROVE  SInv'
<1>1. PICK x : x = call[c].node.id
  OBVIOUS
<1>2. call[c].pc = "replace" /\ UNCHANGED <<tx, cache>>
  BY DEF Replace, At
<1>3. HasNode(call[c]) /\ call[c].op = "write" /\ db \in Tables /\ call[c].data \in Content
  BY <1>2, TheCall DEF HasNode, CallRight, CallOK
<1>4. x \in Live(db) /\ x \in Id
  BY <1>1, <1>3, TheNode
<1>5. PICK u : u = [db EXCEPT !.blob[x] = call[c].data]
  OBVIOUS
<1>6. Change(u) /\ GoTo(c, "size")
  BY <1>1, <1>4, <1>5 DEF Replace
<1>7. u \in Tables /\ u.ino = db.ino
  BY <1>3, <1>4, <1>5 DEF Tables
<1>8. SameRows(db, u)
  BY <1>7 DEF SameRows
<1>9. ~Stale(call[c])
  BY <1>2, <1>3 DEF Stale
<1> QED  BY <1>2, <1>3, <1>6, <1>7, <1>8, <1>9, SameRowsStep

LEMMA OneSize ==
  ASSUME NEW c \in Caller, Caller = {c}, IInv, SInv, Size(c)
  PROVE  SInv'
<1>1. PICK x : x = call[c].node.id
  OBVIOUS
<1>2. call[c].pc = "size" /\ UNCHANGED <<tx, cache>> /\ GoTo(c, "commit")
  BY DEF Size, At
<1>3. HasNode(call[c]) /\ call[c].op = "write" /\ db \in Tables /\ call[c].data \in Content
  BY <1>2, TheCall DEF HasNode, CallRight, CallOK
<1>4. x \in Id
  BY <1>1, <1>3, TheNode
<1>5. PICK u : u = IF db.ino[x] = NoInode THEN db ELSE [db EXCEPT !.ino[x].len = call[c].data]
  OBVIOUS
<1>6. Change(u)
  BY <1>1, <1>5 DEF Size
<1>7. u \in Tables /\ SameRows(db, u)
  <2>1. CASE db.ino[x] = NoInode
    BY <1>3, <1>5, <2>1 DEF SameRows
  <2>2. CASE db.ino[x] # NoInode
    <3>1. PICK row \in Inode : row = db.ino[x]
      BY <1>3, <1>4, <2>2 DEF Tables
    <3>2. PICK new : new = [row EXCEPT !.len = call[c].data]
      OBVIOUS
    <3>3. /\ new \in Inode /\ new # NoInode /\ new.parent = row.parent
          /\ new.name = row.name /\ new.kind = row.kind
      <4>1. new \in Inode /\ new.parent = row.parent /\ new.name = row.name /\ new.kind = row.kind
        BY <1>3, <3>2 DEF Inode
      <4> QED  BY <4>1, NoInodeAssumption
    <3>4. u = [db EXCEPT !.ino[x] = new]
      BY <1>5, <2>2, <3>1, <3>2
    <3>5. u \in Tables /\ u.ino = [db.ino EXCEPT ![x] = new]
      BY <1>3, <1>4, <3>3, <3>4 DEF Tables
    <3>6. u.ino[x] = new /\ \A y \in Id \ {x} : u.ino[y] = db.ino[y]
      BY <1>3, <1>4, <3>5 DEF Tables
    <3> QED  BY <2>2, <3>1, <3>3, <3>5, <3>6 DEF SameRows
  <2> QED  BY <2>1, <2>2
<1>8. ~Stale(call[c])
  BY <1>2, <1>3 DEF Stale
<1> QED  BY <1>2, <1>3, <1>6, <1>7, <1>8, SameRowsStep

\* The cache that takes up what the call has at its path.
LEMMA Recorded ==
  ASSUME NEW ca, NEW t, NEW k, CacheRight(ca, t, k), NEW v,
         v = NodeAt(t, k.path) \/ v = NoEntry
  PROVE  CacheGood([ca EXCEPT ![k.path] = v], t)
<1>1. PICK g : g = [ca EXCEPT ![k.path] = v]
  OBVIOUS
<1>2. DOMAIN g = Path \ {RootPath}
  BY <1>1 DEF CacheRight
<1>3. ASSUME NEW p \in Path \ {RootPath}, g[p] # NoEntry PROVE g[p] = NodeAt(t, p)
  <2>1. CASE p = k.path
    BY <1>1, <1>3, <2>1 DEF CacheRight
  <2>2. CASE p # k.path
    BY <1>1, <1>3, <2>2 DEF CacheRight
  <2> QED  BY <2>1, <2>2
<1> QED  BY <1>1, <1>2, <1>3 DEF CacheGood

LEMMA OneCreated ==
  ASSUME NEW c \in Caller, Caller = {c}, IInv, SInv, Created(c)
  PROVE  SInv'
<1>1. PICK k : k = call[c]
  OBVIOUS
<1>2. PICK pc : pc = (IF k.pc = "created" THEN "touch" ELSE "commit") /\ GoTo(c, pc)
  BY <1>1 DEF Created, At
<1>3. /\ k.pc \in {"created", "inserted"} /\ UNCHANGED <<db, saved, tx>>
      /\ cache' = [cache EXCEPT ![k.path] = k.node]
  BY <1>1 DEF Created, At
<1>4. HasFields(k) /\ CallOK(k) /\ CallRight(db, k) /\ CacheRight(cache, db, k) /\ db \in Tables
  BY <1>1, TheCall
<1>5. HasNode(k) /\ k.node # NoNode /\ k.node = NodeAt(db, k.path)
  BY <1>3, <1>4 DEF HasNode, CallRight
<1>6. CacheGood(cache', db)
  BY <1>3, <1>4, <1>5, Recorded
<1>7. \/ pc = "touch" /\ k.op = "create"
      \/ pc = "commit" /\ k.op = "mkdir"
  BY <1>2, <1>3, <1>4 DEF CallOK, CallRight
<1>8. PICK r : r = [k EXCEPT !.pc = pc]
  OBVIOUS
<1>9. r.pc = pc /\ r.op = k.op /\ r.path = k.path /\ r.node = k.node
  BY <1>4, <1>8, Elsewhere
<1>10. Fresh(db, saved, r)
  BY <1>5, <1>7, <1>9 DEF Fresh, CallRight, HasNode, Unwritten, Stale
<1> QED  BY <1>1, <1>2, <1>3, <1>6, <1>8, <1>10, OneGoTo

LEMMA OneTouch ==
  ASSUME NEW c \in Caller, Caller = {c}, IInv, SInv, Touch(c)
  PROVE  SInv'
<1>1. PICK k : k = call[c]
  OBVIOUS
<1>2. /\ k.pc = "touch" /\ UNCHANGED <<db, saved, tx>> /\ Return(c)
      /\ cache' = [cache EXCEPT ![k.path] = k.node]
  BY <1>1 DEF Touch, At
<1>3. CallRight(db, k) /\ CacheRight(cache, db, k)
  BY <1>1, TheCall
<1>4. k.node = NodeAt(db, k.path)
  BY <1>2, <1>3 DEF HasNode, CallRight
<1>5. CacheGood(cache', db)
  BY <1>2, <1>3, <1>4, Recorded
<1> QED  BY <1>2, <1>5, OneReturn

LEMMA OneKids ==
  ASSUME NEW c \in Caller, Caller = {c}, IInv, SInv, Kids(c)
  PROVE  SInv'
<1>1. PICK k : k = call[c]
  OBVIOUS
<1>2. k.pc = "kids" /\ UNCHANGED <<db, saved, tx, cache>>
  BY <1>1 DEF Kids, At
<1>3. HasFields(k) /\ CallOK(k) /\ CallRight(db, k) /\ k.op = "unlink"
  BY <1>1, <1>2, TheCall DEF CallOK
<1>4. CacheGood(cache, db)
  BY <1>1, <1>2, <1>3, TheCall DEF Stale
<1>5. CASE ChildrenOf(db, k.node.id) = {}
  <2>1. GoTo(c, "begin")
    BY <1>1, <1>5 DEF Kids
  <2>2. PICK r : r = [k EXCEPT !.pc = "begin"]
    OBVIOUS
  <2>3. r.pc = "begin" /\ r.op = k.op /\ r.path = k.path /\ r.node = k.node
    BY <1>3, <2>2, Elsewhere
  <2>4. HasNode(k) /\ k.path # RootPath
    BY <1>2, <1>3 DEF HasNode, CallRight
  <2>5. Fresh(db, saved, r)
    BY <1>3, <1>5, <2>3, <2>4 DEF Fresh, CallRight, HasNode, Unwritten, Stale
  <2> QED  BY <1>1, <1>2, <1>4, <2>1, <2>2, <2>5, OneGoTo
<1>6. CASE ChildrenOf(db, k.node.id) # {}
  <2>1. Return(c)
    BY <1>1, <1>6 DEF Kids
  <2> QED  BY <1>2, <1>4, <2>1, OneReturn
<1> QED  BY <1>5, <1>6

LEMMA OneDelete ==
  ASSUME NEW c \in Caller, Caller = {c}, IInv, SInv, DeleteStep(c)
  PROVE  SInv'
<1>1. PICK k : k = call[c]
  OBVIOUS
<1>2. PICK x : x = k.node.id
  OBVIOUS
<1>3. k.pc = "delete" /\ UNCHANGED <<tx, cache>>
  BY <1>1 DEF DeleteStep, At
<1>4. HasFields(k) /\ CallRight(db, k) /\ CacheRight(cache, db, k) /\ db \in Tables
      /\ Tree(db) /\ k.path \in Path
  BY <1>1, TheCall DEF SInv
<1>5. k.op = "unlink" /\ k.path # RootPath /\ ChildrenOf(db, x) = {} /\ HasNode(k)
  BY <1>2, <1>3, <1>4 DEF CallRight, HasNode
<1>6. k.node # NoNode /\ k.node = NodeAt(db, k.path) /\ x \in Live(db) /\ x # RootId
  BY <1>1, <1>2, <1>5, TheNode
<1>7. PICK u : u = Delete(db, x) /\ Change(u)
  BY <1>1, <1>2 DEF DeleteStep
<1>8. /\ Tree(u)
      /\ \A q \in Path : NodeAt(u, q) = IF NodeAt(db, q) # NoNode /\ NodeAt(db, q).id = x
                                          THEN NoNode ELSE NodeAt(db, q)
  BY <1>4, <1>5, <1>6, <1>7, DeleteTree
<1>9. \A q \in Path : q # k.path => NodeAt(u, q) = NodeAt(db, q)
  <2>1. ASSUME NEW q \in Path, q # k.path, NodeAt(db, q) # NoNode PROVE NodeAt(db, q).id # x
    BY <1>2, <1>4, <1>6, <2>1, OnePath
  <2> QED  BY <1>8, <2>1
<1>10. PICK r : r = [k EXCEPT !.pc = "commit"] /\ call' = [call EXCEPT ![c] = r]
  BY <1>1 DEF DeleteStep, GoTo, Continue
<1>11. r.pc = "commit" /\ r.op = "unlink" /\ r.path = k.path
  BY <1>4, <1>5, <1>10, Elsewhere
<1>12. CallRight(u, r) /\ ~Unwritten(r) /\ Stale(r)
  BY <1>11 DEF CallRight, HasNode, Unwritten, Stale
<1>13. CacheRight(cache', u, r)
  <2>1. ~Stale(k)
    BY <1>3, <1>5 DEF Stale
  <2> QED  BY <1>3, <1>4, <1>9, <1>11, <1>12, <2>1 DEF CacheRight
<1> QED  BY <1>3, <1>7, <1>8, <1>10, <1>12, <1>13, ChangeStep

LEMMA OneCommit ==
  ASSUME NEW c \in Caller, Caller = {c}, IInv, SInv, Commit(c)
  PROVE  SInv'
<1>1. PICK k : k = call[c]
  OBVIOUS
<1>2. k.pc = "commit" /\ UNCHANGED <<db, cache>> /\ saved' = db
  BY <1>1 DEF Commit, At
<1>3. /\ HasFields(k) /\ CallRight(db, k) /\ CacheRight(cache, db, k)
      /\ Tree(db) /\ k.op \in {"mkdir", "write", "unlink"}
  BY <1>1, <1>2, TheCall DEF SInv, CallRight
<1>4. Tree(db') /\ Tree(saved') /\ (tx' = NoCaller => db' = saved')
  BY <1>2, <1>3
<1>5. CASE k.op = "mkdir"
  <2>1. call' = [call EXCEPT ![c] = Idle]
    BY <1>1, <1>5 DEF Commit, Return, Continue
  <2>2. CacheGood(cache, db)
    BY <1>2, <1>3, <1>5, GoodIsRight DEF Stale
  <2>3. CallRight(db', Idle) /\ CacheRight(cache', db', Idle)
    BY <1>2, <2>2, GoodIsRight, IdleIsFresh DEF Fresh
  <2>4. db' = saved'
    BY <1>2
  <2> QED  BY <1>4, <2>1, <2>3, <2>4, OneStep
<1>6. CASE k.op # "mkdir"
  <2>1. PICK r : r = [k EXCEPT !.pc = "committed"] /\ call' = [call EXCEPT ![c] = r]
    BY <1>1, <1>6 DEF Commit, GoTo, Continue
  <2>2. r.pc = "committed" /\ r.op = k.op /\ r.path = k.path /\ r.node = k.node
    BY <1>3, <2>1, Elsewhere
  <2>3. CallRight(db', r)
    BY <1>2, <1>3, <1>6, <2>2 DEF CallRight, HasNode
  <2>4. Stale(r) <=> Stale(k)
    BY <1>2, <2>2 DEF Stale
  <2>5. CacheRight(cache', db', r)
    BY <1>2, <1>3, <2>2, <2>4 DEF CacheRight
  <2>6. db' = saved'
    BY <1>2
  <2> QED  BY <1>4, <2>1, <2>3, <2>5, <2>6, OneStep
<1> QED  BY <1>5, <1>6

LEMMA OneRollback ==
  ASSUME NEW c \in Caller, Caller = {c}, IInv, SInv, Rollback(c)
  PROVE  SInv'
<1>1. call[c].pc = "rollback" /\ UNCHANGED <<saved, cache>> /\ db' = saved /\ Return(c)
  BY DEF Rollback, At
<1>2. db = saved
  BY <1>1, TheCall DEF Unwritten
<1>3. ~Stale(call[c])
  BY <1>1 DEF Stale
<1>4. CacheGood(cache', db)
  BY <1>1, <1>3, TheCall
<1> QED  BY <1>1, <1>2, <1>4, OneReturn

LEMMA OneCommitted ==
  ASSUME NEW c \in Caller, Caller = {c}, IInv, SInv, Committed(c)
  PROVE  SInv'
<1>1. PICK k : k = call[c]
  OBVIOUS
<1>2. k.pc = "committed" /\ UNCHANGED <<db, saved, tx>> /\ Return(c)
  BY <1>1 DEF Committed, At
<1>3. CallRight(db, k) /\ CacheRight(cache, db, k) /\ k.op \in {"write", "unlink"}
  BY <1>1, <1>2, TheCall DEF CallRight
<1>4. PICK v : v = (IF k.op = "write" THEN k.node ELSE NoEntry)
               /\ cache' = [cache EXCEPT ![k.path] = v]
  BY <1>1, <1>3 DEF Committed
<1>5. k.op = "write" => k.node = NodeAt(db, k.path)
  BY <1>2, <1>3 DEF CallRight, HasNode
<1>6. CacheGood(cache', db)
  BY <1>3, <1>4, <1>5, Recorded
<1> QED  BY <1>2, <1>6, OneReturn

LEMMA OneCrash ==
  ASSUME NEW c \in Caller, Caller = {c}, SInv, Crash
  PROVE  SInv'
<1>1. db' = saved /\ saved' = saved /\ Tree(saved)
  BY DEF Crash, SInv
<1>2. CacheGood(cache', db')
  BY DEF Crash, CacheGood
<1>3. \A e \in Caller : call'[e] = Idle
  BY DEF Crash
<1>4. CallRight(db', Idle) /\ (Unwritten(Idle) => db' = saved') /\ CacheRight(cache', db', Idle)
  BY <1>2, GoodIsRight, IdleIsFresh DEF Fresh
<1>5. db' = saved' /\ Tree(db') /\ Tree(saved')
  BY <1>1
<1> QED  BY <1>3, <1>4, <1>5 DEF SInv

LEMMA OneEvict ==
  ASSUME NEW c \in Caller, Caller = {c}, SInv, NEW p, Evict(p)
  PROVE  SInv'
<1>1. UNCHANGED <<db, saved, tx, call>> /\ cache' = [cache EXCEPT ![p] = NoEntry]
  BY DEF Evict
<1>2. CacheRight(cache, db, call[c]) => CacheRight(cache', db', call'[c])
  BY <1>1 DEF CacheRight
<1> QED  BY <1>1, <1>2 DEF SInv

LEMMA OneNext ==
  ASSUME Sequential, IInv, SInv, [Next]_vars
  PROVE  SInv'
<1>1. PICK c : Caller = {c}
  BY DEF Sequential
<1>2. c \in Caller
  BY <1>1
<1>3. CASE UNCHANGED vars
  BY <1>3 DEF SInv, vars
<1>4. ASSUME NEW op \in Ops, NEW path \in Path, NEW to \in Path, NEW data \in Content,
             Call(c, op, path, to, data)
      PROVE  SInv'
  <2>1. op \notin {"rename", "unmount"}
    BY DEF Sequential
  <2> QED  BY <1>1, <1>2, <1>4, <2>1, OneCall
<1>5. CASE Step(c)
  <2>1. ~At(c, "move") /\ ~At(c, "remove")
    BY <1>1, <1>2, TheCall DEF At, CallOK, CallRight
  <2>2. ~Move(c) /\ ~RemoveStep(c)
    BY <2>1 DEF Move, RemoveStep
  <2>3. CASE SelectStep(c)
    BY <1>1, <1>2, <2>3, OneSelect
  <2>4. CASE Selected(c)
    BY <1>1, <1>2, <2>4, OneSelected
  <2>5. CASE Begin(c)
    BY <1>1, <1>2, <2>5, OneBegin
  <2>6. CASE Begun(c)
    BY <1>1, <1>2, <2>6, OneBegun
  <2>7. CASE InsertStep(c)
    BY <1>1, <1>2, <2>7, OneInsert
  <2>8. CASE InsertBlob(c)
    BY <1>1, <1>2, <2>8, OneInsertBlob
  <2>9. CASE Created(c)
    BY <1>1, <1>2, <2>9, OneCreated
  <2>10. CASE Touch(c)
    BY <1>1, <1>2, <2>10, OneTouch
  <2>11. CASE Replace(c)
    BY <1>1, <1>2, <2>11, OneReplace
  <2>12. CASE Size(c)
    BY <1>1, <1>2, <2>12, OneSize
  <2>13. CASE Kids(c)
    BY <1>1, <1>2, <2>13, OneKids
  <2>14. CASE DeleteStep(c)
    BY <1>1, <1>2, <2>14, OneDelete
  <2>15. CASE Commit(c)
    BY <1>1, <1>2, <2>15, OneCommit
  <2>16. CASE Rollback(c)
    BY <1>1, <1>2, <2>16, OneRollback
  <2>17. CASE Committed(c)
    BY <1>1, <1>2, <2>17, OneCommitted
  <2> QED  BY <1>5, <2>2, <2>3, <2>4, <2>5, <2>6, <2>7, <2>8, <2>9, <2>10, <2>11,
              <2>12, <2>13, <2>14, <2>15, <2>16, <2>17 DEF Step
<1>6. ASSUME NEW p, Evict(p) PROVE SInv'
  BY <1>1, <1>2, <1>6, OneEvict
<1>7. CASE Crash
  BY <1>1, <1>2, <1>7, OneCrash
<1>8. CASE Next
  BY <1>1, <1>4, <1>5, <1>6, <1>7, <1>8 DEF Next
<1> QED  BY <1>3, <1>8

LEMMA OneCaller ==
  ASSUME Sequential
  PROVE  Spec => []SInv
<1>1. IInv /\ SInv /\ [Next]_vars => SInv'
  BY OneNext
<1> QED  BY <1>1, OneInit, Inductive, PTL DEF Spec

\* With one caller that does not rename, every inode lies in a directory and
\* can be reached from the root: unlink deletes only what has no children, and
\* an insert only goes below a directory that the lookup has just found.
THEOREM TreeStaysATree ==
  ASSUME Sequential
  PROVE  Spec => []TreeOK
<1>1. IInv /\ SInv => TreeOK
  <2> SUFFICES ASSUME IInv, SInv, NEW x \in Live(db) \ {RootId}
               PROVE  /\ db.ino[x].parent \in Live(db)
                      /\ NodeOf(db, db.ino[x].parent).kind = "dir"
                      /\ x \in Below(db, RootId)
    BY DEF TreeOK
  <2>1. db \in Tables /\ Tree(db)
    BY DEF IInv, Typed, SInv
  <2>2. x \in Id /\ db.ino[x] # NoInode
    BY DEF Live
  <2>3. x \in Below(db, RootId)
    BY <2>1, TreeReached
  <2> QED  BY <2>1, <2>2, <2>3 DEF Tree
<1> QED  BY <1>1, Inductive, OneCaller, PTL

\* With one caller that does not rename, the cache of paths says what the
\* tables say whenever no call is in progress, whatever was evicted, also of
\* the paths that lead nowhere, and after a crash.
THEOREM CacheStaysRight ==
  ASSUME Sequential
  PROVE  Spec => []CacheAgrees
<1>1. SInv /\ Sequential => CacheAgrees
  <2> SUFFICES ASSUME SInv, Sequential, \A c \in Caller : call[c] = Idle,
                      NEW p \in DOMAIN cache, cache[p] # NoEntry
               PROVE  cache[p] = NodeAt(db, p)
    BY DEF CacheAgrees
  <2>1. PICK c \in Caller : call[c] = Idle
    BY DEF Sequential
  <2>2. ~Stale(Idle)
    BY DEF Stale, Idle
  <2>3. CacheGood(cache, db)
    BY <2>1, <2>2, GoodIsRight DEF SInv
  <2> QED  BY <2>3 DEF CacheGood
<1> QED  BY <1>1, OneCaller, PTL
=============================================================================
