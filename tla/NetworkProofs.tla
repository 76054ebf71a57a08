---------------------------- MODULE NetworkProofs ----------------------------
(***************************************************************************)
(* Proofs about the network: that the address of an interface is leased to *)
(* it (AddressIsLeased), that the router knows only routes                 *)
(* (RouterKnowsOnlyRoutes), that no frame is delivered twice (FramesOnce), *)
(* and that the registry of services agrees with the listeners             *)
(* (ListedListens), for every number of machines, interfaces, requests,    *)
(* frames, services and reboots.                                           *)
(*                                                                         *)
(* Addresses.  A request finds the object of an interface when it is made, *)
(* and the answer sets the address of that object; in between the          *)
(* interface may be removed and another be created under the same id.  The *)
(* invariant says what an answer under way carries: the lease of the id of *)
(* its object.  Leases are never ended, so it is still true when it        *)
(* arrives; and they are all below the next host, so the host never gives  *)
(* one out twice.                                                          *)
(*                                                                         *)
(* Each of the other three has an invariant of its own below.              *)
(***************************************************************************)
EXTENDS Network, Sockets, ListLemmas, FiniteSetTheorems, SequenceTheorems, TLAPS

-----------------------------------------------------------------------------
(* The invariant *)

\* The fields of an object, and those of a call.
Fields == {"id", "mac", "kind", "ip", "rx", "left"}
Asked == {"command", "call", "machine", "id", "nic", "host"}

\* An address that DHCP gave to an interface id is leased to it.
Leased(id, ip) == ip # ByHand => id \in DOMAIN leases /\ leases[id] = ip

LeasesOK ==
  /\ nextHost \in Nat \ {0}
  /\ IsFiniteSet(DOMAIN leases)
  /\ \A id \in DOMAIN leases : leases[id] \in Nat \ {0} /\ leases[id] < nextHost
  /\ IsInjective(leases)

ObjectsOK ==
  /\ objects \in Seq(Range(objects))
  /\ \A o \in DOMAIN objects : Leased(objects[o].id, objects[o].ip)
  /\ \A o \in DOMAIN objects :
       objects[o] = [f \in Fields |-> objects[o][f]]

\* The entry of an id is an object with that id.
NicsOK ==
  /\ nics = [k \in Machine |-> nics[k]]
  /\ \A k \in Machine : \A id \in DOMAIN nics[k] :
       nics[k][id] \in DOMAIN objects /\ objects[nics[k][id]].id = id

PendingOK ==
  /\ pending = [k \in Machine |-> pending[k]]
  /\ \A k \in Machine : IsFiniteSet(pending[k])
  /\ \A k \in Machine : \A n \in pending[k] :
       /\ Leased(n.id, n.ip)
       /\ n = [f \in Fields |-> n[f]]

\* A request is for an object with its id, an answer has the lease of its id.
\* A call of an old kernel knows its object, if there is one.
OfObject(c) == c.nic \in DOMAIN objects /\ objects[c.nic].id = c.id
CommandOK(c) ==
  /\ c.command \in {"dhcp_request", "leased", "wifi_join"} =>
       c = [f \in Asked |-> c[f]] /\ c.machine \in Machine \cup {OldKernel}
  /\ c.command \in {"dhcp_request", "leased"} => OfObject(c)
  /\ c.command = "leased" => c.host # ByHand /\ Leased(c.id, c.host)
  /\ c.command = "wifi_join" /\ c.machine = OldKernel /\ c.nic # 0 => OfObject(c)

IInv ==
  /\ LeasesOK
  /\ ObjectsOK
  /\ NicsOK
  /\ PendingOK
  /\ \A c \in commands : CommandOK(c)

-----------------------------------------------------------------------------
\* The address that dhcp_request finds is the next one.
LEMMA FreeHostIsNext ==
  ASSUME LeasesOK
  PROVE  FreeHost = nextHost
<1>1. Cardinality(DOMAIN leases) \in Nat
  BY FS_CardinalityType DEF LeasesOK
<1> DEFINE Free == {n \in nextHost..(nextHost + Cardinality(DOMAIN leases)) :
                      \A id \in DOMAIN leases : leases[id] # n}
<1>2. nextHost \in Free
  BY <1>1 DEF LeasesOK
<1>3. \A n \in Free : n \in Nat /\ nextHost =< n
  BY <1>1 DEF LeasesOK
<1> HIDE DEF Free
<1>4. Min(Free) \in Free /\ Min(Free) =< nextHost
  BY <1>2, <1>3 DEF Min
<1>5. Min(Free) \in Nat /\ nextHost =< Min(Free) /\ nextHost \in Nat
  BY <1>2, <1>3, <1>4
<1>6. FreeHost = Min(Free)
  BY DEF FreeHost, Free
<1> HIDE DEF FreeHost
<1> DEFINE m == Min(Free)
<1> HIDE DEF m
<1>7. m = nextHost
  BY <1>4, <1>5 DEF m
<1> QED BY <1>6, <1>7 DEF m

LEMMA AppendedObject ==
  ASSUME ObjectsOK, NEW x, objects' = Append(objects, x)
  PROVE  /\ objects' \in Seq(Range(objects'))
         /\ DOMAIN objects' = DOMAIN objects \cup {Len(objects) + 1}
         /\ Len(objects) + 1 \notin DOMAIN objects
         /\ \A i \in DOMAIN objects : objects'[i] = objects[i]
         /\ objects'[Len(objects) + 1] = x
<1> DEFINE T == Range(objects) \cup {x}
<1>1. objects \in Seq(Range(objects)) /\ Range(objects) \subseteq T /\ x \in T
  BY DEF ObjectsOK
<1> HIDE DEF T
<1>2. objects \in Seq(T)
  BY <1>1, SeqMonotonic
<1>3. Append(objects, x) \in Seq(T)
  BY <1>1, <1>2, AppendProperties
<1>4. Len(Append(objects, x)) = Len(objects) + 1
  BY <1>1, <1>2, AppendProperties
<1>5. Append(objects, x)[Len(objects) + 1] = x
  BY <1>1, <1>2, AppendProperties
<1>6. \A i \in 1..Len(objects) : Append(objects, x)[i] = objects[i]
  BY <1>1, <1>2, AppendProperties
<1>7. objects' \in Seq(T) /\ Len(objects') = Len(objects) + 1
  BY <1>3, <1>4
<1>8. objects' \in Seq(Range(objects'))
  BY <1>7, SeqOfRange
<1>9. Len(objects) \in Nat /\ DOMAIN objects = 1..Len(objects) /\ DOMAIN objects' = 1..Len(objects')
  BY <1>2, <1>7, LenProperties
<1> QED BY <1>5, <1>6, <1>7, <1>8, <1>9

\* An object changed is an object still.
LEMMA ChangedObject ==
  ASSUME NEW T, NEW s \in Seq(T), NEW t, NEW U, t \in [DOMAIN s -> U]
  PROVE  t \in Seq(Range(t)) /\ DOMAIN t = DOMAIN s
<1>1. Len(s) \in Nat /\ DOMAIN s = 1..Len(s)
  BY LenProperties
<1>2. t \in Seq(U)
  BY <1>1, SeqDef
<1> QED BY <1>2, SeqOfRange

-----------------------------------------------------------------------------
(***************************************************************************)
(* What every step keeps: objects their ids, and ids their leases.         *)
(***************************************************************************)
Grows ==
  /\ \A o \in DOMAIN objects : o \in DOMAIN objects' /\ objects'[o].id = objects[o].id
  /\ \A id \in DOMAIN leases : id \in DOMAIN leases' /\ leases'[id] = leases[id]

LEMMA GrowsKeeps ==
  ASSUME IInv, Grows
  PROVE  /\ \A id, ip : Leased(id, ip) => Leased(id, ip)'
         /\ nics' = nics => NicsOK'
         /\ pending' = pending => PendingOK'
         /\ \A c \in commands : CommandOK(c)'
<1>1. \A id, ip : Leased(id, ip) => Leased(id, ip)'
  BY DEF Grows, Leased
<1>2. nics' = nics => NicsOK'
  BY DEF IInv, Grows, NicsOK
<1>3. pending' = pending => PendingOK'
  BY <1>1 DEF IInv, PendingOK
<1>4. ASSUME NEW c \in commands PROVE CommandOK(c)'
  BY <1>1 DEF IInv, Grows, CommandOK, OfObject
<1> QED BY <1>1, <1>2, <1>3, <1>4

\* A step that leaves the leases and the objects alone.
Same == leases' = leases /\ nextHost' = nextHost /\ objects' = objects

LEMMA SameKeeps ==
  ASSUME IInv, Same
  PROVE  Grows /\ LeasesOK' /\ ObjectsOK'
<1>1. LeasesOK'
  BY DEF IInv, Same, LeasesOK, IsInjective
<1>2. ObjectsOK'
  BY DEF IInv, Same, ObjectsOK, Leased, Range
<1> QED BY <1>1, <1>2 DEF Same, Grows

\* A command that carries neither a request nor its answer.
Plain(c) == c.command \notin {"dhcp_request", "leased", "wifi_join"}

LEMMA PlainIsOK ==
  ASSUME NEW c, Plain(c)
  PROVE  CommandOK(c)'
BY DEF Plain, CommandOK

\* A step of the hub or of a kernel that makes no object and gives no lease.
LEMMA QuietStep ==
  ASSUME IInv, Same, nics' = nics, pending' = pending,
         \A c \in commands' \ commands : CommandOK(c)'
  PROVE  IInv'
BY SameKeeps, GrowsKeeps DEF IInv

\* Changing one field of one object.
LEMMA FieldStep ==
  ASSUME IInv, NEW o, NEW new, leases' = leases, nextHost' = nextHost,
         nics' = nics, pending' = pending, commands' \subseteq commands,
         objects' = [objects EXCEPT ![o] = new],
         o \in DOMAIN objects =>
           /\ new.id = objects[o].id /\ Leased(new.id, new.ip)
           /\ new = [f \in Fields |-> new[f]]
  PROVE  IInv'
<1>1. objects' \in [DOMAIN objects -> Range(objects) \cup {new}]
  BY DEF Range
<1>2. objects' \in Seq(Range(objects')) /\ DOMAIN objects' = DOMAIN objects
  BY <1>1, ChangedObject DEF IInv, ObjectsOK
<1>3. Grows
  BY <1>2 DEF Grows
<1>4. \A p \in DOMAIN objects' : objects'[p] = IF p = o THEN new ELSE objects[p]
  BY <1>2
<1>5. ObjectsOK'
  <2>1. \A p \in DOMAIN objects' : Leased(objects[p].id, objects[p].ip)'
    BY <1>2, <1>3, <1>4 DEF IInv, ObjectsOK, Grows, Leased
  <2>2. \A p \in DOMAIN objects' :
          objects'[p] = [f \in Fields |-> objects'[p][f]]
    BY <1>2, <1>4 DEF IInv, ObjectsOK
  <2> QED BY <1>2, <2>1, <2>2 DEF ObjectsOK, Range
<1>6. LeasesOK'
  BY DEF IInv, LeasesOK, IsInjective
<1> QED BY <1>3, <1>5, <1>6, GrowsKeeps DEF IInv

-----------------------------------------------------------------------------
(***************************************************************************)
(* The steps                                                               *)
(***************************************************************************)
LEMMA HubStep ==
  ASSUME IInv, HandleCommand, UNCHANGED kernelVars
  PROVE  IInv'
<1> USE DEF kernelVars
<1>1. PICK c \in commands : RegisterNic(c) \/ SendFrame(c) \/ ReceiveFrames(c) \/ DhcpRequest(c)
  BY DEF HandleCommand
<1>2. CASE RegisterNic(c) \/ SendFrame(c)
  BY <1>2, QuietStep DEF RegisterNic, SendFrame, Same
<1>3. CASE ReceiveFrames(c)
  <2>1. \A d \in commands' \ commands : d.command = "received"
    BY <1>3 DEF ReceiveFrames
  <2>2. \A d \in commands' \ commands : CommandOK(d)'
    BY <2>1, PlainIsOK DEF Plain
  <2> QED BY <1>3, <2>2, QuietStep DEF ReceiveFrames, Same
<1>4. CASE DhcpRequest(c)
  <2> PICK host : host = IF c.id \in DOMAIN leases THEN leases[c.id] ELSE FreeHost
    OBVIOUS
  <2> DEFINE answer == [c EXCEPT !.command = "leased", !.host = host]
  <2>1. CommandOK(c) /\ LeasesOK /\ c.command = "dhcp_request"
    BY <1>4 DEF DhcpRequest, IInv
  <2>2. /\ host \in Nat \ {0}
        /\ c.id \notin DOMAIN leases => host = nextHost
    BY <2>1, FreeHostIsNext DEF LeasesOK
  <2>3. leases' = [i \in DOMAIN leases \cup {c.id} |-> IF i = c.id THEN host ELSE leases[i]]
    BY <1>4 DEF DhcpRequest, Entered, Set
  <2>4. nextHost' = IF c.id \in DOMAIN leases THEN nextHost ELSE host + 1
    BY <1>4 DEF DhcpRequest
  <2>5. Grows
    BY <2>3 DEF Grows
  <2>6. LeasesOK'
    <3>1. IsFiniteSet(DOMAIN leases')
      BY <2>1, <2>3, FS_AddElement DEF LeasesOK
    <3>2. \A id \in DOMAIN leases' : leases'[id] \in Nat \ {0} /\ leases'[id] < nextHost'
      BY <2>1, <2>2, <2>3, <2>4 DEF LeasesOK
    <3>3. \A a, b \in DOMAIN leases' : leases'[a] = leases'[b] => a = b
      BY <2>1, <2>2, <2>3 DEF LeasesOK, IsInjective
    <3>4. nextHost' \in Nat \ {0}
      BY <2>1, <2>2, <2>4 DEF LeasesOK
    <3> QED BY <3>1, <3>2, <3>3, <3>4 DEF LeasesOK, IsInjective
  <2>7. ObjectsOK'
    BY <2>5 DEF IInv, ObjectsOK, Grows, Leased, Range
  <2>8. CommandOK(answer)'
    BY <2>1, <2>2, <2>3, <2>5 DEF CommandOK, OfObject, Asked, Leased, ByHand, Grows
  <2>9. \A d \in commands' : d \in commands \/ d = answer
    BY <1>4 DEF DhcpRequest
  <2>10. NicsOK' /\ PendingOK' /\ \A d \in commands : CommandOK(d)'
    BY <2>5, GrowsKeeps
  <2> QED BY <2>6, <2>7, <2>8, <2>9, <2>10 DEF IInv
<1> QED BY <1>1, <1>2, <1>3, <1>4

\* A new interface has no address.
LEMMA CreateStep ==
  ASSUME IInv, NEW k \in Machine, NEW id, NEW mac, NEW kind, CreateNic(k, id, mac, kind)
  PROVE  IInv'
<1> DEFINE new == Nic(id, mac, kind, ByHand, <<>>)
           n == Len(objects) + 1
<1>1. /\ objects' = Append(objects, new) /\ UNCHANGED <<pending, leases, nextHost>>
      /\ nics' = [nics EXCEPT ![k] = Set(@, id, n)]
      /\ commands' = commands \cup Registration({new})
  BY DEF CreateNic, Invoke
<1>2. /\ objects' \in Seq(Range(objects'))
      /\ DOMAIN objects' = DOMAIN objects \cup {n} /\ n \notin DOMAIN objects
      /\ objects'[n] = new /\ \A o \in DOMAIN objects : objects'[o] = objects[o]
  BY <1>1, AppendedObject DEF IInv
<1> HIDE DEF n
<1>3. Grows
  BY <1>1, <1>2 DEF Grows
<1>4. ObjectsOK'
  <2>1. \A o \in DOMAIN objects' : Leased(objects[o].id, objects[o].ip)'
    BY <1>2, <1>3 DEF IInv, ObjectsOK, Grows, Leased, Nic
  <2>2. \A o \in DOMAIN objects' :
          objects'[o] = [f \in Fields |-> objects'[o][f]]
    BY <1>2 DEF IInv, ObjectsOK, Nic, Fields
  <2> QED BY <1>2, <2>1, <2>2 DEF ObjectsOK, Range
<1>5. NicsOK'
  <2>1. /\ nics' = [j \in Machine |-> nics'[j]]
        /\ \A j \in Machine : j # k => nics'[j] = nics[j]
        /\ nics'[k] = Set(nics[k], id, n)
    BY <1>1 DEF IInv, NicsOK
  <2>2. /\ DOMAIN nics'[k] = DOMAIN nics[k] \cup {id}
        /\ \A i \in DOMAIN nics'[k] : nics'[k][i] = IF i = id THEN n ELSE nics[k][i]
    BY <2>1 DEF Set
  <2>3. \A j \in Machine : \A i \in DOMAIN nics[j] :
          nics[j][i] \in DOMAIN objects' /\ objects'[nics[j][i]].id = i
    BY <1>2, <1>3 DEF Grows, IInv, NicsOK
  <2>4. n \in DOMAIN objects' /\ objects'[n].id = id
    BY <1>2 DEF Nic
  <2>5. ASSUME NEW j \in Machine, NEW i \in DOMAIN nics'[j]
        PROVE  nics'[j][i] \in DOMAIN objects' /\ objects'[nics'[j][i]].id = i
    BY <2>1, <2>2, <2>3, <2>4
  <2> QED BY <2>1, <2>5 DEF NicsOK
<1>6. LeasesOK'
  BY <1>1 DEF IInv, LeasesOK, IsInjective
<1>7. \A c \in commands' \ commands : CommandOK(c)'
  BY <1>1, PlainIsOK DEF Registration, Plain
<1> QED BY <1>1, <1>3, <1>4, <1>5, <1>6, <1>7, GrowsKeeps DEF IInv

LEMMA RemoveStep ==
  ASSUME IInv, NEW k \in Machine, NEW id, RemoveNic(k, id)
  PROVE  IInv'
<1>1. Same /\ pending' = pending /\ commands' = commands
  BY DEF RemoveNic, Same, hubVars
<1>2. NicsOK'
  BY DEF RemoveNic, IInv, NicsOK
<1> QED BY <1>1, <1>2, SameKeeps, GrowsKeeps DEF IInv

LEMMA ConfigStep ==
  ASSUME IInv, NEW o \in DOMAIN objects, NicConfig(o)
  PROVE  IInv'
<1> DEFINE new == [objects[o] EXCEPT !.ip = ByHand]
<1>1. ObjectsOK
  BY DEF IInv
<1>2. /\ new.id = objects[o].id /\ Leased(new.id, new.ip)
      /\ new = [f \in Fields |-> new[f]]
  BY <1>1 DEF ObjectsOK, Leased, Fields
<1>3. objects' = [objects EXCEPT ![o] = new]
  BY DEF NicConfig
<1>4. /\ leases' = leases /\ nextHost' = nextHost /\ nics' = nics /\ pending' = pending
      /\ commands' \subseteq commands
  BY DEF NicConfig, hubVars
<1> HIDE DEF new
<1> QED BY <1>2, <1>3, <1>4, FieldStep

\* The calls that ask are those of kernels that have the object.
LEMMA KernelsAre ==
  ASSUME NEW o, NEW k \in Kernels(o)
  PROVE  k \in Machine \cup {OldKernel}
BY DEF Kernels

\* A call that adds commands for objects that there are.
LEMMA CallStep ==
  ASSUME IInv, NEW o \in DOMAIN objects, NEW k \in Kernels(o),
         RequestLease(k, o) \/ JoinWifi(k, o)
  PROVE  IInv'
<1> DEFINE nic == IF k = OldKernel THEN o ELSE 0
<1>1. Same /\ nics' = nics /\ pending' = pending
  BY DEF RequestLease, JoinWifi, Same, kernelVars
<1>2. ASSUME NEW d \in commands' \ commands PROVE CommandOK(d)'
  <2> PICK call : call = Number(objects[o].id)
    OBVIOUS
  <2>1. CASE d \in Asks("dhcp_request", call, k, objects[o].id, o)
    BY <1>1, <2>1, KernelsAre DEF Asks, CommandOK, OfObject, Asked, Same
  <2>2. CASE d \in Asks("wifi_join", call, k, objects[o].id, nic)
    <3>1. /\ d = [f \in Asked |-> d[f]] /\ d.command = "wifi_join" /\ d.machine = k
          /\ d.id = objects[o].id /\ d.nic = nic
      BY <2>2 DEF Asks, Asked
    <3> QED BY <1>1, <3>1, KernelsAre DEF CommandOK, OfObject, Same
  <2> QED BY <1>2, <2>1, <2>2 DEF RequestLease, JoinWifi, Invoke
<1> QED BY <1>1, <1>2, QuietStep

LEMMA RouteStep ==
  ASSUME IInv, NEW k, NEW c, (\E id : AddRoute(k, c, id)) \/ RouteDel(k, c)
  PROVE  IInv'
BY QuietStep DEF AddRoute, RouteDel, hubVars, Same

\* The answer carries the lease of the id that its object has.
LEMMA AnswerStep ==
  ASSUME IInv, NEW c \in commands, GetLease(c) \/ JoinedWifi(c) \/ Receive(c)
  PROVE  IInv'
<1>1. CASE GetLease(c)
  <2> DEFINE new == [objects[c.nic] EXCEPT !.ip = c.host]
  <2>1. /\ c.nic \in DOMAIN objects /\ objects[c.nic].id = c.id
        /\ c.host # ByHand /\ Leased(c.id, c.host) /\ ObjectsOK
    BY <1>1 DEF GetLease, IInv, CommandOK, OfObject
  <2>2. /\ new.id = objects[c.nic].id /\ Leased(new.id, new.ip)
        /\ new = [f \in Fields |-> new[f]]
    BY <2>1 DEF ObjectsOK
  <2>3. /\ objects' = [objects EXCEPT ![c.nic] = new]
        /\ leases' = leases /\ nextHost' = nextHost /\ nics' = nics /\ pending' = pending
        /\ commands' \subseteq commands
    BY <1>1 DEF GetLease
  <2> HIDE DEF new
  <2> QED BY <2>2, <2>3, FieldStep
<1>2. CASE JoinedWifi(c)
  <2>1. Same /\ nics' = nics /\ pending' = pending
    BY <1>2 DEF JoinedWifi, Same, kernelVars
  <2>2. CommandOK(c) /\ c.command = "wifi_join"
    BY <1>2 DEF JoinedWifi, IInv
  <2>3. Found(c) # 0 => Found(c) \in DOMAIN objects /\ objects[Found(c)].id = c.id
    BY <2>2 DEF Found, CommandOK, OfObject, IInv, NicsOK
  <2>4. ASSUME NEW d \in commands' \ commands PROVE CommandOK(d)'
    <3>1. Found(c) # 0 /\ d \in Asks("dhcp_request", c.call, c.machine, c.id, Found(c))
      BY <1>2, <2>4 DEF JoinedWifi
    <3> QED BY <2>1, <2>2, <2>3, <3>1 DEF Asks, CommandOK, OfObject, Asked, Same
  <2> QED BY <2>1, <2>4, QuietStep
<1>3. CASE Receive(c)
  <2> DEFINE rx == objects[c.nic].rx \o c.frames
             new == [objects[c.nic] EXCEPT !.rx = IF rx = <<>> THEN rx ELSE Tail(rx)]
  <2>1. c.nic \in DOMAIN objects =>
          /\ new.id = objects[c.nic].id /\ Leased(new.id, new.ip)
          /\ new = [f \in Fields |-> new[f]]
    BY DEF IInv, ObjectsOK, Fields
  <2>2. /\ objects' = [objects EXCEPT ![c.nic] = new]
        /\ leases' = leases /\ nextHost' = nextHost /\ nics' = nics /\ pending' = pending
        /\ commands' \subseteq commands
    BY <1>3 DEF Receive
  <2> HIDE DEF new
  <2> QED BY <2>1, <2>2, FieldStep
<1> QED BY <1>1, <1>2, <1>3

LEMMA FrameStep ==
  ASSUME IInv, NEW o, NEW dst, Ask(o) \/ Take(o) \/ Send(o, dst)
  PROVE  IInv'
<1>1. CASE Ask(o)
  <2>1. Same /\ nics' = nics /\ pending' = pending
    BY <1>1 DEF Ask, Same, kernelVars
  <2>2. \A d \in commands' \ commands : CommandOK(d)'
    BY <1>1, PlainIsOK DEF Ask, Invoke, Plain
  <2> QED BY <2>1, <2>2, QuietStep
<1>2. CASE Take(o)
  <2> DEFINE new == [objects[o] EXCEPT !.rx = Tail(@)]
  <2>1. o \in DOMAIN objects =>
          /\ new.id = objects[o].id /\ Leased(new.id, new.ip)
          /\ new = [f \in Fields |-> new[f]]
    BY DEF IInv, ObjectsOK, Fields
  <2>2. /\ objects' = [objects EXCEPT ![o] = new]
        /\ leases' = leases /\ nextHost' = nextHost /\ nics' = nics /\ pending' = pending
        /\ commands' \subseteq commands
    BY <1>2 DEF Take, hubVars
  <2> HIDE DEF new
  <2> QED BY <2>1, <2>2, FieldStep
<1>3. CASE Send(o, dst)
  <2>1. Same /\ nics' = nics /\ pending' = pending
    BY <1>3 DEF Send, Same
  <2>2. \A d \in commands' \ commands : CommandOK(d)'
    BY <1>3, PlainIsOK DEF Send, Invoke, Plain
  <2> QED BY <2>1, <2>2, QuietStep
<1> QED BY <1>1, <1>2, <1>3

\* A listing of a set without repetition has each of its members.
LEMMA Listing ==
  ASSUME NEW S, IsFiniteSet(S), NEW s \in SetToSeqs(S)
  PROVE  /\ s \in Seq(S) /\ \A x \in S : \E i \in DOMAIN s : s[i] = x
         /\ \A i, j \in DOMAIN s : i # j => s[i] # s[j]
<1> DEFINE n == Cardinality(S)
<1>1. n \in Nat
  BY FS_CardinalityType
<1>2. s \in [1..n -> S] /\ \A i, j \in 1..n : i # j => s[i] # s[j]
  BY DEF SetToSeqs
<1>3. IsFiniteSet(1..n) /\ Cardinality(1..n) = n
  BY <1>1, FS_Interval
<1>4. s \in Injection(1..n, S)
  BY <1>2 DEF Injection, IsInjective
<1>5. s \in Surjection(1..n, S)
  BY <1>3, <1>4, FS_Injection
<1>6. s \in Seq(S)
  BY <1>1, <1>2, SeqDef
<1> QED BY <1>2, <1>5, <1>6 DEF Surjection

\* startNetworking puts an object for each interface of pendingNics behind
\* those that there are.
LEMMA NewObjects ==
  ASSUME IInv, NEW k \in Machine, StartNetworking(k)
  PROVE  \E new \in Seq(pending[k]) :
           /\ nics' = [nics EXCEPT ![k] = NewNics(k, new)]
           /\ \A p \in pending[k] : \E i \in DOMAIN new : new[i] = p
           /\ \A i, j \in DOMAIN new : i # j => new[i] # new[j]
           /\ objects' \in Seq(Range(objects'))
           /\ Len(objects) \in Nat /\ Len(new) \in Nat
           /\ DOMAIN objects = 1..Len(objects) /\ DOMAIN new = 1..Len(new)
           /\ DOMAIN objects' = 1..(Len(objects) + Len(new))
           /\ \A o \in DOMAIN objects' :
                objects'[o] = IF o \in DOMAIN objects THEN objects[o] ELSE new[o - Len(objects)]
<1> DEFINE n == Len(objects)
<1>1. IsFiniteSet(pending[k])
  BY DEF IInv, PendingOK
<1>2. PICK new \in SetToSeqs(pending[k]) :
        objects' = objects \o new /\ nics' = [nics EXCEPT ![k] = NewNics(k, new)]
  BY DEF StartNetworking
<1>3. /\ new \in Seq(pending[k]) /\ \A p \in pending[k] : \E i \in DOMAIN new : new[i] = p
      /\ \A i, j \in DOMAIN new : i # j => new[i] # new[j]
  BY <1>1, <1>2, Listing
<1>4. /\ objects' \in Seq(Range(objects'))
      /\ n \in Nat /\ Len(new) \in Nat
      /\ DOMAIN objects = 1..n /\ DOMAIN new = 1..Len(new) /\ DOMAIN objects' = 1..(n + Len(new))
      /\ \A o \in DOMAIN objects' :
           objects'[o] = IF o \in DOMAIN objects THEN objects[o] ELSE new[o - n]
  <2> DEFINE T == Range(objects) \cup pending[k]
  <2>1. objects \in Seq(Range(objects)) /\ Range(objects) \subseteq T /\ pending[k] \subseteq T
    BY DEF IInv, ObjectsOK
  <2> HIDE DEF T
  <2>2. objects \in Seq(T) /\ new \in Seq(T)
    BY <1>3, <2>1, SeqMonotonic
  <2>3. n \in Nat /\ Len(new) \in Nat /\ DOMAIN objects = 1..n /\ DOMAIN new = 1..Len(new)
    BY <2>2, LenProperties
  <2>4. /\ objects \o new \in Seq(T) /\ Len(objects \o new) = n + Len(new)
        /\ \A i \in 1..(n + Len(new)) :
             (objects \o new)[i] = IF i <= n THEN objects[i] ELSE new[i - n]
    BY <2>2, ConcatProperties
  <2>5. /\ objects' \in Seq(T) /\ Len(objects') = n + Len(new)
        /\ \A i \in 1..(n + Len(new)) :
             objects'[i] = IF i <= n THEN objects[i] ELSE new[i - n]
    BY <1>2, <2>4
  <2>6. objects' \in Seq(Range(objects')) /\ DOMAIN objects' = 1..Len(objects')
    BY <2>5, SeqOfRange, LenProperties
  <2> QED BY <2>3, <2>5, <2>6
<1> QED BY <1>2, <1>3, <1>4

\* The interfaces of pendingNics keep the addresses they were saved with.
LEMMA StartStep ==
  ASSUME IInv, NEW k \in Machine, StartNetworking(k)
  PROVE  IInv'
<1> DEFINE n == Len(objects)
<1>1. /\ IsFiniteSet(pending[k])
      /\ \A p \in pending[k] : /\ Leased(p.id, p.ip)
                               /\ p = [f \in Fields |-> p[f]]
  BY DEF IInv, PendingOK
<1>2. PICK new \in Seq(pending[k]) :
        /\ nics' = [nics EXCEPT ![k] = NewNics(k, new)]
        /\ \A p \in pending[k] : \E i \in DOMAIN new : new[i] = p
        /\ objects' \in Seq(Range(objects')) /\ n \in Nat /\ Len(new) \in Nat
        /\ DOMAIN objects = 1..n /\ DOMAIN new = 1..Len(new) /\ DOMAIN objects' = 1..(n + Len(new))
        /\ \A o \in DOMAIN objects' :
             objects'[o] = IF o \in DOMAIN objects THEN objects[o] ELSE new[o - n]
  BY NewObjects
<1>3. \A p \in pending[k] : \E i \in DOMAIN new : new[i] = p
  BY <1>2
<1>4. /\ objects' \in Seq(Range(objects')) /\ n \in Nat /\ Len(new) \in Nat
      /\ DOMAIN objects = 1..n /\ DOMAIN new = 1..Len(new) /\ DOMAIN objects' = 1..(n + Len(new))
      /\ \A o \in DOMAIN objects' :
           objects'[o] = IF o \in DOMAIN objects THEN objects[o] ELSE new[o - n]
  BY <1>2
<1>5. UNCHANGED <<leases, nextHost>> /\ pending' = [pending EXCEPT ![k] = {}]
  BY DEF StartNetworking
<1> HIDE DEF n
<1>6. Grows
  BY <1>4, <1>5 DEF Grows
<1>7. ObjectsOK'
  <2>1. ASSUME NEW o \in DOMAIN objects', o \notin DOMAIN objects
        PROVE  objects'[o] \in pending[k]
    BY <1>3, <1>4, <2>1
  <2>2. \A o \in DOMAIN objects' : Leased(objects[o].id, objects[o].ip)'
    BY <1>1, <1>4, <1>5, <2>1 DEF IInv, ObjectsOK, Leased
  <2>3. \A o \in DOMAIN objects' :
          objects'[o] = [f \in Fields |-> objects'[o][f]]
    BY <1>1, <1>4, <2>1 DEF IInv, ObjectsOK
  <2> QED BY <1>4, <2>2, <2>3 DEF ObjectsOK, Range
<1>8. NicsOK'
  <2> DEFINE at(id) == CHOOSE i \in DOMAIN new : new[i].id = id
  <2>1. /\ nics' = [j \in Machine |-> nics'[j]]
        /\ \A j \in Machine : j # k => nics'[j] = nics[j]
        /\ nics'[k] = [id \in {p.id : p \in pending[k]} |-> n + at(id)]
    <3>1. NewNics(k, new) = [id \in {p.id : p \in pending[k]} |-> n + at(id)]
      BY DEF NewNics, n
    <3> HIDE DEF at, n
    <3> QED BY <1>2, <3>1 DEF IInv, NicsOK
  <2>2. ASSUME NEW id \in DOMAIN nics'[k]
        PROVE  nics'[k][id] \in DOMAIN objects' /\ objects'[nics'[k][id]].id = id
    <3>1. \E i \in DOMAIN new : new[i].id = id
      BY <1>3, <2>1
    <3>2. at(id) \in DOMAIN new /\ new[at(id)].id = id
      BY <3>1
    <3>3. nics'[k][id] = n + at(id)
      BY <2>1
    <3> HIDE DEF at
    <3>4. at(id) \in 1..Len(new) /\ n + at(id) \notin DOMAIN objects
      BY <1>4, <3>2
    <3> QED BY <1>4, <3>2, <3>3, <3>4
  <2>3. \A j \in Machine : \A i \in DOMAIN nics[j] :
          nics[j][i] \in DOMAIN objects' /\ objects'[nics[j][i]].id = i
    BY <1>6 DEF Grows, IInv, NicsOK
  <2>4. ASSUME NEW j \in Machine, NEW i \in DOMAIN nics'[j]
        PROVE  nics'[j][i] \in DOMAIN objects' /\ objects'[nics'[j][i]].id = i
    <3>1. CASE j = k
      BY <2>2, <3>1
    <3>2. CASE j # k
      BY <2>1, <2>3, <3>2
    <3> QED BY <3>1, <3>2
  <2>5. nics' = [j \in Machine |-> nics'[j]]
    BY <2>1
  <2> QED BY <2>4, <2>5 DEF NicsOK
<1>9. PendingOK'
  <2>1. /\ pending' = [j \in Machine |-> pending'[j]] /\ pending'[k] = {}
        /\ \A j \in Machine : j # k => pending'[j] = pending[j]
    BY <1>5 DEF IInv, PendingOK
  <2>2. IsFiniteSet({})
    BY FS_EmptySet
  <2>3. \A j \in Machine : \A p \in pending'[j] : j # k /\ p \in pending[j]
    BY <2>1
  <2>4. \A j \in Machine : IsFiniteSet(pending'[j])
    BY <2>1, <2>2 DEF IInv, PendingOK
  <2>5. \A j \in Machine : \A p \in pending'[j] :
          /\ Leased(p.id, p.ip)'
          /\ p = [f \in Fields |-> p[f]]
    BY <1>5, <2>3 DEF IInv, PendingOK, Leased
  <2> QED BY <2>1, <2>4, <2>5 DEF PendingOK
<1>10. LeasesOK'
  BY <1>5 DEF IInv, LeasesOK, IsInjective
<1>11. \A c \in commands' \ commands : CommandOK(c)'
  BY PlainIsOK DEF StartNetworking, Invoke, Registration, Plain
<1> QED BY <1>6, <1>7, <1>8, <1>9, <1>10, <1>11, GrowsKeeps DEF IInv

\* A reboot saves the interfaces that there are, with their addresses.
LEMMA RebootStep ==
  ASSUME IInv, NEW k \in Machine, Reboot(k)
  PROVE  IInv'
<1> DEFINE saved == {objects[nics[k][id]] : id \in DOMAIN nics[k]}
<1>1. UNCHANGED <<leases, nextHost>>
  BY DEF Reboot
<1>2. pending' = [pending EXCEPT ![k] = saved] /\ nics' = [nics EXCEPT ![k] = <<>>]
  BY DEF Reboot
<1>3. objects \in Seq(Range(objects))
  BY DEF IInv, ObjectsOK
<1>4. /\ DOMAIN objects' = DOMAIN objects
      /\ \A o \in DOMAIN objects : objects'[o] =
           IF o \in Range(nics[k]) THEN [objects[o] EXCEPT !.left = reboots + 1] ELSE objects[o]
  BY DEF Reboot
<1>5. objects' \in Seq(Range(objects'))
  <2> DEFINE U == {objects'[o] : o \in DOMAIN objects}
  <2>1. objects' = [o \in DOMAIN objects |-> objects'[o]]
    BY DEF Reboot
  <2>2. objects' \in [DOMAIN objects -> U]
    BY <2>1
  <2> HIDE DEF U
  <2> QED BY <1>3, <2>2, ChangedObject
<1>6. Grows
  BY <1>1, <1>4 DEF Grows, IInv, ObjectsOK, Fields
<1>7. ObjectsOK'
  <2>1. \A o \in DOMAIN objects' : Leased(objects[o].id, objects[o].ip)'
    BY <1>1, <1>4 DEF IInv, ObjectsOK, Leased, Fields
  <2>2. \A o \in DOMAIN objects' :
          objects'[o] = [f \in Fields |-> objects'[o][f]]
    BY <1>4 DEF IInv, ObjectsOK
  <2> QED BY <1>5, <2>1, <2>2 DEF ObjectsOK, Range
<1>8. NicsOK'
  <2>1. /\ nics' = [j \in Machine |-> nics'[j]] /\ DOMAIN nics'[k] = {}
        /\ \A j \in Machine : j # k => nics'[j] = nics[j]
    BY <1>2 DEF IInv, NicsOK
  <2> QED BY <1>6, <2>1 DEF IInv, NicsOK, Grows
<1>9. PendingOK'
  <2>1. /\ pending' = [j \in Machine |-> pending'[j]] /\ pending'[k] = saved
        /\ \A j \in Machine : j # k => pending'[j] = pending[j]
    BY <1>2 DEF IInv, PendingOK
  <2>2. \A p \in saved : \E o \in DOMAIN objects : p = objects[o]
    BY DEF IInv, NicsOK
  <2>3. IsFiniteSet(saved)
    <3>1. Len(objects) \in Nat /\ DOMAIN objects = 1..Len(objects)
      BY <1>3, LenProperties
    <3>2. IsFiniteSet(1..Len(objects))
      BY <3>1, FS_Interval
    <3>3. objects \in [1..Len(objects) -> Range(objects)]
      BY <1>3, LenProperties
    <3>4. objects \in Surjection(1..Len(objects), Range(objects))
      BY <3>1, <3>3 DEF Surjection, Range
    <3>5. IsFiniteSet(Range(objects))
      BY <3>2, <3>4, FS_Surjection
    <3>6. saved \subseteq Range(objects)
      BY <2>2 DEF Range
    <3> HIDE DEF saved
    <3> QED BY <3>5, <3>6, FS_Subset
  <2>4. \A p \in saved : /\ Leased(p.id, p.ip)'
                         /\ p = [f \in Fields |-> p[f]]
    BY <1>1, <2>2 DEF IInv, ObjectsOK, Leased
  <2> HIDE DEF saved
  <2>5. \A j \in Machine : IsFiniteSet(pending'[j])
    BY <2>1, <2>3 DEF IInv, PendingOK
  <2>6. \A j \in Machine : \A p \in pending'[j] :
          /\ Leased(p.id, p.ip)'
          /\ p = [f \in Fields |-> p[f]]
    BY <1>1, <2>1, <2>4 DEF IInv, PendingOK, Leased
  <2> QED BY <2>1, <2>5, <2>6 DEF PendingOK
<1>10. LeasesOK'
  BY <1>1 DEF IInv, LeasesOK, IsInjective
<1>11. ASSUME NEW d \in commands' PROVE CommandOK(d)'
  <2>1. CASE d \in Registration(saved)
    BY <2>1, PlainIsOK DEF Registration, Plain
  <2>2. ASSUME NEW c \in commands, d = Orphaned(c, k) PROVE CommandOK(d)'
    <3>1. CommandOK(c) /\ CommandOK(c)'
      BY <1>6, GrowsKeeps DEF IInv
    <3>2. CASE d = c
      BY <3>1, <3>2
    <3>3. CASE d # c
      <4> DEFINE nic == IF c.command = "wifi_join" THEN Found(c) ELSE c.nic
      <4>1. /\ c.command \in {"dhcp_request", "leased", "wifi_join"} /\ c.machine = k
            /\ d = [c EXCEPT !.machine = OldKernel, !.nic = nic]
        BY <2>2, <3>3 DEF Orphaned
      <4> HIDE DEF nic
      <4>2. c = [f \in Asked |-> c[f]]
        BY <3>1, <4>1 DEF CommandOK
      <4>3. /\ d = [f \in Asked |-> d[f]] /\ d.command = c.command /\ d.machine = OldKernel
            /\ d.nic = nic /\ d.id = c.id /\ d.host = c.host
        BY <4>1, <4>2 DEF Asked
      <4>4. nic # 0 => nic \in DOMAIN objects' /\ objects'[nic].id = c.id
        <5>1. nic # 0 => nic \in DOMAIN objects /\ objects[nic].id = c.id
          BY <3>1, <4>1, NetAssumption DEF nic, Found, CommandOK, OfObject, IInv, NicsOK
        <5> QED BY <1>6, <5>1 DEF Grows
      <4>5. c.command # "wifi_join" => nic = c.nic
        BY DEF nic
      <4> QED BY <3>1, <4>1, <4>3, <4>4, <4>5 DEF CommandOK, OfObject
    <3> QED BY <3>2, <3>3
  <2> QED BY <2>1, <2>2 DEF Reboot
<1> QED BY <1>6, <1>7, <1>8, <1>9, <1>10, <1>11, GrowsKeeps DEF IInv

-----------------------------------------------------------------------------
LEMMA IInvInit ==
  ASSUME Init
  PROVE  IInv
<1>1. LeasesOK
  BY HubAssumption, FS_EmptySet DEF Init, HubInit, LeasesOK, IsInjective
<1>2. ObjectsOK
  <2>1. objects = <<>> /\ DOMAIN objects = {}
    BY DEF Init
  <2>2. objects \in Seq(Range(objects))
    BY <2>1, EmptySeq
  <2> QED BY <2>1, <2>2 DEF ObjectsOK
<1>3. NicsOK
  BY DEF Init, NicsOK
<1>4. PendingOK
  BY FS_EmptySet DEF Init, PendingOK
<1>5. \A c \in commands : CommandOK(c)
  BY DEF Init, HubInit
<1> QED BY <1>1, <1>2, <1>3, <1>4, <1>5 DEF IInv

LEMMA IInvNext ==
  ASSUME IInv, [Next]_vars
  PROVE  IInv'
<1>1. CASE HandleCommand /\ UNCHANGED kernelVars
  BY <1>1, HubStep
<1>2. ASSUME NEW k \in Machine, NEW id \in NicId,
             \/ \E mac \in Mac, kind \in Kind : CreateNic(k, id, mac, kind)
             \/ RemoveNic(k, id)
             \/ \E c \in Cidr : AddRoute(k, c, id)
      PROVE  IInv'
  BY <1>2, CreateStep, RemoveStep, RouteStep
<1>3. ASSUME NEW k \in Machine, NEW c \in Cidr, RouteDel(k, c)
      PROVE  IInv'
  BY <1>3, RouteStep
<1>4. ASSUME NEW c \in commands, GetLease(c) \/ JoinedWifi(c) \/ Receive(c)
      PROVE  IInv'
  BY <1>4, AnswerStep
<1>5. ASSUME NEW o \in DOMAIN objects, NEW k \in Kernels(o),
             \/ NicConfig(o) \/ RequestLease(k, o) \/ JoinWifi(k, o)
             \/ Ask(o) \/ Take(o) \/ \E dst \in Mac \cup {Unknown} : Send(o, dst)
      PROVE  IInv'
  BY <1>5, ConfigStep, CallStep, FrameStep
<1>6. ASSUME NEW k \in Machine, StartNetworking(k) \/ Reboot(k)
      PROVE  IInv'
  BY <1>6, StartStep, RebootStep
<1>7. CASE UNCHANGED vars
  <2>1. Same /\ nics' = nics /\ pending' = pending /\ commands' = commands
    BY <1>7 DEF vars, hubVars, Same
  <2> QED BY <2>1, QuietStep
<1> QED BY <1>1, <1>2, <1>3, <1>4, <1>5, <1>6, <1>7 DEF Next

\* In every reachable state an address that DHCP gave is leased to the
\* interface id that has it, and to no other (dhcp_request of main.rs and of
\* syscalls.ts), however requests, removals and reboots interleave.
THEOREM AddressesAreLeased == Spec => []AddressIsLeased
<1>1. IInv => AddressIsLeased
  BY DEF IInv, LeasesOK, ObjectsOK, Leased, AddressIsLeased
<1> QED BY <1>1, IInvInit, IInvNext, PTL DEF Spec

-----------------------------------------------------------------------------
(* The router and the routes *)

RouterOK ==
  /\ routes = [k \in Machine |-> routes[k]] /\ router = [k \in Machine |-> router[k]]
  /\ \A k \in Machine :
       /\ IsFiniteSet(DOMAIN routes[k])
       /\ router[k] \in Seq(Range(router[k]))
       /\ \A r \in Range(router[k]) : \E c \in DOMAIN routes[k] : c.net = r.net

\* What an addition of entries leaves of the list.
LEMMA EntriesAdded ==
  ASSUME NEW s, s \in Seq(Range(s)), NEW t, t \in Seq(Range(t))
  PROVE  /\ s \o t \in Seq(Range(s \o t))
         /\ \A r \in Range(s \o t) : r \in Range(s) \/ r \in Range(t)
<1> DEFINE T == Range(s) \cup Range(t)
<1>1. s \in Seq(T) /\ t \in Seq(T)
  <2>1. Range(s) \subseteq T /\ Range(t) \subseteq T
    OBVIOUS
  <2> HIDE DEF T
  <2> QED  BY <2>1, SeqMonotonic
<1> HIDE DEF T
<1>2. s \o t \in Seq(T)
  BY <1>1, ConcatProperties
<1> PICK l \in Seq(T) : l = s \o t
  BY <1>2
<1>3. l \in Seq(Range(l)) /\ \A r \in Range(l) : r \in T
  <2>1. l \in Seq(Range(l))
    BY SeqOfRange
  <2>2. ASSUME NEW r \in Range(l) PROVE r \in T
    BY RangeIn
  <2> QED  BY <2>1, <2>2
<1> QED  BY <1>3 DEF T

\* A step that changes the entries of one machine.
LEMMA OneRouter ==
  ASSUME RouterOK, NEW k, NEW m, NEW l,
         routes' = [routes EXCEPT ![k] = m], router' = [router EXCEPT ![k] = l],
         k \in Machine => /\ IsFiniteSet(DOMAIN m) /\ l \in Seq(Range(l))
                          /\ \A r \in Range(l) : \E c \in DOMAIN m : c.net = r.net
  PROVE  RouterOK'
<1>1. /\ routes' = [j \in Machine |-> routes'[j]] /\ router' = [j \in Machine |-> router'[j]]
      /\ \A j \in Machine : /\ routes'[j] = IF j = k THEN m ELSE routes[j]
                            /\ router'[j] = IF j = k THEN l ELSE router[j]
  BY DEF RouterOK
<1>2. ASSUME NEW j \in Machine
      PROVE  /\ IsFiniteSet(DOMAIN routes'[j])
             /\ router'[j] \in Seq(Range(router'[j]))
             /\ \A r \in Range(router'[j]) : \E c \in DOMAIN routes'[j] : c.net = r.net
  <2>1. CASE j = k
    BY <1>1, <2>1
  <2>2. CASE j # k
    BY <1>1, <2>2 DEF RouterOK
  <2> QED  BY <2>1, <2>2
<1> QED  BY <1>1, <1>2 DEF RouterOK

LEMMA RoutersKept ==
  ASSUME RouterOK, UNCHANGED <<routes, router>>
  PROVE  RouterOK'
<1>1. routes' = routes /\ router' = router
  OBVIOUS
<1> QED  BY <1>1 DEF RouterOK

\* addRoute of router.ts and the entry of state.routes go together.
LEMMA RouteAddStep ==
  ASSUME RouterOK, NEW k, NEW c, NEW id, RouteAdd(k, c, id)
  PROVE  RouterOK'
<1>1. CASE id \in DOMAIN nics[k]
  <2> PICK r : r = [net |-> c.net, nic |-> nics[k][id]]
    OBVIOUS
  <2> DEFINE m == Set(routes[k], c, id)
             l == Append(router[k], r)
  <2>1. routes' = [routes EXCEPT ![k] = m] /\ router' = [router EXCEPT ![k] = l]
    BY <1>1 DEF RouteAdd, Routed
  <2>2. ASSUME k \in Machine
        PROVE  /\ IsFiniteSet(DOMAIN m) /\ l \in Seq(Range(l))
               /\ \A e \in Range(l) : \E d \in DOMAIN m : d.net = e.net
    <3>1. /\ IsFiniteSet(DOMAIN routes[k]) /\ router[k] \in Seq(Range(router[k]))
          /\ \A e \in Range(router[k]) : \E d \in DOMAIN routes[k] : d.net = e.net
      BY <2>2 DEF RouterOK
    <3>2. DOMAIN m = DOMAIN routes[k] \cup {c}
      BY DEF Set
    <3>3. IsFiniteSet(DOMAIN m)
      BY <3>1, <3>2, FS_AddElement
    <3> PICK s : s = router[k]
      OBVIOUS
    <3>4. /\ Append(s, r) \in Seq(Range(Append(s, r)))
          /\ \A e \in Range(Append(s, r)) : e \in Range(s) \/ e = r
      <4> DEFINE T == Range(s) \cup {r}
      <4>1. s \in Seq(T)
        <5>1. s \in Seq(Range(s)) /\ Range(s) \subseteq T
          BY <3>1
        <5> HIDE DEF T
        <5> QED  BY <5>1, SeqMonotonic
      <4>2. r \in T
        OBVIOUS
      <4> HIDE DEF T
      <4> PICK x \in Seq(T) : x = Append(s, r)
        BY <4>1, <4>2, AppendProperties
      <4>3. x \in Seq(Range(x)) /\ \A e \in Range(x) : e \in T
        BY SeqOfRange, RangeIn
      <4> QED  BY <4>3 DEF T
    <3>5. ASSUME NEW e \in Range(l) PROVE \E d \in DOMAIN m : d.net = e.net
      BY <3>1, <3>2, <3>4
    <3> QED  BY <3>3, <3>4, <3>5
  <2> HIDE DEF m, l
  <2> QED  BY <2>1, <2>2, OneRouter
<1>2. CASE id \notin DOMAIN nics[k]
  BY <1>2, RoutersKept DEF RouteAdd
<1> QED  BY <1>1, <1>2

\* removeRoute takes every entry of the network, whatever text added it.
LEMMA RouteDelStep ==
  ASSUME RouterOK, NEW k \in Machine, NEW c, RouteDel(k, c)
  PROVE  RouterOK'
<1> DEFINE m == [d \in DOMAIN routes[k] \ {c} |-> routes[k][d]]
           S == {r \in Range(router[k]) : r.net # c.net}
           l == Filter(router[k], S)
<1>1. routes' = [routes EXCEPT ![k] = m] /\ router' = [router EXCEPT ![k] = l]
  BY DEF RouteDel, Unrouted
<1>2. /\ IsFiniteSet(DOMAIN routes[k]) /\ router[k] \in Seq(Range(router[k]))
      /\ \A r \in Range(router[k]) : \E d \in DOMAIN routes[k] : d.net = r.net
  BY DEF RouterOK
<1>3. IsFiniteSet(DOMAIN m)
  BY <1>2, FS_RemoveElement
<1>4. l \in Seq(Range(router[k]) \cap S) /\ Range(l) = Range(router[k]) \cap S
  <2> HIDE DEF S
  <2> QED  BY <1>2, FilterRange
<1>5. l \in Seq(Range(l))
  BY <1>4
<1>6. ASSUME NEW r \in Range(l) PROVE \E d \in DOMAIN m : d.net = r.net
  <2>1. r \in Range(router[k]) /\ r.net # c.net
    BY <1>4
  <2>2. PICK d \in DOMAIN routes[k] : d.net = r.net
    BY <1>2, <2>1
  <2> QED  BY <2>1, <2>2
<1> HIDE DEF m, l
<1> QED  BY <1>1, <1>3, <1>5, <1>6, OneRouter

\* After the login the router gets routes of state.routes.
LEMMA RouterStart ==
  ASSUME RouterOK, NEW k \in Machine, StartNetworking(k)
  PROVE  RouterOK'
<1>1. /\ IsFiniteSet(DOMAIN routes[k]) /\ router[k] \in Seq(Range(router[k]))
      /\ \A r \in Range(router[k]) : \E d \in DOMAIN routes[k] : d.net = r.net
  BY DEF RouterOK
<1>2. PICK made : \E live \in SetToSeqs(LiveRoutes(k, made)) :
                    router' = [router EXCEPT ![k] = @ \o Entries(k, made, live)]
  BY DEF StartNetworking
<1> DEFINE L == LiveRoutes(k, made)
<1>3. IsFiniteSet(L) /\ L \subseteq DOMAIN routes[k]
  BY <1>1, FS_Subset DEF LiveRoutes
<1>4. PICK live \in SetToSeqs(L) : router' = [router EXCEPT ![k] = @ \o Entries(k, made, live)]
  BY <1>2
<1> HIDE DEF L
<1>5. live \in Seq(L)
  BY <1>3, <1>4, Listing
<1> DEFINE new == Entries(k, made, live)
<1>6. new \in Seq(Range(new)) /\ \A r \in Range(new) : \E d \in DOMAIN routes[k] : d.net = r.net
  <2>1. Len(live) \in Nat /\ DOMAIN live = 1..Len(live) /\ \A i \in DOMAIN live : live[i] \in L
    BY <1>5, LenProperties, ElementOfSeq
  <2>2. new \in [1..Len(live) -> Range(new)]
    BY <2>1 DEF Range, Entries
  <2>3. ASSUME NEW i \in DOMAIN live PROVE \E d \in DOMAIN routes[k] : d.net = new[i].net
    BY <1>3, <2>1 DEF Entries
  <2>4. \A r \in Range(new) : \E i \in DOMAIN live : r = new[i]
    BY DEF Range, Entries
  <2> HIDE DEF new
  <2>5. new \in Seq(Range(new))
    BY <2>1, <2>2, SeqDef
  <2> QED  BY <2>3, <2>4, <2>5
<1> DEFINE l == router[k] \o new
<1>7. routes' = [routes EXCEPT ![k] = routes[k]] /\ router' = [router EXCEPT ![k] = l]
  BY <1>4 DEF StartNetworking, RouterOK
<1> HIDE DEF new
<1>8. l \in Seq(Range(l)) /\ \A r \in Range(l) : r \in Range(router[k]) \/ r \in Range(new)
  <2> PICK s : s = router[k]
    OBVIOUS
  <2> QED  BY <1>1, <1>6, EntriesAdded
<1>9. \A r \in Range(l) : \E d \in DOMAIN routes[k] : d.net = r.net
  BY <1>1, <1>6, <1>8
<1> HIDE DEF l
<1> QED  BY <1>1, <1>7, <1>8, <1>9, OneRouter

LEMMA RouterStep == RouterOK /\ [Next]_vars => RouterOK'
<1> SUFFICES ASSUME RouterOK, [Next]_vars PROVE RouterOK'
  OBVIOUS
<1>1. CASE HandleCommand /\ UNCHANGED kernelVars
  BY <1>1, RoutersKept DEF kernelVars
<1>2. ASSUME NEW k \in Machine, NEW id \in NicId, NEW mac, NEW kind,
             CreateNic(k, id, mac, kind) \/ RemoveNic(k, id)
      PROVE  RouterOK'
  BY <1>2, RoutersKept DEF CreateNic, RemoveNic
<1>3. ASSUME NEW k \in Machine, NEW id \in NicId, NEW c \in Cidr, AddRoute(k, c, id)
      PROVE  RouterOK'
  BY <1>3, RouteAddStep DEF AddRoute
<1>4. ASSUME NEW k \in Machine, NEW c \in Cidr, RouteDel(k, c)
      PROVE  RouterOK'
  BY <1>4, RouteDelStep
<1>5. ASSUME NEW c, GetLease(c)
      PROVE  RouterOK'
  BY <1>5, RouteAddStep, RoutersKept DEF GetLease
<1>6. ASSUME NEW c, JoinedWifi(c) \/ Receive(c)
      PROVE  RouterOK'
  BY <1>6, RoutersKept DEF JoinedWifi, Receive, kernelVars
<1>7. ASSUME NEW o, NEW k, NEW dst,
             \/ NicConfig(o) \/ RequestLease(k, o) \/ JoinWifi(k, o)
             \/ Ask(o) \/ Take(o) \/ Send(o, dst)
      PROVE  RouterOK'
  BY <1>7, RoutersKept DEF NicConfig, RequestLease, JoinWifi, Ask, Take, Send, kernelVars
<1>8. ASSUME NEW k \in Machine, Reboot(k)
      PROVE  RouterOK'
  <2> DEFINE l == <<>>
  <2>1. routes' = [routes EXCEPT ![k] = routes[k]] /\ router' = [router EXCEPT ![k] = l]
    BY <1>8 DEF Reboot, RouterOK
  <2>2. IsFiniteSet(DOMAIN routes[k])
    BY DEF RouterOK
  <2>3. l \in Seq(Range(l)) /\ Range(l) = {}
    BY EmptySeq DEF Range
  <2> HIDE DEF l
  <2> QED  BY <2>1, <2>2, <2>3, OneRouter
<1>9. CASE UNCHANGED vars
  BY <1>9, RoutersKept DEF vars
<1> QED  BY <1>1, <1>2, <1>3, <1>4, <1>5, <1>6, <1>7, <1>8, <1>9, RouterStart DEF Next

\* A route that was deleted forwards nothing: in every reachable state the
\* networks of the router (addRoute, removeRoute of router.ts) are networks of
\* state.routes, whatever texts the routes were added and deleted under, and
\* over removals, late leases, logins and reboots.
THEOREM DeletedRoutesForwardNothing == Spec => []RouterKnowsOnlyRoutes
<1>1. Init => RouterOK
  <2> SUFFICES ASSUME Init PROVE RouterOK
    OBVIOUS
  <2> DEFINE e == <<>>
  <2>1. /\ routes = [k \in Machine |-> e] /\ router = [k \in Machine |-> e]
    BY DEF Init
  <2>2. DOMAIN e = {} /\ e \in Seq(Range(e)) /\ Range(e) = {} /\ IsFiniteSet({})
    BY EmptySeq, FS_EmptySet DEF Range
  <2> HIDE DEF e
  <2> QED  BY <2>1, <2>2 DEF RouterOK
<1>2. RouterOK => RouterKnowsOnlyRoutes
  BY DEF RouterOK, RouterKnowsOnlyRoutes
<1> QED  BY <1>1, <1>2, RouterStep, PTL DEF Spec

-----------------------------------------------------------------------------
(***************************************************************************)
(* Frames.  A copy that is anywhere was put there by a send that is over:  *)
(* its number is not that of a send_frame under way, so a send makes       *)
(* copies that are nowhere yet.  What else moves, moves whole: a queue     *)
(* into a reply, a reply behind what an object has, the frames of the      *)
(* snapshot into an object.  Only a reboot makes copies, of what its       *)
(* objects have received; they are of kernels of different times, and what *)
(* is on the way is in none of them.                                       *)
(***************************************************************************)
Frame == [number : Nat, src : Mac, dst : Mac \cup {Unknown}]
CopyOf == [frame : Frame, for : Mac]

UnderWay(number) == \E c \in commands : c.command = "send_frame" /\ c.frame.number = number
Sent == {x \in CopyOf : x.frame.number \in 1..frames /\ ~UnderWay(x.frame.number)}

QueuesOK ==
  /\ DOMAIN queues \subseteq Mac
  /\ \A m \in DOMAIN queues : queues[m] \in Seq(Sent)
  /\ \A id \in DOMAIN nicIds : nicIds[id] \in DOMAIN queues

RxOK == \A o \in DOMAIN objects : objects[o].mac \in Mac /\ objects[o].rx \in Seq(Sent)

SavedOK ==
  \A k \in Machine :
    /\ \A n \in pending[k] : n.mac \in Mac /\ n.rx \in Seq(Sent)
    /\ \A n, p \in pending[k] : n.id = p.id => n = p

SendOK(c) ==
  /\ c.command = "register_nic" => c.mac \in Mac
  /\ c.command = "send_frame" => c.frame \in Frame /\ c.frame.number \in 1..frames
  /\ c.command = "received" => c.frames \in Seq(Sent)

SendsOK ==
  /\ \A c \in commands : SendOK(c)
  /\ \A c, d \in commands :
       c.command = "send_frame" /\ d.command = "send_frame" /\ c.frame.number = d.frame.number => c = d

FramesOK == frames \in Nat /\ QueuesOK /\ RxOK /\ SavedOK /\ SendsOK

-----------------------------------------------------------------------------
\* A step may only begin a send that is new.
Later ==
  /\ frames' \in Nat /\ frames <= frames'
  /\ \A c \in commands' : c.command = "send_frame" =>
       c \in commands \/ c.frame.number > frames

LEMMA SentStays ==
  ASSUME FramesOK, Later
  PROVE  \A s \in Seq(Sent) : s \in Seq(Sent')
<1>1. ASSUME NEW x \in Sent PROVE x \in Sent'
  <2>1. x \in CopyOf /\ x.frame.number \in 1..frames /\ ~UnderWay(x.frame.number)
    BY DEF Sent
  <2>2. x.frame.number \in 1..frames'
    BY <2>1 DEF Later, FramesOK
  <2>3. ~UnderWay(x.frame.number)'
    BY <2>1 DEF UnderWay, Later, FramesOK
  <2> QED  BY <2>1, <2>2, <2>3 DEF Sent
<1> QED  BY <1>1, SeqMonotonic

LEMMA FramesKept ==
  ASSUME FramesOK, Later
  PROVE  /\ queues' = queues /\ nicIds' = nicIds => QueuesOK'
         /\ objects' = objects => RxOK'
         /\ pending' = pending => SavedOK'
         /\ (\A c \in commands' \ commands : SendOK(c)' /\ c.command # "send_frame") => SendsOK'
<1>1. queues' = queues /\ nicIds' = nicIds => QueuesOK'
  BY SentStays DEF FramesOK, QueuesOK
<1>2. objects' = objects => RxOK'
  BY SentStays DEF FramesOK, RxOK
<1>3. pending' = pending => SavedOK'
  BY SentStays DEF FramesOK, SavedOK
<1>4. ASSUME \A c \in commands' \ commands : SendOK(c)' /\ c.command # "send_frame"
      PROVE  SendsOK'
  <2>1. ASSUME NEW c \in commands' PROVE SendOK(c)'
    BY <1>4, SentStays DEF FramesOK, SendsOK, SendOK, Later
  <2> QED  BY <1>4, <2>1 DEF FramesOK, SendsOK
<1> QED  BY <1>1, <1>2, <1>3, <1>4

\* No send begins.
NoSend == frames' = frames /\ \A c \in commands' \ commands : c.command # "send_frame"

LEMMA NoSendIsLater ==
  ASSUME FramesOK, NoSend
  PROVE  Later
BY DEF FramesOK, NoSend, Later

\* The parts of a queue that is taken from or appended to.
LEMMA TailOf ==
  ASSUME NEW T, NEW s \in Seq(T), s # <<>>, IsInjective(s)
  PROVE  /\ Tail(s) \in Seq(T) /\ IsInjective(Tail(s))
         /\ \A x \in Range(Tail(s)) : x \in Range(s)
<1>1. /\ Len(s) \in Nat /\ Len(s) > 0 /\ DOMAIN s = 1..Len(s)
      /\ Tail(s) \in Seq(T) /\ Len(Tail(s)) = Len(s) - 1
      /\ \A i \in 1..Len(s) - 1 : Tail(s)[i] = s[i + 1]
  BY HeadTailProperties, EmptySeq
<1> PICK t \in Seq(T) : t = Tail(s)
  BY <1>1
<1>2. DOMAIN t = 1..Len(s) - 1
  BY <1>1
<1>3. ASSUME NEW i \in DOMAIN t, NEW j \in DOMAIN t, t[i] = t[j] PROVE i = j
  BY <1>1, <1>2, <1>3 DEF IsInjective
<1>4. ASSUME NEW x \in Range(t) PROVE x \in Range(s)
  BY <1>1, <1>2, <1>4 DEF Range
<1> QED  BY <1>1, <1>3, <1>4 DEF IsInjective

LEMMA ConcatOf ==
  ASSUME NEW T, NEW s \in Seq(T), NEW t \in Seq(T), IsInjective(s), IsInjective(t),
         \A x \in Range(s) : x \notin Range(t)
  PROVE  /\ s \o t \in Seq(T) /\ IsInjective(s \o t)
         /\ \A x \in Range(s \o t) : x \in Range(s) \/ x \in Range(t)
<1>1. /\ Len(s) \in Nat /\ Len(t) \in Nat /\ DOMAIN s = 1..Len(s) /\ DOMAIN t = 1..Len(t)
      /\ s \o t \in Seq(T) /\ Len(s \o t) = Len(s) + Len(t)
      /\ \A i \in 1..Len(s) + Len(t) : (s \o t)[i] = IF i <= Len(s) THEN s[i] ELSE t[i - Len(s)]
  BY ConcatProperties
<1> PICK l \in Seq(T) : l = s \o t
  BY <1>1
<1>2. DOMAIN l = 1..Len(s) + Len(t)
  BY <1>1
<1>3. ASSUME NEW i \in DOMAIN l
      PROVE  \/ i \in DOMAIN s /\ l[i] = s[i] /\ l[i] \in Range(s)
             \/ i - Len(s) \in DOMAIN t /\ l[i] = t[i - Len(s)] /\ l[i] \in Range(t)
  <2>1. CASE i <= Len(s)
    BY <1>1, <1>2, <2>1 DEF Range
  <2>2. CASE ~(i <= Len(s))
    <3>1. i - Len(s) \in DOMAIN t /\ l[i] = t[i - Len(s)]
      BY <1>1, <1>2, <2>2
    <3> QED  BY <3>1 DEF Range
  <2> QED  BY <2>1, <2>2
<1>4. ASSUME NEW i \in DOMAIN l, NEW j \in DOMAIN l, l[i] = l[j] PROVE i = j
  <2>1. CASE i \in DOMAIN s /\ l[i] = s[i] /\ l[i] \in Range(s)
    <3>1. j \in DOMAIN s /\ l[j] = s[j]
      BY <1>3, <1>4, <2>1
    <3> QED  BY <1>4, <2>1, <3>1 DEF IsInjective
  <2>2. CASE i - Len(s) \in DOMAIN t /\ l[i] = t[i - Len(s)] /\ l[i] \in Range(t)
    <3>1. j - Len(s) \in DOMAIN t /\ l[j] = t[j - Len(s)]
      BY <1>3, <1>4, <2>2
    <3>2. i - Len(s) = j - Len(s)
      BY <1>4, <2>2, <3>1 DEF IsInjective
    <3> QED  BY <1>1, <1>2, <3>2
  <2> QED  BY <1>3, <2>1, <2>2
<1>5. ASSUME NEW x \in Range(l) PROVE x \in Range(s) \/ x \in Range(t)
  BY <1>3 DEF Range
<1> QED  BY <1>1, <1>4, <1>5 DEF IsInjective

\* What is at the end of a list is its last element.
LEMMA AppendOf ==
  ASSUME NEW T, NEW s \in Seq(T), NEW x \in T
  PROVE  /\ Append(s, x) \in Seq(T)
         /\ \A i \in DOMAIN Append(s, x) :
              \/ i \in DOMAIN s /\ Append(s, x)[i] = s[i]
              \/ i = Len(s) + 1 /\ Append(s, x)[i] = x
<1>1. /\ Len(s) \in Nat /\ DOMAIN s = 1..Len(s) /\ Append(s, x) \in Seq(T)
      /\ Len(Append(s, x)) = Len(s) + 1 /\ Append(s, x)[Len(s) + 1] = x
      /\ \A i \in 1..Len(s) : Append(s, x)[i] = s[i]
  BY AppendProperties
<1>2. DOMAIN Append(s, x) = 1..Len(s) + 1
  BY <1>1
<1> QED  BY <1>1, <1>2

-----------------------------------------------------------------------------
(* The steps keep the types *)

LEMMA FramesHub ==
  ASSUME IInv, FramesOK, HandleCommand, UNCHANGED kernelVars
  PROVE  FramesOK'
<1>1. PICK c \in commands : RegisterNic(c) \/ SendFrame(c) \/ ReceiveFrames(c) \/ DhcpRequest(c)
  BY DEF HandleCommand
<1>2. frames' = frames /\ objects' = objects /\ pending' = pending
  BY DEF kernelVars
<1> DEFINE answer(host) == [c EXCEPT !.command = "leased", !.host = host]
<1>3. ASSUME DhcpRequest(c)
      PROVE  \A d \in commands' \ commands : d.command = "leased"
  <2>1. c = [f \in Asked |-> c[f]]
    BY <1>3 DEF DhcpRequest, IInv, CommandOK
  <2>2. \A host : answer(host).command = "leased"
    BY <2>1 DEF Asked
  <2>3. PICK host : commands' = (commands \ {c}) \cup {answer(host)}
    BY <1>3 DEF DhcpRequest
  <2> HIDE DEF answer
  <2> QED  BY <2>2, <2>3
<1>4. NoSend
  <2>1. \A d \in commands' \ commands : d.command \in {"leased", "received"}
    <3>1. CASE RegisterNic(c) \/ SendFrame(c)
      BY <3>1 DEF RegisterNic, SendFrame
    <3>2. CASE ReceiveFrames(c)
      BY <3>2 DEF ReceiveFrames
    <3>3. CASE DhcpRequest(c)
      BY <1>3, <3>3
    <3> QED  BY <1>1, <3>1, <3>2, <3>3
  <2> QED  BY <1>2, <2>1 DEF NoSend
<1>5. Later /\ RxOK' /\ SavedOK'
  BY <1>2, <1>4, NoSendIsLater, FramesKept
<1>6. frames' \in Nat
  BY <1>2 DEF FramesOK
<1>7. CASE RegisterNic(c)
  <2>1. SendsOK'
    BY <1>5, <1>7, FramesKept DEF RegisterNic
  <2>2. /\ DOMAIN nicIds' = DOMAIN nicIds \cup {c.id}
        /\ \A id \in DOMAIN nicIds' : nicIds'[id] = IF id = c.id THEN c.mac ELSE nicIds[id]
        /\ c.mac \in Mac
    BY <1>7 DEF RegisterNic, Set, FramesOK, SendsOK, SendOK
  <2>3. /\ DOMAIN queues' = DOMAIN queues \cup {c.mac}
        /\ \A m \in DOMAIN queues' : queues'[m] = IF m \in DOMAIN queues THEN queues[m] ELSE <<>>
    BY <1>7 DEF RegisterNic, Set
  <2>4. \A m \in DOMAIN queues' : queues'[m] \in Seq(Sent')
    <3>1. <<>> \in Seq(Sent')
      BY EmptySeq
    <3> QED  BY <1>5, <2>3, <3>1, SentStays DEF FramesOK, QueuesOK
  <2>5. QueuesOK'
    BY <2>2, <2>3, <2>4 DEF FramesOK, QueuesOK
  <2> QED  BY <1>5, <1>6, <2>1, <2>5 DEF FramesOK
<1>8. CASE SendFrame(c)
  <2>1. SendsOK'
    BY <1>5, <1>8, FramesKept DEF SendFrame
  <2>2. \A s \in Seq(Sent) : s \in Seq(Sent')
    BY <1>5, SentStays
  <2>3. nicIds' = nicIds /\ c.command = "send_frame" /\ commands' = commands \ {c}
    BY <1>8 DEF SendFrame
  <2>4. c.frame \in Frame /\ c.frame.number \in 1..frames
    BY <2>3 DEF FramesOK, SendsOK, SendOK
  <2>5. ~UnderWay(c.frame.number)'
    BY <2>3 DEF UnderWay, FramesOK, SendsOK
  <2>6. PICK to : \/ queues' = queues
                  \/ queues' = [m \in DOMAIN queues |->
                       IF m \in to THEN Append(queues[m], Copy(c.frame, m)) ELSE queues[m]]
    BY <1>8 DEF SendFrame
  <2>7. ASSUME NEW m \in DOMAIN queues
        PROVE  queues[m] \in Seq(Sent') /\ Append(queues[m], Copy(c.frame, m)) \in Seq(Sent')
    <3>1. Copy(c.frame, m) \in CopyOf
      BY <2>4 DEF Copy, CopyOf, FramesOK, QueuesOK
    <3>2. Copy(c.frame, m).frame = c.frame
      BY DEF Copy
    <3>3. Copy(c.frame, m) \in Sent'
      BY <1>2, <2>4, <2>5, <3>1, <3>2 DEF Sent
    <3>4. queues[m] \in Seq(Sent')
      BY <2>2 DEF FramesOK, QueuesOK
    <3> QED  BY <3>3, <3>4, AppendProperties
  <2>8. DOMAIN queues' = DOMAIN queues /\ \A m \in DOMAIN queues' : queues'[m] \in Seq(Sent')
    BY <2>6, <2>7
  <2>9. QueuesOK'
    BY <2>3, <2>8 DEF FramesOK, QueuesOK
  <2> QED  BY <1>5, <1>6, <2>1, <2>9 DEF FramesOK
<1>9. CASE ReceiveFrames(c)
  <2>1. /\ nicIds' = nicIds
        /\ \/ queues' = queues /\ c.id \notin DOMAIN nicIds
           \/ c.id \in DOMAIN nicIds /\ queues' = [queues EXCEPT ![nicIds[c.id]] = <<>>]
    BY <1>9 DEF ReceiveFrames, Drained
  <2>2. ASSUME NEW d \in commands' \ commands
        PROVE  d.command = "received" /\ d.frames \in Seq(Sent)
    <3>1. \/ d.frames = <<>> /\ d.command = "received"
          \/ d.command = "received" /\ c.id \in DOMAIN nicIds /\ d.frames = queues[nicIds[c.id]]
      BY <1>9, <2>2 DEF ReceiveFrames
    <3> QED  BY <3>1, EmptySeq DEF FramesOK, QueuesOK
  <2>3. SendsOK'
    BY <1>5, <2>2, FramesKept, SentStays DEF SendOK
  <2>4. DOMAIN queues' = DOMAIN queues /\ \A m \in DOMAIN queues' : queues'[m] \in Seq(Sent')
    BY <1>5, <2>1, SentStays, EmptySeq DEF FramesOK, QueuesOK
  <2>5. QueuesOK'
    BY <2>1, <2>4 DEF FramesOK, QueuesOK
  <2> QED  BY <1>5, <1>6, <2>3, <2>5 DEF FramesOK
<1>10. CASE DhcpRequest(c)
  <2>1. \A d \in commands' \ commands : d.command = "leased"
    BY <1>10, <1>3
  <2>2. SendsOK' /\ QueuesOK'
    BY <1>5, <1>10, <2>1, FramesKept DEF DhcpRequest, SendOK
  <2> QED  BY <1>5, <1>6, <2>2 DEF FramesOK
<1> QED  BY <1>1, <1>7, <1>8, <1>9, <1>10

\* A step that changes one object, which keeps its address.
LEMMA FramesField ==
  ASSUME FramesOK, Later, SendsOK', NEW o, NEW new,
         queues' = queues, nicIds' = nicIds, pending' = pending,
         objects' = [objects EXCEPT ![o] = new],
         o \in DOMAIN objects => new.mac \in Mac /\ new.rx \in Seq(Sent)
  PROVE  FramesOK'
<1>1. QueuesOK' /\ SavedOK' /\ frames' \in Nat
  BY FramesKept DEF Later
<1>2. \A p \in DOMAIN objects' : p \in DOMAIN objects /\ objects'[p] = IF p = o THEN new ELSE objects[p]
  OBVIOUS
<1>3. RxOK'
  BY <1>2, SentStays DEF FramesOK, RxOK
<1> QED  BY <1>1, <1>3 DEF FramesOK

\* A step without objects or queues.
LEMMA FramesQuiet ==
  ASSUME FramesOK, frames' = frames, UNCHANGED <<queues, nicIds, pending, objects>>,
         \A c \in commands' \ commands : SendOK(c)' /\ c.command # "send_frame"
  PROVE  FramesOK'
<1>1. Later
  BY NoSendIsLater DEF NoSend
<1> QED  BY <1>1, FramesKept DEF FramesOK

LEMMA FramesInterface ==
  ASSUME IInv, FramesOK, NEW k \in Machine, NEW id,
         \/ \E mac \in Mac, kind \in Kind : CreateNic(k, id, mac, kind)
         \/ RemoveNic(k, id)
         \/ \E c \in Cidr : AddRoute(k, c, id)
         \/ \E c \in Cidr : RouteDel(k, c)
  PROVE  FramesOK'
<1>1. ASSUME NEW mac \in Mac, NEW kind \in Kind, CreateNic(k, id, mac, kind)
      PROVE  FramesOK'
  <2> DEFINE new == Nic(id, mac, kind, ByHand, <<>>)
  <2>1. /\ objects' = Append(objects, new) /\ frames' = frames
        /\ UNCHANGED <<queues, nicIds, pending>> /\ commands' = commands \cup Registration({new})
    BY <1>1 DEF CreateNic, Invoke
  <2>2. \A c \in commands' \ commands : SendOK(c)' /\ c.command # "send_frame"
    BY <2>1 DEF Registration, Nic, SendOK
  <2>3. Later
    BY <2>1, <2>2, NoSendIsLater DEF NoSend
  <2>4. \A o \in DOMAIN objects' : objects'[o] = new \/ (o \in DOMAIN objects /\ objects'[o] = objects[o])
    <3> HIDE DEF new
    <3>1. /\ DOMAIN objects' = DOMAIN objects \cup {Len(objects) + 1}
          /\ \A i \in DOMAIN objects : objects'[i] = objects[i]
          /\ objects'[Len(objects) + 1] = new
      BY <2>1, AppendedObject DEF IInv
    <3>2. ASSUME NEW o \in DOMAIN objects'
          PROVE  objects'[o] = new \/ (o \in DOMAIN objects /\ objects'[o] = objects[o])
      BY <3>1
    <3> QED  BY <3>2
  <2>5. new.mac \in Mac /\ new.rx \in Seq(Sent)
    BY EmptySeq DEF Nic
  <2> HIDE DEF new
  <2>6. RxOK'
    BY <2>3, <2>4, <2>5, SentStays DEF FramesOK, RxOK
  <2> QED  BY <2>1, <2>2, <2>3, <2>6, FramesKept DEF FramesOK
<1>3. CASE RemoveNic(k, id)
  BY <1>3, FramesQuiet DEF RemoveNic, hubVars
<1>6. CASE \E c \in Cidr : AddRoute(k, c, id)
  BY <1>6, FramesQuiet DEF AddRoute, hubVars
<1>7. CASE \E c \in Cidr : RouteDel(k, c)
  BY <1>7, FramesQuiet DEF RouteDel, hubVars
<1> QED  BY <1>1, <1>3, <1>6, <1>7

LEMMA FramesAnswer ==
  ASSUME IInv, FramesOK, NEW c \in commands, GetLease(c) \/ JoinedWifi(c) \/ Receive(c)
  PROVE  FramesOK'
<1>1. CASE GetLease(c)
  <2> DEFINE new == [objects[c.nic] EXCEPT !.ip = c.host]
  <2>1. /\ objects' = [objects EXCEPT ![c.nic] = new] /\ frames' = frames
        /\ UNCHANGED <<queues, nicIds, pending>> /\ commands' \subseteq commands
    BY <1>1 DEF GetLease
  <2>2. Later /\ SendsOK'
    BY <2>1, NoSendIsLater, FramesKept DEF NoSend
  <2>3. c.nic \in DOMAIN objects => new.mac \in Mac /\ new.rx \in Seq(Sent)
    BY DEF IInv, ObjectsOK, FramesOK, RxOK
  <2> HIDE DEF new
  <2> QED  BY <2>1, <2>2, <2>3, FramesField
<1>2. CASE JoinedWifi(c)
  BY <1>2, FramesQuiet DEF JoinedWifi, kernelVars, Asks, SendOK
<1>3. CASE Receive(c)
  <2> DEFINE rx == objects[c.nic].rx \o c.frames
             new == [objects[c.nic] EXCEPT !.rx = IF rx = <<>> THEN rx ELSE Tail(rx)]
  <2>1. /\ objects' = [objects EXCEPT ![c.nic] = new] /\ frames' = frames
        /\ UNCHANGED <<queues, nicIds, pending>> /\ commands' \subseteq commands
    BY <1>3 DEF Receive
  <2>2. Later /\ SendsOK'
    BY <2>1, NoSendIsLater, FramesKept DEF NoSend
  <2>3. ASSUME c.nic \in DOMAIN objects PROVE new.mac \in Mac /\ new.rx \in Seq(Sent)
    <3>1. objects[c.nic].rx \in Seq(Sent) /\ objects[c.nic].mac \in Mac /\ c.frames \in Seq(Sent)
      BY <1>3, <2>3 DEF Receive, FramesOK, RxOK, SendsOK, SendOK
    <3>2. rx \in Seq(Sent)
      BY <3>1, ConcatProperties
    <3>3. /\ new.mac = objects[c.nic].mac
          /\ new.rx = IF rx = <<>> THEN rx ELSE Tail(rx)
      BY <2>3 DEF IInv, ObjectsOK
    <3> HIDE DEF rx
    <3>4. rx # <<>> => Tail(rx) \in Seq(Sent)
      BY <3>2, HeadTailProperties
    <3> QED  BY <3>1, <3>2, <3>3, <3>4
  <2> HIDE DEF new
  <2> QED  BY <2>1, <2>2, <2>3, FramesField
<1> QED  BY <1>1, <1>2, <1>3

LEMMA FramesObject ==
  ASSUME IInv, FramesOK, NEW o \in DOMAIN objects, NEW k, NEW dst \in Mac \cup {Unknown},
         \/ NicConfig(o) \/ RequestLease(k, o) \/ JoinWifi(k, o)
         \/ Ask(o) \/ Take(o) \/ Send(o, dst)
  PROVE  FramesOK'
<1>1. CASE Ask(o)
  BY <1>1, FramesQuiet DEF Ask, kernelVars, Invoke, SendOK
<1>2. CASE Take(o)
  <2> DEFINE new == [objects[o] EXCEPT !.rx = Tail(@)]
  <2>1. /\ objects' = [objects EXCEPT ![o] = new] /\ frames' = frames
        /\ UNCHANGED <<queues, nicIds, pending, commands>>
    BY <1>2 DEF Take, hubVars
  <2>2. Later /\ SendsOK'
    BY <2>1, NoSendIsLater, FramesKept DEF NoSend
  <2>3. new.mac \in Mac /\ new.rx \in Seq(Sent)
    <3>1. objects[o].rx \in Seq(Sent) /\ objects[o].rx # <<>> /\ objects[o].mac \in Mac
      BY <1>2 DEF Take, FramesOK, RxOK
    <3>2. Tail(objects[o].rx) \in Seq(Sent)
      BY <3>1, HeadTailProperties
    <3> QED  BY <3>1, <3>2 DEF IInv, ObjectsOK
  <2> HIDE DEF new
  <2> QED  BY <2>1, <2>2, <2>3, FramesField
<1>3. CASE Send(o, dst)
  <2> PICK new : new = [command |-> "send_frame", id |-> objects[o].id,
                        call |-> Number(objects[o].id),
                        frame |-> [number |-> frames + 1, src |-> objects[o].mac, dst |-> dst]]
    OBVIOUS
  <2>1. /\ frames \in Nat /\ frames' = frames + 1 /\ commands' = commands \cup {new}
        /\ UNCHANGED <<queues, nicIds, pending, objects>>
    BY <1>3 DEF Send, Invoke, FramesOK
  <2>2. /\ new.command = "send_frame" /\ new.frame.number = frames + 1
        /\ new.frame \in Frame
    BY <2>1 DEF Frame, FramesOK, RxOK
  <2>3. Later
    BY <2>1, <2>2 DEF Later
  <2>4. \A d \in commands : SendOK(d)'
    BY <2>1, <2>3, SentStays DEF FramesOK, SendsOK, SendOK
  <2>5. SendOK(new)'
    BY <2>1, <2>2 DEF SendOK
  <2>6. \A d \in commands : d.command = "send_frame" => d.frame.number \in 1..frames
    BY DEF FramesOK, SendsOK, SendOK
  <2>7. SendsOK'
    BY <2>1, <2>2, <2>4, <2>5, <2>6 DEF FramesOK, SendsOK
  <2> QED  BY <2>1, <2>3, <2>7, FramesKept DEF FramesOK
<1>4. CASE NicConfig(o)
  <2> DEFINE new == [objects[o] EXCEPT !.ip = ByHand]
  <2>1. /\ objects' = [objects EXCEPT ![o] = new] /\ frames' = frames
        /\ UNCHANGED <<queues, nicIds, pending, commands>>
    BY <1>4 DEF NicConfig, hubVars
  <2>2. Later /\ SendsOK'
    BY <2>1, NoSendIsLater, FramesKept DEF NoSend
  <2>3. new.mac \in Mac /\ new.rx \in Seq(Sent)
    BY DEF IInv, ObjectsOK, FramesOK, RxOK, Fields
  <2> HIDE DEF new
  <2> QED  BY <2>1, <2>2, <2>3, FramesField
<1>5. CASE RequestLease(k, o) \/ JoinWifi(k, o)
  <2>1. frames' = frames /\ UNCHANGED <<queues, nicIds, pending, objects>>
    BY <1>5 DEF RequestLease, JoinWifi, kernelVars
  <2>2. \A c \in commands' \ commands : SendOK(c)' /\ c.command # "send_frame"
    BY <1>5 DEF RequestLease, JoinWifi, Invoke, Asks, SendOK
  <2> QED  BY <2>1, <2>2, FramesQuiet
<1> QED  BY <1>1, <1>2, <1>3, <1>4, <1>5

LEMMA FramesMachine ==
  ASSUME IInv, FramesOK, NEW k \in Machine, StartNetworking(k) \/ Reboot(k)
  PROVE  FramesOK'
<1>1. CASE StartNetworking(k)
  <2>1. /\ frames' = frames /\ UNCHANGED <<queues, nicIds>> /\ pending' = [pending EXCEPT ![k] = {}]
        /\ commands' = commands \cup Registration(pending[k])
    BY <1>1 DEF StartNetworking, Invoke
  <2>2. \A n \in pending[k] : n.mac \in Mac /\ n.rx \in Seq(Sent)
    BY DEF FramesOK, SavedOK
  <2>3. \A c \in commands' \ commands : SendOK(c)' /\ c.command # "send_frame"
    BY <2>1, <2>2 DEF Registration, SendOK
  <2>4. Later
    BY <2>1, <2>3, NoSendIsLater DEF NoSend
  <2>5. \A o \in DOMAIN objects' : objects'[o] \in pending[k] \/ (o \in DOMAIN objects /\ objects'[o] = objects[o])
    <3>1. PICK new \in Seq(pending[k]) :
            /\ Len(objects) \in Nat /\ Len(new) \in Nat
            /\ DOMAIN objects = 1..Len(objects)
            /\ DOMAIN objects' = 1..(Len(objects) + Len(new))
            /\ \A o \in DOMAIN objects' :
                 objects'[o] = IF o \in DOMAIN objects THEN objects[o] ELSE new[o - Len(objects)]
      BY <1>1, NewObjects
    <3>2. \A i \in 1..Len(new) : new[i] \in pending[k]
      BY ElementOfSeq
    <3>3. \A o \in DOMAIN objects' : o \in DOMAIN objects \/ o - Len(objects) \in 1..Len(new)
      BY <3>1
    <3>4. ASSUME NEW o \in DOMAIN objects', o \notin DOMAIN objects
          PROVE  objects'[o] \in pending[k]
      <4>1. objects'[o] = new[o - Len(objects)] /\ o - Len(objects) \in 1..Len(new)
        BY <3>1, <3>3, <3>4
      <4> QED  BY <3>2, <4>1
    <3>5. ASSUME NEW o \in DOMAIN objects', o \in DOMAIN objects
          PROVE  objects'[o] = objects[o]
      BY <3>1, <3>5
    <3> QED  BY <3>4, <3>5
  <2>6. RxOK'
    BY <2>2, <2>4, <2>5, SentStays DEF FramesOK, RxOK
  <2>7. /\ pending'[k] = {}
        /\ \A j \in Machine : j # k => pending'[j] = pending[j]
    BY <2>1 DEF IInv, PendingOK
  <2>8. SavedOK'
    <3>1. ASSUME NEW j \in Machine
          PROVE  /\ \A n \in pending'[j] : n.mac \in Mac /\ n.rx \in Seq(Sent')
                 /\ \A n, p \in pending'[j] : n.id = p.id => n = p
      BY <2>4, <2>7, SentStays DEF FramesOK, SavedOK
    <3> QED  BY <3>1 DEF SavedOK
  <2> QED  BY <2>1, <2>3, <2>4, <2>6, <2>8, FramesKept DEF FramesOK
<1>2. CASE Reboot(k)
  <2> DEFINE saved == {objects[nics[k][id]] : id \in DOMAIN nics[k]}
  <2>1. /\ frames' = frames /\ UNCHANGED <<queues, nicIds>> /\ pending' = [pending EXCEPT ![k] = saved]
        /\ commands' = {Orphaned(c, k) : c \in commands} \cup Registration(saved)
        /\ objects' = [o \in DOMAIN objects |->
             IF o \in Range(nics[k]) THEN [objects[o] EXCEPT !.left = reboots + 1] ELSE objects[o]]
    BY <1>2 DEF Reboot
  <2>2. \A n \in saved : \E id \in DOMAIN nics[k] : n = objects[nics[k][id]] /\ n.id = id
    BY DEF IInv, NicsOK
  <2>3. \A n \in saved : n.mac \in Mac /\ n.rx \in Seq(Sent)
    BY <2>2 DEF FramesOK, RxOK, IInv, NicsOK
  <2>4. \A n, p \in saved : n.id = p.id => n = p
    BY <2>2
  <2> HIDE DEF saved
  <2>5. ASSUME NEW d \in commands' \ commands PROVE SendOK(d)' /\ d.command # "send_frame"
    <3>1. CASE d \in Registration(saved)
      BY <2>3, <3>1 DEF Registration, SendOK
    <3>2. CASE d \notin Registration(saved)
      <4>1. PICK c \in commands : d = Orphaned(c, k)
        BY <2>1, <2>5, <3>2
      <4>2. d.command = c.command /\ c.command \in {"dhcp_request", "leased", "wifi_join"}
        BY <2>5, <4>1 DEF Orphaned, IInv, CommandOK, Asked
      <4> QED  BY <4>2 DEF SendOK
    <3> QED  BY <3>1, <3>2
  <2>6. Later
    BY <2>1, <2>5, NoSendIsLater DEF NoSend
  <2>7. RxOK'
    <3>1. ASSUME NEW o \in DOMAIN objects
          PROVE  objects'[o].mac = objects[o].mac /\ objects'[o].rx = objects[o].rx
      BY <2>1 DEF IInv, ObjectsOK, Fields
    <3> QED  BY <2>1, <2>6, <3>1, SentStays DEF FramesOK, RxOK
  <2>8. /\ pending'[k] = saved
        /\ \A j \in Machine : j # k => pending'[j] = pending[j]
    BY <2>1 DEF IInv, PendingOK
  <2>9. SavedOK'
    <3>1. ASSUME NEW j \in Machine
          PROVE  /\ \A n \in pending'[j] : n.mac \in Mac /\ n.rx \in Seq(Sent')
                 /\ \A n, p \in pending'[j] : n.id = p.id => n = p
      BY <2>3, <2>4, <2>6, <2>8, SentStays DEF FramesOK, SavedOK
    <3> QED  BY <3>1 DEF SavedOK
  <2> QED  BY <2>1, <2>5, <2>6, <2>7, <2>9, FramesKept DEF FramesOK
<1> QED  BY <1>1, <1>2

-----------------------------------------------------------------------------
(* Every copy is in one place *)

IsPlace(l) ==
  \/ \E m \in DOMAIN queues : l = <<"queue", m, queues[m], 0>>
  \/ \E r \in commands : r.command = "received" /\ l = <<"reply", r, r.frames, 0>>
  \/ \E o \in DOMAIN objects : l = <<"rx", o, objects[o].rx, objects[o].left>>
  \/ \E k \in Machine : \E n \in pending[k] : l = <<"saved", <<k, n.id>>, n.rx, 0>>

\* Places that a frame may not be in both: those of kernels of one time, and
\* any two of which one is on the way.
OnTheWay(l) == l[1] \in {"queue", "reply"}
Meet(l, m) == l[4] = m[4] \/ OnTheWay(l) \/ OnTheWay(m)
Once ==
  \A l, m \in Places : \A i \in DOMAIN l[3], j \in DOMAIN m[3] :
    l[3][i] = m[3][j] /\ Meet(l, m) => l = m /\ i = j

LEMMA PlaceIs ==
  ASSUME NEW l
  PROVE  (l \in Places <=> IsPlace(l)) /\ (l \in Places' <=> IsPlace(l)')
<1>1. l \in Places <=> IsPlace(l)
  BY DEF Places, IsPlace
<1>2. l \in Places' <=> IsPlace(l)'
  BY DEF Places, IsPlace
<1> QED  BY <1>1, <1>2

\* Frames are nowhere new.
LEMMA Unmoved ==
  ASSUME Once, \A l \in Places' : l \in Places \/ l[3] = <<>>
  PROVE  Once'
<1> SUFFICES ASSUME NEW l \in Places', NEW m \in Places', NEW i \in DOMAIN l[3], NEW j \in DOMAIN m[3],
                    l[3][i] = m[3][j], Meet(l, m)
             PROVE  l = m /\ i = j
  BY DEF Once
<1>1. l \in Places /\ m \in Places
  OBVIOUS
<1> QED  BY <1>1 DEF Once

\* One list is made of lists that are gone.
LEMMA OneChanged ==
  ASSUME Once, NEW changed, IsInjective(changed[3]),
         NEW gone, gone \subseteq Places,
         \A p \in gone : OnTheWay(p) \/ (p[1] = changed[1] /\ p[4] = changed[4]),
         \A l \in Places' : l = changed \/ (l \in Places /\ l \notin gone) \/ l[3] = <<>>,
         \A x \in Range(changed[3]) : \E p \in gone : x \in Range(p[3])
  PROVE  Once'
<1> SUFFICES ASSUME NEW l \in Places', NEW m \in Places', NEW i \in DOMAIN l[3], NEW j \in DOMAIN m[3],
                    l[3][i] = m[3][j], Meet(l, m)
             PROVE  l = m /\ i = j
  BY DEF Once
<1>1. /\ l = changed \/ (l \in Places /\ l \notin gone)
      /\ m = changed \/ (m \in Places /\ m \notin gone)
  OBVIOUS
<1>2. ASSUME NEW p \in Places, p \notin gone, NEW a \in DOMAIN p[3], NEW b \in DOMAIN changed[3],
             p[3][a] = changed[3][b], Meet(p, changed)
      PROVE  FALSE
  <2>1. changed[3][b] \in Range(changed[3])
    BY DEF Range
  <2>2. PICK q \in gone : changed[3][b] \in Range(q[3])
    BY <2>1
  <2>3. PICK d \in DOMAIN q[3] : q[3][d] = changed[3][b]
    BY <2>2 DEF Range
  <2>4. Meet(q, p)
    BY <1>2, <2>2 DEF Meet, OnTheWay
  <2>5. q = p
    BY <1>2, <2>3, <2>4 DEF Once
  <2> QED  BY <1>2, <2>2, <2>5
<1>3. CASE l = changed /\ m = changed
  BY <1>3 DEF IsInjective
<1>4. CASE l = changed /\ m # changed
  BY <1>1, <1>2, <1>4 DEF Meet
<1>5. CASE l # changed /\ m = changed
  BY <1>1, <1>2, <1>5
<1>6. CASE l # changed /\ m # changed
  BY <1>1, <1>6 DEF Once
<1> QED  BY <1>3, <1>4, <1>5, <1>6

\* Lists change their places.
LEMMA Relabelled ==
  ASSUME Once, NEW from,
         \A l \in Places' : l[3] = <<>> \/ (from[l] \in Places /\ from[l][3] = l[3]),
         \A l, m \in Places' : l[3] # <<>> /\ m[3] # <<>> /\ Meet(l, m) =>
           Meet(from[l], from[m]) /\ (from[l] = from[m] => l = m)
  PROVE  Once'
<1> SUFFICES ASSUME NEW l \in Places', NEW m \in Places', NEW i \in DOMAIN l[3], NEW j \in DOMAIN m[3],
                    l[3][i] = m[3][j], Meet(l, m)
             PROVE  l = m /\ i = j
  BY DEF Once
<1>1. l[3] # <<>> /\ m[3] # <<>>
  OBVIOUS
<1>2. from[l] \in Places /\ from[m] \in Places /\ from[l][3] = l[3] /\ from[m][3] = m[3]
  BY <1>1
<1>3. from[l] = from[m] /\ i = j
  BY <1>1, <1>2 DEF Once
<1> QED  BY <1>1, <1>3

\* The lists of a place repeat nothing, and those of two places share nothing.
LEMMA Apart ==
  ASSUME Once
  PROVE  /\ \A l \in Places : IsInjective(l[3])
         /\ \A l, m \in Places : l # m /\ Meet(l, m) => \A x \in Range(l[3]) : x \notin Range(m[3])
<1>1. \A l \in Places : IsInjective(l[3])
  BY DEF Once, IsInjective, Meet
<1>2. ASSUME NEW l \in Places, NEW m \in Places, l # m, Meet(l, m), NEW x \in Range(l[3]), x \in Range(m[3])
      PROVE  FALSE
  <2>1. PICK i \in DOMAIN l[3] : l[3][i] = x
    BY DEF Range
  <2>2. PICK j \in DOMAIN m[3] : m[3][j] = x
    BY <1>2 DEF Range
  <2> QED  BY <1>2, <2>1, <2>2 DEF Once
<1> QED  BY <1>1, <1>2

\* What is new is empty.
LEMMA OnceQuiet ==
  ASSUME Once, pending' = pending,
         \A m \in DOMAIN queues' : (m \in DOMAIN queues /\ queues'[m] = queues[m]) \/ queues'[m] = <<>>,
         \A o \in DOMAIN objects' :
           \/ /\ o \in DOMAIN objects
              /\ objects'[o].rx = objects[o].rx /\ objects'[o].left = objects[o].left
           \/ objects'[o].rx = <<>>,
         \A c \in commands' \ commands : c.command = "received" => c.frames = <<>>
  PROVE  Once'
<1>1. ASSUME NEW l \in Places' PROVE l \in Places \/ l[3] = <<>>
  <2>1. IsPlace(l)'
    BY PlaceIs
  <2>2. ASSUME NEW m \in DOMAIN queues', l = <<"queue", m, queues'[m], 0>>
        PROVE  IsPlace(l) \/ l[3] = <<>>
    BY <2>2 DEF IsPlace
  <2>3. ASSUME NEW r \in commands', r.command = "received", l = <<"reply", r, r.frames, 0>>
        PROVE  IsPlace(l) \/ l[3] = <<>>
    BY <2>3 DEF IsPlace
  <2>4. ASSUME NEW o \in DOMAIN objects', l = <<"rx", o, objects'[o].rx, objects'[o].left>>
        PROVE  IsPlace(l) \/ l[3] = <<>>
    BY <2>4 DEF IsPlace
  <2>5. ASSUME NEW k \in Machine, NEW n \in pending[k], l = <<"saved", <<k, n.id>>, n.rx, 0>>
        PROVE  IsPlace(l)
    BY <2>5 DEF IsPlace
  <2>6. IsPlace(l) \/ l[3] = <<>>
    BY <2>1, <2>2, <2>3, <2>4, <2>5 DEF IsPlace
  <2> QED  BY <2>6, PlaceIs
<1> QED  BY <1>1, Unmoved

LEMMA OnceSent ==
  ASSUME FramesOK, Once, NEW c \in commands, SendFrame(c), UNCHANGED kernelVars
  PROVE  Once'
<1> DEFINE f == c.frame
<1>1. /\ c.command = "send_frame" /\ commands' = commands \ {c}
      /\ objects' = objects /\ pending' = pending
  BY DEF SendFrame, kernelVars
<1>2. PICK to : \/ queues' = queues
                \/ queues' = [m \in DOMAIN queues |->
                     IF m \in to THEN Append(queues[m], Copy(f, m)) ELSE queues[m]]
  BY DEF SendFrame
<1>3. f \in Frame /\ \A m \in DOMAIN queues : queues[m] \in Seq(Sent)
  BY <1>1 DEF FramesOK, QueuesOK, SendsOK, SendOK
<1>4. ASSUME NEW m \in DOMAIN queues, NEW i \in DOMAIN queues'[m]
      PROVE  \/ i \in DOMAIN queues[m] /\ queues'[m][i] = queues[m][i]
             \/ i = Len(queues[m]) + 1 /\ queues'[m][i] = Copy(f, m)
  <2>1. CASE queues'[m] = queues[m]
    BY <2>1
  <2>2. CASE queues'[m] = Append(queues[m], Copy(f, m))
    <3> DEFINE T == Sent \cup {Copy(f, m)}
    <3>1. queues[m] \in Seq(T) /\ Copy(f, m) \in T
      <4>1. queues[m] \in Seq(Sent) /\ Sent \subseteq T /\ Copy(f, m) \in T
        BY <1>3
      <4> HIDE DEF T
      <4> QED  BY <4>1, SeqMonotonic
    <3> HIDE DEF T, f
    <3> PICK s \in Seq(T) : s = queues[m]
      BY <3>1
    <3> PICK x \in T : x = Copy(f, m)
      BY <3>1
    <3>2. \/ i \in DOMAIN s /\ Append(s, x)[i] = s[i]
          \/ i = Len(s) + 1 /\ Append(s, x)[i] = x
      BY <2>2, AppendOf
    <3> QED  BY <2>2, <3>2
  <2> QED  BY <1>2, <2>1, <2>2
<1> DEFINE Old(l, i) == \E p \in Places : /\ p[1] = l[1] /\ p[2] = l[2] /\ p[4] = l[4]
                                        /\ i \in DOMAIN p[3] /\ p[3][i] = l[3][i]
           New(l, i) == /\ l[1] = "queue" /\ i = Len(queues[l[2]]) + 1
                        /\ l[3][i] = Copy(f, l[2])
<1>5. ASSUME NEW l \in Places', NEW i \in DOMAIN l[3] PROVE Old(l, i) \/ New(l, i)
  <2>1. IsPlace(l)'
    BY PlaceIs
  <2>2. CASE l \in Places
    BY <2>2
  <2>3. ASSUME NEW m \in DOMAIN queues, l = <<"queue", m, queues'[m], 0>>
        PROVE  Old(l, i) \/ New(l, i)
    <3>1. l[1] = "queue" /\ l[2] = m /\ l[3] = queues'[m] /\ l[4] = 0
      BY <2>3
    <3>2. CASE i \in DOMAIN queues[m] /\ queues'[m][i] = queues[m][i]
      <4> DEFINE p == <<"queue", m, queues[m], 0>>
      <4>1. p \in Places
        BY PlaceIs DEF IsPlace
      <4> QED  BY <3>1, <3>2, <4>1
    <3>3. CASE i = Len(queues[m]) + 1 /\ queues'[m][i] = Copy(f, m)
      BY <3>1, <3>3
    <3> QED  BY <1>4, <3>1, <3>2, <3>3
  <2>4. \/ \E m \in DOMAIN queues' : l = <<"queue", m, queues'[m], 0>>
        \/ IsPlace(l)
    BY <1>1, <2>1 DEF IsPlace
  <2>5. DOMAIN queues' = DOMAIN queues
    BY <1>2
  <2> QED  BY <2>2, <2>3, <2>4, <2>5, PlaceIs
\* The frame is nowhere yet.
<1>6. ASSUME NEW p \in Places, NEW i \in DOMAIN p[3] PROVE p[3][i].frame # f
  <2>1. p[3] \in Seq(Sent)
    <3>1. IsPlace(p)
      BY PlaceIs
    <3>2. ASSUME NEW m \in DOMAIN queues, p = <<"queue", m, queues[m], 0>> PROVE p[3] \in Seq(Sent)
      BY <1>3, <3>2
    <3>3. ASSUME NEW r \in commands, r.command = "received", p = <<"reply", r, r.frames, 0>>
          PROVE p[3] \in Seq(Sent)
      BY <3>3 DEF FramesOK, SendsOK, SendOK
    <3>4. ASSUME NEW o \in DOMAIN objects, p = <<"rx", o, objects[o].rx, objects[o].left>> PROVE p[3] \in Seq(Sent)
      BY <3>4 DEF FramesOK, RxOK
    <3>5. ASSUME NEW k \in Machine, NEW n \in pending[k], p = <<"saved", <<k, n.id>>, n.rx, 0>>
          PROVE p[3] \in Seq(Sent)
      BY <3>5 DEF FramesOK, SavedOK
    <3> QED  BY <3>1, <3>2, <3>3, <3>4, <3>5 DEF IsPlace
  <2>2. p[3][i] \in Sent
    BY <2>1
  <2>3. ~UnderWay(p[3][i].frame.number)
    BY <2>2 DEF Sent
  <2> QED  BY <1>1, <2>3 DEF UnderWay
\* A place is known by what it is and whose it is.
<1>7. ASSUME NEW l \in Places', NEW m \in Places', l[1] = m[1], l[2] = m[2] PROVE l = m
  <2>1. IsPlace(l)' /\ IsPlace(m)'
    BY PlaceIs
  <2>2. \A k \in Machine : \A n, p \in pending[k] : n.id = p.id => n = p
    BY DEF FramesOK, SavedOK
  <2>3. CASE l[1] = "queue"
    <3>1. PICK a \in DOMAIN queues' : l = <<"queue", a, queues'[a], 0>>
      BY <2>1, <2>3 DEF IsPlace
    <3>2. m[1] = "queue"
      BY <1>7, <2>3
    <3>3. PICK b \in DOMAIN queues' : m = <<"queue", b, queues'[b], 0>>
      BY <2>1, <3>2 DEF IsPlace
    <3> QED  BY <1>7, <3>1, <3>3
  <2>4. CASE l[1] = "reply"
    <3>1. PICK a \in commands' : l = <<"reply", a, a.frames, 0>>
      BY <2>1, <2>4 DEF IsPlace
    <3>2. m[1] = "reply"
      BY <1>7, <2>4
    <3>3. PICK b \in commands' : m = <<"reply", b, b.frames, 0>>
      BY <2>1, <3>2 DEF IsPlace
    <3> QED  BY <1>7, <3>1, <3>3
  <2>5. CASE l[1] = "rx"
    <3>1. PICK a \in DOMAIN objects' : l = <<"rx", a, objects'[a].rx, objects'[a].left>>
      BY <2>1, <2>5 DEF IsPlace
    <3>2. m[1] = "rx"
      BY <1>7, <2>5
    <3>3. PICK b \in DOMAIN objects' : m = <<"rx", b, objects'[b].rx, objects'[b].left>>
      BY <2>1, <3>2 DEF IsPlace
    <3> QED  BY <1>7, <3>1, <3>3
  <2>6. CASE l[1] = "saved"
    <3>1. PICK k \in Machine : \E n \in pending[k] : l = <<"saved", <<k, n.id>>, n.rx, 0>>
      BY <1>1, <2>1, <2>6 DEF IsPlace
    <3>2. PICK n \in pending[k] : l = <<"saved", <<k, n.id>>, n.rx, 0>>
      BY <3>1
    <3>3. m[1] = "saved"
      BY <1>7, <2>6
    <3>4. PICK j \in Machine : \E p \in pending[j] : m = <<"saved", <<j, p.id>>, p.rx, 0>>
      BY <1>1, <2>1, <3>3 DEF IsPlace
    <3>5. PICK p \in pending[j] : m = <<"saved", <<j, p.id>>, p.rx, 0>>
      BY <3>4
    <3>6. k = j /\ n.id = p.id
      BY <1>7, <3>2, <3>5
    <3> QED  BY <2>2, <3>2, <3>5, <3>6
  <2>7. l[1] \in {"queue", "reply", "rx", "saved"}
    BY <2>1 DEF IsPlace
  <2> QED  BY <2>3, <2>4, <2>5, <2>6, <2>7
<1> SUFFICES ASSUME NEW l \in Places', NEW m \in Places', NEW i \in DOMAIN l[3], NEW j \in DOMAIN m[3],
                    l[3][i] = m[3][j], Meet(l, m)
             PROVE  l = m /\ i = j
  BY DEF Once
<1>8. CASE Old(l, i) /\ Old(m, j)
  <2>1. l[1] = m[1] /\ l[2] = m[2] /\ i = j
    BY <1>8 DEF Once, Meet, OnTheWay
  <2> QED  BY <1>7, <2>1
<1>9. CASE New(l, i) /\ New(m, j)
  <2>1. l[2] = m[2]
    BY <1>9 DEF Copy
  <2>2. i = j
    BY <1>9, <2>1
  <2> QED  BY <1>7, <1>9, <2>1, <2>2
<1>10. ~(Old(l, i) /\ New(m, j)) /\ ~(New(l, i) /\ Old(m, j))
  BY <1>6 DEF Copy
<1> QED  BY <1>5, <1>8, <1>9, <1>10

LEMMA OnceHub ==
  ASSUME IInv, FramesOK, Once, HandleCommand, UNCHANGED kernelVars
  PROVE  Once'
<1>1. PICK c \in commands : RegisterNic(c) \/ SendFrame(c) \/ ReceiveFrames(c) \/ DhcpRequest(c)
  BY DEF HandleCommand
<1>2. objects' = objects /\ pending' = pending
  BY DEF kernelVars
<1>3. CASE RegisterNic(c)
  <2>1. /\ \A m \in DOMAIN queues' : (m \in DOMAIN queues /\ queues'[m] = queues[m]) \/ queues'[m] = <<>>
        /\ commands' \subseteq commands
    BY <1>3 DEF RegisterNic, Set
  <2> QED  BY <1>2, <2>1, OnceQuiet
<1>4. CASE SendFrame(c)
  BY <1>4, OnceSent
<1>5. CASE DhcpRequest(c)
  <2>1. c = [f \in Asked |-> c[f]]
    BY <1>5 DEF DhcpRequest, IInv, CommandOK
  <2>2. \A d \in commands' \ commands : d.command = "leased"
    BY <1>5, <2>1 DEF DhcpRequest, Asked
  <2>3. queues' = queues
    BY <1>5 DEF DhcpRequest
  <2> QED  BY <1>2, <2>2, <2>3, OnceQuiet
<1>6. CASE ReceiveFrames(c) /\ c.id \notin DOMAIN nicIds
  <2>1. queues' = queues /\ \A d \in commands' \ commands : d.frames = <<>>
    BY <1>6 DEF ReceiveFrames
  <2> QED  BY <1>2, <2>1, OnceQuiet
<1>7. CASE ReceiveFrames(c) /\ c.id \in DOMAIN nicIds
  <2> PICK mac : mac = nicIds[c.id]
    OBVIOUS
  <2> PICK r : r = [command |-> "received", id |-> c.id, call |-> c.call, nic |-> c.nic,
                    frames |-> queues[mac]]
    OBVIOUS
  <2>1. /\ mac \in DOMAIN queues /\ queues' = [queues EXCEPT ![mac] = <<>>]
        /\ commands' = (commands \ {c}) \cup {r}
    BY <1>7 DEF ReceiveFrames, Drained, FramesOK, QueuesOK
  <2>p. PICK p : p = <<"queue", mac, queues[mac], 0>>
    OBVIOUS
  <2>q. PICK q : q = <<"reply", r, r.frames, 0>>
    OBVIOUS
  <2>2. p \in Places
    BY <2>1, <2>p, PlaceIs DEF IsPlace
  <2>3. IsInjective(q[3]) /\ q[3] = p[3]
    BY <2>2, <2>p, <2>q, Apart
  <2>4. ASSUME NEW l \in Places'
        PROVE  l = q \/ (l \in Places /\ l \notin {p}) \/ l[3] = <<>>
    <3>1. IsPlace(l)'
      BY PlaceIs
    <3>2. ASSUME NEW m \in DOMAIN queues', l = <<"queue", m, queues'[m], 0>>
          PROVE  (IsPlace(l) /\ l # p) \/ l[3] = <<>>
      BY <2>1, <2>p, <2>q, <3>2 DEF IsPlace
    <3>3. ASSUME NEW d \in commands', d.command = "received", l = <<"reply", d, d.frames, 0>>
          PROVE  (IsPlace(l) /\ l # p) \/ l = q
      BY <2>1, <2>p, <2>q, <3>3 DEF IsPlace
    <3>4. ASSUME NEW o \in DOMAIN objects, l = <<"rx", o, objects[o].rx, objects[o].left>>
          PROVE  IsPlace(l) /\ l # p
      BY <2>p, <3>4 DEF IsPlace
    <3>5. ASSUME NEW k \in Machine, NEW n \in pending[k], l = <<"saved", <<k, n.id>>, n.rx, 0>>
          PROVE  IsPlace(l) /\ l # p
      BY <2>p, <3>5 DEF IsPlace
    <3>6. l = q \/ (IsPlace(l) /\ l # p) \/ l[3] = <<>>
      BY <1>2, <3>1, <3>2, <3>3, <3>4, <3>5 DEF IsPlace
    <3> QED  BY <3>6, PlaceIs
  <2>g. PICK gone : gone = {p}
    OBVIOUS
  <2>9. gone \subseteq Places
    BY <2>2, <2>g
  <2>12. \A g \in gone : OnTheWay(g) \/ (g[1] = q[1] /\ g[4] = q[4])
    BY <2>p, <2>g DEF OnTheWay
  <2>10. \A l \in Places' : l = q \/ (l \in Places /\ l \notin gone) \/ l[3] = <<>>
    BY <2>4, <2>g
  <2>11. IsInjective(q[3])
    BY <2>3
  <2>13. \A x \in Range(q[3]) : \E g \in gone : x \in Range(g[3])
    BY <2>3, <2>g
  <2> QED  BY <2>9, <2>10, <2>11, <2>12, <2>13, OneChanged
<1> QED  BY <1>1, <1>3, <1>4, <1>5, <1>6, <1>7

\* An object takes the first frame of what it has and of what came.
LEMMA OnceReceived ==
  ASSUME IInv, FramesOK, Once, NEW c \in commands, Receive(c)
  PROVE  Once'
<1>1. /\ c.command = "received" /\ commands' = commands \ {c} /\ c.frames \in Seq(Sent)
      /\ queues' = queues /\ pending' = pending
  BY DEF Receive, FramesOK, SendsOK, SendOK
<1>2. CASE c.nic \notin DOMAIN objects
  <2>1. objects' = objects
    BY <1>2 DEF Receive, IInv, ObjectsOK
  <2> QED  BY <1>1, <2>1, OnceQuiet
<1>3. CASE c.nic \in DOMAIN objects
  <2> PICK s : s = objects[c.nic].rx
    OBVIOUS
  <2> PICK t : t = c.frames
    OBVIOUS
  <2> PICK left : left = objects[c.nic].left
    OBVIOUS
  <2> PICK rx : rx = s \o t
    OBVIOUS
  <2> PICK rest : rest = IF rx = <<>> THEN rx ELSE Tail(rx)
    OBVIOUS
  <2>1. /\ DOMAIN objects' = DOMAIN objects /\ objects'[c.nic].rx = rest /\ objects'[c.nic].left = left
        /\ \A o \in DOMAIN objects : o # c.nic => objects'[o] = objects[o]
    BY <1>3 DEF Receive, IInv, ObjectsOK, Fields
  <2> PICK p : p = <<"rx", c.nic, s, left>>
    OBVIOUS
  <2> PICK r : r = <<"reply", c, t, 0>>
    OBVIOUS
  <2>q. PICK q : q = <<"rx", c.nic, rest, left>>
    OBVIOUS
  <2>2. p \in Places /\ r \in Places
    BY <1>1, <1>3, PlaceIs DEF IsPlace
  <2>3. s \in Seq(Sent) /\ t \in Seq(Sent)
    BY <1>1, <1>3 DEF FramesOK, RxOK
  <2>4. IsInjective(s) /\ IsInjective(t) /\ \A x \in Range(s) : x \notin Range(t)
    <3>1. IsInjective(p[3]) /\ IsInjective(r[3])
      BY <2>2, Apart
    <3>2. p # r
      OBVIOUS
    <3>3. \A x \in Range(p[3]) : x \notin Range(r[3])
      BY <2>2, <3>2, Apart DEF Meet, OnTheWay
    <3> QED  BY <3>1, <3>3
  <2>5. /\ rx \in Seq(Sent) /\ IsInjective(rx)
        /\ \A x \in Range(rx) : x \in Range(s) \/ x \in Range(t)
    BY <2>3, <2>4, ConcatOf
  <2>6. IsInjective(rest) /\ \A x \in Range(rest) : x \in Range(s) \/ x \in Range(t)
    <3>1. CASE rx = <<>>
      BY <2>5, <3>1
    <3>2. CASE rx # <<>>
      <4>1. IsInjective(Tail(rx)) /\ \A x \in Range(Tail(rx)) : x \in Range(rx)
        BY <2>5, <3>2, TailOf
      <4> QED  BY <2>5, <3>2, <4>1
    <3> QED  BY <3>1, <3>2
  <2>7. IsInjective(q[3]) /\ \A x \in Range(q[3]) : \E g \in {p, r} : x \in Range(g[3])
    BY <2>6, <2>q
  <2>8. ASSUME NEW l \in Places'
        PROVE  l = q \/ (l \in Places /\ l \notin {p, r}) \/ l[3] = <<>>
    <3>1. IsPlace(l)'
      BY PlaceIs
    <3>2. ASSUME NEW m \in DOMAIN queues, l = <<"queue", m, queues[m], 0>>
          PROVE  IsPlace(l) /\ l # p /\ l # r
      BY <3>2 DEF IsPlace
    <3>3. ASSUME NEW d \in commands', d.command = "received", l = <<"reply", d, d.frames, 0>>
          PROVE  IsPlace(l) /\ l # p /\ l # r
      BY <1>1, <3>3 DEF IsPlace
    <3>4. ASSUME NEW o \in DOMAIN objects', l = <<"rx", o, objects'[o].rx, objects'[o].left>>
          PROVE  l = q \/ (IsPlace(l) /\ l # p /\ l # r)
      BY <2>1, <2>q, <3>4 DEF IsPlace
    <3>5. ASSUME NEW k \in Machine, NEW n \in pending[k], l = <<"saved", <<k, n.id>>, n.rx, 0>>
          PROVE  IsPlace(l) /\ l # p /\ l # r
      BY <3>5 DEF IsPlace
    <3>6. l = q \/ (IsPlace(l) /\ l # p /\ l # r)
      BY <1>1, <3>1, <3>2, <3>3, <3>4, <3>5 DEF IsPlace
    <3> QED  BY <3>6, PlaceIs
  <2> PICK gone : gone = {p, r}
    OBVIOUS
  <2>9. gone \subseteq Places
    BY <2>2
  <2>13. \A g \in gone : OnTheWay(g) \/ (g[1] = q[1] /\ g[4] = q[4])
    BY <2>q DEF OnTheWay
  <2>10. \A l \in Places' : l = q \/ (l \in Places /\ l \notin gone) \/ l[3] = <<>>
    BY <2>8
  <2>11. IsInjective(q[3])
    BY <2>7
  <2>12. \A x \in Range(q[3]) : \E g \in gone : x \in Range(g[3])
    BY <2>7
  <2> QED  BY <2>9, <2>10, <2>11, <2>12, <2>13, OneChanged
<1> QED  BY <1>2, <1>3

LEMMA OnceTaken ==
  ASSUME IInv, FramesOK, Once, NEW o \in DOMAIN objects, Take(o)
  PROVE  Once'
<1> PICK s : s = objects[o].rx
  OBVIOUS
<1> PICK left : left = objects[o].left
  OBVIOUS
<1>1. /\ DOMAIN objects' = DOMAIN objects /\ objects'[o].rx = Tail(s) /\ objects'[o].left = left
      /\ \A m \in DOMAIN objects : m # o => objects'[m] = objects[m]
      /\ UNCHANGED <<queues, pending, commands>>
      /\ s # <<>> /\ s \in Seq(Sent)
  BY DEF Take, hubVars, IInv, ObjectsOK, FramesOK, RxOK, Fields
<1>2. PICK p : p = <<"rx", o, s, left>>
  OBVIOUS
<1>3. PICK q : q = <<"rx", o, Tail(s), left>>
  OBVIOUS
<1>4. p \in Places
  BY <1>2, PlaceIs DEF IsPlace
<1>5. IsInjective(s)
  <2>1. IsInjective(p[3])
    BY <1>4, Apart
  <2> QED  BY <1>2, <2>1
<1>6. IsInjective(Tail(s)) /\ \A x \in Range(Tail(s)) : x \in Range(s)
  BY <1>1, <1>5, TailOf
<1>7. ASSUME NEW l \in Places'
      PROVE  l = q \/ (l \in Places /\ l # p)
  <2>1. IsPlace(l)'
    BY PlaceIs
  <2>2. ASSUME NEW m \in DOMAIN queues, l = <<"queue", m, queues[m], 0>>
        PROVE  IsPlace(l) /\ l # p
    BY <1>2, <2>2 DEF IsPlace
  <2>3. ASSUME NEW d \in commands, d.command = "received", l = <<"reply", d, d.frames, 0>>
        PROVE  IsPlace(l) /\ l # p
    BY <1>2, <2>3 DEF IsPlace
  <2>4. ASSUME NEW m \in DOMAIN objects', l = <<"rx", m, objects'[m].rx, objects'[m].left>>
        PROVE  l = q \/ (IsPlace(l) /\ l # p)
    BY <1>1, <1>2, <1>3, <2>4 DEF IsPlace
  <2>5. ASSUME NEW k \in Machine, NEW n \in pending[k], l = <<"saved", <<k, n.id>>, n.rx, 0>>
        PROVE  IsPlace(l) /\ l # p
    BY <1>2, <2>5 DEF IsPlace
  <2>6. l = q \/ (IsPlace(l) /\ l # p)
    BY <1>1, <2>1, <2>2, <2>3, <2>4, <2>5 DEF IsPlace
  <2> QED  BY <2>6, PlaceIs
<1>g. PICK gone : gone = {p}
  OBVIOUS
<1>8. gone \subseteq Places /\ \A g \in gone : g[1] = q[1] /\ g[4] = q[4]
  BY <1>2, <1>3, <1>4, <1>g
<1>9. \A l \in Places' : l = q \/ (l \in Places /\ l \notin gone) \/ l[3] = <<>>
  BY <1>7, <1>g
<1>10. IsInjective(q[3])
  BY <1>3, <1>6
<1>11. \A x \in Range(q[3]) : \E g \in gone : x \in Range(g[3])
  BY <1>2, <1>3, <1>6, <1>g
<1> QED  BY <1>8, <1>9, <1>10, <1>11, OneChanged

LEMMA OnceInterface ==
  ASSUME IInv, Once, NEW k \in Machine, NEW id,
         \/ \E mac \in Mac, kind \in Kind : CreateNic(k, id, mac, kind)
         \/ RemoveNic(k, id)
         \/ \E c \in Cidr : AddRoute(k, c, id)
         \/ \E c \in Cidr : RouteDel(k, c)
  PROVE  Once'
<1>1. ASSUME NEW mac \in Mac, NEW kind \in Kind, CreateNic(k, id, mac, kind)
      PROVE  Once'
  <2> PICK new : new = Nic(id, mac, kind, ByHand, <<>>)
    OBVIOUS
  <2>1. /\ objects' = Append(objects, new) /\ UNCHANGED <<queues, pending>>
        /\ commands' = commands \cup Registration({new})
    BY <1>1 DEF CreateNic, Invoke
  <2>2. \A c \in commands' \ commands : c.command = "register_nic"
    BY <2>1 DEF Registration
  <2>3. new.rx = <<>>
    BY DEF Nic
  <2>4. /\ DOMAIN objects' = DOMAIN objects \cup {Len(objects) + 1}
        /\ \A i \in DOMAIN objects : objects'[i] = objects[i]
        /\ objects'[Len(objects) + 1] = new
    BY <2>1, AppendedObject DEF IInv
  <2>5. \A o \in DOMAIN objects' :
          (o \in DOMAIN objects /\ objects'[o] = objects[o]) \/ objects'[o].rx = <<>>
    BY <2>3, <2>4
  <2> QED  BY <2>1, <2>2, <2>5, OnceQuiet
<1>3. CASE RemoveNic(k, id)
  BY <1>3, OnceQuiet DEF RemoveNic, hubVars
<1>6. CASE \E c \in Cidr : AddRoute(k, c, id)
  BY <1>6, OnceQuiet DEF AddRoute, hubVars
<1>7. CASE \E c \in Cidr : RouteDel(k, c)
  BY <1>7, OnceQuiet DEF RouteDel, hubVars
<1> QED  BY <1>1, <1>3, <1>6, <1>7

LEMMA OnceAnswer ==
  ASSUME IInv, FramesOK, Once, NEW c \in commands, GetLease(c) \/ JoinedWifi(c) \/ Receive(c)
  PROVE  Once'
<1>1. CASE GetLease(c)
  <2>1. \A o \in DOMAIN objects' :
          o \in DOMAIN objects /\ objects'[o].rx = objects[o].rx /\ objects'[o].left = objects[o].left
    BY <1>1 DEF GetLease, IInv, ObjectsOK, Fields
  <2>2. UNCHANGED <<queues, pending>> /\ commands' \subseteq commands
    BY <1>1 DEF GetLease
  <2> QED  BY <2>1, <2>2, OnceQuiet
<1>2. CASE JoinedWifi(c)
  BY <1>2, OnceQuiet DEF JoinedWifi, kernelVars, Asks
<1> QED  BY <1>1, <1>2, OnceReceived

LEMMA OnceObject ==
  ASSUME IInv, FramesOK, Once, NEW o \in DOMAIN objects, NEW k, NEW dst,
         \/ NicConfig(o) \/ RequestLease(k, o) \/ JoinWifi(k, o)
         \/ Ask(o) \/ Take(o) \/ Send(o, dst)
  PROVE  Once'
<1>1. CASE Ask(o)
  BY <1>1, OnceQuiet DEF Ask, kernelVars, Invoke
<1>2. CASE Send(o, dst)
  BY <1>2, OnceQuiet DEF Send, Invoke
<1>3. CASE NicConfig(o)
  <2>1. \A p \in DOMAIN objects' :
          p \in DOMAIN objects /\ objects'[p].rx = objects[p].rx /\ objects'[p].left = objects[p].left
    BY <1>3 DEF NicConfig, IInv, ObjectsOK, Fields
  <2>2. UNCHANGED <<queues, pending, commands>>
    BY <1>3 DEF NicConfig, hubVars
  <2> QED  BY <2>1, <2>2, OnceQuiet
<1>4. CASE RequestLease(k, o) \/ JoinWifi(k, o)
  <2>1. UNCHANGED <<queues, pending, objects>>
    BY <1>4 DEF RequestLease, JoinWifi, kernelVars
  <2>2. \A c \in commands' \ commands : c.command # "received"
    BY <1>4 DEF RequestLease, JoinWifi, Invoke, Asks
  <2> QED  BY <2>1, <2>2, OnceQuiet
<1> QED  BY <1>1, <1>2, <1>3, <1>4, OnceTaken

(***************************************************************************)
(* The objects that a kernel has are its own, and it has not ended.        *)
(***************************************************************************)
LeftOK ==
  /\ reboots \in Nat
  /\ \A o \in DOMAIN objects : objects[o].left \in 0..reboots
  /\ \A k \in Machine : \A id \in DOMAIN nics[k] : objects[nics[k][id]].left = 0
  /\ \A j, k \in Machine : \A a \in DOMAIN nics[j], b \in DOMAIN nics[k] :
       nics[j][a] = nics[k][b] => j = k
  /\ \A k \in Machine : \A n \in pending[k] : n.left = 0

\* A step that gives no kernel an object.
LEMMA LeftKept ==
  ASSUME IInv, LeftOK, UNCHANGED <<reboots, pending>>,
         DOMAIN objects' = DOMAIN objects,
         \A o \in DOMAIN objects : objects'[o].left = objects[o].left,
         \A k \in Machine : \A id \in DOMAIN nics'[k] :
           id \in DOMAIN nics[k] /\ nics'[k][id] = nics[k][id]
  PROVE  LeftOK'
<1>1. \A k \in Machine : \A id \in DOMAIN nics[k] : nics[k][id] \in DOMAIN objects
  BY DEF IInv, NicsOK
<1>2. reboots' \in Nat /\ \A o \in DOMAIN objects' : objects'[o].left \in 0..reboots'
  BY DEF LeftOK
<1>3. \A k \in Machine : \A id \in DOMAIN nics'[k] : objects'[nics'[k][id]].left = 0
  BY <1>1 DEF LeftOK
<1>4. ASSUME NEW j \in Machine, NEW k \in Machine, NEW a \in DOMAIN nics'[j], NEW b \in DOMAIN nics'[k],
             nics'[j][a] = nics'[k][b]
      PROVE  j = k
  BY <1>4 DEF LeftOK
<1>5. \A k \in Machine : \A n \in pending'[k] : n.left = 0
  BY DEF LeftOK
<1> QED  BY <1>2, <1>3, <1>4, <1>5 DEF LeftOK

\* A step that gives one kernel new objects.
LEMMA LeftGiven ==
  ASSUME IInv, LeftOK, reboots' = reboots, NEW k \in Machine,
         \A o \in DOMAIN objects' :
           \/ o \in DOMAIN objects /\ objects'[o] = objects[o]
           \/ o \notin DOMAIN objects /\ objects'[o].left = 0,
         \A o \in DOMAIN objects : o \in DOMAIN objects',
         \A j \in Machine : j # k => nics'[j] = nics[j],
         \A id \in DOMAIN nics'[k] :
           \/ id \in DOMAIN nics[k] /\ nics'[k][id] = nics[k][id]
           \/ nics'[k][id] \in DOMAIN objects' \ DOMAIN objects,
         \A j \in Machine : \A n \in pending'[j] : n \in pending[j]
  PROVE  LeftOK'
<1>1. \A j \in Machine : \A id \in DOMAIN nics[j] : nics[j][id] \in DOMAIN objects
  BY DEF IInv, NicsOK
<1>2. reboots' \in Nat /\ \A o \in DOMAIN objects' : objects'[o].left \in 0..reboots'
  BY DEF LeftOK
<1>3. ASSUME NEW j \in Machine, NEW id \in DOMAIN nics'[j] PROVE objects'[nics'[j][id]].left = 0
  <2>1. ASSUME id \in DOMAIN nics[j], nics'[j][id] = nics[j][id]
        PROVE  objects'[nics'[j][id]].left = 0
    BY <1>1, <2>1 DEF LeftOK
  <2>2. CASE j # k
    BY <2>1, <2>2
  <2>3. CASE j = k
    BY <2>1, <2>3
  <2> QED  BY <2>2, <2>3
<1>4. ASSUME NEW i \in Machine, NEW j \in Machine, NEW a \in DOMAIN nics'[i], NEW b \in DOMAIN nics'[j],
             nics'[i][a] = nics'[j][b]
      PROVE  i = j
  <2>1. ASSUME NEW m \in Machine, NEW x \in DOMAIN nics'[m]
        PROVE  \/ x \in DOMAIN nics[m] /\ nics'[m][x] = nics[m][x] /\ nics[m][x] \in DOMAIN objects
               \/ m = k /\ nics'[m][x] \notin DOMAIN objects
    BY <1>1
  <2> QED  BY <1>4, <2>1 DEF LeftOK
<1>5. \A j \in Machine : \A n \in pending'[j] : n.left = 0
  BY DEF LeftOK
<1> QED  BY <1>2, <1>3, <1>4, <1>5 DEF LeftOK

LEMMA LeftInterface ==
  ASSUME IInv, LeftOK, NEW k \in Machine, NEW id,
         \/ \E mac \in Mac, kind \in Kind : CreateNic(k, id, mac, kind)
         \/ RemoveNic(k, id)
         \/ \E c \in Cidr : AddRoute(k, c, id)
         \/ \E c \in Cidr : RouteDel(k, c)
  PROVE  LeftOK'
<1>1. ASSUME NEW mac \in Mac, NEW kind \in Kind, CreateNic(k, id, mac, kind)
      PROVE  LeftOK'
  <2> PICK new : new = Nic(id, mac, kind, ByHand, <<>>)
    OBVIOUS
  <2> PICK n : n = Len(objects) + 1
    OBVIOUS
  <2>1. /\ objects' = Append(objects, new) /\ UNCHANGED <<reboots, pending>>
        /\ nics' = [nics EXCEPT ![k] = Set(@, id, n)] /\ new.left = 0
    BY <1>1 DEF CreateNic, Nic
  <2>2. /\ DOMAIN objects' = DOMAIN objects \cup {n} /\ n \notin DOMAIN objects
        /\ \A i \in DOMAIN objects : objects'[i] = objects[i]
        /\ objects'[n] = new
    BY <2>1, AppendedObject DEF IInv
  <2>3. /\ \A j \in Machine : j # k => nics'[j] = nics[j]
        /\ nics'[k] = Set(nics[k], id, n)
    BY <2>1 DEF IInv, NicsOK
  <2>4. \A i \in DOMAIN nics'[k] :
          \/ i \in DOMAIN nics[k] /\ nics'[k][i] = nics[k][i]
          \/ nics'[k][i] \in DOMAIN objects' \ DOMAIN objects
    BY <2>2, <2>3 DEF Set
  <2> QED  BY <2>1, <2>2, <2>3, <2>4, LeftGiven
<1>2. CASE RemoveNic(k, id)
  <2>1. UNCHANGED <<reboots, pending, objects>>
    BY <1>2 DEF RemoveNic
  <2>2. \A j \in Machine : \A i \in DOMAIN nics'[j] : i \in DOMAIN nics[j] /\ nics'[j][i] = nics[j][i]
    BY <1>2 DEF RemoveNic, IInv, NicsOK
  <2> QED  BY <2>1, <2>2, LeftKept
<1>3. CASE (\E c \in Cidr : AddRoute(k, c, id)) \/ (\E c \in Cidr : RouteDel(k, c))
  BY <1>3, LeftKept DEF AddRoute, RouteDel
<1> QED  BY <1>1, <1>2, <1>3

LEMMA LeftObject ==
  ASSUME IInv, LeftOK, NEW o \in DOMAIN objects, NEW k, NEW dst,
         \/ NicConfig(o) \/ RequestLease(k, o) \/ JoinWifi(k, o)
         \/ Ask(o) \/ Take(o) \/ Send(o, dst)
  PROVE  LeftOK'
<1>1. UNCHANGED <<reboots, pending, nics>>
  BY DEF NicConfig, RequestLease, JoinWifi, Ask, Take, Send, kernelVars
<1>2. DOMAIN objects' = DOMAIN objects /\ \A p \in DOMAIN objects : objects'[p].left = objects[p].left
  BY DEF NicConfig, RequestLease, JoinWifi, Ask, Take, Send, kernelVars, IInv, ObjectsOK, Fields
<1> QED  BY <1>1, <1>2, LeftKept

LEMMA LeftAnswer ==
  ASSUME IInv, LeftOK, NEW c \in commands, GetLease(c) \/ JoinedWifi(c) \/ Receive(c)
  PROVE  LeftOK'
<1>1. UNCHANGED <<reboots, pending, nics>>
  BY DEF GetLease, JoinedWifi, Receive, kernelVars
<1>2. PICK o, ip, rx :
        \/ objects' = objects
        \/ objects' = [objects EXCEPT ![o].ip = ip]
        \/ objects' = [objects EXCEPT ![o].rx = rx]
  BY DEF GetLease, JoinedWifi, Receive, kernelVars
<1>3. DOMAIN objects' = DOMAIN objects /\ \A p \in DOMAIN objects : objects'[p].left = objects[p].left
  BY <1>2 DEF IInv, ObjectsOK, Fields
<1> QED  BY <1>1, <1>3, LeftKept

LEMMA LeftMachine ==
  ASSUME IInv, LeftOK, NEW k \in Machine, StartNetworking(k) \/ Reboot(k)
  PROVE  LeftOK'
<1>1. CASE StartNetworking(k)
  <2> PICK n : n = Len(objects)
    OBVIOUS
  <2>1. PICK new \in Seq(pending[k]) :
          /\ nics' = [nics EXCEPT ![k] = NewNics(k, new)]
          /\ \A p \in pending[k] : \E i \in DOMAIN new : new[i] = p
          /\ n \in Nat /\ Len(new) \in Nat
          /\ DOMAIN objects = 1..n /\ DOMAIN new = 1..Len(new) /\ DOMAIN objects' = 1..(n + Len(new))
          /\ \A o \in DOMAIN objects' :
               objects'[o] = IF o \in DOMAIN objects THEN objects[o] ELSE new[o - n]
    BY <1>1, NewObjects
  <2>2. \A i \in DOMAIN new : new[i] \in pending[k]
    BY ElementOfSeq, <2>1
  <2>3. ASSUME NEW o \in DOMAIN objects', o \notin DOMAIN objects PROVE objects'[o].left = 0
    <3>1. objects'[o] = new[o - n] /\ o - n \in DOMAIN new
      BY <2>1, <2>3
    <3> QED  BY <2>2, <3>1 DEF LeftOK
  <2>4. \A o \in DOMAIN objects' :
          \/ o \in DOMAIN objects /\ objects'[o] = objects[o]
          \/ o \notin DOMAIN objects /\ objects'[o].left = 0
    BY <2>1, <2>3
  <2>5. \A o \in DOMAIN objects : o \in DOMAIN objects'
    BY <2>1
  <2>6. \A j \in Machine : j # k => nics'[j] = nics[j]
    BY <2>1 DEF IInv, NicsOK
  <2>7. ASSUME NEW id \in DOMAIN nics'[k]
        PROVE  nics'[k][id] \in DOMAIN objects' \ DOMAIN objects
    <3> PICK at : at = CHOOSE i \in DOMAIN new : new[i].id = id
      OBVIOUS
    <3>1. nics'[k] = NewNics(k, new)
      BY <2>1 DEF IInv, NicsOK
    <3>2. nics'[k][id] = n + at /\ id \in {p.id : p \in pending[k]}
      BY <3>1 DEF NewNics
    <3>3. at \in DOMAIN new
      BY <2>1, <3>2
    <3>4. at \in 1..Len(new)
      BY <2>1, <3>3
    <3>5. n + at \in 1..(n + Len(new)) /\ n + at \notin 1..n
      BY <2>1, <3>4
    <3> QED  BY <2>1, <3>2, <3>5
  <2>8. \A j \in Machine : \A p \in pending'[j] : p \in pending[j]
    BY <1>1 DEF StartNetworking, IInv, PendingOK
  <2>9. reboots' = reboots
    BY <1>1 DEF StartNetworking
  <2> QED  BY <2>4, <2>5, <2>6, <2>7, <2>8, <2>9, LeftGiven
<1>2. CASE Reboot(k)
  <2> PICK saved : saved = {objects[nics[k][id]] : id \in DOMAIN nics[k]}
    OBVIOUS
  <2>1. /\ pending' = [pending EXCEPT ![k] = saved] /\ reboots' = reboots + 1
        /\ nics' = [nics EXCEPT ![k] = <<>>]
        /\ objects' = [o \in DOMAIN objects |->
             IF o \in Range(nics[k]) THEN [objects[o] EXCEPT !.left = reboots + 1] ELSE objects[o]]
    BY <1>2 DEF Reboot
  <2>2. /\ pending'[k] = saved /\ \A j \in Machine : j # k => pending'[j] = pending[j]
        /\ DOMAIN nics'[k] = {} /\ \A j \in Machine : j # k => nics'[j] = nics[j]
    BY <2>1 DEF IInv, PendingOK, NicsOK
  <2>3. \A o \in DOMAIN objects : objects'[o].left =
          IF o \in Range(nics[k]) THEN reboots + 1 ELSE objects[o].left
    BY <2>1 DEF IInv, ObjectsOK, Fields
  <2>4. reboots' \in Nat /\ \A o \in DOMAIN objects' : objects'[o].left \in 0..reboots'
    BY <2>1, <2>3 DEF LeftOK
  <2>5. ASSUME NEW j \in Machine, NEW id \in DOMAIN nics'[j] PROVE objects'[nics'[j][id]].left = 0
    <3>1. j # k /\ id \in DOMAIN nics[j] /\ nics'[j][id] = nics[j][id]
      BY <2>2
    <3>2. nics[j][id] \in DOMAIN objects
      BY <3>1 DEF IInv, NicsOK
    <3>3. nics[j][id] \notin Range(nics[k])
      BY <3>1 DEF LeftOK, Range
    <3> QED  BY <2>3, <3>1, <3>2, <3>3 DEF LeftOK
  <2>6. ASSUME NEW i \in Machine, NEW j \in Machine, NEW a \in DOMAIN nics'[i], NEW b \in DOMAIN nics'[j],
               nics'[i][a] = nics'[j][b]
        PROVE  i = j
    BY <2>2, <2>6 DEF LeftOK
  <2>7. \A j \in Machine : \A p \in pending'[j] : p.left = 0
    BY <2>2 DEF LeftOK
  <2> QED  BY <2>4, <2>5, <2>6, <2>7 DEF LeftOK
<1> QED  BY <1>1, <1>2

\* The frames of the snapshot go to the new objects.
LEMMA OnceStarted ==
  ASSUME IInv, FramesOK, LeftOK, Once, NEW k \in Machine, StartNetworking(k)
  PROVE  Once'
<1> DEFINE n == Len(objects)
<1>1. PICK new \in Seq(pending[k]) :
        /\ \A i, j \in DOMAIN new : i # j => new[i] # new[j]
        /\ n \in Nat /\ Len(new) \in Nat
        /\ DOMAIN objects = 1..n /\ DOMAIN new = 1..Len(new) /\ DOMAIN objects' = 1..(n + Len(new))
        /\ \A o \in DOMAIN objects' :
             objects'[o] = IF o \in DOMAIN objects THEN objects[o] ELSE new[o - n]
  BY NewObjects
<1> HIDE DEF n
<1>2. /\ UNCHANGED queues /\ \A c \in commands' \ commands : c.command = "register_nic"
      /\ pending'[k] = {} /\ \A j \in Machine : j # k => pending'[j] = pending[j]
  BY DEF StartNetworking, Invoke, Registration, IInv, PendingOK
<1>3. \A p, q \in pending[k] : p.id = q.id => p = q
  BY DEF FramesOK, SavedOK
<1>4. ASSUME NEW o \in DOMAIN objects', o \notin DOMAIN objects
      PROVE  o - n \in DOMAIN new /\ new[o - n] \in pending[k] /\ objects'[o] = new[o - n]
  <2>1. o - n \in DOMAIN new /\ objects'[o] = new[o - n]
    BY <1>1, <1>4
  <2> QED  BY <2>1
<1> DEFINE Is(l, o) == /\ o \in DOMAIN objects' /\ o \notin DOMAIN objects
                       /\ l = <<"rx", o, objects'[o].rx, objects'[o].left>>
           from == [l \in Places' |->
                      IF \E o \in DOMAIN objects' : Is(l, o)
                        THEN <<"saved", <<k, new[l[2] - n].id>>, l[3], 0>> ELSE l]
<1>5. ASSUME NEW l \in Places'
      PROVE  \/ \E o \in DOMAIN objects' : Is(l, o)
             \/ /\ l \in Places
                /\ l[1] # "saved" \/ l[2][1] # k
                /\ ~ \E o \in DOMAIN objects' : Is(l, o)
  <2>1. IsPlace(l)'
    BY PlaceIs
  <2>2. ASSUME NEW m \in DOMAIN queues, l = <<"queue", m, queues[m], 0>>
        PROVE  IsPlace(l) /\ l[1] = "queue"
    BY <2>2 DEF IsPlace
  <2>3. ASSUME NEW d \in commands', d.command = "received", l = <<"reply", d, d.frames, 0>>
        PROVE  IsPlace(l) /\ l[1] = "reply"
    BY <1>2, <2>3 DEF IsPlace
  <2>4. ASSUME NEW o \in DOMAIN objects', l = <<"rx", o, objects'[o].rx, objects'[o].left>>, o \in DOMAIN objects
        PROVE  IsPlace(l) /\ l[1] = "rx" /\ l[2] \in DOMAIN objects
    <3>1. objects'[o] = objects[o]
      BY <1>1, <2>4
    <3> QED  BY <2>4, <3>1 DEF IsPlace
  <2>5. ASSUME NEW j \in Machine, NEW p \in pending'[j], l = <<"saved", <<j, p.id>>, p.rx, 0>>
        PROVE  IsPlace(l) /\ l[1] = "saved" /\ l[2][1] # k
    <3>1. j # k /\ p \in pending[j]
      BY <1>2
    <3> QED  BY <2>5, <3>1 DEF IsPlace
  <2>6. \/ \E o \in DOMAIN objects' : Is(l, o)
        \/ IsPlace(l) /\ l[1] # "rx" /\ (l[1] # "saved" \/ l[2][1] # k)
        \/ IsPlace(l) /\ l[1] = "rx" /\ l[2] \in DOMAIN objects
    BY <1>2, <2>1, <2>2, <2>3, <2>4, <2>5 DEF IsPlace
  <2> QED  BY <2>6, PlaceIs
<1>6. ASSUME NEW l \in Places', NEW o, Is(l, o)
      PROVE  /\ from[l] = <<"saved", <<k, new[o - n].id>>, l[3], 0>>
             /\ l[1] = "rx" /\ l[2] = o /\ l[3] = new[o - n].rx /\ l[4] = 0
  <2>1. l[1] = "rx" /\ l[2] = o /\ l[3] = objects'[o].rx /\ l[4] = objects'[o].left
    BY <1>6
  <2>2. from[l] = <<"saved", <<k, new[l[2] - n].id>>, l[3], 0>>
    BY <1>6
  <2>3. objects'[o] = new[o - n] /\ objects'[o].left = 0
    BY <1>4, <1>6 DEF LeftOK
  <2> QED  BY <2>1, <2>2, <2>3
<1>7. ASSUME NEW l \in Places', ~ \E o \in DOMAIN objects' : Is(l, o)
      PROVE  from[l] = l
  BY <1>7
<1> HIDE DEF from
<1>8. ASSUME NEW l \in Places' PROVE from[l] \in Places /\ from[l][3] = l[3]
  <2>1. ASSUME NEW o \in DOMAIN objects', Is(l, o) PROVE from[l] \in Places /\ from[l][3] = l[3]
    <3>1. new[o - n] \in pending[k]
      BY <1>4, <2>1
    <3>2. from[l] = <<"saved", <<k, new[o - n].id>>, new[o - n].rx, 0>> /\ l[3] = new[o - n].rx
      BY <1>6, <2>1
    <3>3. IsPlace(from[l])
      BY <3>1, <3>2 DEF IsPlace
    <3> QED  BY <3>2, <3>3, PlaceIs
  <2> QED  BY <1>5, <1>7, <2>1
<1>9. ASSUME NEW l \in Places', NEW m \in Places', from[l] = from[m] PROVE l = m
  <2>1. ASSUME NEW o, Is(l, o), NEW p, Is(m, p) PROVE l = m
    <3>1. /\ o \in DOMAIN objects' /\ o \notin DOMAIN objects
          /\ p \in DOMAIN objects' /\ p \notin DOMAIN objects
      BY <2>1
    <3>2. /\ o - n \in DOMAIN new /\ new[o - n] \in pending[k]
          /\ p - n \in DOMAIN new /\ new[p - n] \in pending[k]
      BY <1>4, <3>1
    <3>3. new[o - n].id = new[p - n].id
      BY <1>6, <1>9, <2>1
    <3>4. o - n = p - n
      BY <1>1, <1>3, <3>2, <3>3
    <3>5. o = p
      BY <1>1, <3>1, <3>4
    <3> QED  BY <2>1, <3>5
  <2>2. ASSUME NEW o, NEW x \in Places', NEW y \in Places', Is(x, o), from[x] = from[y],
               ~ \E p \in DOMAIN objects' : Is(y, p)
        PROVE  FALSE
    <3>1. y = <<"saved", <<k, new[o - n].id>>, x[3], 0>>
      BY <1>6, <1>7, <2>2
    <3>2. y[1] # "saved" \/ y[2][1] # k
      BY <1>5, <2>2
    <3> QED  BY <3>1, <3>2
  <2>3. CASE (\E o \in DOMAIN objects' : Is(l, o)) /\ (\E o \in DOMAIN objects' : Is(m, o))
    BY <2>1, <2>3
  <2>4. CASE ~(\E o \in DOMAIN objects' : Is(l, o)) /\ ~(\E o \in DOMAIN objects' : Is(m, o))
    BY <1>7, <1>9, <2>4
  <2> QED  BY <1>9, <2>2, <2>3, <2>4
<1>10. ASSUME NEW l \in Places'
       PROVE  from[l][4] = l[4] /\ (OnTheWay(from[l]) <=> OnTheWay(l))
  <2>1. ASSUME NEW o \in DOMAIN objects', Is(l, o)
        PROVE  from[l][4] = l[4] /\ (OnTheWay(from[l]) <=> OnTheWay(l))
    <3>1. from[l] = <<"saved", <<k, new[o - n].id>>, l[3], 0>> /\ l[1] = "rx" /\ l[4] = 0
      BY <1>6, <2>1
    <3> QED  BY <3>1 DEF OnTheWay
  <2> QED  BY <1>7, <2>1
<1>11. \A l, m \in Places' : Meet(l, m) => Meet(from[l], from[m])
  BY <1>10 DEF Meet
<1> QED  BY <1>8, <1>9, <1>11, Relabelled

\* What the objects of a kernel that ends have received is in the snapshot, too.
LEMMA OnceRebooted ==
  ASSUME IInv, LeftOK, Once, NEW k \in Machine, Reboot(k)
  PROVE  Once'
<1> PICK saved : saved = {objects[nics[k][id]] : id \in DOMAIN nics[k]}
  OBVIOUS
<1> PICK now : now = reboots + 1
  OBVIOUS
<1> PICK R : R = Range(nics[k])
  OBVIOUS
<1>1. /\ UNCHANGED queues /\ pending' = [pending EXCEPT ![k] = saved]
      /\ commands' = {Orphaned(c, k) : c \in commands} \cup Registration(saved)
  BY DEF Reboot
<1>2. /\ pending'[k] = saved
      /\ \A j \in Machine : j # k => pending'[j] = pending[j]
  BY <1>1 DEF IInv, PendingOK
<1>3. /\ DOMAIN objects' = DOMAIN objects
      /\ \A o \in DOMAIN objects : objects'[o].rx = objects[o].rx
      /\ \A o \in DOMAIN objects : objects'[o].left = IF o \in R THEN now ELSE objects[o].left
  BY DEF Reboot, IInv, ObjectsOK, Fields
<1>4. \A p \in saved : /\ nics[k][p.id] \in DOMAIN objects /\ p = objects[nics[k][p.id]]
                       /\ nics[k][p.id] \in R
  BY DEF IInv, NicsOK, Range
<1>5. \A o \in R : o \in DOMAIN objects /\ objects[o].left = 0
  BY DEF IInv, NicsOK, LeftOK, Range
<1>6. now # 0 /\ \A o \in DOMAIN objects : objects[o].left # now
  BY DEF LeftOK
<1>7. ASSUME NEW d \in commands', d.command = "received" PROVE d \in commands
  <2>1. CASE d \in Registration(saved)
    BY <1>7, <2>1 DEF Registration
  <2>2. ASSUME NEW c \in commands, d = Orphaned(c, k) PROVE d = c
    BY <1>7, <2>2 DEF Orphaned, IInv, CommandOK, Asked
  <2> QED  BY <1>1, <2>1, <2>2
<1> DEFINE Saved(l) == \E p \in saved : l = <<"saved", <<k, p.id>>, p.rx, 0>>
           Old(l) == \E o \in R : l = <<"rx", o, objects[o].rx, now>>
           Other(l) == /\ l \in Places /\ l[4] # now
                       /\ l[1] # "rx" \/ l[2] \notin R
                       /\ ~Saved(l) /\ ~Old(l)
           from == [l \in Places' |->
                      IF Saved(l) THEN <<"rx", nics[k][l[2][2]], l[3], 0>>
                      ELSE IF Old(l) THEN <<"rx", l[2], l[3], 0>> ELSE l]
<1>8. ASSUME NEW l \in Places' PROVE Saved(l) \/ Old(l) \/ Other(l)
  <2>1. IsPlace(l)'
    BY PlaceIs
  <2>2. ASSUME NEW m \in DOMAIN queues, l = <<"queue", m, queues[m], 0>>
        PROVE  Other(l)
    <3>1. IsPlace(l)
      BY <2>2 DEF IsPlace
    <3> QED  BY <1>6, <2>2, <3>1, PlaceIs
  <2>3. ASSUME NEW d \in commands', d.command = "received", l = <<"reply", d, d.frames, 0>>
        PROVE  Other(l)
    <3>1. IsPlace(l)
      BY <1>7, <2>3 DEF IsPlace
    <3> QED  BY <1>6, <2>3, <3>1, PlaceIs
  <2>4. ASSUME NEW o \in DOMAIN objects', l = <<"rx", o, objects'[o].rx, objects'[o].left>>
        PROVE  Old(l) \/ Other(l)
    <3>1. CASE o \in R
      <4>1. l = <<"rx", o, objects[o].rx, now>>
        BY <1>3, <2>4, <3>1
      <4> QED  BY <3>1, <4>1
    <3>2. CASE o \notin R
      <4>1. l = <<"rx", o, objects[o].rx, objects[o].left>> /\ o \in DOMAIN objects
        BY <1>3, <2>4, <3>2
      <4>2. IsPlace(l)
        BY <4>1 DEF IsPlace
      <4>3. l[1] = "rx" /\ l[2] \notin R /\ l[4] # now
        BY <1>6, <3>2, <4>1
      <4>4. ~Saved(l) /\ ~Old(l)
        BY <4>3
      <4> QED  BY <4>2, <4>3, <4>4, PlaceIs
    <3> QED  BY <3>1, <3>2
  <2>5. ASSUME NEW j \in Machine, NEW p \in pending'[j], l = <<"saved", <<j, p.id>>, p.rx, 0>>
        PROVE  Saved(l) \/ Other(l)
    <3>1. CASE j = k
      BY <1>2, <2>5, <3>1
    <3>2. CASE j # k
      <4>1. IsPlace(l)
        BY <1>2, <2>5, <3>2 DEF IsPlace
      <4>2. l[1] = "saved" /\ l[2][1] # k /\ l[4] # now
        BY <1>6, <2>5, <3>2
      <4>3. ~Saved(l) /\ ~Old(l)
        BY <4>2
      <4> QED  BY <4>1, <4>2, <4>3, PlaceIs
    <3> QED  BY <3>1, <3>2
  <2> HIDE DEF Saved, Old, Other
  <2> QED  BY <1>1, <2>1, <2>2, <2>3, <2>4, <2>5 DEF IsPlace
\* Where a list was.
<1>9. ASSUME NEW l \in Places', NEW p \in saved, l = <<"saved", <<k, p.id>>, p.rx, 0>>
      PROVE  from[l] = <<"rx", nics[k][p.id], p.rx, 0>>
  <2>1. l[2][2] = p.id /\ l[3] = p.rx /\ Saved(l)
    BY <1>9
  <2>2. from[l] = <<"rx", nics[k][l[2][2]], l[3], 0>>
    BY <2>1
  <2> QED  BY <2>1, <2>2
<1>10. ASSUME NEW l \in Places', NEW o \in R, l = <<"rx", o, objects[o].rx, now>>
       PROVE  from[l] = <<"rx", o, objects[o].rx, 0>>
  <2>1. l[1] = "rx" /\ l[2] = o /\ l[3] = objects[o].rx
    BY <1>10
  <2>2. ~Saved(l) /\ Old(l)
    BY <1>10, <2>1
  <2>3. from[l] = <<"rx", l[2], l[3], 0>>
    BY <2>2
  <2> QED  BY <2>1, <2>3
<1>11. ASSUME NEW l \in Places', Other(l) PROVE from[l] = l
  BY <1>11
<1> HIDE DEF from
<1>12. ASSUME NEW l \in Places' PROVE from[l] \in Places /\ from[l][3] = l[3]
  <2>1. ASSUME NEW p \in saved, l = <<"saved", <<k, p.id>>, p.rx, 0>>
        PROVE  from[l] \in Places /\ from[l][3] = l[3]
    <3> PICK o : o = nics[k][p.id]
      OBVIOUS
    <3>1. o \in DOMAIN objects /\ p = objects[o] /\ objects[o].left = 0
      BY <1>4, <1>5
    <3>2. from[l] = <<"rx", o, objects[o].rx, objects[o].left>>
      BY <1>9, <2>1, <3>1
    <3>3. IsPlace(from[l])
      BY <3>1, <3>2 DEF IsPlace
    <3>4. from[l][3] = objects[o].rx
      BY <3>2
    <3>5. l[3] = p.rx
      BY <2>1
    <3> QED  BY <3>1, <3>3, <3>4, <3>5, PlaceIs
  <2>2. ASSUME NEW o \in R, l = <<"rx", o, objects[o].rx, now>>
        PROVE  from[l] \in Places /\ from[l][3] = l[3]
    <3>1. from[l] = <<"rx", o, objects[o].rx, objects[o].left>> /\ o \in DOMAIN objects
      BY <1>5, <1>10, <2>2
    <3>2. IsPlace(from[l])
      BY <3>1 DEF IsPlace
    <3> QED  BY <2>2, <3>1, <3>2, PlaceIs
  <2>3. CASE Other(l)
    BY <1>11, <2>3
  <2> QED  BY <1>8, <2>1, <2>2, <2>3
\* Both lists, in the snapshot and in the old object, were one, but of them the
\* old object is of a kernel that has ended.
<1>13. ASSUME NEW l \in Places', NEW m \in Places', Meet(l, m)
       PROVE  Meet(from[l], from[m]) /\ (from[l] = from[m] => l = m)
  <2>1. ASSUME NEW p \in saved, l = <<"saved", <<k, p.id>>, p.rx, 0>>,
               NEW q \in saved, m = <<"saved", <<k, q.id>>, q.rx, 0>>
        PROVE  Meet(from[l], from[m]) /\ (from[l] = from[m] => l = m)
    <3>1. /\ from[l] = <<"rx", nics[k][p.id], p.rx, 0>>
          /\ from[m] = <<"rx", nics[k][q.id], q.rx, 0>>
      BY <1>9, <2>1
    <3>2. nics[k][p.id] = nics[k][q.id] => p = q
      BY <1>4
    <3> QED  BY <2>1, <3>1, <3>2 DEF Meet
  <2>2. ASSUME NEW x \in Places', NEW y \in Places', Meet(x, y),
               NEW p \in saved, x = <<"saved", <<k, p.id>>, p.rx, 0>>,
               NEW o \in R, y = <<"rx", o, objects[o].rx, now>>
        PROVE  FALSE
    <3>1. x[1] = "saved" /\ x[4] = 0 /\ y[1] = "rx" /\ y[4] = now
      BY <2>2
    <3> QED  BY <1>6, <2>2, <3>1 DEF Meet, OnTheWay
  <2>3. ASSUME NEW x \in Places', NEW y \in Places', Meet(x, y),
               NEW p \in saved, x = <<"saved", <<k, p.id>>, p.rx, 0>>, Other(y)
        PROVE  Meet(from[x], from[y]) /\ from[x] # from[y]
    <3>1. /\ from[x] = <<"rx", nics[k][p.id], p.rx, 0>> /\ nics[k][p.id] \in R
          /\ from[y] = y
      BY <1>4, <1>9, <1>11, <2>3
    <3>2. x[1] = "saved" /\ x[4] = 0
      BY <2>3
    <3> QED  BY <2>3, <3>1, <3>2 DEF Meet, OnTheWay
  <2>4. ASSUME NEW o \in R, l = <<"rx", o, objects[o].rx, now>>,
               NEW p \in R, m = <<"rx", p, objects[p].rx, now>>
        PROVE  Meet(from[l], from[m]) /\ (from[l] = from[m] => l = m)
    <3>1. from[l] = <<"rx", o, objects[o].rx, 0>> /\ from[m] = <<"rx", p, objects[p].rx, 0>>
      BY <1>10, <2>4
    <3> QED  BY <2>4, <3>1 DEF Meet
  <2>5. ASSUME NEW x \in Places', NEW y \in Places', Meet(x, y),
               NEW o \in R, x = <<"rx", o, objects[o].rx, now>>, Other(y)
        PROVE  Meet(from[x], from[y]) /\ from[x] # from[y]
    <3>1. from[x] = <<"rx", o, objects[o].rx, 0>> /\ from[y] = y
      BY <1>10, <1>11, <2>5
    <3>2. x[1] = "rx" /\ x[4] = now /\ y[4] # now
      BY <2>5
    <3> QED  BY <2>5, <3>1, <3>2 DEF Meet, OnTheWay
  <2>6. CASE Other(l) /\ Other(m)
    BY <1>11, <1>13, <2>6
  <2>7. \A x, y : Meet(x, y) <=> Meet(y, x)
    BY DEF Meet
  <2>8. CASE Saved(l)
    <3> HIDE DEF Other
    <3> QED  BY <1>8, <1>13, <2>1, <2>2, <2>3, <2>8
  <2>9. CASE Old(l)
    <3> HIDE DEF Other
    <3> QED  BY <1>8, <1>13, <2>2, <2>4, <2>5, <2>7, <2>9
  <2>10. CASE Other(l)
    <3> HIDE DEF Other
    <3> QED  BY <1>8, <1>13, <2>3, <2>5, <2>6, <2>7, <2>10
  <2> QED  BY <1>8, <2>8, <2>9, <2>10
<1> QED  BY <1>12, <1>13, Relabelled

-----------------------------------------------------------------------------
FramesInv == IInv /\ FramesOK /\ LeftOK /\ Once

LEMMA FramesInit ==
  ASSUME Init
  PROVE  FramesOK /\ LeftOK /\ Once
<1> PICK e : e = <<>>
  OBVIOUS
<1>1. /\ frames = 0 /\ commands = {} /\ objects = e /\ queues = e /\ nicIds = e
      /\ pending = [k \in Machine |-> {}] /\ DOMAIN e = {}
  BY DEF Init, HubInit
<1>2. FramesOK
  BY <1>1 DEF FramesOK, QueuesOK, RxOK, SavedOK, SendsOK
<1>3. ASSUME NEW l \in Places PROVE FALSE
  <2>1. IsPlace(l)
    BY PlaceIs
  <2> QED  BY <1>1, <2>1 DEF IsPlace
<1>4. Once
  BY <1>3 DEF Once
<1>5. LeftOK
  <2>1. reboots = 0 /\ nics = [k \in Machine |-> e]
    BY DEF Init
  <2> QED  BY <1>1, <2>1 DEF LeftOK
<1> QED  BY <1>2, <1>4, <1>5

LEMMA FramesNext ==
  ASSUME FramesInv, [Next]_vars
  PROVE  FramesInv'
<1> USE DEF FramesInv
<1>1. IInv'
  BY IInvNext
<1>2. CASE HandleCommand /\ UNCHANGED kernelVars
  <2>1. reboots' = reboots /\ pending' = pending /\ objects' = objects /\ nics' = nics
    BY <1>2 DEF kernelVars
  <2>2. LeftOK'
    BY <2>1, LeftKept
  <2> QED  BY <1>1, <1>2, <2>2, FramesHub, OnceHub
<1>3. ASSUME NEW k \in Machine, NEW id \in NicId,
             \/ \E mac \in Mac, kind \in Kind : CreateNic(k, id, mac, kind)
             \/ RemoveNic(k, id)
             \/ \E c \in Cidr : AddRoute(k, c, id)
      PROVE  FramesInv'
  BY <1>1, <1>3, FramesInterface, LeftInterface, OnceInterface
<1>4. ASSUME NEW k \in Machine, NEW c \in Cidr, RouteDel(k, c)
      PROVE  FramesInv'
  BY <1>1, <1>4, FramesInterface, LeftInterface, OnceInterface
<1>5. ASSUME NEW c \in commands, GetLease(c) \/ JoinedWifi(c) \/ Receive(c)
      PROVE  FramesInv'
  BY <1>1, <1>5, FramesAnswer, LeftAnswer, OnceAnswer
<1>6. ASSUME NEW o \in DOMAIN objects, NEW k, NEW dst \in Mac \cup {Unknown},
             \/ NicConfig(o) \/ RequestLease(k, o) \/ JoinWifi(k, o)
             \/ Ask(o) \/ Take(o) \/ Send(o, dst)
      PROVE  FramesInv'
  BY <1>1, <1>6, FramesObject, LeftObject, OnceObject
<1>7. ASSUME NEW k \in Machine, StartNetworking(k) \/ Reboot(k)
      PROVE  FramesInv'
  <2>1. IInv /\ FramesOK /\ LeftOK /\ Once
    OBVIOUS
  <2>2. FramesOK'
    BY <1>7, <2>1, FramesMachine
  <2>3. LeftOK'
    BY <1>7, <2>1, LeftMachine
  <2>4. CASE StartNetworking(k)
    <3>1. Once'
      BY <2>1, <2>4, OnceStarted
    <3> QED  BY <1>1, <2>2, <2>3, <3>1
  <2>5. CASE Reboot(k)
    <3>1. Once'
      BY <2>1, <2>5, OnceRebooted
    <3> QED  BY <1>1, <2>2, <2>3, <3>1
  <2> QED  BY <1>7, <2>4, <2>5
<1>8. CASE UNCHANGED vars
  <2>1. FramesOK' /\ Once'
    BY <1>8, FramesQuiet, OnceQuiet DEF vars, hubVars
  <2>2. reboots' = reboots /\ pending' = pending /\ objects' = objects /\ nics' = nics
    BY <1>8 DEF vars
  <2>3. LeftOK'
    BY <2>2, LeftKept
  <2> QED  BY <1>1, <2>1, <2>3
<1>9. ASSUME NEW o \in DOMAIN objects, NEW k,
             NicConfig(o) \/ RequestLease(k, o) \/ JoinWifi(k, o) \/ Ask(o) \/ Take(o)
      PROVE  FramesInv'
  BY <1>6, <1>9
<1> QED  BY <1>2, <1>3, <1>4, <1>5, <1>6, <1>7, <1>8, <1>9 DEF Next

\* No frame is delivered twice to one kernel: in every reachable state every
\* copy of a frame (send_frame, receive_frames of main.rs; NIC.receive,
\* startNetworking and the snapshot of index.ts) is in one queue, reply, object
\* or snapshot, once, however many receivers ask, and over reboots; only what
\* the kernel that a reboot ends has received may be in its object, too.
THEOREM FramesArriveOnce == Spec => []FramesOnce
<1>1. Init => FramesInv
  BY IInvInit, FramesInit DEF FramesInv
<1>2. FramesInv => FramesOnce
  BY DEF FramesInv, Once, FramesOnce, Meet
<1> QED  BY <1>1, <1>2, FramesNext, PTL DEF Spec

-----------------------------------------------------------------------------
(* Sockets and services *)

SocketsOK ==
  /\ services \in Seq(Service) /\ starting \subseteq Service \cap Slow
  /\ listeners \in [Port -> Service \cup {Program, Nobody}]

IsListed(s) == \E i \in 1..Len(services) : services[i] = s

ServicesOK ==
  /\ \A s \in Service :
       /\ listeners[PortOf[s]] = s => IsListed(s)
       /\ IsListed(s) /\ s \notin Slow => s \in wanted
  /\ \A s \in Service :
       /\ IsListed(s) /\ s \notin starting
       /\ \A t \in Service \ {s} : PortOf[t] # PortOf[s]
       => listeners[PortOf[s]] \in {s, Program}

RegistryOK == SocketsOK /\ ServicesOK

-----------------------------------------------------------------------------
\* The names that are listed are those of before and the new one.
LEMMA ListedOnes ==
  ASSUME services \in Seq(Service), NEW s \in Service
  PROVE  /\ Listed(services, s) \in Seq(Service)
         /\ \A t : (\E i \in 1..Len(Listed(services, s)) : Listed(services, s)[i] = t)
                   <=> IsListed(t) \/ t = s
<1>1. CASE Contains(services, s)
  BY <1>1 DEF Listed, Contains, IsListed
<1>2. CASE ~Contains(services, s)
  <2> PICK l : l = Append(services, s)
    OBVIOUS
  <2>1. /\ l \in Seq(Service) /\ Len(l) = Len(services) + 1 /\ Len(services) \in Nat
        /\ l[Len(services) + 1] = s /\ \A i \in 1..Len(services) : l[i] = services[i]
    BY AppendProperties, LenProperties
  <2>2. ASSUME NEW t PROVE (\E i \in 1..Len(l) : l[i] = t) <=> IsListed(t) \/ t = s
    BY <2>1 DEF IsListed
  <2> QED  BY <1>2, <2>1, <2>2 DEF Listed
<1> QED  BY <1>1, <1>2

LEMMA RegisterStep ==
  ASSUME RegistryOK, NEW s \in Service, Register(s), wanted \subseteq wanted',
         s \in wanted' \/ s \in Slow, starting' \subseteq Service \cap Slow, starting \ {s} \subseteq starting'
  PROVE  RegistryOK'
<1>1. /\ listeners' = [listeners EXCEPT ![PortOf[s]] = s] /\ services' = Listed(services, s)
      /\ services \in Seq(Service) /\ listeners \in [Port -> Service \cup {Program, Nobody}]
      /\ \A t \in Service : PortOf[t] \in Port
  BY DEF Register, Registered, RegistryOK, SocketsOK, Port
<1>2. services' \in Seq(Service) /\ \A t : IsListed(t)' <=> IsListed(t) \/ t = s
  BY <1>1, ListedOnes DEF IsListed
<1>3. /\ listeners' \in [Port -> Service \cup {Program, Nobody}]
      /\ \A t \in Service : listeners'[PortOf[t]] = IF PortOf[t] = PortOf[s] THEN s ELSE listeners[PortOf[t]]
  BY <1>1
<1>4. ASSUME NEW t \in Service
      PROVE  /\ listeners'[PortOf[t]] = t => IsListed(t)'
             /\ IsListed(t)' /\ t \notin Slow => t \in wanted'
  BY <1>2, <1>3 DEF RegistryOK, ServicesOK
<1>5. ASSUME NEW t \in Service, IsListed(t)', t \notin starting',
             \A o \in Service \ {t} : PortOf[o] # PortOf[t]
      PROVE  listeners'[PortOf[t]] \in {t, Program}
  BY <1>2, <1>3, <1>5 DEF RegistryOK, ServicesOK
<1>6. SocketsOK'
  BY <1>2, <1>3 DEF SocketsOK
<1>7. ServicesOK'
  BY <1>4, <1>5 DEF ServicesOK
<1> QED  BY <1>6, <1>7 DEF RegistryOK

LEMMA StopStep ==
  ASSUME RegistryOK, NEW s \in Service, StopService(s)
  PROVE  RegistryOK'
<1>1. /\ listeners' = [listeners EXCEPT ![PortOf[s]] = Nobody] /\ services' = Filter(services, Service \ {s})
      /\ wanted' = wanted \ {s} /\ UNCHANGED starting
      /\ services \in Seq(Service) /\ listeners \in [Port -> Service \cup {Program, Nobody}]
      /\ \A t \in Service : PortOf[t] \in Port
  BY DEF StopService, Unlistened, RegistryOK, SocketsOK, Port
<1> DEFINE S == Service \ {s}
<1> HIDE DEF S
<1>2. /\ Filter(services, S) \in Seq(Service \cap S)
      /\ Range(Filter(services, S)) = Range(services) \cap S
  BY <1>1, FilterRange
<1>3. services' \in Seq(Service)
  <2>1. services' \in Seq(Service \cap S)
    BY <1>1, <1>2 DEF S
  <2> QED  BY <2>1, SeqMonotonic
<1>5. ASSUME NEW t \in Service PROVE IsListed(t)' <=> IsListed(t) /\ t # s
  <2>1. IsListed(t) <=> t \in Range(services)
    BY <1>1, InRange DEF IsListed
  <2> PICK l \in Seq(Service) : l = services'
    BY <1>3
  <2>2. (\E i \in 1..Len(l) : l[i] = t) <=> t \in Range(l)
    BY InRange
  <2>3. IsListed(t)' <=> t \in Range(l)
    BY <2>2 DEF IsListed
  <2>4. Range(l) = Range(services) \cap S
    BY <1>1, <1>2 DEF S
  <2>5. t \in S <=> t # s
    BY DEF S
  <2> QED  BY <2>1, <2>3, <2>4, <2>5
<1>6. /\ listeners' \in [Port -> Service \cup {Program, Nobody}]
      /\ \A t \in Service : listeners'[PortOf[t]] = IF PortOf[t] = PortOf[s] THEN Nobody ELSE listeners[PortOf[t]]
  BY <1>1
<1>7. SocketsOK'
  BY <1>1, <1>3, <1>6 DEF RegistryOK, SocketsOK
<1>8. ServicesOK'
  BY <1>1, <1>5, <1>6, OwnersDiffer DEF RegistryOK, ServicesOK
<1> QED  BY <1>7, <1>8 DEF RegistryOK

\* Of the services that share a port one gets it back.
LEMMA RestartedOnes ==
  ASSUME NEW l, NEW names \in Seq(Service), NEW p \in Port
  PROVE  \/ /\ Restarted(l, names)[p] = l[p]
            /\ \A i \in 1..Len(names) : names[i] \in Slow \/ PortOf[names[i]] # p
         \/ \E i \in 1..Len(names) : Restarted(l, names)[p] = names[i] /\ PortOf[names[i]] = p
<1> DEFINE T == {i \in DOMAIN names : names[i] \notin Slow /\ PortOf[names[i]] = p}
<1>1. DOMAIN names = 1..Len(names) /\ Len(names) \in Nat
  OBVIOUS
<1>2. Restarted(l, names)[p] = IF T = {} THEN l[p] ELSE names[Max(T)]
  BY DEF Restarted
<1>3. T # {} => Max(T) \in T
  <2>1. T \in SUBSET (1..Len(names))
    BY <1>1
  <2> HIDE DEF T
  <2> QED  BY <1>1, <2>1, MaxElement
<1> QED  BY <1>1, <1>2, <1>3

LEMMA RestoreSocketsStep ==
  ASSUME RegistryOK, RestoreSockets
  PROVE  RegistryOK'
<1> PICK l : l = [p \in Port |-> Nobody]
  OBVIOUS
<1>1. /\ listeners' = Restarted(l, services) /\ starting' = Range(services) \cap Slow
      /\ UNCHANGED <<services, wanted>> /\ services \in Seq(Service)
      /\ \A t \in Service : PortOf[t] \in Port
  BY DEF RestoreSockets, RegistryOK, SocketsOK, Port
<1>2. \A p \in Port :
        \/ /\ listeners'[p] = Nobody
           /\ \A i \in 1..Len(services) : services[i] \in Slow \/ PortOf[services[i]] # p
        \/ \E i \in 1..Len(services) : listeners'[p] = services[i] /\ PortOf[services[i]] = p
  BY <1>1, RestartedOnes
<1>3. \A i \in 1..Len(services) : services[i] \in Service
  BY <1>1, ElementOfSeq
<1>4. \A s : IsListed(s) <=> IsListed(s)'
  BY <1>1 DEF IsListed
<1>5. starting' = {s \in Slow : IsListed(s)}
  <2>1. DOMAIN services = 1..Len(services)
    BY <1>1
  <2> QED  BY <1>1, <2>1 DEF Range, IsListed
<1>6. SocketsOK'
  <2>1. listeners' = [p \in Port |-> listeners'[p]]
    BY <1>1 DEF Restarted
  <2>2. \A p \in Port : listeners'[p] \in Service \cup {Program, Nobody}
    BY <1>2, <1>3
  <2>3. listeners' \in [Port -> Service \cup {Program, Nobody}]
    BY <2>1, <2>2
  <2>4. starting' \subseteq Service \cap Slow
    BY <1>3, <1>5 DEF IsListed
  <2> QED  BY <1>1, <2>3, <2>4 DEF SocketsOK
<1>7. ASSUME NEW s \in Service
      PROVE  /\ listeners'[PortOf[s]] = s => IsListed(s)'
             /\ IsListed(s)' /\ s \notin Slow => s \in wanted'
  <2>1. listeners'[PortOf[s]] = s => IsListed(s)
    BY <1>1, <1>2, OwnersDiffer DEF IsListed
  <2> QED  BY <1>1, <1>4, <2>1 DEF RegistryOK, ServicesOK
<1>8. ASSUME NEW s \in Service, IsListed(s)', s \notin starting',
             \A t \in Service \ {s} : PortOf[t] # PortOf[s]
      PROVE  listeners'[PortOf[s]] \in {s, Program}
  <2>1. PICK j \in 1..Len(services) : services[j] = s
    BY <1>4, <1>8 DEF IsListed
  <2>2. s \notin Slow
    BY <1>4, <1>5, <1>8
  <2>3. PICK i \in 1..Len(services) :
          listeners'[PortOf[s]] = services[i] /\ PortOf[services[i]] = PortOf[s]
    BY <1>1, <1>2, <2>1, <2>2
  <2> QED  BY <1>3, <1>8, <2>3
<1>9. ServicesOK'
  BY <1>7, <1>8 DEF ServicesOK
<1> QED  BY <1>6, <1>9 DEF RegistryOK

LEMMA RegistryStep == RegistryOK /\ [SocketsNext]_socketVars => RegistryOK'
<1> SUFFICES ASSUME RegistryOK, [SocketsNext]_socketVars PROVE RegistryOK'
  OBVIOUS
<1>1. ASSUME NEW s \in Service, StartService(s) PROVE RegistryOK'
  <2>1. CASE s \in Slow
    BY <1>1, <2>1 DEF StartService, RegistryOK, SocketsOK, ServicesOK, IsListed
  <2>2. CASE s \notin Slow
    <3>1. /\ Register(s) /\ UNCHANGED starting /\ wanted' = wanted \cup {s}
          /\ starting \subseteq Service \cap Slow
      BY <1>1, <2>2 DEF StartService, RegistryOK, SocketsOK
    <3> QED  BY <3>1, RegisterStep
  <2> QED  BY <2>1, <2>2
<1>2. ASSUME NEW s \in Service, Started(s) PROVE RegistryOK'
  <2>1. s \in wanted \/ s \in Slow
    BY <1>2 DEF Started, RegistryOK, SocketsOK
  <2> QED  BY <1>2, <2>1, RegisterStep DEF Started, RegistryOK, SocketsOK
<1>3. ASSUME NEW p \in Port, Listen(p) PROVE RegistryOK'
  BY <1>3, OwnersDiffer DEF Listen, RegistryOK, SocketsOK, ServicesOK, IsListed
<1>4. ASSUME NEW p \in Port, Connect(p) PROVE RegistryOK'
  BY <1>4 DEF Connect, RegistryOK, SocketsOK, ServicesOK, IsListed
<1>5. CASE UNCHANGED socketVars
  BY <1>5 DEF socketVars, RegistryOK, SocketsOK, ServicesOK, IsListed
<1> QED  BY <1>1, <1>2, <1>3, <1>4, <1>5, StopStep, RestoreSocketsStep DEF SocketsNext

\* The registry of services and the listeners of the ports agree, for every set
\* of services and ports, over stops, restores and late starts.
THEOREM ServicesListen == SocketsSpec => []ListedListens
<1>1. SocketsInit => RegistryOK
  BY OwnersDiffer, EmptySeq DEF SocketsInit, RegistryOK, SocketsOK, ServicesOK, IsListed, Port
<1>2. RegistryOK => ListedListens
  <2> SUFFICES ASSUME RegistryOK PROVE ListedListens
    OBVIOUS
  <2>1. \A s : Contains(services, s) <=> IsListed(s)
    BY DEF Contains, IsListed
  <2>2. \A s \in Range(services) : s \in Service /\ IsListed(s)
    BY DEF Range, IsListed, RegistryOK, SocketsOK
  <2> QED  BY <2>1, <2>2 DEF RegistryOK, ServicesOK, ListedListens
<1> QED  BY <1>1, <1>2, RegistryStep, PTL DEF SocketsSpec
=============================================================================
