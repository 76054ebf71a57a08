------------------------------- MODULE Network -------------------------------
(***************************************************************************)
(* The network interfaces and routes of the kernels (core/net/nic.ts,      *)
(* core/net/router.ts, the calls *_nic, nic_*, dhcp_request, wifi_join and *)
(* route_* of core/kernel/syscalls.ts, startNetworking of                  *)
(* core/kernel/index.ts), over the host's hub.                             *)
(*                                                                         *)
(* A route is kept twice: by its text in state.routes, with the id of the  *)
(* interface, and by its network in the router, with the NIC object.  An   *)
(* object outlives its entry in state.nics as long as the router or a call *)
(* under way holds it.  The status of an interface, its transmit queue and *)
(* the loopback interface, which nothing here reads, are left out.         *)
(*                                                                         *)
(* A reboot makes another kernel, which starts from a copy.  Of the old    *)
(* one the objects are kept: calls under way go on with them, and its      *)
(* handlers of syscalls stay, so that they send, receive and ask for       *)
(* leases.  Its routes and the interfaces it makes from then on, which     *)
(* nothing but these calls sees, are left out, and so is a restart of the  *)
(* application, at which the host forgets its leases.                      *)
(***************************************************************************)
EXTENDS HostHub, Functions, Lists

CONSTANTS
  Machine,        \* kernels of the host
  Net,            \* networks: an address with its mask
  Pool,           \* the network of the DHCP pool
  Spelling,       \* the ways to write a network: 10.0.0.0/24 and 10.0.0.7/24
  Canonical,      \* the one networkFrom makes
  Kind,           \* kinds of interfaces: wired, wifi
  OldKernel,      \* the kernels that have been rebooted
  MaxObjects, MaxRoutes, MaxFrames, MaxCommands, MaxReboots     \* bounds

ASSUME NetAssumption ==
  /\ OldKernel \notin Machine
  /\ Pool \in Net /\ Canonical \in Spelling /\ Kind \subseteq {"wired", "wifi"}

VARIABLES
  objects,    \* the NIC objects ever made
  nics,       \* state.nics of each machine: the object of each id
  pending,    \* pendingNics: what startNetworking will make interfaces of
  started,    \* networkingStarted
  routes,     \* state.routes: the id for each route
  router,     \* the list of the router
  frames,     \* the number of frames sent
  reboots

vars == <<hubVars, objects, nics, pending, started, routes, router, frames, reboots>>
kernelVars == <<objects, nics, pending, started, routes, router, frames, reboots>>

Cidr == [net : Net, text : Spelling]
PoolCidr == [net |-> Pool, text |-> Canonical]
ByHand == 0        \* no address, or one that was set by hand

Init ==
  /\ HubInit
  /\ objects = <<>>
  /\ nics = [k \in Machine |-> <<>>]
  /\ pending = [k \in Machine |-> {}]
  /\ started = [k \in Machine |-> FALSE]
  /\ routes = [k \in Machine |-> <<>>]
  /\ router = [k \in Machine |-> <<>>]
  /\ frames = 0
  /\ reboots = 0

-----------------------------------------------------------------------------
(***************************************************************************)
(* Interfaces                                                              *)
(***************************************************************************)
\* An object; left is the reboot that its kernel ended with, 0 for none yet.
Nic(id, mac, kind, ip, rx) ==
  [id |-> id, mac |-> mac, kind |-> kind, ip |-> ip, rx |-> rx, left |-> 0]

Room(n) == Cardinality(commands) + n <= MaxCommands

\* The first number that no command about the interface id has.
Number(id) ==
  Min({n \in 1 .. Cardinality(commands) + 1 : \A c \in commands : c.id = id => c.call # n})

\* The kernels that have an object in state.nics.
Kernels(o) ==
  {k \in Machine : o \in Range(nics[k])} \cup
    (IF objects[o].left = 0 THEN {} ELSE {OldKernel})

Invoke(cs) == commands' = commands \cup cs

\* The constructor registers a wired interface and does not wait for it.
Registration(new) ==
  {[command |-> "register_nic", id |-> n.id, call |-> Number(n.id), mac |-> n.mac] :
     n \in {x \in new : x.kind = "wired"}}

CreateNic(k, id, mac, kind) ==
  LET new == Nic(id, mac, kind, ByHand, <<>>)
  IN /\ id \notin DOMAIN nics[k] /\ Len(objects) < MaxObjects /\ Room(1)
     /\ objects' = Append(objects, new)
     /\ nics' = [nics EXCEPT ![k] = Set(@, id, Len(objects) + 1)]
     /\ Invoke(Registration({new}))
     /\ UNCHANGED <<pending, started, routes, router, frames, reboots,
                    nicIds, queues, leases, nextHost>>

RemoveNic(k, id) ==
  /\ id \in DOMAIN nics[k]
  /\ nics' = [nics EXCEPT ![k] = [i \in DOMAIN @ \ {id} |-> @[i]]]
  /\ UNCHANGED <<objects, pending, started, routes, router, frames, reboots>>
  /\ UNCHANGED hubVars

NicConfig(o) ==
  /\ objects' = [objects EXCEPT ![o].ip = ByHand]
  /\ UNCHANGED <<nics, pending, started, routes, router, frames, reboots>>
  /\ UNCHANGED hubVars

-----------------------------------------------------------------------------
(***************************************************************************)
(* Routes                                                                  *)
(***************************************************************************)
\* (mutation) only the first entry of the network.
Unrouted_First(list, c) ==
  LET hits == {i \in DOMAIN list : list[i].net = c.net}
  IN IF hits = {} THEN list ELSE RemoveAt(list, Min(hits))

\* removeRoute: every entry of the network.
Unrouted(list, c) == Filter(list, {r \in Range(list) : r.net # c.net})

\* addRoute: at the end of the list.
Routed(list, net, object) == Append(list, [net |-> net, nic |-> object])

RouteAdd(k, c, id) ==
  IF id \in DOMAIN nics[k]
  THEN /\ routes' = [routes EXCEPT ![k] = Set(@, c, id)]
       /\ router' = [router EXCEPT ![k] = Routed(@, c.net, nics[k][id])]
  ELSE UNCHANGED <<routes, router>>

AddRoute(k, c, id) ==
  /\ id \in DOMAIN nics[k] /\ Len(router[k]) < MaxRoutes
  /\ RouteAdd(k, c, id)
  /\ UNCHANGED <<objects, nics, pending, started, frames, reboots>> /\ UNCHANGED hubVars

RouteDel(k, c) ==
  /\ c \in DOMAIN routes[k]
  /\ routes' = [routes EXCEPT ![k] = [d \in DOMAIN @ \ {c} |-> @[d]]]
  /\ router' = [router EXCEPT ![k] = Unrouted(@, c)]
  /\ UNCHANGED <<objects, nics, pending, started, frames, reboots>> /\ UNCHANGED hubVars

\* forward: the object that the frames of a network are put into, 0 for none.
Forward(k, net) ==
  LET hits == {i \in DOMAIN router[k] : router[k][i].net = net}
  IN IF hits = {} THEN 0 ELSE router[k][Min(hits)].nic

-----------------------------------------------------------------------------
(***************************************************************************)
(* DHCP and Wi-Fi.  The call keeps the object it found while it waits for  *)
(* the host; the route goes to the interface that has the id afterwards.   *)
(***************************************************************************)
Asks(command, call, k, id, nic) ==
  {[command |-> command, call |-> call, machine |-> k, id |-> id, nic |-> nic, host |-> 0]}

RequestLease(k, o) ==
  /\ Room(1)
  /\ Invoke(Asks("dhcp_request", Number(objects[o].id), k, objects[o].id, o))
  /\ UNCHANGED <<nicIds, queues, leases, nextHost>> /\ UNCHANGED kernelVars

GetLease(c) ==
  /\ c.command = "leased"
  /\ objects' = [objects EXCEPT ![c.nic].ip = c.host]
  /\ IF c.machine = OldKernel THEN UNCHANGED <<routes, router>>
     ELSE Len(router[c.machine]) < MaxRoutes /\ RouteAdd(c.machine, PoolCidr, c.id)
  /\ commands' = commands \ {c}
  /\ UNCHANGED <<nics, pending, started, frames, reboots, nicIds, queues, leases, nextHost>>

JoinWifi(k, o) ==
  /\ Room(1)
  /\ Invoke(Asks("wifi_join", Number(objects[o].id), k, objects[o].id,
                 IF k = OldKernel THEN o ELSE 0))
  /\ UNCHANGED <<nicIds, queues, leases, nextHost>> /\ UNCHANGED kernelVars

\* The object that state.nics of the kernel has under the id, 0 for none; of a
\* kernel that was rebooted the command knows it.
Found(c) ==
  IF c.machine = OldKernel THEN c.nic
  ELSE IF c.id \in DOMAIN nics[c.machine] THEN nics[c.machine][c.id] ELSE 0

\* The host knows the passphrase or does not; dhcp_request looks the id up anew.
JoinedWifi(c) ==
  /\ c.command = "wifi_join"
  /\ \/ commands' = commands \ {c}
     \/ /\ Found(c) # 0
        /\ commands' = (commands \ {c})
             \cup Asks("dhcp_request", c.call, c.machine, c.id, Found(c))
  /\ UNCHANGED <<nicIds, queues, leases, nextHost>> /\ UNCHANGED kernelVars

-----------------------------------------------------------------------------
(***************************************************************************)
(* Frames                                                                  *)
(***************************************************************************)
Send(o, dst) ==
  /\ frames < MaxFrames /\ Room(1)
  /\ frames' = frames + 1
  /\ Invoke({[command |-> "send_frame", id |-> objects[o].id, call |-> Number(objects[o].id),
              frame |-> [number |-> frames + 1, src |-> objects[o].mac, dst |-> dst]]})
  /\ UNCHANGED <<objects, nics, pending, started, routes, router, reboots,
                 nicIds, queues, leases, nextHost>>

\* receive asks the host when it has nothing; several may ask for one object.
Ask(o) ==
  /\ objects[o].rx = <<>> /\ Room(1)
  /\ Invoke({[command |-> "receive_frames", id |-> objects[o].id,
              call |-> Number(objects[o].id), nic |-> o]})
  /\ UNCHANGED <<nicIds, queues, leases, nextHost>> /\ UNCHANGED kernelVars

Take(o) ==
  /\ objects[o].rx # <<>>
  /\ objects' = [objects EXCEPT ![o].rx = Tail(@)]
  /\ UNCHANGED <<nics, pending, started, routes, router, frames, reboots>>
  /\ UNCHANGED hubVars

\* The answer is put behind what came meanwhile, and the first frame taken.
Receive(c) ==
  /\ c.command = "received"
  /\ LET rx == objects[c.nic].rx \o c.frames
     IN objects' = [objects EXCEPT ![c.nic].rx = IF rx = <<>> THEN rx ELSE Tail(rx)]
  /\ commands' = commands \ {c}
  /\ UNCHANGED <<nics, pending, started, routes, router, frames, reboots,
                 nicIds, queues, leases, nextHost>>

-----------------------------------------------------------------------------
\* startNetworking, after the login: the interfaces are made of pendingNics,
\* those that were created before are forgotten, and the router gets the
\* routes whose interface there is.
\* The order is that of the two maps.
NewNics(k, new) ==
  [id \in {n.id : n \in pending[k]} |-> Len(objects) + (CHOOSE i \in DOMAIN new : new[i].id = id)]
LiveRoutes(k, made) == {c \in DOMAIN routes[k] : routes[k][c] \in DOMAIN made}
Entries(k, made, live) ==
  [i \in DOMAIN live |-> [net |-> live[i].net, nic |-> made[routes[k][live[i]]]]]

StartNetworking(k) ==
  /\ ~started[k] /\ Room(Cardinality(pending[k]))
  /\ Len(objects) + Cardinality(pending[k]) <= MaxObjects
  /\ \E new \in SetToSeqs(pending[k]) :
       LET made == NewNics(k, new)
       IN /\ objects' = objects \o new
          /\ nics' = [nics EXCEPT ![k] = made]
          /\ \E live \in SetToSeqs(LiveRoutes(k, made)) :
               router' = [router EXCEPT ![k] = @ \o Entries(k, made, live)]
  /\ started' = [started EXCEPT ![k] = TRUE]
  /\ pending' = [pending EXCEPT ![k] = {}]
  /\ Invoke(Registration(pending[k]))
  /\ UNCHANGED <<routes, frames, reboots, nicIds, queues, leases, nextHost>>

\* The calls of kernel k that wait for a lease or a Wi-Fi network go on for
\* the old kernel.
Orphaned(c, k) ==
  IF c.command \in {"dhcp_request", "leased", "wifi_join"} /\ c.machine = k
  THEN [c EXCEPT !.machine = OldKernel, !.nic = IF c.command = "wifi_join" THEN Found(c) ELSE @]
  ELSE c

\* A reboot.  The snapshot has state.nics, with copies of what they have
\* received, and the routes; reviving an interface registers it.
Reboot(k) ==
  /\ reboots < MaxReboots
  /\ reboots' = reboots + 1
  /\ LET saved == {objects[nics[k][id]] : id \in DOMAIN nics[k]}
     IN /\ pending' = [pending EXCEPT ![k] = saved]
        /\ commands' = {Orphaned(c, k) : c \in commands} \cup Registration(saved)
        /\ Room(Cardinality(saved))
  /\ objects' = [o \in DOMAIN objects |->
                   IF o \in Range(nics[k]) THEN [objects[o] EXCEPT !.left = reboots + 1]
                   ELSE objects[o]]
  /\ nics' = [nics EXCEPT ![k] = <<>>]
  /\ router' = [router EXCEPT ![k] = <<>>]
  /\ started' = [started EXCEPT ![k] = FALSE]
  /\ UNCHANGED <<routes, frames, nicIds, queues, leases, nextHost>>

Next ==
  \/ HandleCommand /\ UNCHANGED kernelVars
  \/ \E k \in Machine, id \in NicId :
       \/ \E mac \in Mac, kind \in Kind : CreateNic(k, id, mac, kind)
       \/ RemoveNic(k, id)
       \/ \E c \in Cidr : AddRoute(k, c, id)
  \/ \E k \in Machine, c \in Cidr : RouteDel(k, c)
  \/ \E c \in commands : GetLease(c) \/ JoinedWifi(c) \/ Receive(c)
  \/ \E o \in DOMAIN objects : \E k \in Kernels(o) :
       \/ NicConfig(o) \/ RequestLease(k, o) \/ JoinWifi(k, o)
       \/ Ask(o) \/ Take(o) \/ \E dst \in Mac \cup {Unknown} : Send(o, dst)
  \/ \E k \in Machine : StartNetworking(k) \/ Reboot(k)

Spec == Init /\ [][Next]_vars

-----------------------------------------------------------------------------
(* Properties *)

\* A route that was deleted forwards nothing: the router knows only networks
\* of state.routes, however often and under whatever spelling they were added.
RouterKnowsOnlyRoutes ==
  \A k \in Machine :
    {r.net : r \in Range(router[k])} \subseteq {c.net : c \in DOMAIN routes[k]}

\* Whatever the order in which requests are answered, and across reboots and
\* removals, an address that DHCP gave stays leased to the interface that
\* has it, and no two interface ids hold one address.
AddressIsLeased ==
  /\ IsInjective(leases)
  /\ \A o \in DOMAIN objects :
       objects[o].ip # ByHand =>
         /\ objects[o].id \in DOMAIN leases
         /\ leases[objects[o].id] = objects[o].ip

\* The lists in which copies of frames are, each tagged with where it is and
\* with the kernels it belongs to: those that there are, 0, or one that ended.
Places ==
  {<<"queue", m, queues[m], 0>> : m \in DOMAIN queues}
    \cup {<<"reply", r, r.frames, 0>> : r \in {x \in commands : x.command = "received"}}
    \cup {<<"rx", o, objects[o].rx, objects[o].left>> : o \in DOMAIN objects}
    \cup UNION {{<<"saved", <<k, n.id>>, n.rx, 0>> : n \in pending[k]} : k \in Machine}

\* No frame is delivered twice to one kernel: however many receivers ask at
\* once, every copy of a frame is in one place at most, and there once.  Only
\* what an interface has received and not yet delivered when its kernel is
\* rebooted is in two: in the old object, for a receive that is under way, and
\* in the snapshot.
FramesOnce ==
  \A l, m \in Places : \A i \in DOMAIN l[3], j \in DOMAIN m[3] :
    l[3][i] = m[3][j] /\ l[4] = m[4] => l = m /\ i = j
=============================================================================
