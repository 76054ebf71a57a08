------------------------------- MODULE Sockets -------------------------------
(***************************************************************************)
(* The sockets of a kernel (core/net/tcp.ts, core/net/udp.ts, which differ *)
(* in names only) and its registry of services (registerService,           *)
(* stopService and the restart of services in restore,                     *)
(* core/kernel/index.ts).                                                  *)
(*                                                                         *)
(* A handler is known by its owner: the service that registered it, or     *)
(* Program for the call listen.  The name of a service says its port       *)
(* (httpd:80).  Connections are never removed; what is sent over one runs  *)
(* the handlers of the other end at once and changes nothing here.         *)
(***************************************************************************)
EXTENDS Naturals, Sequences, SequencesExt, Lists

CONSTANTS
  Service,       \* names of services
  PortOf,        \* the protocol and port of each
  Slow,          \* those that register after a read of the disk: named
  Program,       \* the owner of a program's listener
  Nobody,        \* no handler
  MaxConnections, MaxRestores      \* bounds

ASSUME OwnersDiffer == Program \notin Service /\ Nobody \notin Service

VARIABLES
  listeners,     \* the handler of each port, Nobody without one
  services,      \* state.services, in the order of the Map
  starting,      \* late services under way
  connections,   \* the handler that got the server's end of each connection
  restores,
  wanted         \* started and not stopped since: watched, not in the code

socketVars == <<listeners, services, starting, connections, restores, wanted>>

Port == {PortOf[s] : s \in Service}

SocketsInit ==
  /\ listeners = [p \in Port |-> Nobody]
  /\ services = <<>> /\ starting = {} /\ connections = <<>>
  /\ restores = 0 /\ wanted = {}

\* A Map keeps the place of a key that is set again.
Listed(names, s) == IF Contains(names, s) THEN names ELSE Append(names, s)

\* registerService takes the port from whoever has it.
Registered(l, s) == [l EXCEPT ![PortOf[s]] = s]

Register(s) ==
  /\ listeners' = Registered(listeners, s)
  /\ services' = Listed(services, s)
  /\ UNCHANGED <<connections, restores>>

StartService(s) ==
  /\ wanted' = wanted \cup {s}
  /\ IF s \in Slow
       THEN starting' = starting \cup {s} /\ UNCHANGED <<listeners, services, connections, restores>>
       ELSE Register(s) /\ UNCHANGED starting

Started(s) ==
  /\ s \in starting
  /\ starting' = starting \ {s}
  /\ Register(s)
  /\ UNCHANGED wanted

\* listen, called by a program.
Listen(p) ==
  /\ listeners' = [listeners EXCEPT ![p] = Program]
  /\ UNCHANGED <<services, starting, connections, restores, wanted>>

Unlistened(l, p) == [l EXCEPT ![p] = Nobody]

\* stopService takes the listener of the port, whoever it belongs to.
StopService(s) ==
  /\ Contains(services, s)
  /\ listeners' = Unlistened(listeners, PortOf[s])
  /\ services' = Filter(services, Service \ {s})
  /\ wanted' = wanted \ {s}
  /\ UNCHANGED <<starting, connections, restores>>

\* connect: without a handler the caller has a socket that nothing answers.
Connect(p) ==
  /\ Len(connections) < MaxConnections
  /\ connections' = Append(connections, listeners[p])
  /\ UNCHANGED <<listeners, services, starting, restores, wanted>>

\* (mutation) the listeners of the snapshot are trusted.
Restarted_None(l, names) == l

\* The services of a snapshot are started again in the order of its Map.
\* Of those that share a port the last one has it.
Restarted(l, names) ==
  [p \in Port |->
     LET takers == {i \in DOMAIN names : names[i] \notin Slow /\ PortOf[names[i]] = p}
     IN IF takers = {} THEN l[p] ELSE names[Max(takers)]]

\* restore.  JSON has no functions: listeners and the ends of connections
\* come back without their handlers.
RestoreSockets ==
  /\ restores < MaxRestores
  /\ restores' = restores + 1
  /\ listeners' = Restarted([p \in Port |-> Nobody], services)
  /\ starting' = Range(services) \cap Slow
  /\ connections' = [c \in DOMAIN connections |-> Nobody]
  /\ UNCHANGED <<services, wanted>>

SocketsNext ==
  \/ \E s \in Service : StartService(s) \/ Started(s) \/ StopService(s)
  \/ \E p \in Port : Listen(p) \/ Connect(p)
  \/ RestoreSockets

SocketsSpec == SocketsInit /\ [][SocketsNext]_socketVars

-----------------------------------------------------------------------------
(* Properties *)

\* The registry and the ports agree, also when services share a port and
\* over restores.  A stopped service takes no more connections: who listens
\* is listed, and was started after it was stopped (a late service may be
\* stopped while it is starting again).  A listed service whose port no other
\* service uses has its handler there, or a program took it.
ListedListens ==
  /\ \A s \in Service :
       /\ listeners[PortOf[s]] = s => Contains(services, s)
       /\ Contains(services, s) /\ s \notin Slow => s \in wanted
  /\ \A s \in Range(services) \ starting :
       (\A t \in Service \ {s} : PortOf[t] # PortOf[s]) => listeners[PortOf[s]] \in {s, Program}
=============================================================================
