------------------------------- MODULE HostHub -------------------------------
(***************************************************************************)
(* The network side of the host (host/src/main.rs): the queue of frames of *)
(* every MAC address, the MAC address of every interface id, and the       *)
(* leases of dhcp_request.  These are statics of the host process: they    *)
(* outlive a kernel, and all kernels of the host share them.               *)
(*                                                                         *)
(* Commands are invoked asynchronously and handled in any order.  Each is  *)
(* about an interface id; those of one id that are under way are numbered, *)
(* so that two equal ones are two.                                         *)
(***************************************************************************)
EXTENDS Naturals, Sequences, FiniteSets, SequencesExt

CONSTANTS
  NicId,        \* names of interfaces
  Mac,          \* their addresses
  Unknown,      \* an address that no interface has
  FirstHost     \* the first address of the pool of DHCP: its last octet

ASSUME HubAssumption == FirstHost \in Nat \ {0} /\ Unknown \notin Mac

VARIABLES
  nicIds,       \* NIC_IDS
  queues,       \* NIC_QUEUES
  leases,       \* DHCP_LEASES
  nextHost,     \* DHCP_NEXT_HOST
  commands      \* the commands sent and not yet handled

hubVars == <<nicIds, queues, leases, nextHost, commands>>

HubInit ==
  /\ nicIds = <<>> /\ queues = <<>>
  /\ leases = <<>> /\ nextHost = FirstHost
  /\ commands = {}

Set(map, key, value) == [k \in DOMAIN map \cup {key} |-> IF k = key THEN value ELSE map[k]]

\* register_nic leaves the queue of an address that the id had before.
RegisterNic(c) ==
  /\ c.command = "register_nic"
  /\ nicIds' = Set(nicIds, c.id, c.mac)
  /\ queues' = IF c.mac \in DOMAIN queues THEN queues ELSE Set(queues, c.mac, <<>>)
  /\ commands' = commands \ {c}
  /\ UNCHANGED <<leases, nextHost>>

\* A copy of a frame is labelled with the address whose queue it is put in.
Copy(frame, mac) == [frame |-> frame, for |-> mac]

Flooded(source) == DOMAIN queues \ {source}

\* send_frame: an unknown destination is flooded, an unknown sender refused.
SendFrame(c) ==
  /\ c.command = "send_frame"
  /\ LET dst == c.frame.dst
         to == IF dst \in DOMAIN queues THEN {dst} ELSE Flooded(nicIds[c.id])
     IN queues' = IF c.id \notin DOMAIN nicIds THEN queues
                  ELSE [m \in DOMAIN queues |-> IF m \in to THEN Append(queues[m], Copy(c.frame, m))
                                                ELSE queues[m]]
  /\ commands' = commands \ {c}
  /\ UNCHANGED <<nicIds, leases, nextHost>>

\* (mutation) receive_frames copies the queue and leaves it.
Drained_Kept(q, mac) == q
Drained(q, mac) == [q EXCEPT ![mac] = <<>>]

\* receive_frames drains the queue of the address the id has now.
ReceiveFrames(c) ==
  /\ c.command = "receive_frames"
  /\ LET mac == nicIds[c.id]
         known == c.id \in DOMAIN nicIds
     IN /\ queues' = IF known THEN Drained(queues, mac) ELSE queues
        /\ commands' = (commands \ {c}) \cup
             {[command |-> "received", id |-> c.id, call |-> c.call, nic |-> c.nic,
               frames |-> IF known THEN queues[mac] ELSE <<>>]}
  /\ UNCHANGED <<nicIds, leases, nextHost>>

\* The first address from DHCP_NEXT_HOST on that is not leased.
FreeHost ==
  Min({n \in nextHost..(nextHost + Cardinality(DOMAIN leases)) :
         \A id \in DOMAIN leases : leases[id] # n})

\* (mutation) the lease is not entered.
Entered_Not(id, host) == leases
Entered(id, host) == Set(leases, id, host)

\* dhcp_request: a lease is kept for ever, under the id of the interface.
DhcpRequest(c) ==
  /\ c.command = "dhcp_request"
  /\ LET host == IF c.id \in DOMAIN leases THEN leases[c.id] ELSE FreeHost
     IN /\ leases' = Entered(c.id, host)
        /\ nextHost' = IF c.id \in DOMAIN leases THEN nextHost ELSE host + 1
        /\ commands' = (commands \ {c}) \cup {[c EXCEPT !.command = "leased", !.host = host]}
  /\ UNCHANGED <<nicIds, queues>>

HandleCommand ==
  \E c \in commands : RegisterNic(c) \/ SendFrame(c) \/ ReceiveFrames(c) \/ DhcpRequest(c)
=============================================================================
