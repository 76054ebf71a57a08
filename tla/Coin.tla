--------------------------------- MODULE Coin --------------------------------
(***************************************************************************)
(* Nodes of the coin service on one network (core/services/coin.ts).  The  *)
(* sockets call the handler of the other end from within write, so that a  *)
(* message is handled to its end, with all that it causes, before the      *)
(* sender goes on: what remains to be done is a stack.                     *)
(*                                                                         *)
(* A block is known by its number; it says the block before it.  A chain   *)
(* is the sequence of its blocks after the genesis block.                  *)
(***************************************************************************)
EXTENDS Naturals, Sequences, FiniteSets, SequencesExt

CONSTANTS
  Node,
  Peers,          \* the peers that each node is started with, in order
  MaxBlocks       \* bound

NoMiner == "nobody"

ASSUME CoinAssumption == Peers \in [Node -> Seq(Node)] /\ NoMiner \notin Node

VARIABLES
  chain,       \* of each node
  made,        \* the blocks that were mined: the block before each, 0 for genesis
  dialed,      \* the peers a node has connected to: it broadcasts to these
  work,        \* the stack
  connected,   \* whether the timer of a node has fired
  miner        \* who mined last, and did all that follows from it

coinVars == <<chain, made, dialed, work, connected, miner>>

CoinInit ==
  /\ chain = [n \in Node |-> <<>>] /\ made = <<>>
  /\ dialed = [n \in Node |-> <<>>] /\ work = <<>>
  /\ connected = [n \in Node |-> FALSE] /\ miner = NoMiner

\* The block before the next of a chain.
Tip(ch) == IF ch = <<>> THEN 0 ELSE Last(ch)

Block(from, to, b) == [type |-> "block", from |-> from, to |-> to, block |-> b]
Request(from, to) == [type |-> "request_chain", from |-> from, to |-> to]
Answer(from, to, ch) == [type |-> "chain", from |-> from, to |-> to, chain |-> ch]

\* broadcast: to the connections that the node itself has made.
Broadcast(n, b) == [i \in DOMAIN dialed[n] |-> Block(n, dialed[n][i], b)]

\* connectPeers, one peer after the other.
ConnectPeers(n) ==
  /\ work = <<>> /\ ~connected[n]
  /\ connected' = [connected EXCEPT ![n] = TRUE]
  /\ work' = [i \in DOMAIN Peers[n] |-> [type |-> "dial", from |-> n, to |-> Peers[n][i]]]
  /\ miner' = NoMiner
  /\ UNCHANGED <<chain, made, dialed>>

Dial(m) ==
  /\ m.type = "dial"
  /\ dialed' = [dialed EXCEPT ![m.from] = Append(@, m.to)]
  /\ work' = <<Request(m.from, m.to)>> \o Tail(work)
  /\ UNCHANGED <<chain, made, connected, miner>>

Mine(n) ==
  /\ work = <<>> /\ Len(made) < MaxBlocks
  /\ made' = Append(made, Tip(chain[n]))
  /\ chain' = [chain EXCEPT ![n] = Append(@, Len(made) + 1)]
  /\ work' = Broadcast(n, Len(made) + 1)
  /\ miner' = n
  /\ UNCHANGED <<dialed, connected>>

\* (mutation) a block that does not fit is dropped.
Refused_Silently(m) == <<>>
Refused(m) == <<Request(m.to, m.from)>>

\* A block that continues the chain is added and sent on; any other makes the
\* node ask the sender for its chain.
TakeBlock(m) ==
  /\ m.type = "block"
  /\ IF made[m.block] = Tip(chain[m.to])
       THEN /\ chain' = [chain EXCEPT ![m.to] = Append(@, m.block)]
            /\ work' = Broadcast(m.to, m.block) \o Tail(work)
       ELSE /\ work' = Refused(m) \o Tail(work)
            /\ UNCHANGED chain
  /\ UNCHANGED <<made, dialed, connected, miner>>

TakeRequest(m) ==
  /\ m.type = "request_chain"
  /\ work' = <<Answer(m.to, m.from, chain[m.to])>> \o Tail(work)
  /\ UNCHANGED <<chain, made, dialed, connected, miner>>

Longer(ch, old) == Len(ch) > Len(old)

\* verifyChain: every block says the one before it.
Verified(ch) == \A i \in DOMAIN ch : made[ch[i]] = (IF i = 1 THEN 0 ELSE ch[i - 1])

\* (mutation) a chain that is not taken is answered by the node's own.
Declined_Answered(m) == <<Answer(m.to, m.from, chain[m.to])>>
Declined(m) == <<>>

TakeChain(m) ==
  /\ m.type = "chain"
  /\ IF Longer(m.chain, chain[m.to]) /\ Verified(m.chain)
       THEN chain' = [chain EXCEPT ![m.to] = m.chain] /\ work' = Tail(work)
       ELSE work' = Declined(m) \o Tail(work) /\ UNCHANGED chain
  /\ UNCHANGED <<made, dialed, connected, miner>>

Handle ==
  /\ work # <<>>
  /\ LET m == Head(work) IN Dial(m) \/ TakeBlock(m) \/ TakeRequest(m) \/ TakeChain(m)

CoinNext == Handle \/ \E n \in Node : ConnectPeers(n) \/ Mine(n)

\* The code runs to the end of what was called.
CoinFairness == WF_coinVars(Handle)

CoinSpec == CoinInit /\ [][CoinNext]_coinVars /\ CoinFairness

-----------------------------------------------------------------------------
(* Properties *)

\* When all is done that mining a block causes, every peer that the miner has
\* dialed has a chain that is as long, whatever forks there were before the
\* nodes were connected; and all chains are verified.
PeersCatchUp ==
  /\ \A n \in Node : Verified(chain[n])
  /\ work = <<>> /\ miner # NoMiner =>
       \A p \in Range(dialed[miner]) : Len(chain[p]) >= Len(chain[miner])

\* The calls that one block causes come to an end, also around a circle of
\* peers.
WorkEnds == work # <<>> ~> work = <<>>
=============================================================================
