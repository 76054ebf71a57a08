----------------------------- MODULE MCExchanges ------------------------------
(***************************************************************************)
(* The parts with liveness properties that share no state, for TLC: the    *)
(* name server, the coin nodes and the pseudo-terminals.  A behaviour      *)
(* picks one of them and the others do nothing.  The properties are those  *)
(* of the modules.                                                         *)
(***************************************************************************)
EXTENDS Dns, Coin, Pty, TLC

CONSTANTS
  z,                     \* Dns
  alice, bob, carol      \* Coin

VARIABLE working         \* the part that works

MCPeers == alice :> <<bob, carol>> @@ bob :> <<alice, carol>> @@ carol :> <<alice>>

allVars == <<working, dnsVars, coinVars, vars>>

AllInit ==
  /\ working \in {"dns", "coin", "tty"}
  /\ DnsInit
  /\ CoinInit
  /\ Init
  \* what a query asks for matters to named only
  /\ working # "dns" => ~upstream /\ \A q \in Query : about[q] = z

\* One part works, the others do nothing.
Only(part) ==
  /\ UNCHANGED working
  /\ IF part = "dns" THEN TRUE ELSE UNCHANGED dnsVars
  /\ IF part = "coin" THEN TRUE ELSE UNCHANGED coinVars
  /\ IF part = "tty" THEN TRUE ELSE UNCHANGED vars

AllNext ==
  \/ working = "dns" /\ DnsNext /\ Only("dns")
  \/ working = "coin" /\ CoinNext /\ Only("coin")
  \/ working = "tty" /\ Next /\ Only("tty")

\* The fairness of the parts (see there).
AllFairness ==
  /\ \A q \in Query : WF_allVars(working = "dns" /\ TimeOut(q) /\ Only("dns"))
  /\ WF_allVars(working = "coin" /\ Handle /\ Only("coin"))
  /\ \A w \in User :
       /\ WF_allVars(working = "tty" /\ Wait(w) /\ Only("tty"))
       /\ WF_allVars(working = "tty" /\ at[w] = "woken" /\ ReadBytes(w) /\ Only("tty"))

AllSpec == AllInit /\ [][AllNext]_allVars /\ AllFairness
=============================================================================
