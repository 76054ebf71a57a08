--------------------------------- MODULE Dns ---------------------------------
(***************************************************************************)
(* The name server named (core/services/dns.ts).  A query for a name that  *)
(* is neither in the zone nor in the cache is sent upstream, and answered  *)
(* when the upstream server answers or 50 ms are over.  An answer that     *)
(* comes later goes to the cache all the same.  The sockets lose nothing,  *)
(* but the upstream server may be silent; what it answers is well formed   *)
(* (a name without an end keeps readName in its loop).  Packets are known  *)
(* by what they ask and answer; queries of other types, which are dropped, *)
(* are left out.                                                           *)
(***************************************************************************)
EXTENDS Naturals, FiniteSets

CONSTANTS
  Name, Zone,            \* names; those of the zone file, some of them
  Query,                 \* queries of clients
  Ttl,                   \* how long an answer is good, at least 1
  MaxTime                \* bound

VARIABLES
  upstream,   \* whether the server was started with an upstream server
  state,      \* of each query: new, waiting, answered
  about,      \* its name
  asked,      \* the questions to the upstream server that it has not answered
  expires,    \* when the entry of a name expires, 0 without one
  replies,    \* the replies to each query
  now

dnsVars == <<upstream, state, about, asked, expires, replies, now>>

DnsInit ==
  /\ upstream \in BOOLEAN
  /\ state = [q \in Query |-> "new"] /\ about \in [Query -> Name]
  /\ asked = {} /\ expires = [n \in Name |-> 0]
  /\ replies = [q \in Query |-> {}] /\ now = 1

\* A reply is known by where it comes from and by whether it is the first.
Reply(q, from) ==
  /\ state' = [state EXCEPT ![q] = "answered"]
  /\ replies' = [replies EXCEPT ![q] = @ \cup {<<from, Cardinality(@)>>}]

\* A query arrives: the zone, the cache, no upstream server, or upstream.
Arrive(q) ==
  LET n == about[q]
      cached == expires[n] > now
  IN /\ state[q] = "new"
     /\ \/ n \in Zone /\ Reply(q, "zone") /\ UNCHANGED asked
        \/ n \notin Zone /\ cached /\ Reply(q, "cache") /\ UNCHANGED asked
        \/ n \notin Zone /\ ~cached /\ ~upstream /\ Reply(q, "nowhere") /\ UNCHANGED asked
        \/ /\ n \notin Zone /\ ~cached /\ upstream
           /\ state' = [state EXCEPT ![q] = "waiting"]
           /\ asked' = asked \cup {q}
           /\ UNCHANGED replies
     /\ UNCHANGED <<upstream, about, expires, now>>

\* (mutation) a late answer is sent to the client too.
Late_Never(q) == FALSE
Late(q) == state[q] = "answered"

\* The upstream server answers, with an address or without.  An address
\* enters the cache also when it is late; the promise resolves once.
UpstreamAnswers(q, address) ==
  /\ q \in asked
  /\ asked' = asked \ {q}
  /\ expires' = IF address THEN [expires EXCEPT ![about[q]] = now + Ttl] ELSE expires
  /\ IF Late(q) THEN UNCHANGED <<state, replies>>
     ELSE Reply(q, IF address THEN "upstream" ELSE "nowhere")
  /\ UNCHANGED <<upstream, about, now>>

\* (mutation) no timer is set.
Timed_Never(q) == FALSE
Timed(q) == state[q] = "waiting"

TimeOut(q) ==
  /\ Timed(q)
  /\ Reply(q, "nowhere")
  /\ UNCHANGED <<upstream, about, asked, expires, now>>

Tick ==
  /\ now < MaxTime
  /\ now' = now + 1
  /\ UNCHANGED <<upstream, state, about, asked, expires, replies>>

DnsNext ==
  \/ \E q \in Query : Arrive(q) \/ TimeOut(q) \/ \E address \in BOOLEAN : UpstreamAnswers(q, address)
  \/ Tick

\* Timers fire; the upstream server owes nothing.
DnsFairness == \A q \in Query : WF_dnsVars(TimeOut(q))

DnsSpec == DnsInit /\ [][DnsNext]_dnsVars /\ DnsFairness

-----------------------------------------------------------------------------
(* Properties *)

\* No query is answered twice, by the timer and by the upstream server.
AnsweredOnce == \A q \in Query : Cardinality(replies[q]) <= 1

\* Every query that arrives is answered, also when the upstream server is
\* silent.
EveryQueryAnswered == \A q \in Query : state[q] = "waiting" ~> state[q] = "answered"
=============================================================================
