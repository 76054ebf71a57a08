---------------------------- MODULE ServiceProofs ----------------------------
(***************************************************************************)
(* Proofs about services and devices whose handlers await something in the *)
(* middle of their work, for every number of clients, users, files,        *)
(* queries, characters, blocks and windows.                                *)
(*                                                                         *)
(* named answers a query once although its timer and the upstream server   *)
(* race (AnsweredOnce), sshd judges a patient client by what it typed      *)
(* since the prompt (LoginIsOwn), ftpd sends the data of a patient client  *)
(* where it asked and keeps no more than the limit (DataGoesWhereAsked),   *)
(* httpd loses a line of its log only to a handler that was at the log at  *)
(* the same time (OnlyRacersLoseLines), smtpd stores the mails of clients  *)
(* that wait for its answers as they were sent (MailsIntact), and when the *)
(* blocks of coind are all delivered every peer that the miner has dialed  *)
(* has a chain as long as its own (PeersCatchUp).                          *)
(*                                                                         *)
(* Pseudo-terminals implement streams of bytes (ImplementsStreams): what   *)
(* readers took from a buffer and what is still there is what was written  *)
(* into it, in this order; a reader that was woken and finds nothing lost  *)
(* the bytes to another reader (EmptyReadsHaveRivals).  On the desktop an  *)
(* application is shown as crashed only when its process is gone           *)
(* (CrashedIsDead), and a window stays on its monitor until that is        *)
(* removed (SurvivorsStay).                                                *)
(***************************************************************************)
EXTENDS Dns, Ssh, Ftp, Httpd, Mail, Coin, Pty, Desktop, ListLemmas, FiniteSetTheorems,
        SequenceTheorems, TLAPS

-----------------------------------------------------------------------------
(* named *)

\* A query has its reply when it is answered and not before, and only one
\* that has arrived is with the upstream server.
QueriesOK ==
  /\ state \in [Query -> {"new", "waiting", "answered"}]
  /\ replies = [q \in Query |-> replies[q]]
  /\ \A q \in Query :
       IF state[q] = "answered" THEN \E r : replies[q] = {r} ELSE replies[q] = {}
  /\ \A q \in asked : q \in Query /\ state[q] # "new"

LEMMA OneReply ==
  ASSUME QueriesOK, NEW q \in Query, state[q] # "answered", NEW from, Reply(q, from)
  PROVE  /\ state' \in [Query -> {"new", "waiting", "answered"}]
         /\ replies' = [p \in Query |-> replies'[p]]
         /\ \A p \in Query :
              IF state'[p] = "answered" THEN \E r : replies'[p] = {r} ELSE replies'[p] = {}
         /\ \A p \in Query : state[p] # "new" => state'[p] # "new"
         /\ state'[q] = "answered"
<1> DEFINE r0 == <<from, Cardinality(replies[q])>>
<1> HIDE DEF r0
<1>1. replies' = [replies EXCEPT ![q] = {r0}]
  BY DEF Reply, QueriesOK, r0
<1>2. state' = [state EXCEPT ![q] = "answered"]
  BY DEF Reply
<1>3. \A p \in Query : state'[p] = IF p = q THEN "answered" ELSE state[p]
  BY <1>2 DEF QueriesOK
<1>4. \A p \in Query : replies'[p] = IF p = q THEN {r0} ELSE replies[p]
  BY <1>1 DEF QueriesOK
<1> QED  BY <1>1, <1>2, <1>3, <1>4 DEF QueriesOK

LEMMA QueriesStep == QueriesOK /\ [DnsNext]_dnsVars => QueriesOK'
<1> SUFFICES ASSUME QueriesOK, [DnsNext]_dnsVars PROVE QueriesOK'  OBVIOUS
<1>1. ASSUME NEW q \in Query, Arrive(q) PROVE QueriesOK'
  <2>1. state[q] # "answered"  BY <1>1 DEF Arrive
  <2>2. ASSUME NEW from, Reply(q, from), UNCHANGED asked PROVE QueriesOK'
    BY <2>1, <2>2, OneReply DEF QueriesOK
  <2>3. CASE state' = [state EXCEPT ![q] = "waiting"] /\ asked' = asked \cup {q} /\ UNCHANGED replies
    BY <1>1, <2>1, <2>3 DEF QueriesOK, Arrive
  <2> QED  BY <1>1, <2>2, <2>3 DEF Arrive
<1>2. ASSUME NEW q \in Query, TimeOut(q) PROVE QueriesOK'
  <2>1. state[q] # "answered" /\ Reply(q, "nowhere") /\ UNCHANGED asked
    BY <1>2 DEF TimeOut, Timed
  <2> QED  BY <2>1, OneReply DEF QueriesOK
<1>3. ASSUME NEW q \in Query, NEW address \in BOOLEAN, UpstreamAnswers(q, address)
      PROVE QueriesOK'
  <2>1. CASE Late(q)
    BY <1>3, <2>1 DEF UpstreamAnswers, QueriesOK
  <2>2. CASE ~Late(q)
    <3> DEFINE from == IF address THEN "upstream" ELSE "nowhere"
    <3> HIDE DEF from
    <3>1. state[q] # "answered" /\ Reply(q, from) /\ asked' = asked \ {q}
      BY <1>3, <2>2 DEF UpstreamAnswers, Late, from
    <3> QED  BY <3>1, OneReply DEF QueriesOK
  <2> QED  BY <2>1, <2>2
<1>4. CASE Tick \/ UNCHANGED dnsVars
  BY <1>4 DEF Tick, dnsVars, QueriesOK
<1> QED  BY <1>1, <1>2, <1>3, <1>4 DEF DnsNext

\* No query is answered twice: a reply that comes when the timer has already
\* answered, or a timer that fires after the reply, tells the client nothing.
THEOREM QueriesAnsweredOnce == DnsSpec => []AnsweredOnce
<1>1. DnsInit => QueriesOK
  BY DEF DnsInit, QueriesOK
<1>2. QueriesOK => AnsweredOnce
  <2> SUFFICES ASSUME QueriesOK, NEW q \in Query PROVE Cardinality(replies[q]) <= 1
    BY DEF AnsweredOnce
  <2>1. replies[q] = {} \/ \E r : replies[q] = {r}  BY DEF QueriesOK
  <2>2. Cardinality({}) = 0  BY FS_EmptySet
  <2>3. \A r : Cardinality({r}) = 1  BY FS_Singleton
  <2>4. ASSUME NEW r, replies[q] = {r} PROVE Cardinality(replies[q]) = 1
    BY <2>3, <2>4
  <2> QED  BY <2>1, <2>2, <2>4
<1> QED  BY <1>1, <1>2, QueriesStep, PTL DEF DnsSpec

-----------------------------------------------------------------------------
(* sshd *)

\* What a patient client has typed since the prompt is what the connection
\* has stored, in each stage; a check under way is the only one and nothing
\* comes while it runs.
ConnectionOK ==
  /\ \/ arriving = <<>>
     \/ \E a \in Letter \cup {LineEnd} : arriving = <<a>>
     \/ \E a, b \in Letter \cup {LineEnd} : a # LineEnd /\ arriving = <<a, b>>
  /\ \/ stage = "user" /\ since = <<user>> /\ pass = <<>> /\ checks = <<>>
     \/ stage = "pass" /\ since = <<user, pass>> /\ checks = <<>>
     \/ /\ stage = "pass" /\ since = <<user, pass, <<>>>> /\ arriving = <<>>
        /\ checks = <<[user |-> user, pass |-> pass]>>
     \/ stage = "shell" /\ checks = <<>> /\ arriving = <<>>
  /\ terminals = (IF stage = "shell" THEN 1 ELSE 0) /\ pty = terminals

LEMMA RemoveOnly ==
  ASSUME NEW c, NEW i \in DOMAIN <<c>> PROVE i = 1 /\ RemoveAt(<<c>>, i) = <<>>
<1>1. i = 1  OBVIOUS
<1>2. RemoveAt(<<c>>, 1) = SubSeq(<<c>>, 1, 0) \o SubSeq(<<c>>, 2, 1)
  BY DEF RemoveAt
<1>3. SubSeq(<<c>>, 1, 0) = <<>> /\ SubSeq(<<c>>, 2, 1) = <<>>
  BY SubSeqEmpty
<1> QED  BY <1>1, <1>2, <1>3

LEMMA ConnectionType ==
  ASSUME ~Impatient, ConnectionOK, NEW piece, Type(piece),
         \/ \E a \in Letter \cup {LineEnd} : piece = <<a>>
         \/ \E a, b \in Letter \cup {LineEnd} : piece = <<a, b>>
  PROVE  ConnectionOK'
<1>1. ASSUME NEW a, NEW b, piece = <<a, b>> PROVE a # LineEnd
  <2>1. Front(piece) = SubSeq(<<a, b>>, 1, 1)  BY <1>1 DEF Front
  <2>2. \A i \in 1 .. 1 : <<a, b>>[i] \in {a}  OBVIOUS
  <2>3. /\ SubSeq(<<a, b>>, 1, 1) \in Seq({a}) /\ Len(SubSeq(<<a, b>>, 1, 1)) = 1
        /\ SubSeq(<<a, b>>, 1, 1)[1] = a
    BY <2>2, SubSeqProperties, SMT
  <2>4. a \in Range(Front(piece))
    <3>1. 1 \in DOMAIN SubSeq(<<a, b>>, 1, 1)  BY <2>3, LenProperties
    <3> QED  BY <2>1, <2>3, <3>1 DEF Range
  <2> QED  BY <2>4 DEF Type
<1>2. checks = <<>>  BY DEF Type
<1> QED  BY <1>1, <1>2 DEF Type, ConnectionOK

LEMMA AppendShort ==
  ASSUME NEW a, NEW b, NEW c
  PROVE  Append(<<a>>, b) = <<a, b>> /\ Append(<<a, b>>, c) = <<a, b, c>>
<1> DEFINE S == {a, b, c}
<1>1. <<a>> \in Seq(S) /\ <<a, b>> \in Seq(S) /\ <<a, b, c>> \in Seq(S)
  OBVIOUS
<1>2. /\ Append(<<a>>, b) \in Seq(S) /\ Len(Append(<<a>>, b)) = 2
      /\ Append(<<a>>, b)[1] = a /\ Append(<<a>>, b)[2] = b
  BY <1>1
<1>3. /\ Append(<<a, b>>, c) \in Seq(S) /\ Len(Append(<<a, b>>, c)) = 3
      /\ Append(<<a, b>>, c)[1] = a /\ Append(<<a, b>>, c)[2] = b
      /\ Append(<<a, b>>, c)[3] = c
  BY <1>1
<1>4. \A s, t \in Seq(S) : Len(s) = Len(t) /\ (\A i \in 1 .. Len(s) : s[i] = t[i]) => s = t
  BY SeqEqual
<1>5. /\ Len(<<a, b>>) = 2 /\ <<a, b>>[1] = a /\ <<a, b>>[2] = b
      /\ Len(<<a, b, c>>) = 3 /\ <<a, b, c>>[1] = a /\ <<a, b, c>>[2] = b /\ <<a, b, c>>[3] = c
  OBVIOUS
<1> HIDE DEF S
<1>6. Append(<<a>>, b) = <<a, b>>
  <2>1. \A i \in 1 .. 2 : Append(<<a>>, b)[i] = <<a, b>>[i]  BY <1>2, <1>5
  <2> QED  BY <1>1, <1>2, <1>4, <1>5, <2>1
<1>7. Append(<<a, b>>, c) = <<a, b, c>>
  <2>1. \A i \in 1 .. 3 : Append(<<a, b>>, c)[i] = <<a, b, c>>[i]  BY <1>3, <1>5
  <2> QED  BY <1>1, <1>3, <1>4, <1>5, <2>1
<1> QED  BY <1>6, <1>7

LEMMA ConnectionTake == ASSUME ~Impatient, ConnectionOK, TakeCharacter PROVE ConnectionOK'
<1> DEFINE ch == Head(arriving)
<1>1. stage # "shell" /\ checks = <<>>
  BY DEF TakeCharacter, ConnectionOK
<1>2. arriving' = <<>> \/ (ch # LineEnd /\ \E b \in Letter \cup {LineEnd} : arriving' = <<b>>)
  <2>1. ASSUME NEW a, arriving = <<a>> PROVE arriving' = <<>>
    BY <2>1 DEF TakeCharacter
  <2>2. ASSUME NEW a, NEW b, arriving = <<a, b>> PROVE arriving' = <<b>> /\ ch = a
    BY <2>2 DEF TakeCharacter
  <2> QED  BY <2>1, <2>2 DEF TakeCharacter, ConnectionOK
<1>3. since' = Typed(ch)  BY DEF TakeCharacter
<1> HIDE DEF ch
<1>4. CASE stage = "user" /\ ch = LineEnd
  <2>1. since' = <<user, <<>>>>
    <3>1. since = <<user>>  BY <1>1, <1>4 DEF ConnectionOK
    <3>2. since' = Append(since, <<>>)  BY <1>3, <1>4 DEF Typed
    <3> QED  BY <3>1, <3>2, AppendShort, Zenon
  <2> QED  BY <1>1, <1>2, <1>4, <2>1 DEF TakeCharacter, ch, ConnectionOK
<1>5. CASE stage = "user" /\ ch # LineEnd
  <2>1. since' = <<Append(user, ch)>>
    <3>1. since = <<user>>  BY <1>1, <1>5 DEF ConnectionOK
    <3>2. since' = [since EXCEPT ![Len(since)] = Append(@, ch)]  BY <1>3, <1>5 DEF Typed
    <3> QED  BY <3>1, <3>2
  <2> QED  BY <1>1, <1>2, <1>5, <2>1 DEF TakeCharacter, ch, ConnectionOK
<1>6. CASE stage = "pass" /\ ch = LineEnd
  <2>1. since = <<user, pass>>  BY <1>1, <1>6 DEF ConnectionOK
  <2>2. since' = <<user, pass, <<>>>>
    <3>1. since' = Append(since, <<>>)  BY <1>3, <1>6 DEF Typed
    <3> QED  BY <2>1, <3>1, AppendShort, Zenon
  <2>3. checks' = <<[user |-> user, pass |-> pass]>>
    BY <1>1, <1>6 DEF TakeCharacter, ch
  <2>4. arriving' = <<>>  BY <1>2, <1>6
  <2> QED  BY <1>1, <1>6, <2>2, <2>3, <2>4 DEF TakeCharacter, ch, ConnectionOK
<1>7. CASE stage = "pass" /\ ch # LineEnd
  <2>1. since = <<user, pass>>  BY <1>1, <1>7 DEF ConnectionOK
  <2>2. since' = <<user, Append(pass, ch)>>
    <3>1. since' = [since EXCEPT ![Len(since)] = Append(@, ch)]  BY <1>3, <1>7 DEF Typed
    <3> QED  BY <2>1, <3>1
  <2> QED  BY <1>1, <1>2, <1>7, <2>2 DEF TakeCharacter, ch, ConnectionOK
<1> QED  BY <1>1, <1>4, <1>5, <1>6, <1>7 DEF ConnectionOK

LEMMA ConnectionNext ==
  ASSUME ~Impatient PROVE ConnectionOK /\ [SshNext]_sshVars => ConnectionOK'
<1> SUFFICES ASSUME ConnectionOK, [SshNext]_sshVars PROVE ConnectionOK'  OBVIOUS
<1>1. ASSUME NEW i \in DOMAIN checks PROVE
        /\ i = 1 /\ RemoveAt(checks, i) = <<>> /\ arriving = <<>>
        /\ stage = "pass" /\ terminals = 0
  BY RemoveOnly DEF ConnectionOK
<1>2. ASSUME NEW i \in DOMAIN checks, LetIn(i) PROVE ConnectionOK'
  BY <1>1, <1>2 DEF LetIn, ConnectionOK
<1>3. ASSUME NEW i \in DOMAIN checks, Refuse(i) PROVE ConnectionOK'
  BY <1>1, <1>3 DEF Refuse, Forgotten, ConnectionOK
<1>4. CASE UNCHANGED sshVars
  BY <1>4 DEF sshVars, ConnectionOK
<1> QED  BY <1>2, <1>3, <1>4, ConnectionType, ConnectionTake DEF SshNext

\* A client that waits while its password is checked gets a shell for what it
\* typed since the prompt, and one shell.
THEOREM LoginsAreOwn == SshSpec => []LoginIsOwn
<1>1. SshInit => ConnectionOK
  BY DEF SshInit, ConnectionOK
<1>2. ConnectionOK => LoginIsOwn
  BY DEF ConnectionOK, LoginIsOwn
<1>3. CASE Impatient
  <2>1. LoginIsOwn  BY <1>3 DEF LoginIsOwn
  <2> QED  BY <2>1, PTL
<1>4. CASE ~Impatient
  BY <1>1, <1>2, <1>4, ConnectionNext, PTL DEF SshSpec
<1> QED  BY <1>3, <1>4

-----------------------------------------------------------------------------
(* ftpd *)

\* A transfer of a client that waits is its only one and uses the port that
\* it announced last; what a transfer has kept is within the limit.
TransfersOK ==
  /\ announced = [c \in Client |-> announced[c]]
  /\ files \in [File -> Nat] /\ \A f \in File : files[f] <= MaxBytes
  /\ \A t \in transfers :
       /\ t = [f \in {"id", "client", "op", "file", "asked", "at", "to", "size", "arrived"} |-> t[f]]
       /\ t.client \in Client /\ t.file \in File
       /\ t.size \in Nat /\ t.size <= MaxBytes
  /\ Patient =>
       /\ \A d \in delivered : d.to = d.asked
       /\ \A t \in transfers :
            /\ t.asked = announced[t.client]
            /\ t.at \in {"receiving", "writing"} => t.to = t.asked
       /\ \A t, u \in transfers : t.client = u.client => t = u

\* A transfer goes on, with the same client and port.
LEMMA TransferStep ==
  ASSUME TransfersOK, NEW t \in transfers, NEW u, Step(t, u),
         UNCHANGED <<announced, files, delivered>>,
         u = [f \in {"id", "client", "op", "file", "asked", "at", "to", "size", "arrived"} |-> u[f]],
         u.client = t.client, u.asked = t.asked, u.file = t.file,
         u.size \in Nat, u.size <= MaxBytes,
         Patient /\ u.at \in {"receiving", "writing"} => u.to = u.asked
  PROVE  TransfersOK'
BY DEF TransfersOK, Step

\* A transfer ends, and what it reports went where it was asked to go.
LEMMA TransferDone ==
  ASSUME TransfersOK, NEW t \in transfers, Done(t), UNCHANGED announced,
         files' \in [File -> Nat], \A f \in File : files'[f] <= MaxBytes,
         \A d \in delivered' \ delivered : Patient => d.to = d.asked
  PROVE  TransfersOK'
BY DEF TransfersOK, Done

LEMMA TransfersNext ==
  ASSUME MaxBytes \in Nat PROVE TransfersOK /\ [FtpNext]_ftpVars => TransfersOK'
<1> SUFFICES ASSUME TransfersOK, [FtpNext]_ftpVars PROVE TransfersOK'  OBVIOUS
<1>1. ASSUME NEW c \in Client, NEW p \in DataPort, PortCommand(c, p) PROVE TransfersOK'
  <2>1. \A d \in Client : announced'[d] = IF d = c THEN p ELSE announced[d]
    BY <1>1 DEF PortCommand, Announced, TransfersOK
  <2>2. Patient => \A t \in transfers : t.client # c
    BY <1>1 DEF PortCommand, Free
  <2>3. announced' = [d \in Client |-> announced'[d]]
    BY <1>1 DEF PortCommand, Announced, TransfersOK
  <2> QED  BY <1>1, <2>1, <2>2, <2>3 DEF PortCommand, TransfersOK
<1>2. ASSUME NEW c \in Client, NEW op \in {"RETR", "STOR"}, NEW f \in File, StartTransfer(c, op, f)
      PROVE TransfersOK'
  <2> DEFINE n == [id |-> begun, client |-> c, op |-> op, file |-> f, asked |-> announced[c],
                   at |-> "file", to |-> NoPort, size |-> 0, arrived |-> 0]
  <2>1. transfers' = transfers \cup {n} /\ UNCHANGED <<announced, files, delivered>>
    BY <1>2 DEF StartTransfer
  <2>2. Patient => \A t \in transfers : t.client # c
    BY <1>2 DEF StartTransfer, Free
  <2>3. /\ n = [g \in {"id", "client", "op", "file", "asked", "at", "to", "size", "arrived"} |-> n[g]]
        /\ n.client = c /\ n.file = f /\ n.size = 0 /\ n.asked = announced[c] /\ n.at = "file"
    OBVIOUS
  <2> HIDE DEF n
  <2> QED  BY <2>1, <2>2, <2>3 DEF TransfersOK
<1>3. ASSUME NEW t \in transfers, Retrieve(t) PROVE TransfersOK'
  <2>1. \A d \in delivered' \ delivered : Patient => d.to = d.asked
    BY <1>3 DEF Retrieve, TransfersOK
  <2> QED  BY <1>3, <2>1, TransferDone DEF Retrieve, TransfersOK
<1>4. ASSUME NEW t \in transfers, Fail(t) PROVE TransfersOK'
  <2>1. CASE t.op = "RETR"
    BY <1>4, <2>1, TransferDone DEF Fail, TransfersOK
  <2>2. CASE t.op # "RETR"
    BY <1>4, <2>2, TransferStep DEF Fail, TransfersOK
  <2> QED  BY <2>1, <2>2
<1>5. ASSUME NEW t \in transfers, Accept(t) PROVE TransfersOK'
  BY <1>5, TransferStep DEF Accept, TransfersOK
<1>6. ASSUME NEW t \in transfers, Timer(t) PROVE TransfersOK'
  BY <1>6, TransferStep DEF Timer, TransfersOK
<1>7. ASSUME NEW t \in transfers, Written(t) PROVE TransfersOK'
  <2>1. files' \in [File -> Nat] /\ \A f \in File : files'[f] <= MaxBytes
    BY <1>7 DEF Written, TransfersOK
  <2>2. \A d \in delivered' \ delivered : Patient => d.to = d.asked
    BY <1>7 DEF Written, TransfersOK
  <2> QED  BY <1>7, <2>1, <2>2, TransferDone DEF Written
<1>8. ASSUME NEW t \in transfers, NEW n \in 1..2, DataArrives(t, n) PROVE TransfersOK'
  <2>1. Kept(t.size, n) \in Nat /\ Kept(t.size, n) <= MaxBytes
    BY DEF Kept, TransfersOK
  <2> QED  BY <1>8, <2>1, TransferStep DEF DataArrives, TransfersOK
<1>9. CASE UNCHANGED ftpVars
  BY <1>9 DEF ftpVars, TransfersOK
<1> QED  BY <1>1, <1>2, <1>3, <1>4, <1>5, <1>6, <1>7, <1>8, <1>9 DEF FtpNext

\* The data of a client that waits for its transfers goes over the port that
\* it announced, and no file that a client stores exceeds the limit.
THEOREM TransfersGoWhereAsked ==
  ASSUME MaxBytes \in Nat PROVE FtpSpec => []DataGoesWhereAsked
<1>1. FtpInit => TransfersOK
  BY DEF FtpInit, TransfersOK
<1>2. TransfersOK => DataGoesWhereAsked
  BY DEF TransfersOK, DataGoesWhereAsked
<1> QED  BY <1>1, <1>2, TransfersNext, PTL DEF FtpSpec

-----------------------------------------------------------------------------
(* httpd *)

LogLine == Connection \X Nat
Handler == [conn : Connection, number : Nat, at : {"file", "open", "read", "write"}, prev : Seq(LogLine)]

\* A line belongs to a request that came and that no handler works for.
Settled(line) ==
  /\ line \in {<<c, k>> : c \in Connection, k \in Nat} /\ line[2] <= requests[line[1]]
  /\ \A h \in handlers : RequestOf(h) # line

LinesSettled(read) == read \in Seq(LogLine) /\ \A i \in 1..Len(read) : Settled(read[i])

HandlersOK ==
  /\ requests \in [Connection -> Nat] /\ handlers \subseteq Handler
  /\ \A h \in handlers : h.number <= requests[h.conn]
  /\ \A g, h \in handlers : RequestOf(g) = RequestOf(h) => g = h

\* Who is alone at the log is there with no other and has read what is there.
AloneOK ==
  /\ \A r \in alone : \E c \in Connection, k \in Nat : r = <<c, k>> /\ k <= requests[c]
  /\ \A h \in handlers : RequestOf(h) \in alone =>
       /\ AtLog = {h}
       /\ h.at = "write" => h.prev = log

LogOK == LinesSettled(log) /\ \A h \in handlers : LinesSettled(h.prev)

HttpdOK == HandlersOK /\ AloneOK /\ LogOK

\* The conclusion of OnlyRacersLoseLines.
AloneKeepLines ==
  \A h \in handlers :
    h.at = "write" /\ h \notin handlers' /\ RequestOf(h) \in alone =>
      log' = Append(log, RequestOf(h)) /\ ~Contains(log, RequestOf(h))

-----------------------------------------------------------------------------
\* A handler goes on with the same request.
LEMMA HandlerGoesOn ==
  ASSUME HandlersOK, NEW h \in handlers, NEW g \in Handler, RequestOf(g) = RequestOf(h),
         UNCHANGED requests, handlers' = (handlers \ {h}) \cup {g}
  PROVE  /\ HandlersOK'
         /\ \A read : LinesSettled(read) => LinesSettled(read)'
         /\ h.at # "write" => AloneKeepLines
<1>1. g.conn = h.conn /\ g.number = h.number
  BY DEF RequestOf
<1>2. HandlersOK'
  <2>1. handlers' \subseteq Handler /\ \A f \in handlers' : f.number <= requests[f.conn]
    BY <1>1 DEF HandlersOK
  <2>2. \A f \in handlers' : \E e \in handlers : RequestOf(e) = RequestOf(f) /\ (e = h => f = g) /\ (e # h => f = e)
    BY DEF HandlersOK
  <2> QED  BY <2>1, <2>2 DEF HandlersOK
<1>3. ASSUME NEW read, LinesSettled(read) PROVE LinesSettled(read)'
  BY <1>3 DEF LinesSettled, Settled
<1>4. h.at # "write" => AloneKeepLines
  BY DEF AloneKeepLines
<1> QED  BY <1>2, <1>3, <1>4

LEMMA RequestArrivesStep ==
  ASSUME HttpdOK, NEW c \in Connection, NEW o, RequestArrives(c, o)
  PROVE  HttpdOK' /\ AloneKeepLines
<1> DEFINE n == [conn |-> c, number |-> requests[c] + 1,
                 at |-> IF o \in Immediate THEN "open" ELSE "file", prev |-> <<>>]
<1>1. /\ requests' = [requests EXCEPT ![c] = @ + 1] /\ handlers' = handlers \cup {n} /\ UNCHANGED <<log, alone>>
  BY DEF RequestArrives
<1>2. /\ n \in Handler /\ n.conn = c /\ n.number = requests[c] + 1 /\ n.at \notin {"read", "write"}
      /\ n.prev = <<>>
  BY EmptySeq DEF Handler, HttpdOK, HandlersOK
<1> HIDE DEF n
<1>3. requests \in [Connection -> Nat]
  BY DEF HttpdOK, HandlersOK
<1>4. /\ requests' \in [Connection -> Nat] /\ requests'[c] = requests[c] + 1
      /\ \A d \in Connection : requests[d] <= requests'[d]
  BY <1>1, <1>3
<1>5. \A h \in handlers : h \in Handler /\ h.number <= requests[h.conn]
  BY DEF HttpdOK, HandlersOK
<1>6. \A h \in handlers : RequestOf(h) # RequestOf(n)
  BY <1>2, <1>3, <1>5 DEF RequestOf, Handler
<1>7. HandlersOK'
  <2>1. handlers' \subseteq Handler /\ \A h \in handlers' : h.number <= requests'[h.conn]
    BY <1>1, <1>2, <1>3, <1>4, <1>5 DEF Handler
  <2> QED  BY <1>1, <1>4, <1>6, <2>1 DEF HttpdOK, HandlersOK
<1>8. ASSUME NEW read, LinesSettled(read) PROVE LinesSettled(read)'
  <2> SUFFICES ASSUME NEW i \in 1..Len(read) PROVE Settled(read[i])'
    BY <1>8 DEF LinesSettled
  <2> PICK line : line = read[i]
    OBVIOUS
  <2>1. Settled(line)
    BY <1>8 DEF LinesSettled
  <2>2. PICK d \in Connection, k \in Nat : line = <<d, k>> /\ k <= requests[d]
    BY <2>1 DEF Settled
  <2>3. k <= requests'[d]
    BY <1>3, <1>4, <2>2
  <2>4. RequestOf(n) # line
    BY <1>2, <1>3, <2>2 DEF RequestOf
  <2>5. Settled(line)'
    BY <1>1, <2>1, <2>2, <2>3, <2>4 DEF Settled
  <2> QED  BY <2>5
<1>9. LogOK'
  <2>1. LinesSettled(log)'
    <3> PICK read : read = log
      OBVIOUS
    <3>1. LinesSettled(read)' /\ log' = read
      BY <1>1, <1>8 DEF HttpdOK, LogOK
    <3> QED  BY <3>1
  <2>2. ASSUME NEW h \in handlers' PROVE LinesSettled(h.prev)'
    <3>1. CASE h \in handlers
      BY <1>8, <3>1 DEF HttpdOK, LogOK
    <3>2. CASE h = n
      <4>1. LinesSettled(<<>>)'
        BY EmptySeq DEF LinesSettled
      <4> QED  BY <1>2, <3>2, <4>1
    <3> QED  BY <1>1, <3>1, <3>2
  <2> QED  BY <2>1, <2>2 DEF LogOK
<1>10. AloneOK'
  <2>1. AtLog' = AtLog
    BY <1>1, <1>2 DEF AtLog
  <2>2. RequestOf(n) \notin alone
    BY <1>2, <1>3 DEF HttpdOK, AloneOK, RequestOf
  <2>3. \A r \in alone' : \E d \in Connection, k \in Nat : r = <<d, k>> /\ k <= requests'[d]
    <3> SUFFICES ASSUME NEW r \in alone PROVE \E d \in Connection, k \in Nat : r = <<d, k>> /\ k <= requests'[d]
      BY <1>1
    <3>1. PICK d \in Connection, k \in Nat : r = <<d, k>> /\ k <= requests[d]
      BY DEF HttpdOK, AloneOK
    <3> QED  BY <1>3, <1>4, <3>1
  <2> QED  BY <1>1, <2>1, <2>2, <2>3 DEF HttpdOK, AloneOK
<1>11. AloneKeepLines
  BY <1>1 DEF AloneKeepLines
<1> QED  BY <1>7, <1>9, <1>10, <1>11 DEF HttpdOK

LEMMA RespondStep ==
  ASSUME HttpdOK, NEW h \in handlers, Respond(h)
  PROVE  HttpdOK' /\ AloneKeepLines
<1> PICK g : g = [h EXCEPT !.at = "open"]
  OBVIOUS
<1>1. g \in Handler /\ RequestOf(g) = RequestOf(h) /\ g.prev = h.prev /\ g.at = "open" /\ h.at = "file"
  BY DEF HttpdOK, HandlersOK, Handler, RequestOf, Respond
<1>2. handlers' = (handlers \ {h}) \cup {g} /\ UNCHANGED <<requests, log, alone>>
  BY DEF Respond
<1>3. HandlersOK' /\ AloneKeepLines /\ \A read : LinesSettled(read) => LinesSettled(read)'
  BY <1>1, <1>2, HandlerGoesOn DEF HttpdOK
<1>4. LogOK'
  <2> PICK read : read = log
    OBVIOUS
  <2>1. LinesSettled(read)' /\ log' = read
    BY <1>2, <1>3 DEF HttpdOK, LogOK
  <2>2. LinesSettled(g.prev)' /\ \A f \in handlers : LinesSettled(f.prev)'
    BY <1>1, <1>3 DEF HttpdOK, LogOK
  <2> QED  BY <1>2, <2>1, <2>2 DEF LogOK
<1>5. AloneOK'
  <2>1. AtLog' = AtLog /\ h \notin AtLog
    BY <1>1, <1>2 DEF AtLog
  <2>2. RequestOf(h) \notin alone
    BY <2>1 DEF HttpdOK, AloneOK
  <2> QED  BY <1>1, <1>2, <2>1, <2>2 DEF HttpdOK, AloneOK
<1> QED  BY <1>3, <1>4, <1>5 DEF HttpdOK

LEMMA OpenLogStep ==
  ASSUME HttpdOK, NEW h \in handlers, OpenLog(h)
  PROVE  HttpdOK' /\ AloneKeepLines
<1> PICK g : g = [h EXCEPT !.at = "read"]
  OBVIOUS
<1>1. g \in Handler /\ RequestOf(g) = RequestOf(h) /\ g.prev = h.prev /\ g.at = "read" /\ h.at = "open"
  BY DEF HttpdOK, HandlersOK, Handler, RequestOf, OpenLog
<1>2. /\ handlers' = (handlers \ {h}) \cup {g} /\ UNCHANGED <<requests, log>>
      /\ alone' = IF AtLog = {} THEN alone \cup {RequestOf(h)} ELSE alone \ {RequestOf(f) : f \in AtLog}
  BY DEF OpenLog
<1>3. HandlersOK' /\ AloneKeepLines /\ \A read : LinesSettled(read) => LinesSettled(read)'
  BY <1>1, <1>2, HandlerGoesOn DEF HttpdOK
<1>4. LogOK'
  <2> PICK read : read = log
    OBVIOUS
  <2>1. LinesSettled(read)' /\ log' = read
    BY <1>2, <1>3 DEF HttpdOK, LogOK
  <2>2. LinesSettled(g.prev)' /\ \A f \in handlers : LinesSettled(f.prev)'
    BY <1>1, <1>3 DEF HttpdOK, LogOK
  <2> QED  BY <1>2, <2>1, <2>2 DEF LogOK
<1>5. AloneOK'
  <2>1. AtLog' = AtLog \cup {g} /\ h \notin AtLog
    BY <1>1, <1>2 DEF AtLog
  <2>2. RequestOf(h) \notin alone
    BY <2>1 DEF HttpdOK, AloneOK
  <2>3. h.conn \in Connection /\ h.number \in Nat /\ h.number <= requests[h.conn]
    BY DEF HttpdOK, HandlersOK, Handler
  <2>4. \A r \in alone' : \E d \in Connection, k \in Nat : r = <<d, k>> /\ k <= requests'[d]
    BY <1>2, <2>3 DEF HttpdOK, AloneOK, RequestOf
  <2>5. CASE AtLog = {}
    <3>1. \A f \in handlers : RequestOf(f) \notin alone
      BY <2>5 DEF HttpdOK, AloneOK
    <3>2. \A f \in handlers' : RequestOf(f) \in alone' => f = g
      BY <1>1, <1>2, <2>5, <3>1 DEF HttpdOK, HandlersOK
    <3> QED  BY <1>1, <2>1, <2>4, <2>5, <3>2 DEF AloneOK
  <2>6. CASE AtLog # {}
    <3>1. \A f \in handlers' : RequestOf(f) \notin alone'
      BY <1>1, <1>2, <2>2, <2>6 DEF HttpdOK, AloneOK
    <3> QED  BY <2>4, <3>1 DEF AloneOK
  <2> QED  BY <2>5, <2>6
<1> QED  BY <1>3, <1>4, <1>5 DEF HttpdOK

LEMMA ReadLogStep ==
  ASSUME HttpdOK, NEW h \in handlers, ReadLog(h)
  PROVE  HttpdOK' /\ AloneKeepLines
<1> PICK g : g = [h EXCEPT !.at = "write", !.prev = log]
  OBVIOUS
<1>1. g \in Handler /\ RequestOf(g) = RequestOf(h) /\ g.prev = log /\ g.at = "write" /\ h.at = "read"
  BY DEF HttpdOK, HandlersOK, Handler, RequestOf, ReadLog, LogOK, LinesSettled
<1>2. handlers' = (handlers \ {h}) \cup {g} /\ UNCHANGED <<requests, log, alone>>
  BY DEF ReadLog, Read
<1>3. HandlersOK' /\ AloneKeepLines /\ \A read : LinesSettled(read) => LinesSettled(read)'
  BY <1>1, <1>2, HandlerGoesOn DEF HttpdOK
<1>4. LogOK'
  <2> PICK read : read = log
    OBVIOUS
  <2>1. LinesSettled(read)' /\ log' = read /\ g.prev = read
    BY <1>1, <1>2, <1>3 DEF HttpdOK, LogOK
  <2>2. LinesSettled(g.prev)' /\ \A f \in handlers : LinesSettled(f.prev)'
    BY <1>3, <2>1 DEF HttpdOK, LogOK
  <2> QED  BY <1>2, <2>1, <2>2 DEF LogOK
<1>5. AloneOK'
  <2>1. AtLog' = (AtLog \ {h}) \cup {g} /\ h \in AtLog
    BY <1>1, <1>2 DEF AtLog
  <2> QED  BY <1>1, <1>2, <2>1 DEF HttpdOK, AloneOK
<1> QED  BY <1>3, <1>4, <1>5 DEF HttpdOK

LEMMA WriteLogStep ==
  ASSUME HttpdOK, NEW h \in handlers, WriteLog(h)
  PROVE  HttpdOK' /\ AloneKeepLines
<1> PICK r : r = RequestOf(h)
  OBVIOUS
<1> PICK prev : prev = h.prev
  OBVIOUS
<1>1. h \in Handler /\ h.at = "write" /\ r \in LogLine /\ prev \in Seq(LogLine) /\ LinesSettled(prev)
      /\ h.number <= requests[h.conn] /\ r = <<h.conn, h.number>>
  BY DEF HttpdOK, HandlersOK, Handler, RequestOf, WriteLog, LogOK, LogLine
<1>2. log' = Append(prev, r) /\ handlers' = handlers \ {h} /\ UNCHANGED <<requests, alone>>
  BY DEF WriteLog
<1>3. HandlersOK'
  BY <1>2 DEF HttpdOK, HandlersOK
<1>4. \A read : LinesSettled(read) => LinesSettled(read)'
  BY <1>2 DEF LinesSettled, Settled
<1>5. Settled(r)'
  <2>1. r \in {<<c, k>> : c \in Connection, k \in Nat} /\ r[2] <= requests[r[1]]
    BY <1>1 DEF Handler
  <2> QED  BY <1>2, <2>1 DEF Settled, HttpdOK, HandlersOK
<1>6. LinesSettled(log)'
  <2>1. /\ log' \in Seq(LogLine) /\ Len(log') = Len(prev) + 1 /\ Len(prev) \in Nat
        /\ \A i \in 1..Len(prev) : log'[i] = prev[i]
        /\ log'[Len(prev) + 1] = r
    BY <1>1, <1>2, AppendProperties, LenProperties
  <2>2. ASSUME NEW i \in 1..Len(log') PROVE Settled(log[i])'
    <3> PICK line : line = log'[i]
      OBVIOUS
    <3>1. CASE i = Len(prev) + 1
      BY <1>5, <2>1, <3>1
    <3>2. CASE i \in 1..Len(prev)
      <4>1. line = prev[i]
        BY <2>1, <3>2
      <4>2. Settled(line)'
        BY <1>1, <1>4, <3>2, <4>1 DEF LinesSettled
      <4> QED  BY <4>2
    <3> QED  BY <2>1, <3>1, <3>2
  <2> QED  BY <2>1, <2>2 DEF LinesSettled
<1>7. LogOK'
  BY <1>2, <1>4, <1>6 DEF HttpdOK, LogOK
<1>8. AtLog' = AtLog \ {h} /\ h \in AtLog
  BY <1>1, <1>2 DEF AtLog
<1>9. AloneOK'
  BY <1>2, <1>8 DEF HttpdOK, AloneOK
<1>10. AloneKeepLines
  <2> SUFFICES ASSUME RequestOf(h) \in alone
               PROVE  log' = Append(log, RequestOf(h)) /\ ~Contains(log, RequestOf(h))
    BY <1>2 DEF AloneKeepLines
  <2>1. prev = log
    BY <1>1 DEF HttpdOK, AloneOK
  <2>2. ~Contains(log, RequestOf(h))
    <3>1. \A i \in 1..Len(prev) : prev[i] # r
      <4>1. \A line : Settled(line) => line # r
        BY DEF Settled
      <4> QED  BY <1>1, <4>1 DEF LinesSettled
    <3> QED  BY <2>1, <3>1 DEF Contains
  <2> QED  BY <1>2, <2>1, <2>2
<1> QED  BY <1>3, <1>7, <1>9, <1>10 DEF HttpdOK

LEMMA HttpdStep == HttpdOK /\ [HttpdNext]_httpVars => HttpdOK' /\ AloneKeepLines
<1> SUFFICES ASSUME HttpdOK, [HttpdNext]_httpVars PROVE HttpdOK' /\ AloneKeepLines
  OBVIOUS
<1>1. CASE UNCHANGED httpVars
  <2>1. HandlersOK' /\ AloneOK' /\ AloneKeepLines
    BY <1>1 DEF httpVars, HttpdOK, HandlersOK, AloneOK, AtLog, AloneKeepLines
  <2>2. LogOK'
    BY <1>1 DEF httpVars, HttpdOK, LogOK, LinesSettled, Settled
  <2> QED  BY <2>1, <2>2 DEF HttpdOK
<1> QED  BY <1>1, RequestArrivesStep, RespondStep, OpenLogStep, ReadLogStep, WriteLogStep DEF HttpdNext

\* A request that no other meets at the log keeps every line that is there and
\* adds its own, and no request is logged twice: lines are lost to overlapping
\* reads and writes of the log only.
THEOREM LinesAreLostToRacers == HttpdSpec => OnlyRacersLoseLines
<1>1. HttpdInit => HttpdOK
  BY EmptySeq DEF HttpdInit, HttpdOK, HandlersOK, AloneOK, LogOK, LinesSettled
<1> QED  BY <1>1, HttpdStep, PTL DEF HttpdSpec, OnlyRacersLoseLines, AloneKeepLines

-----------------------------------------------------------------------------
(* smtpd and imapd *)

\* What FlattenSeq makes of the first elements of a sequence of sequences.
LEMMA FlattenTable ==
  ASSUME NEW T, NEW s \in Seq(Seq(T))
  PROVE  \E g : /\ g[0] = <<>>
                /\ \A n \in 1..Len(s) : g[n] = g[n - 1] \o s[n]
                /\ \A n \in 0..Len(s) : g[n] \in Seq(T) /\ FlattenSeq(SubSeq(s, 1, n)) = g[n]
<1> DEFINE Is(g, n) == /\ g[0] = <<>>
                       /\ \A i \in 1..n : g[i] = g[i - 1] \o s[i]
                       /\ \A i \in 0..n : g[i] \in Seq(T)
<1> DEFINE Upto(n) == n <= Len(s) => \E g : Is(g, n)
           N == {n \in Nat : Upto(n)}
<1> HIDE DEF Is
<1>0. Len(s) \in Nat /\ \A i \in 1..Len(s) : s[i] \in Seq(T)
  OBVIOUS
<1>1. 0 \in N
  <2>1. Is([i \in 0..0 |-> <<>>], 0)
    BY EmptySeq DEF Is
  <2> QED BY <2>1
<1>2. ASSUME NEW n \in Nat, Upto(n) PROVE Upto(n + 1)
  <2> SUFFICES ASSUME n + 1 <= Len(s) PROVE \E g : Is(g, n + 1)
    OBVIOUS
  <2>0. n <= Len(s) /\ n + 1 \in 1..Len(s)
    BY <1>0
  <2>1. PICK g : Is(g, n)
    BY <1>2, <2>0
  <2>2. g[n] \in Seq(T) /\ s[n + 1] \in Seq(T)
    BY <2>1, <1>0, <2>0 DEF Is
  <2>3. g[n] \o s[n + 1] \in Seq(T)
    BY <2>2, ConcatProperties
  <2> DEFINE h == [i \in 0..(n + 1) |-> IF i = n + 1 THEN g[n] \o s[n + 1] ELSE g[i]]
  <2>4. \A i \in 0..n : h[i] = g[i]
    OBVIOUS
  <2>5. h[n + 1] = g[n] \o s[n + 1]
    <3>1. n + 1 \in 0..(n + 1)
      OBVIOUS
    <3> QED BY <3>1, Zenon
  <2> HIDE DEF h
  <2>6. h[0] = <<>>
    BY <2>1, <2>4 DEF Is
  <2>7. ASSUME NEW i \in 1..(n + 1) PROVE h[i] = h[i - 1] \o s[i]
    <3>1. CASE i = n + 1
      <4>1. i - 1 = n /\ n \in 0..n
        BY <3>1
      <4>2. h[i - 1] = g[n]
        BY <4>1, <2>4, Zenon
      <4> QED BY <3>1, <4>2, <2>5, Zenon
    <3>2. CASE i # n + 1
      <4>1. i \in 1..n /\ i - 1 \in 0..n /\ i \in 0..n
        BY <3>2
      <4>2. g[i] = g[i - 1] \o s[i]
        BY <4>1, <2>1 DEF Is
      <4> QED BY <4>1, <4>2, <2>4
    <3> QED BY <3>1, <3>2
  <2>8. ASSUME NEW i \in 0..(n + 1) PROVE h[i] \in Seq(T)
    <3>1. CASE i = n + 1
      BY <3>1, <2>3, <2>5
    <3>2. CASE i # n + 1
      BY <3>2, <2>4, <2>1 DEF Is
    <3> QED BY <3>1, <3>2
  <2>9. Is(h, n + 1)
    BY <2>6, <2>7, <2>8 DEF Is
  <2> QED BY <2>9
<1>3. PICK g : Is(g, Len(s))
  <2> HIDE DEF Upto
  <2>1. \A n \in Nat : n \in N => n + 1 \in N
    BY <1>2
  <2> HIDE DEF N
  <2>2. Len(s) \in N
    BY <1>0, <1>1, <2>1, Induction
  <2> QED BY <2>2 DEF N, Upto
<1>4. ASSUME NEW n \in 0..Len(s) PROVE FlattenSeq(SubSeq(s, 1, n)) = g[n]
  <2> DEFINE u == SubSeq(s, 1, n)
  <2>1. Len(u) = n /\ \A i \in 1..n : u[i] = s[i]
    BY <1>0
  <2>2. n = 0 => u = <<>>
    BY <1>0
  <2> HIDE DEF u
  <2>3. CASE n = 0
    BY <2>1, <2>2, <2>3, <1>3 DEF FlattenSeq, Is
  <2>4. CASE n # 0
    <3> DEFINE e(f, i) == IF i = 1 THEN u[i] ELSE f[i - 1] \o u[i]
               Flat(f) == f = [i \in 1..Len(u) |-> IF i = 1 THEN u[i] ELSE f[i - 1] \o u[i]]
               k == [i \in 1..n |-> g[i]]
    <3>1. Flat(k)
      <4>1. \A i \in 1..n : k[i] = e(k, i)
        <5> SUFFICES ASSUME NEW i \in 1..n PROVE k[i] = e(k, i)
          OBVIOUS
        <5>1. k[i] = g[i] /\ g[i] = g[i - 1] \o s[i] /\ u[i] = s[i]
          <6>1. i \in 1..Len(s)
            BY <1>0
          <6>2. g[i] = g[i - 1] \o s[i]
            BY <6>1, <1>3, Zenon DEF Is
          <6> QED BY <6>2, <2>1
        <5>2. CASE i = 1
          <6>1. s[1] \in Seq(T)
            BY <1>0, <2>4
          <6>2. <<>> \o s[1] = s[1]
            BY <6>1, ConcatEmptySeq
          <6>3. g[0] = <<>>
            BY <1>3 DEF Is
          <6>4. i - 1 = 0
            BY <5>2
          <6>5. k[i] = s[1] /\ e(k, i) = u[i]
            BY <5>1, <5>2, <6>2, <6>3, <6>4, Zenon
          <6> QED BY <5>1, <5>2, <6>5
        <5>3. CASE i # 1
          <6>1. k[i - 1] = g[i - 1]
            BY <5>3
          <6> QED BY <5>1, <5>3, <6>1
        <5> QED BY <5>2, <5>3
      <4>2. k = [i \in 1..n |-> k[i]]
        OBVIOUS
      <4> HIDE DEF k
      <4> QED BY <4>1, <4>2, <2>1
    <3> DEFINE f == CHOOSE x : Flat(x)
    <3>2. Flat(f)
      <4> HIDE DEF Flat, k
      <4> QED BY <3>1
    <3>3. FlattenSeq(u) = f[Len(u)]
      BY <2>1, <2>4 DEF FlattenSeq
    <3> HIDE DEF f
    <3>4. \A i \in 1..n : f[i] = e(f, i)
      <4> HIDE DEF e
      <4>1. f = [i \in 1..n |-> e(f, i)]
        BY <3>2, <2>1 DEF e
      <4> QED BY <4>1
    <3> DEFINE Same(m) == m \in 1..n => f[m] = g[m]
               M == {m \in Nat : Same(m)}
    <3>5. 0 \in M
      OBVIOUS
    <3>6. ASSUME NEW m \in Nat, Same(m) PROVE Same(m + 1)
      <4> SUFFICES ASSUME NEW j \in 1..n, j = m + 1 PROVE f[j] = g[j]
        OBVIOUS
      <4>1. j \in 1..Len(s) /\ j - 1 = m
        BY <1>0
      <4>2. g[j] = g[j - 1] \o s[j]
        BY <4>1, <1>3, Zenon DEF Is
      <4>3. u[j] = s[j] /\ f[j] = e(f, j)
        BY <2>1, <3>4, Zenon
      <4>4. CASE j = 1
        <5>1. s[1] \in Seq(T)
          BY <1>0, <4>1, <4>4
        <5>2. <<>> \o s[1] = s[1]
          BY <5>1, ConcatEmptySeq
        <5>3. g[0] = <<>> /\ m = 0
          BY <1>3, <4>4 DEF Is
        <5>4. f[j] = u[j]
          BY <4>3, <4>4
        <5> QED BY <4>1, <4>2, <4>3, <4>4, <5>2, <5>3, <5>4
      <4>5. CASE j # 1
        <5>1. m \in 1..n
          BY <4>1, <4>5
        <5>2. f[m] = g[m]
          BY <3>6, <5>1
        <5>3. f[j] = f[j - 1] \o u[j]
          BY <4>3, <4>5, Zenon
        <5> QED BY <4>1, <4>2, <4>3, <5>2, <5>3, Zenon
      <4> QED BY <4>4, <4>5
    <3>7. n \in M
      <4> HIDE DEF Same
      <4>1. \A m \in Nat : m \in M => m + 1 \in M
        BY <3>6
      <4>2. n \in Nat
        BY <1>0
      <4> HIDE DEF M
      <4> QED BY <3>5, <4>1, <4>2, Induction
    <3> QED BY <2>1, <2>4, <3>3, <3>7 DEF u
  <2> QED BY <2>3, <2>4 DEF u
<1> QED BY <1>3, <1>4 DEF Is

\* All that a client says, and its first n pieces.
Script(c) == FlattenSeq(Chunks[c])
Part(c, n) == FlattenSeq(SubSeq(Chunks[c], 1, n))

\* What was sent grows by a piece of data, and is the beginning of all.
LEMMA Parts ==
  ASSUME NEW c \in Mailer
  PROVE  /\ Len(Chunks[c]) \in Nat /\ Part(c, 0) = <<>> /\ Script(c) \in Seq(Spoken)
         /\ \A n \in 0..Len(Chunks[c]) :
              /\ Part(c, n) \in Seq(Spoken) /\ Len(Part(c, n)) <= Len(Script(c))
              /\ \A i \in 1..Len(Part(c, n)) : Part(c, n)[i] = Script(c)[i]
         /\ \A n \in 1..Len(Chunks[c]) :
              Chunks[c][n] \in Seq(Spoken) /\ Part(c, n) = Part(c, n - 1) \o Chunks[c][n]
<1> DEFINE s == Chunks[c]
<1>1. s \in Seq(Seq(Spoken))
  BY ChunksAssumption
<1> HIDE DEF s
<1>2. PICK g : /\ g[0] = <<>>
               /\ \A n \in 1..Len(s) : g[n] = g[n - 1] \o s[n]
               /\ \A n \in 0..Len(s) : g[n] \in Seq(Spoken) /\ FlattenSeq(SubSeq(s, 1, n)) = g[n]
  BY <1>1, FlattenTable
<1>3. Len(s) \in Nat /\ \A n \in 1..Len(s) : s[n] \in Seq(Spoken)
  BY <1>1
<1>4. \A n \in 0..Len(s) : Part(c, n) = g[n]
  BY <1>2 DEF Part, s
<1>5. Script(c) = g[Len(s)]
  <2>1. SubSeq(s, 1, Len(s)) = s
    BY <1>1, SubSeqFull
  <2>2. Script(c) = FlattenSeq(s)
    BY DEF Script, s
  <2>3. FlattenSeq(SubSeq(s, 1, Len(s))) = g[Len(s)]
    BY <1>2, <1>3
  <2> QED BY <2>1, <2>2, <2>3
<1>6. ASSUME NEW n \in 0..Len(s)
      PROVE  Len(g[n]) <= Len(g[Len(s)]) /\ \A i \in 1..Len(g[n]) : g[n][i] = g[Len(s)][i]
  <2> DEFINE Begins(m) == m <= Len(s) - n =>
               Len(g[n]) <= Len(g[n + m]) /\ \A i \in 1..Len(g[n]) : g[n][i] = g[n + m][i]
             B == {m \in Nat : Begins(m)}
  <2>1. Len(g[n]) \in Nat /\ n \in Nat
    BY <1>2, <1>3
  <2>2. 0 \in B
    BY <2>1
  <2>3. ASSUME NEW m \in Nat, Begins(m) PROVE Begins(m + 1)
    <3> SUFFICES ASSUME m + 1 <= Len(s) - n, NEW j, j = n + m
                 PROVE  /\ Len(g[n]) <= Len(g[j + 1])
                        /\ \A i \in 1..Len(g[n]) : g[n][i] = g[j + 1][i]
      <4>1. n + m + 1 = n + (m + 1)
        BY <2>1
      <4> QED BY <4>1
    <3>1. j \in 0..Len(s) /\ j + 1 \in 1..Len(s) /\ j + 1 - 1 = j
      BY <1>3, <2>1
    <3>2. g[j] \in Seq(Spoken) /\ s[j + 1] \in Seq(Spoken)
      BY <3>1, <1>2, <1>3
    <3>3. g[j + 1] = g[j] \o s[j + 1]
      <4>1. PICK k : k = j + 1
        OBVIOUS
      <4>2. k \in 1..Len(s) /\ k - 1 = j
        BY <3>1, <4>1
      <4>3. g[k] = g[k - 1] \o s[k]
        BY <4>2, <1>2, Zenon
      <4> QED BY <4>1, <4>2, <4>3
    <3>4. PICK a, b : a = g[j] /\ b = s[j + 1]
      OBVIOUS
    <3>5. a \in Seq(Spoken) /\ b \in Seq(Spoken) /\ Len(a) \in Nat /\ Len(b) \in Nat
      BY <3>2, <3>4
    <3>6. Len(a \o b) = Len(a) + Len(b) /\ \A i \in 1..Len(a) : (a \o b)[i] = a[i]
      <4>1. \A i \in 1..Len(a) + Len(b) : (a \o b)[i] = IF i <= Len(a) THEN a[i] ELSE b[i - Len(a)]
        BY <3>5, ConcatProperties
      <4>2. \A i \in 1..Len(a) : i <= Len(a) /\ i \in 1..Len(a) + Len(b)
        BY <3>5
      <4>3. Len(a \o b) = Len(a) + Len(b)
        BY <3>5, ConcatProperties
      <4> QED BY <4>1, <4>2, <4>3
    <3>7. Len(g[n]) <= Len(a) /\ \A i \in 1..Len(g[n]) : g[n][i] = a[i]
      BY <2>3, <2>1, <1>3, <3>4
    <3>8. Len(g[n]) <= Len(a \o b)
      <4> PICK x, y : x = Len(a) /\ y = Len(b)
        OBVIOUS
      <4>1. Len(g[n]) <= x + y
        BY <3>5, <3>7, <2>1
      <4> QED BY <4>1, <3>6
    <3>9. ASSUME NEW i \in 1..Len(g[n]) PROVE g[n][i] = (a \o b)[i]
      <4>1. i \in 1..Len(a)
        BY <3>5, <3>7, <2>1
      <4> QED BY <4>1, <3>6, <3>7
    <3> QED BY <3>3, <3>4, <3>8, <3>9
  <2>4. Len(s) - n \in Nat /\ n + (Len(s) - n) = Len(s)
    BY <1>3
  <2>5. \A m \in Nat : m \in B => m + 1 \in B
    <3> HIDE DEF Begins
    <3> QED BY <2>3
  <2>6. Len(s) - n \in B
    <3> HIDE DEF B, Begins
    <3> QED BY <2>2, <2>4, <2>5, Induction
  <2> QED BY <2>4, <2>6
<1>7. ASSUME NEW n \in 1..Len(s) PROVE Part(c, n) = Part(c, n - 1) \o s[n]
  <2>1. n \in 0..Len(s) /\ n - 1 \in 0..Len(s)
    BY <1>3
  <2>2. g[n] = g[n - 1] \o s[n]
    BY <1>2, Zenon
  <2> QED BY <2>1, <2>2, <1>4, Zenon
<1>8. Part(c, 0) = <<>> /\ Script(c) \in Seq(Spoken)
  BY <1>2, <1>3, <1>4, <1>5
<1>9. \A n \in 0..Len(s) :
        /\ Part(c, n) \in Seq(Spoken) /\ Len(Part(c, n)) <= Len(Script(c))
        /\ \A i \in 1..Len(Part(c, n)) : Part(c, n)[i] = Script(c)[i]
  BY <1>2, <1>4, <1>5, <1>6
<1> QED BY <1>3, <1>7, <1>8, <1>9 DEF s

-----------------------------------------------------------------------------
\* How many lines the daemon has taken.
Handled(c) == Len(SentLines(c)) - Len(buffer[c])

\* Line i of the script is of the kind l.
Says(c, i, l) == Script(c)[i].line = l

MailTypes ==
  /\ sent = [c \in Mailer |-> sent[c]] /\ answers = [c \in Mailer |-> answers[c]]
  /\ buffer = [c \in Mailer |-> buffer[c]] /\ saving = [c \in Mailer |-> saving[c]]
  /\ to = [c \in Mailer |-> to[c]] /\ collecting \in [Mailer -> BOOLEAN]
  /\ lines = [c \in Mailer |-> lines[c]]
  /\ requested = [r \in Reader |-> requested[r]] /\ got = [r \in Reader |-> got[r]]

\* What is in the buffer is the end of what was sent, and a dot its end.
BufferOK(c) ==
  /\ sent[c] \in 0..Len(Chunks[c])
  /\ buffer[c] \in Seq(Spoken) /\ Len(buffer[c]) <= Len(SentLines(c))
  /\ \A i \in 1..Len(buffer[c]) :
       /\ buffer[c][i] = Script(c)[Handled(c) + i]
       /\ Says(c, Handled(c) + i, "dot") => i = Len(buffer[c])

LEMMA LineTaken ==
  ASSUME MailTypes, NEW c \in Mailer, BufferOK(c), NEW t, t = Handled(c), TakeLine(c), sent' = sent
  PROVE  /\ t \in Nat /\ t + 1 \in 1..Len(Script(c)) /\ Head(buffer[c]) = Script(c)[t + 1]
         /\ BufferOK(c)' /\ Handled(c)' = t + 1
         /\ Says(c, t + 1, "dot") => buffer'[c] = <<>>
<1>1. buffer[c] # <<>> /\ buffer'[c] = Tail(buffer[c])
  BY DEF TakeLine, MailTypes
<1> PICK b, d, n, l, m : /\ b = buffer[c] /\ d = buffer'[c] /\ n = Len(SentLines(c))
                         /\ l = Len(b) /\ m = Len(d)
  OBVIOUS
<1>2. SentLines(c)' = SentLines(c)
  BY DEF SentLines
<1>3. n \in Nat /\ n <= Len(Script(c)) /\ Len(Script(c)) \in Nat
  <2>1. SentLines(c) \in Seq(Spoken) /\ n <= Len(Script(c)) /\ Script(c) \in Seq(Spoken)
    BY Parts DEF BufferOK, SentLines, Part
  <2> QED BY <2>1
<1>4. b \in Seq(Spoken) /\ l <= n /\ b # <<>> /\ d = Tail(b)
  BY <1>1 DEF BufferOK
<1>5. d \in Seq(Spoken) /\ (\A i \in 1..m : d[i] = b[i + 1]) /\ Head(b) = b[1]
  BY <1>4
<1>13. l \in Nat /\ 1 <= l /\ m = l - 1 /\ l <= n
  BY <1>4
<1>6. t = n - l /\ Handled(c)' = n - m
  BY <1>2 DEF Handled
<1>7. \A i \in 1..l : b[i] = Script(c)[t + i] /\ (Says(c, t + i, "dot") => i = l)
  BY DEF BufferOK
<1>8. t \in Nat /\ t + 1 \in 1..Len(Script(c)) /\ Handled(c)' = t + 1
  BY <1>3, <1>6, <1>13
<1>9. ASSUME NEW i \in 1..m
      PROVE  d[i] = Script(c)[t + 1 + i] /\ (Says(c, t + 1 + i, "dot") => i = m)
  <2> PICK j : j = i + 1
    OBVIOUS
  <2>1. j \in 1..l /\ t + j = t + 1 + i /\ (j = l => i = m)
    BY <1>8, <1>13
  <2>2. d[i] = b[j]
    BY <1>5
  <2> QED BY <2>1, <2>2, <1>7
<1>10. Script(c)' = Script(c) /\ (Says(c, t + 1, "dot") => d = <<>>)
  <2>1. Says(c, t + 1, "dot") => l = 1
    <3>1. 1 \in 1..l
      BY <1>13
    <3> QED BY <3>1, <1>7
  <2>2. m = 0 => d = <<>>
    BY <1>5, EmptySeq
  <2> QED BY <2>1, <2>2, <1>13 DEF Script
<1>11. BufferOK(c)'
  <2>1. /\ sent'[c] \in 0..Len(Chunks[c]) /\ d \in Seq(Spoken) /\ m <= Len(SentLines(c)')
    BY <1>2, <1>3, <1>5, <1>13 DEF BufferOK
  <2> QED BY <2>1, <1>8, <1>9, <1>10 DEF BufferOK, Says
<1>12. Head(buffer[c]) = Script(c)[t + 1]
  <2>1. 1 \in 1..l
    BY <1>13
  <2> QED BY <2>1, <1>5, <1>7
<1> QED BY <1>8, <1>10, <1>11, <1>12

\* The lines that are answered, of the first t.
Asked(c, t) == {i \in 1..t : ~Says(c, i, "text")}

LEMMA AskedMore ==
  ASSUME NEW c, NEW t \in Nat
  PROVE  /\ IsFiniteSet(Asked(c, t)) /\ Cardinality(Asked(c, t)) \in Nat
         /\ Says(c, t + 1, "text") => Asked(c, t + 1) = Asked(c, t)
         /\ ~Says(c, t + 1, "text") => Cardinality(Asked(c, t + 1)) = Cardinality(Asked(c, t)) + 1
<1>1. IsFiniteSet(1..t)
  BY FS_Interval
<1>2. IsFiniteSet(Asked(c, t)) /\ Cardinality(Asked(c, t)) \in Nat
  BY <1>1, FS_Subset, FS_CardinalityType DEF Asked
<1>3. Says(c, t + 1, "text") => Asked(c, t + 1) = Asked(c, t)
  BY DEF Asked
<1>4. ASSUME ~Says(c, t + 1, "text") PROVE Asked(c, t + 1) = Asked(c, t) \cup {t + 1}
  BY <1>4 DEF Asked
<1>5. t + 1 \notin Asked(c, t)
  BY DEF Asked
<1> QED BY <1>2, <1>3, <1>4, <1>5, FS_AddElement

\* More data comes when all that needs an answer has it.
LEMMA ChunkKept ==
  ASSUME MailTypes, NEW c \in Mailer, Polite(c), BufferOK(c), ChunkArrives(c),
         answers[c] = Due(c), answers[c] <= Cardinality(Asked(c, Handled(c)))
  PROVE  /\ Handled(c) \in Nat /\ BufferOK(c)' /\ Handled(c)' = Handled(c)
         /\ answers[c] = Cardinality(Asked(c, Handled(c)))
<1>1. PICK k : k = sent[c] + 1
  OBVIOUS
<1>2. PICK b, d, x, p, q : /\ b = buffer[c] /\ d = buffer'[c] /\ x = Chunks[c][k]
                           /\ p = Part(c, k - 1) /\ q = Part(c, k)
  OBVIOUS
<1>3. PICK t, l, m, n, h :
           t = Handled(c) /\ l = Len(b) /\ m = Len(d) /\ n = Len(p) /\ h = Len(x)
  OBVIOUS
<1>4. k \in 1..Len(Chunks[c]) /\ k - 1 \in 0..Len(Chunks[c]) /\ sent[c] = k - 1 /\ sent'[c] = k
  BY <1>1, Parts DEF ChunkArrives, MailTypes, BufferOK
<1>5. k \in 0..Len(Chunks[c])
  BY <1>4
<1>6. d = b \o x
  BY <1>1, <1>2 DEF ChunkArrives, MailTypes
<1>7. SentLines(c) = p /\ SentLines(c)' = q
  BY <1>2, <1>4 DEF SentLines, Part
<1>8. b \in Seq(Spoken) /\ l <= n /\ t = n - l
  BY <1>2, <1>3, <1>7 DEF BufferOK, Handled
<1>9. p \in Seq(Spoken) /\ q \in Seq(Spoken) /\ x \in Seq(Spoken) /\ q = p \o x
  BY <1>2, <1>4, <1>5, Parts
<1>10. d \in Seq(Spoken) /\ Len(d) = Len(b) + Len(x) /\ Len(q) = Len(p) + Len(x)
  BY <1>6, <1>8, <1>9, ConcatProperties
<1>11. l \in Nat /\ n \in Nat /\ h \in Nat
  BY <1>3, <1>8, <1>9
<1>12. /\ l \in Nat /\ n \in Nat /\ h \in Nat /\ l <= n /\ t \in Nat /\ t = n - l
       /\ m \in Nat /\ m = l + h
  <2>1. m = l + h
    BY <1>3, <1>10
  <2>2. l <= n /\ t = n - l
    BY <1>8
  <2> QED BY <2>1, <2>2, <1>11
<1>13. \A i \in 1..l + h : d[i] = IF i <= l THEN b[i] ELSE x[i - l]
  BY <1>3, <1>6, <1>8, <1>9, ConcatProperties
<1>14. \A i \in 1..n + h : q[i] = IF i <= n THEN p[i] ELSE x[i - n]
  BY <1>3, <1>9, ConcatProperties
<1>15. \A i \in 1..n + h : Script(c)[i] = q[i]
  <2>1. \A i \in 1..Len(q) : Script(c)[i] = q[i]
    BY <1>2, <1>5, Parts
  <2> QED BY <2>1, <1>3, <1>10
<1>16. \A i \in 1..n : Script(c)[i] = p[i]
  BY <1>2, <1>3, <1>4, Parts
<1>17. \A i \in 1..l : b[i] = Script(c)[t + i]
  BY <1>2, <1>3 DEF BufferOK
<1>18. Due(c) = Cardinality(Asked(c, n))
  <2>1. DOMAIN p = 1..n
    BY <1>3, <1>9
  <2>2. {i \in DOMAIN p : p[i].line # "text"} = Asked(c, n)
    BY <2>1, <1>16 DEF Asked, Says
  <2> QED BY <2>2, <1>7 DEF Due
<1>19. Asked(c, t) = Asked(c, n)
  <2>1. 1..t \subseteq 1..n
    BY <1>12
  <2>2. Asked(c, t) \subseteq Asked(c, n)
    BY <2>1 DEF Asked
  <2>3. /\ IsFiniteSet(Asked(c, n)) /\ Cardinality(Asked(c, n)) \in Nat
        /\ IsFiniteSet(Asked(c, t)) /\ Cardinality(Asked(c, t)) \in Nat
    BY <1>12, AskedMore
  <2>4. Cardinality(Asked(c, n)) <= Cardinality(Asked(c, t))
    BY <1>3, <1>18
  <2> QED BY <2>2, <2>3, <2>4, FS_Subset
<1>20. Handled(c)' = t
  <2>1. Handled(c)' = (n + h) - m
    BY <1>2, <1>3, <1>7, <1>10 DEF Handled
  <2> QED BY <2>1, <1>12
<1>21. ASSUME NEW i \in 1..m
       PROVE  d[i] = Script(c)[t + i] /\ (Says(c, t + i, "dot") => i = m)
  <2>1. CASE i <= l
    <3>1. i \in 1..l /\ t + i \in 1..n /\ t + i \notin 1..t /\ i \in 1..l + h
      BY <2>1, <1>12
    <3>2. Says(c, t + i, "text")
      BY <3>1, <1>19 DEF Asked
    <3>3. ~Says(c, t + i, "dot")
      BY <3>2 DEF Says
    <3>4. d[i] = b[i]
      BY <3>1, <2>1, <1>13
    <3> QED BY <3>1, <3>3, <3>4, <1>17
  <2>2. CASE ~(i <= l)
    <3>1. PICK j, e : j = i - l /\ e = t + i
      OBVIOUS
    <3>2. /\ j \in 1..h /\ e \in 1..n + h /\ ~(e <= n) /\ e - n = j /\ i \in 1..l + h
          /\ (j = h => i = m)
      BY <2>2, <3>1, <1>12
    <3>3. d[i] = x[j]
      BY <3>1, <3>2, <2>2, <1>13
    <3>4. Script(c)[e] = x[j]
      <4>1. q[e] = x[j]
        BY <3>2, <1>14
      <4> QED BY <4>1, <3>2, <1>15
    <3>5. x[j].line = "dot" => j = h
      <4>1. Chunks[c] \in Seq(Seq(Spoken))
        BY ChunksAssumption
      <4>2. k \in DOMAIN Chunks[c]
        BY <4>1, <1>4
      <4>3. j \in DOMAIN x
        BY <1>3, <1>9, <3>2
      <4>4. \A a \in DOMAIN Chunks[c] : \A z \in DOMAIN Chunks[c][a] :
              Chunks[c][a][z].line = "dot" => z = Len(Chunks[c][a])
        BY DEF Polite
      <4> QED BY <4>2, <4>3, <4>4, <1>2, <1>3, Zenon
    <3> QED BY <3>1, <3>2, <3>3, <3>4, <3>5 DEF Says
  <2> QED BY <2>1, <2>2
<1>22. BufferOK(c)'
  <2>1. Script(c)' = Script(c)
    BY DEF Script
  <2>2. Len(d) <= Len(SentLines(c)')
    <3>1. l + h <= n + h
      BY <1>12
    <3> QED BY <3>1, <1>3, <1>7, <1>10
  <2> QED BY <2>1, <2>2, <1>2, <1>3, <1>4, <1>5, <1>10, <1>20, <1>21 DEF BufferOK, Says
<1>23. answers[c] = Cardinality(Asked(c, t))
  BY <1>18, <1>19
<1> QED BY <1>3, <1>12, <1>20, <1>22, <1>23

-----------------------------------------------------------------------------
\* Line t is in the mail whose DATA is line d and has no dot yet.
Inside(c, d, t) ==
  /\ d \in 1..t /\ Says(c, d, "data")
  /\ \A k \in d..t : ~Says(c, k, "dot")

\* What a loop keeps while it stores a mail is what the session has.
SavingOK(c, s) ==
  \E dot, f :
    \/ s = [dot |-> dot, dir |-> to[c], file |-> NoFile]
    \/ f # NoFile /\ f[1] = to[c] /\ s = [dot |-> dot, dir |-> to[c], file |-> f]
    \/ /\ f # NoFile /\ f[1] = to[c]
       /\ s = [dot |-> dot, dir |-> to[c], file |-> f,
               content |-> [to |-> to[c], lines |-> lines[c]]]

\* The dot of a mail was taken and is not answered; t lines were taken.
AtDot(c, t) == collecting[c] /\ t >= 1 /\ Says(c, t, "dot")

SessionAt(c, t) ==
  /\ \A r \in 1..t : Says(c, r, "rcpt") /\ (\A k \in r + 1..t : ~Says(c, k, "rcpt")) =>
       to[c] = Script(c)[r].arg
  /\ ~collecting[c] => lines[c] = <<>> /\ saving[c] = {} /\ \A d : ~Inside(c, d, t)
  /\ collecting[c] /\ ~AtDot(c, t) =>
       saving[c] = {} /\ \E d : Inside(c, d, t) /\ lines[c] = SubSeq(Script(c), d + 1, t)
  /\ AtDot(c, t) =>
       /\ buffer[c] = <<>>
       /\ \E d : Inside(c, d, t - 1) /\ lines[c] = SubSeq(Script(c), d + 1, t - 1)
       /\ \E s : saving[c] \subseteq {s} /\ SavingOK(c, s)
  /\ answers[c] + (IF AtDot(c, t) THEN 1 ELSE 0) = Cardinality(Asked(c, t))
  /\ answers[c] \in Nat

SessionOK(c) == BufferOK(c) /\ SessionAt(c, Handled(c))

\* What the session has at the dot is a mail of the script.
LEMMA AtDotIsMail ==
  ASSUME NEW c \in Mailer, Polite(c), NEW t \in 1..Len(Script(c)), SessionAt(c, t), AtDot(c, t)
  PROVE  IsMail(c, [to |-> to[c], lines |-> lines[c]])
<1>1. PICK d : Inside(c, d, t - 1) /\ lines[c] = SubSeq(Script(c), d + 1, t - 1)
  BY DEF SessionAt
<1>2. Script(c) \in Seq(Spoken) /\ DOMAIN Script(c) = 1..Len(Script(c)) /\ Len(Script(c)) \in Nat
  <2>1. Script(c) \in Seq(Spoken)
    BY Parts
  <2> QED BY <2>1
<1>3. t \in Nat /\ d \in Nat /\ 1 <= d /\ d <= t - 1 /\ t <= Len(Script(c))
  BY <1>1, <1>2 DEF Inside
<1>4. d \in DOMAIN Script(c) /\ t \in DOMAIN Script(c) /\ Says(c, d, "data") /\ Says(c, t, "dot")
  BY <1>1, <1>2, <1>3 DEF Inside, AtDot
<1>5. PICK r \in 1..d - 1 :
        Says(c, r, "rcpt") /\ \A k \in r + 1..d - 1 : ~Says(c, k, "rcpt") /\ ~Says(c, k, "dot")
  BY <1>4 DEF Polite, Script, Says
<1>6. r \in Nat /\ r \in DOMAIN Script(c) /\ d \in r + 1..t - 1 /\ r \in 1..t
  BY <1>2, <1>3
<1>7. ASSUME NEW k \in r..t - 1 PROVE ~Says(c, k, "dot")
  <2>1. k = r \/ k \in r + 1..d - 1 \/ k \in d..t - 1
    BY <1>3, <1>6
  <2>2. ~Says(c, r, "dot")
    BY <1>5 DEF Says
  <2> QED BY <2>1, <2>2, <1>1, <1>5 DEF Inside
<1>8. ASSUME NEW k \in r + 1..t PROVE ~Says(c, k, "rcpt")
  <2>1. k \in r + 1..d - 1 \/ k = d \/ k = t \/ k \in d + 1..t - 1
    BY <1>3, <1>6
  <2>2. ~Says(c, d, "rcpt") /\ ~Says(c, t, "rcpt")
    BY <1>4 DEF Says
  <2>3. ASSUME k \in d + 1..t - 1 PROVE ~Says(c, k, "rcpt")
    <3>1. /\ k \in 1..Len(Script(c)) /\ d \in 1..k - 1
          /\ (\A j \in d..k : j \in d..t - 1) /\ k \in d..t - 1
      BY <2>3, <1>2, <1>3
    <3>2. ~Says(c, k, "dot") /\ \A j \in d..k : ~Says(c, j, "dot")
      BY <3>1, <1>1 DEF Inside
    <3>3. Says(c, k, "text")
      BY <3>1, <3>2, <1>2, <1>4 DEF Polite, Script, Says
    <3> QED BY <3>3 DEF Says
  <2> QED BY <2>1, <2>2, <2>3, <1>5
<1>9. to[c] = Script(c)[r].arg
  BY <1>5, <1>6, <1>8 DEF SessionAt
<1> QED BY <1>1, <1>4, <1>5, <1>6, <1>7, <1>9 DEF IsMail, Script, Says

\* The line that is called a dot is the dot.
LEMMA PoliteDot ==
  ASSUME NEW c \in Mailer, Polite(c), NEW i \in 1..Len(Script(c)), Says(c, i, "dot")
  PROVE  Script(c)[i] = Line("dot")
<1>1. i \in DOMAIN Script(c)
  <2>1. Script(c) \in Seq(Spoken)
    BY Parts
  <2> QED BY <2>1
<1> QED BY <1>1 DEF Polite, Script, Says

LEMMA TextIsInside ==
  ASSUME NEW c \in Mailer, Polite(c), NEW t \in Nat, t + 1 \in 1..Len(Script(c))
  PROVE  /\ \A d : Inside(c, d, t) /\ ~Says(c, t + 1, "dot") =>
              Inside(c, d, t + 1) /\ Says(c, t + 1, "text")
         /\ Says(c, t + 1, "text") => \E d : Inside(c, d, t)
         /\ \A d : Inside(c, d, t + 1) =>
              Inside(c, d, t) \/ (d = t + 1 /\ Says(c, t + 1, "data"))
<1>1. DOMAIN Script(c) = 1..Len(Script(c))
  <2>1. Script(c) \in Seq(Spoken)
    BY Parts
  <2> QED BY <2>1
<1>2. PICK i : i = t + 1
  OBVIOUS
<1>3. i \in DOMAIN Script(c) /\ i - 1 = t
  BY <1>1, <1>2
<1>4. Says(c, i, "text") <=> /\ ~Says(c, i, "dot")
                           /\ \E d \in 1..i - 1 : Says(c, d, "data") /\ \A k \in d..i : ~Says(c, k, "dot")
  BY <1>3 DEF Polite, Script, Says
<1>5. ASSUME NEW d, Inside(c, d, t), ~Says(c, i, "dot")
      PROVE  Inside(c, d, i) /\ Says(c, i, "text")
  <2>1. d \in 1..t /\ d \in 1..i /\ \A k \in d..i : k \in d..t \/ k = i
    BY <1>2, <1>5 DEF Inside
  <2>2. Inside(c, d, i)
    BY <2>1, <1>5 DEF Inside
  <2> QED BY <2>1, <2>2, <1>3, <1>4, <1>5 DEF Inside
<1>6. ASSUME Says(c, i, "text") PROVE \E d : Inside(c, d, t)
  <2>1. PICK d \in 1..i - 1 : Says(c, d, "data") /\ \A k \in d..i : ~Says(c, k, "dot")
    BY <1>4, <1>6
  <2>2. d \in 1..t /\ \A k \in d..t : k \in d..i
    BY <1>2
  <2>3. Inside(c, d, t)
    BY <2>1, <2>2 DEF Inside
  <2> QED BY <2>3
<1>7. ASSUME NEW d, Inside(c, d, i) PROVE Inside(c, d, t) \/ (d = i /\ Says(c, i, "data"))
  <2>1. d \in 1..t \/ d = i
    BY <1>2, <1>7 DEF Inside
  <2>2. \A k \in d..t : k \in d..i
    BY <1>2, <1>7 DEF Inside
  <2> QED BY <2>1, <2>2, <1>7 DEF Inside
<1> QED BY <1>2, <1>5, <1>6, <1>7

LEMMA SessionKept ==
  ASSUME NEW x, SessionOK(x), sent'[x] = sent[x], answers'[x] = answers[x],
         buffer'[x] = buffer[x], saving'[x] = saving[x], to'[x] = to[x],
         collecting'[x] = collecting[x], lines'[x] = lines[x]
  PROVE  SessionOK(x)'
<1> PICK t : t = Handled(x)
  OBVIOUS
<1>1. SentLines(x)' = SentLines(x) /\ Script(x)' = Script(x)
  BY DEF SentLines, Script
<1>2. Handled(x)' = t
  BY <1>1 DEF Handled
<1>3. BufferOK(x)'
  BY <1>1, <1>2 DEF SessionOK, BufferOK, Says
<1>4. AtDot(x, t)' <=> AtDot(x, t)
  BY <1>1 DEF AtDot, Says
<1>5. \A s : SavingOK(x, s) => SavingOK(x, s)'
  BY DEF SavingOK, NoFile
<1>6. SessionAt(x, t)
  BY DEF SessionOK
<1>7. SessionAt(x, t)'
  BY <1>1, <1>4, <1>5, <1>6 DEF SessionAt, Says, Inside, Asked
<1> QED BY <1>2, <1>3, <1>7 DEF SessionOK

\* A step of the connection of c: the other sessions are as they were.
Others(c) ==
  \A x \in Mailer \ {c} :
    /\ sent'[x] = sent[x] /\ answers'[x] = answers[x] /\ buffer'[x] = buffer[x]
    /\ saving'[x] = saving[x] /\ to'[x] = to[x] /\ collecting'[x] = collecting[x]
    /\ lines'[x] = lines[x]

Sessions == \A c \in Mailer : SessionOK(c)

LEMMA OthersKept ==
  ASSUME Sessions, NEW c \in Mailer, Others(c), SessionOK(c)'
  PROVE  Sessions'
<1> SUFFICES ASSUME NEW x \in Mailer PROVE SessionOK(x)'
  BY DEF Sessions
<1>1. CASE x = c
  BY <1>1
<1>2. CASE x # c
  BY <1>2, SessionKept DEF Others, Sessions
<1> QED BY <1>1, <1>2

LEMMA ChunkSession ==
  ASSUME MailTypes, NEW c \in Mailer, Polite(c), c \in PatientMailer, SessionOK(c), ChunkArrives(c)
  PROVE  MailTypes' /\ Others(c) /\ SessionOK(c)'
<1> PICK t : t = Handled(c)
  OBVIOUS
<1>1. MailTypes' /\ Others(c)
  BY DEF ChunkArrives, MailTypes, Others
<1>2. SessionAt(c, t) /\ BufferOK(c) /\ answers[c] = Due(c)
  BY DEF SessionOK, ChunkArrives
<1>3. answers[c] \in Nat /\ (answers[c] = Cardinality(Asked(c, t)) \/ answers[c] + 1 = Cardinality(Asked(c, t)))
  BY <1>2 DEF SessionAt
<1>4. answers[c] <= Cardinality(Asked(c, t))
  BY <1>3
<1>5. t \in Nat /\ BufferOK(c)' /\ Handled(c)' = t /\ answers[c] = Cardinality(Asked(c, t))
  BY <1>2, <1>4, ChunkKept
<1>6. ~AtDot(c, t)
  BY <1>2, <1>3, <1>5 DEF SessionAt
<1>7. /\ answers' = answers /\ saving' = saving /\ to' = to /\ collecting' = collecting
      /\ lines' = lines /\ Script(c)' = Script(c)
  BY DEF ChunkArrives, Script
<1>8. ~AtDot(c, t)'
  BY <1>6, <1>7 DEF AtDot, Says
<1>9. SessionAt(c, t)'
  BY <1>2, <1>6, <1>7, <1>8 DEF SessionAt, Says, Inside, Asked
<1> QED BY <1>1, <1>5, <1>9 DEF SessionOK

LEMMA SubSeqMore ==
  ASSUME NEW T, NEW a \in Seq(T), NEW i \in Nat, NEW j \in Nat, 1 <= i, i <= j + 1, j + 1 <= Len(a)
  PROVE  Append(SubSeq(a, i, j), a[j + 1]) = SubSeq(a, i, j + 1)
<1> DEFINE s == SubSeq(a, i, j)
           u == SubSeq(a, i, j + 1)
<1>0. Len(a) \in Nat
  OBVIOUS
<1>1. /\ s \in Seq(T) /\ Len(s) = j - i + 1
      /\ \A k \in 1..j - i + 1 : s[k] = a[i + k - 1]
  <2>1. \A k \in i..j : a[k] \in T
    BY <1>0
  <2> QED BY <1>0, <2>1
<1>2. /\ u \in Seq(T) /\ Len(u) = j - i + 2
      /\ \A k \in 1..j - i + 2 : u[k] = a[i + k - 1]
  <2>1. \A k \in i..j + 1 : a[k] \in T
    BY <1>0
  <2> QED BY <1>0, <2>1
<1>3. a[j + 1] \in T
  BY <1>0
<1> HIDE DEF s, u
<1>4. /\ Append(s, a[j + 1]) \in Seq(T) /\ Len(Append(s, a[j + 1])) = j - i + 2
      /\ \A k \in 1..j - i + 2 : Append(s, a[j + 1])[k] = IF k = j - i + 2 THEN a[j + 1] ELSE s[k]
  <2>1. Len(s) + 1 = j - i + 2
    BY <1>1
  <2> QED BY <1>1, <1>3, <2>1, AppendProperties
<1>5. ASSUME NEW k \in 1..j - i + 2 PROVE Append(s, a[j + 1])[k] = u[k]
  <2>1. CASE k = j - i + 2
    <3>1. i + k - 1 = j + 1
      BY <2>1
    <3> QED BY <2>1, <3>1, <1>2, <1>4
  <2>2. CASE k # j - i + 2
    <3>1. k \in 1..j - i + 1
      BY <2>2
    <3> QED BY <2>2, <3>1, <1>1, <1>2, <1>4
  <2> QED BY <2>1, <2>2
<1>6. Append(s, a[j + 1]) = u
  BY <1>2, <1>4, <1>5, SeqEqual
<1> QED BY <1>6 DEF s, u

LEMMA CollectSession ==
  ASSUME MailTypes, NEW c \in Mailer, Polite(c), SessionOK(c), Collect(c)
  PROVE  MailTypes' /\ Others(c) /\ SessionOK(c)'
<1> PICK t : t = Handled(c)
  OBVIOUS
<1>1. MailTypes' /\ Others(c)
  BY DEF Collect, TakeLine, MailTypes, Others
<1>2. /\ sent' = sent /\ answers' = answers /\ saving' = saving /\ to' = to /\ Script(c)' = Script(c)
      /\ collecting' = collecting /\ collecting[c] /\ lines'[c] = Append(lines[c], Head(buffer[c]))
      /\ buffer[c] # <<>> /\ Head(buffer[c]) # Line("dot") /\ TakeLine(c)
  BY DEF Collect, TakeLine, MailTypes, Script
<1>3. SessionAt(c, t) /\ BufferOK(c)
  BY DEF SessionOK
<1>4. /\ t \in Nat /\ t + 1 \in 1..Len(Script(c)) /\ Head(buffer[c]) = Script(c)[t + 1]
      /\ BufferOK(c)' /\ Handled(c)' = t + 1
  BY <1>2, <1>3, LineTaken
<1>5. Script(c) \in Seq(Spoken) /\ Len(Script(c)) \in Nat
  <2>1. Script(c) \in Seq(Spoken)
    BY Parts
  <2> QED BY <2>1
<1>6. ~Says(c, t + 1, "dot")
  BY <1>2, <1>4, PoliteDot DEF Says
<1>7. ~AtDot(c, t)
  BY <1>2, <1>3 DEF SessionAt
<1>8. PICK d : Inside(c, d, t) /\ lines[c] = SubSeq(Script(c), d + 1, t)
  BY <1>2, <1>3, <1>7 DEF SessionAt
<1>9. Inside(c, d, t + 1) /\ Says(c, t + 1, "text")
  BY <1>4, <1>6, <1>8, TextIsInside
<1>10. lines'[c] = SubSeq(Script(c), d + 1, t + 1)
  <2>1. /\ d + 1 \in Nat /\ 1 <= d + 1 /\ d + 1 <= t + 1 /\ t + 1 <= Len(Script(c))
    BY <1>4, <1>5, <1>8 DEF Inside
  <2>2. Append(SubSeq(Script(c), d + 1, t), Script(c)[t + 1]) = SubSeq(Script(c), d + 1, t + 1)
    BY <2>1, <1>4, <1>5, SubSeqMore
  <2> QED BY <2>2, <1>2, <1>4, <1>8
<1>11. SessionAt(c, t + 1)'
  <2> PICK u : u = t + 1
    OBVIOUS
  <2>1. ~AtDot(c, u)' /\ ~Says(c, u, "rcpt")
    BY <1>2, <1>6, <1>9 DEF AtDot, Says
  <2>2. Inside(c, d, u)'
    BY <1>2, <1>9 DEF Inside, Says
  <2>3. answers[c] = Cardinality(Asked(c, u)) /\ answers[c] \in Nat
    <3>1. answers[c] = Cardinality(Asked(c, t)) /\ answers[c] \in Nat
      BY <1>3, <1>7 DEF SessionAt
    <3> QED BY <3>1, <1>4, <1>9, AskedMore
  <2>4. Asked(c, u)' = Asked(c, u)
    BY <1>2 DEF Asked, Says
  <2>5. ASSUME NEW r \in 1..u, Says(c, r, "rcpt"), \A k \in r + 1..u : ~Says(c, k, "rcpt")
        PROVE  to[c] = Script(c)[r].arg
    <3>1. r \in 1..t /\ \A k \in r + 1..t : k \in r + 1..u
      BY <1>4, <2>1, <2>5
    <3> QED BY <3>1, <2>5, <1>3 DEF SessionAt
  <2>6. saving'[c] = {}
    BY <1>2, <1>3, <1>7 DEF SessionAt
  <2>7. lines'[c] = SubSeq(Script(c)', d + 1, u)
    BY <1>2, <1>10
  <2>8. /\ collecting'[c] /\ answers'[c] = Cardinality(Asked(c, u)') /\ answers'[c] \in Nat
    BY <1>2, <2>3, <2>4
  <2>9. \A r \in 1..u : Says(c, r, "rcpt")' /\ (\A k \in r + 1..u : ~Says(c, k, "rcpt")') =>
          to'[c] = Script(c)'[r].arg
    BY <2>5, <1>2 DEF Says
  <2>10. answers'[c] + (IF AtDot(c, u)' THEN 1 ELSE 0) = Cardinality(Asked(c, u)')
    BY <2>1, <2>8
  <2>11. \E e : Inside(c, e, u)' /\ lines'[c] = SubSeq(Script(c)', e + 1, u)
    BY <2>2, <2>7
  <2> QED BY <2>1, <2>6, <2>8, <2>9, <2>10, <2>11, Zenon DEF SessionAt
<1> QED BY <1>1, <1>4, <1>11 DEF SessionOK

LEMMA EndOfMailSession ==
  ASSUME MailTypes, NEW c \in Mailer, Polite(c), SessionOK(c), EndOfMail(c)
  PROVE  MailTypes' /\ Others(c) /\ SessionOK(c)'
<1> PICK t : t = Handled(c)
  OBVIOUS
<1>1. MailTypes' /\ Others(c)
  BY DEF EndOfMail, TakeLine, MailTypes, Others
<1>2. PICK s : /\ s = [dot |-> sent[c], dir |-> to[c], file |-> NoFile]
               /\ saving'[c] = saving[c] \cup {s}
  BY DEF EndOfMail, MailTypes
<1>3. /\ sent' = sent /\ answers' = answers /\ to' = to /\ Script(c)' = Script(c)
      /\ collecting' = collecting /\ lines' = lines /\ collecting[c] /\ TakeLine(c)
      /\ buffer[c] # <<>> /\ Head(buffer[c]) = Line("dot")
  BY DEF EndOfMail, TakeLine, Script
<1>4. SessionAt(c, t) /\ BufferOK(c)
  BY DEF SessionOK
<1>5. /\ t \in Nat /\ t + 1 \in 1..Len(Script(c)) /\ Head(buffer[c]) = Script(c)[t + 1]
      /\ BufferOK(c)' /\ Handled(c)' = t + 1 /\ (Says(c, t + 1, "dot") => buffer'[c] = <<>>)
  BY <1>3, <1>4, LineTaken
<1> PICK u : u = t + 1
  OBVIOUS
<1>6. Says(c, u, "dot") /\ ~Says(c, u, "text") /\ ~Says(c, u, "rcpt") /\ buffer'[c] = <<>>
  BY <1>3, <1>5 DEF Says, Line
<1>7. ~AtDot(c, t)
  BY <1>3, <1>4 DEF SessionAt
<1>8. saving[c] = {} /\ \E d : Inside(c, d, t) /\ lines[c] = SubSeq(Script(c), d + 1, t)
  BY <1>3, <1>4, <1>7 DEF SessionAt
<1>9. SessionAt(c, u)'
  <2>1. AtDot(c, u)' /\ u - 1 = t /\ u >= 1
    BY <1>3, <1>5, <1>6 DEF AtDot, Says
  <2>2. \E d : Inside(c, d, u - 1)' /\ lines'[c] = SubSeq(Script(c)', d + 1, u - 1)
    BY <1>3, <1>8, <2>1 DEF Inside, Says
  <2>3. answers'[c] \in Nat /\ answers'[c] + 1 = Cardinality(Asked(c, u)')
    <3>1. answers[c] = Cardinality(Asked(c, t)) /\ answers[c] \in Nat
      BY <1>4, <1>7 DEF SessionAt
    <3>2. Cardinality(Asked(c, u)) = Cardinality(Asked(c, t)) + 1
      BY <1>5, <1>6, AskedMore
    <3>3. Asked(c, u)' = Asked(c, u)
      BY <1>3 DEF Asked, Says
    <3> QED BY <3>1, <3>2, <3>3, <1>3
  <2>4. \A r \in 1..u : Says(c, r, "rcpt")' /\ (\A k \in r + 1..u : ~Says(c, k, "rcpt")') =>
          to'[c] = Script(c)'[r].arg
    <3> SUFFICES ASSUME NEW r \in 1..u, Says(c, r, "rcpt"), \A k \in r + 1..u : ~Says(c, k, "rcpt")
                 PROVE  to[c] = Script(c)[r].arg
      BY <1>3 DEF Says
    <3>1. r \in 1..t /\ \A k \in r + 1..t : k \in r + 1..u
      BY <1>5, <1>6
    <3> QED BY <3>1, <1>4 DEF SessionAt
  <2>5. saving'[c] \subseteq {s} /\ SavingOK(c, s)'
    <3>1. saving'[c] = {s}
      BY <1>2, <1>8
    <3>2. s = [dot |-> sent[c], dir |-> to'[c], file |-> NoFile]
      BY <1>2, <1>3
    <3> QED BY <3>1, <3>2 DEF SavingOK, NoFile
  <2>6. answers'[c] + (IF AtDot(c, u)' THEN 1 ELSE 0) = Cardinality(Asked(c, u)')
    BY <2>1, <2>3
  <2>7. collecting'[c]
    BY <1>3
  <2> QED BY <2>1, <2>2, <2>3, <2>4, <2>5, <2>6, <2>7, <1>6, Zenon DEF SessionAt
<1> QED BY <1>1, <1>5, <1>9 DEF SessionOK

LEMMA CommandSession ==
  ASSUME MailTypes, NEW c \in Mailer, Polite(c), SessionOK(c), Command(c)
  PROVE  MailTypes' /\ Others(c) /\ SessionOK(c)'
<1> PICK t : t = Handled(c)
  OBVIOUS
<1>1. MailTypes' /\ Others(c)
  BY DEF Command, TakeLine, MailTypes, Others
<1>2. PICK l : l = Head(buffer[c])
  OBVIOUS
<1>3. /\ sent' = sent /\ saving' = saving /\ Script(c)' = Script(c) /\ lines' = lines
      /\ ~collecting[c] /\ TakeLine(c)
      /\ to'[c] = IF l.line = "rcpt" THEN l.arg ELSE to[c]
      /\ collecting'[c] = (l.line = "data")
      /\ answers'[c] = answers[c] + 1
  BY <1>2 DEF Command, TakeLine, MailTypes, Script
<1>4. SessionAt(c, t) /\ BufferOK(c)
  BY DEF SessionOK
<1>5. /\ t \in Nat /\ t + 1 \in 1..Len(Script(c)) /\ l = Script(c)[t + 1]
      /\ BufferOK(c)' /\ Handled(c)' = t + 1
  BY <1>2, <1>3, <1>4, LineTaken
<1> PICK u : u = t + 1
  OBVIOUS
<1>6. lines[c] = <<>> /\ saving[c] = {} /\ \A d : ~Inside(c, d, t)
  BY <1>3, <1>4 DEF SessionAt
<1>7. ~Says(c, u, "text") /\ \A d : Inside(c, d, u) => d = u /\ Says(c, u, "data")
  BY <1>5, <1>6, TextIsInside
<1>8. ~AtDot(c, t) /\ ~AtDot(c, u)'
  BY <1>3, <1>5 DEF AtDot, Says
<1>9. SessionAt(c, u)'
  <2>1. answers'[c] \in Nat /\ answers'[c] = Cardinality(Asked(c, u)')
    <3>1. answers[c] = Cardinality(Asked(c, t)) /\ answers[c] \in Nat
      BY <1>4, <1>8 DEF SessionAt
    <3>2. Cardinality(Asked(c, u)) = Cardinality(Asked(c, t)) + 1
      BY <1>5, <1>7, AskedMore
    <3>3. Asked(c, u)' = Asked(c, u)
      BY <1>3 DEF Asked, Says
    <3> QED BY <3>1, <3>2, <3>3, <1>3
  <2>2. answers'[c] + (IF AtDot(c, u)' THEN 1 ELSE 0) = Cardinality(Asked(c, u)')
    BY <2>1, <1>8
  <2>3. \A r \in 1..u : Says(c, r, "rcpt")' /\ (\A k \in r + 1..u : ~Says(c, k, "rcpt")') =>
          to'[c] = Script(c)'[r].arg
    <3> SUFFICES ASSUME NEW r \in 1..u, Says(c, r, "rcpt"), \A k \in r + 1..u : ~Says(c, k, "rcpt")
                 PROVE  to'[c] = Script(c)[r].arg
      BY <1>3 DEF Says
    <3>1. CASE r = u
      BY <3>1, <1>3, <1>5 DEF Says
    <3>2. CASE r # u
      <4>1. r \in 1..t /\ (\A k \in r + 1..t : k \in r + 1..u) /\ u \in r + 1..u
        BY <3>2, <1>5
      <4>2. ~Says(c, u, "rcpt")
        BY <4>1
      <4>3. to[c] = Script(c)[r].arg
        BY <4>1, <1>4 DEF SessionAt
      <4> QED BY <4>2, <4>3, <1>3, <1>5 DEF Says
    <3> QED BY <3>1, <3>2
  <2>4. ASSUME ~collecting'[c]
        PROVE  lines'[c] = <<>> /\ saving'[c] = {} /\ \A d : ~Inside(c, d, u)'
    <3>1. ~Says(c, u, "data")
      BY <2>4, <1>3, <1>5 DEF Says
    <3>2. \A d : ~Inside(c, d, u)
      BY <3>1, <1>7
    <3> QED BY <3>2, <1>3, <1>6 DEF Inside, Says
  <2>5. ASSUME collecting'[c]
        PROVE  /\ saving'[c] = {}
               /\ \E d : Inside(c, d, u)' /\ lines'[c] = SubSeq(Script(c)', d + 1, u)
    <3>1. Says(c, u, "data") /\ ~Says(c, u, "dot")
      BY <2>5, <1>3, <1>5 DEF Says
    <3>2. u \in 1..u /\ (\A k \in u..u : k = u) /\ u + 1 > u
      BY <1>5
    <3>3. Inside(c, u, u)
      BY <3>1, <3>2 DEF Inside
    <3>4. SubSeq(Script(c), u + 1, u) = <<>>
      <4>1. u \in Int /\ u + 1 \in Int /\ u < u + 1
        BY <1>5
      <4> QED BY <4>1, SubSeqEmpty
    <3> QED BY <3>3, <3>4, <1>3, <1>6 DEF Inside, Says
  <2> QED BY <2>1, <2>2, <2>3, <2>4, <2>5, <1>8, Zenon DEF SessionAt
<1> QED BY <1>1, <1>5, <1>9 DEF SessionOK

LEMMA EndLoopSession ==
  ASSUME MailTypes, NEW c \in Mailer, SessionOK(c), EndLoop(c)
  PROVE  MailTypes' /\ Others(c) /\ SessionOK(c)'
<1>1. MailTypes' /\ Others(c)
  BY DEF EndLoop, MailTypes, Others
<1> QED BY <1>1, SessionKept DEF EndLoop

\* A session that stores a mail is at its dot.
LEMMA StoringIsAtDot ==
  ASSUME NEW c \in Mailer, SessionOK(c), NEW s \in saving[c]
  PROVE  AtDot(c, Handled(c)) /\ collecting[c] /\ SavingOK(c, s) /\ saving[c] = {s}
<1> PICK t : t = Handled(c)
  OBVIOUS
<1>1. SessionAt(c, t)
  BY DEF SessionOK
<1>2. AtDot(c, t)
  BY <1>1 DEF SessionAt
<1>3. PICK z : saving[c] \subseteq {z} /\ SavingOK(c, z)
  BY <1>1, <1>2 DEF SessionAt
<1>4. z = s /\ saving[c] = {s}
  BY <1>3
<1> QED BY <1>2, <1>3, <1>4 DEF AtDot

\* A step of the loop that stores the mail.
LEMMA StoringSession ==
  ASSUME NEW c \in Mailer, SessionOK(c), NEW s \in saving[c], NEW z,
         UNCHANGED <<sent, answers, buffer, to, collecting, lines>>,
         saving'[c] \subseteq {z}, SavingOK(c, z)
  PROVE  SessionOK(c)'
<1> PICK t : t = Handled(c)
  OBVIOUS
<1>1. SentLines(c)' = SentLines(c) /\ Script(c)' = Script(c)
  BY DEF SentLines, Script
<1>2. Handled(c)' = t /\ BufferOK(c)'
  BY <1>1 DEF SessionOK, Handled, BufferOK, Says
<1>3. SessionAt(c, t) /\ AtDot(c, t) /\ collecting[c]
  BY StoringIsAtDot DEF SessionOK
<1>4. AtDot(c, t)'
  BY <1>1, <1>3 DEF AtDot, Says
<1>5. SavingOK(c, z)'
  BY DEF SavingOK, NoFile
<1>6. SessionAt(c, t)'
  BY <1>1, <1>3, <1>4, <1>5 DEF SessionAt, Says, Inside, Asked
<1> QED BY <1>2, <1>6 DEF SessionOK

LEMMA OpenFileSession ==
  ASSUME MailTypes, NEW c \in Mailer, SessionOK(c), NEW s \in saving[c], OpenFile(c, s)
  PROVE  MailTypes' /\ Others(c) /\ SessionOK(c)'
<1> PICK f : f = <<s.dir, clock>>
  OBVIOUS
<1>1. MailTypes' /\ Others(c)
  BY DEF OpenFile, Save, MailTypes, Others
<1>2. saving[c] = {s} /\ SavingOK(c, s)
  BY StoringIsAtDot
<1>3. s.file = NoFile /\ saving'[c] = {[s EXCEPT !.file = f]}
  BY <1>2 DEF OpenFile, Save, MailTypes
<1>4. PICK dot : s = [dot |-> dot, dir |-> to[c], file |-> NoFile]
  BY <1>2, <1>3 DEF SavingOK
<1>5. [s EXCEPT !.file = f] = [dot |-> dot, dir |-> to[c], file |-> f]
  BY <1>4
<1>6. f # NoFile /\ f[1] = to[c]
  BY <1>4 DEF NoFile
<1>7. SavingOK(c, [dot |-> dot, dir |-> to[c], file |-> f])
  BY <1>6 DEF SavingOK
<1> QED BY <1>1, <1>3, <1>5, <1>7, StoringSession DEF OpenFile

LEMMA OpenFailsSession ==
  ASSUME MailTypes, NEW c \in Mailer, SessionOK(c), NEW s \in saving[c], OpenFails(c, s)
  PROVE  MailTypes' /\ Others(c) /\ SessionOK(c)'
<1>1. MailTypes' /\ Others(c)
  BY DEF OpenFails, MailTypes, Others
<1>2. saving[c] = {s} /\ SavingOK(c, s)
  BY StoringIsAtDot
<1>3. saving'[c] \subseteq {s}
  BY <1>2 DEF OpenFails, MailTypes
<1> QED BY <1>1, <1>2, <1>3, StoringSession DEF OpenFails

LEMMA WriteFileSession ==
  ASSUME MailTypes, NEW c \in Mailer, SessionOK(c), NEW s \in saving[c], WriteFile(c, s)
  PROVE  MailTypes' /\ Others(c) /\ SessionOK(c)'
<1>1. MailTypes' /\ Others(c)
  BY DEF WriteFile, Save, MailTypes, Others
<1>2. saving[c] = {s} /\ SavingOK(c, s)
  BY StoringIsAtDot
<1> DEFINE z == [dot |-> s.dot, dir |-> s.dir, file |-> s.file,
                 content |-> [to |-> to[c], lines |-> lines[c]]]
<1>3. s.file # NoFile /\ saving'[c] = {z}
  BY <1>2 DEF WriteFile, Save, MailTypes
<1>4. s.dir = to[c] /\ s.file[1] = to[c]
  BY <1>2, <1>3 DEF SavingOK
<1>5. SavingOK(c, z)
  BY <1>3, <1>4 DEF SavingOK
<1> HIDE DEF z
<1> QED BY <1>1, <1>3, <1>5, StoringSession DEF WriteFile

LEMMA SavedSession ==
  ASSUME MailTypes, NEW c \in Mailer, SessionOK(c), NEW s \in saving[c], Saved(c, s)
  PROVE  /\ MailTypes' /\ Others(c) /\ SessionOK(c)'
         /\ s.file[1] = to[c] /\ s.content = [to |-> to[c], lines |-> lines[c]]
<1> PICK t : t = Handled(c)
  OBVIOUS
<1>1. MailTypes' /\ Others(c)
  BY DEF Saved, MailTypes, Others
<1>2. saving[c] = {s} /\ SavingOK(c, s) /\ AtDot(c, t) /\ SessionAt(c, t) /\ BufferOK(c)
  BY StoringIsAtDot DEF SessionOK
<1>3. s.file[1] = to[c] /\ s.content = [to |-> to[c], lines |-> lines[c]]
  BY <1>2 DEF SavingOK, Saved
<1>4. /\ sent' = sent /\ buffer' = buffer /\ to' = to /\ Script(c)' = Script(c)
      /\ lines'[c] = <<>> /\ ~collecting'[c] /\ answers'[c] = answers[c] + 1 /\ saving'[c] = {}
  BY <1>2 DEF Saved, MailTypes, Script, Cleared
<1>5. SentLines(c)' = SentLines(c)
  BY <1>4 DEF SentLines
<1>6. Handled(c)' = t /\ BufferOK(c)'
  BY <1>2, <1>4, <1>5 DEF Handled, BufferOK, Says
<1>7. SessionAt(c, t)'
  <2>1. ~AtDot(c, t)'
    BY <1>4 DEF AtDot
  <2>2. answers'[c] \in Nat /\ answers'[c] = Cardinality(Asked(c, t)')
    <3>1. answers[c] \in Nat /\ answers[c] + 1 = Cardinality(Asked(c, t))
      BY <1>2 DEF SessionAt
    <3>2. Asked(c, t)' = Asked(c, t)
      BY <1>4 DEF Asked, Says
    <3> QED BY <3>1, <3>2, <1>4
  <2>3. answers'[c] + (IF AtDot(c, t)' THEN 1 ELSE 0) = Cardinality(Asked(c, t)')
    BY <2>1, <2>2
  <2>4. \A d : ~Inside(c, d, t)'
    <3> SUFFICES ASSUME NEW d, Inside(c, d, t) PROVE FALSE
      BY <1>4 DEF Inside, Says
    <3>1. t \in Nat
      <4>1. PICK e : Inside(c, e, t - 1)
        BY <1>2 DEF SessionAt
      <4>2. Len(SentLines(c)) \in Nat /\ Len(buffer[c]) \in Nat
        <5>1. SentLines(c) \in Seq(Spoken) /\ buffer[c] \in Seq(Spoken)
          BY <1>2, Parts DEF BufferOK, SentLines, Part
        <5> QED BY <5>1
      <4>3. Len(buffer[c]) <= Len(SentLines(c))
        BY <1>2 DEF BufferOK
      <4> QED BY <4>2, <4>3 DEF Handled
    <3>2. t \in d..t
      BY <3>1 DEF Inside
    <3> QED BY <3>2, <1>2 DEF Inside, AtDot
  <2>5. \A r \in 1..t : Says(c, r, "rcpt")' /\ (\A k \in r + 1..t : ~Says(c, k, "rcpt")') =>
          to'[c] = Script(c)'[r].arg
    BY <1>2, <1>4 DEF SessionAt, Says
  <2> QED BY <2>1, <2>2, <2>3, <2>4, <2>5, <1>4, Zenon DEF SessionAt
<1> QED BY <1>1, <1>3, <1>6, <1>7 DEF SessionOK

\* The files, and what readers asked for and got.
MailOf(m) == \E c \in Mailer : IsMail(c, m)

StoredOK ==
  /\ \A f \in DOMAIN mail : mail[f] = Empty \/ (mail[f].to = f[1] /\ MailOf(mail[f]))
  /\ \A r \in Reader : requested[r] = NoFile \/ requested[r] \in DOMAIN mail
  /\ \A r \in Reader : got[r] = Empty \/ MailOf(got[r])

LEMMA FilePut ==
  ASSUME StoredOK, NEW f, NEW m, m = Empty \/ (m.to = f[1] /\ MailOf(m)),
         mail' = Put(mail, f, m), UNCHANGED <<requested, got>>
  PROVE  StoredOK'
<1>1. /\ DOMAIN mail' = DOMAIN mail \cup {f}
      /\ \A g \in DOMAIN mail' : mail'[g] = IF g = f THEN m ELSE mail[g]
  BY DEF Put
<1>2. \A x : MailOf(x)' <=> MailOf(x)
  BY DEF MailOf, IsMail
<1> QED BY <1>1, <1>2 DEF StoredOK, Empty, NoFile, NoUser

LEMMA FilesKept ==
  ASSUME StoredOK, UNCHANGED <<mail, requested, got>>
  PROVE  StoredOK'
<1>1. \A x : MailOf(x)' <=> MailOf(x)
  BY DEF MailOf, IsMail
<1> QED BY <1>1 DEF StoredOK, Empty, NoFile, NoUser

MailInv == MailTypes /\ Sessions /\ StoredOK

LEMMA ServerStep ==
  ASSUME MailInv, NEW c \in Mailer, Polite(c), Server(c)
  PROVE  MailInv'
<1>1. SessionOK(c)
  BY DEF MailInv, Sessions
<1>2. CASE Collect(c)
  BY <1>1, <1>2, CollectSession, OthersKept, FilesKept DEF MailInv, Collect
<1>3. CASE EndOfMail(c)
  BY <1>1, <1>3, EndOfMailSession, OthersKept, FilesKept DEF MailInv, EndOfMail
<1>4. CASE Command(c)
  BY <1>1, <1>4, CommandSession, OthersKept, FilesKept DEF MailInv, Command
<1>5. CASE EndLoop(c)
  BY <1>1, <1>5, EndLoopSession, OthersKept, FilesKept DEF MailInv, EndLoop
<1>6. ASSUME NEW s \in saving[c], OpenFile(c, s) PROVE MailInv'
  <2>1. mail' = mail \/ mail' = Put(mail, <<s.dir, clock>>, Empty)
    BY <1>6 DEF OpenFile
  <2>2. StoredOK'
    BY <1>6, <2>1, FilesKept, FilePut DEF MailInv, OpenFile
  <2> QED BY <1>1, <1>6, <2>2, OpenFileSession, OthersKept DEF MailInv
<1>7. ASSUME NEW s \in saving[c], OpenFails(c, s) PROVE MailInv'
  BY <1>1, <1>7, OpenFailsSession, OthersKept, FilesKept DEF MailInv, OpenFails
<1>8. ASSUME NEW s \in saving[c], WriteFile(c, s) PROVE MailInv'
  BY <1>1, <1>8, WriteFileSession, OthersKept, FilesKept DEF MailInv, WriteFile
<1>9. ASSUME NEW s \in saving[c], Saved(c, s) PROVE MailInv'
  <2> PICK t : t = Handled(c)
    OBVIOUS
  <2>1. /\ MailTypes' /\ Others(c) /\ SessionOK(c)'
        /\ s.file[1] = to[c] /\ s.content = [to |-> to[c], lines |-> lines[c]]
    BY <1>1, <1>9, SavedSession DEF MailInv
  <2>2. AtDot(c, t) /\ SessionAt(c, t) /\ BufferOK(c)
    BY <1>1, StoringIsAtDot DEF SessionOK
  <2>3. t \in 1..Len(Script(c))
    <3>1. /\ SentLines(c) \in Seq(Spoken) /\ buffer[c] \in Seq(Spoken) /\ Script(c) \in Seq(Spoken)
          /\ Len(SentLines(c)) <= Len(Script(c)) /\ Len(buffer[c]) <= Len(SentLines(c))
      BY <2>2, Parts DEF BufferOK, SentLines, Part
    <3>2. Len(SentLines(c)) \in Nat /\ Len(buffer[c]) \in Nat /\ Len(Script(c)) \in Nat
      BY <3>1
    <3>3. t >= 1 /\ t = Len(SentLines(c)) - Len(buffer[c])
      BY <2>2 DEF AtDot, Handled
    <3> QED BY <3>1, <3>2, <3>3
  <2>4. IsMail(c, s.content)
    BY <2>1, <2>2, <2>3, AtDotIsMail
  <2>5. s.content.to = s.file[1] /\ MailOf(s.content)
    BY <2>1, <2>4 DEF MailOf
  <2>6. StoredOK'
    BY <1>9, <2>5, FilePut DEF MailInv, Saved
  <2> QED BY <2>1, <2>6, OthersKept DEF MailInv
<1> QED BY <1>2, <1>3, <1>4, <1>5, <1>6, <1>7, <1>8, <1>9 DEF Server

LEMMA ReaderStep ==
  ASSUME MailInv, NEW r \in Reader, Retrieved(r) \/ \E f \in DOMAIN mail : Retr(r, f)
  PROVE  MailInv'
<1>1. MailTypes' /\ Sessions'
  <2>1. MailTypes'
    BY DEF MailInv, MailTypes, Retrieved, Retr
  <2>2. UNCHANGED <<sent, answers, buffer, saving, to, collecting, lines>>
    BY DEF Retrieved, Retr
  <2>3. \A x \in Mailer : SessionOK(x)'
    BY <2>2, SessionKept DEF MailInv, Sessions
  <2> QED BY <2>1, <2>3 DEF Sessions
<1>2. mail' = mail /\ \A x : MailOf(x)' <=> MailOf(x)
  BY DEF Retrieved, Retr, MailOf, IsMail
<1>3. CASE Retrieved(r)
  <2>1. requested[r] \in DOMAIN mail
    BY <1>3 DEF Retrieved, MailInv, StoredOK
  <2>2. \A x \in Reader : /\ got'[x] = IF x = r THEN mail[requested[r]] ELSE got[x]
                          /\ requested'[x] = IF x = r THEN NoFile ELSE requested[x]
    BY <1>3 DEF Retrieved, MailInv, MailTypes
  <2>3. StoredOK'
    BY <1>2, <2>1, <2>2 DEF MailInv, StoredOK, Empty, NoFile, NoUser
  <2> QED BY <1>1, <2>3 DEF MailInv
<1>4. ASSUME NEW f \in DOMAIN mail, Retr(r, f) PROVE MailInv'
  <2>1. got' = got /\ \A x \in Reader : requested'[x] = IF x = r THEN f ELSE requested[x]
    BY <1>4 DEF Retr, MailInv, MailTypes
  <2>2. StoredOK'
    BY <1>2, <2>1 DEF MailInv, StoredOK, Empty, NoFile, NoUser
  <2> QED BY <1>1, <2>2 DEF MailInv
<1> QED BY <1>3, <1>4

LEMMA MailStep ==
  ASSUME MailInv, PatientMailer = Mailer, \A c \in Mailer : Polite(c), [MailNext]_mailVars
  PROVE  MailInv'
<1>1. ASSUME UNCHANGED <<sent, answers, buffer, saving, to, collecting, lines, mail, requested, got>>
      PROVE  MailInv'
  <2>1. \A x \in Mailer : SessionOK(x)'
    BY <1>1, SessionKept DEF MailInv, Sessions
  <2> QED BY <1>1, <2>1, FilesKept DEF MailInv, MailTypes, Sessions
<1>2. CASE MailTick \/ UNCHANGED mailVars
  BY <1>1, <1>2 DEF MailTick, mailVars
<1>3. ASSUME NEW c \in Mailer, ChunkArrives(c) PROVE MailInv'
  BY <1>3, ChunkSession, OthersKept, FilesKept DEF MailInv, Sessions, ChunkArrives
<1>4. ASSUME NEW c \in Mailer, Server(c) PROVE MailInv'
  BY <1>4, ServerStep
<1>5. ASSUME NEW r \in Reader, Retrieved(r) \/ \E f \in DOMAIN mail : Retr(r, f) PROVE MailInv'
  BY <1>5, ReaderStep
<1> QED BY <1>2, <1>3, <1>4, <1>5 DEF MailNext

LEMMA MailStart ==
  ASSUME MailInit
  PROVE  MailInv
<1>1. MailTypes /\ StoredOK
  BY DEF MailInit, MailTypes, StoredOK
<1>2. ASSUME NEW c \in Mailer PROVE SessionOK(c)
  <2>1. /\ sent[c] = 0 /\ buffer[c] = <<>> /\ saving[c] = {} /\ lines[c] = <<>>
        /\ ~collecting[c] /\ answers[c] = 0
    BY <1>2 DEF MailInit
  <2>2. Len(Chunks[c]) \in Nat /\ SentLines(c) = <<>>
    BY <2>1, Parts DEF SentLines, Part
  <2>3. Handled(c) = 0
    BY <2>1, <2>2 DEF Handled
  <2>4. BufferOK(c)
    BY <2>1, <2>2, EmptySeq DEF BufferOK
  <2>5. Asked(c, 0) = {} /\ ~AtDot(c, 0) /\ \A d : ~Inside(c, d, 0)
    BY <2>1 DEF Asked, AtDot, Inside
  <2>6. SessionAt(c, 0)
    <3>1. 1..0 = {} /\ answers[c] + 0 = Cardinality(Asked(c, 0)) /\ answers[c] \in Nat
      BY <2>1, <2>5, FS_EmptySet
    <3> QED BY <2>1, <2>5, <3>1 DEF SessionAt
  <2> QED BY <2>3, <2>4, <2>6 DEF SessionOK
<1> QED BY <1>1, <1>2 DEF MailInv, Sessions

\* MailsIntact, for every number of connections, readers and recipients and
\* all scripts that keep to the protocol: however the loops of smtpd over the
\* buffers and the steps of saving a mail come between, a client that waits for
\* its answers gets its mails stored as it sent them.
THEOREM MailsOfPatientClients ==
  ASSUME \A c \in Mailer : Polite(c)
  PROVE  MailSpec => []MailsIntact
<1>1. CASE PatientMailer = Mailer
  <2>1. MailInv => MailsIntact
    BY DEF MailInv, StoredOK, MailOf, MailsIntact
  <2>2. MailInv /\ [MailNext]_mailVars => MailInv'
    BY <1>1, MailStep
  <2> QED BY <2>1, <2>2, MailStart, PTL DEF MailSpec
<1>2. CASE PatientMailer # Mailer
  <2>1. MailsIntact
    BY <1>2 DEF MailsIntact
  <2> QED BY <2>1, PTL
<1> QED BY <1>1, <1>2

-----------------------------------------------------------------------------
(* coind *)

Message ==
  [type : {"dial"}, from : Node, to : Node]
    \cup [type : {"request_chain"}, from : Node, to : Node]
    \cup [type : {"block"}, from : Node, to : Node, block : Nat]
    \cup [type : {"chain"}, from : Node, to : Node, chain : Seq(Nat)]

CoinTypeOK ==
  /\ chain \in [Node -> Seq(Nat)] /\ made \in Seq(Nat) /\ work \in Seq(Message)
  /\ dialed \in [Node -> Seq(Node)] /\ miner \in Node \cup {NoMiner}

\* How far a block is from the genesis block, and a chain that counts so.
Heights(h) ==
  /\ h \in [0..Len(made) -> Nat] /\ h[0] = 0
  /\ \A b \in 1..Len(made) : made[b] \in 0..Len(made) /\ h[b] = h[made[b]] + 1

Counted(ch, h) ==
  /\ Verified(ch)
  /\ \A i \in 1..Len(ch) : ch[i] \in 1..Len(made) /\ h[ch[i]] = i

\* Every chain is verified, also one on its way.
ChainsOK(h) ==
  /\ Heights(h)
  /\ \A n \in Node : Counted(chain[n], h)
  /\ \A m \in Range(work) :
       /\ m.type = "chain" => Counted(m.chain, h)
       /\ m.type = "block" => m.block \in 1..Len(made)

\* After the miner mined, a message has its block, or leads to a chain that is
\* no longer than its own.
Proper(m) ==
  /\ m.type # "dial"
  /\ m.type = "block" => m.block = Last(chain[miner]) /\ Len(chain[m.from]) <= Len(chain[miner])
  /\ m.type = "request_chain" => Len(chain[m.to]) <= Len(chain[miner])
  /\ m.type = "chain" => Len(m.chain) <= Len(chain[miner])

\* A message that leads to the miner's chain for p.
Serves(m, p) ==
  \/ m.type = "block" /\ m.from = miner /\ m.to = p
  \/ m.type = "request_chain" /\ m.from = p /\ m.to = miner
  \/ m.type = "chain" /\ m.to = p /\ m.chain = chain[miner]

MinedOK ==
  miner # NoMiner =>
    /\ chain[miner] # <<>>
    /\ \A m \in Range(work) : Proper(m)
    /\ \A p \in Range(dialed[miner]) :
         Len(chain[p]) >= Len(chain[miner]) \/ \E m \in Range(work) : Serves(m, p)

CoinInv == CoinTypeOK /\ (\E h : ChainsOK(h)) /\ MinedOK

-----------------------------------------------------------------------------
LEMMA Messages ==
  ASSUME NEW m \in Message
  PROVE  /\ m.type \in {"dial", "request_chain", "block", "chain"} /\ m.from \in Node /\ m.to \in Node
         /\ m.type = "block" => m.block \in Nat
         /\ m.type = "chain" => m.chain \in Seq(Nat)
BY DEF Message

LEMMA NewMessages ==
  ASSUME NEW n \in Node, NEW p \in Node
  PROVE  /\ Request(n, p) \in Message /\ [type |-> "dial", from |-> n, to |-> p] \in Message
         /\ \A b \in Nat : Block(n, p, b) \in Message
         /\ \A ch \in Seq(Nat) : Answer(n, p, ch) \in Message
BY DEF Message, Block, Request, Answer

\* What is called is done before the rest of the work.
LEMMA Stacked ==
  ASSUME NEW T, NEW w \in Seq(T), w # <<>>, NEW s \in Seq(T)
  PROVE  /\ Head(w) \in Range(w) /\ Head(w) \in T /\ Tail(w) \in Seq(T) /\ s \o Tail(w) \in Seq(T)
         /\ \A m \in Range(s \o Tail(w)) : m \in Range(s) \cup Range(w)
         /\ \A m \in Range(Tail(w)) : m \in Range(w)
         /\ \A m \in Range(w) : m # Head(w) => m \in Range(Tail(w))
         /\ \A m \in Range(s) : m \in Range(s \o Tail(w))
         /\ \A m \in Range(w) : m # Head(w) => m \in Range(s \o Tail(w))
<1>1. Range(w) = {w[i] : i \in 1..Len(w)} /\ Range(s) = {s[i] : i \in 1..Len(s)}
  BY DEF Range
<1>2. /\ Len(w) \in Nat /\ Len(w) >= 1 /\ Head(w) = w[1] /\ Tail(w) \in Seq(T) /\ Len(Tail(w)) = Len(w) - 1
      /\ \A i \in 1..Len(w) - 1 : Tail(w)[i] = w[i + 1]
      /\ w[1] \in T
  BY HeadTailProperties, EmptySeq
<1>3. Range(Tail(w)) = {w[i] : i \in 2..Len(w)}
  <2>1. Range(Tail(w)) = {Tail(w)[i] : i \in 1..Len(w) - 1}
    <3>1. DOMAIN Tail(w) = 1..Len(w) - 1
      BY <1>2
    <3> QED  BY <3>1, Zenon DEF Range
  <2>2. \A i \in 2..Len(w) : i - 1 \in 1..Len(w) - 1 /\ Tail(w)[i - 1] = w[i]
    BY <1>2
  <2>3. \A i \in 1..Len(w) - 1 : i + 1 \in 2..Len(w) /\ Tail(w)[i] = w[i + 1]
    BY <1>2
  <2>4. {Tail(w)[i] : i \in 1..Len(w) - 1} \subseteq {w[i] : i \in 2..Len(w)}
    BY <2>3
  <2>5. {w[i] : i \in 2..Len(w)} \subseteq {Tail(w)[i] : i \in 1..Len(w) - 1}
    <3> SUFFICES ASSUME NEW i \in 2..Len(w) PROVE w[i] \in {Tail(w)[j] : j \in 1..Len(w) - 1}
      OBVIOUS
    <3> QED  BY <2>2
  <2> QED  BY <2>1, <2>4, <2>5, Zenon
<1>4. s \o Tail(w) \in Seq(T) /\ Range(s \o Tail(w)) = Range(s) \cup Range(Tail(w))
  <2>1. Tail(w) \in Seq(T)
    BY <1>2
  <2>2. s \o Tail(w) \in Seq(T)
    BY <2>1, ConcatProperties
  <2>3. Range(s \o Tail(w)) = Range(s) \cup Range(Tail(w))
    BY <2>1, RangeConcatenation, Zenon
  <2> QED  BY <2>2, <2>3
<1> QED  BY <1>1, <1>2, <1>3, <1>4

\* The tip of a chain says how long it is.
LEMMA TipHeight ==
  ASSUME NEW h, Heights(h), made \in Seq(Nat), NEW ch \in Seq(Nat), Counted(ch, h)
  PROVE  Tip(ch) \in 0..Len(made) /\ h[Tip(ch)] = Len(ch)
<1>1. CASE ch = <<>>
  BY <1>1 DEF Tip, Heights
<1>2. CASE ch # <<>>
  <2>1. Len(ch) \in 1..Len(ch)
    BY <1>2, EmptySeq
  <2> QED  BY <1>2, <2>1 DEF Tip, Last, Counted
<1> QED  BY <1>1, <1>2

\* Each block of a chain is one of top blocks and says the one before it.
Linked(ch, prev, h, top) ==
  \A i \in 1..Len(ch) : /\ prev[ch[i]] = (IF i = 1 THEN 0 ELSE ch[i - 1])
                        /\ ch[i] \in 1..top /\ h[ch[i]] = i

\* A block at the end of a chain, whose previous block is the tip.
LEMMA Appended ==
  ASSUME NEW prev, NEW h, NEW ch \in Seq(Nat), NEW top \in Nat, Linked(ch, prev, h, top),
         NEW b \in 1..top, prev[b] = Tip(ch), h[b] = Len(ch) + 1
  PROVE  /\ Append(ch, b) \in Seq(Nat) /\ Len(Append(ch, b)) = Len(ch) + 1
         /\ Append(ch, b) # <<>> /\ Last(Append(ch, b)) = b
         /\ Linked(Append(ch, b), prev, h, top)
<1>1. /\ Append(ch, b) \in Seq(Nat) /\ Len(Append(ch, b)) = Len(ch) + 1
      /\ \A i \in 1..Len(ch) : Append(ch, b)[i] = ch[i]
      /\ Append(ch, b)[Len(ch) + 1] = b /\ Len(ch) \in Nat
  BY AppendProperties
<1>2. prev[b] = IF Len(ch) + 1 = 1 THEN 0 ELSE ch[Len(ch)]
  BY EmptySeq, LenProperties DEF Tip, Last
<1>3. Append(ch, b) # <<>>
  <2>1. Len(<<>>) = 0 /\ Len(Append(ch, b)) # 0
    BY <1>1
  <2> QED  BY <2>1, Zenon
<1> DEFINE a == Append(ch, b)
<1> HIDE DEF a
<1>4. /\ Len(ch) \in Nat /\ a[Len(ch) + 1] = b /\ \A i \in 1..Len(ch) : a[i] = ch[i]
  BY <1>1 DEF a
<1>5. ASSUME NEW i \in 1..Len(ch) + 1
      PROVE  prev[a[i]] = (IF i = 1 THEN 0 ELSE a[i - 1]) /\ a[i] \in 1..top /\ h[a[i]] = i
  <2>1. i # 1 => a[i - 1] = ch[i - 1]
    BY <1>4
  <2>2. CASE i = Len(ch) + 1
    BY <1>2, <1>4, <2>1, <2>2
  <2>3. CASE i \in 1..Len(ch)
    BY <1>4, <2>1, <2>3 DEF Linked
  <2>4. i = Len(ch) + 1 \/ i \in 1..Len(ch)
    BY <1>4
  <2> QED  BY <2>2, <2>3, <2>4, Zenon
<1>6. Len(a) = Len(ch) + 1
  BY <1>1 DEF a
<1>7. Linked(a, prev, h, top)
  BY <1>5, <1>6 DEF Linked
<1> QED  BY <1>1, <1>3, <1>7 DEF a, Last

LEMMA CountedAppend ==
  ASSUME NEW h, Heights(h), made \in Seq(Nat), NEW ch \in Seq(Nat), Counted(ch, h),
         NEW b \in 1..Len(made), made[b] = Tip(ch)
  PROVE  /\ Counted(Append(ch, b), h) /\ Append(ch, b) \in Seq(Nat)
         /\ Len(Append(ch, b)) = Len(ch) + 1 /\ h[b] = Len(ch) + 1
<1> DEFINE a == Append(ch, b)
<1>1. h[b] = Len(ch) + 1 /\ Len(made) \in Nat
  <2>1. h[b] = h[made[b]] + 1
    BY DEF Heights
  <2>2. h[Tip(ch)] = Len(ch)
    BY TipHeight
  <2> QED  BY <2>1, <2>2
<1>2. Linked(ch, made, h, Len(made))
  <2>1. DOMAIN ch = 1..Len(ch)
    OBVIOUS
  <2> QED  BY <2>1 DEF Counted, Verified, Linked
<1> PICK prev : prev = made
  OBVIOUS
<1> PICK top \in Nat : top = Len(made)
  BY <1>1
<1>3. a \in Seq(Nat) /\ Len(a) = Len(ch) + 1 /\ Linked(a, prev, h, top)
  BY <1>1, <1>2, Appended
<1> HIDE DEF a
<1>4. DOMAIN a = 1..Len(ch) + 1
  BY <1>3
<1>5. Counted(a, h)
  BY <1>3, <1>4 DEF Counted, Verified, Linked
<1> QED  BY <1>1, <1>3, <1>5 DEF a

\* A message is handled: it may lengthen chains up to that of the miner, and
\* who it served is served by what it causes, or has the chain.
LEMMA MinedKept ==
  ASSUME CoinTypeOK, MinedOK, miner # NoMiner, UNCHANGED <<dialed, miner>>, work # <<>>,
         chain'[miner] = chain[miner],
         \A n \in Node : Len(chain[n]) <= Len(chain[miner]) => Len(chain'[n]) <= Len(chain[miner]),
         \A n \in Node : Len(chain[n]) >= Len(chain[miner]) => Len(chain'[n]) >= Len(chain[miner]),
         NEW s \in Seq(Message), work' = s \o Tail(work), \A m \in Range(s) : Proper(m)',
         \A p \in Node : Serves(Head(work), p) =>
                          \/ Len(chain'[p]) >= Len(chain[miner])
                          \/ \E m \in Range(s) : Serves(m, p)'
  PROVE  MinedOK'
<1> USE DEF CoinTypeOK
<1>1. /\ \A m \in Range(work') : m \in Range(s) \/ m \in Range(work)
      /\ \A m \in Range(s) : m \in Range(work')
      /\ \A m \in Range(work) : m # Head(work) => m \in Range(work')
  BY Stacked
<1>2. \A m \in Range(work) : m \in Message /\ Proper(m)
  BY DEF MinedOK, Range
<1>3. ASSUME NEW m \in Range(work) PROVE Proper(m)'
  BY <1>2, Messages DEF Proper
<1>4. \A m \in Range(work') : Proper(m)'
  BY <1>1, <1>3
<1>5. ASSUME NEW p \in Range(dialed[miner])
      PROVE  Len(chain'[p]) >= Len(chain[miner]) \/ \E m \in Range(work') : Serves(m, p)'
  <2>1. p \in Node
    BY DEF Range
  <2>2. CASE Len(chain[p]) >= Len(chain[miner])
    BY <2>1, <2>2
  <2>3. ASSUME NEW m \in Range(work), Serves(m, p)
        PROVE  Len(chain'[p]) >= Len(chain[miner]) \/ \E k \in Range(work') : Serves(k, p)'
    <3>1. CASE m = Head(work)
      BY <1>1, <2>1, <2>3, <3>1
    <3>2. CASE m # Head(work)
      <4>1. Serves(m, p)'
        BY <2>3 DEF Serves
      <4> QED  BY <1>1, <3>2, <4>1
    <3> QED  BY <3>1, <3>2
  <2> QED  BY <2>2, <2>3 DEF MinedOK
<1> QED  BY <1>4, <1>5 DEF MinedOK

\* The block of the miner is as far from the genesis block as its chain is long.
LEMMA MinedHeight ==
  ASSUME CoinTypeOK, NEW h, ChainsOK(h), MinedOK, miner # NoMiner
  PROVE  /\ Last(chain[miner]) \in 1..Len(made)
         /\ h[Last(chain[miner])] = Len(chain[miner])
         /\ made[Last(chain[miner])] # Last(chain[miner])
<1>1. chain[miner] # <<>> /\ chain[miner] \in Seq(Nat) /\ Counted(chain[miner], h)
  BY DEF CoinTypeOK, ChainsOK, MinedOK
<1>2. Len(chain[miner]) \in 1..Len(chain[miner])
  BY <1>1, EmptySeq
<1>3. Last(chain[miner]) \in 1..Len(made) /\ h[Last(chain[miner])] = Len(chain[miner])
  BY <1>1, <1>2 DEF Counted, Last
<1>4. h[Last(chain[miner])] = h[made[Last(chain[miner])]] + 1
  BY <1>3 DEF ChainsOK, Heights
<1>5. ASSUME made[Last(chain[miner])] = Last(chain[miner]) PROVE FALSE
  BY <1>2, <1>3, <1>4, <1>5
<1> QED  BY <1>3, <1>5

LEMMA DialStep ==
  ASSUME CoinTypeOK, NEW h, ChainsOK(h), MinedOK, work # <<>>, Dial(Head(work))
  PROVE  CoinTypeOK' /\ ChainsOK(h)' /\ MinedOK'
<1> DEFINE m == Head(work)
           s == <<Request(m.from, m.to)>>
<1>1. m \in Range(work) /\ m \in Message
  BY Stacked DEF CoinTypeOK
<1>2. m.type = "dial" /\ m.from \in Node /\ m.to \in Node
  BY <1>1, Messages DEF Dial
<1>3. s \in Seq(Message) /\ \A x \in Range(s) : x.type = "request_chain"
  <2>1. Request(m.from, m.to) \in Message /\ Request(m.from, m.to).type = "request_chain"
    BY <1>2, NewMessages DEF Request
  <2> QED  BY <2>1 DEF Range
<1>4. /\ work' = s \o Tail(work) /\ UNCHANGED <<chain, made, miner>>
      /\ dialed' = [dialed EXCEPT ![m.from] = Append(@, m.to)]
  BY DEF Dial
<1> HIDE DEF s, m
<1>5. miner = NoMiner
  BY <1>1, <1>2 DEF MinedOK, Proper
<1>6. work' \in Seq(Message) /\ \A x \in Range(work') : x \in Range(s) \/ x \in Range(work)
  BY <1>3, <1>4, Stacked DEF CoinTypeOK
<1>7. dialed' \in [Node -> Seq(Node)]
  <2>1. Append(dialed[m.from], m.to) \in Seq(Node)
    BY <1>2, AppendProperties DEF CoinTypeOK
  <2> QED  BY <1>2, <1>4, <2>1 DEF CoinTypeOK
<1>8. ASSUME NEW x \in Range(work')
      PROVE  /\ x.type = "chain" => Counted(x.chain, h)
             /\ x.type = "block" => x.block \in 1..Len(made)
  BY <1>3, <1>6 DEF ChainsOK
<1>9. CoinTypeOK' /\ MinedOK'
  BY <1>4, <1>5, <1>6, <1>7 DEF CoinTypeOK, MinedOK
<1> QED  BY <1>4, <1>8, <1>9 DEF ChainsOK, Heights, Counted, Verified

\* Broadcast sends one block, from the node.
LEMMA BroadcastType ==
  ASSUME CoinTypeOK, NEW n \in Node, NEW b \in Nat
  PROVE  /\ Broadcast(n, b) \in Seq(Message)
         /\ \A x \in Range(Broadcast(n, b)) : x.type = "block" /\ x.from = n /\ x.block = b
         /\ \A p \in Range(dialed[n]) : Block(n, p, b) \in Range(Broadcast(n, b))
<1>1. dialed[n] \in Seq(Node) /\ DOMAIN dialed[n] = 1..Len(dialed[n]) /\ Len(dialed[n]) \in Nat
      /\ \A i \in DOMAIN dialed[n] : dialed[n][i] \in Node
  BY DEF CoinTypeOK
<1>2. \A i \in DOMAIN dialed[n] : Block(n, dialed[n][i], b) \in Message
  BY <1>1, NewMessages
<1>3. Broadcast(n, b) \in [1..Len(dialed[n]) -> Message]
  BY <1>1, <1>2 DEF Broadcast
<1>4. Broadcast(n, b) \in Seq(Message)
  BY <1>1, <1>3
<1>5. Range(Broadcast(n, b)) = {Block(n, dialed[n][i], b) : i \in DOMAIN dialed[n]}
  BY DEF Range, Broadcast
<1>6. \A i \in DOMAIN dialed[n] : /\ Block(n, dialed[n][i], b).type = "block"
                                 /\ Block(n, dialed[n][i], b).from = n
                                 /\ Block(n, dialed[n][i], b).block = b
  BY DEF Block
<1>7. \A p \in Range(dialed[n]) : \E i \in DOMAIN dialed[n] : p = dialed[n][i]
  BY DEF Range
<1> QED  BY <1>4, <1>5, <1>6, <1>7

\* A message is handled and the blocks stay what they are.
LEMMA ChainsKept ==
  ASSUME CoinTypeOK, NEW h, ChainsOK(h), UNCHANGED made, work # <<>>,
         NEW s \in Seq(Message), work' = s \o Tail(work),
         \A n \in Node : Counted(chain'[n], h),
         \A x \in Range(s) : /\ x.type = "chain" => Counted(x.chain, h)
                             /\ x.type = "block" => x.block \in 1..Len(made)
  PROVE  ChainsOK(h)' /\ work' \in Seq(Message)
<1>1. work' \in Seq(Message) /\ \A x \in Range(work') : x \in Range(s) \/ x \in Range(work)
  BY Stacked DEF CoinTypeOK
<1>2. \A x \in Range(work') : /\ x.type = "chain" => Counted(x.chain, h)
                              /\ x.type = "block" => x.block \in 1..Len(made)
  BY <1>1 DEF ChainsOK
<1> QED  BY <1>1, <1>2 DEF ChainsOK, Heights, Counted, Verified

LEMMA BlockAdded ==
  ASSUME CoinTypeOK, NEW h, ChainsOK(h), MinedOK, work # <<>>, TakeBlock(Head(work)),
         made[Head(work).block] = Tip(chain[Head(work).to])
  PROVE  CoinTypeOK' /\ ChainsOK(h)' /\ MinedOK'
<1> DEFINE m == Head(work)
           s == Broadcast(m.to, m.block)
           ch == Append(chain[m.to], m.block)
<1>1. m \in Range(work) /\ m \in Message
  BY Stacked DEF CoinTypeOK
<1>2. m.type = "block" /\ m.from \in Node /\ m.to \in Node /\ m.block \in 1..Len(made) /\ m.block \in Nat
  BY <1>1, Messages DEF TakeBlock, ChainsOK
<1>3. /\ s \in Seq(Message)
      /\ \A x \in Range(s) : x.type = "block" /\ x.from = m.to /\ x.block = m.block
  <2>1. PICK n \in Node, b \in Nat : n = m.to /\ b = m.block
    BY <1>2
  <2>2. /\ Broadcast(n, b) \in Seq(Message)
        /\ \A x \in Range(Broadcast(n, b)) : x.type = "block" /\ x.from = n /\ x.block = b
    BY BroadcastType
  <2>3. s = Broadcast(n, b)
    BY <2>1
  <2> HIDE DEF s, m
  <2> QED  BY <2>1, <2>2, <2>3
<1>4. /\ work' = s \o Tail(work) /\ chain' = [chain EXCEPT ![m.to] = ch]
      /\ UNCHANGED <<made, dialed, miner>>
  BY DEF TakeBlock
<1>5. Heights(h) /\ chain[m.to] \in Seq(Nat) /\ Counted(chain[m.to], h) /\ made \in Seq(Nat)
  BY <1>2 DEF ChainsOK, CoinTypeOK
<1>6. /\ Counted(ch, h) /\ ch \in Seq(Nat) /\ h[m.block] = Len(chain[m.to]) + 1
      /\ Len(ch) = Len(chain[m.to]) + 1
  BY <1>2, <1>5, CountedAppend
<1>7. h[Tip(chain[m.to])] = Len(chain[m.to])
  BY <1>5, TipHeight
<1>8. made[m.block] = Tip(chain[m.to])
  OBVIOUS
<1> HIDE DEF s, ch, m
<1>9. \A n \in Node : chain'[n] = IF n = m.to THEN ch ELSE chain[n]
  BY <1>2, <1>4 DEF CoinTypeOK
<1>10. \A n \in Node : Counted(chain'[n], h) /\ chain'[n] \in Seq(Nat)
  BY <1>6, <1>9 DEF ChainsOK, CoinTypeOK
<1>11. ChainsOK(h)' /\ work' \in Seq(Message)
  BY <1>2, <1>3, <1>4, <1>10, ChainsKept
<1>12. CoinTypeOK'
  BY <1>4, <1>6, <1>11 DEF CoinTypeOK
<1>13. ASSUME miner # NoMiner PROVE MinedOK'
  <2>1. /\ m.block = Last(chain[miner]) /\ Proper(m)
    BY <1>1, <1>2, <1>13 DEF MinedOK, Proper
  <2>2. h[m.block] = Len(chain[miner]) /\ made[m.block] # m.block
    BY <1>13, <2>1, MinedHeight
  <2>3. Len(ch) = Len(chain[miner]) /\ Len(ch) \in Nat
    BY <1>6, <2>2
  <2>4. miner # m.to
    BY <1>8, <1>13, <2>1, <2>2 DEF MinedOK, Tip
  <2>5. miner \in Node /\ chain'[miner] = chain[miner]
    BY <1>9, <1>13, <2>4 DEF CoinTypeOK
  <2>6. \A n \in Node : /\ Len(chain[n]) <= Len(chain[miner]) => Len(chain'[n]) <= Len(chain[miner])
                        /\ Len(chain[n]) >= Len(chain[miner]) => Len(chain'[n]) >= Len(chain[miner])
    BY <1>9, <2>3
  <2>7. \A x \in Range(s) : Proper(x)'
    <3>1. Len(chain'[m.to]) <= Len(chain'[miner])
      BY <1>2, <1>9, <2>3, <2>5
    <3>2. m.block = Last(chain'[miner])
      BY <2>1, <2>5
    <3> QED  BY <1>3, <1>4, <3>1, <3>2 DEF Proper
  <2>8. \A p \in Node : Serves(m, p) => Len(chain'[p]) >= Len(chain[miner])
    BY <1>2, <1>9, <2>3 DEF Serves
  <2> QED  BY <1>3, <1>4, <1>13, <2>5, <2>6, <2>7, <2>8, MinedKept DEF m
<1>14. miner = NoMiner => MinedOK'
  BY <1>4 DEF MinedOK
<1> QED  BY <1>11, <1>12, <1>13, <1>14

LEMMA BlockRefused ==
  ASSUME CoinTypeOK, NEW h, ChainsOK(h), MinedOK, work # <<>>, TakeBlock(Head(work)),
         made[Head(work).block] # Tip(chain[Head(work).to])
  PROVE  CoinTypeOK' /\ ChainsOK(h)' /\ MinedOK'
<1> DEFINE m == Head(work)
           s == <<Request(m.to, m.from)>>
<1>1. m \in Range(work) /\ m \in Message
  BY Stacked DEF CoinTypeOK
<1>2. m.type = "block" /\ m.from \in Node /\ m.to \in Node
  BY <1>1, Messages DEF TakeBlock
<1>3. s \in Seq(Message) /\ Range(s) = {Request(m.to, m.from)}
  <2>1. Request(m.to, m.from) \in Message
    BY <1>2, NewMessages
  <2> QED  BY <2>1 DEF Range
<1>4. work' = s \o Tail(work) /\ UNCHANGED <<chain, made, dialed, miner>>
  BY DEF TakeBlock, Refused
<1>5. \A x \in Range(s) : x.type = "request_chain" /\ x.from = m.to /\ x.to = m.from
  BY <1>3 DEF Request
<1> HIDE DEF s, m
<1>6. ChainsOK(h)' /\ work' \in Seq(Message)
  BY <1>3, <1>4, <1>5, ChainsKept DEF ChainsOK
<1>7. CoinTypeOK'
  BY <1>4, <1>6 DEF CoinTypeOK
<1>8. ASSUME miner # NoMiner PROVE MinedOK'
  <2>1. Len(chain[m.from]) <= Len(chain[miner])
    BY <1>1, <1>2, <1>8 DEF MinedOK, Proper
  <2>2. \A x \in Range(s) : Proper(x)'
    BY <1>4, <1>5, <2>1 DEF Proper
  <2>3. \A p \in Node : Serves(m, p) => \E x \in Range(s) : Serves(x, p)'
    BY <1>2, <1>3, <1>4, <1>5 DEF Serves
  <2> QED  BY <1>3, <1>4, <1>8, <2>2, <2>3, MinedKept DEF m
<1>9. miner = NoMiner => MinedOK'
  BY <1>4 DEF MinedOK
<1> QED  BY <1>6, <1>7, <1>8, <1>9

LEMMA RequestStep ==
  ASSUME CoinTypeOK, NEW h, ChainsOK(h), MinedOK, work # <<>>, TakeRequest(Head(work))
  PROVE  CoinTypeOK' /\ ChainsOK(h)' /\ MinedOK'
<1> DEFINE m == Head(work)
           s == <<Answer(m.to, m.from, chain[m.to])>>
<1>1. m \in Range(work) /\ m \in Message
  BY Stacked DEF CoinTypeOK
<1>2. m.type = "request_chain" /\ m.from \in Node /\ m.to \in Node /\ chain[m.to] \in Seq(Nat)
  BY <1>1, Messages DEF TakeRequest, CoinTypeOK
<1>3. s \in Seq(Message) /\ Range(s) = {Answer(m.to, m.from, chain[m.to])}
  <2>1. Answer(m.to, m.from, chain[m.to]) \in Message
    BY <1>2, NewMessages
  <2> QED  BY <2>1 DEF Range
<1>4. work' = s \o Tail(work) /\ UNCHANGED <<chain, made, dialed, miner>>
  BY DEF TakeRequest
<1>5. \A x \in Range(s) : x.type = "chain" /\ x.from = m.to /\ x.to = m.from /\ x.chain = chain[m.to]
  BY <1>3 DEF Answer
<1> HIDE DEF s, m
<1>6. ChainsOK(h)' /\ work' \in Seq(Message)
  BY <1>2, <1>3, <1>4, <1>5, ChainsKept DEF ChainsOK
<1>7. CoinTypeOK'
  BY <1>4, <1>6 DEF CoinTypeOK
<1>8. ASSUME miner # NoMiner PROVE MinedOK'
  <2>1. Len(chain[m.to]) <= Len(chain[miner])
    BY <1>1, <1>2, <1>8 DEF MinedOK, Proper
  <2>2. \A x \in Range(s) : Proper(x)'
    BY <1>4, <1>5, <2>1 DEF Proper
  <2>3. \A p \in Node : Serves(m, p) => \E x \in Range(s) : Serves(x, p)'
    BY <1>2, <1>3, <1>4, <1>5 DEF Serves
  <2> QED  BY <1>3, <1>4, <1>8, <2>2, <2>3, MinedKept DEF m
<1>9. miner = NoMiner => MinedOK'
  BY <1>4 DEF MinedOK
<1> QED  BY <1>6, <1>7, <1>8, <1>9

LEMMA ChainStep ==
  ASSUME CoinTypeOK, NEW h, ChainsOK(h), MinedOK, work # <<>>, TakeChain(Head(work))
  PROVE  CoinTypeOK' /\ ChainsOK(h)' /\ MinedOK'
<1> DEFINE m == Head(work)
<1>1. m \in Range(work) /\ m \in Message
  BY Stacked DEF CoinTypeOK
<1>2. /\ m.type = "chain" /\ m.from \in Node /\ m.to \in Node /\ m.chain \in Seq(Nat)
      /\ Counted(m.chain, h)
  BY <1>1, Messages DEF TakeChain, ChainsOK
<1>3. /\ work' = Tail(work) /\ UNCHANGED <<made, dialed, miner>>
      /\ IF Len(m.chain) > Len(chain[m.to]) THEN chain' = [chain EXCEPT ![m.to] = m.chain]
                                            ELSE UNCHANGED chain
  <2>1. Tail(work) = <<>> \o Tail(work)
    BY ConcatEmptySeq, Stacked DEF CoinTypeOK
  <2> QED  BY <1>2, <2>1 DEF TakeChain, Longer, Declined, Counted
<1>4. work' = <<>> \o Tail(work) /\ <<>> \in Seq(Message) /\ Range(<<>>) = {}
  <2>1. Tail(work) = <<>> \o Tail(work)
    BY ConcatEmptySeq, Stacked DEF CoinTypeOK
  <2> QED  BY <1>3, <2>1, EmptySeq DEF Range
<1> HIDE DEF m
<1>5. \A n \in Node : chain'[n] = IF n = m.to /\ Len(m.chain) > Len(chain[n]) THEN m.chain ELSE chain[n]
  BY <1>2, <1>3 DEF CoinTypeOK
<1>6. ChainsOK(h)' /\ work' \in Seq(Message)
  <2>1. \A n \in Node : Counted(chain'[n], h)
    BY <1>2, <1>5 DEF ChainsOK
  <2> QED  BY <1>3, <1>4, <2>1, ChainsKept
<1>7. CoinTypeOK'
  BY <1>2, <1>3, <1>6 DEF CoinTypeOK
<1>8. ASSUME miner # NoMiner PROVE MinedOK'
  <2>1. Len(m.chain) <= Len(chain[miner]) /\ miner \in Node
    BY <1>1, <1>2, <1>8 DEF MinedOK, Proper, CoinTypeOK
  <2>2. \A n \in Node : Len(chain[n]) \in Nat
    BY DEF CoinTypeOK
  <2>3. Len(m.chain) \in Nat
    BY <1>2
  <2>4. chain'[miner] = chain[miner]
    BY <1>5, <2>1, <2>2, <2>3
  <2>5. \A n \in Node : /\ Len(chain[n]) <= Len(chain[miner]) => Len(chain'[n]) <= Len(chain[miner])
                        /\ Len(chain[n]) >= Len(chain[miner]) => Len(chain'[n]) >= Len(chain[miner])
    BY <1>5, <2>1, <2>2, <2>3
  <2>6. \A p \in Node : Serves(m, p) => Len(chain'[p]) >= Len(chain[miner])
    BY <1>2, <1>5, <2>1, <2>2, <2>3 DEF Serves
  <2> QED  BY <1>3, <1>4, <1>8, <2>4, <2>5, <2>6, MinedKept DEF m
<1>9. miner = NoMiner => MinedOK'
  BY <1>3 DEF MinedOK
<1> QED  BY <1>6, <1>7, <1>8, <1>9

LEMMA ConnectStep ==
  ASSUME CoinTypeOK, NEW h, ChainsOK(h), MinedOK, NEW n \in Node, ConnectPeers(n)
  PROVE  CoinTypeOK' /\ ChainsOK(h)' /\ MinedOK'
<1> DEFINE d(i) == [type |-> "dial", from |-> n, to |-> Peers[n][i]]
<1>1. /\ UNCHANGED <<chain, made, dialed>> /\ miner' = NoMiner
      /\ work' = [i \in DOMAIN Peers[n] |-> d(i)]
  BY DEF ConnectPeers
<1>2. Peers[n] \in Seq(Node) /\ DOMAIN Peers[n] = 1..Len(Peers[n]) /\ Len(Peers[n]) \in Nat
      /\ \A i \in DOMAIN Peers[n] : Peers[n][i] \in Node
  BY CoinAssumption
<1>3. \A i \in DOMAIN Peers[n] : d(i) \in Message /\ d(i).type = "dial"
  BY <1>2, NewMessages
<1> HIDE DEF d
<1>4. work' \in [1..Len(Peers[n]) -> Message]
  BY <1>1, <1>2, <1>3
<1>5. work' \in Seq(Message)
  BY <1>2, <1>4
<1>6. \A x \in Range(work') : x.type = "dial"
  BY <1>1, <1>3 DEF Range
<1>7. CoinTypeOK' /\ MinedOK'
  BY <1>1, <1>5 DEF CoinTypeOK, MinedOK
<1> QED  BY <1>1, <1>6, <1>7 DEF ChainsOK, Heights, Counted, Verified

\* A block is mined: the chains that are there count as before.
LEMMA CountedKept ==
  ASSUME made \in Seq(Nat), NEW h, NEW g, NEW t \in Nat, made' = Append(made, t),
         \A b \in 0..Len(made) : g[b] = h[b], NEW ch \in Seq(Nat), Counted(ch, h)
  PROVE  Counted(ch, g)'
<1>1. /\ Len(made') = Len(made) + 1 /\ Len(made) \in Nat
      /\ \A b \in 1..Len(made) : made'[b] = made[b]
  BY AppendProperties
<1>2. DOMAIN ch = 1..Len(ch)
  OBVIOUS
<1>3. \A i \in 1..Len(ch) : /\ made[ch[i]] = (IF i = 1 THEN 0 ELSE ch[i - 1])
                            /\ ch[i] \in 1..Len(made) /\ h[ch[i]] = i
  BY <1>2 DEF Counted, Verified
<1>4. \A i \in 1..Len(ch) : /\ made'[ch[i]] = (IF i = 1 THEN 0 ELSE ch[i - 1])
                            /\ ch[i] \in 1..Len(made') /\ g[ch[i]] = i
  <2>1. \A b \in 1..Len(made) : b \in 0..Len(made) /\ b \in 1..Len(made')
    BY <1>1
  <2> HIDE <1>2
  <2> QED  BY <1>1, <1>3, <2>1
<1> QED  BY <1>2, <1>4 DEF Counted, Verified

\* The distance of the new block.
LEMMA NewHeight ==
  ASSUME made \in Seq(Nat), NEW h, Heights(h), NEW b, b = Len(made) + 1,
         NEW t \in 0..Len(made), made' = Append(made, t)
  PROVE  \E g : Heights(g)' /\ g[b] = h[t] + 1 /\ \A x \in 0..Len(made) : g[x] = h[x]
<1>1. Len(made) \in Nat /\ b \in Nat
  BY LenProperties
<1>2. /\ Len(made') = b /\ made'[b] = t
      /\ \A x \in 1..Len(made) : made'[x] = made[x]
  BY <1>1, AppendProperties
<1>3. h \in [0..Len(made) -> Nat] /\ h[0] = 0
      /\ \A x \in 1..Len(made) : made[x] \in 0..Len(made) /\ h[x] = h[made[x]] + 1
  BY DEF Heights
<1> PICK g : g = [x \in 0..b |-> IF x = b THEN h[t] + 1 ELSE h[x]]
  OBVIOUS
<1>4. g \in [0..b -> Nat] /\ g[0] = 0 /\ g[b] = h[t] + 1 /\ \A x \in 0..Len(made) : g[x] = h[x]
  BY <1>1, <1>3
<1>5. ASSUME NEW x \in 1..b PROVE made'[x] \in 0..b /\ g[x] = g[made'[x]] + 1
  <2>1. CASE x = b
    BY <1>1, <1>2, <1>4, <2>1
  <2>2. CASE x \in 1..Len(made)
    <3>1. made'[x] = made[x] /\ made[x] \in 0..Len(made) /\ h[x] = h[made[x]] + 1
      BY <1>2, <1>3, <2>2
    <3>2. g[x] = h[x] /\ g[made[x]] = h[made[x]]
      BY <1>4, <2>2, <3>1
    <3> QED  BY <1>1, <3>1, <3>2
  <2> QED  BY <1>1, <2>1, <2>2
<1>6. Heights(g)'
  BY <1>2, <1>4, <1>5 DEF Heights
<1> QED  BY <1>4, <1>6

LEMMA MineStep ==
  ASSUME CoinTypeOK, NEW h, ChainsOK(h), MinedOK, NEW n \in Node, Mine(n)
  PROVE  CoinTypeOK' /\ (\E g : ChainsOK(g)') /\ MinedOK'
<1>1. /\ chain[n] \in Seq(Nat) /\ Counted(chain[n], h) /\ Heights(h)
      /\ made \in Seq(Nat) /\ Len(made) \in Nat
  BY LenProperties DEF CoinTypeOK, ChainsOK
<1>2. Tip(chain[n]) \in 0..Len(made) /\ h[Tip(chain[n])] = Len(chain[n])
  BY <1>1, TipHeight
<1> PICK c \in Seq(Nat) : c = chain[n]
  BY <1>1
<1> PICK b \in Nat : b = Len(made) + 1
  BY <1>1
<1> PICK t \in 0..Len(made) : t = Tip(c)
  BY <1>2
<1> PICK a : a = Append(c, b)
  OBVIOUS
<1>3. /\ work = <<>> /\ made' = Append(made, t) /\ chain' = [chain EXCEPT ![n] = a]
      /\ work' = Broadcast(n, b) /\ miner' = n /\ UNCHANGED dialed
  BY DEF Mine
<1>4. made' \in Seq(Nat) /\ Len(made') = b /\ made'[b] = t
  BY <1>1, <1>3, AppendProperties
<1> PICK k : Heights(k)' /\ k[b] = h[t] + 1 /\ \A x \in 0..Len(made) : k[x] = h[x]
  BY <1>1, <1>3, NewHeight
<1>5. \A p \in Node : Counted(chain[p], h) /\ chain[p] \in Seq(Nat)
  BY DEF ChainsOK, CoinTypeOK
<1>6. ASSUME NEW d \in Seq(Nat), Counted(d, h) PROVE Counted(d, k)'
  <2>1. t \in Nat
    BY <1>1
  <2> QED  BY <1>1, <1>3, <1>6, <2>1, CountedKept
<1>7. /\ a \in Seq(Nat) /\ Len(a) = Len(c) + 1 /\ a # <<>> /\ Last(a) = b
      /\ Counted(a, k)'
  <2>1. Linked(c, made', k, b)
    <3>1. Counted(c, k)' /\ DOMAIN c = 1..Len(c)
      BY <1>1, <1>6
    <3> QED  BY <1>4, <3>1 DEF Counted, Verified, Linked
  <2>2. b \in 1..b /\ made'[b] = Tip(c) /\ k[b] = Len(c) + 1
    BY <1>1, <1>2, <1>4
  <2> PICK prev : prev = made'
    OBVIOUS
  <2>3. /\ a \in Seq(Nat) /\ Len(a) = Len(c) + 1 /\ a # <<>> /\ Last(a) = b
        /\ Linked(a, prev, k, b)
    BY <2>1, <2>2, Appended
  <2>4. DOMAIN a = 1..Len(c) + 1
    BY <2>3
  <2>5. Counted(a, k)'
    BY <1>4, <2>3, <2>4 DEF Counted, Verified, Linked
  <2> QED  BY <2>3, <2>5
<1>8. \A p \in Node : chain'[p] = IF p = n THEN a ELSE chain[p]
  BY <1>3 DEF CoinTypeOK
<1>9. /\ Broadcast(n, b) \in Seq(Message)
      /\ \A x \in Range(Broadcast(n, b)) : x.type = "block" /\ x.from = n /\ x.block = b
      /\ \A p \in Range(dialed[n]) : Block(n, p, b) \in Range(Broadcast(n, b))
  BY BroadcastType
<1>10. ASSUME NEW p \in Node PROVE Counted(chain[p], k)'
  <2> PICK d : d = chain'[p]
    OBVIOUS
  <2>1. Counted(d, k)'
    BY <1>5, <1>6, <1>7, <1>8
  <2> QED  BY <2>1 DEF Counted, Verified
<1> PICK w \in Seq(Message) : w = Broadcast(n, b)
  BY <1>9
<1>11. ChainsOK(k)'
  <2>1. b \in 1..Len(made')
    BY <1>1, <1>4
  <2>2. \A x \in Range(work') : x.type = "block" /\ x.block \in 1..Len(made')
    BY <1>3, <1>9, <2>1
  <2> QED  BY <1>10, <2>2 DEF ChainsOK
<1>12. CoinTypeOK'
  BY <1>3, <1>4, <1>7, <1>9 DEF CoinTypeOK
<1>13. MinedOK'
  <2>1. /\ miner' = n /\ chain'[n] = a /\ a # <<>> /\ Last(a) = b /\ Len(a) \in Nat /\ dialed' = dialed
        /\ work' = w
    <3>1. Len(a) \in Nat
      BY <1>7
    <3> QED  BY <1>3, <1>7, <1>8, <3>1
  <2>2. \A x \in Range(w) : x.type = "block" /\ x.from = n /\ x.block = b
    BY <1>9
  <2>3. \A x \in Range(w) : Proper(x)'
    BY <2>1, <2>2 DEF Proper
  <2>4. ASSUME NEW p \in Range(dialed[n]) PROVE \E x \in Range(w) : Serves(x, p)'
    <3>1. Block(n, p, b) \in Range(w) /\ Block(n, p, b).type = "block"
          /\ Block(n, p, b).from = n /\ Block(n, p, b).to = p
      BY <1>9 DEF Block
    <3> QED  BY <2>1, <3>1 DEF Serves
  <2> QED  BY <2>1, <2>3, <2>4 DEF MinedOK
<1> QED  BY <1>11, <1>12, <1>13

LEMMA CoinStep == CoinInv /\ [CoinNext]_coinVars => CoinInv'
<1> SUFFICES ASSUME CoinInv, [CoinNext]_coinVars PROVE CoinInv'
  OBVIOUS
<1> PICK h : ChainsOK(h)
  BY DEF CoinInv
<1>1. CoinTypeOK /\ MinedOK
  BY DEF CoinInv
<1>2. CASE Handle
  <2>1. work # <<>>
    BY <1>2 DEF Handle
  <2>2. \/ Dial(Head(work)) \/ TakeBlock(Head(work))
        \/ TakeRequest(Head(work)) \/ TakeChain(Head(work))
    BY <1>2 DEF Handle
  <2>3. CoinTypeOK' /\ ChainsOK(h)' /\ MinedOK'
    BY <1>1, <2>1, <2>2, DialStep, BlockAdded, BlockRefused, RequestStep, ChainStep
  <2> QED  BY <2>3 DEF CoinInv
<1>3. ASSUME NEW n \in Node, ConnectPeers(n) PROVE CoinInv'
  BY <1>1, <1>3, ConnectStep DEF CoinInv
<1>4. ASSUME NEW n \in Node, Mine(n) PROVE CoinInv'
  BY <1>1, <1>4, MineStep DEF CoinInv
<1>5. CASE UNCHANGED coinVars
  <2>1. ChainsOK(h)'
    BY <1>5 DEF coinVars, ChainsOK, Heights, Counted, Verified
  <2>2. CoinTypeOK' /\ MinedOK'
    BY <1>1, <1>5 DEF coinVars, CoinTypeOK, MinedOK, Proper, Serves
  <2> QED  BY <2>1, <2>2 DEF CoinInv
<1> QED  BY <1>2, <1>3, <1>4, <1>5 DEF CoinNext

\* When all is done that a mined block causes, every peer that the miner has
\* dialed has a chain as long as the miner's, around whatever circles the peers
\* stand in and whatever forks there were; and no node has a forged chain.
THEOREM PeersReachTheMiner == CoinSpec => []PeersCatchUp
<1>1. CoinInit => CoinInv
  <2> SUFFICES ASSUME CoinInit PROVE CoinInv
    OBVIOUS
  <2>1. /\ chain = [n \in Node |-> <<>>] /\ made = <<>> /\ dialed = [n \in Node |-> <<>>]
        /\ work = <<>> /\ miner = NoMiner /\ Len(<<>>) = 0 /\ DOMAIN <<>> = {} /\ 1..0 = {}
    BY DEF CoinInit
  <2>2. CoinTypeOK
    BY <2>1, EmptySeq DEF CoinTypeOK
  <2>3. ChainsOK([b \in 0..0 |-> 0])
    BY <2>1 DEF ChainsOK, Heights, Counted, Verified, Range
  <2>4. MinedOK
    BY <2>1 DEF MinedOK
  <2> QED  BY <2>2, <2>3, <2>4 DEF CoinInv
<1>2. CoinInv => PeersCatchUp
  <2> SUFFICES ASSUME CoinInv PROVE PeersCatchUp
    OBVIOUS
  <2>1. \A n \in Node : Verified(chain[n])
    BY DEF CoinInv, ChainsOK, Counted
  <2>2. work = <<>> => Range(work) = {}
    BY DEF Range
  <2> QED  BY <2>1, <2>2 DEF CoinInv, MinedOK, PeersCatchUp
<1> QED  BY <1>1, <1>2, CoinStep, PTL DEF CoinSpec

-----------------------------------------------------------------------------
(* Pseudo-terminals: terminals, handles and streams *)

\* Terminals are numbered from 0; each has two buffers.
PtysOK ==
  /\ reboots \in Nat
  /\ nextId \in 0 .. MaxPtys
  /\ DOMAIN ptys = 0 .. nextId - 1
  /\ ptys = [id \in DOMAIN ptys |-> ptys[id]]
  /\ \A id \in DOMAIN ptys :
       /\ ptys[id] = [buffer |-> ptys[id].buffer, waiters |-> ptys[id].waiters]
       /\ ptys[id].buffer \in [Side -> Seq(Nat)]

HandlesOK == handles \in [User -> End \cup {Closed}]

\* No byte is lost, doubled or overtaken.
StreamsOK ==
  /\ written \in [End -> Seq(Nat)] /\ taken \in [End -> Seq(Nat)]
  /\ \A e \in End : written[e] = taken[e] \o Buffer(e)

PtyInv == PtysOK /\ HandlesOK /\ StreamsOK

-----------------------------------------------------------------------------
(* Lemmas about sequences *)

LEMMA Associative ==
  ASSUME NEW s \in Seq(Nat), NEW t \in Seq(Nat), NEW u \in Seq(Nat)
  PROVE  (s \o t) \o u = s \o (t \o u)
BY ConcatAssociative

LEMMA ConcatPrefix ==
  ASSUME NEW s \in Seq(Nat), NEW t \in Seq(Nat)
  PROVE  IsPrefix(s, s \o t) /\ (t # <<>> => IsStrictPrefix(s, s \o t))
<1>1. Len(s \o t) = Len(s) + Len(t) /\ Len(s) \in Nat /\ Len(t) \in Nat /\ s \o t \in Seq(Nat)
  BY ConcatProperties, LenProperties
<1>2. SubSeq(s, 1, Len(s)) = s
  BY SubSeqFull
<1>3. SubSeq(s \o t, 1, Len(s)) = s
  <2>1. CASE Len(s) = 0
    BY <1>1, <2>1, SubSeqEmpty, EmptySeq, SMT
  <2>2. CASE Len(s) # 0
    <3>1. SubSeq(s \o t, 1, Len(s)) = SubSeq(s, 1, Len(s))
      BY <1>1, <2>2, SubSeqOfConcat1, SMT
    <3> QED  BY <1>2, <3>1
  <2> QED  BY <2>1, <2>2
<1>4. s \o t = s => t = <<>>
  BY ConcatEqualIffEmpty
<1>5. IsPrefix(s, s \o t)
  <2>1. Len(s) <= Len(s \o t)  BY <1>1
  <2> QED  BY <1>2, <1>3, <2>1, Zenon DEF IsPrefix
<1> QED  BY <1>4, <1>5, Zenon DEF IsStrictPrefix

\* The abstract specification has its own copies of the operators.
LEMMA SamePrefixes ==
  ASSUME NEW s, NEW t
  PROVE  /\ Streams!IsPrefix(s, t) <=> IsPrefix(s, t)
         /\ Streams!IsStrictPrefix(s, t) <=> IsStrictPrefix(s, t)
BY DEF Streams!IsPrefix, Streams!IsStrictPrefix, IsPrefix, IsStrictPrefix

\* A read takes the front of the buffer and leaves the rest.
LEMMA TakenAndRest ==
  ASSUME NEW n \in Nat, NEW b \in Seq(Nat)
  PROVE  /\ Taken(b, n) \in Seq(Nat) /\ Rest(b, n) \in Seq(Nat)
         /\ b = Taken(b, n) \o Rest(b, n)
<1> DEFINE k == Min({n, Len(b)})
<1>1. Len(b) \in Nat /\ \A i \in 1 .. Len(b) : b[i] \in Nat
  BY LenProperties, ElementOfSeq
<1>2. k \in Nat /\ k <= Len(b) /\ k <= n /\ (k = n \/ k = Len(b))
  <2>1. \E x \in {n, Len(b)} : \A y \in {n, Len(b)} : x <= y
    BY <1>1
  <2>2. k \in {n, Len(b)} /\ \A y \in {n, Len(b)} : k <= y
    BY <2>1 DEF Min
  <2> QED  BY <1>1, <2>2
<1>3. Taken(b, n) = SubSeq(b, 1, k)
  BY DEF Taken
<1> HIDE DEF k
<1>4. SubSeq(b, 1, k) \in Seq(Nat)
  BY <1>1, <1>2, SubSeqProperties, SMT
<1>5. SubSeq(b, k + 1, Len(b)) \in Seq(Nat)
  BY <1>1, <1>2, SubSeqProperties, SMT
<1>6. SubSeq(b, 1, k) \o SubSeq(b, k + 1, Len(b)) = SubSeq(b, 1, Len(b))
  <2>1. 1 \in 1 .. Len(b) + 1 /\ k \in 1 - 1 .. Len(b) /\ Len(b) \in k .. Len(b)
    BY <1>1, <1>2
  <2> QED  BY <2>1, ConcatAdjacentSubSeq, Zenon
<1>7. Rest(b, n) = SubSeq(b, k + 1, Len(b))
  <2>1. CASE k = n
    BY <2>1 DEF Rest
  <2>2. CASE k = Len(b)
    <3>1. SubSeq(b, n + 1, Len(b)) = <<>> /\ SubSeq(b, k + 1, Len(b)) = <<>>
      BY <1>1, <1>2, <2>2, SubSeqEmpty, SMT
    <3> QED  BY <3>1 DEF Rest
  <2> QED  BY <1>2, <2>1, <2>2
<1> QED  BY <1>3, <1>4, <1>5, <1>6, <1>7, SubSeqFull

-----------------------------------------------------------------------------
(* Pseudo-terminals: the steps *)

\* A buffer holds numbered bytes.
LEMMA BufferType ==
  ASSUME PtysOK, NEW e \in End
  PROVE  Buffer(e) \in Seq(Nat)
BY DEF PtysOK, Buffer, Exists, End

\* A call has a handler.
LEMMA SomeHandlers ==
  ASSUME PtysOK, NEW u PROVE Handlers(u) \in Nat \ {0}
BY DEF PtysOK, Handlers

\* New terminals have empty buffers, as terminals that are not there.
LEMMA AllocatedOK ==
  ASSUME MaxPtys \in Nat, PtysOK, UNCHANGED reboots, NEW count \in Nat, Allocated(count)
  PROVE  PtysOK' /\ \A e \in End : Buffer(e)' = Buffer(e)
<1>1. /\ DOMAIN ptys' = DOMAIN ptys \cup nextId .. nextId + count - 1
      /\ \A id \in DOMAIN ptys' : ptys'[id] = IF id \in DOMAIN ptys THEN ptys[id] ELSE NewPty
      /\ ptys' = [id \in DOMAIN ptys' |-> ptys'[id]]
      /\ nextId' = nextId + count /\ nextId + count <= MaxPtys
  BY DEF Allocated
<1>2. nextId \in Nat /\ DOMAIN ptys' = 0 .. nextId' - 1 /\ nextId' \in 0 .. MaxPtys
  BY <1>1 DEF PtysOK
<1>3. /\ NewPty = [buffer |-> NewPty.buffer, waiters |-> NewPty.waiters]
      /\ NewPty.buffer \in [Side -> Seq(Nat)] /\ \A s \in Side : NewPty.buffer[s] = <<>>
  BY DEF NewPty
<1>4. PtysOK'
  BY <1>1, <1>2, <1>3 DEF PtysOK
<1>5. ASSUME NEW e \in End PROVE Buffer(e)' = Buffer(e)
  <2>1. e.side \in Side  BY DEF End
  <2> QED  BY <1>1, <1>3, <2>1 DEF Buffer, Exists
<1> QED  BY <1>4, <1>5

\* As many are allocated for a side as it takes.
LEMMA CountOfSide ==
  ASSUME PtysOK, NEW u, NEW e \in End, OpenSide(u, e), ~Exists(e.id)
  PROVE  \E count \in Nat : Allocated(count)
<1> PICK h \in Nat \ {0} : h = Handlers(u)
  BY SomeHandlers
<1>1. e.id \in Nat /\ nextId \in Nat /\ e.id >= nextId
  BY DEF PtysOK, Exists, End, Id
<1> PICK k \in Nat : k = e.id - nextId + 1
  BY <1>1
<1>2. Min({h, k}) \in Nat
  <2>1. \E x \in {h, k} : \A y \in {h, k} : x <= y
    OBVIOUS
  <2>2. Min({h, k}) \in {h, k}
    BY <2>1 DEF Min
  <2> QED  BY <2>2
<1>3. Allocated(Min({h, k}))
  BY DEF OpenSide
<1> QED  BY <1>2, <1>3

\* What opens, closes or allocates changes no stream.
LEMMA StreamsKept ==
  ASSUME PtyInv, PtysOK', HandlesOK', UNCHANGED History, \A e \in End : Buffer(e)' = Buffer(e)
  PROVE  PtyInv' /\ UNCHANGED <<written, taken>>
BY DEF PtyInv, StreamsOK, History

\* A change to one buffer of one terminal.
LEMMA OneBuffer ==
  ASSUME PtysOK, NEW e \in End, Exists(e.id), NEW b \in Seq(Nat), NEW w,
         ptys' = [ptys EXCEPT ![e.id] =
                    [buffer |-> [ptys[e.id].buffer EXCEPT ![e.side] = b], waiters |-> w]],
         UNCHANGED <<nextId, reboots>>
  PROVE  PtysOK' /\ \A f \in End : Buffer(f)' = IF f = e THEN b ELSE Buffer(f)
<1>1. e.id \in DOMAIN ptys /\ e.side \in Side
  BY DEF Exists, End
<1>2. /\ DOMAIN ptys' = DOMAIN ptys
      /\ ptys' = [id \in DOMAIN ptys' |-> ptys'[id]]
      /\ \A id \in DOMAIN ptys : id # e.id => ptys'[id] = ptys[id]
      /\ ptys'[e.id] = [buffer |-> [ptys[e.id].buffer EXCEPT ![e.side] = b], waiters |-> w]
  BY <1>1 DEF PtysOK
<1>3. /\ [ptys[e.id].buffer EXCEPT ![e.side] = b] \in [Side -> Seq(Nat)]
      /\ \A s \in Side : [ptys[e.id].buffer EXCEPT ![e.side] = b][s]
                         = IF s = e.side THEN b ELSE ptys[e.id].buffer[s]
  BY <1>1 DEF PtysOK
<1>4. PtysOK'
  BY <1>1, <1>2, <1>3 DEF PtysOK
<1>5. ASSUME NEW f \in End PROVE Buffer(f)' = IF f = e THEN b ELSE Buffer(f)
  <2>1. f = e <=> f.id = e.id /\ f.side = e.side
    BY DEF End
  <2>2. f.side \in Side  BY DEF End
  <2> QED  BY <1>1, <1>2, <1>3, <2>1, <2>2 DEF Buffer, Exists
<1> QED  BY <1>4, <1>5

LEMMA WriteStep ==
  ASSUME PtyInv, NEW u \in User, Write(u)
  PROVE  /\ PtyInv' /\ \E e \in End : Streams!Put(e)
         /\ \A f \in End :
              IF f.id = handles[u].id /\ f.side = Other(handles[u].side)
              THEN Buffer(f)' # <<>> ELSE Buffer(f)' = Buffer(f)
<1> DEFINE e == [id |-> handles[u].id, side |-> Other(handles[u].side)]
           new == [i \in 1 .. Handlers(u) |-> Sent(e) + i]
<1>1. e \in End /\ Exists(e.id) /\ e.id = handles[u].id /\ e.side = Other(handles[u].side)
  BY DEF Write, PtyInv, HandlesOK, End, Side, Other, Closed
<1>2. new \in Seq(Nat) /\ new # <<>>
  <2>1. Sent(e) \in Nat
    BY <1>1, LenProperties DEF PtyInv, StreamsOK, Sent
  <2> PICK h \in Nat \ {0} : h = Handlers(u)
    BY SomeHandlers DEF PtyInv
  <2>2. new \in [1 .. h -> Nat]
    BY <2>1
  <2>3. new \in Seq(Nat) /\ Len(new) = h
    BY <2>2
  <2> QED  BY <2>3
<1>3. PICK w : ptys' = [ptys EXCEPT ![e.id] =
        [buffer |-> [ptys[e.id].buffer EXCEPT ![e.side] = @ \o new], waiters |-> w]]
  BY <1>1 DEF Write, Changed
<1>4. written' = [written EXCEPT ![e] = @ \o new] /\ UNCHANGED <<nextId, handles, taken, reboots>>
  BY DEF Write
<1> HIDE DEF e, new
<1> DEFINE b == Buffer(e) \o new
<1>5. Buffer(e) \in Seq(Nat) /\ b \in Seq(Nat) /\ b # <<>>
  <2>1. Buffer(e) \in Seq(Nat)
    BY <1>1, BufferType DEF PtyInv
  <2>2. b \in Seq(Nat)
    BY <1>2, <2>1, ConcatProperties, Zenon
  <2>3. Len(b) = Len(Buffer(e)) + Len(new) /\ Len(new) \in Nat /\ Len(Buffer(e)) \in Nat
    BY <1>2, <2>1, ConcatProperties, LenProperties, Zenon
  <2>4. Len(new) # 0
    BY <1>2, EmptySeq
  <2> QED  BY <2>1, <2>2, <2>3, <2>4, EmptySeq
<1>6. ptys' = [ptys EXCEPT ![e.id] = [buffer |-> [ptys[e.id].buffer EXCEPT ![e.side] = b], waiters |-> w]]
  BY <1>1, <1>3 DEF Buffer
<1>7. written[e] \in Seq(Nat) /\ written[e] \o new \in Seq(Nat)
  <2>1. written[e] \in Seq(Nat)
    BY <1>1 DEF PtyInv, StreamsOK
  <2> QED  BY <1>2, <2>1, ConcatProperties, Zenon
<1>8. written[e] \o new = taken[e] \o b
  <2>1. written[e] = taken[e] \o Buffer(e) /\ taken[e] \in Seq(Nat)
    BY <1>1 DEF PtyInv, StreamsOK
  <2>2. (taken[e] \o Buffer(e)) \o new = taken[e] \o (Buffer(e) \o new)
    BY <1>2, <1>5, <2>1, Associative
  <2> QED  BY <2>1, <2>2
<1> HIDE DEF b
<1>9. PtysOK' /\ \A f \in End : Buffer(f)' = IF f = e THEN b ELSE Buffer(f)
  BY <1>1, <1>4, <1>5, <1>6, OneBuffer DEF PtyInv
<1>10. /\ written' \in [End -> Seq(Nat)] /\ written'[e] = written[e] \o new
       /\ \A f \in End : f # e => written'[f] = written[f]
  BY <1>1, <1>4, <1>7 DEF PtyInv, StreamsOK
<1>11. PtyInv'
  BY <1>4, <1>8, <1>9, <1>10 DEF PtyInv, HandlesOK, StreamsOK
<1>12. Streams!Put(e)
  <2>1. IsStrictPrefix(written[e], written[e] \o new)
    BY <1>2, <1>7, ConcatPrefix
  <2>2. IsStrictPrefix(written[e], written'[e])  BY <1>10, <2>1
  <2> QED  BY <1>4, <1>10, <2>2, SamePrefixes DEF Streams!Put
<1>13. ASSUME NEW f \in End
       PROVE  f.id = handles[u].id /\ f.side = Other(handles[u].side) <=> f = e
  BY DEF End, e
<1> QED  BY <1>1, <1>5, <1>9, <1>11, <1>12, <1>13

LEMMA ReadStep ==
  ASSUME Length \in Nat, PtyInv, NEW u \in User, ReadBytes(u)
  PROVE  /\ PtyInv' /\ ((\E e \in End : Streams!Take(e)) \/ UNCHANGED <<written, taken>>)
         /\ \A f \in End \ {handles[u]} : Buffer(f)' = Buffer(f)
<1> PICK n \in Nat : n = Handlers(u) * Length
  <2>1. Handlers(u) \in Nat
    BY SomeHandlers DEF PtyInv
  <2> QED  BY <2>1
<1> DEFINE e == handles[u]
           t == Taken(Buffer(e), n)
           b == Rest(Buffer(e), n)
<1>1. e \in End /\ UNCHANGED <<nextId, handles, written, reboots>>
  BY DEF ReadBytes, PtyInv, HandlesOK
<1>2. CASE ~Exists(e.id)
  <2>1. UNCHANGED <<ptys, taken>>
    BY <1>2 DEF ReadBytes
  <2> QED  BY <1>1, <2>1 DEF PtyInv, PtysOK, HandlesOK, StreamsOK, Buffer, Exists
<1>3. CASE Exists(e.id)
  <2>1. Buffer(e) \in Seq(Nat)
    BY <1>1, BufferType DEF PtyInv
  <2>2. t \in Seq(Nat) /\ b \in Seq(Nat) /\ Buffer(e) = t \o b
    BY <2>1, TakenAndRest
  <2>3. /\ ptys' = [ptys EXCEPT ![e.id] =
               [buffer |-> [ptys[e.id].buffer EXCEPT ![e.side] = b], waiters |-> ptys[e.id].waiters]]
        /\ taken' = [taken EXCEPT ![e] = @ \o t]
    BY <1>3 DEF ReadBytes, Buffer, Changed
  <2> HIDE DEF t, b, e
  <2>5. PtysOK' /\ \A f \in End : Buffer(f)' = IF f = e THEN b ELSE Buffer(f)
    BY <1>1, <1>3, <2>2, <2>3, OneBuffer DEF PtyInv
  <2>6. taken[e] \in Seq(Nat) /\ taken[e] \o t \in Seq(Nat)
    BY <1>1, <2>2, ConcatProperties DEF PtyInv, StreamsOK
  <2>7. /\ taken' \in [End -> Seq(Nat)] /\ taken'[e] = taken[e] \o t
        /\ \A f \in End : f # e => taken'[f] = taken[f]
    BY <1>1, <2>3, <2>6 DEF PtyInv, StreamsOK
  <2>8. written[e] = taken'[e] \o b
    <3>1. written[e] = taken[e] \o (t \o b)
      BY <1>1, <2>2 DEF PtyInv, StreamsOK
    <3>2. (taken[e] \o t) \o b = taken[e] \o (t \o b)
      BY <2>2, <2>6, Associative
    <3> QED  BY <2>7, <3>1, <3>2
  <2>9. PtyInv'
    BY <1>1, <2>5, <2>7, <2>8 DEF PtyInv, HandlesOK, StreamsOK
  <2>10. \A f \in End \ {handles[u]} : Buffer(f)' = Buffer(f)
    BY <2>5 DEF e
  <2>11. CASE t = <<>>
    <3>1. taken'[e] = taken[e]
      BY <2>6, <2>7, <2>11, ConcatEmptySeq
    <3>2. UNCHANGED taken
      BY <2>7, <3>1 DEF PtyInv, StreamsOK
    <3> QED  BY <1>1, <2>9, <2>10, <3>2
  <2>12. CASE t # <<>>
    <3>1. IsStrictPrefix(taken[e], taken'[e])
      BY <2>2, <2>6, <2>7, <2>12, ConcatPrefix
    <3>2. IsPrefix(taken'[e], written[e])
      BY <2>2, <2>6, <2>7, <2>8, ConcatPrefix
    <3>3. Streams!Take(e)
      BY <1>1, <2>7, <3>1, <3>2, SamePrefixes DEF Streams!Take
    <3> QED  BY <1>1, <2>9, <2>10, <3>3
  <2> QED  BY <2>11, <2>12
<1> QED  BY <1>2, <1>3

LEMMA WaitStep ==
  ASSUME PtyInv, NEW u \in User, Wait(u)
  PROVE  /\ PtyInv' /\ UNCHANGED <<written, taken>>
         /\ \A f \in End : Buffer(f)' = Buffer(f)
<1> DEFINE e == handles[u]
<1>1. UNCHANGED <<handles, nextId, reboots>> /\ UNCHANGED History
  BY DEF Wait, History
<1>2. CASE Buffer(e) # <<>>
  BY <1>1, <1>2 DEF Wait, PtyInv, PtysOK, HandlesOK, StreamsOK, Buffer, Exists, History
<1>3. CASE Buffer(e) = <<>>
  <2>1. e \in End /\ Exists(e.id)
    BY DEF Wait, PtyInv, HandlesOK, PtysOK, Exists, Closed
  <2>2. PICK w : ptys' = [ptys EXCEPT ![e.id] = [buffer |-> ptys[e.id].buffer, waiters |-> w]]
    BY <1>3 DEF Wait, Changed
  <2>3. /\ DOMAIN ptys' = DOMAIN ptys
        /\ ptys' = [id \in DOMAIN ptys' |-> ptys'[id]]
        /\ \A id \in DOMAIN ptys :
             /\ ptys'[id] = [buffer |-> ptys'[id].buffer, waiters |-> ptys'[id].waiters]
             /\ ptys'[id].buffer = ptys[id].buffer
    BY <2>1, <2>2 DEF PtyInv, PtysOK, Exists
  <2>4. PtysOK' /\ \A f \in End : Buffer(f)' = Buffer(f)
    BY <1>1, <2>3 DEF PtyInv, PtysOK, Buffer, Exists
  <2> QED  BY <1>1, <2>4, StreamsKept DEF PtyInv, HandlesOK
<1> QED  BY <1>2, <1>3

LEMMA RebootStep ==
  ASSUME MaxPtys \in Nat, PtyInv, Reboot PROVE PtyInv' /\ Streams!Lose
<1>1. PtysOK' /\ \A e \in End : Buffer(e)' = <<>>
  <2>1. ptys' = <<>> /\ DOMAIN ptys' = {} /\ nextId' = 0 /\ reboots' = reboots + 1
    BY DEF Reboot
  <2>2. ptys' = [id \in DOMAIN ptys' |-> ptys'[id]]
    BY <2>1
  <2>3. reboots' \in Nat /\ nextId' \in 0 .. MaxPtys /\ DOMAIN ptys' = 0 .. nextId' - 1
    BY <2>1 DEF PtyInv, PtysOK
  <2> QED  BY <2>1, <2>2, <2>3 DEF PtysOK, Buffer, Exists
<1>2. HandlesOK'
  BY DEF Reboot, PtyInv, HandlesOK
<1>3. \A e \in End : written'[e] = <<>> /\ taken'[e] = <<>>
  BY DEF Reboot
<1>4. <<>> \o <<>> = <<>> /\ <<>> \in Seq(Nat)
  BY ConcatEmptySeq, EmptySeq
<1>5. StreamsOK'
  BY <1>1, <1>3, <1>4 DEF Reboot, StreamsOK
<1> QED  BY <1>1, <1>2, <1>5 DEF PtyInv, Reboot, Streams!Lose

LEMMA PtyStep ==
  ASSUME Length \in Nat, MaxPtys \in Nat, PtyInv, [Next]_vars
  PROVE  PtyInv' /\ [Streams!Next]_<<written, taken>>
<1>1. ASSUME NEW count \in Nat, Allocated(count), HandlesOK', UNCHANGED History
      PROVE PtyInv' /\ UNCHANGED <<written, taken>>
  BY <1>1, AllocatedOK, StreamsKept DEF PtyInv, History
<1>2. ASSUME UNCHANGED <<ptys, nextId>>, HandlesOK', UNCHANGED History
      PROVE PtyInv' /\ UNCHANGED <<written, taken>>
  BY <1>2, StreamsKept DEF PtyInv, PtysOK, Buffer, Exists, History
<1>3. CASE Allocate
  <2>1. PICK count \in {1, reboots + 1} : Allocated(count)
    BY <1>3 DEF Allocate
  <2>2. count \in Nat
    BY DEF PtyInv, PtysOK
  <2> QED  BY <1>1, <1>3, <2>1, <2>2 DEF Allocate, PtyInv, HandlesOK
<1>4. ASSUME NEW u \in User, OpenMaster(u) PROVE PtyInv' /\ UNCHANGED <<written, taken>>
  <2> PICK count \in Nat \ {0} : count = Handlers(u)
    BY SomeHandlers DEF PtyInv
  <2>1. [id |-> nextId, side |-> "master"] \in End
    BY <1>4 DEF OpenMaster, Allocated, PtyInv, PtysOK, End, Id, Side
  <2>2. HandlesOK'
    BY <1>4, <2>1 DEF OpenMaster, PtyInv, HandlesOK
  <2> QED  BY <1>1, <1>4, <2>2 DEF OpenMaster
<1>5. ASSUME NEW u \in User, NEW e \in End, OpenSide(u, e) PROVE PtyInv' /\ UNCHANGED <<written, taken>>
  <2>1. HandlesOK'
    BY <1>5 DEF OpenSide, PtyInv, HandlesOK
  <2>2. CASE Exists(e.id)
    BY <1>2, <1>5, <2>1, <2>2 DEF OpenSide
  <2>3. CASE ~Exists(e.id)
    <3>1. PICK count \in Nat : Allocated(count)
      BY <1>5, <2>3, CountOfSide DEF PtyInv
    <3> QED  BY <1>1, <1>5, <2>1, <3>1 DEF OpenSide
  <2> QED  BY <2>2, <2>3
<1>6. ASSUME NEW u \in User, Close(u) \/ Kill(u) PROVE PtyInv' /\ UNCHANGED <<written, taken>>
  <2>1. HandlesOK'
    BY <1>6 DEF Close, Kill, PtyInv, HandlesOK
  <2> QED  BY <1>2, <1>6, <2>1 DEF Close, Kill
<1>7. CASE UNCHANGED vars
  BY <1>2, <1>7 DEF vars, History, PtyInv, HandlesOK
<1> QED  BY <1>3, <1>4, <1>5, <1>6, <1>7, WriteStep, ReadStep, WaitStep, RebootStep
         DEF Next, Streams!Next

-----------------------------------------------------------------------------
(* Pseudo-terminals: who waits *)

\* Who is on the list of a side has that side open and sleeps; only who has a
\* side open waits, or has waited.
WaitersOK ==
  /\ at \in [User -> {"idle", "waiting", "woken", "lost"}]
  /\ \A u \in User : at[u] # "idle" => handles[u] # Closed
  /\ \A e \in End : Exists(e.id) =>
       /\ ptys[e.id].waiters[e.side] \subseteq User
       /\ \A u \in ptys[e.id].waiters[e.side] : handles[u] = e /\ at[u] = "waiting"

\* The conclusion of EmptyReadsHaveRivals.
Rivals ==
  \A u \in User :
    NothingToRead(u)' /\ ~NothingToRead(u) =>
      /\ at[u] = "woken"
      /\ \E v \in User \ {u} : handles[v] = handles[u]

\* A step that takes nothing from a buffer and lets nobody go on who waits
\* makes no reader find nothing.
LEMMA NoneEmptied ==
  ASSUME PtyInv, WaitersOK, WaitersOK',
         \A e \in End : Buffer(e)' = Buffer(e),
         \A u \in User : at'[u] = "woken" => at[u] = "woken" /\ handles'[u] = handles[u]
  PROVE  Rivals
<1> SUFFICES ASSUME NEW u \in User, NothingToRead(u)', ~NothingToRead(u) PROVE FALSE
  BY DEF Rivals
<1>1. at'[u] = "woken"
  BY DEF NothingToRead
<1>2. PICK e \in End : at[u] = "woken" /\ handles'[u] = e /\ handles[u] = e
  BY <1>1 DEF WaitersOK, PtyInv, HandlesOK
<1> QED  BY <1>2 DEF NothingToRead

LEMMA OpenWaiters ==
  ASSUME MaxPtys \in Nat, PtyInv, WaitersOK, UNCHANGED at,
         UNCHANGED <<ptys, nextId>> \/ \E count \in Nat : Allocated(count), UNCHANGED reboots,
         HandlesOK', \A u \in User : at[u] # "idle" => handles'[u] = handles[u]
  PROVE  WaitersOK' /\ Rivals
<1>1. \A e \in End : Buffer(e)' = Buffer(e)
  BY AllocatedOK DEF PtyInv, Buffer, Exists
<1>2. ASSUME NEW e \in End, Exists(e.id)'
      PROVE  (Exists(e.id) /\ ptys'[e.id] = ptys[e.id]) \/ ptys'[e.id].waiters[e.side] = {}
  <2>1. e.side \in Side
    BY DEF End
  <2>2. CASE UNCHANGED <<ptys, nextId>>
    BY <1>2, <2>2 DEF Exists
  <2>3. ASSUME NEW count \in Nat, Allocated(count)
        PROVE  (Exists(e.id) /\ ptys'[e.id] = ptys[e.id]) \/ ptys'[e.id].waiters[e.side] = {}
    BY <1>2, <2>1, <2>3 DEF Exists, Allocated, NewPty
  <2> QED  BY <2>2, <2>3
<1>3. WaitersOK'
  BY <1>2 DEF WaitersOK
<1> QED  BY <1>1, <1>3, NoneEmptied DEF WaitersOK

LEMMA WriteWaiters ==
  ASSUME PtyInv, WaitersOK, NEW u \in User, Write(u)
  PROVE  WaitersOK' /\ Rivals
<1> DEFINE e == [id |-> handles[u].id, side |-> Other(handles[u].side)]
           woken == ptys[e.id].waiters[e.side]
<1>1. e \in End /\ Exists(e.id) /\ e.id = handles[u].id /\ e.side = Other(handles[u].side)
  BY DEF Write, PtyInv, HandlesOK, End, Side, Other, Closed
<1>2. /\ \E b : ptys' = [ptys EXCEPT ![e.id] = [buffer |-> b, waiters |-> Asleep(ptys[e.id].waiters, woken)]]
      /\ at' = [w \in User |-> IF w \in woken THEN "woken" ELSE at[w]]
      /\ UNCHANGED handles
  BY DEF Write, Changed, Woken
<1>3. \A f \in End : Exists(f.id) =>
        /\ ptys[f.id].waiters[f.side] \subseteq User
        /\ \A w \in ptys[f.id].waiters[f.side] : handles[w] = f /\ at[w] = "waiting"
  BY DEF WaitersOK
<1>4. ASSUME NEW f \in End, Exists(f.id)'
      PROVE  /\ Exists(f.id)
             /\ ptys'[f.id].waiters[f.side] \subseteq ptys[f.id].waiters[f.side] 
             /\ f.id = e.id => ptys'[f.id].waiters[f.side] = ptys[f.id].waiters[f.side] \ woken
             /\ f.id # e.id => ptys'[f.id].waiters[f.side] = ptys[f.id].waiters[f.side]
  <2>1. Exists(f.id)
    BY <1>2, <1>4 DEF Exists
  <2>2. CASE f.id # e.id
    BY <1>2, <2>1, <2>2 DEF Exists
  <2>3. CASE f.id = e.id
    <3>1. ptys'[f.id].waiters = Asleep(ptys[f.id].waiters, woken)
      BY <1>2, <2>1, <2>3 DEF Exists
    <3>2. ptys'[f.id].waiters[f.side] = ptys[f.id].waiters[f.side] \ woken
      BY <3>1 DEF Asleep, End
    <3> QED  BY <2>1, <2>3, <3>2
  <2> QED  BY <2>2, <2>3
<1>5. \A w \in woken : w \in User /\ handles[w] = e
  BY <1>1, <1>3
<1> HIDE DEF woken
<1>6. WaitersOK'
  <2>1. at' \in [User -> {"idle", "waiting", "woken", "lost"}]
    BY <1>2 DEF WaitersOK
  <2>2. \A w \in User : at'[w] # "idle" => handles'[w] # Closed
    <3>1. e # Closed
      BY <1>1 DEF End, Side, Closed
    <3> QED  BY <1>2, <1>5, <3>1 DEF WaitersOK
  <2>3. ASSUME NEW f \in End, Exists(f.id)', NEW w \in ptys'[f.id].waiters[f.side]
        PROVE  w \in User /\ handles'[w] = f /\ at'[w] = "waiting"
    <3>1. w \in ptys[f.id].waiters[f.side] /\ Exists(f.id)
      BY <1>4, <2>3
    <3>2. w \in User /\ handles[w] = f /\ at[w] = "waiting"
      BY <1>3, <3>1
    <3>3. w \notin woken
      BY <1>4, <1>5, <2>3, <3>2
    <3> QED  BY <1>2, <3>2, <3>3
  <2> QED  BY <2>1, <2>2, <2>3 DEF WaitersOK
<1>7. Rivals
  <2> SUFFICES ASSUME NEW w \in User, NothingToRead(w)', ~NothingToRead(w) PROVE FALSE
    BY DEF Rivals
  <2>1. PICK f \in End : handles[w] = f /\ handles'[w] = f /\ at'[w] = "woken"
    BY <1>2, <1>6 DEF NothingToRead, WaitersOK, PtyInv, HandlesOK
  <2>2. Buffer(f)' = <<>>
    BY <2>1 DEF NothingToRead
  <2>3. f = e <=> f.id = handles[u].id /\ f.side = Other(handles[u].side)
    BY DEF End
  <2>4. IF f = e THEN Buffer(f)' # <<>> ELSE Buffer(f)' = Buffer(f)
    BY <2>3, WriteStep
  <2>6. f # e /\ Buffer(f) = <<>>
    BY <2>2, <2>4
  <2>7. at[w] = "woken"
    BY <1>2, <1>5, <2>1, <2>6
  <2> QED  BY <2>1, <2>6, <2>7 DEF NothingToRead
<1> QED  BY <1>6, <1>7

LEMMA ReadWaiters ==
  ASSUME Length \in Nat, PtyInv, WaitersOK, NEW u \in User, ReadBytes(u)
  PROVE  WaitersOK' /\ Rivals
<1>1. handles[u] \in End /\ UNCHANGED handles /\ at' = [at EXCEPT ![u] = "idle"] /\ at[u] # "waiting"
  BY DEF ReadBytes, PtyInv, HandlesOK
<1>2. ASSUME NEW e \in End, Exists(e.id)'
      PROVE  Exists(e.id) /\ ptys'[e.id].waiters = ptys[e.id].waiters
  <2>1. CASE UNCHANGED ptys
    BY <1>2, <2>1 DEF Exists
  <2>2. CASE ~UNCHANGED ptys
    <3>1. PICK b : ptys' = [ptys EXCEPT ![handles[u].id] =
                              [buffer |-> b, waiters |-> ptys[handles[u].id].waiters]]
      BY <2>2 DEF ReadBytes, Changed
    <3> QED  BY <1>2, <3>1 DEF Exists
  <2> QED  BY <2>1, <2>2
<1>3. WaitersOK'
  <2>1. at' \in [User -> {"idle", "waiting", "woken", "lost"}]
        /\ \A w \in User : at'[w] # "idle" => at'[w] = at[w] /\ w # u
    BY <1>1 DEF WaitersOK
  <2> QED  BY <1>1, <1>2, <2>1 DEF WaitersOK
<1>4. Rivals
  <2> SUFFICES ASSUME NEW w \in User, NothingToRead(w)', ~NothingToRead(w)
               PROVE  at[w] = "woken" /\ \E v \in User \ {w} : handles[v] = handles[w]
    BY DEF Rivals
  <2>1. PICK e \in End : handles[w] = e /\ handles'[w] = e /\ w # u /\ at[w] = "woken"
    BY <1>1 DEF NothingToRead, WaitersOK, PtyInv, HandlesOK
  <2>2. Buffer(e)' = <<>> /\ Buffer(e) # <<>>
    BY <2>1 DEF NothingToRead
  <2>3. handles[u] = handles[w]
    BY <2>1, <2>2, ReadStep
  <2> QED  BY <2>1, <2>3
<1> QED  BY <1>3, <1>4

LEMMA WaitWaiters ==
  ASSUME PtyInv, WaitersOK, NEW u \in User, Wait(u)
  PROVE  WaitersOK' /\ Rivals
<1> DEFINE e == handles[u]
<1>1. UNCHANGED handles /\ Exists(e.id) /\ at[u] = "idle" /\ e \in End
  BY DEF Wait, PtyInv, HandlesOK, PtysOK, Exists, Closed
<1>2. CASE Buffer(e) # <<>>
  <2>1. at' = [at EXCEPT ![u] = "woken"] /\ UNCHANGED ptys
    BY <1>2 DEF Wait
  <2>2. WaitersOK'
    <3>1. at' \in [User -> {"idle", "waiting", "woken", "lost"}] /\ \A w \in User \ {u} : at'[w] = at[w]
      BY <2>1 DEF WaitersOK
    <3>2. handles[u] # Closed
      BY <1>1 DEF End, Side, Closed
    <3> QED  BY <1>1, <2>1, <3>1, <3>2 DEF WaitersOK, Exists
  <2>3. Rivals
    BY <1>1, <1>2, <2>1 DEF Rivals, NothingToRead, WaitersOK, Buffer, Exists
  <2> QED  BY <2>2, <2>3
<1>3. CASE Buffer(e) = <<>>
  <2>1. /\ at' = [at EXCEPT ![u] = "waiting"]
        /\ ptys' = [ptys EXCEPT ![e.id] = [buffer |-> ptys[e.id].buffer,
              waiters |-> [ptys[e.id].waiters EXCEPT ![e.side] = @ \cup {u}]]]
    BY <1>3 DEF Wait, Changed
  <2>2. ASSUME NEW f \in End, Exists(f.id)', NEW w \in ptys'[f.id].waiters[f.side]
        PROVE  w \in User /\ handles'[w] = f /\ at'[w] = "waiting"
    <3>1. Exists(f.id)
      BY <2>1, <2>2 DEF Exists
    <3>2. w \in ptys[f.id].waiters[f.side] \/ (w = u /\ f = e)
      <4>1. CASE f.id # e.id
        BY <2>1, <2>2, <3>1, <4>1 DEF Exists
      <4>2. CASE f.id = e.id
        <5>1. ptys'[f.id].waiters = [ptys[e.id].waiters EXCEPT ![e.side] = @ \cup {u}]
          BY <2>1, <3>1, <4>2 DEF Exists
        <5>2. CASE f.side = e.side
          <6>1. f = e
            BY <1>1, <4>2, <5>2 DEF End
          <6> QED  BY <2>2, <5>1, <5>2, <6>1
        <5>3. CASE f.side # e.side
          BY <2>2, <4>2, <5>1, <5>3
        <5> QED  BY <5>2, <5>3
      <4> QED  BY <4>1, <4>2
    <3>3. CASE w = u /\ f = e
      BY <1>1, <2>1, <3>3 DEF WaitersOK
    <3>4. CASE w \in ptys[f.id].waiters[f.side]
      BY <1>1, <2>1, <3>1, <3>4 DEF WaitersOK
    <3> QED  BY <3>2, <3>3, <3>4
  <2>3. WaitersOK'
    <3>1. at' \in [User -> {"idle", "waiting", "woken", "lost"}] /\ \A w \in User \ {u} : at'[w] = at[w]
      BY <2>1 DEF WaitersOK
    <3>2. handles[u] # Closed
      BY <1>1 DEF End, Side, Closed
    <3> QED  BY <1>1, <2>2, <3>1, <3>2 DEF WaitersOK
  <2> QED  BY <1>1, <2>1, <2>3, NoneEmptied, WaitStep DEF WaitersOK
<1> QED  BY <1>2, <1>3

LEMMA WaitersStep ==
  ASSUME Length \in Nat, MaxPtys \in Nat, PtyInv, WaitersOK, [Next]_vars
  PROVE  WaitersOK' /\ Rivals
<1>1. PtyInv'
  BY PtyStep
<1>2. CASE Allocate
  <2>1. \E count \in Nat : Allocated(count)
    BY <1>2 DEF Allocate, PtyInv, PtysOK
  <2> QED  BY <1>1, <1>2, <2>1, OpenWaiters DEF Allocate, PtyInv, History
<1>3. ASSUME NEW u \in User, OpenMaster(u) \/ \E e \in End : OpenSide(u, e)
      PROVE  WaitersOK' /\ Rivals
  <2>1. at[u] = "idle"
    BY <1>3 DEF OpenMaster, OpenSide, CanOpen, WaitersOK
  <2>2. UNCHANGED <<ptys, nextId>> \/ \E count \in Nat : Allocated(count)
    <3>1. CASE OpenMaster(u)
      <4>1. Handlers(u) \in Nat
        BY SomeHandlers DEF PtyInv
      <4> QED  BY <3>1, <4>1 DEF OpenMaster
    <3>2. ASSUME NEW e \in End, OpenSide(u, e)
          PROVE  UNCHANGED <<ptys, nextId>> \/ \E count \in Nat : Allocated(count)
      BY <3>2, CountOfSide DEF OpenSide, PtyInv
    <3> QED  BY <1>3, <3>1, <3>2
  <2> QED  BY <1>1, <1>3, <2>1, <2>2, OpenWaiters DEF OpenMaster, OpenSide, PtyInv, HandlesOK, History
<1>4. ASSUME NEW u \in User, Close(u) \/ Kill(u) PROVE WaitersOK' /\ Rivals
  BY <1>1, <1>4, OpenWaiters DEF Close, Kill, PtyInv, HandlesOK, History
<1>5. CASE Reboot
  <2>1. PICK lost \in SUBSET {u \in Program : at[u] \in {"waiting", "lost"}} :
           /\ at' = [u \in User |-> IF u \in lost THEN "lost" ELSE "idle"]
           /\ handles' = [u \in User |-> IF u \in Program THEN handles[u] ELSE Closed]
           /\ ptys' = <<>>
    BY <1>5 DEF Reboot
  <2>2. Rivals
    BY <2>1 DEF Rivals, NothingToRead
  <2>3. \A u \in User : at'[u] # "idle" => at[u] # "idle" /\ handles'[u] = handles[u]
    BY <2>1
  <2> QED  BY <2>1, <2>2, <2>3 DEF WaitersOK, Exists
<1>6. CASE UNCHANGED vars
  BY <1>1, <1>6, OpenWaiters DEF vars, PtyInv, HandlesOK
<1> QED  BY <1>2, <1>3, <1>4, <1>5, <1>6, WriteWaiters, ReadWaiters, WaitWaiters DEF Next

-----------------------------------------------------------------------------
\* Each direction of a terminal is a stream of bytes, whoever opens, reads,
\* writes or waits, however often the machine starts again, and however many
\* handlers a call has then.
THEOREM PtysAreStreams ==
  ASSUME Length \in Nat, MaxPtys \in Nat PROVE Spec => ImplementsStreams
<1>1. Init => PtyInv /\ Streams!Init
  <2> SUFFICES ASSUME Init PROVE PtyInv /\ Streams!Init  OBVIOUS
  <2>1. PtysOK
    BY DEF Init, PtysOK
  <2>2. HandlesOK
    BY DEF Init, HandlesOK
  <2>3. StreamsOK
    BY ConcatEmptySeq, EmptySeq DEF Init, StreamsOK, Buffer, Exists
  <2> QED  BY <2>1, <2>2, <2>3 DEF PtyInv, Init, Streams!Init
<1>2. PtyInv /\ [Next]_vars => PtyInv' /\ [Streams!Next]_<<written, taken>>
  BY PtyStep
<1> QED  BY <1>1, <1>2, PTL DEF Spec, ImplementsStreams, Streams!Spec, Streams!vars

\* login and cat take an empty answer for the end of the input: a reader that
\* was woken finds nothing only when another one that has the same side open
\* read first, whoever opens, closes, writes or is killed in between.
THEOREM WokenReadersFindBytes ==
  ASSUME Length \in Nat, MaxPtys \in Nat PROVE Spec => EmptyReadsHaveRivals
<1>1. Init => PtyInv /\ WaitersOK
  BY ConcatEmptySeq, EmptySeq DEF Init, PtyInv, PtysOK, HandlesOK, StreamsOK, WaitersOK, Buffer, Exists
<1>2. PtyInv /\ WaitersOK /\ [Next]_vars => (PtyInv /\ WaitersOK)' /\ Rivals
  BY PtyStep, WaitersStep
<1> QED  BY <1>1, <1>2, PTL DEF Spec, EmptyReadsHaveRivals, Rivals

-----------------------------------------------------------------------------
(* The desktop *)

\* Windows are records, and every owner was a process once.
WindowsOK ==
  /\ nextPid \in Nat \ {0} /\ kernels \in Nat /\ running \subseteq 1..nextPid - 1
  /\ windows \in Seq([monitorId : Nat, owner : 1..nextPid - 1])

\* No monitor is listed twice.
MonitorsOK ==
  /\ \E X : monitors \in Seq(X)
  /\ \A i, j \in 1..Len(monitors) : monitors[i] = monitors[j] => i = j

\* What is shown as crashed does not run.
ShownOK ==
  /\ shown \in Seq([id : Nat, crashed : BOOLEAN])
  /\ \A i \in 1..Len(shown) : shown[i].crashed =>
       shown[i].id < Len(windows) /\ windows[shown[i].id + 1].owner \notin running

DesktopOK == WindowsOK /\ MonitorsOK /\ ShownOK

-----------------------------------------------------------------------------
\* The list of windows gets no window that it did not have, with what was
\* true of it, except windows that have not crashed.
LEMMA ShownKept ==
  ASSUME WindowsOK, ShownOK, WindowsOK', Len(windows) <= Len(windows'),
         \A i \in 1..Len(windows) : windows'[i].owner = windows[i].owner,
         \A p \in running' : p \in running \/ p >= nextPid,
         shown' \in Seq([id : Nat, crashed : BOOLEAN]),
         \A i \in 1..Len(shown') : \/ ~shown'[i].crashed
                                   \/ \E j \in 1..Len(shown) : shown'[i] = shown[j]
  PROVE  ShownOK'
<1> SUFFICES ASSUME NEW i \in 1..Len(shown'), shown'[i].crashed
             PROVE  /\ shown'[i].id < Len(windows')
                    /\ windows'[shown'[i].id + 1].owner \notin running'
  BY DEF ShownOK
<1>1. PICK j \in 1..Len(shown) : shown'[i] = shown[j]
  OBVIOUS
<1>2. shown[j] \in [id : Nat, crashed : BOOLEAN]
  BY ElementOfSeq, Zenon DEF ShownOK
<1> PICK id \in Nat : id = shown[j].id
  BY <1>2
<1>3. id < Len(windows) /\ windows[id + 1].owner \notin running
  BY <1>1 DEF ShownOK
<1>4. Len(windows) \in Nat /\ Len(windows') \in Nat
  BY LenProperties DEF WindowsOK
<1> PICK k \in 1..Len(windows) : k = id + 1
  BY <1>3, <1>4
<1>5. windows[k] \in [monitorId : Nat, owner : 1..nextPid - 1] /\ nextPid \in Nat
  BY ElementOfSeq, Zenon DEF WindowsOK
<1>6. windows[k].owner \notin running'
  <2>1. windows[k].owner \in 1..nextPid - 1 /\ windows[k].owner \notin running
    BY <1>3, <1>5
  <2>2. ~(windows[k].owner >= nextPid)
    BY <1>5, <2>1
  <2> QED  BY <2>1, <2>2
<1>7. windows'[k].owner \notin running'
  BY <1>6
<1>8. id < Len(windows')
  BY <1>3, <1>4
<1> QED  BY <1>1, <1>7, <1>8

LEMMA WindowClosed ==
  ASSUME ShownOK, NEW id, CloseWindow(id)
  PROVE  /\ shown' \in Seq([id : Nat, crashed : BOOLEAN])
         /\ \A i \in 1..Len(shown') : \E j \in 1..Len(shown) : shown'[i] = shown[j]
<1> DEFINE T == [id : Nat, crashed : BOOLEAN]
           S == {w \in Range(shown) : w.id # id}
<1>1. shown \in Seq(T) /\ shown' = Filter(shown, S)
  BY DEF ShownOK, CloseWindow
<1> HIDE DEF S, T
<1>2. Filter(shown, S) \in Seq(T \cap S) /\ Range(Filter(shown, S)) = Range(shown) \cap S
  BY <1>1, FilterRange
<1> PICK l : l = shown'
  OBVIOUS
<1>3. l \in Seq(T)
  BY <1>1, <1>2, SeqMonotonic
<1>4. ASSUME NEW i \in 1..Len(l) PROVE \E j \in 1..Len(shown) : l[i] = shown[j]
  <2>1. l[i] \in Range(l)
    BY <1>3, InRange
  <2>2. l[i] \in Range(shown)
    BY <1>1, <1>2, <2>1
  <2> QED  BY <1>1, <2>2, InRange
<1> QED  BY <1>3, <1>4 DEF T

\* A window that is shown has a place.
LEMMA PositionIs ==
  ASSUME ShownOK, NEW id, IsShown(id)
  PROVE  Position(id) \in 1..Len(shown) /\ shown[Position(id)].id = id
<1> DEFINE P == {i \in 1..Len(shown) : shown[i].id = id}
<1>1. DOMAIN shown = 1..Len(shown)
  BY DEF ShownOK
<1>2. P \in SUBSET Nat /\ P # {}
  BY <1>1 DEF IsShown, Range
<1>3. PICK i \in P : \A j \in P : i <= j
  <2> HIDE DEF P
  <2> QED  BY <1>2, LeastElement
<1>4. \A j \in 1..i - 1 : shown[j].id # id
  BY <1>3
<1>5. \E k \in DOMAIN shown : shown[k].id = id /\ \A j \in 1..k - 1 : shown[j].id # id
  BY <1>1, <1>3, <1>4
<1> QED  BY <1>1, <1>5 DEF Position

LEMMA FocusStep ==
  ASSUME ShownOK, NEW id, FocusWindow(id)
  PROVE  /\ shown' \in Seq([id : Nat, crashed : BOOLEAN])
         /\ \A i \in 1..Len(shown') : \E j \in 1..Len(shown) : shown'[i] = shown[j]
<1> DEFINE T == [id : Nat, crashed : BOOLEAN]
<1> PICK k : k = Position(id)
  OBVIOUS
<1>1. k \in 1..Len(shown) /\ shown \in Seq(T)
  BY PositionIs DEF FocusWindow, ShownOK
<1> HIDE DEF T
<1> PICK r : r = RemoveAt(shown, k)
  OBVIOUS
<1>2. shown' = Append(r, shown[k])
  BY DEF FocusWindow
<1>3. /\ r \in Seq(T) /\ Len(r) = Len(shown) - 1
      /\ \A j \in 1..Len(shown) - 1 : r[j] = IF j < k THEN shown[j] ELSE shown[j + 1]
  BY <1>1, RemoveAtEntries
<1>4. shown[k] \in T /\ Len(shown) \in Nat
  BY <1>1
<1>5. /\ shown' \in Seq(T) /\ Len(shown') = Len(shown)
      /\ \A j \in 1..Len(shown) - 1 : shown'[j] = r[j]
      /\ shown'[Len(shown)] = shown[k]
  BY <1>2, <1>3, <1>4, AppendProperties
<1>6. ASSUME NEW i \in 1..Len(shown) PROVE \E j \in 1..Len(shown) : shown'[i] = shown[j]
  <2>1. CASE i = Len(shown)
    BY <1>1, <1>5, <2>1
  <2>2. CASE i \in 1..Len(shown) - 1
    BY <1>3, <1>5, <2>2
  <2> QED  BY <1>4, <2>1, <2>2
<1> QED  BY <1>5, <1>6 DEF T

\* Windows are created on top; none of them has crashed.
LEMMA CreatedOnes ==
  ASSUME NEW list \in Seq([id : Nat, crashed : BOOLEAN]), NEW X, NEW ws \in Seq(X),
         NEW first \in 0..Len(ws)
  PROVE  /\ Created(list, ws, first) \in Seq([id : Nat, crashed : BOOLEAN])
         /\ \A i \in 1..Len(Created(list, ws, first)) :
              \/ ~Created(list, ws, first)[i].crashed
              \/ \E j \in 1..Len(list) : Created(list, ws, first)[i] = list[j]
<1> DEFINE T == [id : Nat, crashed : BOOLEAN]
           new == [i \in 1..Len(ws) - first |-> Shown(first + i - 1)]
<1>1. Len(ws) \in Nat /\ Len(list) \in Nat
  OBVIOUS
<1>2. \A i \in 1..Len(ws) - first : Shown(first + i - 1) \in T /\ ~Shown(first + i - 1).crashed
  BY <1>1 DEF Shown
<1>3. new \in Seq(T) /\ Len(new) = Len(ws) - first
      /\ \A i \in 1..Len(ws) - first : ~new[i].crashed
  <2> HIDE DEF T
  <2>1. new \in [1..Len(ws) - first -> T]
    BY <1>2
  <2>2. Len(ws) - first \in Nat
    BY <1>1
  <2>3. new \in Seq(T) /\ Len(new) = Len(ws) - first
    <3> HIDE DEF new
    <3> QED  BY <2>1, <2>2
  <2> QED  BY <1>2, <2>3
<1>4. Created(list, ws, first) = list \o new
  BY DEF Created, OpenWindows
<1> HIDE DEF T, new
<1>5. /\ list \o new \in Seq(T) /\ Len(list \o new) = Len(list) + Len(new)
      /\ \A i \in 1..Len(list) + Len(new) :
           (list \o new)[i] = IF i <= Len(list) THEN list[i] ELSE new[i - Len(list)]
  BY <1>3, ConcatProperties DEF T
<1>6. ASSUME NEW i \in 1..Len(list) + Len(new)
      PROVE  ~(list \o new)[i].crashed \/ \E j \in 1..Len(list) : (list \o new)[i] = list[j]
  <2>1. CASE i <= Len(list)
    BY <1>1, <1>5, <2>1
  <2>2. CASE ~(i <= Len(list))
    <3>1. i - Len(list) \in 1..Len(ws) - first
      BY <1>1, <1>3, <2>2
    <3> QED  BY <1>3, <1>5, <2>2, <3>1
  <2> QED  BY <2>1, <2>2
<1> QED  BY <1>4, <1>5, <1>6 DEF T

LEMMA DrawStep ==
  ASSUME MaxMonitors \in Nat, DesktopOK, NEW p \in 1..MaxPid, NEW m \in 0..MaxMonitors - 1, Draw(p, m)
  PROVE  /\ DesktopOK' /\ UNCHANGED monitors /\ Len(windows) <= Len(windows')
         /\ \A i \in 1..Len(windows) : windows'[i] = windows[i]
<1> DEFINE R == [monitorId : Nat, owner : 1..nextPid - 1]
           new == [i \in 1..kernels |-> [monitorId |-> m, owner |-> p]]
<1>1. /\ windows \in Seq(R) /\ nextPid \in Nat /\ kernels \in Nat /\ p \in 1..nextPid - 1 /\ m \in Nat
      /\ windows' = windows \o new /\ UNCHANGED <<monitors, running, nextPid, kernels>>
  BY DEF Draw, DesktopOK, WindowsOK
<1>2. new \in Seq(R) /\ Len(new) = kernels
  <2>1. [monitorId |-> m, owner |-> p] \in R
    BY <1>1
  <2> HIDE DEF R
  <2>2. new \in [1..kernels -> R]
    BY <2>1
  <2> HIDE DEF new
  <2> QED  BY <1>1, <2>2
<1> HIDE DEF R, new
<1>3. /\ windows \o new \in Seq(R) /\ Len(windows \o new) = Len(windows) + kernels
      /\ \A i \in 1..Len(windows) + kernels :
           (windows \o new)[i] = IF i <= Len(windows) THEN windows[i] ELSE new[i - Len(windows)]
  BY <1>1, <1>2, ConcatProperties
<1>4. /\ windows' \in Seq(R) /\ Len(windows) \in Nat /\ Len(windows') = Len(windows) + kernels
      /\ Len(windows) \in 0..Len(windows')
      /\ \A i \in 1..Len(windows) : windows'[i] = windows[i]
  BY <1>1, <1>3, LenProperties
<1>5. WindowsOK'
  BY <1>1, <1>4 DEF R, DesktopOK, WindowsOK
<1> PICK list \in Seq([id : Nat, crashed : BOOLEAN]) : list = shown
  BY DEF DesktopOK, ShownOK
<1> PICK ws \in Seq(R) : ws = windows'
  BY <1>4
<1> PICK first \in 0..Len(ws) : first = Len(windows)
  BY <1>4
<1>6. shown' = Created(list, ws, first)
  BY DEF Draw
<1>7. /\ shown' \in Seq([id : Nat, crashed : BOOLEAN])
      /\ \A i \in 1..Len(shown') : ~shown'[i].crashed \/ \E j \in 1..Len(shown) : shown'[i] = shown[j]
  <2>1. /\ Created(list, ws, first) \in Seq([id : Nat, crashed : BOOLEAN])
        /\ \A i \in 1..Len(Created(list, ws, first)) :
             \/ ~Created(list, ws, first)[i].crashed
             \/ \E j \in 1..Len(list) : Created(list, ws, first)[i] = list[j]
    BY CreatedOnes
  <2> QED  BY <1>6, <2>1, Zenon
<1>8. ShownOK'
  BY <1>1, <1>4, <1>5, <1>7, ShownKept DEF DesktopOK
<1> QED  BY <1>1, <1>4, <1>5, <1>8 DEF DesktopOK, MonitorsOK

LEMMA CrashStep ==
  ASSUME DesktopOK, NEW p, Crash(p)
  PROVE  DesktopOK'
<1> DEFINE T == [id : Nat, crashed : BOOLEAN]
           C(i) == [shown[i] EXCEPT !.crashed = @ \/ Owned(p, shown[i].id)]
<1>1. /\ shown \in Seq(T) /\ running' = running \ {p} /\ UNCHANGED <<monitors, windows, kernels, nextPid>>
      /\ DOMAIN shown = 1..Len(shown) /\ Len(shown) \in Nat
  BY LenProperties DEF Crash, DesktopOK, ShownOK, kernelSide
<1>2. shown' = [i \in 1..Len(shown) |-> C(i)]
  BY <1>1 DEF Crash
<1>3. \A i \in 1..Len(shown) : /\ C(i) \in T /\ C(i).id = shown[i].id
                               /\ C(i).crashed = (shown[i].crashed \/ Owned(p, shown[i].id))
  <2> SUFFICES ASSUME NEW i \in 1..Len(shown)
               PROVE  /\ C(i) \in T /\ C(i).id = shown[i].id
                      /\ C(i).crashed = (shown[i].crashed \/ Owned(p, shown[i].id))
    OBVIOUS
  <2>1. shown[i] \in T
    BY <1>1, ElementOfSeq, Zenon
  <2>2. Owned(p, shown[i].id) \in BOOLEAN
    BY DEF Owned
  <2> QED  BY <2>1, <2>2
<1> HIDE DEF T, C
<1>4. shown' \in [1..Len(shown) -> T] /\ \A i \in 1..Len(shown) : shown'[i] = C(i)
  BY <1>2, <1>3
<1>5. shown' \in Seq(T) /\ Len(shown') = Len(shown)
  BY <1>1, <1>4
<1>6. ASSUME NEW i \in 1..Len(shown), shown'[i].crashed
      PROVE  shown'[i].id < Len(windows) /\ windows[shown'[i].id + 1].owner \notin running'
  <2>1. shown'[i].id = shown[i].id /\ (shown[i].crashed \/ Owned(p, shown[i].id))
    BY <1>3, <1>4, <1>6
  <2>2. CASE shown[i].crashed
    BY <1>1, <2>1, <2>2 DEF DesktopOK, ShownOK
  <2>3. CASE Owned(p, shown[i].id)
    BY <1>1, <2>1, <2>3 DEF Owned
  <2> QED  BY <2>1, <2>2, <2>3
<1>7. ShownOK'
  BY <1>1, <1>5, <1>6 DEF T, ShownOK
<1>8. WindowsOK' /\ MonitorsOK'
  BY <1>1 DEF DesktopOK, WindowsOK, MonitorsOK
<1> QED  BY <1>7, <1>8 DEF DesktopOK

LEMMA WindowNumbers ==
  ASSUME WindowsOK
  PROVE  /\ Len(windows) \in Nat /\ DOMAIN windows = 1..Len(windows)
         /\ \A i \in 1..Len(windows) : windows[i].monitorId \in Nat
<1> PICK R : R = [monitorId : Nat, owner : 1..nextPid - 1]
  OBVIOUS
<1>1. windows \in Seq(R) /\ \A r \in R : r.monitorId \in Nat
  BY DEF WindowsOK
<1>2. Len(windows) \in Nat /\ DOMAIN windows = 1..Len(windows)
  BY <1>1, LenProperties
<1>3. ASSUME NEW i \in 1..Len(windows) PROVE windows[i] \in R
  BY <1>1, ElementOfSeq, Zenon
<1> QED  BY <1>1, <1>2, <1>3

\* The conclusion of SurvivorsStay.
Survive ==
  \A i \in DOMAIN windows :
    LET old == windows[i].monitorId + 1
        new == windows'[i].monitorId + 1
    IN old <= Len(monitors) =>
         IF monitors[old] \in Range(monitors')
         THEN new <= Len(monitors') /\ monitors'[new] = monitors[old]
         ELSE new = 1

\* It holds when the windows and the first monitors stay as they are.
LEMMA NothingMoved ==
  ASSUME DesktopOK, MonitorsOK', UNCHANGED windows, Len(monitors) <= Len(monitors'),
         \A i \in 1..Len(monitors) : monitors'[i] = monitors[i]
  PROVE  Survive
<1>1. Len(monitors) \in Nat /\ Len(monitors') \in Nat /\ DOMAIN monitors' = 1..Len(monitors')
  BY LenProperties DEF DesktopOK, MonitorsOK
<1>2. \A i \in 1..Len(monitors) : monitors[i] \in Range(monitors')
  BY <1>1 DEF Range
<1>3. \A i \in DOMAIN windows : windows[i].monitorId \in Nat
  BY WindowNumbers DEF DesktopOK
<1> QED  BY <1>1, <1>2, <1>3 DEF Survive

LEMMA AddStep ==
  ASSUME DesktopOK, AddMonitor
  PROVE  DesktopOK' /\ Survive
<1>1. PICK X : monitors \in Seq(X)
  BY DEF DesktopOK, MonitorsOK
<1> PICK k \in Nat : k = kernels
  BY DEF DesktopOK, WindowsOK
<1>2. PICK new \in [1..k -> Display \ Range(monitors)] :
        IsInjective(new) /\ monitors' = monitors \o new
  BY DEF AddMonitor
<1> DEFINE Y == X \cup Display
<1>3. monitors \in Seq(Y) /\ new \in Seq(Y) /\ Len(new) = k
  <2>1. new \in Seq(Display) /\ Len(new) = k
    BY <1>2
  <2> QED  BY <1>1, <2>1, SeqMonotonic
<1> HIDE DEF Y
<1> PICK n \in Nat : n = Len(monitors)
  BY <1>1, LenProperties
<1>4. /\ monitors' \in Seq(Y) /\ Len(monitors') = n + k
      /\ \A i \in 1..n + k : monitors'[i] = IF i <= n THEN monitors[i] ELSE new[i - n]
  BY <1>2, <1>3, ConcatProperties
<1>5. MonitorsOK'
  <2>1. \A i \in 1..n : monitors[i] \in Range(monitors)
    BY <1>1 DEF Range
  <2>2. \A j \in 1..k : new[j] \notin Range(monitors)
    BY <1>2
  <2>3. \A i, j \in 1..k : new[i] = new[j] => i = j
    BY <1>2 DEF IsInjective
  <2>4. \A i, j \in 1..n : monitors[i] = monitors[j] => i = j
    BY DEF DesktopOK, MonitorsOK
  <2>5. ASSUME NEW i \in 1..n + k, NEW j \in 1..n + k, monitors'[i] = monitors'[j] PROVE i = j
    <3>1. CASE i <= n /\ j <= n
      BY <1>4, <2>4, <2>5, <3>1
    <3>2. CASE i <= n /\ ~(j <= n)
      <4>1. j - n \in 1..k /\ i \in 1..n
        BY <3>2
      <4> QED  BY <1>4, <2>1, <2>2, <2>5, <3>2, <4>1
    <3>3. CASE ~(i <= n) /\ j <= n
      <4>1. i - n \in 1..k /\ j \in 1..n
        BY <3>3
      <4> QED  BY <1>4, <2>1, <2>2, <2>5, <3>3, <4>1
    <3>4. CASE ~(i <= n) /\ ~(j <= n)
      <4>1. i - n \in 1..k /\ j - n \in 1..k
        BY <3>4
      <4>2. new[i - n] = new[j - n]
        BY <1>4, <2>5, <3>4
      <4>3. i - n = j - n
        BY <2>3, <4>1, <4>2
      <4> QED  BY <4>3
    <3> QED  BY <3>1, <3>2, <3>3, <3>4
  <2> QED  BY <1>4, <2>5 DEF MonitorsOK
<1>6. WindowsOK' /\ ShownOK' /\ UNCHANGED windows
  BY DEF AddMonitor, DesktopOK, WindowsOK, ShownOK
<1>7. n <= n + k /\ \A i \in 1..n : i \in 1..n + k /\ i <= n
  OBVIOUS
<1>8. Len(monitors) <= Len(monitors') /\ \A i \in 1..Len(monitors) : monitors'[i] = monitors[i]
  BY <1>4, <1>7
<1> QED  BY <1>5, <1>6, <1>8, NothingMoved DEF DesktopOK

LEMMA RemoveStep ==
  ASSUME DesktopOK, NEW id \in Nat, RemoveMonitor(id)
  PROVE  DesktopOK' /\ Survive
<1>1. PICK X : monitors \in Seq(X)
  BY DEF DesktopOK, MonitorsOK
<1> PICK n \in Nat : n = Len(monitors)
  BY <1>1, LenProperties
<1>2. 0 < id /\ id < n
  BY DEF RemoveMonitor
<1> PICK c : c = Gone(id)
  OBVIOUS
<1>3. c \in Nat /\ c <= n - id
  <2>1. PICK k \in Nat : k = kernels
    BY DEF DesktopOK, WindowsOK
  <2>2. n - id \in Nat /\ c = Min({k, n - id})
    BY <1>2, <2>1 DEF Gone
  <2>3. \E x \in {k, n - id} : \A y \in {k, n - id} : x <= y
    BY <2>2
  <2>4. Min({k, n - id}) \in {k, n - id} /\ \A y \in {k, n - id} : Min({k, n - id}) <= y
    BY <2>3 DEF Min
  <2> QED  BY <2>2, <2>4
<1> DEFINE f == SubSeq(monitors, 1, id)
           b == SubSeq(monitors, id + c + 1, n)
<1>4. f \in Seq(X) /\ Len(f) = id /\ \A j \in 1..id : f[j] = monitors[j]
  BY <1>1, <1>2, SubSeqProperties
<1>5. b \in Seq(X) /\ Len(b) = n - id - c /\ \A j \in 1..n - id - c : b[j] = monitors[id + c + j]
  <2>1. CASE id + c = n
    BY <1>2, <1>3, <2>1, SubSeqEmpty, EmptySeq
  <2>2. CASE id + c # n
    BY <1>1, <1>2, <1>3, <2>2, SubSeqProperties
  <2> QED  BY <2>1, <2>2
<1>6. monitors' = f \o b
  BY DEF RemoveMonitor
<1> HIDE DEF f, b
<1>7. /\ monitors' \in Seq(X) /\ Len(monitors') = n - c
      /\ \A j \in 1..n - c : monitors'[j] = IF j <= id THEN monitors[j] ELSE monitors[j + c]
  <2>1. /\ f \o b \in Seq(X) /\ Len(f \o b) = Len(f) + Len(b)
        /\ \A j \in 1..Len(f) + Len(b) : (f \o b)[j] = IF j <= Len(f) THEN f[j] ELSE b[j - Len(f)]
    BY <1>4, <1>5, ConcatProperties
  <2>2. Len(f) + Len(b) = n - c
    BY <1>2, <1>3, <1>4, <1>5
  <2>3. ASSUME NEW j \in 1..n - c
        PROVE  (f \o b)[j] = IF j <= id THEN monitors[j] ELSE monitors[j + c]
    <3>1. CASE j <= id
      BY <1>4, <2>1, <2>2, <3>1
    <3>2. CASE ~(j <= id)
      <4>1. j - id \in 1..n - id - c /\ id + c + (j - id) = j + c
        BY <1>2, <1>3, <3>2
      <4> QED  BY <1>4, <1>5, <2>1, <2>2, <3>2, <4>1
    <3> QED  BY <3>1, <3>2
  <2> QED  BY <1>6, <2>1, <2>2, <2>3
<1>8. MonitorsOK' /\ \A j \in 1..n : j \in id + 1..id + c => monitors[j] \notin Range(monitors')
  <2>1. \A i, j \in 1..n : monitors[i] = monitors[j] => i = j
    BY DEF DesktopOK, MonitorsOK
  <2> DEFINE o(j) == IF j <= id THEN j ELSE j + c
  <2>2. \A j \in 1..n - c : o(j) \in 1..n /\ monitors'[j] = monitors[o(j)] /\ o(j) \notin id + 1..id + c
    BY <1>2, <1>3, <1>7
  <2>3. \A i, j \in 1..n - c : o(i) = o(j) => i = j
    BY <1>2, <1>3
  <2>4. Range(monitors') = {monitors'[j] : j \in 1..n - c}
    BY <1>3, <1>7 DEF Range
  <2> HIDE DEF o
  <2>5. \A i, j \in 1..n - c : monitors'[i] = monitors'[j] => i = j
    BY <2>1, <2>2, <2>3
  <2>6. MonitorsOK'
    BY <1>7, <2>5 DEF MonitorsOK
  <2>7. ASSUME NEW i \in 1..n, i \in id + 1..id + c, NEW j \in 1..n - c, monitors'[j] = monitors[i]
        PROVE  FALSE
    <3>1. o(j) = i
      BY <2>1, <2>2, <2>7
    <3> QED  BY <2>2, <2>7, <3>1
  <2> QED  BY <2>4, <2>6, <2>7
<1> DEFINE R == [monitorId : Nat, owner : 1..nextPid - 1]
           w(i) == [windows[i] EXCEPT !.monitorId = Rehomed(@, id, c)]
<1>9. /\ windows \in Seq(R) /\ DOMAIN windows = 1..Len(windows) /\ Len(windows) \in Nat
      /\ windows' = [i \in 1..Len(windows) |-> w(i)]
      /\ UNCHANGED <<kernels, running, nextPid, shown>>
  BY LenProperties DEF DesktopOK, WindowsOK, RemoveMonitor
<1>10. ASSUME NEW i \in 1..Len(windows)
       PROVE  /\ w(i) \in R /\ w(i).owner = windows[i].owner
              /\ windows[i].monitorId \in Nat /\ w(i).monitorId = Rehomed(windows[i].monitorId, id, c)
  <2>1. windows[i] \in R
    BY <1>9, ElementOfSeq, Zenon
  <2>2. Rehomed(windows[i].monitorId, id, c) \in Nat
    BY <1>2, <1>3, <2>1 DEF Rehomed
  <2> QED  BY <2>1, <2>2
<1> HIDE DEF R, w
<1>11. windows' \in [1..Len(windows) -> R] /\ \A i \in 1..Len(windows) : windows'[i] = w(i)
  BY <1>9, <1>10
<1>12. windows' \in Seq(R) /\ Len(windows') = Len(windows)
  BY <1>9, <1>11
<1>13. WindowsOK'
  BY <1>9, <1>12 DEF R, DesktopOK, WindowsOK
<1>14. ShownOK'
  <2>1. /\ Len(windows) <= Len(windows')
        /\ \A i \in 1..Len(windows) : windows'[i].owner = windows[i].owner
    BY <1>9, <1>10, <1>11, <1>12
  <2>2. /\ shown' \in Seq([id : Nat, crashed : BOOLEAN])
        /\ \A i \in 1..Len(shown') : shown'[i] = shown[i] /\ i \in 1..Len(shown)
    BY <1>9 DEF DesktopOK, ShownOK
  <2>3. \A p \in running' : p \in running
    BY <1>9
  <2> QED  BY <1>13, <2>1, <2>2, <2>3, ShownKept DEF DesktopOK
<1>15. ASSUME NEW i \in 1..Len(windows), windows[i].monitorId + 1 <= n
       PROVE  IF monitors[windows[i].monitorId + 1] \in Range(monitors')
              THEN /\ windows'[i].monitorId + 1 <= n - c
                   /\ monitors'[windows'[i].monitorId + 1] = monitors[windows[i].monitorId + 1]
              ELSE windows'[i].monitorId + 1 = 1
  <2> PICK m \in Nat : m = windows[i].monitorId
    BY <1>10
  <2>1. windows'[i].monitorId = IF m < id THEN m ELSE IF m < id + c THEN 0 ELSE m - c
    BY <1>10, <1>11 DEF Rehomed
  <2>2. \A j \in 1..n - c : monitors'[j] \in Range(monitors')
    <3>1. Range(monitors') = {monitors'[j] : j \in 1..n - c}
      BY <1>3, <1>7 DEF Range
    <3> QED  BY <3>1
  <2>3. CASE id <= m /\ m < id + c
    <3>1. m + 1 \in 1..n /\ m + 1 \in id + 1..id + c /\ windows'[i].monitorId = 0
      BY <1>2, <1>3, <1>15, <2>1, <2>3
    <3> QED  BY <1>8, <3>1
  <2>4. CASE m >= id + c
    <3>1. /\ windows'[i].monitorId + 1 = m - c + 1 /\ m - c + 1 \in 1..n - c
          /\ ~(m - c + 1 <= id) /\ m - c + 1 + c = m + 1 /\ m - c + 1 <= n - c
      BY <1>2, <1>3, <1>15, <2>1, <2>4
    <3>2. monitors'[m - c + 1] = monitors[m + 1]
      BY <1>7, <3>1
    <3> QED  BY <2>2, <3>1, <3>2
  <2>5. CASE m < id
    <3>1. /\ windows'[i].monitorId + 1 = m + 1 /\ m + 1 \in 1..n - c /\ m + 1 <= id
          /\ m + 1 <= n - c
      BY <1>2, <1>3, <2>1, <2>5
    <3>2. monitors'[m + 1] = monitors[m + 1]
      BY <1>7, <3>1
    <3> QED  BY <2>2, <3>1, <3>2
  <2>6. (id <= m /\ m < id + c) \/ m >= id + c \/ m < id
    BY <1>2, <1>3
  <2> QED  BY <2>3, <2>4, <2>5, <2>6
<1>16. Survive
  BY <1>7, <1>9, <1>15 DEF Survive
<1> QED  BY <1>8, <1>13, <1>14, <1>16 DEF DesktopOK

LEMMA RestoreStep ==
  ASSUME DesktopOK, NEW list \in Seq([id : Nat, crashed : BOOLEAN]), NEW k \in Nat,
         \A i \in 1..Len(list) : ~list[i].crashed \/ \E j \in 1..Len(shown) : list[i] = shown[j],
         RestoreWindows(list, k)
  PROVE  DesktopOK' /\ Survive
<1> PICK R : windows \in Seq(R)
  BY DEF DesktopOK, WindowsOK
<1> PICK ws \in Seq(R) : ws = windows
  OBVIOUS
<1> PICK first \in 0..Len(ws) : first = 0
  BY LenProperties
<1>1. /\ Created(list, ws, first) \in Seq([id : Nat, crashed : BOOLEAN])
      /\ \A i \in 1..Len(Created(list, ws, first)) :
           \/ ~Created(list, ws, first)[i].crashed
           \/ \E j \in 1..Len(list) : Created(list, ws, first)[i] = list[j]
  BY CreatedOnes
<1>2. /\ shown' = Created(list, ws, first) /\ kernels' = k
      /\ UNCHANGED <<monitors, windows, running, nextPid>>
  BY DEF RestoreWindows
<1>3. \A i \in 1..Len(shown') : ~shown'[i].crashed \/ \E j \in 1..Len(shown) : shown'[i] = shown[j]
  BY <1>1, <1>2
<1>4. WindowsOK' /\ MonitorsOK'
  BY <1>2 DEF DesktopOK, WindowsOK, MonitorsOK
<1>5. ShownOK'
  BY <1>1, <1>2, <1>3, <1>4, ShownKept DEF DesktopOK, WindowsOK
<1>6. Survive
  BY <1>2, <1>4, NothingMoved DEF DesktopOK
<1> QED  BY <1>4, <1>5, <1>6 DEF DesktopOK

LEMMA DesktopStep ==
  ASSUME MaxMonitors \in Nat, MaxWindows \in Nat, DesktopOK, [DesktopNext]_desktopVars
  PROVE  DesktopOK' /\ Survive
<1>1. ASSUME UNCHANGED monitors, Len(windows) <= Len(windows'),
             \A i \in 1..Len(windows) : windows'[i].monitorId = windows[i].monitorId
      PROVE  Survive /\ MonitorsOK'
  <2>1. MonitorsOK'
    BY <1>1 DEF DesktopOK, MonitorsOK
  <2>2. Len(monitors) \in Nat /\ DOMAIN monitors = 1..Len(monitors) /\ DOMAIN windows = 1..Len(windows)
    BY LenProperties DEF DesktopOK, MonitorsOK, WindowsOK
  <2>3. \A i \in 1..Len(monitors) : monitors[i] \in Range(monitors')
    BY <1>1, <2>2 DEF Range
  <2>4. \A i \in 1..Len(windows) : windows[i].monitorId \in Nat
    BY WindowNumbers DEF DesktopOK
  <2> QED  BY <1>1, <2>1, <2>2, <2>3, <2>4 DEF Survive
<1>2. ASSUME UNCHANGED kernelSide, WindowsOK', running' \subseteq running \cup {nextPid},
             shown' \in Seq([id : Nat, crashed : BOOLEAN]),
             \A i \in 1..Len(shown') : \E j \in 1..Len(shown) : shown'[i] = shown[j]
      PROVE  DesktopOK' /\ Survive
  <2>1. Len(windows) \in Nat /\ nextPid \in Nat
    BY LenProperties DEF DesktopOK, WindowsOK
  <2>2. UNCHANGED <<monitors, windows>>
    BY <1>2 DEF kernelSide
  <2>3. ShownOK'
    <3>1. \A p \in running' : p \in running \/ p >= nextPid
      BY <1>2, <2>1
    <3>2. WindowsOK /\ ShownOK
      BY DEF DesktopOK
    <3>3. Len(windows) <= Len(windows') /\ \A i \in 1..Len(windows) : windows'[i].owner = windows[i].owner
      BY <2>1, <2>2
    <3>4. \A i \in 1..Len(shown') : ~shown'[i].crashed \/ \E j \in 1..Len(shown) : shown'[i] = shown[j]
      BY <1>2
    <3> QED  BY <1>2, <3>1, <3>2, <3>3, <3>4, ShownKept
  <2> QED  BY <1>1, <1>2, <2>2, <2>3 DEF DesktopOK
<1>3. ASSUME NEW p, Exit(p) PROVE DesktopOK' /\ Survive
  <2>1. WindowsOK' /\ UNCHANGED <<kernelSide, shown>> /\ running' \subseteq running
    BY <1>3 DEF Exit, DesktopOK, WindowsOK, kernelSide
  <2> QED  BY <1>2, <2>1 DEF DesktopOK, ShownOK
<1>4. ASSUME NEW p, Crash(p) PROVE DesktopOK' /\ Survive
  <2>1. UNCHANGED <<monitors, windows>> /\ Len(windows) \in Nat
    BY <1>4, LenProperties DEF Crash, kernelSide, DesktopOK, WindowsOK
  <2> QED  BY <1>1, <1>4, <2>1, CrashStep
<1>5. ASSUME NEW p \in 1..MaxPid, NEW m \in 0..MaxMonitors - 1, Draw(p, m) PROVE DesktopOK' /\ Survive
  BY <1>1, <1>5, DrawStep
<1>6. ASSUME NEW id, FocusWindow(id) PROVE DesktopOK' /\ Survive
  <2>1. WindowsOK' /\ UNCHANGED kernelSide /\ running' = running
    BY <1>6 DEF FocusWindow, DesktopOK, WindowsOK, kernelSide
  <2>2. ShownOK
    BY DEF DesktopOK
  <2> QED  BY <1>2, <1>6, <2>1, <2>2, FocusStep
<1>7. ASSUME NEW id, CloseShown(id) PROVE DesktopOK' /\ Survive
  <2>1. WindowsOK' /\ UNCHANGED kernelSide /\ running' = running /\ CloseWindow(id)
    BY <1>7 DEF CloseShown, DesktopOK, WindowsOK, kernelSide
  <2>2. ShownOK
    BY DEF DesktopOK
  <2> QED  BY <1>2, <2>1, <2>2, WindowClosed
<1>8. ASSUME NEW id, RestartWindow(id) PROVE DesktopOK' /\ Survive
  <2>1. /\ UNCHANGED kernelSide /\ running' = running \cup {nextPid} /\ CloseWindow(id)
        /\ nextPid' = nextPid + 1 /\ nextPid \in Nat \ {0} /\ UNCHANGED <<windows, kernels>>
    BY <1>8 DEF RestartWindow, DesktopOK, WindowsOK, kernelSide
  <2>2. ShownOK
    BY DEF DesktopOK
  <2>3. WindowsOK'
    <3>1. 1..nextPid - 1 \subseteq 1..nextPid' - 1 /\ nextPid' \in Nat /\ running \subseteq 1..nextPid - 1
      BY <2>1 DEF DesktopOK, WindowsOK
    <3>2. [monitorId : Nat, owner : 1..nextPid - 1] \subseteq [monitorId : Nat, owner : 1..nextPid' - 1]
      BY <3>1
    <3>3. windows \in Seq([monitorId : Nat, owner : 1..nextPid' - 1])
      BY <3>2, SeqMonotonic DEF DesktopOK, WindowsOK
    <3>4. running' \subseteq 1..nextPid' - 1 /\ kernels \in Nat
      BY <2>1, <3>1 DEF DesktopOK, WindowsOK
    <3> QED  BY <2>1, <3>1, <3>3, <3>4 DEF WindowsOK
  <2> QED  BY <1>2, <2>1, <2>2, <2>3, WindowClosed
<1>9. ASSUME AddMonitor PROVE DesktopOK' /\ Survive
  BY <1>9, AddStep
<1>10. ASSUME NEW id \in 0..MaxMonitors, RemoveMonitor(id) PROVE DesktopOK' /\ Survive
  BY <1>10, RemoveStep
<1>11. CASE RebootDesktop
  <2> PICK list \in Seq([id : Nat, crashed : BOOLEAN]) : list = shown
    BY DEF DesktopOK, ShownOK
  <2> PICK k \in Nat : k = kernels + 1
    BY DEF DesktopOK, WindowsOK
  <2>1. RestoreWindows(list, k)
    BY <1>11 DEF RebootDesktop
  <2> QED  BY <2>1, RestoreStep
<1>12. CASE StartAgain
  <2> PICK list : list = <<Shown(0)>>
    OBVIOUS
  <2>1. list \in Seq([id : Nat, crashed : BOOLEAN]) /\ \A i \in 1..Len(list) : ~list[i].crashed
    BY DEF Shown
  <2>2. RestoreWindows(list, 1)
    BY <1>12 DEF StartAgain
  <2> QED  BY <2>1, <2>2, RestoreStep
<1>13. CASE UNCHANGED desktopVars
  BY <1>1, <1>13 DEF desktopVars, DesktopOK, WindowsOK, ShownOK
<1> QED  BY <1>3, <1>4, <1>5, <1>6, <1>7, <1>8, <1>9, <1>10, <1>11, <1>12, <1>13 DEF DesktopNext

LEMMA DesktopStart == DesktopInit => DesktopOK
<1> SUFFICES ASSUME DesktopInit PROVE DesktopOK
  OBVIOUS
<1>1. WindowsOK
  BY EmptySeq DEF DesktopInit, WindowsOK
<1>2. MonitorsOK
  <2> PICK d : monitors = <<d>>
    BY DEF DesktopInit
  <2>1. monitors \in Seq({d}) /\ Len(monitors) = 1
    OBVIOUS
  <2>2. \A i, j \in 1..1 : i = j
    OBVIOUS
  <2> QED  BY <2>1, <2>2 DEF MonitorsOK
<1>3. ShownOK
  BY DEF DesktopInit, ShownOK, Shown
<1> QED  BY <1>1, <1>2, <1>3 DEF DesktopOK

\* An application whose window offers to start it again does not run, whatever
\* windows were drawn, closed and restored before.
THEOREM CrashedApplicationsAreDead ==
  ASSUME MaxMonitors \in Nat, MaxWindows \in Nat PROVE DesktopSpec => []CrashedIsDead
<1>1. DesktopOK => CrashedIsDead
  <2> SUFFICES ASSUME DesktopOK PROVE CrashedIsDead
    OBVIOUS
  <2>1. DOMAIN shown = 1..Len(shown)
    BY DEF DesktopOK, ShownOK
  <2> QED  BY <2>1 DEF DesktopOK, ShownOK, CrashedIsDead, Range
<1> QED  BY <1>1, DesktopStart, DesktopStep, PTL DEF DesktopSpec

\* When monitors are added or removed the windows of the others stay on the
\* monitor that they are on, and those of the removed ones go to the first one.
THEOREM WindowsOfOthersStay ==
  ASSUME MaxMonitors \in Nat, MaxWindows \in Nat PROVE DesktopSpec => SurvivorsStay
<1>1. DesktopOK /\ [DesktopNext]_desktopVars => DesktopOK' /\ Survive
  BY DesktopStep
<1> QED  BY <1>1, DesktopStart, PTL DEF DesktopSpec, SurvivorsStay, Survive

==============================================================================
