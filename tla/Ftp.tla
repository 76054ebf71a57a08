--------------------------------- MODULE Ftp ---------------------------------
(***************************************************************************)
(* Transfers of ftpd (core/services/ftp.ts).  Every command is a piece of  *)
(* data of its own, so that its loop takes it at once; commands of one     *)
(* connection overlap when the client does not wait.  A transfer connects  *)
(* to the port announced by the time the file system has answered.  STOR   *)
(* keeps what arrives within 10 ms.  USER, PASS and unknown commands,      *)
(* which only answer, are left out; LIST is RETR of a directory.           *)
(***************************************************************************)
EXTENDS Naturals, FiniteSets

CONSTANTS
  Client, DataPort, NoPort,
  File,
  Patient,        \* whether the clients wait for a transfer to end
  MaxBytes,       \* MAX_BYTES
  MaxTransfers    \* bound

VARIABLES
  announced,     \* dataIp and dataPort of each connection
  transfers,     \* under way
  begun,         \* how many were started
  files,         \* the length of each file, and who wrote it
  delivered      \* which data went where: to what was announced when asked

ftpVars == <<announced, transfers, begun, files, delivered>>

FtpInit ==
  /\ announced = [c \in Client |-> NoPort]
  /\ transfers = {} /\ begun = 0
  /\ files = [f \in File |-> 0] /\ delivered = {}

Free(c) == Patient => ~\E t \in transfers : t.client = c

\* (mutation) the port is kept outside the connection.
Announced_Shared(c, p) == [d \in Client |-> p]
Announced(c, p) == [announced EXCEPT ![c] = p]

PortCommand(c, p) ==
  /\ Free(c)
  /\ announced' = Announced(c, p)
  /\ UNCHANGED <<transfers, begun, files, delivered>>

\* RETR, LIST and STOR without PORT are refused.
StartTransfer(c, op, f) ==
  /\ Free(c) /\ announced[c] # NoPort /\ begun < MaxTransfers
  /\ begun' = begun + 1
  /\ transfers' = transfers \cup
       {[id |-> begun, client |-> c, op |-> op, file |-> f, asked |-> announced[c],
         at |-> "file", to |-> NoPort, size |-> 0, arrived |-> 0]}
  /\ UNCHANGED <<announced, files, delivered>>

Step(t, u) == transfers' = (transfers \ {t}) \cup {u}
Done(t) == transfers' = transfers \ {t}

\* The file is read: the data goes to the port of now.
Retrieve(t) ==
  /\ t.op = "RETR" /\ t.at = "file"
  /\ delivered' = delivered \cup {[asked |-> t.asked, to |-> announced[t.client]]}
  /\ Done(t)
  /\ UNCHANGED <<announced, begun, files>>

\* The file cannot be read: 550.  When it cannot be opened or written for
\* STOR, the error ends the loop and nobody answers.
Fail(t) ==
  /\ t.at \in {"file", "writing"}
  /\ IF t.op = "RETR" THEN Done(t) ELSE Step(t, [t EXCEPT !.at = "unanswered"])
  /\ UNCHANGED <<announced, begun, files, delivered>>

\* The file is open: the data connection is made and the time begins.
Accept(t) ==
  /\ t.op = "STOR" /\ t.at = "file"
  /\ Step(t, [t EXCEPT !.at = "receiving", !.to = announced[t.client]])
  /\ UNCHANGED <<announced, begun, files, delivered>>

\* (mutation) what is over the limit is kept as well.
Kept_All(size, n) == IF size >= MaxBytes THEN size ELSE size + n
Kept(size, n) ==
  IF size >= MaxBytes THEN size
  ELSE size + (IF MaxBytes - size < n THEN MaxBytes - size ELSE n)

DataArrives(t, n) ==
  /\ t.at = "receiving" /\ t.arrived < MaxBytes + n
  /\ Step(t, [t EXCEPT !.size = Kept(@, n), !.arrived = @ + n])
  /\ UNCHANGED <<announced, begun, files, delivered>>

\* 10 ms are over: what comes later is in no file.
Timer(t) ==
  /\ t.at = "receiving"
  /\ Step(t, [t EXCEPT !.at = "writing"])
  /\ UNCHANGED <<announced, begun, files, delivered>>

Written(t) ==
  /\ t.at = "writing"
  /\ files' = [files EXCEPT ![t.file] = t.size]
  /\ delivered' = delivered \cup {[asked |-> t.asked, to |-> t.to]}
  /\ Done(t)
  /\ UNCHANGED <<announced, begun>>

FtpNext ==
  \/ \E c \in Client :
       \/ \E p \in DataPort : PortCommand(c, p)
       \/ \E op \in {"RETR", "STOR"}, f \in File : StartTransfer(c, op, f)
  \/ \E t \in transfers :
       Retrieve(t) \/ Fail(t) \/ Accept(t) \/ Timer(t) \/ Written(t) \/ \E n \in 1..2 : DataArrives(t, n)

FtpSpec == FtpInit /\ [][FtpNext]_ftpVars

-----------------------------------------------------------------------------
(* Properties *)

\* Data of a client that waits for its transfers goes over the port that it
\* announced before it asked, whatever other clients announce meanwhile; and
\* no file is larger than the limit, however the data is cut into pieces.
DataGoesWhereAsked ==
  /\ Patient => \A d \in delivered : d.to = d.asked
  /\ \A f \in File : files[f] <= MaxBytes
=============================================================================
