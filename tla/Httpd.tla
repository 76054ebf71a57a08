-------------------------------- MODULE Httpd --------------------------------
(***************************************************************************)
(* Requests of httpd and its log (core/services/http.ts).  The loop of a   *)
(* connection starts the handler of every request and waits for none.  A   *)
(* handler answers when the file is read and then logs: it opens the log,  *)
(* reads it all and writes it all with its line behind.  These calls       *)
(* succeed: what a failing one leads to, a 404 after the 200 and a second  *)
(* try at the log, is left out.                                            *)
(***************************************************************************)
EXTENDS Naturals, Sequences, FiniteSets, SequencesExt

CONSTANTS
  Connection,
  Outcome,        \* of a request: GET or HEAD of a file, or what is refused
  Immediate,      \* those that are answered without a read: 501, 403
  MaxRequests     \* bound

VARIABLES
  requests,       \* how many came on each connection
  handlers,       \* the handlers under way
  responses,      \* the responses of each connection, in order
  log,            \* the lines of /var/log/httpd
  alone           \* those that shared their time at the log with no other

httpVars == <<requests, handlers, responses, log, alone>>

HttpdInit ==
  /\ requests = [c \in Connection |-> 0] /\ handlers = {}
  /\ responses = [c \in Connection |-> <<>>]
  /\ log = <<>> /\ alone = {}

RequestOf(h) == <<h.conn, h.number>>

\* processBuffer: a request that needs no file is answered at once.
RequestArrives(c, o) ==
  /\ requests[c] < MaxRequests
  /\ requests' = [requests EXCEPT ![c] = @ + 1]
  /\ LET h == [conn |-> c, number |-> requests[c] + 1,
               at |-> IF o \in Immediate THEN "open" ELSE "file", prev |-> <<>>]
     IN /\ handlers' = handlers \cup {h}
        /\ responses' = IF o \in Immediate THEN [responses EXCEPT ![c] = Append(@, h.number)]
                        ELSE responses
  /\ UNCHANGED <<log, alone>>

\* The file was read or is not there: 200 or 404, in any order.
Respond(h) ==
  /\ h.at = "file"
  /\ responses' = [responses EXCEPT ![h.conn] = Append(@, h.number)]
  /\ handlers' = (handlers \ {h}) \cup {[h EXCEPT !.at = "open"]}
  /\ UNCHANGED <<requests, log, alone>>

AtLog == {h \in handlers : h.at \in {"read", "write"}}

\* The directories are there and the log is open.
OpenLog(h) ==
  /\ h.at = "open"
  /\ handlers' = (handlers \ {h}) \cup {[h EXCEPT !.at = "read"]}
  /\ alone' = IF AtLog = {} THEN alone \cup {RequestOf(h)}
              ELSE alone \ {RequestOf(g) : g \in AtLog}
  /\ UNCHANGED <<requests, responses, log>>

\* (mutation) the line is written without what was there.
Read_Nothing(l) == <<>>
Read(l) == l

ReadLog(h) ==
  /\ h.at = "read"
  /\ handlers' = (handlers \ {h}) \cup {[h EXCEPT !.at = "write", !.prev = Read(log)]}
  /\ UNCHANGED <<requests, responses, log, alone>>

WriteLog(h) ==
  /\ h.at = "write"
  /\ log' = Append(h.prev, RequestOf(h))
  /\ handlers' = handlers \ {h}
  /\ UNCHANGED <<requests, responses, alone>>

HttpdNext ==
  \/ \E c \in Connection, o \in Outcome : RequestArrives(c, o)
  \/ \E h \in handlers : Respond(h) \/ OpenLog(h) \/ ReadLog(h) \/ WriteLog(h)

HttpdSpec == HttpdInit /\ [][HttpdNext]_httpVars

-----------------------------------------------------------------------------
(* Properties *)

\* Only requests whose logging overlaps lose lines of the log: one that is
\* alone at the log when it writes keeps every line and adds its own; and no
\* request is logged twice.
OnlyRacersLoseLines ==
  [][\A h \in handlers :
       h.at = "write" /\ h \notin handlers' /\ RequestOf(h) \in alone =>
         log' = Append(log, RequestOf(h)) /\ ~Contains(log, RequestOf(h))]_httpVars
=============================================================================
