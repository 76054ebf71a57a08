-------------------------------- MODULE Mail ---------------------------------
(***************************************************************************)
(* The mail daemons smtpd and imapd (core/services/smtp.ts, imap.ts) over  *)
(* the files of /var/mail.                                                 *)
(*                                                                         *)
(* Each piece of data that arrives starts a loop process() over the buffer *)
(* of its connection.  A loop suspends after every line and, at the end of *)
(* a mail, while the file system works; meanwhile the other loops of the   *)
(* connection go on with the lines that follow.  Of a line only what the   *)
(* daemon does with it is kept: HELO and QUIT are one command that changes *)
(* nothing, and MAIL is left out, since the sender it sets is used like    *)
(* the recipient.                                                          *)
(***************************************************************************)
EXTENDS Naturals, Sequences, FiniteSets, Functions, SequencesExt

CONSTANTS
  Mailer,           \* connections to smtpd
  Reader,           \* connections to imapd
  PatientMailer,    \* the clients of smtpd that wait for each answer
  Recipient,        \* recipients
  Unreachable,      \* recipients whose directory cannot be made
  Chunks,           \* for each client, what it sends at a time: lines
  MaxMailTime       \* bound: milliseconds that pass

\* Everything that a client says.
Spoken == UNION {UNION {Range(Chunks[c][k]) : k \in DOMAIN Chunks[c]} : c \in Mailer}

ASSUME ChunksAssumption == Chunks \in [Mailer -> Seq(Seq(Spoken))]

VARIABLES
  sent,          \* how many chunks each client has sent
  answers,       \* the answers that it got
  buffer,        \* the lines that arrived and were not taken
  idle,          \* the loops of the connection that will take a line
  saving,        \* the loops that are at the end of a mail
  to, collecting, lines,    \* the session
  mail,          \* the files, by user and time
  clock,
  requested,     \* the file that a reader asked for
  got            \* what each reader got last

mailVars == <<sent, answers, buffer, idle, saving, to, collecting, lines, mail, clock, requested, got>>

\* Lines of the protocol and of mails.
Rcpt(u) == [line |-> "rcpt", arg |-> u]
Line(l) == [line |-> l]
Text(t) == [line |-> "text", arg |-> t]

NoUser == "nobody"
NoFile == <<>>
Empty == [to |-> NoUser, lines |-> <<>>]

MailInit ==
  /\ sent = [c \in Mailer |-> 0] /\ answers = [c \in Mailer |-> 0]
  /\ buffer = [c \in Mailer |-> <<>>]
  /\ idle = [c \in Mailer |-> 0] /\ saving = [c \in Mailer |-> {}]
  /\ to = [c \in Mailer |-> NoUser] /\ collecting = [c \in Mailer |-> FALSE]
  /\ lines = [c \in Mailer |-> <<>>]
  /\ mail = <<>> /\ clock = 0
  /\ requested = [r \in Reader |-> NoFile] /\ got = [r \in Reader |-> Empty]

Put(files, f, m) == [g \in DOMAIN files \cup {f} |-> IF g = f THEN m ELSE files[g]]

-----------------------------------------------------------------------------
(***************************************************************************)
(* The client.  A mail's text is not answered, every other line is.        *)
(***************************************************************************)
SentLines(c) == FlattenSeq(SubSeq(Chunks[c], 1, sent[c]))
Due(c) == Cardinality({i \in DOMAIN SentLines(c) : SentLines(c)[i].line # "text"})

ChunkArrives(c) ==
  /\ sent[c] < Len(Chunks[c])
  /\ c \in PatientMailer => answers[c] = Due(c)
  /\ sent' = [sent EXCEPT ![c] = @ + 1]
  /\ buffer' = [buffer EXCEPT ![c] = @ \o Chunks[c][sent[c] + 1]]
  /\ idle' = [idle EXCEPT ![c] = @ + 1]
  /\ UNCHANGED <<answers, saving, to, collecting, lines, mail, clock, requested, got>>

-----------------------------------------------------------------------------
(***************************************************************************)
(* process and handle of smtpd                                             *)
(***************************************************************************)
TakeLine(c) ==
  /\ idle[c] > 0 /\ buffer[c] # <<>>
  /\ buffer' = [buffer EXCEPT ![c] = Tail(@)]

\* After DATA all lines up to the dot belong to the mail.
Collect(c) ==
  /\ collecting[c] /\ TakeLine(c) /\ Head(buffer[c]) # Line("dot")
  /\ lines' = [lines EXCEPT ![c] = Append(@, Head(buffer[c]))]
  /\ UNCHANGED <<sent, answers, idle, saving, to, collecting, mail, clock, requested, got>>

\* The dot: the loop goes on when the directories are made and the file open.
\* Nothing tells the other loops so.
EndOfMail(c) ==
  /\ collecting[c] /\ TakeLine(c) /\ Head(buffer[c]) = Line("dot")
  /\ idle' = [idle EXCEPT ![c] = @ - 1]
  /\ saving' = [saving EXCEPT ![c] = @ \cup {[dot |-> sent[c], dir |-> to[c], file |-> NoFile]}]
  /\ UNCHANGED <<sent, answers, to, collecting, lines, mail, clock, requested, got>>

Command(c) ==
  /\ ~collecting[c] /\ TakeLine(c)
  /\ LET l == Head(buffer[c])
     IN /\ to' = IF l.line = "rcpt" THEN [to EXCEPT ![c] = l.arg] ELSE to
        /\ collecting' = [collecting EXCEPT ![c] = l.line = "data"]
  /\ answers' = [answers EXCEPT ![c] = @ + 1]
  /\ UNCHANGED <<sent, idle, saving, lines, mail, clock, requested, got>>

\* A loop that finds no line ends.
EndLoop(c) ==
  /\ idle[c] > 0 /\ buffer[c] = <<>>
  /\ idle' = [idle EXCEPT ![c] = @ - 1]
  /\ UNCHANGED <<sent, answers, buffer, saving, to, collecting, lines, mail, clock, requested, got>>

-----------------------------------------------------------------------------
(***************************************************************************)
(* The end of a mail                                                       *)
(***************************************************************************)
Save(c, s, t) == saving' = [saving EXCEPT ![c] = (@ \ {s}) \cup {t}]

\* The directories are there, or were not made; the file is named after the
\* time, opened and, with what the session has now, written.
OpenFile(c, s) ==
  /\ s.file = NoFile /\ s.dir \notin Unreachable
  /\ LET f == <<s.dir, clock>>
     IN /\ mail' = IF f \in DOMAIN mail THEN mail ELSE Put(mail, f, Empty)
        /\ Save(c, s, [s EXCEPT !.file = f])
  /\ UNCHANGED <<sent, answers, buffer, idle, to, collecting, lines, clock, requested, got>>

\* The error ends the loop; the session goes on collecting.
OpenFails(c, s) ==
  /\ s.file = NoFile /\ s.dir \in Unreachable
  /\ saving' = [saving EXCEPT ![c] = @ \ {s}]
  /\ UNCHANGED <<sent, answers, buffer, idle, to, collecting, lines, mail, clock, requested, got>>

\* (mutation) the lines of the mail are not cleared.
Cleared_Not(ls) == ls
Cleared(ls) == <<>>

\* What the mail is made of is read when the file is open, and the session
\* is reset when it is written: what comes between is in no mail.
WriteFile(c, s) ==
  /\ s.file # NoFile /\ "content" \notin DOMAIN s
  /\ Save(c, s, [dot |-> s.dot, dir |-> s.dir, file |-> s.file,
                 content |-> [to |-> to[c], lines |-> lines[c]]])
  /\ UNCHANGED <<sent, answers, buffer, idle, to, collecting, lines, mail, clock, requested, got>>

Saved(c, s) ==
  /\ "content" \in DOMAIN s
  /\ mail' = Put(mail, s.file, s.content)
  /\ lines' = [lines EXCEPT ![c] = Cleared(@)]
  /\ collecting' = [collecting EXCEPT ![c] = FALSE]
  /\ answers' = [answers EXCEPT ![c] = @ + 1]
  /\ saving' = [saving EXCEPT ![c] = @ \ {s}]
  /\ idle' = [idle EXCEPT ![c] = @ + 1]
  /\ UNCHANGED <<sent, buffer, to, clock, requested, got>>

-----------------------------------------------------------------------------
\* imapd: LIST names the files, RETR reads one.
Retr(r, f) ==
  /\ requested[r] = NoFile
  /\ requested' = [requested EXCEPT ![r] = f]
  /\ UNCHANGED <<sent, answers, buffer, idle, saving, to, collecting, lines, mail, clock, got>>

Retrieved(r) ==
  /\ requested[r] # NoFile
  /\ got' = [got EXCEPT ![r] = mail[requested[r]]]
  /\ requested' = [requested EXCEPT ![r] = NoFile]
  /\ UNCHANGED <<sent, answers, buffer, idle, saving, to, collecting, lines, mail, clock>>

MailTick ==
  /\ clock < MaxMailTime
  /\ clock' = clock + 1
  /\ UNCHANGED <<sent, answers, buffer, idle, saving, to, collecting, lines, mail, requested, got>>

Server(c) ==
  \/ Collect(c) \/ EndOfMail(c) \/ Command(c) \/ EndLoop(c)
  \/ \E s \in saving[c] : OpenFile(c, s) \/ OpenFails(c, s) \/ WriteFile(c, s) \/ Saved(c, s)

MailNext ==
  \/ \E c \in Mailer : ChunkArrives(c) \/ Server(c)
  \/ \E r \in Reader : Retrieved(r) \/ \E f \in DOMAIN mail : Retr(r, f)
  \/ MailTick

MailSpec == MailInit /\ [][MailNext]_mailVars

-----------------------------------------------------------------------------
(* Properties *)

\* m is a mail of the client's script: what stands between a DATA and the
\* next dot, for the recipient of the RCPT before.
IsMail(c, m) ==
  LET all == FlattenSeq(Chunks[c])
      is(i, l) == all[i].line = l
  IN \E r, e \in DOMAIN all : \E d \in r + 1..e - 1 :
       /\ is(r, "rcpt") /\ is(d, "data") /\ is(e, "dot")
       /\ \A k \in r + 1..d - 1 : ~is(k, "rcpt")
       /\ \A k \in r..e - 1 : ~is(k, "dot")
       /\ m = [to |-> all[r].arg, lines |-> SubSeq(all, d + 1, e - 1)]

\* What a client that keeps to the protocol says: RCPT before the DATA of a
\* mail, then its text, then the dot, after which it waits.  It may say other
\* things between its mails.
Polite(c) ==
  LET all == FlattenSeq(Chunks[c])
      is(i, l) == all[i].line = l
      inside(d, i) == is(d, "data") /\ \A k \in d..i : ~is(k, "dot")
  IN /\ \A k \in DOMAIN Chunks[c] : \A i \in DOMAIN Chunks[c][k] :
          Chunks[c][k][i].line = "dot" => i = Len(Chunks[c][k])
     /\ \A i \in DOMAIN all : is(i, "dot") => all[i] = Line("dot")
     /\ \A d \in DOMAIN all : is(d, "data") =>
          \E r \in 1..d - 1 : is(r, "rcpt") /\ \A k \in r + 1..d - 1 : ~is(k, "rcpt") /\ ~is(k, "dot")
     /\ \A i \in DOMAIN all :
          is(i, "text") <=> ~is(i, "dot") /\ \E d \in 1..i - 1 : inside(d, i)

\* Clients that wait for each answer get their mails stored as they sent
\* them, each in the directory of its recipient, however the daemon's loops
\* and other connections come between; and a reader never sees half a mail.
MailsIntact ==
  PatientMailer = Mailer =>
    /\ \A f \in DOMAIN mail :
         mail[f] = Empty \/ (mail[f].to = f[1] /\ \E c \in Mailer : IsMail(c, mail[f]))
    /\ \A r \in Reader : got[r] = Empty \/ \E c \in Mailer : IsMail(c, got[r])
=============================================================================
