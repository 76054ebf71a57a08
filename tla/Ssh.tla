--------------------------------- MODULE Ssh ---------------------------------
(***************************************************************************)
(* The login and the shell of an sshd connection (core/services/ssh.ts).   *)
(* Text arrives in pieces, which the handler takes character by character. *)
(* A line end in stage pass starts a check and the stage stays pass until  *)
(* the check, which reads files, is done: a second line end starts a       *)
(* second check.                                                           *)
(***************************************************************************)
EXTENDS Naturals, Sequences, FiniteSets, SequencesExt

CONSTANTS
  Letter,       \* characters other than the line end
  RightUser, RightPassword,      \* the one account: texts
  Impatient,    \* whether the client types on while its password is checked
  MaxTyped, MaxTerminals         \* bounds

VARIABLES
  typed,       \* how many characters came
  arriving,    \* the rest of the piece that is being taken
  stage, user, pass,
  checks,      \* the checks under way: what each was started with
  terminals,   \* the pseudo-terminals with a shell that the connection has
  pty,         \* the one that input goes to and output comes from, 0 for none
  since        \* the texts typed since the last prompt: watched

sshVars == <<typed, arriving, stage, user, pass, checks, terminals, pty, since>>

LineEnd == "line end"

SshInit ==
  /\ typed = 0 /\ arriving = <<>>
  /\ stage = "user" /\ user = <<>> /\ pass = <<>>
  /\ checks = <<>> /\ terminals = 0 /\ pty = 0
  /\ since = << <<>> >>

\* A piece of text of one or two characters; in a shell all goes to the pty.
\* A patient client sends nothing after a line end until it sees a prompt.
Type(piece) ==
  /\ arriving = <<>> /\ typed + Len(piece) <= MaxTyped
  /\ ~Impatient => checks = <<>> /\ LineEnd \notin Range(Front(piece))
  /\ typed' = typed + Len(piece)
  /\ arriving' = IF stage = "shell" THEN <<>> ELSE piece
  /\ UNCHANGED <<stage, user, pass, checks, terminals, pty, since>>

\* What the client has typed: texts, a line end begins the next.
Typed(ch) == IF ch = LineEnd THEN Append(since, <<>>)
             ELSE [since EXCEPT ![Len(since)] = Append(@, ch)]

TakeCharacter ==
  /\ arriving # <<>>
  /\ arriving' = Tail(arriving)
  /\ LET ch == Head(arriving)
     IN /\ since' = Typed(ch)
        /\ stage' = IF stage = "user" /\ ch = LineEnd THEN "pass" ELSE stage
        /\ user' = IF stage = "user" /\ ch # LineEnd THEN Append(user, ch) ELSE user
        /\ pass' = IF stage = "pass" /\ ch # LineEnd THEN Append(pass, ch) ELSE pass
        /\ checks' = IF stage = "pass" /\ ch = LineEnd
                       THEN Append(checks, [user |-> user, pass |-> pass]) ELSE checks
  /\ UNCHANGED <<typed, terminals, pty>>

Right(c) == c.user = RightUser /\ c.pass = RightPassword

\* startShell: the terminal before, if there is one, is forgotten.
LetIn(i) ==
  /\ Right(checks[i]) /\ arriving = <<>> /\ terminals < MaxTerminals
  /\ stage' = "shell"
  /\ terminals' = terminals + 1 /\ pty' = terminals + 1
  /\ checks' = RemoveAt(checks, i)
  /\ UNCHANGED <<typed, arriving, user, pass, since>>

\* (mutation) the password stays.
Forgotten_Not(p) == p
Forgotten(p) == <<>>

Refuse(i) ==
  /\ ~Right(checks[i]) /\ arriving = <<>>
  /\ stage' = "user" /\ user' = <<>> /\ pass' = Forgotten(pass)
  /\ since' = << <<>> >>
  /\ checks' = RemoveAt(checks, i)
  /\ UNCHANGED <<typed, arriving, terminals, pty>>

SshNext ==
  \/ \E a \in Letter \cup {LineEnd} : Type(<<a>>) \/ \E b \in Letter \cup {LineEnd} : Type(<<a, b>>)
  \/ TakeCharacter
  \/ \E i \in DOMAIN checks : LetIn(i) \/ Refuse(i)

SshSpec == SshInit /\ [][SshNext]_sshVars

-----------------------------------------------------------------------------
(* Properties *)

\* A client that waits while its password is checked is judged by what it
\* typed since the last prompt, also after failures, and has one terminal,
\* the one that its input goes to, exactly when it is in the shell.
LoginIsOwn ==
  ~Impatient =>
    /\ \A i \in DOMAIN checks :
         checks[i].user = since[1] /\ checks[i].pass = since[2]
    /\ terminals <= 1 /\ (stage = "shell") = (terminals = 1) /\ pty = terminals
=============================================================================
