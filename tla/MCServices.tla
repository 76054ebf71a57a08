----------------------------- MODULE MCServices ------------------------------
(***************************************************************************)
(* Parts of the system that share no state, for TLC: the network, the      *)
(* sockets with the registry of services, the daemons for mail, logins,    *)
(* files and pages, and the desktop.  A behaviour picks one of them and    *)
(* the others do nothing, so that one run checks each on an instance of    *)
(* its own.  The properties are those of the modules.                      *)
(***************************************************************************)
EXTENDS Network, Sockets, Mail, Ssh, Ftp, Httpd, Desktop

CONSTANTS
  httpd, ftpd, sshd, named,     \* Sockets
  c1, c2, u, v,                 \* Mail (c1 and c2 also Ftp, Httpd)
  n, s                          \* Ssh

VARIABLE working                \* the part that works

MCPort == httpd :> 80 @@ ftpd :> 80 @@ sshd :> 22 @@ named :> 53

TextTo(w, t) ==
  << <<Rcpt(w)>>, <<Line("data")>>, <<Text(t), Line("dot")>> >>
MCChunks == c1 :> TextTo(u, "a") \o TextTo(u, "b") \o TextTo(v, "c") @@ c2 :> TextTo(u, "b")

\* These scripts are what MailsOfPatientClients asks of a client.
ASSUME ScriptsArePolite == \A c \in Mailer : Polite(c)

\* The account of sshd: a name and a password of one character each.
MCUser == <<n>>
MCPassword == <<s>>

allVars == <<working, vars, socketVars, mailVars, sshVars, ftpVars, httpVars, desktopVars>>

AllInit ==
  /\ working \in {"network", "sockets", "mail", "ssh", "ftp", "http", "desktop"}
  /\ Init
  /\ SocketsInit
  /\ MailInit
  /\ SshInit
  /\ FtpInit
  /\ HttpdInit
  /\ DesktopInit

\* One part works, the others do nothing.
Alone(part) ==
  /\ UNCHANGED working
  /\ IF part = "network" THEN TRUE ELSE UNCHANGED vars
  /\ IF part = "sockets" THEN TRUE ELSE UNCHANGED socketVars
  /\ IF part = "mail" THEN TRUE ELSE UNCHANGED mailVars
  /\ IF part = "ssh" THEN TRUE ELSE UNCHANGED sshVars
  /\ IF part = "ftp" THEN TRUE ELSE UNCHANGED ftpVars
  /\ IF part = "http" THEN TRUE ELSE UNCHANGED httpVars
  /\ IF part = "desktop" THEN TRUE ELSE UNCHANGED desktopVars

\* A bound: frames are sent while no network is routed.  Nothing that delivers
\* a frame reads the routes, nor do the routes depend on frames.
FramesOrRoutes == frames = 0 \/ \A k \in Machine : routes[k] = <<>>

AllNext ==
  \/ working = "network" /\ Next /\ Alone("network") /\ FramesOrRoutes'
  \/ working = "sockets" /\ SocketsNext /\ Alone("sockets")
  \/ working = "mail" /\ MailNext /\ Alone("mail")
  \/ working = "ssh" /\ SshNext /\ Alone("ssh")
  \/ working = "ftp" /\ FtpNext /\ Alone("ftp")
  \/ working = "http" /\ HttpdNext /\ Alone("http")
  \/ working = "desktop" /\ DesktopNext /\ Alone("desktop")

AllSpec == AllInit /\ [][AllNext]_allVars

\* Interfaces and addresses of the network can be exchanged.
Exchanged == Permutations(NicId) \cup Permutations(Mac)
=============================================================================
