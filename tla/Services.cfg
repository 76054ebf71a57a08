SPECIFICATION AllSpec
CONSTANTS
  NicId = {eth0, eth1}
  Mac = {aa, bb}
  Unknown = zz
  FirstHost = 2
  Machine = {k1}
  OldKernel = k0
  Net = {lan}
  Pool = lan
  Spelling = {net}
  Canonical = net
  MaxObjects = 2
  Kind = {"wired"}
  MaxRoutes = 2
  MaxFrames = 1
  MaxCommands = 2
  MaxReboots = 1
  httpd = httpd
  ftpd = ftpd
  sshd = sshd
  named = named
  Service = {httpd, ftpd, sshd, named}
  PortOf <- MCPort
  Slow = {named}
  Program = Program
  Nobody = Nobody
  MaxConnections = 1
  MaxRestores = 2
  c1 = c1
  c2 = c2
  u = u
  v = v
  Mailer = {c1, c2}
  PatientMailer = {c1, c2}
  Reader = {r1}
  Recipient = {u, v}
  Unreachable = {v}
  Chunks <- MCChunks
  MaxMailTime = 1
  n = n
  s = s
  Letter = {n, s}
  RightUser <- MCUser
  RightPassword <- MCPassword
  Impatient = FALSE
  MaxTyped = 8
  MaxTerminals = 2
  Client = {c1, c2}
  DataPort = {p, q}
  NoPort = NoPort
  File = {f}
  Patient = TRUE
  MaxBytes = 2
  MaxTransfers = 3
  Connection = {c1, c2}
  Outcome = {"found", "refused"}
  Immediate = {"refused"}
  MaxRequests = 2
  Display = {d1, d2, d3}
  MaxWindows = 2
  MaxMonitors = 3
  MaxPid = 3
  MaxKernels = 2
SYMMETRY Exchanged
CHECK_DEADLOCK FALSE
INVARIANTS
  RouterKnowsOnlyRoutes
  AddressIsLeased
  FramesOnce
  ListedListens
  MailsIntact
  LoginIsOwn
  DataGoesWhereAsked
  
PROPERTIES
  OnlyRacersLoseLines
  SurvivorsStay
