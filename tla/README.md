# Formal models of Helios-OS

TLA+ modules that model the Helios-OS kernel, its file systems and its Rust
host, TLC configurations that check them on small instances, and TLAPS proofs
that hold for instances of every size. `PROJECT.json` lists the runs, the source
lines that each definition stands for, the hazards of the code with the
properties that watch them, a mutant of the code for each property, and the
theorems. Paths below are relative to the repository.

    tlc -config SchedulerRefinement.cfg SchedulerRefinement
    tlapm SchedulerProofs.tla

A module whose name ends in `Proofs` holds the theorems about the modules it
extends, `ListLemmas.tla` the lemmas that several of them cite.

Contents: 1 the system, 2 inventory, 3 the modules and the code they stand for,
4 the runs, 5 fairness, 6 proofs, 7 what the models found, 8 what is not
modelled, 9 the plan.

## 1. The system

Helios-OS is a desktop "operating system" in TypeScript. One JavaScript thread,
the page of a Tauri application, holds the kernel. A Rust process, the *host*,
runs every program in a V8 isolate of its own on a thread pool and keeps the
virtual network hub, the DHCP leases and an SQLite database. They talk in two
ways:

- the kernel sends the host Tauri *commands* (`run_isolate_slice`,
  `drop_isolate`, `save_snapshot`, `db_exec`, ...), each answered by a promise;
- a program's syscall blocks its thread on the host, which sends the page an
  *event* `syscall`; the kernel answers it with the command `syscall_response`.

So three kinds of concurrency meet: asynchronous functions of the page
interleave at every `await`; tasks of the host's thread pool run beside the page,
and beyond the slice they were started for; and several kernels can live in one
page after a reboot. A crash of the application loses the page and the isolates
and keeps the database.

## 2. Inventory

For each component: its state, its operations, what is hard about it, and what
makes it correct. The status of each is in `PROJECT.json` (`components`).

**Process table and scheduler** (`core/kernel/process.ts`, `Kernel.start` and
`stop`, `spawn`, `kill`, `set_quota`). State: the PCBs, `nextPid`, the ready queue,
the loop's own copy of it for the round, the dispatcher map. The loop awaits one
slice at a time; meanwhile programs spawn and kill. *Hard*: a queue that is copied,
filtered and pushed to around awaits; quotas that end a process between slices;
`init`, which must survive. *Correct*: a live process has exactly one place in the
scheduler, an exited one none; one turn per round; every program gets to its end.

**Host isolates** (`host/src/main.rs`). State: `ISOLATES` and the tasks under way. A
slice has a time limit, and the blocking task behind it does not: it goes on, and
puts its isolate back whenever it ends. `drop_isolate` is sometimes not awaited.
*Correct*: never two isolates of one process.

**Syscall bus, snapshots and reboot** (`createSyscallDispatcher`, `Kernel.create`,
`restore`, `snapshot`, `stop`, `reboot`, `core/fs/sqlite.ts`, `ui/hooks/useKernel.ts`,
`host/src/db.rs`). State: the dispatcher map shared by all kernels of the page, their
listeners, the pending calls, the active and the named snapshots. *Hard*: a listener
is never removed; `stop` awaits neither the save nor the loop; a kernel that was
replaced still serves the slice that replaced it. *Correct*: a call is handled only
for the slice it was made in; a reboot keeps acknowledged work; what the host stores
can be restored.

**PersistentFileSystem** (`core/fs/persistent.ts`). State: the tables `inodes` and
`file_data` behind one connection, an LRU cache from paths to inodes. *Hard*: every
call is a sequence of statements that interleave with those of others, inside one
another's transactions; the cache is filled from replies that may be old. *Correct*:
size and data agree on disk; the inodes are a tree; the cache says what the tables
say; every transaction ends.

**In-memory file system** (`core/fs/index.ts`). State: a map from paths to nodes and,
in each directory, a map of children; the record of mounts; what was persisted
last. *Hard*: the same fact is kept twice and a restore makes copies of what was one
object; `mount` throws midway; a rename can make a cycle. *Correct*: both views agree
and nothing becomes unreachable.

**Disk images** (`syscall_mount`, `syscall_unmount`). State: `mountedVolumes` next to the
file system's record, the image files. *Hard*: the write-back is awaited after the tree
was unmounted. *Correct*: kernel and file system agree on what is mounted.

**File descriptors and file I/O** (`syscalls.ts`). State: descriptors with positions,
per process. *Hard*: `write` reads the file, awaits and writes it back. *Correct*:
no write is lost; positions are where reads and writes left them.

**Pseudo-terminals** (`core/kernel/tty.ts`). State: two byte buffers and two lists of
waiters per terminal. *Hard*: all waiters are woken for one write, readers share a side,
the terminals are gone after a reboot and the descriptors are not. *Correct*: bytes arrive
once and in order; no wake-up is lost; an empty read means that somebody else read.

**/proc** (`registerProc`, `registerProcFd`, `removeProcFd`). State: files under
`/proc/<pid>/fd`. *Correct*: they are the open descriptors, also those that an unmount
closes for other processes.

**TCP and UDP sockets, service registry** (`core/net/tcp.ts`, `udp.ts`,
`registerService`, `stopService`). State: listeners by port, connections, services by
name. *Hard*: services that share a port, restarts from a snapshot without functions, a
service that registers after an await. *Correct*: a registered service's port is listened
on, that of a stopped one is not.

**Network interfaces, router, switch, ICMP** (`core/net/*.ts`) and the **host's hub,
DHCP and Wi-Fi** (`main.rs`). State: frame queues, a route map kept twice, leases, which
outlive the kernels. *Hard*: answers that arrive when the interface was removed or
replaced, two receivers of one queue, reboots in between. *Correct*: two interfaces never
have one address; the router forwards what is in the map only; no frame arrives twice.

**HTTP, SSH, SMTP, IMAP, FTP** (`core/services`). One state machine per connection
whose handlers await the file system in the middle of a command, so that the next piece of
data starts a second handler over the same state. *Correct*: mails are stored as sent, a
login is judged by what was typed for it, data goes where it was asked for, lines of the
log are lost to races only.

**DNS** (`dns.ts`): a cache and a query that races with a timer of 50 ms. *Correct*: one
answer, and always one. **Coin** (`coin.ts`): nodes that call each other from inside their
handlers. *Correct*: the calls end and the peers of a miner catch up.

**Desktop state** (`core/kernel/index.ts`, `ui/components/WindowManager.tsx`): windows,
owners and monitors of the kernel, and the list of windows that the page shows, which
follows by events. *Hard*: monitors are renumbered; restore sends the events of all windows
again. *Correct*: windows stay on their monitors; what is shown as crashed does not run.

**Jobs and ps**, **event bus and path helpers**, **file system helpers**, **user
interface**, **programs**, **build tools**: see section 8.

## 3. The modules and the code they stand for

Every definition that models code has its lines under `map`. Definitions whose
name ends in an underscore and a word (`Without_Unfiltered`) are the code with one
plausible bug; they are used by the mutants only and by no action.

### Scheduler, RoundRobin, SchedulerRefinement

`Scheduler.tla` is `Kernel.start`, `stop`, `runProcess`, `createProcess`, `spawn`,
`kill`, `set_quota`, `single_user`, with `run_isolate_slice` and `drop_isolate` of the
host. Its variable `pc` is where the loop stands: an action is the code between two
awaits that wait for something outside the page.

| code | definition |
|---|---|
| the `while` and `for` of `start` | `LoopEnd`, `LoopTake`, `IdleTimer` |
| `runProcess`: no code; call the host | `RunSkip`, `RunLaunch` |
| `runProcess`: after the slice, and quotas | `ResumeDone`, `ResumeTimeout`, `ResumeErr`, `DropAwaited` |
| host: take or build the isolate, run, put back | `HostBegin`, `HostBeginFails`, `HostFinish` |
| host: `timeout` abandons the task | `Timeout`, which moves the task to `late` |
| host: `drop_isolate` | `DropAwaited`, `HostDrop` |
| `syscall_spawn`, `syscall_kill`, `set_quota`, `single_user`, `stop` | `Spawn`, `Kill`, `SetQuota`, `SingleUser`, `Stop` |

A syscall is made by a process whose script executes (`Caller`), in its slice or
after it. What a slice used of time and memory is nondeterministic and saturates at
`CpuCap` and `MemCap`; only comparisons with the quotas matter. `MaxLate` bounds how many
processes have tasks that outlived their slices.

`RoundRobin.tla` is what the scheduler promises, without a CPU, tasks or isolates: a
set of processes waiting, a set still to run in this round, one at most running.
`SchedulerRefinement.tla` instantiates it with the ready queue, the batch and the
process on the CPU, and `RoundRobinTurns` says that the scheduler implements it.

### PersistentFs

`PersistentFs.tla` is `persistent.ts` statement by statement. `db` is what the
connection sees, `saved` what is committed, `tx` whose `BEGIN IMMEDIATE` is open, and
`call[c]` the call of each caller with its control point. `Call` starts an operation;
`SelectStep`/`Selected` are `lookup`, with the reply handled later than the statement
executes, because `lookup` then uses the cache; `Begin`/`Begun`, `Commit`/`Committed`,
`Rollback` are `writeTx`; `InsertStep`, `InsertBlob`, `Created` are the two inserts of
`open` and the one of `mkdir`; `Replace` and `Size` are the two statements of `write`;
`Kids`, `DeleteStep`, `RemoveStep` are `unlink` and `unmount`; `Move` is `rename`.
`Crash` restarts on `saved` with an empty cache, `Evict` drops an entry of the cache: the
LRU order is abstracted to "any entry may be gone". `NodeAt` is where a path leads in the
tables, against which the cache is measured. The paths of the working directory,
permissions and times are left out. SQLite is modelled by what the code uses of it:
UNIQUE and FOREIGN KEY constraints, ON DELETE CASCADE, ids one above the largest,
one transaction at a time.

### InMemoryFs and Volumes

`InMemoryFs.tla` has the tree of `core/fs/index.ts` as functions from paths to nodes,
with `kids` (the names in the map of children) and `copies` (children that a restore has
made copies, with all below them). `Create`, `WriteFile`, `Remove`, `Rename`,
`RenameIntoItself`, `MountImage`, `MountFails`, `UnmountImage`, `Restore` are the
methods, each with the `persist` at its end, which nobody awaits: `saves` are the calls of
`save_fs` that the host has still to handle, in the order they were made (they are
synchronous commands of its main thread), `SaveEnds` handles one, which may fail (`missed`),
and `saved` is what the next kernel would boot with. `circular` is a tree that
`JSON.stringify` refuses. `Volumes.tla` EXTENDS it with the kernel's disk images: `Mount`,
`MountTaken`, `MountUnreadable`, `Unmount` with `WriteBack` or `WriteBackFails` as a later
step, `Reboot` and `Crash`. `Crash` is enabled in every state and loses the saves under way.
`Kernel.create` prefers the snapshot of a kernel to what `save_fs` wrote: once there is one
(`booted`), a crash goes back to it, whatever was removed since, and the calls of `save_fs`
are of no account. What `mount` accepts as an image is `IsImage`: one node for a path, and
the directory of each node among them. The microtask between the test for a free mount point
and the entry of the mount is no step of its own.

### Reboot

`Reboot.tla` has several kernels of one page. A syscall goes from `emitted` to
`answered` through the listener of every kernel and the dispatcher registered for its
process; `Work` stands for every call that changes the state, of two kinds: `work` changes
what `snapshot` lists and `restore` brings back, as the tables of processes, windows, routes
and sockets, and `passing` what it does not, as the single-user mode, functions that
listen, terminals, the router and the file system's records of mounts. `Snapshot` takes the
first kind only (`Lasting`); what becomes of the second is in the module of each part
(`Pty`, `Sockets`, `Network`, `Volumes`). `SaveSnapshot`, `SaveNamed`, `LoadNamed` and
`Reboot` are those calls; `Drop` is a call that nobody answers. `commands` is the queue of
Tauri commands that were sent, handled by the host in order (they are synchronous commands
of its main thread): `HostSave`,
`HostSaveNamed`, `HostLoad`, `HostLoadNothing`, `Boot`. `CloseApp` is the window
closing: the handler of `beforeunload` saves the latest kernel, isolates and threads
die, and the next life boots from the database. The history variables `base`, `origin` and
`ackedAtStop` only serve the properties.

Abstractions: a kernel's state is the set of working calls that changed it and its
process table; a first slice begins its script when it is launched (tasks that wait
for a thread are in `Scheduler.tla`); taking a finished isolate out and putting it
back are one step, and so are the end of a slice and the answer of `drop_isolate`, which
`runProcess` awaits before it deletes the dispatcher; equal saves sent together are one;
after `CloseApp` call ids start again and all earlier work is the one element 0.
`SliceTimeout` also stands for the process that a restored quota of `null` ends.

### FileIO

`FileIO.tla` is the file calls of `syscalls.ts` as handlers that run from one await to the
next: `OpenFile`, `OpenChecked`, `OpenMeasured` are the three parts of `open` (permissions,
the length for the flag `a`, the descriptor); `ReadFile`/`ReadDone`; `WriteFetch`,
`WriteMerged`, `WriteDone` (read all, replace a part, write all back); `Close`, `Mkdir`,
`Readdir`, `Unlink`, `Rename`, `Chdir`; `Mount`, and `Unmount` followed by `CloseVolume`,
which closes descriptors of any process below the mount point. `procFds` is the files
under `/proc/<pid>/fd`. A process waits for its call, so one process alone never
interleaves with itself, until a reboot: then every listener handles every call
(`Reboot` adds one), all on the descriptors of the newest kernel. The first answer counts, a
handler that throws gives none, a killed process makes no more calls. A file is an owner, a
kind and a sequence of bytes (`IsNode`); `Rename` moves a subtree with `Moved`.

### Pty and ByteStreams

`Pty.tla` is `PtyManager` and the ways to a terminal: `Allocate`, `OpenMaster`
(`/dev/ptmx`), `OpenSide` (`/dev/tty<n>`, `/dev/pty<n>`, which allocates the next number
when there is no terminal n), `Close`, `Write`, `ReadBytes`, `Wait`, `Kill`, `Reboot`. The
waiters of a side are a set: a write wakes them all. The manager is not
in the snapshot: a reboot empties it, the descriptors keep their numbers. After k reboots
k + 1 listeners run the handler of a program's call (`Handlers`) one after the other: a read
splices as often and the program gets the first piece, a write is appended as often, an
open of a terminal that is missing may allocate more than one. A wait that is under way at a
reboot is never answered (`lost`), unless the next kernel begins the program anew.
`ByteStreams.tla` promises streams: what is taken is a prefix of what was put.
`ImplementsStreams` maps the histories of each buffer to it; what is taken is what handlers
took, which is what the program reads as long as there is one.

### HostHub, Network

`HostHub.tla` is the host's side: `RegisterNic`, frame queues, `dhcp_request` and the pool.
`Network.tla` EXTENDS it with the kernels of the host: `CreateNic`, `RemoveNic`,
`NicConfig`, `RouteAdd`, `AddRoute`, `RouteDel`, `Forward`, `RequestLease`/`GetLease`,
`JoinWifi`/`JoinedWifi`, `Send`, `Ask`/`Receive`/`Take` (the two halves of a receive and
the program that reads), `StartNetworking` (it makes the interfaces anew with `NewNics`,
keeps the routes of `LiveRoutes` and enters those in the new router, `Entries`), `Reboot`.
Interfaces are objects: one that was removed lives on in the router and in calls
under way. Commands are handled in any order; those of one interface id that are under way
have numbers (`call`), so that two equal requests are two. Two machines that use one
interface id share its lease and its entry in the host, as in the code. A reboot leaves the
objects of the old kernel as they are, with what they have received (`left` says of which
reboot), beside their copies in the snapshot. Its calls under way go on (`Orphaned`), and
since its syscall listener stays, its interfaces can be configured, sent and received with
(`OldKernel`). The routes it enters and the interfaces it makes from then on, which nothing
else sees, are left out, and so is a restart of the application, at which the host
forgets its leases and the snapshot keeps the addresses. After a reboot nobody calls
`startNetworking`; `Router.forward` has no caller but the tests. `switch.ts` and `icmp.ts`
are used by nothing else.

### Sockets, Mail, Ssh, Ftp, Httpd, Dns, Coin

`Sockets.tla` is the listeners and the registry: `StartService`, `Started` (for `named`,
which registers after it has read its zone), `StopService`, `Listen`, `Connect`,
`RestoreSockets`.
Both protocols have the same code; a connection runs the handlers of the other end at once.

- `Mail.tla`: `smtpd` and `imapd`. Each piece of data (`ChunkArrives`) starts a loop over the
  buffer; a loop suspends after every line (`Command`, `Collect`, `EndOfMail`, `EndLoop`) and
  while a mail is written (`OpenFile`, `OpenFails`, `WriteFile`, `Saved`). `Retr` and
  `Retrieved` are the reader's.
- `Ssh.tla`: `TakeCharacter` goes through a piece of text character by character; a line end in
  stage `pass` starts a check, which ends later in `LetIn` or `Refuse`. A client that
  is `Impatient` types on meanwhile.
- `Ftp.tla`: `PortCommand`, `StartTransfer`, and a transfer's steps `Retrieve`, `Accept`,
  `DataArrives`, `Timer`, `Written`, `Fail`.
- `Httpd.tla`: requests that are answered in any order (`RequestArrives`, `Respond`), and the
  log that each reads and writes back (`OpenLog`, `ReadLog`, `WriteLog`).
- `Dns.tla`: `Arrive`, `UpstreamAnswers`, `TimeOut`, `Tick`.
- `Coin.tla`: what remains of the nested calls is the stack `work`; `Handle` takes its top.

### Desktop

`Desktop.tla` has the kernel's windows, owners and monitors beside the page's list:
`Draw` (k + 1 times after k reboots), `Exit`, `Crash` with its events, `AddMonitor` and
`RemoveMonitor` (k + 1 times as well, `Gone`), `RebootDesktop` and `StartAgain` with the events
of `restore`; `FocusWindow`, `CloseShown`, `RestartWindow` in the page. A monitor is an element
of `Display`, which tells it from others when its number changes.

### MCServices and MCExchanges

Parts that share no state are checked in one run: the variable `working` picks the
part of a behaviour and the others do nothing, so that the state space is the sum of theirs.
`MCServices` EXTENDS the network, the sockets, mail, ssh, ftp, http and the desktop,
`MCExchanges` the parts with liveness: named, coin and the terminals. Their properties are
the modules' own definitions, which the theorems of section 6 state too. What the modules
have in common is in `Lists.tla`: `Filter`, the `Array.filter` of the code with its condition
as a set, so that lemmas can be proved about it. A part that composes with another does so in its module:
`Network` with `HostHub`, `Volumes` with `InMemoryFs`, `FileIO` with mounts and reboots.

### Claims

`ProcessesResume` in `RebootClaims.tla` and `RenameKeepsFiles` in `Volumes.tla` state what
a comment and a document say and the code does not do (section 7).

## 4. The runs

Every run is exhaustive within its bounds. A mutant of the code makes each property of a
passing run fail (`mutants`).

| run | what it asks | bounds |
|---|---|---|
| `scheduler_turns` | queues, isolates and quotas stay consistent (`TypeOK`, `ScheduledOnce`, `NoneLost`, `OneIsolate`, `RepeatOffenderIsInit`), only the allowed signals end init (`InitProtected`), and the scheduler implements the round robin (`RoundRobinTurns`) | 3 processes, late tasks of 1 at a time |
| `scheduler_live` | every program but init's ends (`EveryProgramEnds`) | 2 processes, late tasks of both, finite and infinite quotas of time |
| `pfs_sequential` | the cache agrees with the tables and the inodes are a tree (`CacheAgrees`, `TreeOK`) | 1 caller, 2 names, depth 2, ids up to 3 |
| `pfs_crash` | sizes and data agree on disk (`SizeIsLength`) | 2 callers, 1 name, depth 2, ids up to 2, callers symmetric |
| `pfs_live` | every transaction ends (`TransactionsEnd`) | the same, without rename |
| `volumes` | names resolve, saved states follow, images are registered, nothing is orphaned but by three operations (`LinksResolve`, `DiskFollows`, `VolumesRegistered`, `NoNewOrphans`) | 6 paths, 4 nodes, 1 image, 2 saves under way, 1 reboot, 1 crash |
| `reboot` | calls run in their slices, a reboot keeps work, stored snapshots have their type, stopped loops end (`CallsRunInSlices`, `RebootKeepsWork`, `TypeOK`, `StoppedLoopsEnd`) | 2 processes, 3 kernels, 2 calls |
| `file_io` | the list under `/proc` is the open descriptors, a descriptor keeps its file, only a race loses bytes (`ProcFdsAgree`, `DescriptorKeepsFile`, `OnlyRacersLoseBytes`) | 2 processes, root and a user, 2 files of which 1 on a volume, 3 calls, 1 reboot |
| `services` | the router follows the routes, addresses are leased, frames arrive once; services and ports agree; mails, logins, transfers, the log; the desktop (`RouterKnowsOnlyRoutes`, `AddressIsLeased`, `FramesOnce`, `ListedListens`, `MailsIntact`, `LoginIsOwn`, `DataGoesWhereAsked`, `OnlyRacersLoseLines`, `SurvivorsStay`, `CrashedIsDead`) | see below |
| `exchanges` | queries are answered once, peers catch up and calls end, terminals are streams and lose no wake-up (`AnsweredOnce`, `EveryQueryAnswered`, `PeersCatchUp`, `WorkEnds`, `ImplementsStreams`, `EmptyReadsHaveRivals`, `BytesAreRead`) | see below |
| `claim_rename_keeps_files`, `claim_processes_resume` | one sentence of the repository each, refuted (section 7) | those of `volumes` and `reboot` |

Why these bounds are enough:

- *Scheduler.* Three processes give init, a caller and a target, a queue with a head, a
  middle and an end, and one process spawned or killed while another runs. Usage of memory
  is within its quota or over it (`MemCap = 2`); with `CpuCap = 1` every quota of time is
  infinite in `scheduler_turns`, since a second one makes the run too long, and
  `scheduler_live` has a finite one as well (`CpuCap = 2`). `MaxLate = 1` in
  `scheduler_turns` lets one process at a time have tasks that outlived their slices, any
  number of them; with two the run is too long. The proofs of section 6 remove
  the bounds for all safety properties of this component.
- *PersistentFs.* Interleaving needs two callers and one path on which they meet; two ids
  make an id that is freed and used again. The tree needs names that differ and three
  inodes, with one caller. All three properties are proved for all bounds.
- *Volumes.* Six paths of depth up to three have a directory with a directory and a file
  to be renamed, mounted over and unmounted; a mount needs one image, and a clash one entry.
  `MaxSaves = 2` lets a save be under way when the next is sent; a `mount` may send two. One
  reboot and one crash come in either order. `RunOn = FALSE`
  stops programs once a rename has put a directory into itself: `persist` throws from then
  on in every operation, and no property is asked of that state. The proofs have no bound.
- *Reboot.* Two processes let one reboot while the other is in the round; three kernels
  have a first, its successor by reboot or load, and the successor's; call counts bound
  the work that can be lost or kept. A reboot is handled by each listener, so a second
  reboot in one page needs four kernels, which this bound does not reach. The proofs
  of section 6 have no bound.
- *FileIO.* Two processes of different rights, three calls and one reboot make two handlers
  of one call meet with those of the other process: open beside open of one number, a
  write between the parts of another, a close or an unmount under a read. The proofs
  remove the bounds.
- *Network.* Two interfaces, two addresses, one machine, two objects, two commands under
  way, two routes, one frame and one reboot: an answer can find its interface removed
  or replaced, two receivers can meet, and a reboot can come between. One frame is enough,
  since `FramesOnce` compares copies of one frame. The run sends it only while no network is
  routed (`FramesOrRoutes` in `MCServices.tla`): routes and frames do not read each other,
  and their product is too long for the run. The proofs remove the bounds, that of one
  machine included.
- *Sockets.* Two services share a port, one registers late, two restores.
- *Mail.* Two clients, one of which sends three mails, to a user, the same user and one
  whose directory cannot be made; two milliseconds. *Ssh.* Eight characters: two
  attempts. *Ftp.* Two clients, two ports, three transfers, a limit of two bytes and pieces
  of one or two. *Httpd.* Two requests on each of two connections. The proofs remove the
  bounds, for mail with every script that is `Polite`.
- *Desktop.* Two drawn windows, three monitors, one reboot: the id of the
  terminal collides with that of the first window, a removed monitor has one before and
  one behind it, and a call that is handled twice removes two.
- *Dns.* Three queries for two names outside the zone and one inside, two ticks of life for
  an answer. *Coin.* Three nodes, of which one knows only one of the others, and four
  blocks: forks before the nodes are connected, and a chain of three or four.
- *Pty.* A window and two programs, two terminals, two bytes and one reboot: rivals on
  one side, a killed waiter before a living one, two handlers of one read and write. The
  safety properties of this run are
  proved for all bounds.

`CHECK_DEADLOCK FALSE` appears where the system may stop: after `Kernel.stop`, when
all processes have exited, when programs make no more calls, or when a bound is
used up.

What the runs leave out on purpose: `pfs_sequential` has no rename and no unmount,
since both drop only their own paths from the cache and leave those of what lies
below: `CacheAgrees` is false after them. Nor has it a second caller, whose stale answers
(section 7) end up in the cache as well.
`pfs_live` has no rename: a directory that two renames have put below itself makes
`removeRecursive` descend for ever. `pfs_crash` has all of them.

## 5. Fairness

No property assumes that programs make calls, that users act or that anything crashes.

- `Scheduler!Fairness`: the page runs the next microtask or handler that is ready
  (`Loop`); a timeout of `tokio` fires (`Timeout`); the thread pool starts
  a queued task (`HostBegin`, `HostBeginFails`, for each process and kind of task); a
  command that was sent is handled (`HostDrop`). Nothing is assumed of `HostFinish`: a
  script may never end. `EveryProgramEnds` holds of it nevertheless: a slice that timed out
  is charged the whole memory quota, so the next charge ends the process, and a slice that
  finds no isolate is an error, which ends it too.
- `PersistentFs!FairSpec`: for every caller, SQLite answers the statement sent and the
  page handles the reply.
- `Reboot!Fairness`: the loop of each kernel goes on when it can, which includes the
  host's timer that ends a slice.
- `Dns!DnsFairness`: timers fire. The upstream server owes nothing.
- `Coin!CoinFairness`: `Handle`, the code that runs to its end within one turn of the page.
- `Pty!FairSpec`: a user that has waited reads, one that is idle waits again: a loop of
  `wait` and `read`, as `sshd` and the terminal window have. `BytesAreRead` asks it only of
  readers that neither close nor are killed (`Loyal`).

All are weak fairness: none of these is switched on and off again for ever by the
others in a way the property depends on.

## 6. Proofs

All theorems hold for all values of the constants that the named assumptions allow; TLC
evaluates these on every run.

| assumption | what it asks, and why the code has it |
|---|---|
| `BoundsAssumption` (Scheduler, Reboot) | bounds are natural numbers, quotas within the caps |
| `ParameterAssumption`, `NoInodeAssumption`, `NoNodeAssumption` (PersistentFs) | null values differ from the values they stand beside; a bound is at least 1 |
| `PathAssumption`, `MaxNodesAssumption`, `DataAssumption` (InMemoryFs) | paths are sequences of names with their directories; the empty content is one, no data is none |
| `ImageAssumption` (Volumes) | an image file that can be read is a tree (`IsImage`): `mount` throws at any other |
| `ListenerAssumption`, `FdsAssumption`, `ImageAssumption`, `NodesAssumption`, `ChunkAssumption` (FileIO) | descriptors are numbered from 3 on; the files of the start are files, their bytes numbers |
| `HubAssumption`, `NetAssumption` (network), `OwnersDiffer` (Sockets) | the pool's first host is not 0; a broadcast is no interface; a program is no service |
| `ChunksAssumption` (Mail) | what a client sends are sequences of lines |
| `ScriptsArePolite` (MCServices) | the scripts of the run keep to the protocol, which `MailsOfPatientClients` assumes: a RCPT before each DATA, text only in a mail, nothing sent after a dot until it is answered |
| `CoinAssumption` (Coin) | every node has a list of peers |
| `ManifestAssumption`, `NoSnapshotAssumption` (Reboot) | programs have sources; no snapshot is none |

Bounds that only one theorem needs are in its ASSUME: the length of a read and the number of
terminals (`PtysAreStreams`), the limit of a file (`TransfersGoWhereAsked`), the
numbers of windows and monitors (`WindowsOfOthersStay`, `CrashedApplicationsAreDead`).

**`ListLemmas.tla`.** The induction theorems of the library take an operator, which the provers
here cannot instantiate. `Induction` and `LeastElement` state them of *sets* of natural
numbers; that is enough for what the models compute along a sequence: `Filter`, `Max`, walks
along a path, levels of a tree. `RemoveAt` and `Filter` have their lemmas here.

**`SchedulerProofs.tla`.** `ScheduledOnce` and `NoneLost` are not inductive alone. `IInv` adds

- `CpuInv`: a dispatcher and an awaited task exist exactly for the process on the CPU;
  this is what excludes that a process is pushed back twice;
- `FreshInv`: a process that was never launched has nothing on the host;
- `CodeInv`: its source is with the host at most once and never beside an isolate: the
  reason why `OneIsolate` survives tasks that outlive their slices;
- `QuotaInv`: who violated a quota is gone from the queues.

There is one lemma per action and one step per conjunct it can disturb; frame lemmas
(`QueueFrame`, `HostFrame`, `FreshFrame`, ...) carry the rest. Results: `TypeCorrect`,
`EachScheduledOnce`, `NoProcessLost`, `OneIsolateEach`, `QuotaEndsProcess`,
`InitIsProtected` (an action property), and `ImplementsRoundRobin`: under `IInv` the initial
state maps to an initial state of `RoundRobin`, and each action to a step of it or a stutter.

**`PersistentFsProofs.tla`.** *Any callers.* Between the two statements of `write` the tables
that others see disagree about one inode. `IInv` says which: `HalfWritten(x)` belongs to the
call that is at its second statement, and that call holds the transaction, so the disagreement
cannot be committed by another and is rolled back by a crash. Lemmas say of each
change to the tables that it keeps all other inodes. Results: `SizesOnDiskAgree` and
`OneCallInTransaction`.

*One caller.* `TreeStaysATree` (`TreeOK`) and `CacheStaysRight` (`CacheAgrees`) assume
`Sequential`: one caller, neither rename nor unmount. This is what the run `pfs_sequential`
has, and less is not enough: with a second caller an inode can be inserted into a directory
whose id was freed and given to a file while the insert was under way (TLC finds it
in 25 steps), and a lookup's answer can be cached after it has become
wrong; a rename or an unmount leaves what lies below in the cache. `SInv` says that what a
call has found out is so until it changes it (`CallRight`: the component it asks for is
below a directory that the path leads to, its node is the one at its path, a directory to be
deleted has no children), that a transaction that has not written sees the committed tables
(`Unwritten`), and that the cache is right but for the one path that the call has
changed and not yet recorded (`Stale`). The tree is one because the id of an inode is larger
than that of its directory; then every inode is reached by going down (`TreeReached`), and two
paths do not lead to one inode (`OnePath`), so that a change at a path changes no other
(`InsertTree`, `DeleteTree`).

**`VolumesProofs.tla`.** `VolumesRegistered` is inductive (`MountsAreRegistered`). One invariant
carries the other three theorems. `TreesOK` says that the trees in memory, on disk and in the
calls of `save_fs` under way are `Sound`: every listed name resolves and only directories list
names. It says of the last of these calls, or of the disk when there is none and none has
failed, that it has nothing memory has not (`Follows`); that is what `DiskFollows` needs, since
the calls are handled in order. `ImagesOK` says that a readable image is a tree. Lemmas give
what each helper (`Put`, `Cut`, `Moved`, `Graft`, `Serialized`) makes of that. Results:
`NamesResolve` (`LinksResolve`), `DiskIsBehindMemory` (`DiskFollows`) and the action property
`NothingIsOrphaned` (`NoNewOrphans`): from a tree in which every node is listed, there is one
lemma (`...Listed`) per operation that says which nodes are listed afterwards; for those that
`LeftBehind` names, that a node which is not lies where it says.

**`FileIOProofs.tla`.** `ProcListsDescriptors` (`ProcFdsAgree`) and `DescriptorsKeepFiles`
(`DescriptorKeepsFile`). `open` takes its number, awaits and enters the descriptor
afterwards, and two handlers of one call do so at once. The invariant says that a number
that was taken and not yet entered is spent: it is below `nextFd`, no descriptor has had it
and no other handler has it. `BytesAreLostToRacers` (`OnlyRacersLoseBytes`) adds `BytesOK`: what a
handler keeps over an await is data of a file, and the number of a descriptor that has
a position.

**`NetworkProofs.tla`.** Four invariants.

- `AddressesAreLeased` (`AddressIsLeased`): an answer under way carries the lease of the
  interface id of its object. Leases are never given back, so it is still right when it
  arrives; all are below the next host, so the host gives none out twice.
- `DeletedRoutesForwardNothing` (`RouterKnowsOnlyRoutes`): `RouterOK` says that the network of
  every entry of the router is that of a route in the table, and that both are finite.
- `FramesArriveOnce` (`FramesOnce`): the copies of a frame that are in queues, replies, objects
  and snapshots are told apart by their place. `FramesOnce` is not inductive: a reboot copies
  what an object has received into the snapshot, and a copy that was still on its way could
  reach either. `Once` says more: what is in a queue or a reply is nowhere else, of whatever
  kernel. `LeftOK` says that an object belongs to one kernel that has not ended, or to none,
  and `FramesOK` that frames are numbered up to `frames`, that one which is still being sent
  is in none of these places, and that there is one send for each number.
- `ServicesListen` (`ListedListens`): `RegistryOK` adds that a listener is listed, that a listed
  service is wanted unless it starts late, and whose handler stands at its port.

**`RebootProofs.tla`.** `SnapshotsAreTyped`, `CallsAreOfSlices`, `RebootsKeepWork`.
`RebootKeepsWork` counts on the order of commands that nobody awaits. The invariant says
where the work owed to the second kernel is: its boot stands directly behind a save
that holds the work, or that save was handled and the active snapshot holds it; and the
first kernel has all acknowledged work until it stops. Calls of the kind `passing` are owed
to nobody.

**`ServiceProofs.tla`.**

- `QueriesAnsweredOnce`: a query has its reply exactly when it is answered.
- `LoginsAreOwn`: in each stage, the stored user and password are what the client typed since
  the prompt, and a check under way is the only one.
- `TransfersGoWhereAsked`: the only transfer of a waiting client uses the port announced last.
- `LinesAreLostToRacers`: `HttpdOK` says that the lines in the log and in the copies that
  handlers have read are of requests which have no handler any more, that a request has one
  handler, and that a handler which met nobody has read what is in the log now.
- `MailsOfPatientClients` (`MailsIntact`), for scripts that are `Polite`. Along the script,
  `SessionAt(c, t)` says what the session is after `t` lines: the recipient is the one of the
  last RCPT; in a mail, the collected lines are those after its DATA; at its dot the buffer
  is empty and one loop stores what the session has. The client's wait shows in the
  number of answers, which is that of the lines that ask for one, less one at a dot: a client
  that got them all has no line in the buffer that could be taken by a second loop
  (`ChunkKept`). Lemmas about `FlattenSeq` say that what was sent is the beginning of the script.
- `PeersReachTheMiner` (`PeersCatchUp`): the calls that a mined block causes stand on a stack.
  `CoinInv` says that every chain is made of verified blocks whose height is their place
  (so a longer chain is a later one), and that a peer which is still behind the miner has a
  message on the stack that will bring it up.
- `PtysAreStreams` (`ImplementsStreams`, a refinement): what was taken from a buffer,
  followed by the buffer, is what was written into it; lemmas say that what the handlers of a
  read take and what they leave make up the buffer, and that terminals are numbered without a
  gap, however many handlers allocate one.
- `WokenReadersFindBytes` (`EmptyReadsHaveRivals`): `WaitersOK` says that who is on the list of
  a side waits and has that side open.
- `CrashedApplicationsAreDead` and `WindowsOfOthersStay`: `DesktopOK` says that the
  owner of a window was a process once, that ids are those given out, that no monitor is
  listed twice, and that the owner of a window which is shown as crashed does not run.

Only model-checked is liveness (`EveryProgramEnds`, `TransactionsEnd`, `StoppedLoopsEnd`,
`EveryQueryAnswered`, `WorkEnds`, `BytesAreRead`), which needs ENABLED.

## 7. What the models found

Refuted sentences, each with its run (`findings`):

1. `RenameKeepsFiles` (`docs/kernel.md:23`): after a restore a rename brings back old
   contents.
2. `ProcessesResume` (`core/kernel/index.ts:334`): the process that asks for a reboot is
   saved as not started with its source, is run from its beginning by the next kernel, and
   reboots again.

Seen while modelling, part of the models, and not a run of their own:

*Processes and the host.*
- A slice after a timed-out one finds no isolate, because the late task still has it, and
  carries no code: the process is recorded as crashed and its work is lost.
- A process killed while it is in the loop's copy of the queue still gets its slice.
- `drop_isolate` for a process whose task still runs finds nothing; the isolate is put back
  afterwards and stays.
- After a restart of the application, processes that had started have neither isolate
  nor code and fail at their first slice; `boot.shellReady` is emitted on the spawn of a
  shell only, so the user interface goes on waiting for it.
- Infinite quotas become null in a snapshot, and any time used is more than null.
- A call whose handler throws is never answered: the script's thread waits for ever.

*Reboots.*
- After k reboots each syscall is handled k + 1 times, and a reboot makes k + 1 kernels.
- `/sbin/snapshot load` loads, then reboots; the replaced kernel handles that reboot and
  saves its own old state over the loaded one.
- `Kernel.create` prefers the kernel's snapshot to the newer state that the file system
  saved by itself: after a crash, files removed since the last reboot are there again.
- Terminals are not in the snapshot: descriptors of before name no terminal or a new one.
  After a reboot a read of a terminal loses what the second listener takes, and a write
  is there twice.
- A frame that was received and not delivered at a reboot is delivered in both kernels, when
  a receive of the old one is under way.

*Files.*
- A lookup's negative answer may enter the cache of `PersistentFileSystem` after another
  call created the file, which then stays invisible (`persistent.ts:188`).
- A rename can put a directory below itself, and an unmount above it never ends.
- `open` creates a missing file before it checks permissions (`syscalls.ts:325`).
- The image that `unmount` writes has its Map of nodes as `{}`.
- The synchronous wrappers wait on the page's only thread for a promise that this thread
  would have to settle (`persistent.ts:95`).

*Services and desktop.*
- An impatient client of `sshd` can get two terminals. One of `smtpd` can have its next
  command in a mail (the bundled `sendmail` does not wait, and its `QUIT` ends up there), and
  mails to one user in one millisecond overwrite each other.
- A stop of `named` while a restore starts it again is undone.
- Opening `/dev/tty<n>` for a terminal that does not exist makes another one.
- The first window that is drawn has the id of the page's terminal; a reboot adds every
  window ever drawn to the page's list once more; `removeMonitor` does not reach the
  windows of the page, and after a reboot it removes the next monitor as well.
- `docs/networking.md:76` has `sshd` accept every password; `core/services/ssh.ts:14` looks
  it up.

## 8. What is not modelled, and why

- V8, SQLite and Tauri are outside; of each, only what the code relies on is modelled.
- *Failing calls* that some services do not expect: a log of `httpd` that cannot be written (a
  404 follows the 200, and a second try at the log), and an answer of the upstream name server
  that cannot be parsed.
- *The last round of a kernel that was rebooted*, in `Desktop`: one set of running processes
  serves all kernels there. A slice of the old kernel that ends with an error after the reboot
  marks the windows of a process that the new kernel runs.
- Formatting, owners and times, window layout, dragging and snapping are data or
  drawing that no property tells apart. Permissions are in `FileIO` only.
- *Programs* (`apps/`, `core/fs/bin.ts`, `generatedApps.ts`) are sequential scripts of
  syscalls; the models let a script make any calls in any order, which includes theirs. As
  bundled they use `TextEncoder`, `TextDecoder` and `setTimeout`, which the host's isolates
  do not define (`main.rs` gives them `syscall` and nothing else): a model of their control
  flow would end at their first line of output.
- *Jobs*: nothing but a test calls `registerJob`, so the kernel's table of jobs is empty.
  *ps* reads the process table. The *event bus* calls handlers at once and is part of the
  steps of every module that emits.
- `mount`, the default files, fsck and the compile cache of `PersistentFileSystem`: a
  sequence of the statements that `open` and `mkdir` make, in one caller; and its
  synchronous wrappers, which block the page in every state.
- `switch.ts`, `icmp.ts`, `run_isolate`: nothing calls them. `pingd` and the commands of
  the daemons that only answer change no state.
- *Build tools and packaging* keep no state of the running system.

## 9. The plan

Order: what keeps or loses the user's work first (scheduler, file systems, reboot), then
what moves data between programs, then the network, then services. All modules of the
plan are written.

| module | models | what is left |
|---|---|---|
| `Scheduler`, `RoundRobin` | the process loop and the isolates | |
| `PersistentFs` | `persistent.ts` | mount of an image; an LRU cache that refines "any entry may be gone" |
| `InMemoryFs`, `Volumes` | the tree and disk images | |
| `Reboot` | kernels of one page | a run with four kernels; the order of saves by `beforeunload` |
| `FileIO` | descriptors and file calls | |
| `Pty`, `ByteStreams` | pseudo-terminals | composition with `Ssh`: a remote shell is a terminal whose master a connection feeds |
| `HostHub`, `Network` | interfaces, routes, leases, frames | two machines in one run (`Machine` is a set; the run has one) |
| `Sockets` and the services | registry and daemons | `LIST` of imapd; composition of `Sockets` with a daemon over `stopService` |
| `Desktop` | windows and monitors | messages between windows |
