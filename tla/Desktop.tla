------------------------------- MODULE Desktop -------------------------------
(***************************************************************************)
(* The desktop: the windows, their owners and the monitors of the kernel   *)
(* (core/kernel) and the list of windows that the user interface shows     *)
(* (ui/components/WindowManager.tsx), which follows it by events.          *)
(*                                                                         *)
(* Ids of windows and monitors count from 0.  The kernel never forgets a   *)
(* window, and the terminal of the user interface has id 0 as well as the  *)
(* first window that is drawn.  The place and the size of monitors and of  *)
(* windows that are shown, whether these are minimised or maximised, and   *)
(* the messages between windows are left out, and so is what the last      *)
(* round of slices of a kernel that was stopped does after a reboot.       *)
(***************************************************************************)
EXTENDS Naturals, Sequences, SequencesExt, Lists

CONSTANTS
  Display,       \* the monitors themselves, which the code knows by number only
  MaxWindows, MaxMonitors, MaxPid, MaxKernels      \* bounds

VARIABLES
  monitors,      \* state.monitors
  windows,       \* state.windows and windowOwners: monitor and process
  running,       \* processes that have not ended
  nextPid,
  kernels,       \* kernels whose listeners get the calls: one more per reboot
  shown,         \* the windows of the user interface, the last one on top
  focusedId

desktopVars == <<monitors, windows, running, nextPid, kernels, shown, focusedId>>
kernelSide == <<monitors, windows, kernels>>

Shown(id) == [id |-> id, crashed |-> FALSE]

DesktopInit ==
  /\ monitors = << CHOOSE d \in Display : TRUE >>
  /\ windows = <<>>
  /\ running = {1, 2} /\ nextPid = 3 /\ kernels = 1      \* two applications
  /\ shown = << Shown(0) >> /\ focusedId = 0

-----------------------------------------------------------------------------
(* The user interface *)

\* One window after the other, on top of the others.
OpenWindows(list, opened) == list \o opened

CloseWindow(id) == shown' = Filter(shown, {w \in Range(shown) : w.id # id})

IsShown(id) == \E w \in Range(shown) : w.id = id

\* The first entry with the id: more than one can have it after a reboot.
Position(id) ==
  CHOOSE i \in DOMAIN shown : shown[i].id = id /\ \A j \in 1 .. i - 1 : shown[j].id # id

FocusWindow(id) ==
  /\ IsShown(id)
  /\ focusedId' = id
  /\ shown' = Append(RemoveAt(shown, Position(id)), shown[Position(id)])
  /\ UNCHANGED <<kernelSide, running, nextPid>>

\* The cross of a window.  The kernel is not told and the process goes on.
CloseShown(id) ==
  /\ IsShown(id)
  /\ CloseWindow(id)
  /\ UNCHANGED <<kernelSide, running, nextPid, focusedId>>

\* The button of a crash overlay: the application is spawned once more.
RestartWindow(id) ==
  /\ IsShown(id) /\ shown[Position(id)].crashed
  /\ nextPid <= MaxPid
  /\ nextPid' = nextPid + 1
  /\ running' = running \cup {nextPid}
  /\ CloseWindow(id)
  /\ UNCHANGED <<kernelSide, focusedId>>

-----------------------------------------------------------------------------
(* The kernel *)

\* desktop.createWindow for each of the windows with the ids from first on.
Created(list, ws, first) ==
  OpenWindows(list, [i \in 1 .. Len(ws) - first |-> Shown(first + i - 1)])

\* syscall_draw; after k reboots a call is handled k + 1 times.
Draw(p, monitorId) ==
  /\ p \in running
  /\ Len(windows) + kernels <= MaxWindows
  /\ windows' = windows \o [i \in 1 .. kernels |-> [monitorId |-> monitorId, owner |-> p]]
  /\ shown' = Created(shown, windows', Len(windows))
  /\ focusedId' = Len(windows') - 1
  /\ UNCHANGED <<monitors, running, nextPid, kernels>>

Exit(p) ==
  /\ p \in running
  /\ running' = running \ {p}
  /\ UNCHANGED <<kernelSide, nextPid, shown, focusedId>>

\* (mutation) the event goes out for every window.
Owned_All(p, id) == id < Len(windows)
Owned(p, id) == id < Len(windows) /\ windows[id + 1].owner = p

\* An exit code that is not 0, or the second excess of a quota: an event
\* desktop.appCrashed for each window of the process.
Crash(p) ==
  /\ p \in running
  /\ running' = running \ {p}
  /\ shown' = [i \in DOMAIN shown |->
                 [shown[i] EXCEPT !.crashed = @ \/ Owned(p, shown[i].id)]]
  /\ UNCHANGED <<kernelSide, nextPid, focusedId>>

\* After k reboots there are k + 1 new monitors.
AddMonitor ==
  /\ Len(monitors) + kernels <= MaxMonitors
  /\ \E new \in [1 .. kernels -> Display \ Range(monitors)] :
       /\ IsInjective(new)
       /\ monitors' = monitors \o new
  /\ UNCHANGED <<windows, kernels, running, nextPid, shown, focusedId>>

\* The number of monitors that go: each of the calls removes the one that has
\* the number then, and the last ones find none.
Gone(id) == Min({kernels, Len(monitors) - id})

\* (mutation) only the windows of the monitors themselves are told.
Rehomed_Own(m, id, count) == IF m \in id .. id + count - 1 THEN 0 ELSE m
Rehomed(m, id, count) ==
  IF m < id THEN m ELSE IF m < id + count THEN 0 ELSE m - count

\* The windows of the kernel follow (those of the user interface do not).
RemoveMonitor(id) ==
  /\ 0 < id /\ id < Len(monitors)
  /\ monitors' = SubSeq(monitors, 1, id)
                   \o SubSeq(monitors, id + Gone(id) + 1, Len(monitors))
  /\ windows' = [i \in DOMAIN windows |->
                   [windows[i] EXCEPT !.monitorId = Rehomed(@, id, Gone(id))]]
  /\ UNCHANGED <<kernels, running, nextPid, shown, focusedId>>

\* restore sends desktop.createWindow for every window that was ever drawn,
\* on top of a list that still shows them (reboot) or of a new one (the
\* application was started again).
RestoreWindows(list, listeners) ==
  /\ shown' = Created(list, windows, 0)
  /\ focusedId' = IF windows # <<>> THEN Len(windows) - 1
                  ELSE IF list = shown THEN focusedId ELSE 0
  /\ kernels' = listeners
  /\ UNCHANGED <<monitors, windows, running, nextPid>>

RebootDesktop == kernels < MaxKernels /\ RestoreWindows(shown, kernels + 1)
StartAgain == RestoreWindows(<< Shown(0) >>, 1)

DesktopNext ==
  \/ \E p \in 1 .. MaxPid : Exit(p) \/ Crash(p)
                            \/ \E m \in 0 .. MaxMonitors - 1 : Draw(p, m)
  \/ \E id \in 0 .. MaxWindows : FocusWindow(id) \/ CloseShown(id) \/ RestartWindow(id)
  \/ AddMonitor
  \/ \E id \in 0 .. MaxMonitors : RemoveMonitor(id)
  \/ RebootDesktop \/ StartAgain

DesktopSpec == DesktopInit /\ [][DesktopNext]_desktopVars

-----------------------------------------------------------------------------
(* Properties *)

\* A window stays on its monitor for as long as that is there, whatever number
\* it has, and goes to the first one when its own is removed.
SurvivorsStay ==
  [][\A i \in DOMAIN windows :
       LET old == windows[i].monitorId + 1
           new == windows'[i].monitorId + 1
       IN old <= Len(monitors) =>
            IF monitors[old] \in Range(monitors')
            THEN new <= Len(monitors') /\ monitors'[new] = monitors[old]
            ELSE new = 1]_desktopVars

\* An application is shown as crashed, and offered to be started again, only
\* when it does not run, also when its window has the id of the terminal and
\* when the windows of an earlier kernel are shown beside the new ones.
CrashedIsDead ==
  \A w \in Range(shown) :
    w.crashed => w.id < Len(windows) /\ windows[w.id + 1].owner \notin running
=============================================================================
