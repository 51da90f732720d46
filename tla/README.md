# A verification of FujiNet Go ColecoVision

TLA+ modules for the parts of FujiNet Go ColecoVision (desktop) in which something
can go wrong that a test would hardly reach: threads, callbacks, timeouts, files that
are replaced while a program may die. TLC checks them on small instances, TLAPS proves
the properties that matter most for every value of the constants.

Paths below are relative to the repository. The code is C and C++; the core in `core/`
is linked into four frontends (`frontends/gnome`, `kde`, `macos`, `windows`). The
emulator itself (adamcore), the cartridge mapper (colmap), the FujiBus and FujiMail
protocol code and the FujiNet firmware are staged from other repositories: they are
modelled from how this code calls them, and marked external.

## The system

| Part | State it keeps | Operations | Talks to |
|---|---|---|---|
| Debugger engine `core/debugger/debugger.c` | lock and condition variable; `paused`, `at_break`, `pending_step`, `pause_notify`; one transient stop condition; shadow of the breakpoints; trace ring | pause, resume, step into / over / out, run to, breakpoints, trace, the frame driver `colecodebug_host_frame`, the exec hook | host (engaged and mute flags), adamcore (hook, breakpoints), the window's stop callback |
| Host `core/coleco/host.c` | the machine thread; running / stop / reset / engaged / mute flags; the frame slot with its serial and callback; the vsync ticks and their smoothed period | start, stop, publish and copy a frame, set the callback, notify vsync, joystick, audio | adamcore, debugger, cartridge, frontends |
| Display of the KDE frontend `frontends/kde/FrameFeed.cpp` | a pending flag, an active flag, the Qt event queue | machine-thread callback, deliver, activate, destroy | frame slot |
| Displays of the others `frontends/gnome/display.c`, `macos/DisplayView.m`, `windows/main.c` | the serial and frame copied last; a converted buffer, or a pool of textures | tick, convert, ask for a redraw, paint, stop | frame slot, the system's clock of frames |
| FujiNet cartridge `core/coleco/fujinet_cart.c` | the 32K window, the staged image, what is being received, serving plan, mailbox page, mapper hint, arming | stream open / data / close, arm, swap, poke, read, create; trace tap | colmap, fujimail, the TCP link, adamcore |
| TCP link `core/coleco/fujitcp_win32.c` | one socket, one receive buffer | dial, transact, read a frame | FujiNet |
| FujiNet trace `core/debugger/fujitrace.c` | a ring of packets with repeat counts and serials, one pending flag | add (fold, evict), clear, feed | cartridge tap; a window that polls it (`frontends/gnome/debugger/dbg_window.c`) |
| FujiNet runtime `tools/fujinet/support/fujinet_desktop_entry.cpp` | the runtime thread, running / set up / failed flags, the captured standard output, queued SAM audio | start, stop, the thread's setup and service loop | firmware; loader `core/src/fujinet_runtime.c` |
| Session `core/src/session.c` | running and external flags, audio and gamepad handles | start, stop, reset to CONFIG, press | all of the above |
| Settings `core/src/settings.c` | a list in memory with a dirty flag; the file and its temporary | init, set, flush | the disk, shared by every frontend |
| Key bindings `core/src/bindings.c` | one key per control, mirrored in the settings | set (with stealing), reset, load, look up | settings |
| Controller input `core/src/input_map.c`, `gamepad_sdl.c`, the frontends' windows | what each source holds; the last word of each pad | keys, on-screen buttons, pads, focus, rescan | host's joystick words |
| Files `core/src/paths.c`, `roms.c`, `media.c`, `zipread.c` | none in memory; the BIOS with its temporary, the FujiNet tree, cartridges and disk images | provision, sweep, guess, import, copy, inflate | the disk, the settings |
| Main and settings windows `frontends/*/main.c`, `window.c`, `prefs.c`, `MainWindow.cpp`, `SettingsDialog.cpp`, `AppDelegate.m`, `import.c` | what is open, what is changed and not applied, the questions put up | launch, load, eject, import, change, close | session, settings, files |
| Debugger windows `frontends/*/debugger/` | views built from the machine, the button, the status line, stops on their way | show, close, commands, tick, stopped | debugger engine, trace, cartridge |
| Views `vdpview.c`, `z80dasm.c`, `symbols.c` | none (pure) | draw, disassemble, look up | the windows |

Threads: the interface thread; the machine thread (host); the gamepad thread; SDL's
audio callback; the FujiNet runtime's thread with its log pump. They share the flags
and slots named above, mostly under one mutex each, a few (`s_core`, the stop callback,
the hook's view of the transient condition) under none.

What is hard: a machine thread that sleeps at a break while others stop, resume and
rebreak it; a callback into a display that is being destroyed; a stop that gives up on
a thread and a start that follows; a cartridge that replaces the image it runs from; a
reply that comes after its time-out; a file rewritten in several steps; several sources
that each write a whole controller word; four settings windows that each store and apply
in a way of their own, with dialogs that let other windows go on; a debugger window that
rebuilds its views while the machine runs on; a BIOS that is replaced by a sweep that may
fail half way; a decoder whose every length comes from the file. `PROJECT.json` lists these hazards one by one,
at the line where each bites, with the properties that would catch it.

## The modules

Names of variables and actions are those of the source wherever TLA+ allows. Each
operation is one action, or one action for each stretch between two points at which
another thread can interfere (an unlock, a wait, a call out, a system call).

| Module | Models | Checked by | Proved in |
|---|---|---|---|
| `DebugEngine` | debugger engine with the host's life and flags | `DebugEngine.cfg`, `DebugStopHangs.cfg` | `DebugEngine_proofs` |
| `FrameSlot` | frame slot, callback, KDE feed | through `Displays` | `Host_proofs` |
| `Displays` | the displays of the four frontends over the slot; implements `FrameBoard` | `Displays.cfg` | `Host_proofs` |
| `FrameBoard` | abstract: a board, viewers who always get to see the newest picture | as a property of `Displays` | safety half in `Host_proofs` |
| `HostLoop` | the pacing of the machine thread | `HostLoop.cfg` | `Host_proofs` |
| `Session` | start and stop of everything, against the threads that use the core | through `MCShell` | `Session_proofs` |
| `SessionCalls` | what the frontends call of a session, and the questions they ask | through `MCShell` | `Session_proofs` |
| `GnomeShell`, `KdeShell`, `MacShell`, `WinShell` | the handlers of each frontend's main and settings windows | through `MCShell` | `Session_proofs` |
| `Shell`, `MCShell` | the four over one store, one at a time; with `Session` side by side | `Session.cfg` | `Session_proofs` |
| `RuntimeEntry` | runtime wrapper and loader | `RuntimeEntry.cfg` | `FujiNet_proofs` |
| `FujiCart` | cartridge device | through `MCDebugWindow` | `FujiNet_proofs` |
| `DebugFrontend` | the vocabulary of views and the data they are built from | through `MCDebugWindow` | `DebugWindow_proofs` |
| `GnomeDebugger`, `KdeDebugger`, `MacDebugger`, `WinDebugger` | what each handler of each debugger window refreshes | through `MCDebugWindow` | `DebugWindow_proofs` |
| `DebugWindow`, `MCDebugWindow` | a debugger window against the machine thread; with `FujiCart` side by side | `DebugWindow.cfg` | `DebugWindow_proofs` |
| `FujiLink` | TCP link, with the cartridge's tap | `FujiLink.cfg` | `FujiNet_proofs` |
| `FujiTrace` | SLIP decoder, packet log and the window that polls it | through `FujiTap` | `FujiNet_proofs` |
| `FujiTap`, `MCFujiTap` | the cartridge's tap, feeding `FujiTrace` in pieces | `FujiTap.cfg` | `FujiNet_proofs` |
| `SettingsStore` | the steps of a flush, programs that die; implements `SettingsSpec` | through `MCDataDir` | `SettingsStore_proofs` |
| `SettingsSpec` | abstract: settings, and a saved copy that is one complete set | as a property of `SettingsStore` | `SettingsStore_proofs` |
| `ZipRead` | the zip reader and its inflater, as operators | through `MCDataDir` | |
| `Roms`, `RomPaths` | what image may be a BIOS; what an import finds at a path | through `MCDataDir` | |
| `DataDir`, `MCDataDir` | the directories one program fills: settings, BIOS, FujiNet tree, cartridges | `DataDir.cfg` | `SettingsStore_proofs` |
| `Bindings`, `MCBindings` | key bindings and their stores | `Bindings.cfg` | `Bindings_proofs` |
| `ControllerInput`, `MCControllerInput` | keyboard, panel and pads as writers of a port's word | `ControllerInput.cfg` | `ControllerInput_proofs` |

Operators named `<definition>_<Change>` are a definition with a plausible bug put in
(a missing reset, a dropped broadcast). No specification uses them; they exist to see
that each property notices the bug it is there for.

### DebugEngine

The interface thread's calls (`colecodebug_*`) take the lock, so each is atomic, except
step over, step out and run to, which leave a gap between arming the condition and the
broadcast (`Arm`, `ArmEnd`). The machine thread has a program counter `mt` through
`machine_thread` and `colecodebug_host_frame`: `Enter`, `TakeStep`, `NotifyPause`,
`Park`, `Run`, one action per instruction under the hook, `FrameDone`, `Stopped`. The
condition variable is the wait value of `mt`, left by `Broadcast` or `SpuriousWake`.
The hook reads the transient condition without the lock (`HookStops` / `HookMayPass`
allow either outcome where the code races). An address is abstract: what matters is
whether it is a breakpoint or a target.

Properties: `PausedMeansStopped` (while `is_paused` answers 1 nothing is executed),
`EngagedExactly` (the stepped path is engaged exactly while needed),
`CoreFollowsShadow` (the core has no breakpoint the shadow has dropped), `NoLostWakeup`
(nobody sleeps through a recorded request), `StepIsTaken`, `StopEndsUnlessParked`.

Fairness. `SF(MachineProgress)`: the machine thread competes with the interface thread
for one mutex; the interface thread acts at the rate of a user, so the machine thread is
not kept out for ever. `WF(DebugRunFrameDone)`: a frame has a bounded number of cycles.
`WF(ArmEnd)`, `WF(StopJoined)`: a call that was made returns when it can. A user need
never do anything.

### FrameSlot, Displays and FrameBoard

`frame_publish` compares, copies and counts under the slot's lock, then calls back under
the callback's lock; `FrameFeed` posts one signal at a time to Qt's queue, and `deliver`,
`Copy` and the display's life run on the interface thread.

`Displays` puts the other frontends' displays over the same slot; a behaviour has one
frontend. GNOME ticks on the interface thread, with a texture for each frame: the buffer is lent to
the texture and comes back to a pool when GSK drops it, on whatever thread and perhaps after the
display has gone. macOS and Windows tick on a thread of their own (`clock`), which copies, converts
into one buffer and asks for a redraw; the interface thread draws from that buffer with no lock, so
conversion and drawing each take two steps, one for each half of the picture. The program may end at any
time: the clock is stopped, then the machine, then everything is freed.

`BoardSpec` is `INSTANCE FrameBoard`, each feed and the pulling display a viewer, liveness
included: a display that watches gets every picture that stays the newest. That a serial is never
used twice, across restarts of the machine, is what it stands on. `ScreenSettles`: the screen may show
half of one frame and half of the next for a moment; once no tick and no redraw is under way it shows
one whole frame, the newest. It holds because the redraw is asked for after the conversion and drawing
takes the request back before it reads. On GNOME a texture on the screen never changes, and the pool
outlives every loan; on KDE an active display that has not the newest picture has a signal
under way (`NothingMissed`). `NobodyCallsTheGone`: no call into a feed that is gone
(`CallbackContextLives`), and no tick into a session or a buffer that was freed.

Fairness: the machine thread's own steps, and `SF(deliver)`, since Qt's queue is first in, first
out, and nothing but a destroyed receiver removes an event. A clock's thread goes on by itself
(`WF`); GNOME's tick shares its thread with everything else and may be switched off and on, so it needs
`SF(on_tick)`. GSK drops what it no longer draws, which bounds the buffers in use. Windows waits two
seconds for its present thread; `MayStall = FALSE` says that `DwmFlush` returns within that time.

### HostLoop

Time in units, relative to now; `Elapse` jumps to the next event. The smoothed period is
kept only as none, near (within the eight percent) or far; smoothing two far ones may
give a near one. `NeverFastForwards`: after a break of any length at most seven frames in
a row take less than half a frame's time: the ladder is four frames late at most, and each such
frame takes up more than half of one. `NeverStalls`: from the end of a frame the next
begins within three frames. A frame is 7 units and a tick stale after 15 (16.7 ms and 250 ms
in the code); frames that take 3 units are just under half, those of 35 and 43 are breaks within and
beyond the four frames of the ladder. The wait's deadline comes from the wall
clock (`host.c:215`); steps of that clock are not modelled.

### Session

One program counter `ui` through `colecosession_start` and `_stop`, where everything that
may fail may fail, and the three other users of the core. `CoreOutlivesItsUsers`: a thread that
looked at the core and uses it uses the one that is there. `NothingLeftBehind`: stopped
or failed means no core, thread, subsystem or runtime of ours. `FujiNetBracketsMachine`:
unless starting it failed or was too slow, FujiNet listens from before the machine starts
until after it is gone. `StopReturns`. Fairness: the interface thread goes on with what it
began, the threads with their loops, and the audio device pauses between callbacks
(`SF(audio_stop)`). Assumed: the machine is not parked by the debugger when it is
stopped (DebugEngine says what happens then), and the runtime ends only when stopped.

### RuntimeEntry

The runtime's threads are elements of `Thread`; each goes through capture, setup, serve,
shut down. `fn_service_loop` is external and may never end.
`NeverAssignedOver` (no joinable thread object is assigned over, which ends the
process), `StopLeavesNothing`, `StopReturns`. Fairness: called functions
return, except for the service loop, to which nothing is owed; a time-out expires.

### FujiCart, FujiLink, FujiTrace, FujiTap

`FujiCart`: an image is a model value with its plan and the status page it carries; the
window, the staged copy and the two image buffers are what the code keeps.
`OneWholeImage` (the console reads from one image under its own plan, and a
mapper hint that waits is no older than the last ROM push that closed; that it was named for the ROM
that comes next the code cannot tell, and nothing claims it), `PageIsCurrent` (the mailbox page is never
older than the last publish, before and after a swap, in the image that is staged as well; an
image that claims no page is served as it came).

`FujiLink`: frames are sequences of a body and terminators; FujiNet replies late, pushes, delivers
in pieces, dies. `ReplyIsOwn` (the code has no sequence numbers, so a reply
is surely one's own only while no transaction on the connection has given up; after one has, the property
says nothing, and a late reply may well answer the next request: that one is not caught). A request or
a reply that does not fit its buffer (`FB_ETOOBIG`) ends a transaction too, the second as a give-up, `TransactionEnds`, `TraceIsTheWire` (no
frame is missing from the trace or out of order). The POSIX transport is staged
from the firmware tree and is not in this repository. Fairness: machine thread and clock
run; FujiNet owes nothing; it pushes finitely often (`MaxPushed`), for each push restarts the time-out.

`FujiTrace`, fed by `FujiTap`: bytes are bytes here, for escapes and what a piece ends with are what
can go wrong. `CountsAreTrue` (a frame in whatever pieces, with a clear between two of them,
is one packet, its bytes as sent; folding and eviction never lose or invent one),
`WindowSeesEveryChange` (the window's test of count and newest serial
notices every change). That a request drops an unfinished reply is modelled, but this tap
finishes every reply it begins.

### SettingsStore and SettingsSpec

Files are inodes under two names. A flush is open, write, (on Windows) remove, rename;
the program may die before each; open and rename may fail. `IsAStore` is the refinement:
what a new program would read is always one complete set of settings or, in the build
that removes first, none. `CleanIsSaved`: settings that count as clean are what the
file holds, unless the last rename failed.

### Bindings

A rebinding is one action per store, since each store rewrites the file and the
program may die after it. `OneTargetPerKey`, at every step and after every restart outside
a reset; `RestartFindsTable` (a clean file loads as the table in force, unless the last rename of it
failed: `flush` clears the dirty flag then all the same, settings.c:139-140, which `missed`
remembers); `RestartFindsSomeTable` (whichever files fail to open or to be renamed and
wherever it died, the next start finds a table that was in force, or the defaults). A write
that fails half way is SettingsStore's subject.

### ControllerInput

The GNOME frontend's main and keypad windows, each with its own held set, the pads, and the word
each port was last given. `WordIsCurrent` (what the machine samples is what the last
writer holds), `MainHoldsWhatIsDown` (the main window holds exactly the directions and buttons whose
keys it saw go down and are down, whatever Shift, the focus and the keypad window did, as long as no
control is bound under a shifted or keypad name), `GonePadIsReleased`.

### ZipRead and DataDir

`ZipRead` is the inflater as operators over bits: canonical codes, matches that may overlap
their own output, stored, fixed and dynamic blocks, every refusal, and the container's checks.
Its tables are parameters, so that the instance has codes of at most three bits. Apart from it stands
what a compressed stream means (`CodeOf`, `Pack`, `Means`), from which `MCDataDir` packs
an image in every way of at most four tokens, whole or damaged, and the import unpacks it again.

What is found at a path is a parameter of `DataDir` (`Found`, and `Extracted` for a packed entry), of
which it assumes only that a file holds itself or nothing; the instance gives it `import_path` of
`RomPaths` (folders in any order, zips in zips, to the code's depth) and the inflater.

`DataDir` extends `SettingsStore`: one program, one disk. An import of the BIOS is a list of
candidates found at a path, then
open, write, (on Windows) remove, rename for the first that is wanted, and a result; the FujiNet tree
is copied with `fnconfig.ini` first; a dropped file is copied under its own name. Each step may
fail and the program may die after each. `BiosStays` (a console that could start can always start, but
for the removal on Windows), `ResultIsTrue` (1 with the first image in place that is wanted of those
the path held, 0 with the BIOS as it was where it held none, -1 exactly when the path could not be
looked at or a write failed; what the path held and whether a call failed are history, `held` and
`broken`), `OnlyNamedFilesGuessed` (an unknown image
becomes the BIOS only if the user named that file), `PackedImageIsFound` (what was packed whole is
imported as it was, what is damaged is not). The last rests on `Decodes`, what the import asks of the reader
of zips; as every entry of the instance is imported in a run without failures, the property holds there only
if `Decodes` does.

### DebugWindow and the four debugger windows

A view is its set of sources: what it was built from that has not changed since. A frontend's
module says, handler by handler, which views a handler rebuilds from which sources and what it edits; the
four differ in what they refresh on a tick, on a page, while a field is edited, and in what closing
does. `DebugWindow` runs one of them against the machine thread, one refresh per step, so that the
machine runs, stops and posts its stop between any two. `BreakIsShown`: at a break, once the
posted stops were handled, every view shows the machine as it stopped.

### Shell and the four main windows

`SessionCalls` has the session as the frontends see it: one record of what is stored, what runs with
which options, why a start was refused, and which questions are up. A frontend's module has its
handlers as functions of it, each split where it asks a question: on Windows, KDE and macOS a
dialog runs a message loop inside the handler (which windows it keeps out differs), on GNOME it is a callback
that finds whatever is left. `Shell` runs one frontend at a time over one store and one ROM
folder. `OptionsInForce` (when nothing is open, a machine that runs has the options that are stored),
`BiosIsTakenUp` (a start that was refused for want of a BIOS happens once one is imported).

## The runs

| Run | Instance | Distinct states |
|---|---|---|
| `engine` | two addresses: one that is broken or run to, one elsewhere | 284 thousand |
| `engine_stop_hangs` | one address | a violation, see below |
| `runtime` | three threads: one detached, one on top of it, one more start; good, absent and broken libraries | 24 thousand |
| `frame_slot` | one frontend of the four; on KDE two displays that take turns, on GNOME three buffers and a pool of one; two pictures, three versions | 113 thousand |
| `fuji_trace` | three packets (an exchange and a stranger longer than is kept), pieces of three bytes, a log of four entries, eight frames | 614 thousand |
| `fuji_cart` | three pushes: one served, one staged over, one more; each frontend's debugger window, three pages, two stops on their way | 6.4 million |
| `fuji_link` | three transactions, two pushes, one loss of FujiNet | 55 thousand |
| `bindings` | three controls, three keys two of which fold together, three changes | 93 thousand |
| `controllers` | a control on each port, one pad, one rebinding, Shift | 2.1 million |
| `settings` | one program of either build, two keys, a BIOS of five bytes, three changes or imports, every way to fail | 3.1 million |
| `session` | two machines, one after the other; each frontend's windows, one cartridge, two questions at once | 381 thousand |
| `host_loop` | frames of 1, 3, 35 and 43 units of 7 that a frame has; a display at the machine's rate, at twice it, or hidden | 206 thousand |

The bounds are the smallest with which the interesting cases meet: a stop that detaches,
a start on top, and one more; an eviction in the middle of a fold; a late reply that meets
the next request; a crash between two stores of the second change. Every history counter
that would grow is capped by a constant of the module (`Max...`), or saturates
(`MaxShort`, `Past` in HostLoop). Two runs put two
systems side by side, of which a behaviour moves one only (`part` in `MCDebugWindow` and `MCShell`):
the windows wait for a start or a stop of the session to return, and the debugger window knows
the cartridge as one of its sources. Deadlock is checked except where the system may come
to rest (all threads spent, the mailbox dead, the last transaction over), and the cfg says so.

## What the code does not do as its comments say

`engine_stop_hangs` is the run that shows `StopEnds` violated: `host.h:103-104` says a
debugger blocked in its pause wait notices a stop and lets go; nothing wakes it, and
`coleco_host_stop` never returns (`colecodebug_resume_for_stop` has no caller).

The following disagreements were found as well. Each is a property in the module's
last section; to see the counterexample, name it in place of the properties of the cfg
that runs the module (for `SettingsStore`, `DataDir.cfg`).

| Property | Module | What happens |
|---|---|---|
| `ShadowApplied` | DebugEngine | breakpoints are not applied to the core of the next start (`debugger.c:63-64, 96-98`: `on_core_created` has no caller) |
| `PauseReportIsWanted` | DebugEngine | a pause resumed away before it took hold is reported at a later stop (`debugger.c:340`) |
| `StepIsWanted` | DebugEngine | a step resumed away is taken at a later stop, past the breakpoint just hit |
| `RunToReached` | DebugEngine | a stop can be reported as a run-to at another address (`debugger.c:250`) |
| `StepsFromAStop` | DebugEngine | step over and step out read the registers of a machine still running (`debugger.c:402, 438`) |
| `PauseHaltsNextInstruction` | DebugEngine | a pause halts at the end of the frame, not at the next instruction (`colecodebug.h:39`) |
| `LocksOn` | HostLoop | a tick that came while no frame was waited for ends the next wait at once; quick frames then never phase-lock to the display (`host.c:102-105`), and the wall clock goes on pacing |
| `NobodyCallsTheGone` | Displays with `MayStall = TRUE` | a present thread that is still in `DwmFlush` after two seconds ticks into a session and buffers that were freed (`windows/main.c:1008-1014`) |
| `StopAlwaysReturns` | RuntimeEntry | after a stop detached a thread, a later one can join a thread that never ends (`fujinet_desktop_entry.cpp:680-682, 702`) |
| `OneThread` | RuntimeEntry | a second stop lowers `g_running` while the detached thread lives, and the next start spawns another (`:693-695, 709`) |
| `ContractRefused` | RuntimeEntry | a library refused for its missing contract is called through a null pointer at the next start (`fujinet_runtime.c:55, 68-70, 105`) |
| `NextTransactionDials` | FujiLink | on Windows no transaction dials again (`session.c:143-144`, `fujinet_cart.c:534-535`) |
| `TraceIsWhatWasSent` | FujiLink | the trace shows a request whose send failed (`fujinet_cart.h:94-95`, `fujinet_cart.c:343`) |
| `BindingTakesEffect` | Bindings | stealing compares keys as they are, look-up folds them: a key just bound may go on driving another control (`bindings.c:224, 181-184`) |
| `KeyHasOneTarget` | Bindings | dying in the middle of a reset leaves a key bound twice (`bindings.c:10, 239`) |
| `FocusLossReleases` | ControllerInput | the keypad window has no focus handler: a key held there stays held (`window.c:355`) |
| `SourcesMerge` | ControllerInput | the machine does not merge pads and keyboard, the last writer wins (`colecosession.h:258`) |
| `CannotClearEachOther` | ControllerInput (with `Target = {0, 1, 3}`) | a button on screen lifts the keys held on that port (`session_internal.h:57`) |
| `NoKeyDownNoKeyHeld` | ControllerInput | `#` typed with Shift stays down when Shift comes up first (`input_map.c:46-55`) |
| `IsAStore` | SettingsStore with `"write"` in `Failures` | a full disk goes unnoticed and the short file is renamed over the good one (`settings.c:132-140`) |
| `IsAStore`, `CleanIsSaved` | SettingsStore with two programs | each rewrites the whole file from what it read at its start, through the same temporary |
| `ButtonIsTrue` | DebugWindow | GNOME looks whether the machine is at the break before it refreshes the views: a stop or a step taken meanwhile leaves the button offering to pause (`gnome/debugger/dbg_window.c:432`) |
| `StatusIsTrue` | DebugWindow | a window opened while the machine is at a break says that it runs |
| `NoStopOutlivesTheWindow` | DebugWindow | on GNOME a stop posted before the window closes is handled with a window that was freed (`dbg_window.c:452-481, 723`) |
| `OnlyCommandsToggle` | DebugWindow | on KDE a refresh sets new text, which may move the cursor of the focused disassembly, which toggles a breakpoint (`DebuggerWindow.cpp:575-577`) |
| `FieldsAreCurrent`, `BankIsShown` | DebugWindow | a field left after a break shows what it showed before; on GNOME, KDE and macOS a new pattern bank is drawn with the next refresh, at a break not at all |
| `NothingUnapplied` | Shell | an import whose Preferences closed before it, or whose log a second import cleared, never starts the console (`prefs.c:159-160`, `windows/import.c:104`) |
| `OnlyAddressesSaved` | Shell | KDE stores whatever is in the address field while external is off (`prefs.c:117-118`, `windows/main.c:411`) |
| `NoRomIsACartridge` | Shell | KDE and macOS run a BIOS named on the command line as a cartridge (`windows/main.c:968`, `gnome/main.c:41`) |
| `SettingsKeepCartridge` | Shell | a cartridge named on the command line is lost when settings are applied (`window.c:97-99`) |

What `DataDir` models and its properties leave out: a tree whose first copy was cut off after
`fnconfig.ini` is taken for whole by every later run (`paths.c:297-306`); a file dropped from the
folder it would be copied to is emptied (`media.c:62-82`, `CopyBegins`); an import that wrote a BIOS still
reports a failure when another candidate could not be written (`roms.c:402`); on Windows there is no BIOS
between the removal and the rename, nor after it where the rename fails or the program dies
first (`roms.c:197-206`, though `roms.c:174-175` says that a failed write leaves the old one in
place: `BiosStays` excepts it); a short write of the embedded BIOS leaves a file
of the wrong size that keeps the next start from writing it again (`Fill`).

Of the windows, outside the properties of `Shell`: an address that is none, stored by KDE, refuses
every start in another frontend once external is switched on; a refused start is not reported when macOS
applies its settings, nor by eject and reset; an import begun on Windows while the console
had no BIOS restarts a console that was started meanwhile.

Two more are outside the modules' properties: after a start with an external FujiNet
whose machine fails, `fujinet_external` stays set (`session.c:168`, left out of
`NothingLeftBehind`); and with FujiNet disabled a local cartridge image is not served,
since an empty address means no cartridge device at all (`session.c:183-185`).

## The proofs

All for any values of the constants, with no assumption on them beyond those the modules
name, except where said.

`DebugEngine_proofs`. `Typing`, and `Invariance`: the inductive invariant `IInv` is
`TypeOK`, `LockInv` (who holds the lock, by program counter), `BreakInv` (`at_break`
exactly while the machine thread is parked or on its way out of the wait), `LifeInv`
(thread, core and host flags agree), `MuteInv` (which stretches run muted), and the
properties `EngagedExactly`, `CoreFollowsShadow`, `StopDisarms`, `NoLostWakeup`. None of
the properties is inductive alone: that nothing runs while `is_paused` answers 1 needs
`BreakInv`, which needs to know who holds the lock; a wake-up is not lost because each
request is made under the lock with a broadcast. The step lemmas follow the parts:
types, synchronisation (lock, life, sound, wait), need (engagement, shadow, hook). From
it `StoppedIsStopped`, `EngagementIsExact`, `NobodySleepsThrough`, `SoundIsRight` and
`NothingLeftArmed`, by propositional temporal reasoning.

`Bindings_proofs`. `OneControlPerKey`, `RestartIsExact`, `RestartIsSane` and `Typing`
for any finite or infinite sets of controls and keys the assumptions allow, any folding and any
defaults with one control per key. `IInv` adds to the properties what the file and the settings in memory hold
at each step of a rebinding (`Kept`, `Clean`, `Stealing`, `InForce`).

`SettingsStore_proofs`. `StoreRefines`: for one program and lines that arrive (`Alone`:
`App` is a single program, `"write"` is not among the failures), either build, any keys and
values, every behaviour of the store is one of `SettingsSpec`. The invariant `FlushInv`
says what the temporary file holds at each step of a flush. `SavedWhenClean` adds `CleanInv`, which
also covers the beginning of a flush. Both assumptions are needed: the table above has the
counterexamples without them. `StoreBesideImports` says the same of the whole of `DataDir`, whose every
step is one of the store's or leaves it alone.

In the same module, with neither assumption: `ImportTellsTheTruth`, `GuessesAreNamed` and
`BiosAlwaysThere` for any images found in any files, folders and zips. `DirInv` says
what an import has done so far: the image being written is one that is wanted
(`WritingInv`); until one is in place the first wanted image of the path is still the first of what
is left to look at, and the BIOS is as it was; what was imported first stays (`DoneInv`); whatever may still be guessed, in this path or one that follows, was named by
the user (`NamedInv`). `OnlyNamedFilesGuessed` is not inductive without the last.
`PackedIsImported` is the half of `PackedImageIsFound` that is `roms.c`'s: with a reader of zips that
gives back what was packed whole and nothing that is wanted of the rest (`Decodes`), the import
of a packed image puts it in place and reports so, and one of a damaged entry leaves the BIOS alone,
whatever fails on the way. `PackedInv`: until then the packed image is all there is to look at. The
other half, that `zipread.c` is such a reader, is for TLC.

`Session_proofs`. `NoUserOutlivesTheCore`, `EverythingIsPutBack`, `FujiNetFirstAndLast` and
`Typing`, for any number of machines. The properties speak of moments; `IInv` says for every
step of a start and a stop what is there: core, host flag and machine thread exactly while
the machine lives (`CoreInv`), the audio device and the gamepad thread exactly while the session
has them or waits for them, and only within that time (`AudioInv`, `PadInv`), the runtime
while it is ours, and listening still if it ever was seen to (`FujiInv`). That both users of the
core are gone before it is freed follows from the order of `colecosession_stop`.

In the same module the main and settings windows: `SettingsInForce` and `BiosTakenUp`, for each
frontend, any cartridges and any number of questions up at once. `ShellInv` is kept by every handler of
every frontend: what runs is as stored or is marked to be applied (`InForce`), and a console
that wants for a BIOS that is there has a window or a message up that will start it (`ToBeStarted`);
the proof takes the operations of `SessionCalls` first and then each frontend's handlers.

`Host_proofs`, first the pace of the machine, for any frame length, ticks and breaks. `PaceIsKept`:
each frame that takes less than half its time moves the ladder's deadline more than half a frame nearer
to now, and the ladder is never more than four frames behind (`LadderInv`), so eight such frames in a
row cannot be. `MachineGoesOn` follows from what is left of a wait and of a sleep (`WaitInv`). Then the frame slot
and the displays, for any feeds, pictures, buffers and size of the pool: `CallbackLives`,
`ScreenIsNewest` and, where the exit does not give up on the present thread (`~MayStall`, without which
the table above has a counterexample), `NobodyGoneIsCalled`. `IInv` says who is installed and
made (`CallInv`), that a pending flag has a signal posted or about to be (`PostInv`), that a display
that is not up to date will look again (`LookInv`), what each half of the converted and of the shown
picture is while a tick or a redraw is under way (`HalvesInv`), and where the buffers are (`PoolInv`).
`BoardIsKept`: every step of slot and displays is a step of `FrameBoard` or none, the safety
half of the refinement.

`FujiNet_proofs`. `ConsoleReadsOneImage` and `StatusPageIsCurrent`, for any number of pushes: what is
staged, what is served and which buffer the console reads from (`ServingInv`, `StagingInv`),
and which page each of them carries (`PageInv`). `OwnReply` and `TraceIsWire`, for any number of
transactions, pushes and losses: the tokens that are unread keep in step with the frames until a
transaction gives up (`FramesInv`), what the reader holds fits where it stands (`ReaderInv`), and until
then FujiNet owes at most one reply, which nothing follows (`OwnInv`). `WindowIsTrue`, for any
packets and pieces and any size of the log: every change gives the newest entry a serial that none
had, and the window remembers one that is no newer (`Remembers`); a fold needs three entries, hence the
assumption that the log keeps as many. `CountsHold`, for any finite set of packets (a sum is over a finite
set), any pieces and any size of the log, in two halves. `DecoderInv`: the decoder, which goes on from where
the last piece stopped, holds what it would hold had it been given in one piece what was handed to
it of the frame under way (`HalfWay`), so a frame comes out exactly when its last piece is in, and
comes out as it was (`DecodeJoin`, `PieceFacts`). `CountInv`: an entry more, one repeated once more, two
repeated and the newest dropped, and an eviction each move one packet's claims by what
happened (`ClaimedIn`, `SumMoves`). What a fold over a sequence or a set computes needs induction; the
library's theorems about it take an operator, so the module begins with its own, from the least
number at which a set fails (`LeastNat`, `EveryNat`, `Recursion`). `ThreadsAreJoined`, `NothingIsLeft` and `OneIsOwned`, for any finite set of threads: a
joinable thread is held only while the session counts it as running (`HeldInv`), waited for only
by a stop (`WaitInv`), and every other that lives was given up on (`OwnedInv`).

`ControllerInput_proofs`. `SampledIsHeld` and `UnpluggedIsReleased` for any controls, keys, bindings
and pads. `MainHoldsDown` on a keyboard (`Keyboard`) on which Shift changes only what
look-up folds back and no two keys fold to one. Letters and arrows are of this kind; a
key that gives `3` and `#` is not, and `NoKeyDownNoKeyHeld` above is what happens with it.
`AwayInv` adds that away from the main window nothing is held for it.

`DebugWindow_proofs`. `BreakIsSeen`, in each of the four windows, with any pages and any number of
stops on their way. Each handler's list of refreshes is shown to cover every view that frontend promises
(`Registers`, `Covers`); `BreakInv` then says that a window whose callback is registered and that has no stop on
its way shows, or is about to rebuild, every view from the machine as it stands.

Only model-checked. Liveness under fairness (`StepIsTaken`, `StopEndsUnlessParked`, `StopReturns`,
`TransactionEnds`, the liveness half of `BoardSpec`) is beyond the prover, as is `ENABLED`; and that `ZipRead`
decodes, the hypothesis `Decodes` of `PackedIsImported`: its operators are recursive, of which
the provers know nothing. `DataDir` takes what the decoder finds as a parameter, so that what is done with
it can be proved.

## Not modelled

adamcore, colmap, fujimail and the firmware (not in the repository); the text of files,
log lines and labels; the Z80 disassembler, VDP views and built-in symbols (pure tables and
drawing, a model of which would be a second copy); the layout of zip headers in bytes;
drawing and layout; key handling of the frontends other than GNOME;
running out of memory; the bit layout of the controller word and the
stick's threshold; the debugger's register and memory access and its trace ring.

## What could follow

1. A reader of the cartridge's image while the swap frees it (the debugger's memory view).
2. Symbol search as an algorithm over bounded tables.
3. Proofs of what the table of disagreements denies, each under the hypothesis with which it holds.
