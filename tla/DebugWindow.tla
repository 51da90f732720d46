----------------------------- MODULE DebugWindow ----------------------------
(***************************************************************************)
(* The debugger's window, in each of the four frontends, over the engine:  *)
(* the machine thread runs, stops, reports the stop and waits; the UI      *)
(* thread is handed the report as a message, and every handler of the      *)
(* window refreshes views one after the other, during which the machine    *)
(* goes on.  A view remembers what it was built from and forgets it when   *)
(* that changes.                                                           *)
(*                                                                         *)
(* The engine is DebugEngine's, reduced to when the machine runs: its      *)
(* calls are atomic here.  Breakpoints, run-to and pauses stop the machine *)
(* anywhere.                                                               *)
(***************************************************************************)
EXTENDS DebugFrontend, Naturals

CONSTANTS
  Frontend,   \* the frontends: of "gnome", "kde", "macos", "windows"
  Pages,      \* the pages looked at: of "cpu", "vdp", "vram", "trace", "fujinet"
  MaxPosted   \* the bound on stops the UI thread has not handled yet

ASSUME WindowAssumption ==
  /\ Frontend \subseteq {"gnome", "kde", "macos", "windows"}
  /\ "cpu" \in Pages /\ MaxPosted \in Nat

G == INSTANCE GnomeDebugger
K == INSTANCE KdeDebugger
M == INSTANCE MacDebugger
W == INSTANCE WinDebugger

VARIABLES
  frontend,
  \* the engine
  machine,       \* "runs", "stopped", "loop" (of the stepped driver) or "parked"
  paused, pending_step,
  stop_cb,       \* the window is registered for stops
  \* the window
  open,          \* "none", "shown" or "hidden"
  posted,        \* stops on their way to the UI thread
  todo,          \* what the handler at work has still to refresh
  shown,         \* the sources each view was built from that it is current with
  button, status,
  focus, page

debugged == <<machine, paused, pending_step, stop_cb>>
dbgwin   == <<open, posted, todo, shown, button, status, focus, page>>
dbgvars  == <<frontend, debugged, dbgwin>>


DbgTypeOK ==
  /\ frontend \in Frontend
  /\ machine \in {"runs", "stopped", "loop", "parked"}
  /\ paused \in BOOLEAN /\ pending_step \in BOOLEAN /\ stop_cb \in BOOLEAN
  /\ open \in {"none", "shown", "hidden"} /\ posted \in 0..MaxPosted
  /\ \A i \in DOMAIN todo : \/ todo[i] \in {Button, Callback}
                             \/ DOMAIN todo[i] \subseteq View
  /\ shown \in [View -> SUBSET Source]
  /\ button \in {"Pause", "Continue"} /\ status \in {"Running", "Stopped"}
  /\ focus \in {"elsewhere", "field", "disasm"} /\ page \in Pages

DbgInit ==
  /\ frontend \in Frontend
  /\ machine = "runs" /\ paused = FALSE /\ pending_step = FALSE /\ stop_cb = FALSE
  /\ open = "none" /\ posted = 0 /\ todo = <<>>
  /\ shown = [v \in View |-> {}]
  /\ button = "Pause" /\ status = "Running" /\ focus = "elsewhere" /\ page = "cpu"

\* What was built from a source that changes is no longer current.
Changed(sources) ==
  shown' = [v \in View |-> IF shown[v] \cap sources = {} THEN shown[v] ELSE {}]

\* colecodebug_is_paused: at the break, not only asked to be.
is_paused == paused /\ machine = "parked"

-----------------------------------------------------------------------------
(* The machine thread.                                                     *)

Execute(data) ==
  /\ machine = "runs"
  /\ Changed(data)
  /\ UNCHANGED <<frontend, debugged, open, posted, todo, button, status, focus, page>>

\* A breakpoint, a hook stop, a step that is done or a pause that is noticed.
Stops ==
  /\ machine = "runs"
  /\ machine' = "stopped" /\ paused' = TRUE
  /\ UNCHANGED <<frontend, pending_step, stop_cb, dbgwin>>

\* notify_stop: the window's trampoline posts the stop to the UI thread.
notify_stop ==
  /\ machine = "stopped" /\ machine' = "loop"
  /\ stop_cb => posted < MaxPosted
  /\ posted' = IF stop_cb THEN posted + 1 ELSE posted
  /\ UNCHANGED <<frontend, paused, pending_step, stop_cb,
                 open, todo, shown, button, status, focus, page>>

\* The stepped driver's loop, at its top: step, wait or run.
HostFrame ==
  /\ machine = "loop"
  /\ machine' = IF paused /\ ~pending_step THEN "parked" ELSE "runs"
  /\ pending_step' = (pending_step /\ ~paused)
  /\ UNCHANGED <<frontend, paused, stop_cb, dbgwin>>

Broadcast == machine' = IF machine = "parked" THEN "loop" ELSE machine

-----------------------------------------------------------------------------
(* What each frontend does.                                                *)

Built ==
  CASE frontend = "gnome"   -> G!coleco_debugger_show
    [] frontend = "kde"     -> K!constructor
    [] frontend = "macos"   -> M!initWithSession
    [] frontend = "windows" -> W!coleco_debugger_show

AfterContinue ==
  CASE frontend = "gnome"   -> G!on_pause_continue
    [] frontend = "kde"     -> K!pauseContinue(focus)
    [] frontend = "macos"   -> M!pauseContinue(focus)
    [] frontend = "windows" -> W!toggle_pause(focus)

AfterStop ==
  CASE frontend = "gnome"   -> G!stop_idle
    [] frontend = "kde"     -> K!onStopped(focus)
    [] frontend = "macos"   -> M!onStopped(focus)
    [] frontend = "windows" -> W!on_stopped(focus)

Commands ==
  CASE frontend = "gnome"   -> G!commands
    [] frontend = "kde"     -> {c \in K!commands : c = K!cursorPositionChanged => focus = "disasm"}
    [] frontend = "macos"   -> M!commands
    [] frontend = "windows" -> W!commands

RegisterApplied ==
  CASE frontend = "gnome"   -> G!on_reg_activate
    [] frontend = "kde"     -> K!regEdit(focus)
    [] frontend = "macos"   -> M!applyRegister(focus)
    [] frontend = "windows" -> W!apply_register(focus)

PageShown(p) ==
  CASE frontend = "gnome"   -> G!on_switch_page(p)
    [] frontend = "kde"     -> K!visibilityChanged(p)
    [] frontend = "macos"   -> M!didSelectTabViewItem(p)
    [] frontend = "windows" -> W!show_page(p)

OnTick(fifth) ==
  CASE frontend = "gnome"   -> G!tick_refresh(page, open = "shown", fifth)
    [] frontend = "kde"     -> K!tick(page, focus, open = "shown", fifth)
    [] frontend = "macos"   -> M!onTick(page, focus, fifth)
    [] frontend = "windows" -> W!dbg_timer(page, focus, fifth)

Closed ==
  CASE frontend = "gnome"   -> G!on_destroy
    [] frontend = "kde"     -> K!destructor
    [] frontend = "macos"   -> M!closed
    [] frontend = "windows" -> W!dbg_close

-----------------------------------------------------------------------------
(* The UI thread.                                                          *)

\* The window's messages are handled one at a time.
Handles == open # "none" /\ todo = <<>>

Show_ReadsFirst ==
  /\ todo = <<>> /\ open # "shown" /\ open' = "shown"
  /\ IF open = "none"
     THEN /\ todo' = Tail(Built) \o <<Callback>>
          /\ shown' = [v \in View |-> {}] /\ focus' = "elsewhere" /\ page' = "cpu"
          /\ button' = "Pause" /\ status' = "Running"
     ELSE UNCHANGED <<todo, shown, focus, page, button, status>>
  /\ UNCHANGED <<frontend, debugged, posted>>

\* Shown for the first time, or again after it was destroyed, the window
\* registers for stops and reads everything; hidden, it is only shown.
Show ==
  /\ todo = <<>> /\ open # "shown" /\ open' = "shown"
  /\ IF open = "none"
     THEN /\ todo' = Built
          /\ shown' = [v \in View |-> {}] /\ focus' = "elsewhere" /\ page' = "cpu"
          /\ button' = "Pause" /\ status' = "Running"
     ELSE UNCHANGED <<todo, shown, focus, page, button, status>>
  /\ UNCHANGED <<frontend, debugged, posted>>

Close ==
  /\ Handles /\ open = "shown"
  /\ open' = Closed.window
  /\ stop_cb' = (stop_cb /\ open' # "none")
  /\ posted' = IF Closed.queued = "dropped" THEN 0 ELSE posted
  /\ UNCHANGED <<frontend, machine, paused, pending_step, todo, shown, button,
                 status, focus, page>>

\* The pause button: continue at once, or ask for a pause.
PauseContinue ==
  /\ Handles
  /\ IF is_paused
     THEN /\ paused' = FALSE /\ Broadcast
          /\ status' = "Running" /\ todo' = AfterContinue
     ELSE paused' = TRUE /\ UNCHANGED <<machine, status, todo>>
  /\ UNCHANGED <<frontend, pending_step, stop_cb, open, posted, shown, button, focus, page>>

\* Step into; step over a call and step out run.
Step ==
  /\ Handles /\ paused
  /\ \/ pending_step' = TRUE /\ UNCHANGED paused
     \/ paused' = FALSE /\ UNCHANGED pending_step
  /\ Broadcast
  /\ UNCHANGED <<frontend, stop_cb, dbgwin>>

Edits(c) ==
  /\ IF c.edits = Nothing THEN UNCHANGED shown ELSE Changed({c.edits})
  /\ todo' = c.then

Commanded(c) ==
  /\ Handles
  /\ Edits(c)
  /\ UNCHANGED <<frontend, debugged, open, posted, button, status, focus, page>>

\* A register is written only at the break.
ApplyRegister ==
  /\ Handles /\ is_paused
  /\ Edits(Does("cpu", RegisterApplied))
  /\ UNCHANGED <<frontend, debugged, open, posted, button, status, focus, page>>

FocusMoves(f) ==
  /\ Handles /\ focus' = f
  /\ UNCHANGED <<frontend, debugged, open, posted, todo, shown, button, status, page>>

SwitchPage(p) ==
  /\ Handles /\ p # page /\ page' = p
  /\ todo' = PageShown(p)
  /\ UNCHANGED <<frontend, debugged, open, posted, shown, button, status, focus>>

\* Nothing is refreshed at the break: the stop did it.
Tick(fifth) ==
  /\ Handles /\ ~is_paused
  /\ todo' = OnTick(fifth)
  /\ UNCHANGED <<frontend, debugged, open, posted, shown, button, status, focus, page>>

\* The posted stop arrives.
OnStopped ==
  /\ Handles /\ posted > 0
  /\ posted' = posted - 1
  /\ status' = "Stopped" /\ todo' = AfterStop
  /\ UNCHANGED <<frontend, debugged, open, shown, button, focus, page>>

\* A stop that was queued for a window since destroyed.
OnStoppedTooLate ==
  /\ open = "none" /\ posted > 0 /\ posted' = posted - 1
  /\ UNCHANGED <<frontend, debugged, open, todo, shown, button, status, focus, page>>

\* The handler goes on with the next thing it has to do.
Refresh ==
  /\ todo # <<>> /\ todo' = Tail(todo)
  /\ LET next == Head(todo) IN
       /\ shown' = [v \in View |-> IF v \in DOMAIN next THEN next[v] ELSE shown[v]]
       /\ button' = IF next = Button
                    THEN IF is_paused THEN "Continue" ELSE "Pause"
                    ELSE button
       /\ stop_cb' = (stop_cb \/ next = Callback)
  /\ UNCHANGED <<frontend, machine, paused, pending_step, open, posted, status, focus, page>>

\* In the KDE window new text in the disassembly moves its cursor, and a
\* cursor that moves while the view has the focus toggles the breakpoint of
\* its line.  Whether it moves is Qt's; the bound is one such toggle at a time.
RefreshToggles ==
  /\ frontend = "kde" /\ focus = "disasm"
  /\ todo # <<>> /\ Head(todo) = K!refreshDisasm
  /\ Len(todo) <= Len(Built)
  /\ Changed({"bps"})
  /\ todo' = K!cursorPositionChanged.then \o Tail(todo)
  /\ UNCHANGED <<frontend, debugged, open, posted, button, status, focus, page>>

DbgNext ==
  \/ \E data \in {{"cpu"}, MachineData} : Execute(data)
  \/ Stops \/ notify_stop \/ HostFrame
  \/ Show \/ Close \/ PauseContinue \/ Step \/ ApplyRegister
  \/ \E c \in Commands : Commanded(c)
  \/ \E f \in {"elsewhere", "field", "disasm"} : FocusMoves(f)
  \/ \E p \in Pages : SwitchPage(p)
  \/ \E fifth \in BOOLEAN : Tick(fifth)
  \/ OnStopped \/ OnStoppedTooLate \/ Refresh \/ RefreshToggles

DbgSpec == DbgInit /\ [][DbgNext]_dbgvars

-----------------------------------------------------------------------------
(* What must hold.                                                         *)

\* What a view shows.
Needs(v) ==
  CASE v = "disasm" -> {"cpu", "mem", "bps"}
    [] v \in {"regs", "field"} -> {"cpu"}
    [] v = "patterns" -> {"vdp", "bank"}
    [] v = "fuji" -> {"log", "cart"}
    [] OTHER -> {v}

\* A register field that has been typed in keeps what was typed, except in GNOME; a new
\* pattern bank is shown at once only on Windows.
Promised ==
  View \ ((IF frontend = "gnome" THEN {} ELSE {"field"})
          \cup (IF frontend = "windows" THEN {} ELSE {"patterns"}))

\* While the machine is at the break nothing is refreshed by the clock: what
\* the window shows then is the machine as it stopped and the engine as it was
\* edited since -- however the stop met the window's opening, a step, a resume
\* or a handler half done (core/include/colecodebug.h:44-46, "Fires on the emulator
\* thread whenever execution stops"; the windows refresh on it and on edits).
BreakIsShown ==
  (Handles /\ posted = 0 /\ machine = "parked") =>
     \A v \in Promised : shown[v] = Needs(v)

(* Of the windows as they are, the following do not hold; the README says   *)
(* what goes wrong.                                                         *)

\* The stop path refreshes everything (gnome/debugger/dbg_window.c:702), the
\* pause button too: once the stop was handled it offers to continue.
ButtonIsTrue ==
  (Handles /\ posted = 0 /\ machine = "parked") => button = "Continue"

\* A window that is opened while the machine is at the break says so.
StatusIsTrue ==
  (Handles /\ posted = 0 /\ machine = "parked") => status = "Stopped"

\* No stop is on its way to a window that is gone.
NoStopOutlivesTheWindow == open = "none" => posted = 0

\* Breakpoints are toggled by clicks and commands only
\* (kde/debugger/DebuggerWindow.cpp:575-577: a refresh never toggles one).
OnlyCommandsToggle == [][~RefreshToggles]_dbgvars

\* Views that BreakIsShown leaves out.
FieldsAreCurrent ==
  (Handles /\ posted = 0 /\ machine = "parked" /\ focus # "field") =>
     shown["field"] = Needs("field")
BankIsShown ==
  (Handles /\ posted = 0 /\ machine = "parked") => shown["patterns"] = Needs("patterns")
=============================================================================
