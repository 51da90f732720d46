---------------------------- MODULE DebugEngine ----------------------------
(***************************************************************************)
(* The debugger engine (core/debugger/debugger.c) and the part of the      *)
(* machine host it drives (core/coleco/host.c): the UI thread's control    *)
(* calls, the machine thread's paced loop and its stepped frame driver,    *)
(* and the session's start and stop around both.                           *)
(*                                                                         *)
(* Two threads share the engine under `mtx`; s_stop_req and s_dbg_engaged  *)
(* are atomics outside it, and the exec hook reads the transient stop      *)
(* condition with no lock at all.  The emulated program is abstracted to a *)
(* program counter that may move to any address of Addr; what adamcore's   *)
(* debug_run does with breakpoints and the hook is external to src/.       *)
(***************************************************************************)
EXTENDS Naturals

CONSTANTS
  Addr,    \* the addresses the program counter and the breakpoints range over
  Boot     \* where a new core's program counter starts

ASSUME BootAssumption == Boot \in Addr

VARIABLES
  \* colecodebug (debugger.c)
  mtx,           \* who holds d->mtx: "free", "ui" or "mt"
  paused,        \* the REQUEST
  at_break,      \* the machine thread is stopped in the pause wait
  pause_notify,  \* a COLECODBG_STOP_PAUSE is owed
  pending_step,  \* an instruction to execute while paused is owed
  trans,         \* the transient stop condition
  trace_on,
  bp_map,        \* the breakpoint shadow
  \* host.c
  s_running, s_stop_req, s_dbg_engaged, s_audio_mute,
  core,          \* the adamcore: its pc, breakpoints and whether it is hooked
  \* the threads
  mt,            \* the machine thread's program counter
  ret,           \* the stop debug_run returned, or the stop being reported
  ui,            \* the UI thread: "idle", "arming" or "joining"
  arm,           \* the condition an arming call is about to write
  \* history
  withdrawn,     \* requests not acted on yet when the user resumed
  goal           \* the address of the last run-to

engine  == <<paused, at_break, pause_notify, pending_step, trans, trace_on, bp_map>>
host    == <<s_running, s_stop_req, s_dbg_engaged, s_audio_mute, core>>
threads == <<mt, ret, ui, arm>>
history == <<withdrawn, goal>>
vars    == <<mtx, engine, host, threads, history>>

Reason == {"pause", "breakpoint", "step", "runto"}
Status == {"frame_done", "breakpoint", "hook_stop"}
Trans  == [active : BOOLEAN, reason : {"step", "runto"}, target : Addr, floor : BOOLEAN]
Stop   == [st : Status \cup Reason, pc : Addr]
Armed  == [target : Addr, floor : BOOLEAN]
Core   == [live : BOOLEAN, pc : Addr, bps : SUBSET Addr, hook : BOOLEAN]

\* Where the machine thread can be.  "lock" waits for mtx at the top of the
\* driver's loop, "body" holds it past the check of coleco_host_stopping.
Executing == {"fast", "exec", "step"}
MtPc == Executing \cup {"none", "top", "lock", "body", "ret", "stepped",
                        "cb", "parked", "woken"}

TypeOK ==
  /\ mtx \in {"free", "ui", "mt"}
  /\ paused \in BOOLEAN /\ at_break \in BOOLEAN
  /\ pause_notify \in BOOLEAN /\ pending_step \in BOOLEAN
  /\ trans \in Trans /\ trace_on \in BOOLEAN /\ bp_map \in SUBSET Addr
  /\ s_running \in BOOLEAN /\ s_stop_req \in BOOLEAN
  /\ s_dbg_engaged \in BOOLEAN /\ s_audio_mute \in BOOLEAN
  /\ core \in Core
  /\ mt \in MtPc
  /\ ret \in Stop
  /\ ui \in {"idle", "arming", "joining"}
  /\ arm \in Armed
  /\ withdrawn \subseteq {"pause", "step"}
  /\ goal \in Addr

-----------------------------------------------------------------------------
(* The engine is created before the machine first starts.                  *)

NoArm  == [target |-> Boot, floor |-> FALSE]
NoStop == [st |-> "frame_done", pc |-> Boot]
NoCore == [live |-> FALSE, pc |-> Boot, bps |-> {}, hook |-> FALSE]

Init ==
  /\ mtx = "free"
  /\ paused = FALSE /\ at_break = FALSE
  /\ pause_notify = FALSE /\ pending_step = FALSE
  /\ trans = [active |-> FALSE, reason |-> "step", target |-> Boot, floor |-> FALSE]
  /\ trace_on = FALSE /\ bp_map = {}
  /\ s_running = FALSE /\ s_stop_req = FALSE
  /\ s_dbg_engaged = FALSE /\ s_audio_mute = FALSE
  /\ core = NoCore
  /\ mt = "none" /\ ret = NoStop /\ ui = "idle" /\ arm = NoArm
  /\ withdrawn = {} /\ goal = Boot

\* update_engagement_locked: the stepped path is on exactly while needed.
Needed(p, n, t, tr, bps) == p \/ n \/ t.active \/ tr \/ bps # {}
UpdateEngagement_NeverLetsGo ==
  s_dbg_engaged' = (s_dbg_engaged \/ Needed(paused', pending_step', trans', trace_on', bp_map'))
UpdateEngagement ==
  s_dbg_engaged' = Needed(paused', pending_step', trans', trace_on', bp_map')

\* apply_hook_locked: nothing to hook without a core.
Hooked(c) == [c EXCEPT !.hook = IF c.live THEN trace_on' \/ trans'.active ELSE @]

\* pthread_cond_broadcast(&d->cv): the machine thread leaves the wait set.
Broadcast_Missing == mt' = mt
Broadcast == mt' = IF mt = "parked" THEN "woken" ELSE mt

\* trans.active = 0, wherever a call or a stop ends a transient condition.
Disarm == trans' = [trans EXCEPT !.active = FALSE]

\* What resuming leaves behind: the flags the call does not clear.
Withdraw ==
  withdrawn' = withdrawn \cup (IF pause_notify THEN {"pause"} ELSE {})
                         \cup (IF pending_step THEN {"step"} ELSE {})

-----------------------------------------------------------------------------
(* The UI thread's calls.  It makes one at a time, and each holds mtx.     *)

UiLocks == ui = "idle" /\ mtx = "free"

colecodebug_pause ==
  /\ UiLocks
  /\ \/ /\ ~paused
        /\ paused' = TRUE /\ pause_notify' = TRUE
        /\ Disarm
        /\ UNCHANGED <<pending_step, trace_on, bp_map>>
        /\ core' = Hooked(core)
        /\ UpdateEngagement
        /\ withdrawn' = withdrawn \ {"pause"}
     \/ /\ paused
        /\ UNCHANGED <<paused, pause_notify, trans, pending_step, trace_on,
                       bp_map, core, s_dbg_engaged, withdrawn>>
  /\ Broadcast
  /\ UNCHANGED <<mtx, at_break, s_running, s_stop_req, s_audio_mute, ret, ui,
                 arm, goal>>

colecodebug_resume ==
  /\ UiLocks
  /\ paused' = FALSE
  /\ Disarm
  /\ UNCHANGED <<pause_notify, pending_step, trace_on, bp_map>>
  /\ core' = Hooked(core)
  /\ UpdateEngagement
  /\ Broadcast
  /\ Withdraw
  /\ UNCHANGED <<mtx, at_break, s_running, s_stop_req, s_audio_mute, ret, ui,
                 arm, goal>>

\* colecodebug_step_into, and colecodebug_step_over of an instruction that is
\* not a call, a halt or a block instruction.
RequestStep ==
  /\ UiLocks
  /\ paused
  /\ pending_step' = TRUE
  /\ UNCHANGED <<paused, pause_notify, trans, trace_on, bp_map>>
  /\ UpdateEngagement
  /\ Broadcast
  /\ withdrawn' = withdrawn \ {"step"}
  /\ UNCHANGED <<mtx, at_break, s_running, s_stop_req, s_audio_mute, core, ret,
                 ui, arm, goal>>

colecodebug_step_into == RequestStep
StepOverPlain == core.live /\ RequestStep

\* The calls that arm the transient condition write it field by field while
\* the exec hook may be reading it: first `active` and `reason`...
Arm(reason, target, floor) ==
  /\ UiLocks
  /\ trans' = [trans EXCEPT !.active = TRUE, !.reason = reason]
  /\ mtx' = "ui" /\ ui' = "arming"
  /\ arm' = [target |-> target, floor |-> floor]
  /\ UNCHANGED <<paused, at_break, pause_notify, pending_step, trace_on, bp_map,
                 host, mt, ret, withdrawn>>

\* ... then the address and the stack floor, and the machine may go.
ArmEnd ==
  /\ ui = "arming"
  /\ trans' = [trans EXCEPT !.target = arm.target, !.floor = arm.floor]
  /\ paused' = FALSE
  /\ UNCHANGED <<pause_notify, pending_step, trace_on, bp_map>>
  /\ core' = Hooked(core)
  /\ UpdateEngagement
  /\ Broadcast
  /\ Withdraw
  /\ mtx' = "free" /\ ui' = "idle" /\ arm' = NoArm
  /\ UNCHANGED <<at_break, s_running, s_stop_req, s_audio_mute, ret, goal>>

\* Over a call, a halt or a block instruction: run to the instruction after it
\* with the stack back at this level.  Its address depends on the program.
StepOverCall(a) == core.live /\ paused /\ Arm("step", a, TRUE) /\ UNCHANGED goal

\* To the return address on the stack, which depends on the program too.
colecodebug_step_out(a) == core.live /\ paused /\ Arm("step", a, TRUE) /\ UNCHANGED goal

colecodebug_run_to(a) == Arm("runto", a, FALSE) /\ goal' = a

SetBreakpoints(shadow, inCore) ==
  /\ UiLocks
  /\ bp_map' = shadow
  /\ core' = [core EXCEPT !.bps = IF core.live THEN inCore ELSE @]
  /\ UNCHANGED <<paused, pause_notify, pending_step, trans, trace_on>>
  /\ UpdateEngagement
  /\ UNCHANGED <<mtx, at_break, s_running, s_stop_req, s_audio_mute, threads,
                 history>>

colecodebug_bp_set(a)   == SetBreakpoints(bp_map \cup {a}, core.bps \cup {a})
colecodebug_bp_clear_ShadowOnly(a) == SetBreakpoints(bp_map \ {a}, core.bps)
colecodebug_bp_clear(a) == SetBreakpoints(bp_map \ {a}, core.bps \ {a})
colecodebug_bp_clear_all == SetBreakpoints({}, {})

colecodebug_trace_enable(enable) ==
  /\ UiLocks
  /\ trace_on' = enable
  /\ UNCHANGED <<paused, pause_notify, pending_step, trans, bp_map>>
  /\ core' = Hooked(core)
  /\ UpdateEngagement
  /\ UNCHANGED <<mtx, at_break, s_running, s_stop_req, s_audio_mute, threads,
                 history>>

\* coleco_host_start: a new core with no breakpoint and no hook.
\* colecodebug_on_core_created, which would apply the shadow, has no caller.
coleco_host_start ==
  /\ ui = "idle" /\ ~s_running
  /\ core' = [NoCore EXCEPT !.live = TRUE]
  /\ s_stop_req' = FALSE /\ s_running' = TRUE
  /\ mt' = "top"
  /\ UNCHANGED <<mtx, engine, s_dbg_engaged, s_audio_mute, ret, ui, arm, history>>

\* coleco_host_stop: raise the flag and join.  It takes no lock of the engine
\* and signals no condition of it.
StopBegin ==
  /\ ui = "idle" /\ s_running
  /\ s_stop_req' = TRUE /\ ui' = "joining"
  /\ UNCHANGED <<mtx, engine, s_running, s_dbg_engaged, s_audio_mute, core, mt,
                 ret, arm, history>>

StopJoined ==
  /\ ui = "joining" /\ mt = "none"
  /\ s_running' = FALSE /\ core' = NoCore /\ ui' = "idle"
  /\ UNCHANGED <<mtx, engine, s_stop_req, s_dbg_engaged, s_audio_mute, mt, ret,
                 arm, history>>

Ui ==
  \/ colecodebug_pause
  \/ colecodebug_resume
  \/ colecodebug_step_into
  \/ StepOverPlain
  \/ \E a \in Addr : StepOverCall(a)
  \/ \E a \in Addr : colecodebug_step_out(a)
  \/ \E a \in Addr : colecodebug_run_to(a)
  \/ ArmEnd
  \/ \E a \in Addr : colecodebug_bp_set(a)
  \/ \E a \in Addr : colecodebug_bp_clear(a)
  \/ colecodebug_bp_clear_all
  \/ \E e \in BOOLEAN : colecodebug_trace_enable(e)
  \/ coleco_host_start
  \/ StopBegin
  \/ StopJoined

-----------------------------------------------------------------------------
(* The machine thread.                                                     *)

\* The paced loop: leave on the stop flag, else run one frame on the stepped
\* path if the debugger is engaged and on the fast one if not.
LoopTop_NoStop ==
  /\ mt = "top"
  /\ mt' = IF s_dbg_engaged THEN "lock" ELSE "fast"
  /\ UNCHANGED <<mtx, engine, host, ret, ui, arm, history>>

LoopTop ==
  /\ mt = "top"
  /\ mt' = CASE s_stop_req                   -> "none"
             [] ~s_stop_req /\ s_dbg_engaged  -> "lock"
             [] ~s_stop_req /\ ~s_dbg_engaged -> "fast"
  /\ UNCHANGED <<mtx, engine, host, ret, ui, arm, history>>

RunFrame ==
  /\ mt = "fast"
  /\ \E a \in Addr : core' = [core EXCEPT !.pc = a]
  /\ mt' = "top"
  /\ UNCHANGED <<mtx, engine, s_running, s_stop_req, s_dbg_engaged, s_audio_mute,
                 ret, ui, arm, history>>

\* Take mtx (from outside, or out of the wait, which also clears at_break) and
\* look at the stop flag.
Enter_KeepsBreak ==
  /\ mt \in {"lock", "woken"} /\ mtx = "free"
  /\ \/ s_stop_req /\ s_audio_mute' = FALSE /\ mt' = "top" /\ UNCHANGED mtx
     \/ ~s_stop_req /\ mt' = "body" /\ mtx' = "mt" /\ UNCHANGED s_audio_mute
  /\ UNCHANGED <<engine, s_running, s_stop_req, s_dbg_engaged, core, ret, ui,
                 arm, history>>

Enter ==
  /\ mt \in {"lock", "woken"} /\ mtx = "free"
  /\ at_break' = FALSE
  /\ \/ /\ s_stop_req
        /\ s_audio_mute' = FALSE
        /\ mt' = "top"
        /\ UNCHANGED mtx
     \/ /\ ~s_stop_req
        /\ mt' = "body" /\ mtx' = "mt"
        /\ UNCHANGED s_audio_mute
  /\ UNCHANGED <<paused, pause_notify, pending_step, trans, trace_on, bp_map,
                 s_running, s_stop_req, s_dbg_engaged, core, ret, ui, arm, history>>

TakeStep ==
  /\ mt = "body" /\ paused /\ pending_step
  /\ pending_step' = FALSE
  /\ mtx' = "free" /\ mt' = "step"
  /\ withdrawn' = withdrawn \ {"step"}
  /\ UNCHANGED <<paused, at_break, pause_notify, trans, trace_on, bp_map, host,
                 ret, ui, arm, goal>>

NotifyPause ==
  /\ mt = "body" /\ paused /\ ~pending_step /\ pause_notify
  /\ pause_notify' = FALSE
  /\ ret' = [st |-> "pause", pc |-> core.pc]
  /\ mtx' = "free" /\ mt' = "cb"
  /\ withdrawn' = withdrawn \ {"pause"}
  /\ UNCHANGED <<paused, at_break, pending_step, trans, trace_on, bp_map, host,
                 ui, arm, goal>>

Park ==
  /\ mt = "body" /\ paused /\ ~pending_step /\ ~pause_notify
  /\ s_audio_mute' = TRUE
  /\ at_break' = TRUE
  /\ mtx' = "free" /\ mt' = "parked"
  /\ UNCHANGED <<paused, pause_notify, pending_step, trans, trace_on, bp_map,
                 s_running, s_stop_req, s_dbg_engaged, core, ret, ui, arm, history>>

Run ==
  /\ mt = "body" /\ ~paused
  /\ s_audio_mute' = FALSE
  /\ mtx' = "free" /\ mt' = "exec"
  /\ UNCHANGED <<engine, s_running, s_stop_req, s_dbg_engaged, core, ret, ui,
                 arm, history>>

\* A condition variable may wake its waiter for no reason.
SpuriousWake ==
  /\ mt = "parked"
  /\ mt' = "woken"
  /\ UNCHANGED <<mtx, engine, host, ret, ui, arm, history>>

\* exec_hook: stop at the target; with a stack floor, only if the stack is back.
HookStops(a) == core.hook /\ trans.active /\ a = trans.target
HookMayPass(a) == ~HookStops(a) \/ trans.floor

\* One instruction of adamcore_debug_run, then what it finds at the next one.
DebugRunInstruction ==
  /\ mt = "exec"
  /\ \E a \in Addr :
       /\ core' = [core EXCEPT !.pc = a]
       /\ \/ a \in core.bps /\ ret' = [st |-> "breakpoint", pc |-> a] /\ mt' = "ret"
          \/ a \notin core.bps /\ HookStops(a)
               /\ ret' = [st |-> "hook_stop", pc |-> a] /\ mt' = "ret"
          \/ a \notin core.bps /\ HookMayPass(a) /\ UNCHANGED <<ret, mt>>
  /\ UNCHANGED <<mtx, engine, s_running, s_stop_req, s_dbg_engaged, s_audio_mute,
                 ui, arm, history>>

DebugRunFrameDone ==
  /\ mt = "exec"
  /\ mt' = "ret" /\ ret' = NoStop
  /\ UNCHANGED <<mtx, engine, host, ui, arm, history>>

\* Back in the driver with a frame done: hand back to the paced loop.
FrameDone ==
  /\ mt = "ret" /\ ret.st = "frame_done" /\ mtx = "free"
  /\ s_audio_mute' = FALSE
  /\ mt' = "top"
  /\ UNCHANGED <<mtx, engine, s_running, s_stop_req, s_dbg_engaged, core, ret, ui,
                 arm, history>>

\* Back in the driver at a stop: become paused and report it.
Stopped ==
  /\ mt = "ret" /\ ret.st # "frame_done" /\ mtx = "free"
  /\ paused' = TRUE
  /\ Disarm
  /\ UNCHANGED <<pause_notify, pending_step, trace_on, bp_map>>
  /\ core' = Hooked(core)
  /\ UpdateEngagement
  /\ ret' = [st |-> IF ret.st = "breakpoint" THEN "breakpoint" ELSE trans.reason,
             pc |-> core.pc]
  /\ mt' = "cb"
  /\ UNCHANGED <<mtx, at_break, s_running, s_stop_req, s_audio_mute, ui, arm, history>>

StepInstruction ==
  /\ mt = "step"
  /\ \E a \in Addr : core' = [core EXCEPT !.pc = a]
  /\ mt' = "stepped"
  /\ UNCHANGED <<mtx, engine, s_running, s_stop_req, s_dbg_engaged, s_audio_mute,
                 ret, ui, arm, history>>

StepDone ==
  /\ mt = "stepped" /\ mtx = "free"
  /\ UNCHANGED engine
  /\ UpdateEngagement
  /\ ret' = [st |-> "step", pc |-> core.pc]
  /\ mt' = "cb"
  /\ UNCHANGED <<mtx, s_running, s_stop_req, s_audio_mute, core, ui, arm, history>>

\* notify_stop: the callback runs with no lock held, then the loop goes round.
NotifyStop ==
  /\ mt = "cb"
  /\ mt' = "lock" /\ ret' = NoStop
  /\ UNCHANGED <<mtx, engine, host, ui, arm, history>>

\* What the machine thread does of its own accord.
MachineProgress ==
  \/ LoopTop \/ RunFrame \/ Enter \/ TakeStep \/ NotifyPause \/ Park \/ Run
  \/ FrameDone \/ Stopped \/ StepInstruction \/ StepDone \/ NotifyStop

Machine == MachineProgress \/ DebugRunInstruction \/ DebugRunFrameDone \/ SpuriousWake

Next == Ui \/ Machine

(* The machine thread is scheduled, a frame is a bounded number of cycles, *)
(* and a UI call that has begun ends; nobody has to make a call.           *)
Fairness ==
  /\ SF_vars(MachineProgress)
  /\ WF_vars(DebugRunFrameDone)
  /\ WF_vars(ArmEnd)
  /\ WF_vars(StopJoined)

Spec == Init /\ [][Next]_vars /\ Fairness

-----------------------------------------------------------------------------
(* What must hold.                                                         *)

\* colecodebug_is_paused
IsPaused == paused /\ at_break

\* While colecodebug_is_paused answers 1 the machine thread executes no
\* instruction: what the caller reads next is a machine that stands still.
PausedMeansStopped == IsPaused => mt \notin Executing

\* The stepped path is on whenever something needs it and off whenever nothing
\* does, whoever changed the need last -- a call, a stop, or a restart of the
\* machine (an open but idle debugger must not slow the machine down).
EngagedExactly ==
  mtx # "ui" =>
    s_dbg_engaged <=> Needed(paused, pending_step, trans, trace_on, bp_map)

\* The sound is off for as long as the machine is parked at a break, and never
\* while it runs frames.
SoundFollowsBreak ==
  /\ mt = "parked" => s_audio_mute
  /\ mt \in {"fast", "exec"} => ~s_audio_mute

\* The core never stops at an address the user has no breakpoint on, and is
\* hooked only for the history ring or a transient condition.
CoreFollowsShadow ==
  /\ core.bps \subseteq bp_map
  /\ core.hook => trace_on \/ trans.active

\* A stopped machine has no transient condition left armed: the next resume
\* cannot run into the end of an old step or run-to.
StopDisarms == mtx # "ui" => ~(paused /\ trans.active)

\* Nobody sleeps through a request: the machine thread is in the wait only
\* while there is nothing for it to do (no broadcast is ever lost).
NoLostWakeup == mt = "parked" => paused /\ ~pending_step /\ ~pause_notify

Requested(p) == p /\ s_running /\ ~s_stop_req

\* A pause request ends with the machine at the break, unless the user asks for
\* something else meanwhile or the machine is being stopped.
PauseTakesHold ==
  Requested(paused /\ ~pending_step) ~>
    at_break \/ ~Requested(paused /\ ~pending_step)

\* A requested step is taken, unless the pause it belongs to is withdrawn.
StepIsTaken ==
  Requested(paused /\ pending_step) ~> ~Requested(paused /\ pending_step)

\* coleco_host_stop returns when it finds the machine thread anywhere but
\* parked at a break (or past the check on its way there).
StopEndsUnlessParked ==
  (ui = "joining" /\ mt \notin {"parked", "body"}) ~> ui = "idle"

-----------------------------------------------------------------------------
(* What the headers and comments say and the code does not do.             *)

\* host.h:103-104: a debugger blocked in its pause wait notices that the loop
\* is shutting down and lets go, so coleco_host_stop returns.
StopEnds == ui = "joining" ~> ui = "idle"

\* debugger.c:63-64: the breakpoint shadow is applied to each new core.
ShadowApplied == core.live => core.bps = bp_map

\* colecodebug.h:32: COLECODBG_STOP_PAUSE is an explicit pause request, not
\* one the user took back by resuming before the machine saw it.
PauseReportIsWanted ==
  [][pause_notify /\ ~pause_notify' => "pause" \notin withdrawn]_vars

\* colecodebug.h:33,49: a breakpoint stops the machine before execution and a
\* step is taken while paused; a step the user resumed away is not taken later.
StepIsWanted ==
  [][pending_step /\ ~pending_step' => "step" \notin withdrawn]_vars

\* colecodebug.h:35: COLECODBG_STOP_RUNTO reports the run-to address reached,
\* the one last asked for when the stop is recorded.
RunToReached ==
  [][mt = "ret" /\ mt' = "cb" /\ ret'.st = "runto" => ret'.pc = goal]_vars

\* colecodebug.h:41-44: nobody computes from the registers of a machine that
\* was asked to stop and is still running; step-over and step-out do.
StepsFromAStop ==
  [][ui = "idle" /\ ui' = "arming" /\ trans'.reason = "step"
       => mt \notin Executing]_vars

\* colecodebug.h:39: a pause halts at the next instruction, not at the end of
\* the frame.
PauseHaltsNextInstruction ==
  [][paused /\ mt = "exec" /\ core'.pc # core.pc => mt' # "exec"]_vars
=============================================================================
