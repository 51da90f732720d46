------------------------- MODULE DebugEngine_proofs -------------------------
(***************************************************************************)
(* Proofs about the debugger engine, for every set of addresses: the       *)
(* inductive invariant IInv and the safety properties it implies.          *)
(***************************************************************************)
EXTENDS DebugEngine, TLAPS

\* Who holds mtx is where the two threads are.
LockInv ==
  /\ mtx = "mt" <=> mt = "body"
  /\ mtx = "ui" <=> ui = "arming"

\* at_break is raised on the way into the wait and lowered on the way out.
BreakInv == at_break => mt \in {"parked", "woken"}

\* A machine that is not running has no thread and no core, and a machine
\* being stopped is still running.
LifeInv ==
  /\ ~s_running => mt = "none" /\ ~core.live
  /\ ui = "joining" => s_running
  /\ ~core.live => ~core.hook /\ core.bps = {}

\* The sound is on whenever the driver has handed back to the paced loop.
MuteInv ==
  /\ mt = "parked" => s_audio_mute
  /\ mt \in {"none", "top", "fast", "exec"} => ~s_audio_mute

IInv ==
  /\ TypeOK
  /\ LockInv
  /\ BreakInv
  /\ LifeInv
  /\ MuteInv
  /\ EngagedExactly
  /\ CoreFollowsShadow
  /\ StopDisarms
  /\ NoLostWakeup

-----------------------------------------------------------------------------
(* What the helpers produce.                                               *)

LEMMA MtPcs ==
  /\ {"none", "top", "lock", "body", "ret", "stepped", "cb", "parked", "woken"} \subseteq MtPc
  /\ {"fast", "exec", "step"} \subseteq MtPc
BY DEF MtPc, Executing

LEMMA Records ==
  /\ NoArm \in Armed /\ NoStop \in Stop /\ NoCore \in Core
  /\ [NoCore EXCEPT !.live = TRUE] \in Core
BY BootAssumption DEF NoArm, Armed, NoStop, Stop, Status, NoCore, Core

LEMMA DisarmType == trans \in Trans /\ Disarm => trans' \in Trans
BY DEF Disarm, Trans

LEMMA HookedType ==
  ASSUME core \in Core, trace_on' \in BOOLEAN, trans' \in Trans, core' = Hooked(core)
  PROVE  core' \in Core
BY DEF Hooked, Core, Trans

LEMMA EngageType ==
  ASSUME trace_on' \in BOOLEAN, paused' \in BOOLEAN, pending_step' \in BOOLEAN,
         trans' \in Trans, UpdateEngagement
  PROVE  s_dbg_engaged' \in BOOLEAN
BY DEF UpdateEngagement, Needed, Trans

LEMMA BroadcastType == mt \in MtPc /\ Broadcast => mt' \in MtPc
BY MtPcs DEF Broadcast

LEMMA WithdrawType ==
  withdrawn \subseteq {"pause", "step"} /\ Withdraw => withdrawn' \subseteq {"pause", "step"}
BY DEF Withdraw

LEMMA MoveType == core \in Core => \A a \in Addr : [core EXCEPT !.pc = a] \in Core
BY DEF Core

-----------------------------------------------------------------------------
(* Types: initially, and one step per action.                              *)

LEMMA InitType == Init => TypeOK
<1> SUFFICES ASSUME Init PROVE TypeOK
  OBVIOUS
<1>1. trans \in Trans
  BY BootAssumption DEF Init, Trans
<1>2. QED
  BY <1>1, MtPcs, Records, BootAssumption DEF Init, TypeOK

LEMMA TypeStep == TypeOK /\ [Next]_vars => TypeOK'
<1> SUFFICES ASSUME TypeOK, [Next]_vars PROVE TypeOK'
  OBVIOUS
<1> USE MtPcs, Records DEF TypeOK, engine, host, threads, history
<1>1. CASE colecodebug_pause
  <2>1. CASE ~paused
    <3>1. trans' \in Trans
      BY <1>1, <2>1, DisarmType DEF colecodebug_pause
    <3>2. core' \in Core /\ s_dbg_engaged' \in BOOLEAN /\ mt' \in MtPc
      BY <1>1, <2>1, <3>1, HookedType, EngageType, BroadcastType DEF colecodebug_pause
    <3>3. QED
      BY <1>1, <2>1, <3>1, <3>2 DEF colecodebug_pause
  <2>2. CASE paused
    BY <1>1, <2>2, BroadcastType DEF colecodebug_pause
  <2>3. QED
    BY <2>1, <2>2
<1>2. CASE colecodebug_resume
  <2>1. trans' \in Trans
    BY <1>2, DisarmType DEF colecodebug_resume
  <2>2. core' \in Core /\ s_dbg_engaged' \in BOOLEAN /\ mt' \in MtPc
    BY <1>2, <2>1, HookedType, EngageType, BroadcastType DEF colecodebug_resume
  <2>3. QED
    BY <1>2, <2>1, <2>2, WithdrawType DEF colecodebug_resume
<1>3. CASE RequestStep
  <2>1. s_dbg_engaged' \in BOOLEAN /\ mt' \in MtPc
    BY <1>3, EngageType, BroadcastType DEF RequestStep
  <2>2. QED
    BY <1>3, <2>1 DEF RequestStep
<1>4. ASSUME NEW a \in Addr, NEW r \in {"step", "runto"}, NEW f \in BOOLEAN,
             Arm(r, a, f), goal' \in Addr
      PROVE  TypeOK'
  <2>1. trans' \in Trans /\ arm' \in Armed
    BY <1>4 DEF Arm, Trans, Armed
  <2>2. QED
    BY <1>4, <2>1 DEF Arm
<1>5. CASE ArmEnd
  <2>1. trans' \in Trans
    BY <1>5 DEF ArmEnd, Trans, Armed
  <2>2. core' \in Core /\ s_dbg_engaged' \in BOOLEAN /\ mt' \in MtPc
    BY <1>5, <2>1, HookedType, EngageType, BroadcastType DEF ArmEnd
  <2>3. QED
    BY <1>5, <2>1, <2>2, WithdrawType DEF ArmEnd
<1>6. ASSUME NEW s \in SUBSET Addr, NEW t \in SUBSET Addr, SetBreakpoints(s, t)
      PROVE  TypeOK'
  <2>1. core' \in Core /\ s_dbg_engaged' \in BOOLEAN
    BY <1>6, EngageType DEF SetBreakpoints, Core
  <2>2. QED
    BY <1>6, <2>1 DEF SetBreakpoints
<1>7. ASSUME NEW e \in BOOLEAN, colecodebug_trace_enable(e)
      PROVE  TypeOK'
  <2>1. core' \in Core /\ s_dbg_engaged' \in BOOLEAN
    BY <1>7, HookedType, EngageType DEF colecodebug_trace_enable
  <2>2. QED
    BY <1>7, <2>1 DEF colecodebug_trace_enable
<1>8. CASE coleco_host_start
  BY <1>8 DEF coleco_host_start
<1>9. CASE StopBegin \/ StopJoined
  BY <1>9, ZenonT(40) DEF StopBegin, StopJoined
<1>10. CASE LoopTop
  BY <1>10 DEF LoopTop
<1>11. CASE RunFrame \/ StepInstruction
  BY <1>11, MoveType DEF RunFrame, StepInstruction
<1>12. CASE Enter \/ TakeStep \/ Park \/ Run \/ FrameDone \/ NotifyStop \/ SpuriousWake
  <2>1. CASE Enter
    BY <2>1 DEF Enter
  <2>2. CASE TakeStep
    BY <2>2 DEF TakeStep
  <2>3. CASE Park \/ Run
    BY <2>3 DEF Park, Run
  <2>4. CASE FrameDone
    BY <2>4 DEF FrameDone
  <2>5. CASE NotifyStop \/ SpuriousWake
    BY <2>5 DEF NotifyStop, SpuriousWake
  <2>6. QED
    BY <1>12, <2>1, <2>2, <2>3, <2>4, <2>5
<1>13. CASE NotifyPause
  <2>1. ret' \in Stop
    BY <1>13 DEF NotifyPause, Stop, Reason, Core
  <2>2. QED
    BY <1>13, <2>1 DEF NotifyPause
<1>14. CASE StepDone
  <2>1. ret' \in Stop /\ s_dbg_engaged' \in BOOLEAN
    BY <1>14, EngageType DEF StepDone, Stop, Reason, Core
  <2>2. QED
    BY <1>14, <2>1 DEF StepDone
<1>15. CASE Stopped
  <2>1. trans' \in Trans
    BY <1>15, DisarmType DEF Stopped
  <2>2. core' \in Core /\ s_dbg_engaged' \in BOOLEAN
    BY <1>15, <2>1, HookedType, EngageType DEF Stopped
  <2>3. ret' \in Stop
    BY <1>15 DEF Stopped, Stop, Reason, Core, Trans
  <2>4. QED
    BY <1>15, <2>1, <2>2, <2>3 DEF Stopped
<1>16. CASE DebugRunInstruction
  <2>1. core' \in Core /\ ret' \in Stop /\ mt' \in MtPc
    BY <1>16, MoveType DEF DebugRunInstruction, Stop, Status
  <2>2. QED
    BY <1>16, <2>1 DEF DebugRunInstruction
<1>17. CASE DebugRunFrameDone
  BY <1>17 DEF DebugRunFrameDone
<1>18. CASE UNCHANGED vars
  BY <1>18 DEF vars
<1>19. CASE Ui
  <2>1. ASSUME NEW a \in Addr, StepOverCall(a) \/ colecodebug_step_out(a)
                                 \/ colecodebug_run_to(a)
        PROVE  TypeOK'
    BY <2>1, <1>4 DEF StepOverCall, colecodebug_step_out, colecodebug_run_to
  <2>2. ASSUME NEW a \in Addr, colecodebug_bp_set(a) \/ colecodebug_bp_clear(a)
        PROVE  TypeOK'
    <3>1. core.bps \in SUBSET Addr
      BY DEF Core
    <3>2. QED
      BY <2>2, <3>1, <1>6, SMTT(30) DEF colecodebug_bp_set, colecodebug_bp_clear
  <2>3. CASE colecodebug_bp_clear_all
    BY <2>3, <1>6 DEF colecodebug_bp_clear_all
  <2>4. QED
    BY <1>19, <1>1, <1>2, <1>3, <1>5, <1>7, <1>8, <1>9, <2>1, <2>2, <2>3
       DEF Ui, colecodebug_step_into, StepOverPlain
<1>20. QED
  BY <1>10, <1>11, <1>12, <1>13, <1>14, <1>15, <1>16, <1>17, <1>18, <1>19
     DEF Next, Machine, MachineProgress

-----------------------------------------------------------------------------
(* The rest of the invariant, one step per action.                         *)

SyncInv == LockInv /\ BreakInv /\ LifeInv /\ MuteInv /\ StopDisarms /\ NoLostWakeup

LEMMA InitSync == Init => SyncInv
BY DEF Init, SyncInv, LockInv, BreakInv, LifeInv, MuteInv, StopDisarms, NoLostWakeup, NoCore

\* Locks, wait, lifetime and sound.
LEMMA SyncStep == TypeOK /\ SyncInv /\ [Next]_vars => SyncInv'
<1> SUFFICES ASSUME TypeOK, SyncInv, [Next]_vars PROVE SyncInv'
  OBVIOUS
<1>0. /\ trans \in Trans /\ core \in Core /\ mt \in MtPc
      /\ mtx \in {"free", "ui", "mt"} /\ ui \in {"idle", "arming", "joining"}
  BY DEF TypeOK
<1> USE <1>0 DEF SyncInv, LockInv, BreakInv, LifeInv, MuteInv, StopDisarms, NoLostWakeup,
             engine, host, threads, history, Core, Trans
<1>1. CASE colecodebug_pause
  BY <1>1 DEF colecodebug_pause, UiLocks, Disarm, Hooked, Broadcast
<1>2. CASE colecodebug_resume
  BY <1>2 DEF colecodebug_resume, UiLocks, Disarm, Hooked, Broadcast
<1>3. CASE RequestStep
  BY <1>3 DEF RequestStep, UiLocks, Broadcast
<1>4. ASSUME NEW a \in Addr, NEW r, NEW f, Arm(r, a, f)
      PROVE  SyncInv'
  BY <1>4 DEF Arm, UiLocks
<1>5. CASE ArmEnd
  BY <1>5 DEF ArmEnd, Hooked, Broadcast
<1>6. ASSUME NEW s \in SUBSET Addr, NEW t \in SUBSET Addr, SetBreakpoints(s, t)
      PROVE  SyncInv'
  BY <1>6 DEF SetBreakpoints, UiLocks
<1>7. ASSUME NEW e \in BOOLEAN, colecodebug_trace_enable(e)
      PROVE  SyncInv'
  BY <1>7 DEF colecodebug_trace_enable, UiLocks, Hooked
<1>8. CASE coleco_host_start
  BY <1>8 DEF coleco_host_start, NoCore
<1>9. CASE StopBegin \/ StopJoined
  BY <1>9 DEF StopBegin, StopJoined, NoCore
<1>10. CASE LoopTop
  BY <1>10 DEF LoopTop
<1>11. CASE RunFrame \/ StepInstruction \/ DebugRunInstruction
  BY <1>11 DEF RunFrame, StepInstruction, DebugRunInstruction
<1>12. CASE Enter
  BY <1>12 DEF Enter
<1>13. CASE TakeStep \/ Park \/ Run \/ NotifyPause
  BY <1>13 DEF TakeStep, Park, Run, NotifyPause
<1>14. CASE FrameDone \/ NotifyStop \/ SpuriousWake \/ StepDone \/ DebugRunFrameDone
  BY <1>14 DEF FrameDone, NotifyStop, SpuriousWake, StepDone, DebugRunFrameDone
<1>15. CASE Stopped
  BY <1>15 DEF Stopped, Disarm, Hooked
<1>16. CASE UNCHANGED vars
  BY <1>16 DEF vars
<1>17. CASE Ui
  <2>1. ASSUME NEW a \in Addr, StepOverCall(a) \/ colecodebug_step_out(a)
                                 \/ colecodebug_run_to(a)
        PROVE  SyncInv'
    BY <2>1, <1>4 DEF StepOverCall, colecodebug_step_out, colecodebug_run_to
  <2>2. ASSUME NEW a \in Addr, colecodebug_bp_set(a) \/ colecodebug_bp_clear(a)
        PROVE  SyncInv'
    <3>1. bp_map \in SUBSET Addr /\ core.bps \in SUBSET Addr
      BY DEF TypeOK
    <3>2. {bp_map \cup {a}, bp_map \ {a}, core.bps \cup {a}, core.bps \ {a}} \subseteq SUBSET Addr
      BY <2>2, <3>1
    <3>3. CASE colecodebug_bp_set(a)
      BY <3>3, <3>2, <1>6 DEF colecodebug_bp_set
    <3>4. CASE colecodebug_bp_clear(a)
      BY <3>4, <3>2, <1>6 DEF colecodebug_bp_clear
    <3>5. QED
      BY <2>2, <3>3, <3>4
  <2>3. CASE colecodebug_bp_clear_all
    BY <2>3, <1>6 DEF colecodebug_bp_clear_all
  <2>4. QED
    BY <1>17, <1>1, <1>2, <1>3, <1>5, <1>7, <1>8, <1>9, <2>1, <2>2, <2>3
       DEF Ui, colecodebug_step_into, StepOverPlain
<1>18. QED
  BY <1>10, <1>11, <1>12, <1>13, <1>14, <1>15, <1>16, <1>17
     DEF Next, Machine, MachineProgress

-----------------------------------------------------------------------------
(* Engagement and the core's breakpoints.                                  *)

LEMMA InitNeed == Init => EngagedExactly /\ CoreFollowsShadow
<1> SUFFICES ASSUME Init PROVE EngagedExactly /\ CoreFollowsShadow
  OBVIOUS
<1>1. ~s_dbg_engaged /\ ~Needed(paused, pending_step, trans, trace_on, bp_map)
  BY DEF Init, Needed
<1>2. CoreFollowsShadow
  BY DEF Init, CoreFollowsShadow, NoCore
<1>3. QED
  BY <1>1, <1>2 DEF EngagedExactly

\* A call that refreshes the engagement leaves it exact.
LEMMA EngagedAfterUpdate == UpdateEngagement => EngagedExactly'
BY DEF UpdateEngagement, EngagedExactly

\* One that touches nothing the engagement depends on keeps it.
LEMMA EngagedKept ==
  ASSUME EngagedExactly, mtx' = "ui" => mtx = "ui", mtx = "ui" => mtx' = "ui",
         UNCHANGED <<paused, pending_step, trans, trace_on, bp_map, s_dbg_engaged>>
  PROVE  EngagedExactly'
BY DEF EngagedExactly, Needed

LEMMA NeedStep ==
  TypeOK /\ SyncInv /\ EngagedExactly /\ CoreFollowsShadow /\ [Next]_vars
    => EngagedExactly' /\ CoreFollowsShadow'
<1> SUFFICES ASSUME TypeOK, SyncInv, EngagedExactly, CoreFollowsShadow, [Next]_vars
             PROVE  EngagedExactly' /\ CoreFollowsShadow'
  OBVIOUS
<1>0. /\ trans \in Trans /\ core \in Core
      /\ mtx = "mt" <=> mt = "body"
      /\ mtx = "ui" <=> ui = "arming"
      /\ ~s_running => ~core.live
      /\ ~core.live => ~core.hook /\ core.bps = {}
  BY DEF TypeOK, SyncInv, LockInv, LifeInv
<1> USE <1>0 DEF engine, host, threads, history
<1>1. CASE colecodebug_pause
  <2>1. CASE ~paused
    BY <1>1, <2>1, EngagedAfterUpdate
       DEF colecodebug_pause, CoreFollowsShadow, Hooked, Disarm, Core, Trans
  <2>2. CASE paused
    BY <1>1, <2>2, EngagedKept DEF colecodebug_pause, CoreFollowsShadow
  <2>3. QED
    BY <2>1, <2>2
<1>2. CASE colecodebug_resume
  BY <1>2, EngagedAfterUpdate
     DEF colecodebug_resume, CoreFollowsShadow, Hooked, Disarm, Core, Trans
<1>3. CASE RequestStep
  BY <1>3, EngagedAfterUpdate DEF RequestStep, CoreFollowsShadow
<1>4. ASSUME NEW a \in Addr, NEW r, NEW f, Arm(r, a, f)
      PROVE  EngagedExactly' /\ CoreFollowsShadow'
  BY <1>4 DEF Arm, EngagedExactly, CoreFollowsShadow, Trans
<1>5. CASE ArmEnd
  BY <1>5, EngagedAfterUpdate DEF ArmEnd, CoreFollowsShadow, Hooked, Core, Trans
<1>6. ASSUME NEW s, NEW t, SetBreakpoints(s, t), t \subseteq s
      PROVE  EngagedExactly' /\ CoreFollowsShadow'
  BY <1>6, EngagedAfterUpdate DEF SetBreakpoints, CoreFollowsShadow, Core
<1>7. ASSUME NEW e \in BOOLEAN, colecodebug_trace_enable(e)
      PROVE  EngagedExactly' /\ CoreFollowsShadow'
  BY <1>7, EngagedAfterUpdate DEF colecodebug_trace_enable, CoreFollowsShadow, Hooked, Core
<1>8. CASE coleco_host_start \/ StopBegin \/ StopJoined
  BY <1>8, EngagedKept DEF coleco_host_start, StopBegin, StopJoined, CoreFollowsShadow, NoCore
<1>9. CASE LoopTop \/ Enter \/ Park \/ Run \/ NotifyPause
  BY <1>9, EngagedKept DEF LoopTop, Enter, Park, Run, NotifyPause, CoreFollowsShadow
<1>10. CASE RunFrame \/ StepInstruction \/ DebugRunInstruction
  BY <1>10, EngagedKept
     DEF RunFrame, StepInstruction, DebugRunInstruction, CoreFollowsShadow, Core
<1>11. CASE FrameDone \/ NotifyStop \/ SpuriousWake \/ DebugRunFrameDone
  BY <1>11, EngagedKept
     DEF FrameDone, NotifyStop, SpuriousWake, DebugRunFrameDone, CoreFollowsShadow
<1>12. CASE TakeStep
  BY <1>12 DEF TakeStep, EngagedExactly, Needed, CoreFollowsShadow
<1>13. CASE StepDone
  BY <1>13, EngagedAfterUpdate DEF StepDone, CoreFollowsShadow
<1>14. CASE Stopped
  BY <1>14, EngagedAfterUpdate
     DEF Stopped, CoreFollowsShadow, Hooked, Disarm, Core, Trans
<1>15. CASE UNCHANGED vars
  BY <1>15, EngagedKept DEF vars, CoreFollowsShadow
<1>16. CASE Ui
  <2>1. ASSUME NEW a \in Addr, StepOverCall(a) \/ colecodebug_step_out(a)
                                 \/ colecodebug_run_to(a)
        PROVE  EngagedExactly' /\ CoreFollowsShadow'
    BY <2>1, <1>4 DEF StepOverCall, colecodebug_step_out, colecodebug_run_to
  <2>2. ASSUME NEW a \in Addr, colecodebug_bp_set(a) \/ colecodebug_bp_clear(a)
        PROVE  EngagedExactly' /\ CoreFollowsShadow'
    <3>1. core.bps \subseteq bp_map
      BY DEF CoreFollowsShadow
    <3>2. core.bps \cup {a} \subseteq bp_map \cup {a} /\ core.bps \ {a} \subseteq bp_map \ {a}
      BY <3>1
    <3>3. QED
      BY <2>2, <3>2, <1>6 DEF colecodebug_bp_set, colecodebug_bp_clear
  <2>3. CASE colecodebug_bp_clear_all
    BY <2>3, <1>6 DEF colecodebug_bp_clear_all
  <2>4. QED
    BY <1>16, <1>1, <1>2, <1>3, <1>5, <1>7, <1>8, <2>1, <2>2, <2>3
       DEF Ui, colecodebug_step_into, StepOverPlain
<1>17. QED
  BY <1>9, <1>10, <1>11, <1>12, <1>13, <1>14, <1>15, <1>16
     DEF Next, Machine, MachineProgress

-----------------------------------------------------------------------------
(* The theorems.                                                           *)

\* The engine's and the host's variables keep their types, whatever the two
\* threads do.
THEOREM Typing == Spec => []TypeOK
BY InitType, TypeStep, PTL DEF Spec

\* The inductive invariant: who holds mtx, when the wait flag is up, what a
\* stopped machine leaves behind, and what the engagement flag and the core say.
THEOREM Invariance == Spec => []IInv
<1>1. Init => IInv
  BY InitType, InitSync, InitNeed DEF IInv, SyncInv
<1>2. IInv /\ [Next]_vars => IInv'
  <2> SUFFICES ASSUME IInv, [Next]_vars PROVE IInv'
    OBVIOUS
  <2>1. TypeOK /\ SyncInv /\ EngagedExactly /\ CoreFollowsShadow
    BY DEF IInv, SyncInv
  <2>2. TypeOK' /\ SyncInv' /\ EngagedExactly' /\ CoreFollowsShadow'
    BY <2>1, TypeStep, SyncStep, NeedStep
  <2>3. QED
    BY <2>2 DEF IInv, SyncInv
<1>3. QED
  BY <1>1, <1>2, PTL DEF Spec

\* When colecodebug_is_paused answers 1, the machine executes nothing.
THEOREM StoppedIsStopped == Spec => []PausedMeansStopped
<1>1. IInv => PausedMeansStopped
  BY DEF IInv, BreakInv, PausedMeansStopped, IsPaused, Executing
<1>2. QED
  BY <1>1, Invariance, PTL

\* The stepped frame path is on exactly while something needs it.
THEOREM EngagementIsExact == Spec => []EngagedExactly
<1>1. IInv => EngagedExactly
  BY DEF IInv
<1>2. QED
  BY <1>1, Invariance, PTL

\* A machine thread in the pause wait has nothing to do: no wake-up is lost.
THEOREM NobodySleepsThrough == Spec => []NoLostWakeup
<1>1. IInv => NoLostWakeup
  BY DEF IInv
<1>2. QED
  BY <1>1, Invariance, PTL

\* The sound is off at a break and on while frames run.
THEOREM SoundIsRight == Spec => []SoundFollowsBreak
<1>1. IInv => SoundFollowsBreak
  BY DEF IInv, MuteInv, SoundFollowsBreak
<1>2. QED
  BY <1>1, Invariance, PTL

\* The core has no breakpoint and no hook that the user did not ask for, and a
\* stopped machine has no transient condition armed.
THEOREM NothingLeftArmed == Spec => [](CoreFollowsShadow /\ StopDisarms)
<1>1. IInv => CoreFollowsShadow /\ StopDisarms
  BY DEF IInv
<1>2. QED
  BY <1>1, Invariance, PTL

=============================================================================
