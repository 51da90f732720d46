---------------------------- MODULE RuntimeEntry ----------------------------
(***************************************************************************)
(* Starting and stopping the FujiNet runtime: the entry wrapper inside the *)
(* runtime library (tools/fujinet/support/fujinet_desktop_entry.cpp) and   *)
(* the session's side of it (core/src/fujinet_runtime.c).                  *)
(*                                                                         *)
(* One caller -- the UI thread -- starts and stops; each spawned runtime   *)
(* thread sets the firmware up, serves, and shuts down when it sees the    *)
(* shutdown request, which a device blocked on I/O may never do.  The      *)
(* firmware itself (main_setup, fn_service_loop) is external.              *)
(***************************************************************************)
EXTENDS Naturals, FiniteSets

CONSTANTS
  Thread,   \* runtime threads that may be spawned (the bound of the model)
  NoThread,     \* no thread
  Library   \* what may be found at fujinet_lib: "absent", "broken", "good"

ASSUME EntryAssumption ==
  /\ NoThread \notin Thread
  /\ IsFiniteSet(Thread)
  /\ Library \subseteq {"absent", "broken", "good"}

VARIABLES
  \* fujinet_runtime.c
  lib,                \* the library on disk
  handle, g_start,    \* opened, and whether the entry points resolved
  fujinet_running,
  \* fujinet_desktop_entry.cpp
  g_running, setup, g_runtime_thread, shutdown_requested, capture,
  queued,             \* SAM samples queued for a reader
  \* the threads
  pc,                 \* of each runtime thread
  detached,           \* threads nobody will join
  caller,             \* the UI thread
  victim              \* the thread the caller moved out and waits for

session   == <<lib, handle, g_start, fujinet_running>>
entry     == <<g_running, setup, g_runtime_thread, shutdown_requested, capture, queued>>
entryVars == <<session, entry, pc, detached, caller, victim>>

Alive == {t \in Thread : pc[t] \notin {"unborn", "gone"}}

EntryTypeOK ==
  /\ lib \in Library /\ handle \in BOOLEAN /\ g_start \in BOOLEAN
  /\ fujinet_running \in BOOLEAN /\ g_running \in BOOLEAN
  /\ setup \in {"pending", "complete", "failed"}
  /\ g_runtime_thread \in Thread \cup {NoThread}
  /\ shutdown_requested \in BOOLEAN /\ capture \in BOOLEAN /\ queued \in BOOLEAN
  /\ pc \in [Thread -> {"unborn", "capture", "setup", "failing", "serve", "sam",
                        "down", "uncapture", "leave", "gone"}]
  /\ detached \subseteq Thread
  /\ caller \in {"idle", "calling", "starting", "refused", "stopping", "joining", "finish",
                 "crashed"}
  /\ victim \in Thread \cup {NoThread}

EntryInit ==
  /\ lib \in Library /\ handle = FALSE /\ g_start = FALSE
  /\ fujinet_running = FALSE /\ g_running = FALSE
  /\ setup = "pending" /\ g_runtime_thread = NoThread
  /\ shutdown_requested = FALSE /\ capture = FALSE /\ queued = FALSE
  /\ pc = [t \in Thread |-> "unborn"]
  /\ detached = {} /\ caller = "idle" /\ victim = NoThread

Move(t, to) == pc' = [pc EXCEPT ![t] = to]

-----------------------------------------------------------------------------
(* fujinet_start: load the library once, then call the entry wrapper.      *)

\* load_library_locked.  A library without the entry points is an error, but
\* its handle stays open and the next call takes it for loaded.
LoadLibrary ==
  /\ caller = "idle" /\ ~fujinet_running
  /\ ~handle
  /\ handle' = (lib # "absent")
  /\ g_start' = (lib = "good")
  /\ caller' = IF lib = "good" THEN "calling" ELSE "idle"
  /\ UNCHANGED <<lib, fujinet_running, entry, pc, detached, victim>>

LibraryLoaded ==
  /\ caller = "idle" /\ ~fujinet_running
  /\ handle
  /\ caller' = "calling"
  /\ UNCHANGED <<session, entry, pc, detached, victim>>

\* The wrapper finds a runtime running and reports success.
StartAlreadyRunning ==
  /\ caller = "calling" /\ g_start
  /\ g_running
  /\ fujinet_running' = TRUE
  /\ caller' = "idle"
  /\ UNCHANGED <<lib, handle, g_start, entry, pc, detached, victim>>

\* The wrapper clears what an earlier run left and spawns a thread.
StartSpawn(t) ==
  /\ caller = "calling" /\ g_start
  /\ ~g_running
  /\ pc[t] = "unborn"
  /\ shutdown_requested' = FALSE /\ queued' = FALSE
  /\ setup' = "pending"
  /\ g_runtime_thread' = t
  /\ Move(t, "capture")
  /\ caller' = "starting"
  /\ UNCHANGED <<session, g_running, capture, detached, victim>>

\* No thread could be had.
StartNoThread ==
  /\ caller = "calling" /\ g_start
  /\ ~g_running
  /\ shutdown_requested' = FALSE /\ queued' = FALSE
  /\ setup' = "failed"
  /\ caller' = "idle"
  /\ UNCHANGED <<session, g_running, g_runtime_thread, capture, pc, detached, victim>>

\* g_start is null: the call goes nowhere.
StartThroughNull ==
  /\ caller = "calling" /\ ~g_start
  /\ caller' = "crashed"
  /\ UNCHANGED <<session, entry, pc, detached, victim>>

\* The caller waits for the setup's outcome.
StartDone ==
  /\ caller = "starting" /\ setup = "complete"
  /\ fujinet_running' = TRUE
  /\ caller' = "idle"
  /\ UNCHANGED <<lib, handle, g_start, entry, pc, detached, victim>>

StartFailed_KeepsHandle ==
  /\ caller = "starting" /\ setup = "failed"
  /\ victim' = g_runtime_thread
  /\ caller' = "refused"
  /\ UNCHANGED <<session, entry, pc, detached>>

StartFailed ==
  /\ caller = "starting" /\ setup = "failed"
  /\ victim' = g_runtime_thread /\ g_runtime_thread' = NoThread
  /\ caller' = "refused"
  /\ UNCHANGED <<session, g_running, setup, shutdown_requested, capture, queued,
                 pc, detached>>

JoinFailed ==
  /\ caller = "refused" /\ pc[victim] = "gone"
  /\ caller' = "idle" /\ victim' = NoThread
  /\ UNCHANGED <<session, entry, pc, detached>>

-----------------------------------------------------------------------------
(* fujinet_stop and fujinet_desktop_stop_runtime.                          *)

StopNothing ==
  /\ caller = "idle" /\ fujinet_running
  /\ ~g_running /\ g_runtime_thread = NoThread
  /\ fujinet_running' = FALSE
  /\ UNCHANGED <<lib, handle, g_start, entry, pc, detached, caller, victim>>

\* Ask for the shutdown and take the thread.  With no thread to wait for (it
\* was detached by an earlier stop) the wait is skipped.
StopRequest ==
  /\ caller = "idle" /\ fujinet_running
  /\ g_running \/ g_runtime_thread # NoThread
  /\ fujinet_running' = FALSE
  /\ shutdown_requested' = TRUE
  /\ victim' = g_runtime_thread /\ g_runtime_thread' = NoThread
  /\ caller' = IF g_runtime_thread = NoThread THEN "finish" ELSE "stopping"
  /\ UNCHANGED <<lib, handle, g_start, g_running, setup, capture, queued, pc,
                 detached>>

StopSeesItEnd ==
  /\ caller = "stopping" /\ ~g_running
  /\ caller' = "joining"
  /\ UNCHANGED <<session, entry, pc, detached, victim>>

StopTimesOut_Joins ==
  /\ caller = "stopping" /\ g_running
  /\ caller' = "joining"
  /\ UNCHANGED <<session, entry, pc, detached, victim>>

\* Five seconds went by: detach the thread and leave g_running set.
StopTimesOut ==
  /\ caller = "stopping" /\ g_running
  /\ detached' = detached \cup {victim} /\ victim' = NoThread
  /\ caller' = "idle"
  /\ UNCHANGED <<session, entry, pc>>

StopJoin_Skipped ==
  /\ caller = "joining"
  /\ caller' = "finish" /\ victim' = NoThread
  /\ UNCHANGED <<session, entry, pc, detached>>

StopJoin ==
  /\ caller = "joining" /\ pc[victim] = "gone"
  /\ caller' = "finish" /\ victim' = NoThread
  /\ UNCHANGED <<session, entry, pc, detached>>

StopFinish ==
  /\ caller = "finish"
  /\ capture' = FALSE
  /\ shutdown_requested' = FALSE /\ g_running' = FALSE /\ queued' = FALSE
  /\ caller' = "idle"
  /\ UNCHANGED <<session, setup, g_runtime_thread, pc, detached, victim>>

Caller ==
  \/ LoadLibrary \/ LibraryLoaded
  \/ StartAlreadyRunning \/ StartNoThread \/ StartThroughNull
  \/ \E t \in Thread : StartSpawn(t)
  \/ StartDone \/ StartFailed \/ JoinFailed
  \/ StopNothing \/ StopRequest \/ StopSeesItEnd \/ StopTimesOut \/ StopJoin
  \/ StopFinish

-----------------------------------------------------------------------------
(* A runtime thread.                                                       *)

StartCapture(t) ==
  /\ pc[t] = "capture"
  /\ capture' = TRUE
  /\ Move(t, "setup")
  /\ UNCHANGED <<session, g_running, setup, g_runtime_thread, shutdown_requested,
                 queued, detached, caller, victim>>

\* chdir and main_setup succeed...
SetUp(t) ==
  /\ pc[t] = "setup"
  /\ g_running' = TRUE /\ setup' = "complete"
  /\ Move(t, "serve")
  /\ UNCHANGED <<session, g_runtime_thread, shutdown_requested, capture, queued,
                 detached, caller, victim>>

\* ... or one of them fails: publish it, then give the log back, all with
\* g_mutex held, so the caller sees both.
SetUpFails(t) ==
  /\ pc[t] = "setup"
  /\ g_running' = FALSE /\ setup' = "failed" /\ capture' = FALSE
  /\ Move(t, "failing")
  /\ UNCHANGED <<session, g_runtime_thread, shutdown_requested, queued, detached,
                 caller, victim>>

FailedExit(t) ==
  /\ pc[t] = "failing"
  /\ Move(t, "gone")
  /\ UNCHANGED <<session, entry, detached, caller, victim>>

\* SAM speech is queued for a reader; the one after it waits for the queue to
\* drain.  Nothing in src/ reads it.
SubmitSam(t) ==
  /\ pc[t] = "serve"
  /\ IF queued THEN Move(t, "sam") /\ UNCHANGED queued
               ELSE queued' = TRUE /\ UNCHANGED pc
  /\ UNCHANGED <<session, g_running, setup, g_runtime_thread, shutdown_requested,
                 capture, detached, caller, victim>>

SamDrained(t) ==
  /\ pc[t] = "sam" /\ ~queued
  /\ queued' = TRUE
  /\ Move(t, "serve")
  /\ UNCHANGED <<session, g_running, setup, g_runtime_thread, shutdown_requested,
                 capture, detached, caller, victim>>

\* fn_service_loop sees the request.
ServeEnds(t) ==
  /\ pc[t] = "serve" /\ shutdown_requested
  /\ Move(t, "down")
  /\ UNCHANGED <<session, entry, detached, caller, victim>>

ShutDown(t) ==
  /\ pc[t] = "down"
  /\ shutdown_requested' = FALSE
  /\ Move(t, "uncapture")
  /\ UNCHANGED <<session, g_running, setup, g_runtime_thread, capture, queued,
                 detached, caller, victim>>

StopCapture(t) ==
  /\ pc[t] = "uncapture"
  /\ capture' = FALSE
  /\ Move(t, "leave")
  /\ UNCHANGED <<session, g_running, setup, g_runtime_thread, shutdown_requested,
                 queued, detached, caller, victim>>

Leave(t) ==
  /\ pc[t] = "leave"
  /\ g_running' = FALSE
  /\ Move(t, "gone")
  /\ UNCHANGED <<session, setup, g_runtime_thread, shutdown_requested, capture,
                 queued, detached, caller, victim>>

Runtime(t) ==
  \/ StartCapture(t) \/ SetUp(t) \/ SetUpFails(t) \/ FailedExit(t)
  \/ SubmitSam(t) \/ SamDrained(t) \/ ServeEnds(t) \/ ShutDown(t)
  \/ StopCapture(t) \/ Leave(t)

EntryNext == Caller \/ \E t \in Thread : Runtime(t)

(* A call that has begun goes on as far as what it waits for allows, the   *)
(* stop's timer runs out, and a thread leaves once it has begun to; it may *)
(* serve, blocked, for ever.                                               *)
Fairness ==
  /\ WF_entryVars(StartDone) /\ WF_entryVars(StartFailed) /\ WF_entryVars(JoinFailed)
  /\ WF_entryVars(StopSeesItEnd \/ StopTimesOut) /\ WF_entryVars(StopJoin) /\ WF_entryVars(StopFinish)
  /\ \A t \in Thread :
       /\ WF_entryVars(StartCapture(t)) /\ WF_entryVars(SetUp(t) \/ SetUpFails(t))
       /\ WF_entryVars(FailedExit(t)) /\ WF_entryVars(ShutDown(t))
       /\ WF_entryVars(StopCapture(t)) /\ WF_entryVars(Leave(t))

EntrySpec == EntryInit /\ [][EntryNext]_entryVars /\ Fairness

-----------------------------------------------------------------------------
(* What must hold.                                                         *)

\* A std::thread that is still joinable is never assigned over (which would
\* end the process): whoever spawns has joined or detached the last one.
NeverAssignedOver ==
  [][g_runtime_thread' # g_runtime_thread /\ g_runtime_thread' # NoThread
       => g_runtime_thread = NoThread]_entryVars

\* Of the threads somebody still answers for there is at most one.
OneOwnedThread ==
  \A t, u \in Alive : t \notin detached /\ u \notin detached => t = u

\* When a stop that waited returns, its thread has ended and given everything
\* back: the request flag is down, the log is the process's own again.
StopLeavesNothing ==
  [][caller = "finish" /\ caller' = "idle" =>
       /\ ~shutdown_requested' /\ ~capture' /\ ~g_running' /\ ~queued'
       /\ Alive \subseteq detached]_entryVars

\* stop_runtime returns, whatever a device does, the first time it has to give
\* up on a thread.
InStop == caller \in {"stopping", "joining", "finish"}
StopReturns == InStop /\ detached = {} ~> caller = "idle"

\* start_runtime returns, whether the setup succeeds or not.
StartReturns == caller \in {"starting", "refused"} ~> caller = "idle"

-----------------------------------------------------------------------------
(* What the comments say and the code does not do.                         *)

\* fujinet_desktop_entry.cpp:693-695: a start must not spawn a second thread
\* on top of a detached one that is still alive.
OneThread == \A t, u \in Alive : t = u

\* fujinet_desktop_entry.cpp:675-683: a wedged runtime cannot hang the process
\* on exit.
StopAlwaysReturns == InStop ~> caller = "idle"

\* fujinet_runtime.c:68-70: a library without the runtime contract is refused.
ContractRefused == caller # "crashed"
=============================================================================
