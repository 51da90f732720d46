------------------------------ MODULE Session ------------------------------
(***************************************************************************)
(* Starting and stopping a session (core/src/session.c): the FujiNet       *)
(* runtime, the machine (core/coleco/host.c), the gamepads                 *)
(* (core/src/gamepad_sdl.c) and the audio device (core/src/audio_sdl.c),   *)
(* each able to fail.  The interface thread starts and stops them while    *)
(* the machine thread, the gamepad thread and the audio device's callback  *)
(* use the core.                                                           *)
(***************************************************************************)
EXTENDS Naturals

CONSTANT MaxStarts   \* the bound on machines started

ASSUME SessionAssumption == MaxStarts \in Nat

VARIABLES
  ui,         \* how far the interface thread is in start or stop
  opts,       \* colecosession_start_opts, those that decide what is started
  again,      \* colecosession_reset_to_config: the stop is followed by a start
  running, fujinet_external, fujinet_running,   \* of the session
  audio, gamepad,   \* of the session: whether they were started
  runtime,    \* the FujiNet runtime: "off", "up", or "listening"
  s_core,     \* the machine's core, by number; 0 when there is none
  s_running, s_stop_req,    \* of the host
  sdl,        \* the SDL subsystems that are initialised
  machine, device, poll,    \* the machine thread, the audio callback, the gamepad thread
  stop,       \* gamepad_state's stop flag
  held,       \* the core each thread has read and uses
  \* history
  starts,     \* machines started
  bracket     \* what became of the runtime's start: "none", "failed", "late", "ready"

session == <<running, fujinet_external, fujinet_running, audio, gamepad>>
host    == <<s_core, s_running, s_stop_req>>
threads == <<machine, device, poll, held>>
vars    == <<ui, opts, again, session, runtime, host, sdl, threads, stop, starts, bracket>>

Opts == [fujinet : BOOLEAN, external : BOOLEAN, gamepad : BOOLEAN, audio : BOOLEAN]
Core == 0..MaxStarts

Starting == {"inputs", "fujinet", "wait", "host", "undo", "pads", "audio"}
Stopping == {"stop_audio", "stop_pads", "join_pads", "stop_host", "join_host", "stop_fujinet"}

TypeOK ==
  /\ ui \in {"idle"} \cup Starting \cup Stopping
  /\ opts \in Opts /\ again \in BOOLEAN
  /\ running \in BOOLEAN /\ fujinet_external \in BOOLEAN /\ fujinet_running \in BOOLEAN
  /\ audio \in BOOLEAN /\ gamepad \in BOOLEAN
  /\ runtime \in {"off", "up", "listening"}
  /\ s_core \in Core /\ s_running \in BOOLEAN /\ s_stop_req \in BOOLEAN
  /\ sdl \subseteq {"audio", "gamepad"}
  /\ machine \in {"none", "dial", "loop", "frame", "gone"}
  /\ device \in {"none", "idle", "using"}
  /\ poll \in {"none", "loop", "using", "gone"}
  /\ stop \in BOOLEAN
  /\ held \in [{"machine", "device", "poll"} -> Core]
  /\ starts \in 0..MaxStarts
  /\ bracket \in {"none", "failed", "late", "ready"}

Init ==
  /\ ui = "idle" /\ opts \in Opts /\ again = FALSE
  /\ running = FALSE /\ fujinet_external = FALSE /\ fujinet_running = FALSE
  /\ audio = FALSE /\ gamepad = FALSE
  /\ runtime = "off"
  /\ s_core = 0 /\ s_running = FALSE /\ s_stop_req = FALSE
  /\ sdl = {}
  /\ machine = "none" /\ device = "none" /\ poll = "none" /\ stop = FALSE
  /\ held = [t \in {"machine", "device", "poll"} |-> 0]
  /\ starts = 0 /\ bracket = "none"

-----------------------------------------------------------------------------
(* colecosession_start, on the interface thread.                           *)

Start(o) ==
  /\ ui = "idle" /\ ~running /\ starts < MaxStarts
  /\ opts' = o /\ ui' = "inputs"
  /\ UNCHANGED <<again, session, runtime, host, sdl, threads, stop, starts, bracket>>

\* No BIOS, or a cartridge that cannot be read; or, later, a bad address.
InputsRefused ==
  /\ ui = "inputs"
  /\ \/ UNCHANGED fujinet_external
     \/ opts.external /\ fujinet_external' = FALSE
  /\ ui' = "idle" /\ again' = FALSE
  /\ UNCHANGED <<opts, running, fujinet_running, audio, gamepad, runtime, host, sdl,
                 threads, stop, starts, bracket>>

InputsTaken ==
  /\ ui = "inputs"
  /\ fujinet_external' = opts.external
  /\ ui' = IF opts.fujinet /\ ~opts.external THEN "fujinet" ELSE "host"
  /\ bracket' = "none" /\ again' = FALSE
  /\ UNCHANGED <<opts, running, fujinet_running, audio, gamepad, runtime, host, sdl,
                 threads, stop, starts>>

\* fujinet_start; a FujiNet that fails to start is not fatal.
StartFujinet ==
  /\ ui = "fujinet"
  /\ \/ /\ fujinet_running' = TRUE /\ runtime' = "up"
        /\ ui' = "wait" /\ UNCHANGED bracket
     \/ /\ ui' = "host" /\ bracket' = "failed"
        /\ UNCHANGED <<fujinet_running, runtime>>
  /\ UNCHANGED <<opts, again, running, fujinet_external, audio, gamepad, host, sdl, threads,
                 stop, starts>>

wait_for_boip_Forgotten ==
  /\ ui = "wait"
  /\ ui' = "host" /\ bracket' = "ready"
  /\ UNCHANGED <<opts, again, session, runtime, host, sdl, threads, stop, starts>>

\* fujinet_wait_for_boip: until it listens, but no longer than three seconds.
wait_for_boip ==
  /\ ui = "wait"
  /\ bracket' \in {"late"} \cup IF runtime = "listening" THEN {"ready"} ELSE {}
  /\ ui' = "host"
  /\ UNCHANGED <<opts, again, session, runtime, host, sdl, threads, stop, starts>>

\* coleco_host_start: a core, then the machine thread, which has a cartridge to
\* bring up unless there is no FujiNet to talk to.
StartHost ==
  /\ ui = "host" /\ starts < MaxStarts
  /\ starts' = starts + 1 /\ s_core' = starts + 1
  /\ s_stop_req' = FALSE /\ s_running' = TRUE
  /\ machine' = IF opts.fujinet \/ opts.external THEN "dial" ELSE "loop"
  /\ held' = [held EXCEPT !["machine"] = starts + 1]
  /\ ui' = "pads"
  /\ UNCHANGED <<opts, again, session, runtime, sdl, device, poll, stop, bracket>>

\* No memory, no core, or no thread: nothing of the host stays.
HostFails ==
  /\ ui = "host"
  /\ ui' = "undo"
  /\ UNCHANGED <<opts, again, session, runtime, host, sdl, threads, stop, starts, bracket>>

Undo_Nothing ==
  /\ ui = "undo"
  /\ ui' = "idle"
  /\ UNCHANGED <<opts, again, session, runtime, host, sdl, threads, stop, starts, bracket>>

\* The fujinet_stop of a start whose machine failed.
Undo ==
  /\ ui = "undo"
  /\ fujinet_running' = FALSE /\ runtime' = IF fujinet_running THEN "off" ELSE runtime
  /\ ui' = "idle"
  /\ UNCHANGED <<opts, again, running, fujinet_external, audio, gamepad, host, sdl, threads,
                 stop, starts, bracket>>

\* gamepad_start, when enabled; failing is not fatal, and leaves nothing.
gamepad_start ==
  /\ ui = "pads"
  /\ \/ /\ opts.gamepad
        /\ gamepad' = TRUE /\ sdl' = sdl \cup {"gamepad"}
        /\ stop' = FALSE /\ poll' = "loop"
     \/ UNCHANGED <<gamepad, sdl, stop, poll>>
  /\ ui' = "audio"
  /\ UNCHANGED <<opts, again, running, fujinet_external, fujinet_running, audio, runtime,
                 host, machine, device, held, starts, bracket>>

\* audio_start, likewise; then the session runs.
audio_start ==
  /\ ui = "audio"
  /\ \/ /\ opts.audio
        /\ audio' = TRUE /\ sdl' = sdl \cup {"audio"} /\ device' = "idle"
     \/ UNCHANGED <<audio, sdl, device>>
  /\ running' = TRUE /\ ui' = "idle"
  /\ UNCHANGED <<opts, again, fujinet_external, fujinet_running, gamepad, runtime, host,
                 machine, poll, held, stop, starts, bracket>>

-----------------------------------------------------------------------------
(* colecosession_stop.                                                     *)

Stop ==
  /\ ui = "idle" /\ running
  /\ ui' = "stop_audio" /\ again' = FALSE
  /\ UNCHANGED <<opts, session, runtime, host, sdl, threads, stop, starts, bracket>>

\* A stop, and a start with the options as the settings have them.
ResetToConfig(o) ==
  /\ ui = "idle" /\ running
  /\ ui' = "stop_audio" /\ again' = TRUE /\ opts' = o
  /\ UNCHANGED <<session, runtime, host, sdl, threads, stop, starts, bracket>>

audio_stop_NoWait ==
  /\ ui = "stop_audio"
  /\ audio' = FALSE /\ device' = IF device = "using" THEN "using" ELSE "none"
  /\ sdl' = sdl \ {"audio"} /\ ui' = "stop_pads"
  /\ UNCHANGED <<opts, again, running, fujinet_external, fujinet_running, gamepad, runtime,
                 host, machine, poll, held, stop, starts, bracket>>

\* audio_stop: closing the stream waits for a callback in progress.
audio_stop ==
  /\ ui = "stop_audio" /\ device # "using"
  /\ audio' = FALSE /\ device' = "none"
  /\ sdl' = IF audio THEN sdl \ {"audio"} ELSE sdl
  /\ ui' = "stop_pads"
  /\ UNCHANGED <<opts, again, running, fujinet_external, fujinet_running, gamepad, runtime,
                 host, machine, poll, held, stop, starts, bracket>>

gamepad_stop_NoFlag ==
  /\ ui = "stop_pads"
  /\ gamepad' = FALSE
  /\ ui' = IF gamepad THEN "join_pads" ELSE "stop_host"
  /\ UNCHANGED <<opts, again, running, fujinet_external, fujinet_running, audio, runtime,
                 host, sdl, threads, stop, starts, bracket>>

\* gamepad_stop, before its thread is waited for.
gamepad_stop ==
  /\ ui = "stop_pads"
  /\ gamepad' = FALSE
  /\ IF gamepad
     THEN stop' = TRUE /\ ui' = "join_pads"
     ELSE ui' = "stop_host" /\ UNCHANGED stop
  /\ UNCHANGED <<opts, again, running, fujinet_external, fujinet_running, audio, runtime,
                 host, sdl, threads, starts, bracket>>

gamepad_joined ==
  /\ ui = "join_pads" /\ poll = "gone"
  /\ poll' = "none" /\ sdl' = sdl \ {"gamepad"}
  /\ ui' = "stop_host"
  /\ UNCHANGED <<opts, again, session, runtime, host, machine, device, held, stop, starts,
                 bracket>>

\* coleco_host_stop, before the machine thread is joined.
host_stop ==
  /\ ui = "stop_host"
  /\ s_stop_req' = TRUE /\ ui' = "join_host"
  /\ UNCHANGED <<opts, again, session, runtime, s_core, s_running, sdl, threads, stop,
                 starts, bracket>>

\* ... and after: the cartridge and the core go.
host_joined ==
  /\ ui = "join_host" /\ machine = "gone"
  /\ machine' = "none" /\ s_running' = FALSE /\ s_core' = 0
  /\ ui' = "stop_fujinet"
  /\ UNCHANGED <<opts, again, session, runtime, s_stop_req, sdl, device, poll, held, stop,
                 starts, bracket>>

\* fujinet_stop, and the end of the stop.
fujinet_stop ==
  /\ ui = "stop_fujinet"
  /\ fujinet_running' = FALSE /\ runtime' = IF fujinet_running THEN "off" ELSE runtime
  /\ fujinet_external' = FALSE /\ running' = FALSE
  /\ ui' = IF again /\ starts < MaxStarts THEN "inputs" ELSE "idle"
  /\ UNCHANGED <<opts, again, audio, gamepad, host, sdl, threads, stop, starts, bracket>>

-----------------------------------------------------------------------------
(* The other threads.                                                      *)

RuntimeListens ==
  /\ runtime = "up"
  /\ runtime' = "listening"
  /\ UNCHANGED <<ui, opts, again, session, host, sdl, threads, stop, starts, bracket>>

Thread(machine_, device_, poll_) ==
  /\ machine' = machine_ /\ device' = device_ /\ poll' = poll_
  /\ UNCHANGED <<ui, opts, again, session, runtime, host, sdl, stop, starts, bracket>>

\* machine_thread: the cartridge, then frames until it is to stop.
MachineThread ==
  /\ \/ machine = "dial"  /\ Thread("loop", device, poll)
     \/ machine = "loop"  /\ ~s_stop_req /\ Thread("frame", device, poll)
     \/ machine = "frame" /\ Thread("loop", device, poll)
     \/ machine = "loop"  /\ s_stop_req /\ Thread("gone", device, poll)
  /\ UNCHANGED held

\* audio_cb: the core is looked at, then used.
AudioCallback ==
  \/ /\ device = "idle" /\ s_core # 0
     /\ held' = [held EXCEPT !["device"] = s_core]
     /\ Thread(machine, "using", poll)
  \/ /\ device = "using"
     /\ Thread(machine, IF audio THEN "idle" ELSE "none", poll) /\ UNCHANGED held

\* poll_thread: a pad that moved writes its port.
PollThread ==
  \/ /\ poll = "loop" /\ ~stop /\ s_core # 0
     /\ held' = [held EXCEPT !["poll"] = s_core]
     /\ Thread(machine, device, "using")
  \/ poll = "using" /\ Thread(machine, device, "loop") /\ UNCHANGED held
  \/ poll = "loop" /\ stop /\ Thread(machine, device, "gone") /\ UNCHANGED held

StartStep ==
  \/ InputsRefused \/ InputsTaken \/ StartFujinet \/ wait_for_boip
  \/ StartHost \/ HostFails \/ Undo \/ gamepad_start \/ audio_start
StopStep ==
  \/ audio_stop \/ gamepad_stop \/ gamepad_joined \/ host_stop \/ host_joined \/ fujinet_stop

Next ==
  \/ \E o \in Opts : Start(o) \/ ResetToConfig(o)
  \/ Stop \/ StartStep \/ StopStep
  \/ RuntimeListens \/ MachineThread \/ AudioCallback \/ PollThread

(* The interface thread goes through with what it began, and the threads   *)
(* with their work; the audio device pauses between its callbacks, long    *)
(* enough for the stream to be closed.  The machine is not parked by the   *)
(* debugger (DebugEngine says what happens to a stop if it is).            *)
Fairness ==
  /\ WF_vars(StartStep) /\ WF_vars(StopStep) /\ SF_vars(audio_stop)
  /\ WF_vars(MachineThread) /\ WF_vars(AudioCallback) /\ WF_vars(PollThread)

Spec == Init /\ [][Next]_vars /\ Fairness

-----------------------------------------------------------------------------
(* What must hold.                                                         *)

\* host.c's joystick and render_audio look at s_core and then use it, with no
\* lock: the core they looked at is still the one there is when they use it.
CoreOutlivesItsUsers ==
  /\ device = "using" => held["device"] = s_core
  /\ poll = "using" => held["poll"] = s_core
  /\ machine \in {"dial", "frame"} => held["machine"] = s_core

\* After a stop, and after a start that failed at any point, nothing runs and
\* nothing is claimed: no core, no thread, no subsystem, no runtime of ours.
NothingLeftBehind ==
  ui = "idle" /\ ~running =>
    /\ s_core = 0 /\ ~s_running
    /\ machine = "none" /\ device = "none" /\ poll = "none"
    /\ ~audio /\ ~gamepad /\ sdl = {}
    /\ runtime = "off" /\ ~fujinet_running

\* session.c:138-144: a machine that dials our own FujiNet was started after
\* it listened, unless that failed or took too long, and FujiNet stays until
\* the machine is gone.
FujiNetBracketsMachine ==
  machine # "none" /\ bracket = "ready" => runtime = "listening"

\* A stop comes to its end.
StopReturns == ui \in Stopping ~> ui \notin Stopping
=============================================================================
