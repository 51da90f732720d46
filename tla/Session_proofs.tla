--------------------------- MODULE Session_proofs ---------------------------
(***************************************************************************)
(* What a session's threads find and what a stop leaves behind, for any    *)
(* number of machines started one after the other (core/src/session.c);    *)
(* and what the windows that start and stop it keep, whatever the user     *)
(* does in them (the frontends' main and settings windows).                *)
(***************************************************************************)
EXTENDS Session, Shell, SequenceTheorems, TLAPS

\* From the machine's start until it has been joined.
Live ==
  \/ ui \in {"pads", "audio"} \cup (Stopping \ {"stop_fujinet"})
  \/ ui = "idle" /\ running

\* The session counts as running from the end of a start to the end of a stop.
RunningInv == (ui \in Starting => ~running) /\ (ui \in Stopping => running)

\* There is a core, and a thread for it, exactly while the machine lives.
CoreInv ==
  /\ s_running <=> Live
  /\ s_core # 0 <=> Live
  /\ machine # "none" <=> Live
  /\ machine # "none" => held["machine"] = s_core

\* The audio device calls exactly while the session has it, which is within
\* the life of the machine.
AudioInv ==
  /\ device # "none" <=> audio
  /\ "audio" \in sdl <=> audio
  /\ audio => ui = "stop_audio" \/ (ui = "idle" /\ running)

\* The gamepad thread is there while the session has it or waits for it.
PadInv ==
  /\ poll # "none" <=> gamepad \/ ui = "join_pads"
  /\ "gamepad" \in sdl <=> poll # "none"
  /\ gamepad => ui \in {"audio", "stop_audio", "stop_pads"} \/ (ui = "idle" /\ running)

\* The runtime is there while the session has it.
FujiInv ==
  /\ runtime # "off" <=> fujinet_running
  /\ fujinet_running => ui \in {"wait", "host", "undo"} \/ Live \/ ui = "stop_fujinet"
  /\ bracket = "ready" /\ (ui \in {"host", "undo"} \/ Live) => runtime = "listening"

\* The parts of TypeOK: the solver that knows numbers and the prover that knows
\* Booleans each prove their own.
Flags ==
  /\ opts \in Opts /\ again \in BOOLEAN
  /\ running \in BOOLEAN /\ fujinet_external \in BOOLEAN /\ fujinet_running \in BOOLEAN
  /\ audio \in BOOLEAN /\ gamepad \in BOOLEAN
  /\ s_running \in BOOLEAN /\ s_stop_req \in BOOLEAN /\ stop \in BOOLEAN

Phases ==
  /\ ui \in {"idle"} \cup Starting \cup Stopping
  /\ runtime \in {"off", "up", "listening"}
  /\ sdl \subseteq {"audio", "gamepad"}
  /\ machine \in {"none", "dial", "loop", "frame", "gone"}
  /\ device \in {"none", "idle", "using"}
  /\ poll \in {"none", "loop", "using", "gone"}
  /\ bracket \in {"none", "failed", "late", "ready"}

Cores ==
  /\ s_core \in Core
  /\ held \in [{"machine", "device", "poll"} -> Core]
  /\ starts \in 0..MaxStarts

IInv ==
  /\ TypeOK
  /\ RunningInv
  /\ CoreInv
  /\ AudioInv
  /\ PadInv
  /\ FujiInv
  /\ CoreOutlivesItsUsers

-----------------------------------------------------------------------------

USE DEF Starting, Stopping, session, host, threads

LEMMA InitIInv == Init => IInv
<1> SUFFICES ASSUME Init PROVE IInv
  OBVIOUS
<1>1. TypeOK
  <2>1. Flags
    BY ZenonT(40) DEF Init, Flags
  <2>2. Phases
    BY DEF Init, Phases
  <2>3. Cores
    BY SessionAssumption DEF Init, Cores, Core
  <2> QED  BY <2>1, <2>2, <2>3 DEF TypeOK, Flags, Phases, Cores
<1>2. RunningInv /\ CoreInv /\ AudioInv /\ PadInv /\ FujiInv /\ CoreOutlivesItsUsers
  BY DEF Init, RunningInv, CoreInv, AudioInv, PadInv, FujiInv, Live, CoreOutlivesItsUsers
<1> QED  BY <1>1, <1>2 DEF IInv

LEMMA InputsRefusedStep == IInv /\ InputsRefused => IInv'
<1> SUFFICES ASSUME IInv, InputsRefused PROVE IInv'
  OBVIOUS
<1>1. TypeOK'
  <2>1. Flags'
    BY ZenonT(40) DEF IInv, TypeOK, Flags, InputsRefused
  <2>2. Phases'
    BY SMT DEF IInv, TypeOK, Phases, InputsRefused
  <2>3. Cores'
    BY SMT DEF IInv, TypeOK, Cores, InputsRefused
  <2> QED  BY <2>1, <2>2, <2>3 DEF TypeOK, Flags, Phases, Cores
<1>2. RunningInv' /\ CoreInv' /\ AudioInv' /\ PadInv' /\ FujiInv' /\ CoreOutlivesItsUsers'
  BY DEF IInv, TypeOK, RunningInv, CoreInv, AudioInv, PadInv, FujiInv, Live,
         CoreOutlivesItsUsers, InputsRefused
<1> QED  BY <1>1, <1>2 DEF IInv

LEMMA InputsTakenStep == IInv /\ InputsTaken => IInv'
<1> SUFFICES ASSUME IInv, InputsTaken PROVE IInv'
  OBVIOUS
<1>1. TypeOK'
  <2>1. Flags'
    <3>1. opts.external \in BOOLEAN
      BY DEF IInv, TypeOK, Opts
    <3> QED  BY <3>1, Zenon DEF IInv, TypeOK, Flags, InputsTaken
  <2>2. Phases'
    BY SMT DEF IInv, TypeOK, Phases, InputsTaken
  <2>3. Cores'
    BY SMT DEF IInv, TypeOK, Cores, InputsTaken
  <2> QED  BY <2>1, <2>2, <2>3 DEF TypeOK, Flags, Phases, Cores
<1>2. RunningInv' /\ CoreInv' /\ AudioInv' /\ PadInv' /\ FujiInv' /\ CoreOutlivesItsUsers'
  BY DEF IInv, TypeOK, RunningInv, CoreInv, AudioInv, PadInv, FujiInv, Live,
         CoreOutlivesItsUsers, InputsTaken
<1> QED  BY <1>1, <1>2 DEF IInv

LEMMA StartFujinetStep == IInv /\ StartFujinet => IInv'
<1> SUFFICES ASSUME IInv, StartFujinet PROVE IInv'
  OBVIOUS
<1>1. TypeOK'
  <2>1. Flags'
    BY ZenonT(40) DEF IInv, TypeOK, Flags, StartFujinet
  <2>2. Phases'
    BY SMT DEF IInv, TypeOK, Phases, StartFujinet
  <2>3. Cores'
    BY SMT DEF IInv, TypeOK, Cores, StartFujinet
  <2> QED  BY <2>1, <2>2, <2>3 DEF TypeOK, Flags, Phases, Cores
<1>2. RunningInv' /\ CoreInv' /\ AudioInv' /\ PadInv' /\ FujiInv' /\ CoreOutlivesItsUsers'
  BY DEF IInv, TypeOK, RunningInv, CoreInv, AudioInv, PadInv, FujiInv, Live,
         CoreOutlivesItsUsers, StartFujinet
<1> QED  BY <1>1, <1>2 DEF IInv

LEMMA wait_for_boipStep == IInv /\ wait_for_boip => IInv'
<1> SUFFICES ASSUME IInv, wait_for_boip PROVE IInv'
  OBVIOUS
<1>1. TypeOK'
  <2>1. Flags'
    BY ZenonT(40) DEF IInv, TypeOK, Flags, wait_for_boip
  <2>2. Phases'
    BY SMT DEF IInv, TypeOK, Phases, wait_for_boip
  <2>3. Cores'
    BY SMT DEF IInv, TypeOK, Cores, wait_for_boip
  <2> QED  BY <2>1, <2>2, <2>3 DEF TypeOK, Flags, Phases, Cores
<1>2. RunningInv' /\ CoreInv' /\ AudioInv' /\ PadInv' /\ FujiInv' /\ CoreOutlivesItsUsers'
  BY DEF IInv, TypeOK, RunningInv, CoreInv, AudioInv, PadInv, FujiInv, Live,
         CoreOutlivesItsUsers, wait_for_boip
<1> QED  BY <1>1, <1>2 DEF IInv

LEMMA StartHostStep == IInv /\ StartHost => IInv'
<1> SUFFICES ASSUME IInv, StartHost PROVE IInv'
  OBVIOUS
<1>1. TypeOK'
  <2>1. Flags'
    BY ZenonT(40) DEF IInv, TypeOK, Flags, StartHost
  <2>2. Phases'
    BY SMT DEF IInv, TypeOK, Phases, StartHost
  <2>3. Cores'
    BY SMT, SessionAssumption DEF IInv, TypeOK, Cores, Core, StartHost
  <2> QED  BY <2>1, <2>2, <2>3 DEF TypeOK, Flags, Phases, Cores
<1>2. RunningInv'
  BY DEF IInv, RunningInv, StartHost
<1>3. CoreInv'
  BY SessionAssumption DEF IInv, TypeOK, RunningInv, CoreInv, Live, StartHost
<1>4. AudioInv'
  BY DEF IInv, TypeOK, RunningInv, AudioInv, Live, StartHost
<1>5. PadInv'
  BY DEF IInv, TypeOK, RunningInv, PadInv, Live, StartHost
<1>6. FujiInv'
  BY DEF IInv, TypeOK, RunningInv, FujiInv, Live, StartHost
<1>7. CoreOutlivesItsUsers'
  BY DEF IInv, TypeOK, CoreInv, AudioInv, PadInv, CoreOutlivesItsUsers, Live, StartHost
<1> QED  BY <1>1, <1>2, <1>3, <1>4, <1>5, <1>6, <1>7 DEF IInv

LEMMA HostFailsStep == IInv /\ HostFails => IInv'
<1> SUFFICES ASSUME IInv, HostFails PROVE IInv'
  OBVIOUS
<1>1. TypeOK'
  <2>1. Flags'
    BY ZenonT(40) DEF IInv, TypeOK, Flags, HostFails
  <2>2. Phases'
    BY SMT DEF IInv, TypeOK, Phases, HostFails
  <2>3. Cores'
    BY SMT DEF IInv, TypeOK, Cores, HostFails
  <2> QED  BY <2>1, <2>2, <2>3 DEF TypeOK, Flags, Phases, Cores
<1>2. RunningInv' /\ CoreInv' /\ AudioInv' /\ PadInv' /\ FujiInv' /\ CoreOutlivesItsUsers'
  BY DEF IInv, TypeOK, RunningInv, CoreInv, AudioInv, PadInv, FujiInv, Live,
         CoreOutlivesItsUsers, HostFails
<1> QED  BY <1>1, <1>2 DEF IInv

LEMMA UndoStep == IInv /\ Undo => IInv'
<1> SUFFICES ASSUME IInv, Undo PROVE IInv'
  OBVIOUS
<1>1. TypeOK'
  <2>1. Flags'
    BY ZenonT(40) DEF IInv, TypeOK, Flags, Undo
  <2>2. Phases'
    BY SMT DEF IInv, TypeOK, Phases, Undo
  <2>3. Cores'
    BY SMT DEF IInv, TypeOK, Cores, Undo
  <2> QED  BY <2>1, <2>2, <2>3 DEF TypeOK, Flags, Phases, Cores
<1>2. RunningInv' /\ CoreInv' /\ AudioInv' /\ PadInv' /\ FujiInv' /\ CoreOutlivesItsUsers'
  BY DEF IInv, TypeOK, RunningInv, CoreInv, AudioInv, PadInv, FujiInv, Live,
         CoreOutlivesItsUsers, Undo
<1> QED  BY <1>1, <1>2 DEF IInv

LEMMA gamepad_startStep == IInv /\ gamepad_start => IInv'
<1> SUFFICES ASSUME IInv, gamepad_start PROVE IInv'
  OBVIOUS
<1>1. TypeOK'
  <2>1. Flags'
    BY ZenonT(40) DEF IInv, TypeOK, Flags, gamepad_start
  <2>2. Phases'
    <3>1. sdl' \subseteq {"audio", "gamepad"}
      BY ZenonT(40) DEF IInv, TypeOK, gamepad_start
    <3> QED  BY <3>1, Zenon DEF IInv, TypeOK, Phases, gamepad_start
  <2>3. Cores'
    BY SMT DEF IInv, TypeOK, Cores, gamepad_start
  <2> QED  BY <2>1, <2>2, <2>3 DEF TypeOK, Flags, Phases, Cores
<1>2. RunningInv' /\ CoreInv' /\ AudioInv' /\ PadInv' /\ FujiInv' /\ CoreOutlivesItsUsers'
  BY DEF IInv, TypeOK, RunningInv, CoreInv, AudioInv, PadInv, FujiInv, Live,
         CoreOutlivesItsUsers, gamepad_start
<1> QED  BY <1>1, <1>2 DEF IInv

LEMMA audio_startStep == IInv /\ audio_start => IInv'
<1> SUFFICES ASSUME IInv, audio_start PROVE IInv'
  OBVIOUS
<1>1. TypeOK'
  <2>1. Flags'
    BY ZenonT(40) DEF IInv, TypeOK, Flags, audio_start
  <2>2. Phases'
    <3>1. sdl' \subseteq {"audio", "gamepad"}
      BY ZenonT(40) DEF IInv, TypeOK, audio_start
    <3> QED  BY <3>1, Zenon DEF IInv, TypeOK, Phases, audio_start
  <2>3. Cores'
    BY SMT DEF IInv, TypeOK, Cores, audio_start
  <2> QED  BY <2>1, <2>2, <2>3 DEF TypeOK, Flags, Phases, Cores
<1>2. RunningInv' /\ CoreInv' /\ AudioInv' /\ PadInv' /\ FujiInv' /\ CoreOutlivesItsUsers'
  BY DEF IInv, TypeOK, RunningInv, CoreInv, AudioInv, PadInv, FujiInv, Live,
         CoreOutlivesItsUsers, audio_start
<1> QED  BY <1>1, <1>2 DEF IInv

LEMMA audio_stopStep == IInv /\ audio_stop => IInv'
<1> SUFFICES ASSUME IInv, audio_stop PROVE IInv'
  OBVIOUS
<1>1. TypeOK'
  <2>1. Flags'
    BY ZenonT(40) DEF IInv, TypeOK, Flags, audio_stop
  <2>2. Phases'
    BY SMT DEF IInv, TypeOK, Phases, audio_stop
  <2>3. Cores'
    BY SMT DEF IInv, TypeOK, Cores, audio_stop
  <2> QED  BY <2>1, <2>2, <2>3 DEF TypeOK, Flags, Phases, Cores
<1>2. RunningInv' /\ CoreInv' /\ AudioInv' /\ PadInv' /\ FujiInv' /\ CoreOutlivesItsUsers'
  BY DEF IInv, TypeOK, RunningInv, CoreInv, AudioInv, PadInv, FujiInv, Live,
         CoreOutlivesItsUsers, audio_stop
<1> QED  BY <1>1, <1>2 DEF IInv

LEMMA gamepad_stopStep == IInv /\ gamepad_stop => IInv'
<1> SUFFICES ASSUME IInv, gamepad_stop PROVE IInv'
  OBVIOUS
<1>1. TypeOK'
  <2>1. Flags'
    BY ZenonT(40) DEF IInv, TypeOK, Flags, gamepad_stop
  <2>2. Phases'
    BY SMT DEF IInv, TypeOK, Phases, gamepad_stop
  <2>3. Cores'
    BY SMT DEF IInv, TypeOK, Cores, gamepad_stop
  <2> QED  BY <2>1, <2>2, <2>3 DEF TypeOK, Flags, Phases, Cores
<1>2. RunningInv' /\ CoreInv' /\ AudioInv' /\ PadInv' /\ FujiInv' /\ CoreOutlivesItsUsers'
  BY DEF IInv, TypeOK, RunningInv, CoreInv, AudioInv, PadInv, FujiInv, Live,
         CoreOutlivesItsUsers, gamepad_stop
<1> QED  BY <1>1, <1>2 DEF IInv

LEMMA gamepad_joinedStep == IInv /\ gamepad_joined => IInv'
<1> SUFFICES ASSUME IInv, gamepad_joined PROVE IInv'
  OBVIOUS
<1>1. TypeOK'
  <2>1. Flags'
    BY ZenonT(40) DEF IInv, TypeOK, Flags, gamepad_joined
  <2>2. Phases'
    BY SMT DEF IInv, TypeOK, Phases, gamepad_joined
  <2>3. Cores'
    BY SMT DEF IInv, TypeOK, Cores, gamepad_joined
  <2> QED  BY <2>1, <2>2, <2>3 DEF TypeOK, Flags, Phases, Cores
<1>2. RunningInv' /\ CoreInv' /\ AudioInv' /\ PadInv' /\ FujiInv' /\ CoreOutlivesItsUsers'
  BY DEF IInv, TypeOK, RunningInv, CoreInv, AudioInv, PadInv, FujiInv, Live,
         CoreOutlivesItsUsers, gamepad_joined
<1> QED  BY <1>1, <1>2 DEF IInv

LEMMA host_stopStep == IInv /\ host_stop => IInv'
<1> SUFFICES ASSUME IInv, host_stop PROVE IInv'
  OBVIOUS
<1>1. TypeOK'
  <2>1. Flags'
    BY ZenonT(40) DEF IInv, TypeOK, Flags, host_stop
  <2>2. Phases'
    BY SMT DEF IInv, TypeOK, Phases, host_stop
  <2>3. Cores'
    BY SMT DEF IInv, TypeOK, Cores, host_stop
  <2> QED  BY <2>1, <2>2, <2>3 DEF TypeOK, Flags, Phases, Cores
<1>2. RunningInv' /\ CoreInv' /\ AudioInv' /\ PadInv' /\ FujiInv' /\ CoreOutlivesItsUsers'
  BY DEF IInv, TypeOK, RunningInv, CoreInv, AudioInv, PadInv, FujiInv, Live,
         CoreOutlivesItsUsers, host_stop
<1> QED  BY <1>1, <1>2 DEF IInv

LEMMA host_joinedStep == IInv /\ host_joined => IInv'
<1> SUFFICES ASSUME IInv, host_joined PROVE IInv'
  OBVIOUS
<1>1. TypeOK'
  <2>1. Flags'
    BY ZenonT(40) DEF IInv, TypeOK, Flags, host_joined
  <2>2. Phases'
    BY SMT DEF IInv, TypeOK, Phases, host_joined
  <2>3. Cores'
    BY SMT, SessionAssumption DEF IInv, TypeOK, Cores, Core, host_joined
  <2> QED  BY <2>1, <2>2, <2>3 DEF TypeOK, Flags, Phases, Cores
<1>2. RunningInv' /\ CoreInv' /\ AudioInv' /\ PadInv' /\ FujiInv' /\ CoreOutlivesItsUsers'
  BY DEF IInv, TypeOK, RunningInv, CoreInv, AudioInv, PadInv, FujiInv, Live,
         CoreOutlivesItsUsers, host_joined
<1> QED  BY <1>1, <1>2 DEF IInv

LEMMA fujinet_stopStep == IInv /\ fujinet_stop => IInv'
<1> SUFFICES ASSUME IInv, fujinet_stop PROVE IInv'
  OBVIOUS
<1>1. TypeOK'
  <2>1. Flags'
    BY ZenonT(40) DEF IInv, TypeOK, Flags, fujinet_stop
  <2>2. Phases'
    BY SMT DEF IInv, TypeOK, Phases, fujinet_stop
  <2>3. Cores'
    BY SMT DEF IInv, TypeOK, Cores, fujinet_stop
  <2> QED  BY <2>1, <2>2, <2>3 DEF TypeOK, Flags, Phases, Cores
<1>2. RunningInv' /\ CoreInv' /\ AudioInv' /\ PadInv' /\ FujiInv' /\ CoreOutlivesItsUsers'
  BY DEF IInv, TypeOK, RunningInv, CoreInv, AudioInv, PadInv, FujiInv, Live,
         CoreOutlivesItsUsers, fujinet_stop
<1> QED  BY <1>1, <1>2 DEF IInv

LEMMA StopBeginStep == IInv /\ Stop => IInv'
<1> SUFFICES ASSUME IInv, Stop PROVE IInv'
  OBVIOUS
<1>1. TypeOK'
  <2>1. Flags'
    BY ZenonT(40) DEF IInv, TypeOK, Flags, Stop
  <2>2. Phases'
    BY SMT DEF IInv, TypeOK, Phases, Stop
  <2>3. Cores'
    BY SMT DEF IInv, TypeOK, Cores, Stop
  <2> QED  BY <2>1, <2>2, <2>3 DEF TypeOK, Flags, Phases, Cores
<1>2. RunningInv' /\ CoreInv' /\ AudioInv' /\ PadInv' /\ FujiInv' /\ CoreOutlivesItsUsers'
  BY DEF IInv, TypeOK, RunningInv, CoreInv, AudioInv, PadInv, FujiInv, Live,
         CoreOutlivesItsUsers, Stop
<1> QED  BY <1>1, <1>2 DEF IInv

LEMMA RuntimeListensStep == IInv /\ RuntimeListens => IInv'
<1> SUFFICES ASSUME IInv, RuntimeListens PROVE IInv'
  OBVIOUS
<1>1. TypeOK'
  <2>1. Flags'
    BY ZenonT(40) DEF IInv, TypeOK, Flags, RuntimeListens
  <2>2. Phases'
    BY SMT DEF IInv, TypeOK, Phases, RuntimeListens
  <2>3. Cores'
    BY SMT DEF IInv, TypeOK, Cores, RuntimeListens
  <2> QED  BY <2>1, <2>2, <2>3 DEF TypeOK, Flags, Phases, Cores
<1>2. RunningInv' /\ CoreInv' /\ AudioInv' /\ PadInv' /\ FujiInv' /\ CoreOutlivesItsUsers'
  BY DEF IInv, TypeOK, RunningInv, CoreInv, AudioInv, PadInv, FujiInv, Live,
         CoreOutlivesItsUsers, RuntimeListens
<1> QED  BY <1>1, <1>2 DEF IInv

LEMMA MachineThreadStep == IInv /\ MachineThread => IInv'
<1> SUFFICES ASSUME IInv, MachineThread PROVE IInv'
  OBVIOUS
<1>1. TypeOK'
  <2>1. Flags'
    BY ZenonT(40) DEF IInv, TypeOK, Flags, MachineThread, Thread
  <2>2. Phases'
    BY ZenonT(40) DEF IInv, TypeOK, Phases, MachineThread, Thread
  <2>3. Cores'
    BY SMT, SessionAssumption DEF IInv, TypeOK, Cores, Core, MachineThread, Thread
  <2> QED  BY <2>1, <2>2, <2>3 DEF TypeOK, Flags, Phases, Cores
<1>2. RunningInv'
  BY DEF IInv, RunningInv, MachineThread, Thread
<1>3. CoreInv'
  BY DEF IInv, TypeOK, RunningInv, CoreInv, Live, MachineThread, Thread
<1>4. AudioInv'
  BY DEF IInv, TypeOK, RunningInv, AudioInv, Live, MachineThread, Thread
<1>5. PadInv'
  BY DEF IInv, TypeOK, RunningInv, PadInv, Live, MachineThread, Thread
<1>6. FujiInv'
  BY DEF IInv, TypeOK, RunningInv, FujiInv, Live, MachineThread, Thread
<1>7. CoreOutlivesItsUsers'
  BY ZenonT(40) DEF IInv, CoreInv, CoreOutlivesItsUsers, MachineThread, Thread
<1> QED  BY <1>1, <1>2, <1>3, <1>4, <1>5, <1>6, <1>7 DEF IInv

LEMMA AudioCallbackStep == IInv /\ AudioCallback => IInv'
<1> SUFFICES ASSUME IInv, AudioCallback PROVE IInv'
  OBVIOUS
<1>1. TypeOK'
  <2>1. Flags'
    BY ZenonT(40) DEF IInv, TypeOK, Flags, AudioCallback, Thread
  <2>2. Phases'
    BY ZenonT(40) DEF IInv, TypeOK, Phases, AudioCallback, Thread
  <2>3. Cores'
    BY SMT, SessionAssumption DEF IInv, TypeOK, Cores, Core, AudioCallback, Thread
  <2> QED  BY <2>1, <2>2, <2>3 DEF TypeOK, Flags, Phases, Cores
<1>2. RunningInv'
  BY DEF IInv, RunningInv, AudioCallback, Thread
<1>3. CoreInv'
  BY DEF IInv, TypeOK, RunningInv, CoreInv, Live, AudioCallback, Thread
<1>4. AudioInv'
  BY DEF IInv, TypeOK, RunningInv, AudioInv, Live, AudioCallback, Thread
<1>5. PadInv'
  BY DEF IInv, TypeOK, RunningInv, PadInv, Live, AudioCallback, Thread
<1>6. FujiInv'
  BY DEF IInv, TypeOK, RunningInv, FujiInv, Live, AudioCallback, Thread
<1>7. CoreOutlivesItsUsers'
  BY DEF IInv, TypeOK, CoreInv, AudioInv, PadInv, CoreOutlivesItsUsers, Live, AudioCallback, Thread
<1> QED  BY <1>1, <1>2, <1>3, <1>4, <1>5, <1>6, <1>7 DEF IInv

LEMMA PollThreadStep == IInv /\ PollThread => IInv'
<1> SUFFICES ASSUME IInv, PollThread PROVE IInv'
  OBVIOUS
<1>1. TypeOK'
  <2>1. Flags'
    BY ZenonT(40) DEF IInv, TypeOK, Flags, PollThread, Thread
  <2>2. Phases'
    BY ZenonT(40) DEF IInv, TypeOK, Phases, PollThread, Thread
  <2>3. Cores'
    BY SMT, SessionAssumption DEF IInv, TypeOK, Cores, Core, PollThread, Thread
  <2> QED  BY <2>1, <2>2, <2>3 DEF TypeOK, Flags, Phases, Cores
<1>2. RunningInv'
  BY DEF IInv, RunningInv, PollThread, Thread
<1>3. CoreInv'
  BY DEF IInv, TypeOK, RunningInv, CoreInv, Live, PollThread, Thread
<1>4. AudioInv'
  BY DEF IInv, TypeOK, RunningInv, AudioInv, Live, PollThread, Thread
<1>5. PadInv'
  BY DEF IInv, TypeOK, RunningInv, PadInv, Live, PollThread, Thread
<1>6. FujiInv'
  BY DEF IInv, TypeOK, RunningInv, FujiInv, Live, PollThread, Thread
<1>7. CoreOutlivesItsUsers'
  BY DEF IInv, TypeOK, CoreInv, AudioInv, PadInv, CoreOutlivesItsUsers, Live, PollThread, Thread
<1> QED  BY <1>1, <1>2, <1>3, <1>4, <1>5, <1>6, <1>7 DEF IInv

LEMMA StartBeginStep ==
  ASSUME IInv, NEW o \in Opts, Start(o)
  PROVE  IInv'
<1>1. TypeOK'
  <2>1. Flags'
    BY ZenonT(40) DEF IInv, TypeOK, Flags, Start
  <2>2. Phases'
    BY SMT DEF IInv, TypeOK, Phases, Start
  <2>3. Cores'
    BY SMT DEF IInv, TypeOK, Cores, Start
  <2> QED  BY <2>1, <2>2, <2>3 DEF TypeOK, Flags, Phases, Cores
<1>2. RunningInv' /\ CoreInv' /\ AudioInv' /\ PadInv' /\ FujiInv' /\ CoreOutlivesItsUsers'
  BY DEF IInv, TypeOK, RunningInv, CoreInv, AudioInv, PadInv, FujiInv, Live,
         CoreOutlivesItsUsers, Start
<1> QED  BY <1>1, <1>2 DEF IInv

LEMMA ResetToConfigStep ==
  ASSUME IInv, NEW o \in Opts, ResetToConfig(o)
  PROVE  IInv'
<1>1. TypeOK'
  <2>1. Flags'
    BY ZenonT(40) DEF IInv, TypeOK, Flags, ResetToConfig
  <2>2. Phases'
    BY SMT DEF IInv, TypeOK, Phases, ResetToConfig
  <2>3. Cores'
    BY SMT DEF IInv, TypeOK, Cores, ResetToConfig
  <2> QED  BY <2>1, <2>2, <2>3 DEF TypeOK, Flags, Phases, Cores
<1>2. RunningInv' /\ CoreInv' /\ AudioInv' /\ PadInv' /\ FujiInv' /\ CoreOutlivesItsUsers'
  BY DEF IInv, TypeOK, RunningInv, CoreInv, AudioInv, PadInv, FujiInv, Live,
         CoreOutlivesItsUsers, ResetToConfig
<1> QED  BY <1>1, <1>2 DEF IInv

LEMMA NextIInv == IInv /\ [Next]_vars => IInv'
<1> SUFFICES ASSUME IInv, [Next]_vars PROVE IInv'
  OBVIOUS
<1>1. CASE UNCHANGED vars
  BY <1>1 DEF vars, IInv, TypeOK, RunningInv, CoreInv, AudioInv, PadInv, FujiInv, Live,
              CoreOutlivesItsUsers
<1>2. CASE \E o \in Opts : Start(o) \/ ResetToConfig(o)
  BY <1>2, StartBeginStep, ResetToConfigStep
<1>3. CASE StartStep
  BY <1>3, InputsRefusedStep, InputsTakenStep, StartFujinetStep, wait_for_boipStep,
     StartHostStep, HostFailsStep, UndoStep, gamepad_startStep, audio_startStep DEF StartStep
<1>4. CASE StopStep
  BY <1>4, audio_stopStep, gamepad_stopStep, gamepad_joinedStep, host_stopStep,
     host_joinedStep, fujinet_stopStep DEF StopStep
<1> QED
  BY <1>1, <1>2, <1>3, <1>4, StopBeginStep, RuntimeListensStep, MachineThreadStep,
     AudioCallbackStep, PollThreadStep DEF Next

\* session.c: the inductive invariant of what is started and what is there.
THEOREM Invariance == Spec => []IInv
<1> QED  BY InitIInv, NextIInv, PTL DEF Spec

\* For any number of machines: a thread that looked at the core, with no lock,
\* uses the core there is, because whoever uses it is joined before the core
\* goes.
THEOREM NoUserOutlivesTheCore == Spec => []CoreOutlivesItsUsers
<1>1. IInv => CoreOutlivesItsUsers
  BY DEF IInv
<1> QED  BY <1>1, Invariance, PTL

\* A stop, and a start that failed anywhere, leave nothing running and nothing
\* claimed.
THEOREM EverythingIsPutBack == Spec => []NothingLeftBehind
<1>1. IInv => NothingLeftBehind
  BY DEF IInv, TypeOK, CoreInv, AudioInv, PadInv, FujiInv, Live, NothingLeftBehind
<1> QED  BY <1>1, Invariance, PTL

\* The machine runs within the time FujiNet listens, if it ever got so far.
THEOREM FujiNetFirstAndLast == Spec => []FujiNetBracketsMachine
<1>1. IInv => FujiNetBracketsMachine
  BY DEF IInv, CoreInv, FujiInv, FujiNetBracketsMachine
<1> QED  BY <1>1, Invariance, PTL

\* Every variable keeps to its type, for any number of machines.
THEOREM Typing == Spec => []TypeOK
<1>1. IInv => TypeOK
  BY DEF IInv
<1> QED  BY <1>1, Invariance, PTL

-----------------------------------------------------------------------------
(* The windows: what a console runs with, and that a BIOS is taken up.     *)

Asked == [what : {"offer", "chooser", "result", "loaded"},
          owner : {"main", "settings", "gone"}, was_missing : BOOLEAN, taken : BOOLEAN,
          then : {"apply", "later", "retry"}, retry : Carts \cup {None, "rom"}]

\* A program that runs.
Program ==
  [frontend : Frontends, store : Stored, bios : BOOLEAN, lost : SUBSET Carts,
   running : BOOLEAN, with : Stored, why : {"none", "bios", "cart", "address"},
   settings : BOOLEAN, dirty : BOOLEAN, draft : Stored \cup {None},
   asks : Seq(Asked), imported : BOOLEAN, unapplied : BOOLEAN]

\* A question is put up by a window that is open, or was on GNOME; an import
\* that is not applied at once is one from the settings; on Windows one that
\* began before there was a BIOS knows so.
AskOK(a, q) ==
  /\ q.owner = "settings" => a.settings
  /\ q.owner = "gone" => a.frontend = "gnome"
  /\ q.then = "later" => q.owner # "main"
  /\ a.frontend = "gnome" => (q.then = "apply" <=> q.owner = "main")
  /\ q.what \in {"result", "loaded"} => a.frontend = "windows"
  /\ a.frontend = "windows" /\ q.what = "chooser" => a.bios \/ q.was_missing

Fits(a) ==
  /\ a \in Program
  /\ a.settings => a.draft \in Stored
  /\ a.dirty => a.settings
  /\ \A i \in 1..Len(a.asks) : AskOK(a, a.asks[i])

\* What runs runs with what is stored, or the settings window will see to it.
AsStored(o, store) ==
  /\ o.option = store.option /\ o.external = store.external
  /\ o.external => o.address = store.address
InForce(a) == a.running => AsStored(a.with, a.store) \/ a.dirty

\* A message of Windows that starts a console when it is answered.
Starts(a, q) ==
  /\ q.was_missing
  /\ (q.what = "loaded" /\ q.taken) \/ (q.what = "result" /\ a.imported)

\* A console that wants for a BIOS that is there will be started: when the
\* settings close, or when such a message is answered.
ToBeStarted(a) ==
  ~a.running /\ a.why = "bios" /\ a.bios /\ ~a.unapplied =>
     a.dirty \/ \E i \in 1..Len(a.asks) : a.frontend = "windows" /\ Starts(a, a.asks[i])

Good(a) == Fits(a) /\ InForce(a) /\ ToBeStarted(a)

\* No program: one that was closed, or has not been launched.
Shut(a) ==
  /\ a \in [frontend : {None}, store : Stored, bios : BOOLEAN, lost : SUBSET Carts,
            running : BOOLEAN, with : Stored, why : {"none", "bios", "cart", "address"},
            settings : BOOLEAN, dirty : BOOLEAN, draft : Stored \cup {None},
            asks : Seq(Asked), imported : BOOLEAN, unapplied : BOOLEAN]
  /\ ~a.running /\ a.why = "none" /\ ~a.settings /\ ~a.dirty /\ a.asks = <<>>

ShellInv == Shut(app) \/ Good(app)

-----------------------------------------------------------------------------

\* The frontends call the same session.
LEMMA Calls ==
  /\ \A a, o : /\ G!start(a, o) = C!start(a, o) /\ K!start(a, o) = C!start(a, o)
               /\ M!start(a, o) = C!start(a, o) /\ W!start(a, o) = C!start(a, o)
  /\ \A a : /\ K!stop(a) = C!stop(a)
            /\ G!cycle(a) = C!cycle(a) /\ M!cycle(a) = C!cycle(a) /\ W!cycle(a) = C!cycle(a)
            /\ G!default_opts(a) = a.store /\ K!default_opts(a) = a.store
            /\ M!default_opts(a) = a.store /\ W!default_opts(a) = a.store
BY DEF G!start, K!start, M!start, W!start, C!start,
       G!Refusal, K!Refusal, M!Refusal, W!Refusal, C!Refusal,
       G!parse_hostport, K!parse_hostport, M!parse_hostport, W!parse_hostport, C!parse_hostport,
       G!Off, K!Off, M!Off, W!Off, C!Off, G!stop, K!stop, M!stop, W!stop, C!stop,
       G!cycle, M!cycle, W!cycle, C!cycle,
       G!default_opts, K!default_opts, M!default_opts, W!default_opts, C!default_opts

LEMMA Imports ==
  /\ \A a, taken : /\ G!rom_import(a, taken) = C!rom_import(a, taken)
                   /\ K!rom_import(a, taken) = C!rom_import(a, taken)
                   /\ M!rom_import(a, taken) = C!rom_import(a, taken)
                   /\ W!rom_import(a, taken) = C!rom_import(a, taken)
  /\ \A a, cart : /\ G!import_cart(a, cart) = C!import_cart(a, cart)
                  /\ K!import_cart(a, cart) = C!import_cart(a, cart)
                  /\ M!import_cart(a, cart) = C!import_cart(a, cart)
                  /\ W!import_cart(a, cart) = C!import_cart(a, cart)
BY DEF G!rom_import, K!rom_import, M!rom_import, W!rom_import, C!rom_import,
       G!import_cart, K!import_cart, M!import_cart, W!import_cart, C!import_cart

LEMMA Asks ==
  /\ \A a, q : /\ G!Ask(a, q) = C!Ask(a, q) /\ K!Ask(a, q) = C!Ask(a, q)
               /\ M!Ask(a, q) = C!Ask(a, q) /\ W!Ask(a, q) = C!Ask(a, q)
  /\ \A what, owner :
       /\ G!Question(what, owner) = C!Question(what, owner)
       /\ K!Question(what, owner) = C!Question(what, owner)
       /\ M!Question(what, owner) = C!Question(what, owner)
       /\ W!Question(what, owner) = C!Question(what, owner)
BY DEF G!Ask, K!Ask, M!Ask, W!Ask, C!Ask,
       G!Question, K!Question, M!Question, W!Question, C!Question

LEMMA OffStored == C!Off \in Stored
BY DEF C!Off, Stored

\* What Fits says of a program it says of another with the same windows.
LEMMA SameWindows ==
  ASSUME NEW a, NEW b, Fits(a), b \in Program, b.frontend = a.frontend,
         b.settings = a.settings, b.dirty = a.dirty, b.draft = a.draft, b.asks = a.asks,
         a.bios => b.bios
  PROVE  Fits(b)
BY DEF Fits, AskOK

LEMMA StartFacts ==
  ASSUME NEW a, Fits(a), InForce(a), NEW o \in Stored, AsStored(o, a.store)
  PROVE  LET b == C!start(a, o) IN
         /\ Good(b)
         /\ b.frontend = a.frontend /\ b.store = a.store /\ b.bios = a.bios
         /\ b.settings = a.settings /\ b.dirty = a.dirty /\ b.draft = a.draft
         /\ b.asks = a.asks /\ b.imported = a.imported /\ b.unapplied = a.unapplied
<1> DEFINE b == C!start(a, o)
           why == C!Refusal(a, o)
<1>0. a \in Program
  BY DEF Fits
<1>1. CASE a.running
  <2>1. b = a
    BY <1>1 DEF C!start
  <2> QED  BY <1>1, <2>1 DEF Good, ToBeStarted
<1>2. CASE ~a.running
  <2>1. why \in {"none", "bios", "cart", "address"} /\ (why = "bios" => ~a.bios)
    BY DEF C!Refusal
  <2>2. b = [a EXCEPT !.why = why, !.running = (why = "none"),
                      !.with = IF why = "none" THEN o ELSE C!Off]
    BY <1>2 DEF C!start
  <2> HIDE DEF why
  <2>3. /\ b \in Program /\ b.why = why /\ b.running = (why = "none")
        /\ b.with = (IF why = "none" THEN o ELSE C!Off)
        /\ b.frontend = a.frontend /\ b.store = a.store /\ b.bios = a.bios
        /\ b.settings = a.settings /\ b.dirty = a.dirty /\ b.draft = a.draft
        /\ b.asks = a.asks /\ b.imported = a.imported /\ b.unapplied = a.unapplied
    BY <1>0, <2>1, <2>2, OffStored DEF Program
  <2> HIDE DEF b
  <2>4. Fits(b)
    BY <2>3, SameWindows
  <2>5. InForce(b)
    BY <2>3 DEF InForce
  <2>6. ToBeStarted(b)
    BY <2>1, <2>3 DEF ToBeStarted
  <2> QED  BY <2>3, <2>4, <2>5, <2>6 DEF Good, b
<1> QED  BY <1>1, <1>2

LEMMA StopFacts ==
  ASSUME NEW a, Fits(a)
  PROVE  LET b == C!stop(a) IN
         /\ Fits(b) /\ ~b.running /\ InForce(b)
         /\ b.frontend = a.frontend /\ b.store = a.store /\ b.bios = a.bios
         /\ b.settings = a.settings /\ b.dirty = a.dirty /\ b.draft = a.draft
         /\ b.asks = a.asks /\ b.imported = a.imported /\ b.unapplied = a.unapplied
<1> DEFINE b == C!stop(a)
<1>0. a \in Program
  BY DEF Fits
<1>1. /\ b \in Program /\ b.running = FALSE
      /\ b.frontend = a.frontend /\ b.store = a.store /\ b.bios = a.bios
      /\ b.settings = a.settings /\ b.dirty = a.dirty /\ b.draft = a.draft
      /\ b.asks = a.asks /\ b.imported = a.imported /\ b.unapplied = a.unapplied
  BY <1>0, OffStored DEF Program, C!stop
<1> HIDE DEF b
<1>2. Fits(b)
  BY <1>1, SameWindows
<1> QED  BY <1>1, <1>2 DEF InForce, b

\* A power cycle puts everything in force, whatever was stored before it.
LEMMA CycleFacts ==
  ASSUME NEW a, Fits(a)
  PROVE  LET b == C!cycle(a) IN
         /\ Good(b)
         /\ b.frontend = a.frontend /\ b.store = a.store /\ b.bios = a.bios
         /\ b.settings = a.settings /\ b.dirty = a.dirty /\ b.draft = a.draft
         /\ b.asks = a.asks /\ b.imported = a.imported /\ b.unapplied = a.unapplied
<1> DEFINE c == C!stop(a)
<1>1. /\ Fits(c) /\ InForce(c) /\ c.store = a.store
      /\ c.frontend = a.frontend /\ c.bios = a.bios
      /\ c.settings = a.settings /\ c.dirty = a.dirty /\ c.draft = a.draft
      /\ c.asks = a.asks /\ c.imported = a.imported /\ c.unapplied = a.unapplied
  BY StopFacts
<1>2. a.store \in Stored /\ AsStored(a.store, c.store)
  BY <1>1 DEF Fits, Program, AsStored
<1>3. C!cycle(a) = C!start(c, a.store)
  BY DEF C!cycle, C!default_opts
<1> HIDE DEF c
<1> QED  BY <1>1, <1>2, <1>3, StartFacts

\* A question of a window that is open changes nothing else.
LEMMA AskFacts ==
  ASSUME NEW a, NEW q \in Asked, Good(a), AskOK(a, q)
  PROVE  Good(C!Ask(a, q))
<1> DEFINE b == C!Ask(a, q)
<1>0. a \in Program /\ a.asks \in Seq(Asked)
  BY DEF Good, Fits, Program
<1>1. /\ Append(a.asks, q) \in Seq(Asked) /\ Len(Append(a.asks, q)) = Len(a.asks) + 1
      /\ \A i \in 1..Len(a.asks) : Append(a.asks, q)[i] = a.asks[i]
      /\ Append(a.asks, q)[Len(a.asks) + 1] = q /\ Len(a.asks) \in Nat
  <2> HIDE DEF Asked
  <2> QED  BY <1>0, AppendProperties
<1> DEFINE asked == Append(a.asks, q)
<1>2. b = [a EXCEPT !.asks = asked]
  BY DEF C!Ask
<1> HIDE DEF asked
<1>3. /\ b \in Program /\ b.asks = asked
      /\ b.frontend = a.frontend /\ b.store = a.store /\ b.bios = a.bios
      /\ b.running = a.running /\ b.with = a.with /\ b.why = a.why
      /\ b.settings = a.settings /\ b.dirty = a.dirty /\ b.draft = a.draft
      /\ b.imported = a.imported /\ b.unapplied = a.unapplied
  BY <1>0, <1>1, <1>2 DEF Program, asked
<1> HIDE DEF b
<1>4. \A i \in 1..Len(asked) : AskOK(a, asked[i])
  BY <1>1 DEF Good, Fits, asked
<1>5. Fits(b)
  BY <1>3, <1>4 DEF Good, Fits, AskOK
<1>6. InForce(b)
  BY <1>3 DEF Good, InForce
<1>7. ToBeStarted(b)
  <2>1. \A i \in 1..Len(a.asks) : i \in 1..Len(asked) /\ asked[i] = a.asks[i]
    BY <1>1 DEF asked
  <2> QED  BY <1>3, <2>1 DEF Good, ToBeStarted, Starts
<1> QED  BY <1>5, <1>6, <1>7 DEF Good, b

LEMMA ImportFacts ==
  ASSUME NEW a, Fits(a), NEW taken \in BOOLEAN
  PROVE  LET b == C!rom_import(a, taken) IN
         /\ Fits(b) /\ (InForce(a) => InForce(b))
         /\ ~taken => b = a
         /\ taken => b.bios = TRUE
         /\ a.bios => b.bios
         /\ b.frontend = a.frontend /\ b.store = a.store
         /\ b.running = a.running /\ b.why = a.why
         /\ b.settings = a.settings /\ b.dirty = a.dirty /\ b.draft = a.draft
         /\ b.asks = a.asks /\ b.imported = a.imported /\ b.unapplied = a.unapplied
<1> DEFINE b == C!rom_import(a, taken)
<1>0. a \in Program
  BY DEF Fits
<1>1. /\ b \in Program /\ (~taken => b = a) /\ (taken => b.bios = TRUE) /\ (a.bios => b.bios)
      /\ b.frontend = a.frontend /\ b.store = a.store
      /\ b.running = a.running /\ b.with = a.with /\ b.why = a.why
      /\ b.settings = a.settings /\ b.dirty = a.dirty /\ b.draft = a.draft
      /\ b.asks = a.asks /\ b.imported = a.imported /\ b.unapplied = a.unapplied
  BY <1>0 DEF Program, C!rom_import
<1> HIDE DEF b
<1>2. Fits(b)
  BY <1>1, SameWindows
<1> QED  BY <1>1, <1>2 DEF InForce, b

\* A cartridge that is put into the folder is stored, and may be read again.
LEMMA CartFacts ==
  ASSUME NEW a, Fits(a), NEW cart \in Carts
  PROVE  Fits(C!import_cart(a, cart))
<1> DEFINE s == [a.store EXCEPT !.cart = cart]
           l == a.lost \ {cart}
           c == [a EXCEPT !.store = s]
           b == [c EXCEPT !.lost = l]
<1>0. a \in Program /\ s \in Stored /\ l \in SUBSET Carts
  BY DEF Fits, Program, Stored
<1>1. C!import_cart(a, cart) = b
  BY <1>0 DEF C!import_cart, Program
<1> HIDE DEF s, l
<1>2. /\ b \in Program /\ b.frontend = a.frontend /\ b.bios = a.bios
      /\ b.settings = a.settings /\ b.dirty = a.dirty /\ b.draft = a.draft /\ b.asks = a.asks
  BY <1>0 DEF Program
<1> HIDE DEF b
<1>3. Fits(b)
  BY <1>2, SameWindows
<1> QED  BY <1>1, <1>3

\* The questions there are.
LEMMA Questions ==
  /\ \A what \in {"offer", "chooser", "result", "loaded"}, owner \in {"main", "settings"} :
       LET q == C!Question(what, owner) IN
         /\ q \in Asked /\ q.what = what /\ q.owner = owner
         /\ ~q.was_missing /\ ~q.taken /\ q.then = "apply"
  /\ \A q \in Asked, then \in {"apply", "later", "retry"} :
       LET p == [q EXCEPT !.then = then] IN
         /\ p \in Asked /\ p.what = q.what /\ p.owner = q.owner /\ p.then = then
         /\ p.was_missing = q.was_missing /\ p.taken = q.taken
  /\ \A q \in Asked, missing \in BOOLEAN :
       LET p == [q EXCEPT !.was_missing = missing] IN
         /\ p \in Asked /\ p.what = q.what /\ p.owner = q.owner /\ p.then = q.then
         /\ p.was_missing = missing /\ p.taken = q.taken
  /\ \A q \in Asked, retry \in Carts \cup {None, "rom"} :
       LET p == [q EXCEPT !.retry = retry] IN
         /\ p \in Asked /\ p.what = q.what /\ p.owner = q.owner /\ p.then = q.then
         /\ p.was_missing = q.was_missing /\ p.taken = q.taken
  /\ \A q \in Asked, taken \in BOOLEAN :
       LET p == [q EXCEPT !.taken = taken] IN
         /\ p \in Asked /\ p.what = q.what /\ p.owner = q.owner /\ p.then = q.then
         /\ p.was_missing = q.was_missing /\ p.taken = taken
BY DEF C!Question, Asked

LEMMA OfferFacts ==
  ASSUME NEW a, Good(a)
  PROVE  Good(C!Ask(a, C!Question("offer", "main")))
<1> DEFINE q == C!Question("offer", "main")
<1>1. /\ q \in Asked /\ q.what = "offer" /\ q.owner = "main" /\ q.then = "apply"
  BY Questions
<1> HIDE DEF q
<1>2. AskOK(a, q)
  BY <1>1 DEF AskOK
<1>3. Good(C!Ask(a, q))
  BY <1>1, <1>2, AskFacts
<1> QED  BY <1>3 DEF q

-----------------------------------------------------------------------------
(* GNOME.                                                                  *)

LEMMA GnomePower == ASSUME NEW a, Fits(a) PROVE Good(G!power_cycle(a))
<1>1. Good(C!cycle(a))
  BY CycleFacts
<1>2. G!power_cycle(a) \in {C!cycle(a), C!Ask(C!cycle(a), C!Question("offer", "main"))}
  BY Calls, Asks DEF G!power_cycle, G!show_bios_needed
<1> QED  BY <1>1, <1>2, OfferFacts

LEMMA GnomeImport ==
  ASSUME NEW a, Good(a), NEW taken \in BOOLEAN
  PROVE  Good(G!import_paths(a, taken, TRUE))
<1> DEFINE b == C!rom_import(a, taken)
<1>1. /\ Fits(b) /\ InForce(b) /\ (~taken => b = a) /\ b.running = a.running
  BY ImportFacts DEF Good
<1> HIDE DEF b
<1>2. CASE taken /\ (~a.bios \/ ~a.running)
  <2>1. G!import_paths(a, taken, TRUE) = G!power_cycle(b)
    BY <1>2, Imports DEF G!import_paths, b
  <2> QED  BY <1>1, <2>1, GnomePower
<1>3. CASE ~(taken /\ (~a.bios \/ ~a.running))
  <2>1. G!import_paths(a, taken, TRUE) = b
    BY <1>3, Imports DEF G!import_paths, b
  <2>2. Good(b)
    BY <1>1, <1>3 DEF Good, ToBeStarted
  <2> QED  BY <2>1, <2>2
<1> QED  BY <1>2, <1>3

LEMMA GnomeChosen ==
  ASSUME NEW a, Good(a), a.frontend = "gnome", NEW taken \in BOOLEAN,
         NEW q \in Asked, AskOK(a, q)
  PROVE  Good(G!on_bios_chosen(a, q, taken))
<1> DEFINE b == C!rom_import(a, taken)
<1>1. CASE q.owner = "main"
  <2>1. q.then = "apply"
    BY <1>1 DEF AskOK
  <2>2. G!on_bios_chosen(a, q, taken) = G!import_paths(a, taken, TRUE)
    BY <1>1, <2>1 DEF G!on_bios_chosen, G!on_import_done
  <2> QED  BY <2>2, GnomeImport
<1>2. CASE q.owner # "main"
  <2>0. /\ Fits(b) /\ InForce(b) /\ (~taken => b = a) /\ b.running = a.running
        /\ b.settings = a.settings /\ (taken => b.bios = TRUE)
    BY ImportFacts DEF Good
  <2>1. q.then # "apply"
    BY <1>2 DEF AskOK
  <2>2. G!import_paths(a, taken, q.then = "apply") = b
    BY <2>1, Imports DEF G!import_paths
  <2> HIDE DEF b
  <2>3. b \in Program
    BY <2>0 DEF Fits
  <2>4. CASE q.owner = "settings"
    <3> DEFINE d == (b.dirty \/ taken)
               c == [b EXCEPT !.dirty = d]
    <3>1. G!on_bios_chosen(a, q, taken) = c
      BY <2>2, <2>4, <2>3 DEF G!on_bios_chosen, G!on_import_done, Program
    <3>2. d \in BOOLEAN /\ (taken => d) /\ (b.dirty => d)
      BY <2>3 DEF Program
    <3>3. b.settings
      BY <2>0, <2>4 DEF AskOK
    <3>4. /\ c \in Program /\ c.dirty = d /\ c.frontend = b.frontend /\ c.bios = b.bios
          /\ c.store = b.store /\ c.running = b.running /\ c.with = b.with /\ c.why = b.why
          /\ c.settings = b.settings /\ c.draft = b.draft /\ c.asks = b.asks
          /\ c.imported = b.imported /\ c.unapplied = b.unapplied
      <4> HIDE DEF d
      <4> QED  BY <2>3, <3>2 DEF Program
    <3> HIDE DEF c, d
    <3>5. Fits(c)
      BY <2>0, <3>3, <3>4 DEF Fits, AskOK
    <3>6. InForce(c)
      BY <2>0, <3>2, <3>4 DEF InForce
    <3>7. ToBeStarted(c)
      BY <2>0, <3>2, <3>4 DEF Good, ToBeStarted, Starts
    <3> QED  BY <3>1, <3>5, <3>6, <3>7 DEF Good
  <2>5. CASE q.owner = "gone"
    <3> DEFINE d == (b.unapplied \/ (taken /\ ~b.running))
               c == [b EXCEPT !.unapplied = d]
    <3>1. G!on_bios_chosen(a, q, taken) = c
      BY <2>2, <2>5, <2>3 DEF G!on_bios_chosen, G!on_import_done, Program
    <3>2. d \in BOOLEAN /\ (taken /\ ~b.running => d) /\ (b.unapplied => d)
      BY <2>3 DEF Program
    <3>4. /\ c \in Program /\ c.dirty = b.dirty /\ c.frontend = b.frontend /\ c.bios = b.bios
          /\ c.store = b.store /\ c.running = b.running /\ c.with = b.with /\ c.why = b.why
          /\ c.settings = b.settings /\ c.draft = b.draft /\ c.asks = b.asks
          /\ c.imported = b.imported /\ c.unapplied = d
      <4> HIDE DEF d
      <4> QED  BY <2>3, <3>2 DEF Program
    <3> HIDE DEF c, d
    <3>5. Fits(c)
      BY <2>0, <3>4, SameWindows
    <3>6. InForce(c)
      BY <2>0, <3>4 DEF InForce
    <3>7. ToBeStarted(c)
      BY <2>0, <3>2, <3>4 DEF Good, ToBeStarted, Starts
    <3> QED  BY <3>1, <3>5, <3>6, <3>7 DEF Good
  <2> QED  BY <1>2, <2>4, <2>5 DEF Asked
<1> QED  BY <1>1, <1>2

LEMMA GnomeChooser ==
  ASSUME NEW a, Good(a), a.frontend = "gnome",
         NEW owner \in {"main", "settings"}, NEW then \in {"apply", "later"},
         then = "apply" <=> owner = "main", owner = "settings" => a.settings
  PROVE  Good(G!coleco_window_import_bios(a, owner, then))
<1> DEFINE q == [C!Question("chooser", owner) EXCEPT !.then = then]
<1>1. /\ q \in Asked /\ q.what = "chooser" /\ q.owner = owner /\ q.then = then
  <2> DEFINE p == C!Question("chooser", owner)
  <2>1. p \in Asked /\ p.what = "chooser" /\ p.owner = owner
    BY Questions
  <2>2. q = [p EXCEPT !.then = then]
    OBVIOUS
  <2> HIDE DEF p, q
  <2> QED  BY <2>1, <2>2 DEF Asked
<1>2. G!coleco_window_import_bios(a, owner, then) = C!Ask(a, q)
  BY Asks DEF G!coleco_window_import_bios
<1> HIDE DEF q
<1>3. AskOK(a, q)
  BY <1>1 DEF AskOK
<1> QED  BY <1>1, <1>2, <1>3, AskFacts

LEMMA GnomeCart ==
  ASSUME NEW a, Good(a), NEW cart \in Carts
  PROVE  Good(G!load_cart(a, cart))
BY CartFacts, GnomePower, Imports DEF Good, G!load_cart

\* A start from the stored settings, or for a cartridge that was named.
LEMMA Named ==
  ASSUME NEW store \in Stored, NEW cart \in Carts \cup {None, "rom"}
  PROVE  LET o == [store EXCEPT !.cart = cart] IN
         o \in Stored /\ AsStored(o, store) /\ AsStored(store, store)
BY DEF Stored, AsStored

LEMMA GnomeActivate ==
  ASSUME NEW a, Good(a), NEW arg \in Carts \cup {None}, NEW rom \in BOOLEAN
  PROVE  Good(G!on_activate(a, arg, rom))
<1> DEFINE o == IF rom \/ arg = None THEN a.store ELSE [a.store EXCEPT !.cart = arg]
           b == C!start(a, o)
           c == IF rom THEN G!load_rom(b, TRUE) ELSE b
<1>1. o \in Stored /\ AsStored(o, a.store)
  BY Named DEF Good, Fits, Program
<1>2. Good(b)
  <2> HIDE DEF o
  <2> QED  BY <1>1, StartFacts DEF Good
<1>3. G!on_activate(a, arg, rom) = G!bios_gate_idle(c)
  BY Calls DEF G!on_activate
<1> HIDE DEF b
<1>4. Good(c)
  BY <1>2, GnomeImport DEF G!load_rom
<1> HIDE DEF c
<1> QED  BY <1>3, <1>4, OfferFacts, Asks DEF G!bios_gate_idle, G!show_bios_needed

-----------------------------------------------------------------------------
(* The settings windows.                                                   *)

\* A change that is stored marks what runs as to be started again.
LEMMA ChangeFacts ==
  ASSUME NEW a, NEW b, Good(a), b \in Program,
         b.frontend = a.frontend, b.bios = a.bios, b.running = a.running, b.with = a.with,
         b.why = a.why, b.asks = a.asks, b.imported = a.imported, b.unapplied = a.unapplied,
         a.settings => b.settings, b.settings => b.draft \in Stored,
         a.dirty => b.dirty, b.dirty => b.settings,
         b.dirty \/ /\ b.store.option = a.store.option /\ b.store.external = a.store.external
                    /\ b.store.address = a.store.address
  PROVE  Good(b)
<1>1. Fits(b)
  BY DEF Good, Fits, AskOK
<1>2. InForce(b)
  BY DEF Good, InForce, AsStored
<1>3. ToBeStarted(b)
  BY DEF Good, ToBeStarted, Starts
<1> QED  BY <1>1, <1>2, <1>3 DEF Good

LEMMA OpenFacts ==
  ASSUME NEW a, Good(a), NEW draft \in Stored
  PROVE  Good([a EXCEPT !.settings = TRUE, !.draft = draft])
<1> DEFINE b == [a EXCEPT !.settings = TRUE, !.draft = draft]
<1>0. a \in Program
  BY DEF Good, Fits
<1>1. /\ b \in Program /\ b.settings = TRUE /\ b.draft = draft /\ b.dirty = a.dirty
      /\ b.frontend = a.frontend /\ b.bios = a.bios /\ b.running = a.running /\ b.with = a.with
      /\ b.why = a.why /\ b.asks = a.asks /\ b.imported = a.imported
      /\ b.unapplied = a.unapplied /\ b.store = a.store
  BY <1>0 DEF Program
<1> HIDE DEF b
<1>2. Good(b)
  BY <1>1, ChangeFacts
<1> QED  BY <1>2 DEF b

\* What the settings show may change without being stored.
LEMMA DraftFacts ==
  ASSUME NEW a, Good(a), NEW draft \in Stored
  PROVE  LET b == [a EXCEPT !.draft = draft] IN
         /\ Good(b) /\ b.draft = draft /\ b.store = a.store /\ b.settings = a.settings
         /\ b.dirty = a.dirty /\ b.frontend = a.frontend
<1> DEFINE b == [a EXCEPT !.draft = draft]
<1>0. a \in Program
  BY DEF Good, Fits
<1>1. /\ b \in Program /\ b.settings = a.settings /\ b.draft = draft /\ b.dirty = a.dirty
      /\ b.frontend = a.frontend /\ b.bios = a.bios /\ b.running = a.running /\ b.with = a.with
      /\ b.why = a.why /\ b.asks = a.asks /\ b.imported = a.imported
      /\ b.unapplied = a.unapplied /\ b.store = a.store
  BY <1>0 DEF Program
<1> HIDE DEF b
<1>2. Good(b)
  BY <1>0, <1>1, ChangeFacts DEF Good, Fits
<1> QED  BY <1>1, <1>2 DEF b

\* Something is stored, and is to be applied if it is not what was stored.
LEMMA StoreFacts ==
  ASSUME NEW a, Good(a), a.settings, NEW s \in Stored, NEW d \in BOOLEAN, NEW draft \in Stored,
         a.dirty => d,
         d \/ /\ s.option = a.store.option /\ s.external = a.store.external
              /\ s.address = a.store.address
  PROVE  LET b == [[[a EXCEPT !.store = s] EXCEPT !.dirty = d] EXCEPT !.draft = draft] IN
         /\ Good(b) /\ b.settings = a.settings /\ b.frontend = a.frontend /\ b.asks = a.asks
         /\ b.dirty = d
<1> DEFINE b == [[[a EXCEPT !.store = s] EXCEPT !.dirty = d] EXCEPT !.draft = draft]
<1>0. a \in Program
  BY DEF Good, Fits
<1>1. /\ b \in Program /\ b.settings = a.settings /\ b.draft = draft /\ b.dirty = d
      /\ b.frontend = a.frontend /\ b.bios = a.bios /\ b.running = a.running /\ b.with = a.with
      /\ b.why = a.why /\ b.asks = a.asks /\ b.imported = a.imported
      /\ b.unapplied = a.unapplied /\ b.store = s
  BY <1>0 DEF Program
<1> HIDE DEF b
<1>2. Good(b)
  BY <1>0, <1>1, ChangeFacts DEF Good, Fits
<1> QED  BY <1>1, <1>2 DEF b

\* A settings window that no question belongs to closes.
LEMMA CloseFacts ==
  ASSUME NEW a, Fits(a), NEW draft \in Stored \cup {None},
         \A i \in 1..Len(a.asks) : a.asks[i].owner # "settings"
  PROVE  LET b == [a EXCEPT !.settings = FALSE, !.dirty = FALSE, !.draft = draft] IN
         Fits(b) /\ (Good(a) /\ ~a.dirty => Good(b))
<1> DEFINE b == [a EXCEPT !.settings = FALSE, !.dirty = FALSE, !.draft = draft]
<1>0. a \in Program
  BY DEF Fits
<1>1. /\ b \in Program /\ b.settings = FALSE /\ b.dirty = FALSE
      /\ b.frontend = a.frontend /\ b.bios = a.bios /\ b.running = a.running /\ b.with = a.with
      /\ b.why = a.why /\ b.asks = a.asks /\ b.imported = a.imported
      /\ b.unapplied = a.unapplied /\ b.store = a.store
  BY <1>0 DEF Program
<1> HIDE DEF b
<1>2. Fits(b)
  BY <1>1 DEF Fits, AskOK
<1>3. ASSUME Good(a), ~a.dirty PROVE Good(b)
  <2>1. InForce(b)
    BY <1>1, <1>3 DEF Good, InForce
  <2>2. ToBeStarted(b)
    BY <1>1, <1>3 DEF Good, ToBeStarted, Starts
  <2> QED  BY <1>2, <2>1, <2>2 DEF Good
<1> QED  BY <1>2, <1>3 DEF b


LEMMA Edited ==
  ASSUME NEW s \in Stored
  PROVE  /\ \A text \in {"here", "there", "junk"} :
              LET t == [s EXCEPT !.address = text] IN
                t \in Stored /\ t.address = text /\ t.option = s.option /\ t.external = s.external
         /\ \A cart \in Carts \cup {None, "rom"} :
              LET t == [s EXCEPT !.cart = cart] IN
                /\ t \in Stored /\ t.address = s.address
                /\ t.option = s.option /\ t.external = s.external
         /\ \A on \in {0, 1} : [s EXCEPT !.option = on] \in Stored
         /\ \A on \in BOOLEAN : [s EXCEPT !.external = on] \in Stored
BY DEF Stored

LEMMA GnomeSwitch ==
  ASSUME NEW a, Good(a), a.settings, NEW s \in Stored
  PROVE  Good(G!switch_changed(a, s))
<1> DEFINE stored == [s EXCEPT !.address = a.store.address, !.cart = a.store.cart]
           d == (a.dirty \/ stored # a.store)
<1>0. a \in Program /\ a.store \in Stored /\ a.dirty \in BOOLEAN
  BY DEF Good, Fits, Program
<1>1. stored \in Stored
  BY <1>0 DEF Stored
<1>2. G!switch_changed(a, s) = [[[a EXCEPT !.store = stored] EXCEPT !.dirty = d] EXCEPT !.draft = s]
  <2> HIDE DEF stored
  <2> QED  BY <1>0 DEF G!switch_changed, Program, stored
<1>3. /\ d \in BOOLEAN /\ (a.dirty => d)
      /\ d \/ /\ stored.option = a.store.option /\ stored.external = a.store.external
              /\ stored.address = a.store.address
  <2> HIDE DEF stored
  <2> QED  BY <1>0
<1> HIDE DEF stored, d
<1>4. Good([[[a EXCEPT !.store = stored] EXCEPT !.dirty = d] EXCEPT !.draft = s])
  BY <1>1, <1>3, StoreFacts
<1> QED  BY <1>2, <1>4

LEMMA GnomeAddress ==
  ASSUME NEW a, Good(a), a.settings, NEW text \in {"here", "there", "junk"}
  PROVE  Good(G!addr_changed(a, text))
<1> DEFINE draft == [a.draft EXCEPT !.address = text]
           s == [a.store EXCEPT !.address = text]
           b == [a EXCEPT !.draft = draft]
<1>0. a \in Program /\ a.store \in Stored /\ a.draft \in Stored
  BY DEF Good, Fits, Program
<1>1. draft \in Stored /\ s \in Stored
  BY <1>0, Edited
<1>2. /\ [a EXCEPT !.draft.address = text] = b
      /\ [b EXCEPT !.store.address = text, !.dirty = TRUE]
           = [[[a EXCEPT !.store = s] EXCEPT !.dirty = TRUE] EXCEPT !.draft = draft]
  BY <1>0 DEF Program
<1>3. G!addr_changed(a, text) \in
        {b, [[[a EXCEPT !.store = s] EXCEPT !.dirty = TRUE] EXCEPT !.draft = draft]}
  BY <1>2 DEF G!addr_changed
<1> HIDE DEF draft, s
<1>4. Good(b)
  BY <1>1, DraftFacts
<1>5. Good([[[a EXCEPT !.store = s] EXCEPT !.dirty = TRUE] EXCEPT !.draft = draft])
  BY <1>1, StoreFacts
<1> QED  BY <1>3, <1>4, <1>5

\* The chooser that was over the settings has nobody left to tell.
LEMMA GnomeClosed ==
  ASSUME NEW a, Good(a), a.frontend = "gnome"
  PROVE  Good(G!prefs_closed(a))
<1> DEFINE gone(q) == [q EXCEPT !.owner = IF @ = "settings" THEN "gone" ELSE @]
           asks == [i \in DOMAIN a.asks |-> gone(a.asks[i])]
           b == [a EXCEPT !.settings = FALSE, !.dirty = FALSE, !.draft = None, !.asks = asks]
<1>0. a \in Program /\ a.asks \in Seq(Asked) /\ a.dirty \in BOOLEAN
  BY DEF Good, Fits, Program
<1>1. ASSUME NEW q \in Asked
      PROVE  /\ gone(q) \in Asked /\ gone(q).owner # "settings" /\ gone(q).what = q.what
             /\ gone(q).then = q.then /\ gone(q).was_missing = q.was_missing
             /\ gone(q).owner = "main" <=> q.owner = "main"
  BY DEF Asked
<1> HIDE DEF gone
<1>2. /\ asks \in Seq(Asked) /\ Len(asks) = Len(a.asks)
      /\ \A i \in 1..Len(a.asks) : a.asks[i] \in Asked /\ asks[i] = gone(a.asks[i])
  <2> HIDE DEF Asked
  <2>1. DOMAIN a.asks = 1..Len(a.asks) /\ Len(a.asks) \in Nat
        /\ \A i \in 1..Len(a.asks) : a.asks[i] \in Asked
    BY <1>0
  <2>2. asks = [i \in 1..Len(a.asks) |-> gone(a.asks[i])]
    BY <2>1
  <2> HIDE DEF asks
  <2>3. asks \in Seq(Asked) /\ Len(asks) = Len(a.asks)
    BY <1>1, <2>1, <2>2
  <2> QED  BY <2>1, <2>2, <2>3
<1>3. G!prefs_closed(a) = IF a.dirty THEN G!power_cycle(b) ELSE b
  BY <1>0 DEF G!prefs_closed, G!restart_session, gone, Program
<1> HIDE DEF asks
<1>4. /\ b \in Program /\ b.settings = FALSE /\ b.dirty = FALSE /\ b.asks = asks
      /\ b.frontend = a.frontend /\ b.bios = a.bios /\ b.running = a.running /\ b.with = a.with
      /\ b.why = a.why /\ b.imported = a.imported
      /\ b.unapplied = a.unapplied /\ b.store = a.store
  <2> HIDE DEF Asked
  <2> QED  BY <1>0, <1>2 DEF Program
<1> HIDE DEF b
<1>5. ASSUME NEW i \in 1..Len(asks) PROVE AskOK(b, asks[i])
  <2>1. i \in 1..Len(a.asks) /\ asks[i] = gone(a.asks[i]) /\ a.asks[i] \in Asked
    BY <1>2
  <2>2. AskOK(a, a.asks[i])
    BY <2>1 DEF Good, Fits
  <2> QED  BY <1>1, <1>4, <2>1, <2>2 DEF AskOK
<1>6. Fits(b)
  BY <1>4, <1>5 DEF Fits
<1>7. CASE a.dirty
  BY <1>3, <1>6, <1>7, GnomePower
<1>8. CASE ~a.dirty
  <2>1. InForce(b)
    BY <1>4, <1>8 DEF Good, InForce
  <2>2. ToBeStarted(b)
    BY <1>4, <1>8 DEF Good, ToBeStarted
  <2> QED  BY <1>3, <1>6, <1>8, <2>1, <2>2 DEF Good
<1> QED  BY <1>7, <1>8

-----------------------------------------------------------------------------
(* KDE.                                                                    *)

LEMMA KdeOffer ==
  ASSUME NEW a, Good(a), NEW retry \in Carts \cup {None, "rom"}
  PROVE  Good(K!explainRefusal(a, retry))
<1> DEFINE p == C!Question("offer", "main")
           q == [p EXCEPT !.retry = retry]
<1>1. p \in Asked /\ p.what = "offer" /\ p.owner = "main" /\ p.then = "apply"
  BY Questions
<1>2. K!explainRefusal(a, retry) \in {a, C!Ask(a, q)}
  BY Asks DEF K!explainRefusal
<1> HIDE DEF p
<1>3. q \in Asked /\ q.what = "offer" /\ q.owner = "main" /\ q.then = "apply"
  BY <1>1 DEF Asked
<1> HIDE DEF q
<1>4. AskOK(a, q)
  BY <1>3 DEF AskOK
<1>5. Good(C!Ask(a, q))
  BY <1>3, <1>4, AskFacts
<1> QED  BY <1>2, <1>5

\* Whether it starts the stored cartridge or one that was named.
LEMMA KdeStart ==
  ASSUME NEW a, Fits(a), InForce(a), NEW cart \in Carts \cup {None, "rom"}
  PROVE  Good(K!startConsole(a, cart))
<1> DEFINE o == IF cart = None THEN a.store ELSE [a.store EXCEPT !.cart = cart]
<1>1. o \in Stored /\ AsStored(o, a.store)
  BY Named DEF Fits, Program
<1>2. K!startConsole(a, cart) = K!explainRefusal(C!start(a, o), cart)
  BY Calls DEF K!startConsole
<1> HIDE DEF o
<1>3. Good(C!start(a, o))
  BY <1>1, StartFacts
<1> QED  BY <1>2, <1>3, KdeOffer

LEMMA KdeRestart ==
  ASSUME NEW a, Fits(a)
  PROVE  Good(K!startConsole(C!stop(a), None))
BY StopFacts, KdeStart

LEMMA KdeCart ==
  ASSUME NEW a, Good(a), NEW cart \in Carts
  PROVE  Good(K!load_cart(a, cart))
BY CartFacts, KdeRestart, Imports, Calls DEF Good, K!load_cart

LEMMA KdeMain ==
  ASSUME NEW a, Good(a), NEW arg \in Carts \cup {None}, NEW rom \in BOOLEAN
  PROVE  Good(K!main(a, arg, rom))
BY KdeStart DEF Good, K!main

\* Whoever had no BIOS when the files were chosen starts now that there is one.
LEMMA KdeTaken ==
  ASSUME NEW a, Good(a), NEW missing
  PROVE  Good(K!afterImport(C!rom_import(a, TRUE), missing))
<1> DEFINE b == C!rom_import(a, TRUE)
<1>1. Fits(b) /\ InForce(b) /\ b.running \in BOOLEAN
  BY ImportFacts DEF Good, Fits, Program
<1> HIDE DEF b
<1>2. Good(K!startConsole(b, None)) /\ Good(K!startConsole(C!stop(b), None))
  BY <1>1, KdeStart, KdeRestart
<1>3. CASE ~b.running
  BY <1>2, <1>3 DEF K!afterImport, b
<1>4. CASE b.running
  <2>1. Good(b)
    BY <1>1, <1>4 DEF Good, ToBeStarted
  <2>2. CASE missing
    BY <1>2, <1>4, <2>2, Calls DEF K!afterImport, b
  <2>3. CASE ~missing
    BY <1>4, <2>1, <2>3 DEF K!afterImport, b
  <2> QED  BY <2>2, <2>3
<1> QED  BY <1>1, <1>3, <1>4

LEMMA KdeRom ==
  ASSUME NEW a, Good(a), NEW taken \in BOOLEAN
  PROVE  Good(K!load_rom(a, taken))
<1>1. C!rom_import(a, FALSE) = a
  BY ImportFacts DEF Good
<1> QED  BY <1>1, KdeTaken, Imports DEF K!load_rom

LEMMA KdeChosen ==
  ASSUME NEW a, Good(a), a.frontend = "kde", NEW taken \in BOOLEAN,
         NEW q \in Asked, AskOK(a, q)
  PROVE  Good(K!rom_chosen(a, q, taken))
<1> DEFINE b == C!rom_import(a, taken)
<1>0. q.then \in {"apply", "later", "retry"} /\ q.retry \in Carts \cup {None, "rom"}
  BY DEF Asked
<1>1. /\ Fits(b) /\ InForce(b) /\ (~taken => b = a) /\ b.settings = a.settings
      /\ b.running = a.running
  BY ImportFacts DEF Good
<1>2. CASE ~taken
  BY <1>1, <1>2, Imports DEF K!rom_chosen
<1>3. CASE taken /\ q.then = "apply"
  <2>1. K!rom_chosen(a, q, taken) = K!afterImport(C!rom_import(a, TRUE), q.was_missing)
    BY <1>3, Imports DEF K!rom_chosen
  <2> QED  BY <2>1, KdeTaken
<1>4. CASE taken /\ q.then = "retry"
  <2>1. K!rom_chosen(a, q, taken) = K!startConsole(b, q.retry)
    BY <1>4, Imports DEF K!rom_chosen
  <2> HIDE DEF b
  <2> QED  BY <1>0, <1>1, <2>1, KdeStart
<1>5. CASE taken /\ q.then = "later"
  <2> DEFINE c == [b EXCEPT !.dirty = TRUE]
  <2>1. K!rom_chosen(a, q, taken) = c
    BY <1>5, Imports DEF K!rom_chosen
  <2>2. b.settings
    BY <1>1, <1>5 DEF AskOK, Asked
  <2> HIDE DEF b
  <2>3. /\ c \in Program /\ c.dirty = TRUE /\ c.settings = b.settings /\ c.draft = b.draft
        /\ c.frontend = b.frontend /\ c.bios = b.bios /\ c.asks = b.asks
    BY <1>1 DEF Fits, Program
  <2> HIDE DEF c
  <2>4. Fits(c)
    BY <1>1, <2>2, <2>3 DEF Fits, AskOK
  <2>5. InForce(c) /\ ToBeStarted(c)
    BY <2>3 DEF InForce, ToBeStarted
  <2> QED  BY <2>1, <2>4, <2>5 DEF Good
<1> QED  BY <1>0, <1>2, <1>3, <1>4, <1>5

LEMMA KdeChooser ==
  ASSUME NEW a, Good(a), a.frontend = "kde", NEW retry \in Carts \cup {None, "rom"},
         NEW owner \in {"main", "settings"}, NEW then \in {"apply", "later", "retry"},
         then = "later" => owner = "settings", owner = "settings" => a.settings
  PROVE  Good(K!importRoms(a, owner, then, retry))
<1> DEFINE p == C!Question("chooser", owner)
           q == [p EXCEPT !.was_missing = ~a.bios, !.then = then, !.retry = retry]
<1>1. p \in Asked /\ p.what = "chooser" /\ p.owner = owner
  BY Questions
<1>2. K!importRoms(a, owner, then, retry) = C!Ask(a, q)
  BY Asks DEF K!importRoms
<1> HIDE DEF p
<1>3. q \in Asked /\ q.what = "chooser" /\ q.owner = owner /\ q.then = then
  BY <1>1 DEF Asked
<1> HIDE DEF q
<1>4. AskOK(a, q)
  BY <1>3 DEF AskOK
<1> QED  BY <1>2, <1>3, <1>4, AskFacts

LEMMA KdeClosed ==
  ASSUME NEW a, Good(a), a.asks = <<>>, a.settings
  PROVE  Good(K!accepted(a)) /\ Good(K!rejected(a))
<1>0. a \in Program /\ a.draft \in Stored /\ a.store \in Stored
  BY DEF Good, Fits, Program
<1>1. ASSUME NEW b, Fits(b), b.asks = <<>>
      PROVE  Fits(K!closed(b)) /\ (Good(b) /\ ~b.dirty => Good(K!closed(b)))
  <2>1. \A i \in 1..Len(b.asks) : b.asks[i].owner # "settings"
    BY <1>1
  <2>2. LET c == [b EXCEPT !.settings = FALSE, !.dirty = FALSE, !.draft = None] IN
        Fits(c) /\ (Good(b) /\ ~b.dirty => Good(c))
    BY <1>1, <2>1, CloseFacts
  <2> QED  BY <2>2 DEF K!closed
<1>2. Good(K!rejected(a))
  <2>1. Fits(K!closed(a)) /\ (~a.dirty => Good(K!closed(a)))
    BY <1>1 DEF Good
  <2>2. CASE a.dirty
    BY <2>1, <2>2, KdeRestart, Calls DEF K!rejected, K!restartSession
  <2>3. CASE ~a.dirty
    BY <2>1, <2>3 DEF K!rejected
  <2> QED  BY <2>2, <2>3
<1>3. Good(K!commit(a))
  <2> DEFINE stored == [a.draft EXCEPT !.cart = a.store.cart]
             c == [a EXCEPT !.store = stored]
  <2>1. stored \in Stored
    BY <1>0 DEF Stored
  <2>2. K!commit(a) = IF a.dirty \/ stored # a.store THEN K!restartSession(K!closed(c))
                      ELSE K!closed(c)
    BY DEF K!commit
  <2> HIDE DEF stored
  <2>3. /\ c \in Program /\ c.settings = a.settings /\ c.dirty = a.dirty /\ c.draft = a.draft
        /\ c.frontend = a.frontend /\ c.bios = a.bios /\ c.asks = a.asks
        /\ stored = a.store => c = a
    BY <1>0, <2>1 DEF Program
  <2> HIDE DEF c
  <2>4. Fits(c)
    BY <2>3, SameWindows DEF Good
  <2>5. Fits(K!closed(c)) /\ (Good(c) /\ ~c.dirty => Good(K!closed(c)))
    BY <1>1, <2>3, <2>4
  <2>6. CASE a.dirty \/ stored # a.store
    BY <2>2, <2>5, <2>6, KdeRestart, Calls DEF K!restartSession
  <2>7. CASE ~(a.dirty \/ stored # a.store)
    BY <2>2, <2>3, <2>5, <2>7
  <2> QED  BY <2>6, <2>7
<1> QED  BY <1>2, <1>3 DEF K!accepted

-----------------------------------------------------------------------------
(* macOS.                                                                  *)

LEMMA MacReport == ASSUME NEW a, Good(a) PROVE Good(M!reportRefusal(a))
BY OfferFacts, Asks DEF M!reportRefusal

LEMMA MacImport ==
  ASSUME NEW a, Good(a), NEW taken \in BOOLEAN
  PROVE  Good(M!importRomPaths(a, taken))
<1> DEFINE b == C!rom_import(a, taken)
<1>1. /\ Fits(b) /\ InForce(b) /\ (~taken => b = a) /\ b.running = a.running
  BY ImportFacts DEF Good
<1>2. M!importRomPaths(a, taken) = IF taken /\ (~a.bios \/ ~a.running) THEN C!cycle(b) ELSE b
  BY Imports, Calls DEF M!importRomPaths
<1> HIDE DEF b
<1>3. CASE taken /\ (~a.bios \/ ~a.running)
  BY <1>1, <1>2, <1>3, CycleFacts
<1>4. CASE ~(taken /\ (~a.bios \/ ~a.running))
  <2>1. Good(b)
    BY <1>1, <1>4 DEF Good, ToBeStarted
  <2> QED  BY <1>2, <1>4, <2>1
<1> QED  BY <1>3, <1>4

LEMMA MacCart ==
  ASSUME NEW a, Good(a), NEW cart \in Carts
  PROVE  Good(M!load_cart(a, cart))
BY CartFacts, CycleFacts, MacReport, Imports, Calls DEF Good, M!load_cart

LEMMA MacLaunch ==
  ASSUME NEW a, Good(a), NEW arg \in Carts \cup {None}, NEW rom \in BOOLEAN
  PROVE  Good(M!applicationDidFinishLaunching(a, arg, rom))
<1> DEFINE cart == IF rom THEN "rom" ELSE arg
           o == IF cart = None THEN a.store ELSE [a.store EXCEPT !.cart = cart]
<1>1. cart \in Carts \cup {None, "rom"}
  OBVIOUS
<1>2. M!applicationDidFinishLaunching(a, arg, rom) = M!reportRefusal(C!start(a, o))
  BY Calls DEF M!applicationDidFinishLaunching
<1> HIDE DEF cart
<1>3. o \in Stored /\ AsStored(o, a.store)
  BY <1>1, Named DEF Good, Fits, Program
<1> HIDE DEF o
<1>4. Good(C!start(a, o))
  BY <1>3, StartFacts DEF Good
<1> QED  BY <1>2, <1>4, MacReport

LEMMA MacPanel ==
  ASSUME NEW a, Good(a), a.frontend = "macos", NEW owner \in {"main", "settings"},
         owner = "settings" => a.settings
  PROVE  Good(M!importRomsFromPanel(a, owner))
<1> DEFINE q == C!Question("chooser", owner)
<1>1. q \in Asked /\ q.what = "chooser" /\ q.owner = owner /\ q.then = "apply"
  BY Questions
<1>2. M!importRomsFromPanel(a, owner) = C!Ask(a, q)
  BY Asks DEF M!importRomsFromPanel
<1> HIDE DEF q
<1>3. AskOK(a, q)
  BY <1>1 DEF AskOK
<1> QED  BY <1>1, <1>2, <1>3, AskFacts

LEMMA MacOpen ==
  ASSUME NEW a, Good(a)
  PROVE  Good(M!showSettings(a))
<1> DEFINE draft == IF a.draft = None THEN a.store ELSE a.draft
<1>0. a \in Program /\ draft \in Stored
  BY DEF Good, Fits, Program
<1>1. M!showSettings(a) = [a EXCEPT !.settings = TRUE, !.draft = draft]
  BY <1>0, Calls DEF M!showSettings, Program
<1> HIDE DEF draft
<1> QED  BY <1>0, <1>1, OpenFacts

LEMMA MacChange ==
  ASSUME NEW a, Good(a), a.settings, NEW s \in Stored
  PROVE  Good(M!settingChanged(a, s))
<1> DEFINE stored == [a.store EXCEPT !.option = s.option, !.external = s.external]
<1>0. a \in Program /\ a.store \in Stored
  BY DEF Good, Fits, Program
<1>1. stored \in Stored
  BY <1>0 DEF Stored
<1>2. M!settingChanged(a, s) = [[[a EXCEPT !.store = stored] EXCEPT !.dirty = TRUE] EXCEPT !.draft = s]
  BY <1>0 DEF M!settingChanged, Program
<1> HIDE DEF stored
<1>3. Good([[[a EXCEPT !.store = stored] EXCEPT !.dirty = TRUE] EXCEPT !.draft = s])
  BY <1>1, StoreFacts
<1> QED  BY <1>2, <1>3

LEMMA MacAddress ==
  ASSUME NEW a, Good(a), a.settings
  PROVE  LET b == M!externalAddrChanged(a) IN
         Good(b) /\ b.asks = a.asks
<1> DEFINE draft == a.draft
           s == [a.store EXCEPT !.address = draft.address]
           b == [[[a EXCEPT !.store = s] EXCEPT !.dirty = TRUE] EXCEPT !.draft = draft]
<1>0. a \in Program /\ a.store \in Stored /\ draft \in Stored
  BY DEF Good, Fits, Program
<1>1. s \in Stored
  BY <1>0 DEF Stored
<1>2. M!externalAddrChanged(a) \in {a, b}
  BY <1>0 DEF M!externalAddrChanged, Program
<1> HIDE DEF s, draft
<1>3. Good(b)
  BY <1>0, <1>1, StoreFacts
<1>4. b.asks = a.asks
  BY <1>0 DEF Program
<1> HIDE DEF b
<1> QED  BY <1>2, <1>3, <1>4

LEMMA MacClosed ==
  ASSUME NEW a, Good(a), a.settings, a.asks = <<>>, NEW editing \in BOOLEAN
  PROVE  Good(M!windowWillClose(a, editing))
<1> DEFINE b == IF editing THEN M!externalAddrChanged(a) ELSE a
           c == [b EXCEPT !.settings = FALSE, !.dirty = FALSE, !.draft = b.draft]
<1>1. Good(b) /\ b.asks = <<>>
  <2>1. LET d == M!externalAddrChanged(a) IN Good(d) /\ d.asks = a.asks
    BY MacAddress
  <2> QED  BY <2>1
<1> HIDE DEF b
<1>2. Fits(b) /\ b \in Program /\ b.draft \in Stored \cup {None}
      /\ \A i \in 1..Len(b.asks) : b.asks[i].owner # "settings"
  BY <1>1 DEF Good, Fits, Program
<1>3. c = [b EXCEPT !.settings = FALSE, !.dirty = FALSE]
  BY <1>2 DEF Program
<1>4. M!windowWillClose(a, editing) = IF b.dirty THEN C!cycle(c) ELSE c
  BY <1>3, Calls DEF M!windowWillClose, b
<1>5. Fits(c) /\ (Good(b) /\ ~b.dirty => Good(c))
  BY <1>2, CloseFacts
<1> HIDE DEF c
<1> QED  BY <1>1, <1>4, <1>5, CycleFacts

-----------------------------------------------------------------------------
(* Windows.                                                                *)

LEMMA WinReport == ASSUME NEW a, Good(a) PROVE Good(W!report_start_failure(a))
BY OfferFacts, Asks DEF W!report_start_failure

LEMMA WinRestart == ASSUME NEW a, Fits(a) PROVE Good(W!restart_session(a))
BY CycleFacts, WinReport, Calls DEF W!restart_session

LEMMA WinCart ==
  ASSUME NEW a, Good(a), NEW cart \in Carts
  PROVE  Good(W!load_cart(a, cart))
BY CartFacts, WinRestart, Imports DEF Good, W!load_cart

LEMMA WinMain ==
  ASSUME NEW a, Good(a), NEW arg \in Carts \cup {None}, NEW rom \in BOOLEAN
  PROVE  Good(W!WinMain(a, arg, rom))
<1> DEFINE b == C!rom_import(a, TRUE)
           o == IF arg = None THEN a.store ELSE [a.store EXCEPT !.cart = arg]
<1>1. /\ Fits(b) /\ InForce(b) /\ b.store = a.store
  BY ImportFacts DEF Good
<1>2. o \in Stored /\ AsStored(o, a.store) /\ a.store \in Stored /\ AsStored(a.store, b.store)
  BY <1>1, Named DEF Good, Fits, Program
<1>3. W!WinMain(a, arg, rom) = IF rom THEN W!report_start_failure(C!start(b, a.store))
                               ELSE W!report_start_failure(C!start(a, o))
  BY <1>1, Calls, Imports DEF W!WinMain
<1> HIDE DEF b, o
<1>4. Good(C!start(b, a.store)) /\ Good(C!start(a, o))
  BY <1>1, <1>2, StartFacts DEF Good
<1> QED  BY <1>3, <1>4, WinReport

\* A question that starts no console, or that is put up while no console waits.
LEMMA WinChooser ==
  ASSUME NEW a, Good(a), a.frontend = "windows", NEW owner \in {"main", "settings"},
         owner = "settings" => a.settings
  PROVE  Good(W!import_bios(a, owner))
<1> DEFINE d == (a.unapplied \/ \E i \in DOMAIN a.asks :
                   a.imported /\ a.asks[i].what = "result" /\ a.asks[i].was_missing)
           c == [a EXCEPT !.imported = FALSE]
           b == [c EXCEPT !.unapplied = d]
           p == C!Question("chooser", owner)
           q == [p EXCEPT !.was_missing = ~a.bios]
<1>0. a \in Program /\ a.unapplied \in BOOLEAN /\ a.bios \in BOOLEAN
  BY DEF Good, Fits, Program
<1>1. p \in Asked /\ p.what = "chooser" /\ p.owner = owner /\ p.then = "apply"
  BY Questions
<1>2. W!import_bios(a, owner) = C!Ask(b, q)
  BY <1>0, Asks DEF W!import_bios, Program
<1> HIDE DEF p
<1>3. /\ q \in Asked /\ q.what = "chooser" /\ q.owner = owner /\ q.then = "apply"
      /\ q.was_missing = ~a.bios
  BY <1>0, <1>1 DEF Asked
<1> HIDE DEF q
<1>4. /\ d \in BOOLEAN /\ (a.unapplied => d)
      /\ \A i \in 1..Len(a.asks) :
           a.imported /\ a.asks[i].what = "result" /\ a.asks[i].was_missing => d
  <2>1. DOMAIN a.asks = 1..Len(a.asks)
    BY <1>0 DEF Program
  <2> QED  BY <1>0, <2>1
<1> HIDE DEF d
<1>5. /\ b \in Program /\ b.imported = FALSE /\ b.unapplied = d
      /\ b.frontend = a.frontend /\ b.bios = a.bios /\ b.running = a.running /\ b.with = a.with
      /\ b.why = a.why /\ b.asks = a.asks /\ b.settings = a.settings /\ b.dirty = a.dirty
      /\ b.draft = a.draft /\ b.store = a.store
  BY <1>0, <1>4 DEF Program
<1> HIDE DEF b
<1>6. Fits(b)
  BY <1>5, SameWindows DEF Good
<1>7. InForce(b)
  BY <1>5 DEF Good, InForce
<1>8. ToBeStarted(b)
  BY <1>4, <1>5 DEF Good, ToBeStarted, Starts
<1>9. AskOK(b, q)
  BY <1>0, <1>3, <1>5 DEF AskOK
<1>10. Good(C!Ask(b, q))
  BY <1>3, <1>6, <1>7, <1>8, <1>9, AskFacts DEF Good
<1> QED  BY <1>2, <1>10

LEMMA WinOffer ==
  ASSUME NEW a, Good(a), a.frontend = "windows", NEW q
  PROVE  Good(W!offer_taken(a, q))
<1>1. Good(W!import_bios(a, "main"))
  BY WinChooser
<1> QED  BY <1>1 DEF W!offer_taken

\* What came of an import is said, and whoever had no BIOS starts when it has
\* been read.
LEMMA WinSaid ==
  ASSUME NEW a, Fits(a), InForce(a), a.frontend = "windows", NEW q \in Asked, AskOK(a, q),
         ToBeStarted(a) \/ Starts(a, q)
  PROVE  Good(C!Ask(a, q))
<1> DEFINE b == C!Ask(a, q)
           asked == Append(a.asks, q)
<1>0. a \in Program /\ a.asks \in Seq(Asked)
  BY DEF Fits, Program
<1>1. CASE ToBeStarted(a)
  BY <1>1, AskFacts DEF Good
<1>2. CASE Starts(a, q)
  <2>1. /\ asked \in Seq(Asked) /\ Len(asked) = Len(a.asks) + 1
        /\ \A i \in 1..Len(a.asks) : asked[i] = a.asks[i]
        /\ asked[Len(a.asks) + 1] = q /\ Len(a.asks) \in Nat
    <3> HIDE DEF Asked
    <3> QED  BY <1>0, AppendProperties
  <2>2. b = [a EXCEPT !.asks = asked]
    BY DEF C!Ask
  <2> HIDE DEF asked
  <2>3. /\ b \in Program /\ b.asks = asked
        /\ b.frontend = a.frontend /\ b.store = a.store /\ b.bios = a.bios
        /\ b.running = a.running /\ b.with = a.with /\ b.why = a.why
        /\ b.settings = a.settings /\ b.dirty = a.dirty /\ b.draft = a.draft
        /\ b.imported = a.imported /\ b.unapplied = a.unapplied
    BY <1>0, <2>1, <2>2 DEF Program
  <2> HIDE DEF b
  <2>4. \A i \in 1..Len(asked) : AskOK(a, asked[i])
    BY <2>1 DEF Fits
  <2>5. Fits(b)
    BY <2>3, <2>4 DEF Fits, AskOK
  <2>6. InForce(b)
    BY <2>3 DEF InForce
  <2>7. ToBeStarted(b)
    <3>1. Len(asked) \in 1..Len(asked) /\ asked[Len(asked)] = q
      BY <2>1
    <3>2. Starts(b, q)
      BY <1>2, <2>3 DEF Starts
    <3> QED  BY <2>3, <3>1, <3>2 DEF ToBeStarted
  <2> QED  BY <2>5, <2>6, <2>7 DEF Good, b
<1> QED  BY <1>1, <1>2

LEMMA WinRom ==
  ASSUME NEW a, Good(a), a.frontend = "windows", NEW taken \in BOOLEAN
  PROVE  Good(W!load_rom(a, taken))
<1> DEFINE b == C!rom_import(a, taken)
           p == C!Question("loaded", "main")
           q == [p EXCEPT !.was_missing = ~a.bios, !.taken = taken]
<1>0. a \in Program /\ a.bios \in BOOLEAN
  BY DEF Good, Fits, Program
<1>1. p \in Asked /\ p.what = "loaded" /\ p.owner = "main" /\ p.then = "apply"
  BY Questions
<1>2. W!load_rom(a, taken) = C!Ask(b, q)
  BY Asks, Imports DEF W!load_rom
<1> HIDE DEF p
<1>3. /\ q \in Asked /\ q.what = "loaded" /\ q.owner = "main" /\ q.then = "apply"
      /\ q.was_missing = ~a.bios /\ q.taken = taken
  BY <1>0, <1>1 DEF Asked
<1> HIDE DEF q
<1>4. /\ Fits(b) /\ InForce(b) /\ (~taken => b = a)
      /\ b.frontend = a.frontend /\ b.running = a.running /\ b.why = a.why
      /\ b.dirty = a.dirty /\ b.asks = a.asks /\ b.imported = a.imported
      /\ b.unapplied = a.unapplied
  BY ImportFacts DEF Good
<1> HIDE DEF b
<1>5. AskOK(b, q)
  BY <1>3, <1>4 DEF AskOK
<1>6. ToBeStarted(b) \/ Starts(b, q)
  <2>1. CASE ~taken
    BY <1>4, <2>1 DEF Good
  <2>2. CASE taken /\ ~a.bios
    BY <1>3, <2>2 DEF Starts
  <2>3. CASE a.bios
    BY <1>4, <2>3 DEF Good, ToBeStarted, Starts
  <2> QED  BY <2>1, <2>2, <2>3
<1>7. Good(C!Ask(b, q))
  BY <1>3, <1>4, <1>5, <1>6, WinSaid
<1> QED  BY <1>2, <1>7

\* Of a chooser that began before there was a BIOS the message knows so.
LEMMA WinChosen ==
  ASSUME NEW a, Good(a), a.frontend = "windows", NEW taken \in BOOLEAN,
         NEW k \in Asked, AskOK(a, k), k.what = "chooser"
  PROVE  Good(W!pick_each(a, k, taken))
<1> DEFINE c == C!rom_import(a, taken)
           d == c.imported \/ taken
           b == [c EXCEPT !.imported = d]
           p == C!Question("result", k.owner)
           q == [p EXCEPT !.was_missing = k.was_missing]
<1>0. a \in Program /\ k.was_missing \in BOOLEAN /\ k.owner \in {"main", "settings"}
  BY DEF Good, Fits, Program, Asked, AskOK
<1>1. p \in Asked /\ p.what = "result" /\ p.owner = k.owner /\ p.then = "apply"
  BY <1>0, Questions
<1>2. W!pick_each(a, k, taken) = C!Ask(b, q)
  <2>1. c \in Program
    BY ImportFacts DEF Good, Fits
  <2> QED  BY <2>1, Asks, Imports DEF W!pick_each, W!report_roms, W!import_one, Program
<1> HIDE DEF p
<1>3. /\ q \in Asked /\ q.what = "result" /\ q.owner = k.owner /\ q.then = "apply"
      /\ q.was_missing = k.was_missing
  BY <1>0, <1>1 DEF Asked
<1> HIDE DEF q
<1>4. /\ Fits(c) /\ InForce(c) /\ (~taken => c = a) /\ (a.bios => c.bios)
      /\ c.frontend = a.frontend /\ c.running = a.running /\ c.why = a.why
      /\ c.dirty = a.dirty /\ c.asks = a.asks /\ c.imported = a.imported
      /\ c.unapplied = a.unapplied /\ c.settings = a.settings
  BY ImportFacts DEF Good
<1> HIDE DEF c
<1>5. c \in Program /\ c.imported \in BOOLEAN
  BY <1>4 DEF Fits, Program
<1>6. d \in BOOLEAN /\ (c.imported => d) /\ (taken => d)
  BY <1>5
<1> HIDE DEF d
<1>7. /\ b \in Program /\ b.imported = d
      /\ b.frontend = c.frontend /\ b.bios = c.bios /\ b.running = c.running /\ b.with = c.with
      /\ b.why = c.why /\ b.asks = c.asks /\ b.settings = c.settings /\ b.dirty = c.dirty
      /\ b.draft = c.draft /\ b.store = c.store /\ b.unapplied = c.unapplied
  BY <1>5, <1>6 DEF Program
<1> HIDE DEF b
<1>8. Fits(b)
  BY <1>4, <1>7, SameWindows
<1>9. InForce(b)
  BY <1>4, <1>7 DEF InForce
<1>10. AskOK(b, q)
  BY <1>3, <1>4, <1>7 DEF AskOK
<1>11. ToBeStarted(b) \/ Starts(b, q)
  <2>1. CASE taken /\ ~a.bios
    BY <1>3, <1>6, <1>7, <2>1 DEF Starts, AskOK
  <2>2. CASE ~taken \/ a.bios
    BY <1>4, <1>6, <1>7, <2>2 DEF Good, ToBeStarted, Starts
  <2> QED  BY <2>1, <2>2
<1>12. Good(C!Ask(b, q))
  BY <1>3, <1>4, <1>7, <1>8, <1>9, <1>10, <1>11, WinSaid
<1> QED  BY <1>2, <1>12

LEMMA WinSettings ==
  ASSUME NEW a, Good(a), NEW s \in Stored
  PROVE  a.settings => Good(W!settings_apply_checkbox(a, s))
<1> DEFINE stored == [a.store EXCEPT !.option = s.option, !.external = s.external]
           d == a.dirty \/ s # [a.store EXCEPT !.address = s.address, !.cart = s.cart]
<1>0. a \in Program /\ a.store \in Stored /\ a.dirty \in BOOLEAN
  BY DEF Good, Fits, Program
<1>1. stored \in Stored
  BY <1>0 DEF Stored
<1>2. W!settings_apply_checkbox(a, s)
        = [[[a EXCEPT !.store = stored] EXCEPT !.dirty = d] EXCEPT !.draft = s]
  BY <1>0 DEF W!settings_apply_checkbox, Program
<1>3. /\ d \in BOOLEAN /\ (a.dirty => d)
      /\ d \/ /\ stored.option = a.store.option /\ stored.external = a.store.external
              /\ stored.address = a.store.address
  BY <1>0 DEF Stored
<1> HIDE DEF stored, d
<1>4. a.settings => Good([[[a EXCEPT !.store = stored] EXCEPT !.dirty = d] EXCEPT !.draft = s])
  BY <1>1, <1>3, StoreFacts
<1> QED  BY <1>2, <1>4

\* It closes when no question of its own is up.
LEMMA WinDestroy ==
  ASSUME NEW a, Good(a), \A i \in 1..Len(a.asks) : a.asks[i].owner # "settings"
  PROVE  Good(W!wm_destroy(a))
<1> DEFINE b == [a EXCEPT !.settings = FALSE, !.dirty = FALSE, !.draft = None]
<1>1. Fits(b) /\ (~a.dirty => Good(b))
  BY CloseFacts DEF Good
<1>2. W!wm_destroy(a) = IF a.dirty THEN W!restart_session(b) ELSE b
  BY DEF W!wm_destroy
<1> HIDE DEF b
<1> QED  BY <1>1, <1>2, WinRestart

LEMMA WinClosed ==
  ASSUME NEW a, Good(a), a.settings, \A i \in 1..Len(a.asks) : a.asks[i].owner # "settings"
  PROVE  Good(W!wm_close(a))
<1> DEFINE draft == a.draft
           s == [a.store EXCEPT !.address = draft.address]
           b == [[[a EXCEPT !.store = s] EXCEPT !.dirty = TRUE] EXCEPT !.draft = draft]
<1>0. a \in Program /\ a.store \in Stored /\ draft \in Stored
  BY DEF Good, Fits, Program
<1>1. s \in Stored
  BY <1>0 DEF Stored
<1>2. W!wm_close(a) \in {a, W!wm_destroy(a), W!wm_destroy(b)}
  <2>1. b = [a EXCEPT !.store.address = draft.address, !.dirty = TRUE]
    BY <1>0 DEF Program
  <2> HIDE DEF b
  <2> QED  BY <2>1 DEF W!wm_close
<1>4. b.asks = a.asks
  BY <1>0 DEF Program
<1> HIDE DEF s, draft
<1>3. Good(b)
  BY <1>0, <1>1, StoreFacts
<1> HIDE DEF b
<1> QED  BY <1>2, <1>3, <1>4, WinDestroy

-----------------------------------------------------------------------------
(* The session, whichever frontend it is.                                  *)

LEMMA ResetFacts == ASSUME NEW a, Good(a) PROVE Good(C!reset_to_config(a))
<1> DEFINE o == [a.store EXCEPT !.cart = None]
           b == C!stop(a)
<1>1. o \in Stored /\ AsStored(o, a.store)
  BY Named DEF Good, Fits, Program
<1>2. Fits(b) /\ InForce(b) /\ b.store = a.store
  BY StopFacts DEF Good
<1>3. C!reset_to_config(a) \in {a, C!start(b, o)}
  BY DEF C!reset_to_config, C!default_opts
<1> HIDE DEF o, b
<1> QED  BY <1>1, <1>2, <1>3, StartFacts

LEMMA EjectFacts == ASSUME NEW a, Good(a) PROVE Good(C!eject(a))
<1> DEFINE s == [a.store EXCEPT !.cart = None]
           b == [a EXCEPT !.store = s]
<1>0. a \in Program /\ a.store \in Stored
  BY DEF Good, Fits, Program
<1>1. /\ s \in Stored /\ s.option = a.store.option /\ s.external = a.store.external
      /\ s.address = a.store.address
  BY <1>0 DEF Stored
<1>2. C!eject(a) = C!reset_to_config(b)
  BY <1>0 DEF C!eject, Program
<1> HIDE DEF s
<1>3. /\ b \in Program /\ b.store = s
      /\ b.frontend = a.frontend /\ b.bios = a.bios /\ b.running = a.running /\ b.with = a.with
      /\ b.why = a.why /\ b.asks = a.asks /\ b.settings = a.settings /\ b.dirty = a.dirty
      /\ b.draft = a.draft /\ b.imported = a.imported /\ b.unapplied = a.unapplied
  BY <1>0, <1>1 DEF Program
<1> HIDE DEF b
<1>4. Good(b)
  BY <1>0, <1>1, <1>3, ChangeFacts DEF Good, Fits, Program
<1> QED  BY <1>2, <1>4, ResetFacts

\* A file that is deleted changes no question and no setting.
LEMMA LostFacts ==
  ASSUME NEW a, Good(a), NEW l \in SUBSET Carts
  PROVE  Good([a EXCEPT !.lost = l])
<1> DEFINE b == [a EXCEPT !.lost = l]
<1>0. a \in Program
  BY DEF Good, Fits
<1>1. /\ b \in Program /\ b.store = a.store
      /\ b.frontend = a.frontend /\ b.bios = a.bios /\ b.running = a.running /\ b.with = a.with
      /\ b.why = a.why /\ b.asks = a.asks /\ b.settings = a.settings /\ b.dirty = a.dirty
      /\ b.draft = a.draft /\ b.imported = a.imported /\ b.unapplied = a.unapplied
  BY <1>0 DEF Program
<1> HIDE DEF b
<1>2. Good(b)
  BY <1>1, ChangeFacts DEF Good, Fits
<1> QED  BY <1>2 DEF b

\* Of a sequence that loses one element the others stay.
LEMMA Drop ==
  ASSUME NEW T, NEW s \in Seq(T), NEW i \in 1..Len(s)
  PROVE  LET t == SubSeq(s, 1, i - 1) \o SubSeq(s, i + 1, Len(s)) IN
         /\ t \in Seq(T) /\ Len(t) = Len(s) - 1 /\ Len(s) \in Nat
         /\ \A j \in 1..Len(t) : \E k \in 1..Len(s) : t[j] = s[k]
         /\ \A k \in 1..Len(s) : k # i => \E j \in 1..Len(t) : t[j] = s[k]
<1> DEFINE l == SubSeq(s, 1, i - 1)
           r == SubSeq(s, i + 1, Len(s))
           t == l \o r
<1>0. Len(s) \in Nat /\ i \in Nat /\ i >= 1 /\ i <= Len(s)
  OBVIOUS
<1>1. /\ l \in Seq(T) /\ Len(l) = i - 1 /\ \A j \in 1..(i - 1) : l[j] = s[j]
  BY <1>0, SubSeqProperties
<1>2. /\ r \in Seq(T) /\ Len(r) = Len(s) - i /\ \A j \in 1..(Len(s) - i) : r[j] = s[i + j]
  BY <1>0, SubSeqProperties
<1> HIDE DEF l, r
<1>3. /\ t \in Seq(T) /\ Len(t) = Len(s) - 1
      /\ \A j \in 1..(i - 1) : t[j] = l[j]
      /\ \A j \in 1..(Len(s) - i) : t[i - 1 + j] = r[j]
  <2>1. /\ t \in Seq(T) /\ Len(t) = Len(l) + Len(r)
        /\ \A j \in 1..(Len(l) + Len(r)) : t[j] = IF j <= Len(l) THEN l[j] ELSE r[j - Len(l)]
    BY <1>1, <1>2, ConcatProperties
  <2> HIDE DEF t
  <2>2. ASSUME NEW j \in 1..(i - 1) PROVE t[j] = l[j]
    <3>1. j \in 1..(Len(l) + Len(r)) /\ j <= Len(l)
      BY <1>0, <1>1, <1>2
    <3> QED  BY <2>1, <3>1
  <2>3. ASSUME NEW j \in 1..(Len(s) - i) PROVE t[i - 1 + j] = r[j]
    <3>1. i - 1 + j \in 1..(Len(l) + Len(r)) /\ ~(i - 1 + j <= Len(l)) /\ i - 1 + j - Len(l) = j
      BY <1>0, <1>1, <1>2
    <3> QED  BY <2>1, <3>1
  <2> QED  BY <1>0, <1>1, <1>2, <2>1, <2>2, <2>3
<1> HIDE DEF t
<1>4. ASSUME NEW j \in 1..Len(t) PROVE \E k \in 1..Len(s) : t[j] = s[k]
  <2>1. CASE j < i
    BY <1>0, <1>1, <1>3, <2>1
  <2>2. CASE j >= i
    <3>1. j - i + 1 \in 1..(Len(s) - i) /\ i - 1 + (j - i + 1) = j /\ i + (j - i + 1) = j + 1
          /\ j + 1 \in 1..Len(s)
      BY <1>0, <1>3, <2>2
    <3>2. t[i - 1 + (j - i + 1)] = r[j - i + 1] /\ r[j - i + 1] = s[i + (j - i + 1)]
      BY <1>2, <1>3, <3>1
    <3> QED  BY <3>1, <3>2
  <2> QED  BY <1>0, <2>1, <2>2
<1>5. ASSUME NEW k \in 1..Len(s), k # i PROVE \E j \in 1..Len(t) : t[j] = s[k]
  <2>1. CASE k < i
    BY <1>0, <1>1, <1>3, <2>1
  <2>2. CASE k > i
    <3>1. k - i \in 1..(Len(s) - i) /\ i - 1 + (k - i) = k - 1 /\ i + (k - i) = k
          /\ k - 1 \in 1..Len(t)
      BY <1>0, <1>3, <2>2
    <3>2. t[i - 1 + (k - i)] = r[k - i] /\ r[k - i] = s[i + (k - i)]
      BY <1>2, <1>3, <3>1
    <3> QED  BY <3>1, <3>2
  <2> QED  BY <1>0, <1>5, <2>1, <2>2
<1> QED  BY <1>0, <1>3, <1>4, <1>5 DEF t, l, r

-----------------------------------------------------------------------------
(* The actions.                                                            *)

\* Whichever frontend runs, its handler keeps what holds.
LEMMA OfGood ==
  ASSUME NEW f \in Frontends, NEW g, NEW k, NEW m, NEW w,
         f = "gnome" => Good(g), f = "kde" => Good(k),
         f = "macos" => Good(m), f = "windows" => Good(w)
  PROVE  Good(Of(f, g, k, m, w))
BY DEF Of, Frontends

LEMMA Running ==
  ASSUME NEW a, Good(a)
  PROVE  /\ a \in Program /\ a.frontend \in Frontends /\ a.frontend # None
         /\ a.store \in Stored /\ a.lost \in SUBSET Carts /\ a.bios \in BOOLEAN
         /\ a.asks \in Seq(Asked) /\ DOMAIN a.asks = 1..Len(a.asks) /\ Len(a.asks) \in Nat
         /\ a.settings => a.draft \in Stored
<1>1. a \in Program /\ (a.settings => a.draft \in Stored)
  BY DEF Good, Fits
<1>2. a.frontend \in Frontends /\ a.asks \in Seq(Asked)
      /\ a.store \in Stored /\ a.lost \in SUBSET Carts /\ a.bios \in BOOLEAN
  BY <1>1 DEF Program
<1>3. a.frontend # None
  BY <1>2, ShellAssumption DEF Frontends
<1>4. DOMAIN a.asks = 1..Len(a.asks) /\ Len(a.asks) \in Nat
  <2> HIDE DEF Asked
  <2> QED  BY <1>2
<1> QED  BY <1>1, <1>2, <1>3, <1>4

LEMMA ClosedFacts ==
  ASSUME NEW store \in Stored, NEW bios \in BOOLEAN, NEW lost \in SUBSET Carts
  PROVE  Shut(Closed(store, bios, lost))
<1>1. <<>> \in Seq(Asked)
  <2> HIDE DEF Asked
  <2> QED  OBVIOUS
<1> HIDE DEF Asked
<1> QED  BY <1>1, OffStored DEF Closed, Shut

LEMMA ShutFacts ==
  ASSUME NEW a, Shut(a)
  PROVE  /\ a.frontend = None /\ ~a.settings /\ a.asks = <<>> /\ a.lost \in SUBSET Carts
         /\ \A f \in Frontends : Good([a EXCEPT !.frontend = f])
         /\ \A l \in SUBSET Carts : Shut([a EXCEPT !.lost = l])
<1>1. ASSUME NEW f \in Frontends PROVE Good([a EXCEPT !.frontend = f])
  <2> DEFINE b == [a EXCEPT !.frontend = f]
  <2>1. /\ b \in Program /\ ~b.running /\ b.why = "none" /\ ~b.settings /\ ~b.dirty
        /\ b.asks = <<>>
    <3> HIDE DEF Asked
    <3> QED  BY DEF Shut, Program
  <2> HIDE DEF b
  <2>2. Len(b.asks) = 0
    BY <2>1
  <2>3. Fits(b)
    BY <2>1, <2>2 DEF Fits
  <2> QED  BY <2>1, <2>3 DEF Good, InForce, ToBeStarted, b
<1>2. ASSUME NEW l \in SUBSET Carts PROVE Shut([a EXCEPT !.lost = l])
  <2> HIDE DEF Asked
  <2> QED  BY DEF Shut
<1> QED  BY <1>1, <1>2 DEF Shut

LEMMA LaunchGood ==
  ASSUME NEW a, \A f \in Frontends : Good([a EXCEPT !.frontend = f]),
         NEW f \in Frontends, NEW arg \in Carts \cup {None}, NEW rom \in BOOLEAN
  PROVE  LET b == [a EXCEPT !.frontend = f] IN
         Good(Of(f, G!on_activate(b, arg, rom), K!main(b, arg, rom),
                 M!applicationDidFinishLaunching(b, arg, rom), W!WinMain(b, arg, rom)))
<1> DEFINE b == [a EXCEPT !.frontend = f]
<1>1. Good(b)
  OBVIOUS
<1> HIDE DEF b
<1>2. /\ Good(G!on_activate(b, arg, rom)) /\ Good(K!main(b, arg, rom))
      /\ Good(M!applicationDidFinishLaunching(b, arg, rom)) /\ Good(W!WinMain(b, arg, rom))
  BY <1>1, GnomeActivate, KdeMain, MacLaunch, WinMain
<1> QED  BY <1>2, OfGood DEF b

\* A file that is dropped, chosen or handed over.
LEMMA CartGood ==
  ASSUME NEW a, Good(a), NEW cart \in Carts
  PROVE  Good(Of(a.frontend, G!load_cart(a, cart), K!load_cart(a, cart), M!load_cart(a, cart),
                 W!load_cart(a, cart)))
BY Running, GnomeCart, KdeCart, MacCart, WinCart, OfGood

LEMMA RomGood ==
  ASSUME NEW a, Good(a), NEW taken \in BOOLEAN
  PROVE  Good(Of(a.frontend, G!load_rom(a, taken), K!load_rom(a, taken), M!load_rom(a, taken),
                 W!load_rom(a, taken)))
<1>1. Good(G!load_rom(a, taken)) /\ Good(K!load_rom(a, taken)) /\ Good(M!load_rom(a, taken))
  BY GnomeImport, KdeRom, MacImport DEF G!load_rom, M!load_rom
<1>2. a.frontend = "windows" => Good(W!load_rom(a, taken))
  BY WinRom
<1> QED  BY <1>1, <1>2, Running, OfGood

\* An import asked for in the main window, and one in the settings.
LEMMA ImportsGood ==
  ASSUME NEW a, Good(a)
  PROVE  /\ Good(Of(a.frontend, G!coleco_window_import_bios(a, "main", "apply"),
                    K!importRoms(a, "main", "apply", None),
                    M!importRomsFromPanel(a, "main"), W!import_bios(a, "main")))
         /\ a.settings =>
              Good(Of(a.frontend, G!on_import_clicked(a), K!importRoms(a, "settings", "later", None),
                      M!importRomsFromPanel(a, "settings"), W!import_bios(a, "settings")))
<1>1. a.frontend = "gnome" => Good(G!coleco_window_import_bios(a, "main", "apply"))
  BY GnomeChooser
<1>2. a.frontend = "kde" => Good(K!importRoms(a, "main", "apply", None))
  BY KdeChooser
<1>3. a.frontend = "macos" => Good(M!importRomsFromPanel(a, "main"))
  BY MacPanel
<1>4. a.frontend = "windows" => Good(W!import_bios(a, "main"))
  BY WinChooser
<1>5. a.settings /\ a.frontend = "gnome" => Good(G!on_import_clicked(a))
  BY GnomeChooser DEF G!on_import_clicked
<1>6. a.settings /\ a.frontend = "kde" => Good(K!importRoms(a, "settings", "later", None))
  BY KdeChooser
<1>7. a.settings /\ a.frontend = "macos" => Good(M!importRomsFromPanel(a, "settings"))
  BY MacPanel
<1>8. a.settings /\ a.frontend = "windows" => Good(W!import_bios(a, "settings"))
  BY WinChooser
<1>9. a.frontend \in Frontends
  BY Running
<1> QED  BY <1>1, <1>2, <1>3, <1>4, <1>5, <1>6, <1>7, <1>8, <1>9, OfGood

LEMMA OpenGood ==
  ASSUME NEW a, Good(a)
  PROVE  Good(Of(a.frontend, G!coleco_prefs_show(a), K!run(a), M!showSettings(a), W!show_settings(a)))
<1>0. a.store \in Stored /\ a.frontend \in Frontends
  BY Running
<1>1. Good([a EXCEPT !.settings = TRUE, !.draft = a.store])
  BY <1>0, OpenFacts
<1>2. Good(G!coleco_prefs_show(a)) /\ Good(K!run(a)) /\ Good(W!show_settings(a))
  BY <1>1, Calls DEF G!coleco_prefs_show, K!run, W!show_settings
<1> QED  BY <1>0, <1>2, MacOpen, OfGood

LEMMA ChangeGood ==
  ASSUME NEW a, Good(a), a.settings, NEW s \in Stored
  PROVE  Good(Of(a.frontend, G!switch_changed(a, s), [a EXCEPT !.draft = s], M!settingChanged(a, s),
                 W!settings_apply_checkbox(a, s)))
<1>1. Good([a EXCEPT !.draft = s])
  BY DraftFacts
<1> QED  BY <1>1, Running, GnomeSwitch, MacChange, WinSettings, OfGood

LEMMA TypedGood ==
  ASSUME NEW a, Good(a), a.settings, NEW text \in {"here", "there", "junk"}
  PROVE  LET typed == [a EXCEPT !.draft.address = text] IN
         Good(Of(a.frontend, G!addr_changed(a, text), typed, typed, typed))
<1> DEFINE draft == [a.draft EXCEPT !.address = text]
           typed == [a EXCEPT !.draft.address = text]
<1>1. a \in Program /\ a.frontend \in Frontends /\ draft \in Stored
  BY Running, Edited
<1>2. typed = [a EXCEPT !.draft = draft]
  BY <1>1 DEF Program
<1> HIDE DEF draft, typed
<1>3. Good(typed)
  BY <1>1, <1>2, DraftFacts
<1>4. Good(G!addr_changed(a, text))
  BY GnomeAddress
<1>5. Good(Of(a.frontend, G!addr_changed(a, text), typed, typed, typed))
  BY <1>1, <1>3, <1>4, OfGood
<1> QED  BY <1>5 DEF typed

\* A question that is answered, or put away, is gone; a console waits for it
\* only if it is one that starts it.
LEMMA DroppedFacts ==
  ASSUME Good(app), NEW i \in 1..Len(app.asks)
  PROVE  LET b == Dropped(i)
             q == app.asks[i] IN
         /\ Fits(b) /\ InForce(b) /\ b.frontend = app.frontend /\ b.imported = app.imported
         /\ q \in Asked /\ AskOK(b, q)
         /\ app.frontend # "windows" \/ ~Starts(app, q) => Good(b)
<1> DEFINE s == app.asks
           t == SubSeq(s, 1, i - 1) \o SubSeq(s, i + 1, Len(s))
           b == [app EXCEPT !.asks = t]
           q == s[i]
<1>0. app \in Program /\ s \in Seq(Asked) /\ q \in Asked /\ AskOK(app, q)
  <2>1. app \in Program /\ s \in Seq(Asked) /\ AskOK(app, q)
    BY Running DEF Good, Fits
  <2> HIDE DEF Asked
  <2> QED  BY <2>1
<1>1. /\ t \in Seq(Asked) /\ Len(t) = Len(s) - 1 /\ Len(s) \in Nat
      /\ \A j \in 1..Len(t) : \E k \in 1..Len(s) : t[j] = s[k]
      /\ \A k \in 1..Len(s) : k # i => \E j \in 1..Len(t) : t[j] = s[k]
  <2> HIDE DEF Asked
  <2> QED  BY <1>0, Drop
<1>2. Dropped(i) = b
  BY DEF Dropped
<1> HIDE DEF t
<1>3. /\ b \in Program /\ b.asks = t
      /\ b.frontend = app.frontend /\ b.store = app.store /\ b.bios = app.bios
      /\ b.running = app.running /\ b.with = app.with /\ b.why = app.why
      /\ b.settings = app.settings /\ b.dirty = app.dirty /\ b.draft = app.draft
      /\ b.imported = app.imported /\ b.unapplied = app.unapplied
  BY <1>0, <1>1 DEF Program
<1> HIDE DEF b
<1>4. ASSUME NEW j \in 1..Len(t) PROVE AskOK(b, t[j])
  <2>1. PICK k \in 1..Len(s) : t[j] = s[k]
    BY <1>1
  <2>2. AskOK(app, s[k])
    BY DEF Good, Fits
  <2> QED  BY <1>3, <2>1, <2>2 DEF AskOK
<1>5. Fits(b)
  BY <1>3, <1>4 DEF Good, Fits
<1>6. InForce(b)
  BY <1>3 DEF Good, InForce
<1>7. AskOK(b, q)
  BY <1>0, <1>3 DEF AskOK
<1>8. ASSUME app.frontend # "windows" \/ ~Starts(app, q) PROVE ToBeStarted(b)
  <2>1. CASE \E k \in 1..Len(s) : app.frontend = "windows" /\ Starts(app, s[k])
    <3>1. PICK k \in 1..Len(s) : app.frontend = "windows" /\ Starts(app, s[k])
      BY <2>1
    <3>2. PICK j \in 1..Len(t) : t[j] = s[k]
      BY <1>1, <1>8, <3>1
    <3>3. b.frontend = "windows" /\ Starts(b, b.asks[j]) /\ j \in 1..Len(b.asks)
      BY <1>3, <3>1, <3>2 DEF Starts
    <3> QED  BY <3>3 DEF ToBeStarted
  <2>2. CASE ~\E k \in 1..Len(s) : app.frontend = "windows" /\ Starts(app, s[k])
    BY <1>3, <2>2 DEF Good, ToBeStarted
  <2> QED  BY <2>1, <2>2
<1> QED  BY <1>0, <1>2, <1>3, <1>5, <1>6, <1>7, <1>8 DEF Good

LEMMA CancelledGood ==
  ASSUME Good(app), NEW i \in 1..Len(app.asks), app.asks[i].what \in {"offer", "chooser"}
  PROVE  Good(Dropped(i))
<1>1. ~Starts(app, app.asks[i])
  BY DEF Starts
<1> QED  BY <1>1, DroppedFacts

LEMMA OfferedGood ==
  ASSUME Good(app), NEW i \in 1..Len(app.asks), app.asks[i].what = "offer"
  PROVE  LET q == app.asks[i]  a == Dropped(i) IN
         Good(Of(app.frontend, G!on_bios_needed_response(a, q), K!buttonClicked(a, q),
                 M!askForRoms(a, q), W!offer_taken(a, q)))
<1> DEFINE q == app.asks[i]
           a == Dropped(i)
<1>1. Good(a)
  BY CancelledGood
<1>2. a.frontend = app.frontend /\ app.frontend \in Frontends /\ q \in Asked
  BY DroppedFacts, Running
<1>3. q.retry \in Carts \cup {None, "rom"}
  BY <1>2 DEF Asked
<1> HIDE DEF a, q
<1>4. a.frontend = "gnome" => Good(G!on_bios_needed_response(a, q))
  BY <1>1, GnomeChooser DEF G!on_bios_needed_response
<1>5. a.frontend = "kde" => Good(K!buttonClicked(a, q))
  BY <1>1, <1>3, KdeChooser DEF K!buttonClicked
<1>6. a.frontend = "macos" => Good(M!askForRoms(a, q))
  BY <1>1, MacPanel DEF M!askForRoms
<1>7. a.frontend = "windows" => Good(W!offer_taken(a, q))
  BY <1>1, WinOffer
<1>8. Good(Of(app.frontend, G!on_bios_needed_response(a, q), K!buttonClicked(a, q),
              M!askForRoms(a, q), W!offer_taken(a, q)))
  BY <1>2, <1>4, <1>5, <1>6, <1>7, OfGood
<1> QED  BY <1>8 DEF a, q

LEMMA ChosenGood ==
  ASSUME Good(app), NEW i \in 1..Len(app.asks), app.asks[i].what = "chooser",
         NEW taken \in BOOLEAN
  PROVE  LET q == app.asks[i]  a == Dropped(i) IN
         Good(Of(app.frontend, G!on_bios_chosen(a, q, taken), K!rom_chosen(a, q, taken),
                 M!panel_done(a, q, taken), W!pick_each(a, q, taken)))
<1> DEFINE q == app.asks[i]
           a == Dropped(i)
<1>1. Good(a)
  BY CancelledGood
<1>2. a.frontend = app.frontend /\ app.frontend \in Frontends /\ q \in Asked /\ AskOK(a, q)
      /\ q.what = "chooser"
  BY DroppedFacts, Running
<1> HIDE DEF a, q
<1>4. a.frontend = "gnome" => Good(G!on_bios_chosen(a, q, taken))
  BY <1>1, <1>2, GnomeChosen
<1>5. a.frontend = "kde" => Good(K!rom_chosen(a, q, taken))
  BY <1>1, <1>2, KdeChosen
<1>6. Good(M!panel_done(a, q, taken))
  BY <1>1, MacImport DEF M!panel_done
<1>7. a.frontend = "windows" => Good(W!pick_each(a, q, taken))
  BY <1>1, <1>2, WinChosen
<1>8. Good(Of(app.frontend, G!on_bios_chosen(a, q, taken), K!rom_chosen(a, q, taken),
              M!panel_done(a, q, taken), W!pick_each(a, q, taken)))
  BY <1>2, <1>4, <1>5, <1>6, <1>7, OfGood
<1> QED  BY <1>8 DEF a, q

\* A message that is answered either starts the console or was none that would.
LEMMA SeenGood ==
  ASSUME Good(app), NEW i \in 1..Len(app.asks), app.asks[i].what \in {"result", "loaded"}
  PROVE  Good(W!result_seen(Dropped(i), app.asks[i]))
<1> DEFINE q == app.asks[i]
           a == Dropped(i)
<1>1. /\ Fits(a) /\ a.imported = app.imported
      /\ app.frontend # "windows" \/ ~Starts(app, q) => Good(a)
      /\ q.what \in {"result", "loaded"}
  BY DroppedFacts
<1>2. W!result_seen(a, q) \in {a, W!restart_session(a)}
      /\ (W!result_seen(a, q) # W!restart_session(a) => ~Starts(app, q))
  <2> HIDE DEF a, q
  <2> QED  BY <1>1 DEF W!result_seen, W!apply_new_roms, Starts
<1> HIDE DEF a, q
<1>3. Good(W!restart_session(a))
  BY <1>1, WinRestart
<1>4. Good(W!result_seen(a, q))
  BY <1>1, <1>2, <1>3
<1> QED  BY <1>4 DEF a, q

LEMMA AnswerGood ==
  ASSUME Good(app), Answer
  PROVE  Good(app')
<1>1. PICK i \in Answerable : \/ Cancelled(i) \/ ResultSeen(i)
                              \/ \E yes \in BOOLEAN : Offered(i, yes) \/ Chosen(i, yes)
  BY DEF Answer
<1>2. i \in 1..Len(app.asks)
  <2>1. DOMAIN app.asks = 1..Len(app.asks)
    BY Running
  <2> QED  BY <2>1 DEF Answerable
<1>3. CASE Cancelled(i)
  BY <1>2, <1>3, CancelledGood DEF Cancelled
<1>4. CASE ResultSeen(i)
  BY <1>2, <1>4, SeenGood DEF ResultSeen
<1>5. ASSUME NEW yes \in BOOLEAN, Offered(i, yes) PROVE Good(app')
  BY <1>2, <1>5, CancelledGood, OfferedGood DEF Offered, Does
<1>6. ASSUME NEW yes \in BOOLEAN, Chosen(i, yes) PROVE Good(app')
  BY <1>2, <1>6, ChosenGood DEF Chosen, Does
<1> QED  BY <1>1, <1>3, <1>4, <1>5, <1>6

\* The settings close when no question of theirs is up, except on GNOME.
LEMMA CloseGood ==
  ASSUME Good(app), CloseSettings
  PROVE  Good(app')
<1>0. app.settings /\ DOMAIN app.asks = 1..Len(app.asks)
  BY Running DEF CloseSettings
<1>1. CASE app.frontend = "gnome" /\ app' = G!prefs_closed(app)
  BY <1>1, GnomeClosed
<1>2. CASE Setting /\ app.frontend = "kde" /\ app' \in {K!accepted(app), K!rejected(app)}
  <2>1. app.asks = <<>>
    BY <1>2 DEF Setting, Enabled, Of, K!enabled
  <2> QED  BY <1>0, <1>2, <2>1, KdeClosed
<1>3. CASE Setting /\ app.frontend = "windows" /\ app' = W!wm_close(app)
  <2>1. \A i \in 1..Len(app.asks) : app.asks[i].owner # "settings"
    BY <1>0, <1>3 DEF Setting, Enabled, Of, W!enabled
  <2> QED  BY <1>0, <1>3, <2>1, WinClosed
<1>4. CASE /\ Setting /\ app.frontend = "macos"
           /\ \E editing \in BOOLEAN : app' = M!windowWillClose(app, editing)
  <2>1. app.asks = <<>>
    BY <1>4 DEF Setting, Enabled, Of, M!enabled
  <2> QED  BY <1>0, <1>4, <2>1, MacClosed
<1> QED  BY <1>1, <1>2, <1>3, <1>4 DEF CloseSettings

\* What the program that runs does.
LEMMA GoodNext ==
  ASSUME Good(app), ShellNext
  PROVE  Good(app') \/ Shut(app')
<1>0. /\ app.frontend \in Frontends /\ app.frontend # None /\ app.store \in Stored
      /\ app.bios \in BOOLEAN /\ app.lost \in SUBSET Carts
      /\ app.settings => app.draft \in Stored
  BY Running
<1>1. ASSUME NEW f \in Frontends, NEW arg \in Carts \cup {None}, NEW rom \in BOOLEAN,
             Launch(f, arg, rom)
      PROVE  FALSE
  BY <1>0, <1>1 DEF Launch
<1>2. CASE Quit
  BY <1>0, <1>2, ClosedFacts DEF Quit
<1>3. ASSUME NEW cart \in Carts, CartDeleted(cart) PROVE Good(app')
  <2> DEFINE l == app.lost \cup {cart}
  <2>1. l \in SUBSET Carts /\ app' = [app EXCEPT !.lost = l]
    BY <1>0, <1>3 DEF CartDeleted
  <2> HIDE DEF l
  <2> QED  BY <2>1, LostFacts
<1>4. ASSUME NEW cart \in Carts, LoadCart(cart) PROVE Good(app')
  BY <1>4, CartGood DEF LoadCart, Does
<1>5. ASSUME NEW taken \in BOOLEAN, LoadRom(taken) PROVE Good(app')
  BY <1>5, RomGood DEF LoadRom, Does
<1>6. CASE Eject
  BY <1>6, EjectFacts DEF Eject
<1>7. CASE BackToConfig
  BY <1>7, ResetFacts DEF BackToConfig
<1>8. CASE ImportBios
  BY <1>8, ImportsGood DEF ImportBios, Does
<1>9. CASE OpenSettings
  BY <1>9, OpenGood DEF OpenSettings, Does
<1>10. CASE Answer
  BY <1>10, AnswerGood
<1>11. CASE ImportHere
  BY <1>11, ImportsGood DEF ImportHere, Setting, Does
<1>12. ASSUME NEW s \in Stored, Change(s) PROVE Good(app')
  BY <1>12, ChangeGood DEF Change, Setting, Does
<1>13. ASSUME NEW on \in {0, 1}, Change([app.draft EXCEPT !.option = on]) PROVE Good(app')
  <2>1. [app.draft EXCEPT !.option = on] \in Stored
    BY <1>0, <1>13, Edited DEF Change, Setting
  <2> QED  BY <1>12, <1>13, <2>1
<1>14. ASSUME NEW on \in BOOLEAN, Change([app.draft EXCEPT !.external = on]) PROVE Good(app')
  <2>1. [app.draft EXCEPT !.external = on] \in Stored
    BY <1>0, <1>14, Edited DEF Change, Setting
  <2> QED  BY <1>12, <1>14, <2>1
<1>15. ASSUME NEW text \in {"here", "there", "junk"}, TypeAddress(text) PROVE Good(app')
  BY <1>15, TypedGood DEF TypeAddress, Setting, Does
<1>16. CASE AddressEntered
  <2>1. Good(M!externalAddrChanged(app))
    BY <1>16, MacAddress DEF AddressEntered, Setting
  <2> QED  BY <1>16, <2>1 DEF AddressEntered
<1>17. CASE CloseSettings
  BY <1>17, CloseGood
<1> QED  BY <1>1, <1>2, <1>3, <1>4, <1>5, <1>6, <1>7, <1>8, <1>9, <1>10, <1>11, <1>13, <1>14,
            <1>15, <1>16, <1>17 DEF ShellNext

\* Without a program there is nothing but to launch one, and files to delete.
LEMMA ShutNext ==
  ASSUME Shut(app), ShellNext
  PROVE  Good(app') \/ Shut(app')
<1>0. /\ app.frontend = None /\ ~app.settings /\ app.asks = <<>> /\ app.lost \in SUBSET Carts
      /\ \A f \in Frontends : Good([app EXCEPT !.frontend = f])
      /\ \A l \in SUBSET Carts : Shut([app EXCEPT !.lost = l])
  BY ShutFacts
<1>1. ASSUME NEW f \in Frontends, NEW arg \in Carts \cup {None}, NEW rom \in BOOLEAN,
             Launch(f, arg, rom)
      PROVE  Good(app')
  <2>1. LET b == [app EXCEPT !.frontend = f] IN
        Good(Of(f, G!on_activate(b, arg, rom), K!main(b, arg, rom),
                M!applicationDidFinishLaunching(b, arg, rom), W!WinMain(b, arg, rom)))
    BY <1>0, LaunchGood
  <2> QED  BY <1>1, <2>1 DEF Launch
<1>2. ASSUME NEW cart \in Carts, CartDeleted(cart) PROVE Shut(app')
  BY <1>0, <1>2 DEF CartDeleted
<1>3. \A window : ~Enabled(window)
  BY <1>0 DEF Enabled
<1>4. ~Reached /\ ~Setting
  BY <1>0, <1>3, ShellAssumption DEF Reached, Setting
<1>5. ~Quit /\ ~Eject /\ ~BackToConfig /\ ~ImportBios /\ ~OpenSettings /\ ~ImportHere
      /\ ~AddressEntered
  BY <1>3, <1>4 DEF Quit, Eject, BackToConfig, ImportBios, OpenSettings, ImportHere, AddressEntered
<1>6. \A cart, taken, s, text :
        ~LoadCart(cart) /\ ~LoadRom(taken) /\ ~Change(s) /\ ~TypeAddress(text)
  BY <1>4 DEF LoadCart, LoadRom, Change, TypeAddress
<1>7. ~Answer
  <2>1. DOMAIN app.asks = {}
    BY <1>0
  <2> QED  BY <2>1 DEF Answer, Answerable
<1>8. ~CloseSettings
  BY <1>0 DEF CloseSettings
<1> QED  BY <1>1, <1>2, <1>5, <1>6, <1>7, <1>8 DEF ShellNext

\* The windows keep to what a program that runs, or none, can be.
THEOREM ShellCorrect == ShellSpec => []ShellInv
<1>1. ShellInit => ShellInv
  BY ClosedFacts, OffStored DEF ShellInit, ShellInv
<1>2. ShellInv /\ [ShellNext]_app => ShellInv'
  <2> SUFFICES ASSUME ShellInv, [ShellNext]_app PROVE ShellInv'
    OBVIOUS
  <2>1. CASE ShellNext
    <3>1. Good(app') \/ Shut(app')
      BY <2>1, GoodNext, ShutNext DEF ShellInv
    <3> QED  BY <3>1 DEF ShellInv
  <2>2. CASE UNCHANGED app
    BY <2>2 DEF ShellInv
  <2> QED  BY <2>1, <2>2
<1> QED  BY <1>1, <1>2, PTL DEF ShellSpec

\* Once the settings have closed and no question is up, what runs runs with
\* what is stored (prefs.c, SettingsDialog.cpp, windows main.c).
THEOREM SettingsInForce == ShellSpec => []OptionsInForce
<1>1. ShellInv => OptionsInForce
  <2> SUFFICES ASSUME ShellInv, Quiet, app.running PROVE OptionsInForce
    BY DEF OptionsInForce
  <2>1. Good(app)
    BY ShutFacts DEF ShellInv, Quiet
  <2> QED  BY <2>1 DEF Good, Fits, InForce, AsStored, Quiet, OptionsInForce
<1> QED  BY <1>1, ShellCorrect, PTL

\* A BIOS that comes in, by whatever way, starts the console that waits for it.
THEOREM BiosTakenUp == ShellSpec => []BiosIsTakenUp
<1>1. ShellInv => BiosIsTakenUp
  <2> SUFFICES ASSUME ShellInv, Quiet, ~app.running, app.why = "bios", ~app.unapplied, app.bios
               PROVE  FALSE
    BY DEF BiosIsTakenUp
  <2>1. Good(app)
    BY ShutFacts DEF ShellInv, Quiet
  <2>2. ~app.dirty /\ Len(app.asks) = 0
    BY <2>1 DEF Good, Fits, Quiet
  <2> QED  BY <2>1, <2>2 DEF Good, ToBeStarted
<1> QED  BY <1>1, ShellCorrect, PTL
=============================================================================
