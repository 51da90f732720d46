----------------------------- MODULE Host_proofs ----------------------------
(***************************************************************************)
(* Proofs about the host (core/coleco/host.c): the pace of the machine     *)
(* thread, for every length of a frame, whatever the frames take to run    *)
(* and however the display ticks; and the frame slot with the displays of  *)
(* the four frontends, for any pictures, feeds and pool.                   *)
(***************************************************************************)
EXTENDS HostLoop, Displays, FiniteSetTheorems, TLAPS

-----------------------------------------------------------------------------
(* The pace: the machine neither fast-forwards nor waits for long.         *)

\* A frame that takes less than half its time takes at most half of Frame - 1:
\* twice what the ladder gains by k of them is Gained(k) at least.
Gained(k) == k * (Frame + 1)

\* The ladder is at most four frames late when the short frames begin, so those
\* so far have not gained more than that; n is the deadline they have reached.
CatchesUp(n) == Gained(short) <= 8 * Frame + 2 * n

\* When a turn of the loop begins the deadline is in the past, by four frames
\* at most; while its frame runs `next + since` is where it was.
LadderInv ==
  /\ pc = "top" => next <= 0 /\ CatchesUp(next)
  /\ pc \in {"frame", "wait"} => next + since <= 0 /\ CatchesUp(next + since)
  /\ pc = "sleep" =>
       /\ left = next
       /\ 2 * (since + left) < Frame => Gained(short + 1) <= 8 * Frame

\* The wait's two frames and a step of the ladder, of which `left` is to come.
WaitInv ==
  /\ pc = "frame" => idle = 0
  /\ pc = "wait"  => idle + left <= 2 * Frame
  /\ pc = "sleep" => idle + left <= 3 * Frame

LoopInv ==
  /\ LoopTypeOK
  /\ LadderInv
  /\ WaitInv
  /\ NeverFastForwards
  /\ NeverStalls

-----------------------------------------------------------------------------

LEMMA GainedFacts ==
  /\ Gained(0) = 0
  /\ \A k \in Nat : /\ Gained(k) \in Nat
                    /\ Gained(k + 1) = Gained(k) + Frame + 1
                    /\ Gained(k) <= 8 * Frame => k <= 7
<1>1. Gained(0) = 0
  BY HostLoopAssumption DEF Gained
<1>2. ASSUME NEW k \in Nat PROVE Gained(k) \in Nat /\ Gained(k + 1) = Gained(k) + Frame + 1
  BY HostLoopAssumption DEF Gained
<1>3. ASSUME NEW k \in Nat, Gained(k) <= 8 * Frame PROVE k <= 7
  <2> SUFFICES ASSUME k >= 8 PROVE FALSE
    OBVIOUS
  <2>1. PICK j \in Nat : k = 8 + j
    <3>1. k - 8 \in Nat /\ k = 8 + (k - 8)
      OBVIOUS
    <3> QED  BY <3>1
  <2>2. Gained(k) = 8 * (Frame + 1) + j * (Frame + 1) /\ j * (Frame + 1) \in Nat
    BY <2>1, HostLoopAssumption DEF Gained
  <2> QED  BY <1>3, <2>2, HostLoopAssumption
<1> QED  BY <1>1, <1>2, <1>3

LEMMA InitLoopInv == LoopInit => LoopInv
<1> SUFFICES ASSUME LoopInit PROVE LoopInv
  OBVIOUS
<1>1. locked \in BOOLEAN /\ stop \in BOOLEAN /\ fresh \in BOOLEAN
  BY Zenon DEF LoopInit
<1>2. LoopTypeOK
  BY <1>1, HostLoopAssumption DEF LoopInit, LoopTypeOK, Past, MaxShort
<1> QED
  BY <1>2, GainedFacts, HostLoopAssumption
     DEF LoopInit, LoopInv, LadderInv, WaitInv, CatchesUp, NeverFastForwards, NeverStalls

\* What the next turn begins with: the deadline n, in the past, which the short
\* frames have reached if this one was short.
LEMMA AgainKeeps ==
  ASSUME LoopInv, Again, NEW n \in Int, next' = n, n <= 0, n >= -4 * Frame,
         2 * since < Frame => Gained(short + 1) <= 8 * Frame + 2 * n
  PROVE  short' \in 0..MaxShort /\ short' <= 7 /\ Gained(short') <= 8 * Frame + 2 * n
<1> USE HostLoopAssumption DEF LoopInv, LoopTypeOK, NeverFastForwards, MaxShort
<1>1. CASE 2 * since >= Frame
  BY <1>1, GainedFacts DEF Again
<1>2. CASE 2 * since < Frame
  <2>1. short' = short + 1 /\ short + 1 \in Nat
    BY <1>2 DEF Again
  <2>2. Gained(short') <= 8 * Frame + 2 * n /\ Gained(short') \in Nat
    BY <1>2, <2>1, GainedFacts
  <2>3. Gained(short') <= 8 * Frame
    BY <2>2
  <2> QED  BY <2>1, <2>2, <2>3, GainedFacts
<1> QED  BY <1>1, <1>2

\* The ladder, from where it was or from now, ends a turn or goes to sleep as
\* the invariant has it.
LEMMA LadderKeeps ==
  ASSUME LoopInv, NEW n \in Int, Ladder(n), n <= 0, pc \in {"frame", "wait"},
         n = next \/ n = 0 \/ (n = -since /\ 2 * since < Frame),
         pc = "wait" => idle <= 2 * Frame,
         UNCHANGED <<since, idle>>
  PROVE  /\ pc' \in {"top", "sleep"} /\ left' \in Nat /\ next' \in Int
         /\ short' \in 0..MaxShort
         /\ LadderInv' /\ WaitInv' /\ NeverFastForwards' /\ NeverStalls'
<1> USE HostLoopAssumption, GainedFacts
<1>t. since \in Nat /\ idle \in Nat /\ next \in Int /\ left \in Nat /\ short \in 0..7
  BY DEF LoopInv, LoopTypeOK, NeverFastForwards, MaxShort
<1>i. idle <= 2 * Frame
  BY DEF LoopInv, WaitInv
<1>c. next + since <= 0 /\ Gained(short) <= 8 * Frame + 2 * (next + since)
  BY DEF LoopInv, LadderInv, CatchesUp
<1>g. short \in Nat /\ Gained(short) \in Nat /\ Gained(short + 1) = Gained(short) + Frame + 1
  BY <1>t
<1> HIDE GainedFacts
<1>1. CASE n + Frame < -4 * Frame /\ next' = 0 /\ Again
  <2>1. 2 * since >= Frame
    BY <1>1, <1>t, <1>c, <1>g
  <2>2. short' = 0 /\ pc' = "top" /\ left' = 0
    BY <1>1, <2>1, <1>t DEF Again
  <2>3. Gained(0) = 0
    BY GainedFacts
  <2> QED
    BY <1>1, <1>t, <1>i, <2>2, <2>3
       DEF LadderInv, WaitInv, CatchesUp, NeverFastForwards, NeverStalls, MaxShort
<1>2. CASE n + Frame \in (-4 * Frame)..0 /\ next' = n + Frame /\ Again
  <2>1. n = next
    BY <1>2, <1>t
  <2>2. 2 * since < Frame => Gained(short + 1) <= 8 * Frame + 2 * (n + Frame)
    BY <2>1, <1>t, <1>c, <1>g
  <2>3. short' \in 0..MaxShort /\ short' <= 7
        /\ Gained(short') <= 8 * Frame + 2 * (n + Frame)
    BY <1>2, <2>2, AgainKeeps
  <2>4. pc' = "top" /\ left' = 0
    BY <1>2 DEF Again
  <2> QED
    BY <1>2, <1>t, <1>i, <2>3, <2>4
       DEF LadderInv, WaitInv, CatchesUp, NeverFastForwards, NeverStalls
<1>3. CASE /\ n + Frame > 0 /\ next' = n + Frame
           /\ pc' = "sleep" /\ left' = n + Frame /\ UNCHANGED short
  <2>1. 2 * (since + n + Frame) < Frame => Gained(short + 1) <= 8 * Frame
    BY <1>t, <1>c, <1>g
  <2> QED
    BY <1>3, <1>t, <1>i, <2>1
       DEF LadderInv, WaitInv, CatchesUp, NeverFastForwards, NeverStalls, MaxShort
<1> QED  BY <1>1, <1>2, <1>3 DEF Ladder

\* Giving up on the ticks, from where the ladder was or from now.
LEMMA FallbackKeeps ==
  ASSUME LoopInv, Fallback, pc \in {"frame", "wait"}, pc = "wait" => idle <= 2 * Frame,
         UNCHANGED <<since, idle>>
  PROVE  /\ pc' \in {"top", "sleep"} /\ left' \in Nat /\ next' \in Int
         /\ short' \in 0..MaxShort
         /\ LadderInv' /\ WaitInv' /\ NeverFastForwards' /\ NeverStalls'
<1> DEFINE n == IF locked THEN 0 ELSE next
<1>1. n \in Int /\ n <= 0 /\ (n = next \/ n = 0)
  BY DEF LoopInv, LoopTypeOK, LadderInv
<1>2. Ladder(n)
  BY DEF Fallback
<1> HIDE DEF n
<1> QED  BY <1>1, <1>2, LadderKeeps

-----------------------------------------------------------------------------
(* One step each.                                                          *)

LEMMA ElapseStep == LoopInv /\ Elapse => LoopInv'
<1> SUFFICES ASSUME LoopInv, Elapse PROVE LoopInv'
  OBVIOUS
<1> USE HostLoopAssumption
<1> DEFINE d == CHOOSE n \in Until : \A m \in Until : n <= m
<1>t. LoopTypeOK
  BY DEF LoopInv
<1>1. d \in Until /\ \A m \in Until : d <= m
  <2>1. \E n \in Until : \A m \in Until : n <= m
    <3>1. CASE tick = Hidden
      BY <3>1, <1>t DEF Until, LoopTypeOK
    <3>2. CASE tick # Hidden /\ left <= tick
      BY <3>2, <1>t DEF Until, LoopTypeOK, Hidden
    <3>3. CASE tick # Hidden /\ ~(left <= tick)
      BY <3>3, <1>t DEF Until, LoopTypeOK, Hidden
    <3> QED  BY <3>1, <3>2, <3>3
  <2> QED  BY <2>1
<1>2. /\ Timed /\ d > 0
      /\ left' = left - d /\ since' = since + d /\ next' = next - d
      /\ age' = (IF age + d > Stale THEN Past ELSE age + d)
      /\ tick' = (IF tick = Hidden THEN Hidden ELSE tick - d)
      /\ idle' = (IF pc = "frame" THEN 0 ELSE idle + d)
      /\ UNCHANGED <<pc, locked, short, fresh, period, stop>>
  BY DEF Elapse
<1> HIDE DEF d
<1>3. d \in Nat /\ d <= left /\ (tick # Hidden => d <= tick)
  BY <1>1, <1>t DEF Until, LoopTypeOK
<1>4. LoopTypeOK'
  BY <1>2, <1>3, <1>t DEF LoopTypeOK, Past
<1>5. next' + since' = next + since
  BY <1>2, <1>3, <1>t DEF LoopTypeOK
<1>6. pc = "sleep" => left' = next' + 0 \/ left' = next'
  BY <1>2, <1>3, <1>t DEF LoopTypeOK, LoopInv, LadderInv
<1>7. since' + left' = since + left
  BY <1>2, <1>3, <1>t DEF LoopTypeOK
<1>8. LadderInv'
  <2>1. CASE pc \in {"frame", "wait"}
    BY <1>2, <1>5, <2>1 DEF LoopInv, LadderInv, CatchesUp
  <2>2. CASE pc = "sleep"
    BY <1>2, <1>3, <1>7, <1>t, <2>2 DEF LoopInv, LadderInv, LoopTypeOK
  <2> QED  BY <1>2, <2>1, <2>2 DEF Timed
<1>9. WaitInv'
  BY <1>2, <1>3, <1>t DEF LoopInv, WaitInv, LoopTypeOK, Timed
<1>10. NeverFastForwards' /\ NeverStalls'
  BY <1>2, <1>3, <1>4, <1>9, <1>t DEF LoopInv, WaitInv, LoopTypeOK, Timed, NeverFastForwards, NeverStalls
<1> QED  BY <1>4, <1>8, <1>9, <1>10 DEF LoopInv

\* The display and the interface thread leave the loop alone.
LEMMA VsyncStep == LoopInv /\ (notify_vsync \/ Show \/ Stop) => LoopInv'
<1> SUFFICES ASSUME LoopInv, notify_vsync \/ Show \/ Stop PROVE LoopInv'
  OBVIOUS
<1>1. UNCHANGED loop
  BY DEF notify_vsync, Show, Stop
<1>2. LoopTypeOK'
  <2>1. CASE notify_vsync
    <3>1. period' \in {"none", "near", "far"}
      BY <2>1 DEF notify_vsync, Distance, Smoothed
    <3> QED  BY <1>1, <2>1, <3>1, HostLoopAssumption DEF LoopInv, LoopTypeOK, notify_vsync, loop, Past
  <2>2. CASE Show
    BY <2>2, <1>1, HostLoopAssumption DEF LoopInv, LoopTypeOK, Show, loop, vsync
  <2>3. CASE Stop
    BY <2>3, <1>1 DEF LoopInv, LoopTypeOK, Stop, loop
  <2> QED  BY <2>1, <2>2, <2>3
<1> QED
  BY <1>1, <1>2
     DEF LoopInv, LadderInv, WaitInv, CatchesUp, NeverFastForwards, NeverStalls, loop

LEMMA StartStep == LoopInv /\ Start => LoopInv'
<1> SUFFICES ASSUME LoopInv, Start PROVE LoopInv'
  OBVIOUS
<1>1. locked' \in BOOLEAN /\ stop' \in BOOLEAN /\ fresh' \in BOOLEAN
  BY Zenon DEF LoopInv, LoopTypeOK, Start
<1>2. LoopTypeOK'
  BY <1>1, HostLoopAssumption DEF LoopInv, LoopTypeOK, Start, Past, MaxShort
<1> QED
  BY <1>2, GainedFacts, HostLoopAssumption
     DEF LoopInv, LoopTypeOK, LadderInv, WaitInv, CatchesUp, NeverFastForwards, NeverStalls, Start

LEMMA BeginStep == LoopInv /\ Begin => LoopInv'
BY HostLoopAssumption
   DEF LoopInv, LoopTypeOK, LadderInv, WaitInv, CatchesUp, NeverFastForwards, NeverStalls, Begin, vsync

LEMMA EndStep == LoopInv /\ End => LoopInv'
BY DEF LoopInv, LoopTypeOK, LadderInv, WaitInv, CatchesUp, NeverFastForwards, NeverStalls, End, vsync

LEMMA FrameDoneStep == LoopInv /\ FrameDone => LoopInv'
<1> SUFFICES ASSUME LoopInv, FrameDone PROVE LoopInv'
  OBVIOUS
<1>1. CASE pc' = "wait" /\ left' = 2 * Frame /\ UNCHANGED <<next, locked, short>>
  BY <1>1, HostLoopAssumption
     DEF FrameDone, LoopInv, LoopTypeOK, LadderInv, WaitInv, CatchesUp, NeverFastForwards, NeverStalls,
         vsync
<1>2. CASE Fallback
  <2>1. pc = "frame" /\ UNCHANGED <<since, idle, vsync, stop, tick>>
    BY DEF FrameDone
  <2>2. /\ pc' \in {"top", "sleep"} /\ left' \in Nat /\ next' \in Int
        /\ short' \in 0..MaxShort
        /\ LadderInv' /\ WaitInv' /\ NeverFastForwards' /\ NeverStalls'
    BY <1>2, <2>1, FallbackKeeps
  <2>3. LoopTypeOK'
    BY <1>2, <2>1, <2>2 DEF LoopInv, LoopTypeOK, Fallback, vsync
  <2> QED  BY <2>2, <2>3 DEF LoopInv
<1> QED  BY <1>1, <1>2 DEF FrameDone

LEMMA WaitTimedOutStep == LoopInv /\ WaitTimedOut => LoopInv'
<1> SUFFICES ASSUME LoopInv, WaitTimedOut PROVE LoopInv'
  OBVIOUS
<1>1. Fallback /\ pc = "wait" /\ UNCHANGED <<since, idle, vsync, stop, tick>>
  BY DEF WaitTimedOut
<1>2. idle <= 2 * Frame
  BY <1>1, HostLoopAssumption DEF LoopInv, LoopTypeOK, WaitInv
<1>3. /\ pc' \in {"top", "sleep"} /\ left' \in Nat /\ next' \in Int
      /\ short' \in 0..MaxShort
      /\ LadderInv' /\ WaitInv' /\ NeverFastForwards' /\ NeverStalls'
  BY <1>1, <1>2, FallbackKeeps
<1>4. LoopTypeOK'
  BY <1>1, <1>3 DEF LoopInv, LoopTypeOK, Fallback, vsync
<1> QED  BY <1>3, <1>4 DEF LoopInv

LEMMA WaitTickedStep == LoopInv /\ WaitTicked => LoopInv'
<1> SUFFICES ASSUME LoopInv, WaitTicked PROVE LoopInv'
  OBVIOUS
<1>1. pc = "wait" /\ fresh' = FALSE /\ UNCHANGED <<since, idle, age, period, stop, tick>>
  BY DEF WaitTicked
<1>2. idle <= 2 * Frame
  BY <1>1, HostLoopAssumption DEF LoopInv, LoopTypeOK, WaitInv
<1>3. CASE 2 * since >= Frame /\ locked' = TRUE /\ next' = 0 /\ Again
  <2>1. short' = 0 /\ pc' = "top" /\ left' = 0
    BY <1>3 DEF Again
  <2>2. locked' \in BOOLEAN /\ fresh' \in BOOLEAN /\ stop' \in BOOLEAN
    BY <1>1, <1>3, Zenon DEF LoopInv, LoopTypeOK
  <2>3. LoopTypeOK'
    BY <1>1, <1>3, <2>1, <2>2 DEF LoopInv, LoopTypeOK, MaxShort
  <2> QED
    BY <1>1, <1>2, <1>3, <2>1, <2>3, GainedFacts, HostLoopAssumption
       DEF LoopInv, LoopTypeOK, LadderInv, WaitInv, CatchesUp, NeverFastForwards, NeverStalls
<1>4. CASE 2 * since < Frame /\ Ladder(-since) /\ UNCHANGED locked
  <2>1. -since \in Int /\ -since <= 0
    BY DEF LoopInv, LoopTypeOK
  <2>2. /\ pc' \in {"top", "sleep"} /\ left' \in Nat /\ next' \in Int
        /\ short' \in 0..MaxShort
        /\ LadderInv' /\ WaitInv' /\ NeverFastForwards' /\ NeverStalls'
    BY <1>1, <1>2, <1>4, <2>1, LadderKeeps
  <2>3. LoopTypeOK'
    BY <1>1, <1>4, <2>2 DEF LoopInv, LoopTypeOK
  <2> QED  BY <2>2, <2>3 DEF LoopInv
<1> QED  BY <1>3, <1>4 DEF WaitTicked

LEMMA AwakeStep == LoopInv /\ Awake => LoopInv'
<1> SUFFICES ASSUME LoopInv, Awake PROVE LoopInv'
  OBVIOUS
<1>1. /\ pc = "sleep" /\ left = 0 /\ Again
      /\ UNCHANGED <<since, next, locked, idle, vsync, stop, tick>>
  BY DEF Awake
<1>2. next = 0 /\ (2 * since < Frame => Gained(short + 1) <= 8 * Frame)
  BY <1>1 DEF LoopInv, LoopTypeOK, LadderInv
<1>3. short' \in 0..MaxShort /\ short' <= 7 /\ Gained(short') <= 8 * Frame + 2 * 0
  BY <1>1, <1>2, AgainKeeps, HostLoopAssumption
<1>4. pc' = "top" /\ left' = 0
  BY <1>1 DEF Again
<1> QED
  BY <1>1, <1>2, <1>3, <1>4
     DEF LoopInv, LoopTypeOK, LadderInv, WaitInv, CatchesUp, NeverFastForwards, NeverStalls, vsync

LEMMA NextLoopInv == LoopInv /\ [LoopNext]_loopVars => LoopInv'
<1>1. LoopInv /\ UNCHANGED loopVars => LoopInv'
  BY DEF loopVars, loop, vsync, LoopInv, LoopTypeOK, LadderInv, WaitInv, CatchesUp, NeverFastForwards,
         NeverStalls
<1> QED
  BY <1>1, ElapseStep, VsyncStep, StartStep, BeginStep, EndStep, FrameDoneStep,
     WaitTimedOutStep, WaitTickedStep, AwakeStep
     DEF LoopNext, MachineThread

\* host.c:200-308: what the ladder still owes and what the wait has used up agree
\* with the deadline at every step of the loop.
THEOREM LoopInvariance == LoopSpec => []LoopInv
BY InitLoopInv, NextLoopInv, PTL DEF LoopSpec

-----------------------------------------------------------------------------

\* host.c:296-308: whatever a frame takes, however long a break was and however
\* the ticks come, no more than seven frames in a row take less than half their
\* time: four frames is as late as the ladder may be, and each of them gains
\* more than half of one.
THEOREM PaceIsKept == LoopSpec => []NeverFastForwards
BY LoopInvariance, PTL DEF LoopInv

\* host.c:206-229: the machine never stands still for longer than the two frames
\* of the wait and one step of the ladder.
THEOREM MachineGoesOn == LoopSpec => []NeverStalls
BY LoopInvariance, PTL DEF LoopInv

-----------------------------------------------------------------------------
(* The frame slot and the displays: nobody is called who is gone, what     *)
(* stays on the screen is the newest picture, and every step is one of the *)
(* board.                                                                  *)

\* The feed that is called is the active one, and it is there; the lock is held
\* for it only.
CallInv ==
  /\ m_active = IF s_frame_cb = None THEN {} ELSE {s_frame_cb}
  /\ m_active \subseteq made
  /\ mt \in {"calling", "posting"} => s_frame_cb # None

\* No machine thread outlives its stop, and a frame is published only where a
\* version is left for it.
ThreadInv ==
  /\ ~s_running => mt = "none"
  /\ mt = "publish" => s_frame_serial < MaxSerial \/ (s_frame_valid /\ fb = s_frame)

\* Whoever raised m_pending is about to post, or its event waits ...
PostInv ==
  \A f \in m_pending \cap made : posted[f] > 0 \/ (mt = "posting" /\ s_frame_cb = f)

\* ... so that a display behind the slot will look again.
LookInv ==
  \A f \in m_active :
    \/ m_serial[f] = s_frame_serial \/ ui = f \/ posted[f] > 0
    \/ mt \in {"notify", "calling", "posting"}

SlotInv == CallInv /\ ThreadInv /\ PostInv /\ LookInv

-----------------------------------------------------------------------------
(* The slot and the feeds.                                                 *)

\* The type invariant in two parts, the flags apart from what is counted.
Flags == s_frame_valid \in BOOLEAN /\ s_running \in BOOLEAN /\ s_stop_req \in BOOLEAN
Stores ==
  /\ s_frame \in Picture /\ s_frame_serial \in 0..MaxSerial
  /\ s_frame_cb \in Feed \cup {None}
  /\ made \subseteq Feed /\ m_active \subseteq Feed /\ m_pending \subseteq Feed
  /\ posted \in [Feed -> Nat]
  /\ m_serial \in [Feed -> 0..MaxSerial] /\ m_fb \in [Feed -> Picture]
  /\ mt \in {"none", "top", "publish", "notify", "calling", "posting"}
  /\ fb \in Picture
  /\ ui \in Feed \cup {"idle", "joining"}

LEMMA Parts == TypeOK <=> Flags /\ Stores
BY Zenon DEF TypeOK, Flags, Stores

LEMMA InitSlot == Init => TypeOK /\ SlotInv
<1> SUFFICES ASSUME Init PROVE Flags /\ Stores /\ SlotInv
  BY Parts
<1>1. Flags
  BY Zenon DEF Init, Flags
<1>2. Stores /\ SlotInv
  BY SlotAssumption DEF Init, Stores, SlotInv, CallInv, ThreadInv, PostInv, LookInv
<1> QED
  BY <1>1, <1>2

LEMMA MachineType == Flags /\ Stores /\ CallInv /\ ThreadInv /\ Machine => Flags' /\ Stores'
<1> SUFFICES ASSUME Flags, Stores, CallInv, ThreadInv, Machine PROVE Flags' /\ Stores'
  OBVIOUS
<1> USE SlotAssumption DEF slot, running, feeds, widget
<1>1. CASE LoopEnds
  <2>1. Flags'
    BY <1>1, Zenon DEF LoopEnds, Flags
  <2> QED
    BY <1>1, <2>1 DEF LoopEnds, Stores
<1>2. ASSUME NEW p \in Picture, RunFrame(p) PROVE Flags' /\ Stores'
  <2>1. Flags'
    BY <1>2, Zenon DEF RunFrame, Flags
  <2> QED
    BY <1>2, <2>1 DEF RunFrame, Stores
<1>3. CASE frame_publish
  <2>1. Flags'
    BY <1>3, Zenon DEF frame_publish, Flags
  <2> QED
    BY <1>3, <2>1 DEF frame_publish, Stores, ThreadInv
<1>4. CASE Notify
  <2>1. Flags'
    BY <1>4, Zenon DEF Notify, Flags
  <2> QED
    BY <1>4, <2>1 DEF Notify, Stores
<1>5. CASE onFrame
  <2>1. Flags'
    BY <1>5, Zenon DEF onFrame, Flags
  <2> QED
    BY <1>5, <2>1 DEF onFrame, Stores, CallInv
<1>6. CASE Post
  <2>1. Flags'
    BY <1>6, Zenon DEF Post, Flags
  <2> QED
    BY <1>6, <2>1 DEF Post, Stores, CallInv
<1> QED
  BY <1>1, <1>2, <1>3, <1>4, <1>5, <1>6 DEF Machine

LEMMA GuiType == Flags /\ Stores /\ Gui => Flags' /\ Stores'
<1> SUFFICES ASSUME Flags, Stores, Gui PROVE Flags' /\ Stores'
  OBVIOUS
<1> USE SlotAssumption DEF slot, running, feeds, widget
<1>1. Flags'
  BY Zenon DEF Gui, MakeFeed, SetActive, SetInactive, DestroyFeed, deliver, Copy,
               coleco_host_start, StopBegin, StopJoined, Flags
<1>2. ASSUME NEW f \in Feed, MakeFeed(f) \/ SetActive(f) \/ SetInactive(f) \/ DestroyFeed(f)
      PROVE  Stores'
  BY <1>2 DEF MakeFeed, SetActive, SetInactive, DestroyFeed, Stores
<1>3. ASSUME NEW f \in Feed, deliver(f) PROVE Stores'
  BY <1>3 DEF deliver, Stores
<1>4. ASSUME NEW f \in Feed, Copy(f) PROVE Stores'
  BY <1>4 DEF Copy, Stores
<1>5. CASE coleco_host_start \/ StopBegin \/ StopJoined
  BY <1>1, <1>5 DEF coleco_host_start, StopBegin, StopJoined, Stores
<1> QED
  BY <1>1, <1>2, <1>3, <1>4, <1>5 DEF Gui

LEMMA MachineSlotInv == Flags /\ Stores /\ SlotInv /\ Machine => SlotInv'
<1> SUFFICES ASSUME Flags, Stores, SlotInv, Machine PROVE SlotInv'
  OBVIOUS
<1> USE SlotAssumption DEF Stores, SlotInv, CallInv, ThreadInv, PostInv, LookInv,
                           slot, running, feeds, widget
<1>1. CASE LoopEnds
  BY <1>1 DEF LoopEnds
<1>2. ASSUME NEW p \in Picture, RunFrame(p) PROVE SlotInv'
  BY <1>2 DEF RunFrame
<1>3. CASE frame_publish
  BY <1>3 DEF frame_publish
<1>4. CASE Notify
  BY <1>4 DEF Notify
<1>5. CASE onFrame
  BY <1>5 DEF onFrame
<1>6. CASE Post
  BY <1>6 DEF Post
<1> QED
  BY <1>1, <1>2, <1>3, <1>4, <1>5, <1>6 DEF Machine

LEMMA GuiSlotInv == Flags /\ Stores /\ SlotInv /\ Gui => SlotInv'
<1> SUFFICES ASSUME Flags, Stores, SlotInv, Gui PROVE SlotInv'
  OBVIOUS
<1> USE SlotAssumption DEF Stores, SlotInv, CallInv, ThreadInv, PostInv, LookInv,
                           slot, running, feeds, widget
<1>1. ASSUME NEW f \in Feed, MakeFeed(f) PROVE SlotInv'
  BY <1>1 DEF MakeFeed
<1>2. ASSUME NEW f \in Feed, SetActive(f) PROVE SlotInv'
  BY <1>2 DEF SetActive, CbLockFree
<1>3. ASSUME NEW f \in Feed, SetInactive(f) PROVE SlotInv'
  BY <1>3 DEF SetInactive, CbLockFree
<1>4. ASSUME NEW f \in Feed, DestroyFeed(f) PROVE SlotInv'
  BY <1>4 DEF DestroyFeed
<1>5. ASSUME NEW f \in Feed, deliver(f) PROVE SlotInv'
  BY <1>5 DEF deliver
<1>6. ASSUME NEW f \in Feed, Copy(f) PROVE SlotInv'
  BY <1>6 DEF Copy
<1>7. CASE coleco_host_start
  BY <1>7 DEF coleco_host_start
<1>8. CASE StopBegin \/ StopJoined
  BY <1>8 DEF StopBegin, StopJoined
<1> QED
  BY <1>1, <1>2, <1>3, <1>4, <1>5, <1>6, <1>7, <1>8 DEF Gui

LEMMA NextSlot == TypeOK /\ SlotInv /\ [Next]_vars => TypeOK' /\ SlotInv'
<1> SUFFICES ASSUME Flags, Stores, SlotInv, [Next]_vars PROVE Flags' /\ Stores' /\ SlotInv'
  BY Parts DEF TypeOK, Flags, Stores
<1>1. CASE Next
  BY <1>1, MachineType, GuiType, MachineSlotInv, GuiSlotInv DEF Next, SlotInv
<1>2. CASE UNCHANGED vars
  <2>1. Flags'
    BY <1>2, Zenon DEF vars, slot, running, Flags
  <2> QED
    BY <1>2, <2>1 DEF vars, slot, running, feeds, widget, Stores, SlotInv, CallInv, ThreadInv,
                      PostInv, LookInv
<1> QED
  BY <1>1, <1>2

\* No step of a display steps outside the slot's.
LEMMA SlotSteps == [DisplaysNext]_dvars => [Next]_vars
BY DEF DisplaysNext, dvars, Slot, Next, Gui

-----------------------------------------------------------------------------
(* The displays that pull.                                                 *)

\* A clock that ticks watches; one that was stopped has ended, unless the exit
\* gave up waiting for it.
ClockInv ==
  /\ frontend = "gnome" => clock \in {"off", "ended"}
  /\ frontend = "kde" => clock = "off" /\ exit = "no"
  /\ frontend \in {"macos", "windows"} /\ clock \notin {"off", "ended"} => seen
  /\ ~MayStall /\ exit \in {"stopped", "gone"} => clock = "ended"

\* Who has the newest version has the newest picture.
CopyInv ==
  /\ serial <= s_frame_serial
  /\ serial = s_frame_serial => fbuf = s_frame

\* The halves are converted in turn, and what is on the screen is the picture
\* copied last unless a request to draw is still to come.
HalvesInv ==
  frontend \in {"macos", "windows"} =>
    /\ clock # "first" => rgb[1] = fbuf
    /\ clock \notin {"first", "second"} => rgb[2] = fbuf
    /\ clock \in {"off", "idle", "ended"} /\ ~told /\ ~dirty =>
         screen[1] = fbuf /\ (drawing \/ screen[2] = fbuf)

\* GNOME's texture has the picture copied last, and what is on the screen is
\* the texture unless it is still to be drawn.  No buffer is written to that is
\* on the screen.
TextureInv ==
  /\ frontend # "gnome" => texture = None /\ onscreen = None /\ held = {}
  /\ texture # None => px[texture] = fbuf
  /\ onscreen # None => onscreen \in held /\ px[onscreen] = drawn
  /\ frontend = "gnome" /\ exit = "no" =>
       /\ texture = None => onscreen = None /\ fbuf = Black
       /\ ~dirty => onscreen = texture

\* No spare buffer is lent, and each that is lent has a reference, as has the
\* display.
PoolInv ==
  /\ IsFiniteSet(held) /\ IsFiniteSet(spare)
  /\ spare \cap Lent(texture, held) = {}
  /\ refs = Cardinality(Lent(texture, held))
              + (IF exit = "no" \/ frontend # "gnome" THEN 1 ELSE 0)

PullInv == ClockInv /\ CopyInv /\ HalvesInv /\ TextureInv /\ PoolInv

IInv == DisplaysTypeOK /\ SlotInv /\ PullInv

DisplayFlags == {seen, told, dirty, drawing} \subseteq BOOLEAN
DisplayStores ==
  /\ frontend \in Frontend /\ exit \in {"no", "asked", "stopped", "gone"}
  /\ clock \in {"off", "idle", "first", "second", "tell", "ended"}
  /\ serial \in 0..MaxSerial /\ fbuf \in Picture
  /\ rgb \in [1..2 -> Picture] /\ screen \in [1..2 -> Picture]
  /\ {texture, onscreen} \subseteq Buffer \cup {None}
  /\ held \subseteq Buffer /\ spare \subseteq Buffer /\ refs \in Nat
  /\ px \in [Buffer -> Picture] /\ drawn \in Picture

LEMMA PullParts == DisplaysTypeOK <=> TypeOK /\ DisplayFlags /\ DisplayStores
BY Zenon DEF DisplaysTypeOK, DisplayFlags, DisplayStores

LEMMA InitIInv == DisplaysInit => IInv
<1> SUFFICES ASSUME DisplaysInit PROVE IInv
  OBVIOUS
<1> USE SlotAssumption, DisplayAssumption
<1>1. TypeOK /\ SlotInv
  BY InitSlot DEF DisplaysInit
<1>2. DisplayFlags
  BY DEF DisplaysInit, DisplayFlags
<1>3. DisplayStores
  BY DEF DisplaysInit, Init, DisplayStores
<1>4. ClockInv /\ CopyInv /\ HalvesInv /\ TextureInv
  BY DEF DisplaysInit, Init, ClockInv, CopyInv, HalvesInv, TextureInv
<1>5. PoolInv
  BY FS_EmptySet DEF DisplaysInit, PoolInv, Lent
<1> QED
  BY <1>1, <1>2, <1>3, <1>4, <1>5, PullParts DEF IInv, PullInv

\* A step of the machine or of KDE's window leaves the other displays alone.
LEMMA SlotIInv == IInv /\ (Slot \/ UNCHANGED vars) /\ UNCHANGED pull => IInv'
<1> SUFFICES ASSUME IInv, Slot \/ UNCHANGED vars, UNCHANGED pull PROVE IInv'
  OBVIOUS
<1>1. TypeOK' /\ SlotInv'
  BY NextSlot, PullParts DEF IInv, Slot, Next, Gui
<1>2. DisplayFlags'
  BY PullParts, Zenon DEF IInv, pull, clocks, window, DisplayFlags
<1>3. DisplayStores'
  BY PullParts DEF IInv, pull, clocks, window, textures, DisplayStores
<1>4. CopyInv'
  <2>1. \/ UNCHANGED <<s_frame, s_frame_serial>>
        \/ s_frame_serial' = s_frame_serial + 1
    BY DEF Slot, Machine, Gui, LoopEnds, RunFrame, frame_publish, Notify, onFrame, Post, MakeFeed,
           SetActive, SetInactive, DestroyFeed, deliver, Copy, coleco_host_start, StopBegin,
           StopJoined, vars, slot
  <2>2. UNCHANGED <<serial, fbuf>>
    BY DEF pull, clocks
  <2>3. serial \in Nat /\ s_frame_serial \in Nat
    BY PullParts, Parts, SlotAssumption DEF IInv, DisplayStores, Stores
  <2> QED
    BY <2>1, <2>2, <2>3 DEF IInv, PullInv, CopyInv
<1>5. ClockInv' /\ HalvesInv' /\ TextureInv' /\ PoolInv'
  <2>1. ClockInv'
    BY DEF IInv, PullInv, pull, clocks, ClockInv
  <2>2. HalvesInv'
    BY DEF IInv, PullInv, pull, clocks, window, HalvesInv
  <2>3. TextureInv'
    BY DEF IInv, PullInv, pull, clocks, window, textures, TextureInv
  <2>4. PoolInv'
    BY DEF IInv, PullInv, pull, textures, PoolInv, Lent
  <2> QED
    BY <2>1, <2>2, <2>3, <2>4
<1>6. DisplaysTypeOK'
  BY <1>1, <1>2, <1>3, Zenon DEF DisplaysTypeOK, DisplayFlags, DisplayStores
<1> QED
  BY <1>1, <1>4, <1>5, <1>6 DEF IInv, PullInv

LEMMA DrawsClock == DisplayFlags /\ ClockInv /\ Draws => ClockInv'
BY DEF Draws, StartClock, Pulls, convert_frame, Tell, setNeedsDisplay, Paint, PaintEnds, Exposed,
       on_tick, snapshot, Drops, update_tick, Quit, PresentEnds, StopClock, Free, UiIdle,
       clocks, window, textures, Then, ClockInv, DisplayFlags

LEMMA DrawsCopy ==
  Flags /\ Stores /\ DisplayStores /\ CopyInv /\ Draws /\ UNCHANGED vars => CopyInv'
<1> SUFFICES ASSUME Stores, DisplayStores, CopyInv, Draws, UNCHANGED vars PROVE CopyInv'
  OBVIOUS
<1>1. UNCHANGED <<s_frame, s_frame_serial>>
  BY DEF vars, slot
<1>2. s_frame_serial \in Nat
  BY SlotAssumption DEF Stores
<1>3. \/ UNCHANGED <<serial, fbuf>>
      \/ serial' = s_frame_serial /\ fbuf' = s_frame
  BY DEF Draws, StartClock, Pulls, convert_frame, Tell, setNeedsDisplay, Paint, PaintEnds,
         Exposed, on_tick, snapshot, Drops, update_tick, Quit, PresentEnds, StopClock, Free,
         clocks, window, textures
<1> QED
  BY <1>1, <1>2, <1>3 DEF CopyInv

LEMMA DrawsHalves ==
  DisplayFlags /\ DisplayStores /\ ClockInv /\ HalvesInv /\ Draws => HalvesInv'
<1> SUFFICES ASSUME DisplayFlags, DisplayStores, ClockInv, HalvesInv, Draws,
                    frontend \in {"macos", "windows"}
             PROVE  HalvesInv'
  BY DEF Draws, StartClock, Pulls, convert_frame, Tell, setNeedsDisplay, Paint, PaintEnds,
         Exposed, on_tick, snapshot, Drops, update_tick, Quit, PresentEnds, StopClock, Free,
         HalvesInv
<1> USE DEF HalvesInv, clocks, window, textures
<1>1. CASE StartClock \/ setNeedsDisplay \/ Exposed \/ snapshot \/ update_tick
             \/ PresentEnds \/ StopClock \/ Free
  BY <1>1 DEF StartClock, setNeedsDisplay, Exposed, snapshot, update_tick, PresentEnds, StopClock,
              Free
<1>2. CASE Pulls
  BY <1>2 DEF Pulls, Then
<1>3. ASSUME NEW h \in 1..2, convert_frame(h) PROVE HalvesInv'
  <2>1. CASE h = 1
    BY <1>3, <2>1 DEF convert_frame, Then, DisplayStores
  <2>2. CASE h = 2
    BY <1>3, <2>2 DEF convert_frame, Then, DisplayStores
  <2> QED
    BY <2>1, <2>2
<1>4. CASE Tell
  BY <1>4 DEF Tell, Then
<1>5. CASE Paint
  BY <1>5 DEF Paint, DisplayStores
<1>6. CASE PaintEnds
  BY <1>6 DEF PaintEnds, DisplayStores
<1>7. CASE on_tick \/ (\E b \in Buffer : Drops(b)) \/ Quit
  BY <1>7 DEF on_tick, Drops, Quit
<1> QED
  BY <1>1, <1>2, <1>3, <1>4, <1>5, <1>6, <1>7 DEF Draws

\* The buffer that is taken is lent to nobody.
LEMMA Taken ==
  ASSUME DisplayStores, PoolInv, pool_take # {}
  PROVE  LET b == CHOOSE x \in pool_take : TRUE IN b \in Buffer \ Lent(texture, held)
BY DEF DisplayStores, PoolInv, pool_take

LEMMA DrawsTexture ==
  DisplayFlags /\ DisplayStores /\ ClockInv /\ PoolInv /\ TextureInv /\ Draws => TextureInv'
<1> SUFFICES ASSUME DisplayFlags, DisplayStores, ClockInv, PoolInv, TextureInv, Draws
             PROVE  TextureInv'
  OBVIOUS
<1> USE DisplayAssumption DEF TextureInv, clocks, window, textures, UiIdle
<1>1. CASE StartClock \/ (\E half \in 1..2 : convert_frame(half)) \/ Tell
             \/ setNeedsDisplay \/ Paint \/ PaintEnds \/ Exposed \/ PresentEnds \/ StopClock \/ Free
  BY <1>1 DEF StartClock, convert_frame, Tell, setNeedsDisplay, Paint, PaintEnds,
              Exposed, PresentEnds, StopClock, Free
<1>2. CASE Pulls
  BY <1>2 DEF Pulls
<1>3. CASE on_tick
  <2> DEFINE b == CHOOSE x \in pool_take : TRUE
  <2>1. b \in Buffer \ Lent(texture, held)
    BY <1>3, Taken DEF on_tick
  <2>2. /\ frontend = "gnome" /\ exit = "no" /\ fbuf' = s_frame
        /\ px' = [px EXCEPT ![b] = s_frame] /\ texture' = b /\ dirty' = TRUE
        /\ UNCHANGED <<frontend, exit, onscreen, held, drawn>>
    BY <1>3 DEF on_tick
  <2> HIDE DEF b
  <2> QED
    BY <2>1, <2>2 DEF Lent, DisplayStores
<1>4. CASE snapshot
  BY <1>4 DEF snapshot, DisplayStores
<1>5. ASSUME NEW b \in Buffer, Drops(b) PROVE TextureInv'
  BY <1>5 DEF Drops
<1>6. CASE update_tick
  BY <1>6 DEF update_tick
<1>7. CASE Quit
  BY <1>7 DEF Quit, ClockInv
<1> QED
  BY <1>1, <1>2, <1>3, <1>4, <1>5, <1>6, <1>7 DEF Draws

\* What a set has more and what it has less than another one accounts for the
\* difference of their sizes.
LEMMA Exchange ==
  ASSUME NEW S, NEW T, IsFiniteSet(S), IsFiniteSet(T)
  PROVE  /\ Cardinality(T) \in Nat /\ Cardinality(S \ T) \in Nat /\ Cardinality(T \ S) \in Nat
         /\ Cardinality(T) = Cardinality(S) - Cardinality(S \ T) + Cardinality(T \ S)
<1>1. Cardinality(S \ T) = Cardinality(S) - Cardinality(S \cap T)
  BY FS_Difference
<1>2. Cardinality(T \ S) = Cardinality(T) - Cardinality(T \cap S)
  BY FS_Difference
<1>3. S \cap T = T \cap S /\ Cardinality(S \cap T) = Cardinality(T \cap S)
  <2>1. S \cap T = T \cap S
    OBVIOUS
  <2> QED
    BY <2>1, Zenon
<1>4. IsFiniteSet(S \ T) /\ IsFiniteSet(T \ S)
  BY FS_Difference
<1>5. /\ Cardinality(S) \in Nat /\ Cardinality(T) \in Nat /\ Cardinality(S \cap T) \in Nat
      /\ Cardinality(S \ T) \in Nat /\ Cardinality(T \ S) \in Nat
  BY <1>4, FS_CardinalityType, FS_Intersection
<1> DEFINE s == Cardinality(S)  t == Cardinality(T)  c == Cardinality(S \cap T)
           u == Cardinality(S \ T)  v == Cardinality(T \ S)
<1>6. s \in Nat /\ t \in Nat /\ c \in Nat /\ u \in Nat /\ v \in Nat /\ u = s - c /\ v = t - c
  BY <1>1, <1>2, <1>3, <1>5, Zenon
<1> HIDE DEF s, t, c, u, v
<1>7. t = s - u + v
  BY <1>6
<1> QED
  BY <1>5, <1>7 DEF s, t, u, v

\* A buffer that comes back goes to the pool or is freed, and takes its
\* reference with it.
LEMMA Returned ==
  ASSUME NEW disp, NEW gsk, NEW kept, NEW count \in Nat,
         IsFiniteSet(Lent(texture, held)), IsFiniteSet(Lent(disp, gsk)), IsFiniteSet(kept),
         kept \cap Lent(disp, gsk) = {},
         Cardinality(Lent(texture, held) \ Lent(disp, gsk)) <= count,
         Released(disp, gsk, kept, count)
  PROVE  /\ refs' = count - Cardinality(Lent(texture, held) \ Lent(disp, gsk))
         /\ refs' \in Nat
         /\ IsFiniteSet(spare')
         /\ spare' \subseteq kept \cup Lent(texture, held)
         /\ spare' \cap Lent(disp, gsk) = {}
<1> DEFINE back == Lent(texture, held) \ Lent(disp, gsk)
<1>1. IsFiniteSet(back) /\ Cardinality(back) \in Nat
  BY FS_Difference, FS_CardinalityType
<1>2. refs' = count - Cardinality(back)
  BY DEF Released
<1>3. spare' \in {{}, kept \cup back, kept}
  BY DEF Released
<1>4. IsFiniteSet(kept \cup back)
  BY <1>1, FS_Union
<1> QED
  BY <1>1, <1>2, <1>3, <1>4, FS_EmptySet

LEMMA LentFinite ==
  ASSUME NEW disp, NEW gsk, IsFiniteSet(gsk)
  PROVE  IsFiniteSet(Lent(disp, gsk))
<1>1. Lent(disp, gsk) = gsk \/ Lent(disp, gsk) = gsk \cup {disp}
  BY DEF Lent
<1> QED
  BY <1>1, FS_AddElement

LEMMA DrawsPool ==
  DisplayStores /\ ClockInv /\ TextureInv /\ PoolInv /\ Draws
    => PoolInv' /\ refs' \in Nat /\ spare' \subseteq Buffer
<1> SUFFICES ASSUME DisplayStores, ClockInv, TextureInv, PoolInv, Draws
             PROVE  PoolInv' /\ refs' \in Nat /\ spare' \subseteq Buffer
  OBVIOUS
<1> DEFINE old == Lent(texture, held)
           Good == PoolInv' /\ refs' \in Nat /\ spare' \subseteq Buffer
<1> USE DisplayAssumption
<1>0. /\ IsFiniteSet(old) /\ Cardinality(old) \in Nat /\ old \subseteq Buffer
      /\ spare \subseteq Buffer /\ IsFiniteSet(held) /\ IsFiniteSet(spare)
      /\ spare \cap old = {}
      /\ refs \in Nat
      /\ refs = Cardinality(old) + (IF exit = "no" \/ frontend # "gnome" THEN 1 ELSE 0)
  BY LentFinite, FS_CardinalityType DEF PoolInv, DisplayStores, Lent
<1>1. CASE StartClock \/ Pulls \/ (\E half \in 1..2 : convert_frame(half)) \/ Tell
             \/ setNeedsDisplay \/ Paint \/ PaintEnds \/ Exposed \/ update_tick
             \/ PresentEnds \/ StopClock \/ Free
  <2>1. UNCHANGED <<texture, held, spare, refs, frontend>> /\ (exit' = exit \/ exit # "no" \/ frontend # "gnome")
    BY <1>1 DEF StartClock, Pulls, convert_frame, Tell, setNeedsDisplay, Paint, PaintEnds,
                Exposed, update_tick, PresentEnds, StopClock, Free, textures
  <2>2. exit' # "no" \/ exit' = exit
    BY <1>1 DEF StartClock, Pulls, convert_frame, Tell, setNeedsDisplay, Paint, PaintEnds,
                Exposed, update_tick, PresentEnds, StopClock, Free
  <2> QED
    BY <1>0, <2>1, <2>2 DEF PoolInv
<1>2. CASE on_tick
  <2> DEFINE b == CHOOSE x \in pool_take : TRUE
  <2>1. b \in Buffer \ old
    BY <1>2, Taken DEF on_tick
  <2>2. /\ Released(b, held, spare \ {b}, refs + 1)
        /\ texture' = b /\ exit = "no" /\ UNCHANGED <<held, exit, frontend>>
    BY <1>2 DEF on_tick, UiIdle
  <2> HIDE DEF b
  <2> DEFINE new == Lent(b, held)
  <2>3. new = held \cup {b} /\ IsFiniteSet(new) /\ Lent(texture, held)' = new
    BY <2>1, <2>2, <1>0, LentFinite DEF Lent
  <2>4. new \ old = {b}
    BY <2>1, <2>3 DEF Lent
  <2>5. /\ Cardinality(new) = Cardinality(old) - Cardinality(old \ new) + 1
        /\ Cardinality(old \ new) \in Nat /\ Cardinality(old \ new) <= Cardinality(old)
        /\ Cardinality(new) \in Nat
    <3>1. Cardinality(new \ old) = 1
      BY <2>4, FS_Singleton
    <3>2. Cardinality(old \ new) <= Cardinality(old)
      BY <1>0, FS_Subset
    <3> QED
      BY <3>1, <3>2, <1>0, <2>3, Exchange
  <2>6. IsFiniteSet(spare \ {b}) /\ (spare \ {b}) \cap new = {}
    BY <1>0, <2>3, FS_Difference DEF Lent
  <2>7. /\ refs' = (refs + 1) - Cardinality(old \ new) /\ refs' \in Nat
        /\ IsFiniteSet(spare') /\ spare' \subseteq (spare \ {b}) \cup old
        /\ spare' \cap new = {}
    <3>1. Cardinality(Lent(texture, held) \ Lent(b, held)) <= refs + 1
      BY <2>5, <1>0 DEF new
    <3> DEFINE kept == spare \ {b}  count == refs + 1
    <3>2. /\ count \in Nat /\ IsFiniteSet(kept) /\ kept \cap Lent(b, held) = {}
          /\ IsFiniteSet(Lent(texture, held)) /\ IsFiniteSet(Lent(b, held))
          /\ Released(b, held, kept, count)
      BY <1>0, <2>2, <2>3, <2>6 DEF new
    <3>3. /\ refs' = count - Cardinality(Lent(texture, held) \ Lent(b, held))
          /\ refs' \in Nat
          /\ IsFiniteSet(spare') /\ spare' \subseteq kept \cup Lent(texture, held)
          /\ spare' \cap Lent(b, held) = {}
      <4>1. Cardinality(Lent(texture, held) \ Lent(b, held)) <= count
        BY <3>1
      <4> HIDE DEF kept, count
      <4> QED
        BY <4>1, <3>2, Returned
    <3> QED
      BY <3>3
  <2> QED
    BY <1>0, <2>1, <2>2, <2>3, <2>5, <2>7 DEF PoolInv
<1>3. CASE snapshot
  <2>1. Lent(texture, held)' = old
    BY <1>3 DEF snapshot, Lent
  <2>2. IsFiniteSet(held')
    <3>1. held' = held \/ held' = held \cup {texture}
      BY <1>3 DEF snapshot
    <3> QED
      BY <3>1, <1>0, FS_AddElement
  <2>3. UNCHANGED <<spare, refs, exit, frontend>>
    BY <1>3 DEF snapshot
  <2> QED
    BY <1>0, <2>1, <2>2, <2>3 DEF PoolInv
<1>4. ASSUME NEW b \in Buffer, Drops(b) PROVE Good
  <2> DEFINE new == Lent(texture, held \ {b})
  <2>1. /\ held' = held \ {b} /\ UNCHANGED <<texture, exit, frontend>>
        /\ Released(texture, held \ {b}, spare, refs)
    BY <1>4 DEF Drops
  <2>2. IsFiniteSet(held') /\ IsFiniteSet(new) /\ Lent(texture, held)' = new
    BY <2>1, <1>0, FS_RemoveElement, LentFinite DEF Lent
  <2>3. new \subseteq old /\ new \ old = {} /\ spare \cap new = {}
    BY <1>0 DEF Lent
  <2>4. /\ Cardinality(new) = Cardinality(old) - Cardinality(old \ new)
        /\ Cardinality(old \ new) \in Nat /\ Cardinality(old \ new) <= refs
        /\ Cardinality(new) \in Nat
    <3>1. Cardinality(new \ old) = 0
      BY <2>3, FS_EmptySet
    <3>2. Cardinality(old \ new) <= Cardinality(old)
      BY <1>0, FS_Subset
    <3>3. /\ Cardinality(new) \in Nat /\ Cardinality(old \ new) \in Nat
          /\ Cardinality(new) = Cardinality(old) - Cardinality(old \ new) + Cardinality(new \ old)
      BY <1>0, <2>2, Exchange, Zenon
    <3> HIDE DEF old, new
    <3> QED
      BY <3>1, <3>2, <3>3, <1>0
  <2>5. /\ refs' = refs - Cardinality(old \ new) /\ refs' \in Nat
        /\ IsFiniteSet(spare') /\ spare' \subseteq spare \cup old
        /\ spare' \cap new = {}
    <3> DEFINE gsk == held \ {b}
    <3>1. Released(texture, gsk, spare, refs)
      BY <2>1
    <3>2. /\ IsFiniteSet(Lent(texture, gsk)) /\ spare \cap Lent(texture, gsk) = {}
          /\ Cardinality(Lent(texture, held) \ Lent(texture, gsk)) <= refs
          /\ IsFiniteSet(Lent(texture, held)) /\ IsFiniteSet(spare) /\ refs \in Nat
      BY <1>0, <2>2, <2>3, <2>4
    <3>3. /\ refs' = refs - Cardinality(Lent(texture, held) \ Lent(texture, gsk))
          /\ refs' \in Nat
          /\ IsFiniteSet(spare') /\ spare' \subseteq spare \cup Lent(texture, held)
          /\ spare' \cap Lent(texture, gsk) = {}
      <4> HIDE DEF gsk
      <4> QED
        BY <3>1, <3>2, Returned
    <3> QED
      BY <3>3
  <2> QED
    <3> HIDE DEF old, new
    <3>1. refs' = Cardinality(new) + (IF exit = "no" \/ frontend # "gnome" THEN 1 ELSE 0)
      BY <1>0, <2>4, <2>5
    <3> QED
      BY <1>0, <2>1, <2>2, <2>5, <3>1 DEF PoolInv
<1>5. CASE Quit
  <2>1. CASE frontend # "gnome"
    BY <1>5, <2>1, <1>0 DEF Quit, textures, PoolInv
  <2>2. CASE frontend = "gnome"
    <3> DEFINE new == Lent(None, held)
    <3>1. /\ UNCHANGED <<held, frontend>> /\ texture' = None /\ exit = "no" /\ exit' = "stopped"
          /\ Released(None, held, spare, refs - 1)
      BY <1>5, <2>2 DEF Quit, UiIdle
    <3>2. IsFiniteSet(new) /\ Lent(texture, held)' = new
      BY <3>1, <1>0, LentFinite DEF Lent
    <3>3. new \subseteq old /\ new \ old = {} /\ spare \cap new = {}
      BY <1>0 DEF Lent
    <3>4. /\ Cardinality(new) = Cardinality(old) - Cardinality(old \ new)
          /\ Cardinality(old \ new) \in Nat /\ Cardinality(old \ new) <= refs - 1
          /\ Cardinality(new) \in Nat /\ refs - 1 \in Nat
      <4>1. Cardinality(new \ old) = 0
        BY <3>3, FS_EmptySet
      <4>2. Cardinality(old \ new) <= Cardinality(old)
        BY <1>0, FS_Subset
      <4> QED
        <5>1. /\ Cardinality(new) \in Nat /\ Cardinality(old \ new) \in Nat
              /\ Cardinality(new) = Cardinality(old) - Cardinality(old \ new)
                                     + Cardinality(new \ old)
          BY <1>0, <3>2, Exchange, Zenon
        <5> HIDE DEF old, new
        <5> QED
          BY <4>1, <4>2, <5>1, <3>1, <1>0
    <3>5. /\ refs' = refs - 1 - Cardinality(old \ new) /\ refs' \in Nat
          /\ IsFiniteSet(spare') /\ spare' \subseteq spare \cup old
          /\ spare' \cap new = {}
      BY <1>0, <3>1, <3>2, <3>3, <3>4, Returned
    <3> QED
      BY <1>0, <2>2, <3>1, <3>2, <3>4, <3>5 DEF PoolInv
  <2> QED
    BY <2>1, <2>2
<1> QED
  BY <1>1, <1>2, <1>3, <1>4, <1>5 DEF Draws

LEMMA DrawsType ==
  Stores /\ DisplayFlags /\ DisplayStores /\ PoolInv /\ refs' \in Nat /\ spare' \subseteq Buffer
    /\ Draws => DisplayFlags' /\ DisplayStores'
<1> SUFFICES ASSUME Stores, DisplayFlags, DisplayStores, PoolInv, refs' \in Nat,
                    spare' \subseteq Buffer, Draws
             PROVE  DisplayFlags' /\ DisplayStores'
  OBVIOUS
<1>1. DisplayFlags'
  BY DEF Draws, StartClock, Pulls, convert_frame, Tell, setNeedsDisplay, Paint, PaintEnds,
         Exposed, on_tick, snapshot, Drops, update_tick, Quit, PresentEnds, StopClock, Free,
         clocks, window, textures, DisplayFlags
<1> USE DEF DisplayStores, clocks, window, textures
<1>2. CASE StartClock \/ setNeedsDisplay \/ Exposed \/ update_tick \/ PresentEnds \/ StopClock
             \/ Free
  BY <1>1, <1>2 DEF StartClock, setNeedsDisplay, Exposed, update_tick, PresentEnds, StopClock, Free
<1>3. CASE Pulls \/ Tell
  BY <1>1, <1>3 DEF Pulls, Tell, Then, Stores
<1>4. ASSUME NEW h \in 1..2, convert_frame(h) PROVE DisplayStores'
  <2>1. h = 1 \/ h = 2
    OBVIOUS
  <2> QED
    BY <2>1, <1>4 DEF convert_frame, Then
<1>5. CASE Paint \/ PaintEnds
  BY <1>1, <1>5 DEF Paint, PaintEnds
<1>6. CASE on_tick
  <2> DEFINE b == CHOOSE x \in pool_take : TRUE
  <2>1. b \in Buffer
    BY <1>6, Taken DEF on_tick
  <2>2. /\ serial' = s_frame_serial /\ fbuf' = s_frame
        /\ px' = [px EXCEPT ![b] = s_frame] /\ texture' = b
        /\ UNCHANGED <<frontend, exit, clock, rgb, screen, onscreen, held, drawn>>
    BY <1>6 DEF on_tick
  <2> HIDE DEF b
  <2> QED
    BY <1>1, <2>1, <2>2 DEF Stores
<1>7. CASE snapshot
  BY <1>1, <1>7 DEF snapshot
<1>8. ASSUME NEW b \in Buffer, Drops(b) PROVE DisplayStores'
  BY <1>8 DEF Drops
<1>9. CASE Quit
  BY <1>1, <1>9 DEF Quit
<1> QED
  BY <1>1, <1>2, <1>3, <1>4, <1>5, <1>6, <1>7, <1>8, <1>9 DEF Draws

LEMMA NextIInv == IInv /\ [DisplaysNext]_dvars => IInv'
<1> SUFFICES ASSUME IInv, [DisplaysNext]_dvars PROVE IInv'
  OBVIOUS
<1>1. CASE (Slot \/ UNCHANGED vars) /\ UNCHANGED pull
  BY <1>1, SlotIInv
<1>2. CASE Draws /\ UNCHANGED vars
  <2>1. /\ Flags /\ Stores /\ DisplayFlags /\ DisplayStores /\ TypeOK
        /\ SlotInv /\ ClockInv /\ CopyInv /\ HalvesInv /\ TextureInv /\ PoolInv
    BY PullParts, Parts DEF IInv, PullInv
  <2>2. TypeOK' /\ SlotInv'
    BY <1>2, <2>1, NextSlot
  <2>3. ClockInv' /\ CopyInv' /\ HalvesInv' /\ TextureInv'
    BY <1>2, <2>1, DrawsClock, DrawsCopy, DrawsHalves, DrawsTexture
  <2>4. PoolInv' /\ refs' \in Nat /\ spare' \subseteq Buffer
    BY <1>2, <2>1, DrawsPool
  <2>5. DisplayFlags' /\ DisplayStores'
    BY <1>2, <2>1, <2>4, DrawsType
  <2>6. DisplaysTypeOK'
    BY <2>2, <2>5, Zenon DEF DisplaysTypeOK, DisplayFlags, DisplayStores
  <2> QED
    BY <2>2, <2>3, <2>4, <2>6 DEF IInv, PullInv
<1> QED
  BY <1>1, <1>2 DEF DisplaysNext, dvars

\* The inductive invariant holds in every state.
THEOREM Invariance == DisplaysSpec => []IInv
BY InitIInv, NextIInv, PTL DEF DisplaysSpec

-----------------------------------------------------------------------------
(* What follows.                                                           *)

\* Nobody calls a display, or into a session, that is gone, where the exit does
\* not give up waiting for the present thread of Windows (MayStall): neither
\* frame_publish through the callback of KDE's feed, nor a tick
\* (core/coleco/host.c:coleco_host_set_frame_callback, windows/main.c:WinMain,
\* macos/DisplayView.m:stop).
THEOREM NobodyGoneIsCalled ==
  ASSUME ~MayStall PROVE DisplaysSpec => []NobodyCallsTheGone
<1>1. IInv => NobodyCallsTheGone
  BY DEF IInv, SlotInv, CallInv, PullInv, ClockInv, NobodyCallsTheGone, CallbackContextLives
<1> QED
  BY <1>1, Invariance, PTL

\* The callback's half of it holds whatever stalls.
THEOREM CallbackLives == DisplaysSpec => []CallbackContextLives
<1>1. IInv => CallbackContextLives
  BY DEF IInv, SlotInv, CallInv, CallbackContextLives
<1> QED
  BY <1>1, Invariance, PTL

\* What stays on the screen is one whole picture and the newest, GNOME's is the
\* one that was drawn, and the pool outlives what was lent.
THEOREM ScreenIsNewest == DisplaysSpec => []ScreenSettles
<1>1. ASSUME IInv PROVE ScreenSettles
  <2> USE <1>1, SlotAssumption, DisplayAssumption
  <2>1. NothingMissed
    BY PullParts, Parts DEF IInv, SlotInv, LookInv, NothingMissed, Stores
  <2>2. onscreen # None => px[onscreen] = drawn
    BY DEF IInv, PullInv, TextureInv
  <2>3. Lent(texture, held) # {} => refs > 0
    <3>1. IsFiniteSet(Lent(texture, held))
      BY LentFinite DEF IInv, PullInv, PoolInv
    <3>2. /\ Cardinality(Lent(texture, held)) \in Nat
          /\ Lent(texture, held) # {} => Cardinality(Lent(texture, held)) # 0
      BY <3>1, FS_EmptySet, FS_CardinalityType
    <3> QED
      BY <3>2 DEF IInv, PullInv, PoolInv
  <2>4. ASSUME Settled PROVE Shown = [h \in 1..2 |-> s_frame]
    <3>1. fbuf = s_frame
      BY <2>4 DEF IInv, PullInv, CopyInv, Settled
    <3>2. CASE frontend = "gnome"
      BY <2>4, <3>1, <3>2 DEF IInv, PullInv, TextureInv, Settled, Shown
    <3>3. CASE frontend # "gnome"
      <4>1. screen \in [1..2 -> Picture] /\ frontend \in {"macos", "windows"}
        BY <2>4, <3>3, PullParts DEF IInv, DisplayStores, Settled
      <4>2. screen[1] = s_frame /\ screen[2] = s_frame
        BY <2>4, <3>1, <4>1 DEF IInv, PullInv, HalvesInv, Settled
      <4>3. \A h \in 1..2 : screen[h] = s_frame
        BY <4>2
      <4> QED
        BY <3>3, <4>1, <4>3 DEF Shown
    <3> QED
      BY <3>2, <3>3
  <2> QED
    BY <2>1, <2>2, <2>3, <2>4 DEF ScreenSettles
<1> QED
  BY <1>1, Invariance, PTL

-----------------------------------------------------------------------------
(* The board.                                                              *)

\* The board's variables, as the displays have them.
Viewers  == Feed \cup {Pull}
Watching == m_active \cup (IF seen THEN {Pull} ELSE {})
Seen     == [v \in Viewers |-> IF v = Pull THEN serial ELSE m_serial[v]]
Image    == [v \in Viewers |-> IF v = Pull THEN fbuf ELSE m_fb[v]]

BoardStep ==
  [Board!Next]_<<s_frame, s_frame_serial, s_frame_valid, Watching, Seen, Image>>

LEMMA BoardInit == DisplaysInit => Board!Init
BY SlotAssumption, DisplayAssumption DEF DisplaysInit, Init, Board!Init

\* A step of the machine puts a picture up, or none; KDE's window watches,
\* looks and looks away.
LEMMA SlotIsBoard == IInv /\ Slot /\ UNCHANGED pull => BoardStep
<1> SUFFICES ASSUME IInv, Slot, UNCHANGED pull PROVE BoardStep
  OBVIOUS
<1>1. Flags /\ Stores /\ CallInv
  BY PullParts, Parts DEF IInv, SlotInv
<1>2. UNCHANGED <<seen, serial, fbuf>>
  BY DEF pull, clocks
<1> USE <1>1, <1>2, SlotAssumption, DisplayAssumption
    DEF BoardStep, Viewers, Watching, Seen, Image, slot, feeds, widget
<1>3. CASE LoopEnds \/ (\E p \in Picture : RunFrame(p)) \/ Notify \/ onFrame \/ Post \/ StopJoined
             \/ StopBegin
  BY <1>3 DEF LoopEnds, RunFrame, Notify, onFrame, Post, StopJoined, StopBegin
<1>4. CASE frame_publish
  <2>1. CASE UNCHANGED slot
    BY <1>4, <2>1 DEF frame_publish
  <2>2. CASE ~ UNCHANGED slot
    <3>1. /\ s_frame_valid => fb # s_frame
          /\ s_frame' = fb /\ s_frame_serial' = s_frame_serial + 1 /\ s_frame_valid' = TRUE
          /\ UNCHANGED <<m_active, m_serial, m_fb>>
      BY <1>4, <2>2 DEF frame_publish
    <3>2. UNCHANGED <<Watching, Seen, Image>>
      BY <3>1
    <3>3. Board!Show(fb)
      BY <3>1, <3>2 DEF Board!Show
    <3> QED
      BY <3>3 DEF Board!Next, Stores
  <2> QED
    BY <2>1, <2>2
<1>5. CASE coleco_host_start
  <2>1. Board!NewRun
    BY <1>5 DEF coleco_host_start, Board!NewRun
  <2> QED
    BY <2>1 DEF Board!Next
<1>6. ASSUME NEW f \in Feed, MakeFeed(f) PROVE BoardStep
  <2>1. Board!Replace(f)
    BY <1>6 DEF MakeFeed, Board!Replace, CallInv, Stores
  <2> QED
    BY <2>1 DEF Board!Next
<1>7. ASSUME NEW f \in Feed, SetActive(f) PROVE BoardStep
  <2>1. Board!Watch(f)
    BY <1>7 DEF SetActive, Board!Watch
  <2> QED
    BY <2>1 DEF Board!Next
<1>8. ASSUME NEW f \in Feed, SetInactive(f) PROVE BoardStep
  <2>1. Board!LookAway(f)
    BY <1>8 DEF SetInactive, Board!LookAway
  <2> QED
    BY <2>1 DEF Board!Next
<1>9. ASSUME NEW f \in Feed, DestroyFeed(f) \/ deliver(f) PROVE BoardStep
  BY <1>9 DEF DestroyFeed, deliver
<1>10. ASSUME NEW f \in Feed, Copy(f) PROVE BoardStep
  <2>1. CASE f \in m_active /\ m_serial[f] # s_frame_serial
    <3>1. Board!Look(f)
      BY <1>10, <2>1 DEF Copy, Board!Look, Stores
    <3> QED
      BY <3>1 DEF Board!Next
  <2>2. CASE ~(f \in m_active /\ m_serial[f] # s_frame_serial)
    BY <1>10, <2>2 DEF Copy
  <2> QED
    BY <2>1, <2>2
<1> QED
  BY <1>3, <1>4, <1>5, <1>6, <1>7, <1>8, <1>9, <1>10 DEF Slot, Machine, Gui

\* A display that pulls watches while its clock ticks, and looks when it copies.
LEMMA DrawsIsBoard == IInv /\ Draws /\ UNCHANGED vars => BoardStep
<1> SUFFICES ASSUME IInv, Draws, UNCHANGED vars PROVE BoardStep
  OBVIOUS
<1>1. Flags /\ Stores /\ DisplayFlags /\ ClockInv
  BY PullParts, Parts DEF IInv, PullInv
<1>2. UNCHANGED <<s_frame, s_frame_serial, s_frame_valid, m_active, m_serial, m_fb>>
  BY DEF vars, slot, feeds, widget
<1> USE <1>1, <1>2, SlotAssumption, DisplayAssumption
    DEF BoardStep, Viewers, Watching, Seen, Image
<1>3. CASE UNCHANGED <<serial, fbuf>>
  <2>1. seen \in BOOLEAN /\ seen' \in BOOLEAN
    BY DrawsType, DrawsPool, PullParts, Parts DEF IInv, PullInv, DisplayFlags
  <2>2. UNCHANGED <<Seen, Image>>
    BY <1>3
  <2>3. CASE seen' = seen
    BY <1>3, <2>3
  <2>4. CASE ~seen /\ seen'
    <3>1. Board!Watch(Pull)
      BY <2>2, <2>4 DEF Board!Watch
    <3> QED
      BY <3>1 DEF Board!Next
  <2>5. CASE seen /\ ~seen'
    <3>1. Board!LookAway(Pull)
      BY <2>2, <2>5 DEF Board!LookAway, Stores
    <3> QED
      BY <3>1 DEF Board!Next
  <2> QED
    BY <2>1, <2>3, <2>4, <2>5
<1>4. CASE ~ UNCHANGED <<serial, fbuf>>
  <2>1. Pulls \/ on_tick
    BY <1>4 DEF Draws, StartClock, convert_frame, Tell, setNeedsDisplay, Paint, PaintEnds,
                Exposed, snapshot, Drops, update_tick, Quit, PresentEnds, StopClock, Free,
                clocks, window, textures
  <2>2. /\ seen /\ seen' /\ serial # s_frame_serial
        /\ serial' = s_frame_serial /\ fbuf' = s_frame
    BY <2>1 DEF Pulls, on_tick, ClockInv
  <2>3. Board!Look(Pull)
    BY <2>2 DEF Board!Look, Stores
  <2> QED
    BY <2>3 DEF Board!Next
<1> QED
  BY <1>3, <1>4

\* Every step of the displays and of the slot is a step of the board, or leaves
\* it alone (core/coleco/host.h: "latest-wins frame", copied by serial).
THEOREM BoardIsKept ==
  DisplaysSpec => Board!Init /\ [][Board!Next]_(Board!vars)
<1>1. IInv /\ [DisplaysNext]_dvars => [Board!Next]_(Board!vars)
  <2>1. BoardStep => [Board!Next]_(Board!vars)
    BY DEF BoardStep, Board!vars, Watching, Seen, Image, Viewers
  <2>2. UNCHANGED dvars => [Board!Next]_(Board!vars)
    BY DEF dvars, vars, pull, slot, feeds, widget, clocks, Board!vars
  <2> QED
    BY <2>1, <2>2, SlotIsBoard, DrawsIsBoard DEF DisplaysNext
<1> QED
  BY <1>1, BoardInit, Invariance, PTL DEF DisplaysSpec
=============================================================================
