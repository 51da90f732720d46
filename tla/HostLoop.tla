------------------------------ MODULE HostLoop ------------------------------
(***************************************************************************)
(* The pace of the machine thread (core/coleco/host.c): one frame per      *)
(* vsync tick while the ticks come at the machine's own rate, the wall     *)
(* clock's ladder of deadlines otherwise.  Time is counted in units, and   *)
(* every time is kept relative to now; of the smoothed tick interval only  *)
(* its nearness to the machine's frame is kept.                            *)
(***************************************************************************)
EXTENDS Integers, FiniteSets

CONSTANTS
  Frame,    \* frame_ns
  Stale,    \* VS_STALE_NS
  Works,    \* how long a frame may take to run; a break makes one long
  Gaps      \* the intervals at which a display may tick

ASSUME HostLoopAssumption ==
  /\ Frame \in Nat \ {0} /\ Stale \in Nat
  /\ Works \subseteq Nat \ {0} /\ Gaps \subseteq Nat \ {0}

VARIABLES
  pc,       \* "top" of the loop, in a "frame", waiting for a tick, asleep, "gone"
  left,     \* until the frame is done, the wait gives up, or the sleep ends
  since,    \* since frame_start
  next,     \* until the ladder's deadline
  locked,
  stop,     \* s_stop_req
  fresh,    \* s_vs_count is not vs_seen
  age,      \* since s_vs_seen_ns, no further than past Stale, where it begins
  period,   \* s_vs_period_ns: "none" yet, "near" the frame's, or "far" off
  tick,     \* until the display's next tick, or Hidden
  short,    \* history: frames in a row that took less than half a frame
  idle      \* history: how long the frame has been done

loop     == <<pc, left, since, next, locked, short, idle>>
vsync    == <<fresh, age, period>>
loopVars == <<loop, vsync, stop, tick>>

Hidden == -1
Past   == Stale + 1
MaxShort == 8   \* where the history stops counting

LoopTypeOK ==
  /\ pc \in {"top", "frame", "wait", "sleep", "gone"}
  /\ left \in Nat /\ since \in Nat /\ next \in Int
  /\ locked \in BOOLEAN /\ stop \in BOOLEAN /\ fresh \in BOOLEAN
  /\ age \in 0..Past /\ period \in {"none", "near", "far"}
  /\ tick \in {Hidden} \cup Nat /\ short \in 0..MaxShort /\ idle \in Nat

LoopInit ==
  /\ pc = "top" /\ left = 0 /\ since = 0 /\ next = 0
  /\ locked = FALSE /\ stop = FALSE
  /\ fresh = FALSE /\ age = Past /\ period = "none"
  /\ tick = Hidden /\ short = 0 /\ idle = 0

-----------------------------------------------------------------------------
(* The display, and the interface thread.                                  *)

\* Whether an interval is within eight percent of the frame.
Distance(d) == IF 100 * d \in (92 * Frame + 1)..(108 * Frame - 1) THEN "near" ELSE "far"

\* The intervals that may come of smoothing p by d: near ones stay near, and of
\* others, on either side of the frame, a mean may lie anywhere.
Smoothed(p, d) == IF p = "near" /\ d = "near" THEN {"near"} ELSE {"near", "far"}

\* coleco_host_notify_vsync: a tick.  The interval is smoothed, unless a pause
\* came before it.
notify_vsync ==
  /\ tick = 0
  /\ \/ (age = 0 \/ age > Stale) /\ period' = "none"
     \/ age \in 1..Stale /\ period = "none" /\ period' = Distance(age)
     \/ age \in 1..Stale /\ period # "none" /\ period' \in Smoothed(period, Distance(age))
  /\ age' = 0 /\ fresh' = TRUE
  /\ tick' \in Gaps \cup {Hidden}
  /\ UNCHANGED <<loop, stop>>

Show ==
  /\ tick = Hidden
  /\ tick' \in Gaps
  /\ UNCHANGED <<loop, vsync, stop>>

\* coleco_host_stop, whose poke is not a tick.
Stop ==
  /\ ~stop
  /\ stop' = TRUE /\ fresh' = TRUE
  /\ UNCHANGED <<loop, age, period, tick>>

\* coleco_host_start, some time after a stop.  The new thread's vs_seen is 0 while
\* s_vs_count goes on, and a stop has poked: a tick is unseen, even when the old
\* thread saw the poke.  The smoothed interval is still there.
Start ==
  /\ pc = "gone"
  /\ pc' = "top" /\ next' = 0 /\ locked' = FALSE /\ short' = 0
  /\ stop' = FALSE /\ age' \in {age, Past} /\ fresh' = TRUE
  /\ UNCHANGED <<left, since, idle, period, tick>>

\* Time passes until the next thing that happens.
Timed == pc \in {"frame", "wait", "sleep"}
Until == {left} \cup IF tick = Hidden THEN {} ELSE {tick}
Elapse ==
  LET d == CHOOSE n \in Until : \A m \in Until : n <= m
  IN  /\ Timed /\ d > 0 /\ ~(pc = "wait" /\ fresh)
      /\ left' = left - d /\ since' = since + d /\ next' = next - d
      /\ age' = IF age + d > Stale THEN Past ELSE age + d
      /\ tick' = IF tick = Hidden THEN Hidden ELSE tick - d
      /\ idle' = IF pc = "frame" THEN 0 ELSE idle + d
      /\ UNCHANGED <<pc, locked, short, fresh, period, stop>>

-----------------------------------------------------------------------------
(* machine_thread.                                                         *)

\* vsync_usable
usable == age < Stale /\ period = "near"

\* The next turn of the loop; the history counts the short ones.
Again ==
  /\ pc' = "top" /\ left' = 0
  /\ short' = IF 2 * since >= Frame THEN 0
              ELSE IF short < MaxShort THEN short + 1 ELSE short

Begin ==
  /\ pc = "top" /\ ~stop
  /\ pc' = "frame" /\ left' \in Works /\ since' = 0 /\ idle' = 0
  /\ UNCHANGED <<next, locked, short, vsync, stop, tick>>

End ==
  /\ pc = "top" /\ stop
  /\ pc' = "gone"
  /\ UNCHANGED <<left, since, next, locked, short, idle, vsync, stop, tick>>

Ladder_NoResync(n) ==
  /\ next' = n + Frame
  /\ IF n + Frame <= 0 THEN Again
     ELSE pc' = "sleep" /\ left' = n + Frame /\ UNCHANGED short

\* The deadline ladder, from the deadline n: late by more than four frames it
\* starts over, late by less it does not sleep.
Ladder(n) ==
  LET deadline == n + Frame
  IN  \/ /\ deadline < -4 * Frame
         /\ next' = 0 /\ Again
      \/ /\ deadline \in (-4 * Frame)..0
         /\ next' = deadline /\ Again
      \/ /\ deadline > 0
         /\ next' = deadline
         /\ pc' = "sleep" /\ left' = deadline /\ UNCHANGED short

\* No tick to go by: the clock, from now if the lock just ended.
Fallback ==
  /\ Ladder(IF locked THEN 0 ELSE next)
  /\ locked' = FALSE

FrameDone_LongWait ==
  /\ pc = "frame" /\ left = 0
  /\ \/ usable /\ pc' = "wait" /\ left' = Stale /\ UNCHANGED <<next, locked, short>>
     \/ ~usable /\ Fallback
  /\ UNCHANGED <<since, idle, vsync, stop, tick>>

FrameDone ==
  /\ pc = "frame" /\ left = 0
  /\ \/ usable /\ pc' = "wait" /\ left' = 2 * Frame /\ UNCHANGED <<next, locked, short>>
     \/ ~usable /\ Fallback
  /\ UNCHANGED <<since, idle, vsync, stop, tick>>

\* wait_vsync gives up.
WaitTimedOut ==
  /\ pc = "wait" /\ left = 0 /\ ~fresh
  /\ Fallback
  /\ UNCHANGED <<since, idle, vsync, stop, tick>>

\* wait_vsync with a tick: the display's cadence is the machine's, unless the
\* tick came in under half a frame.
WaitTicked ==
  /\ pc = "wait" /\ fresh
  /\ fresh' = FALSE
  /\ \/ /\ 2 * since >= Frame
        /\ locked' = TRUE /\ next' = 0 /\ Again
     \/ /\ 2 * since < Frame
        /\ Ladder(-since) /\ UNCHANGED locked
  /\ UNCHANGED <<since, idle, age, period, stop, tick>>

Awake ==
  /\ pc = "sleep" /\ left = 0
  /\ Again
  /\ UNCHANGED <<since, next, locked, idle, vsync, stop, tick>>

MachineThread == Begin \/ End \/ FrameDone \/ WaitTimedOut \/ WaitTicked \/ Awake

LoopNext == MachineThread \/ Elapse \/ notify_vsync \/ Show \/ Stop \/ Start

(* Time passes, and the thread and the ticks keep to it.                   *)
LoopSpec == LoopInit /\ [][LoopNext]_loopVars /\ WF_loopVars(MachineThread \/ Elapse \/ notify_vsync)

-----------------------------------------------------------------------------
(* What must hold.                                                         *)

\* host.c:296-298: after a pause, and however the ticks come, the machine does
\* not fast-forward: it never runs more than seven frames in a row that each
\* take less than half a frame's time.
NeverFastForwards == short <= 7

\* host.c:206-208: a display that stops ticking does not freeze the machine:
\* from the end of a frame to the next it is no longer than the wait's two
\* frames and one step of the ladder.
NeverStalls == idle <= 3 * Frame

-----------------------------------------------------------------------------
(* What the comments say and the code does not do.                         *)

\* host.c:102-105: while ticks keep arriving at the machine's own rate, it
\* runs one frame per tick.
LocksOn == ([]~stop /\ <>[](usable /\ tick # Hidden)) => <>locked
=============================================================================
