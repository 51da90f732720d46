------------------------------ MODULE Displays ------------------------------
(***************************************************************************)
(* The displays of the four frontends over the one frame slot.  KDE's is   *)
(* pushed (FrameSlot).  The others draw on a clock of their own, and pull: *)
(* GNOME's on the interface thread's frame clock (frontends/gnome/         *)
(* display.c), macOS's on a display link (frontends/macos/DisplayView.m),  *)
(* Windows' on a present thread (frontends/windows/main.c).  Those two     *)
(* convert the frame into the buffer that the interface thread draws from, *)
(* with no lock between them.                                              *)
(*                                                                         *)
(* A converted picture is two halves, so that one can be seen half done.   *)
(***************************************************************************)
EXTENDS FrameSlot, FiniteSets

CONSTANTS
  Frontend,   \* the frontends: of "gnome", "kde", "macos", "windows"
  Pull,       \* the display that pulls, as a viewer of the board
  Buffer,     \* GNOME's frame buffers
  POOL_KEEP,  \* how many of them the pool keeps
  MayStall    \* DwmFlush may take longer than the exit waits for it

ASSUME DisplayAssumption ==
  /\ Frontend \subseteq {"gnome", "kde", "macos", "windows"}
  /\ Pull \notin Feed /\ None \notin Buffer
  /\ POOL_KEEP \in Nat /\ MayStall \in BOOLEAN

VARIABLES
  frontend,
  exit,        \* "no", "asked", "stopped" (the clock is) or "gone"
  clock,       \* where the clock's thread is: "off", "idle", a step of Then, "ended"
  seen,        \* the clock ticks: for GNOME, that the display can be seen
  serial, fbuf,    \* of the frame copied last
  rgb,         \* the halves of the buffer that is converted into and drawn
  told,        \* a block that asks for a redraw waits for the main thread
  dirty,       \* the window is to be drawn
  drawing,     \* half of it was
  screen,      \* the halves drawn last
  \* GNOME's textures, each with the buffer it borrows
  texture,     \* the display's
  onscreen,    \* the one drawn last
  held,        \* those GSK has
  spare,       \* the pool's idle buffers
  refs,        \* the pool's references
  px,          \* what is in each buffer
  drawn        \* what was in the one drawn last when it was drawn

clocks   == <<clock, seen, serial, fbuf, rgb, told>>
window   == <<dirty, drawing, screen>>
textures == <<texture, onscreen, held, spare, refs, px, drawn>>
pull     == <<frontend, exit, clocks, window, textures>>
dvars    == <<vars, pull>>

DisplaysTypeOK ==
  /\ TypeOK
  /\ frontend \in Frontend /\ exit \in {"no", "asked", "stopped", "gone"}
  /\ clock \in {"off", "idle", "first", "second", "tell", "ended"}
  /\ {seen, told, dirty, drawing} \subseteq BOOLEAN
  /\ serial \in 0..MaxSerial /\ fbuf \in Picture
  /\ rgb \in [1..2 -> Picture] /\ screen \in [1..2 -> Picture]
  /\ {texture, onscreen} \subseteq Buffer \cup {None}
  /\ held \subseteq Buffer /\ spare \subseteq Buffer /\ refs \in Nat
  /\ px \in [Buffer -> Picture] /\ drawn \in Picture

DisplaysInit ==
  /\ Init
  /\ frontend \in Frontend /\ exit = "no"
  /\ clock = "off" /\ seen = FALSE
  /\ serial = 0 /\ fbuf = Black
  /\ rgb = [h \in 1..2 |-> Black] /\ screen = rgb
  /\ told = FALSE /\ dirty = FALSE /\ drawing = FALSE
  /\ texture = None /\ onscreen = None /\ held = {} /\ spare = {} /\ refs = 1
  /\ px = [b \in Buffer |-> Black] /\ drawn = Black

\* The interface thread is between two events.
UiIdle == ui = "idle" /\ ~drawing /\ exit = "no"

-----------------------------------------------------------------------------
(* The clocks of macOS and Windows.                                        *)

\* What a tick that copied a frame goes on with.
Then_TellsFirst == [idle |-> "tell", tell |-> "first", first |-> "second", second |-> "idle"]
Then == [idle |-> "first", first |-> "second", second |-> "tell", tell |-> "idle"]

\* initWithSession, WinMain: the clock starts with the window.
StartClock ==
  /\ frontend \in {"macos", "windows"} /\ clock = "off" /\ exit = "no"
  /\ clock' = "idle" /\ seen' = TRUE
  /\ UNCHANGED <<frontend, exit, serial, fbuf, rgb, told, window, textures>>

\* tick, present_thread: once more even when the program is about to end.
Pulls ==
  /\ frontend \in {"macos", "windows"} /\ clock = "idle"
  /\ serial # s_frame_serial
  /\ serial' = s_frame_serial /\ fbuf' = s_frame
  /\ clock' = Then.idle
  /\ UNCHANGED <<frontend, exit, seen, rgb, told, window, textures>>

convert_frame(half) ==
  /\ clock = <<"first", "second">>[half]
  /\ rgb' = [rgb EXCEPT ![half] = fbuf]
  /\ clock' = Then[clock]
  /\ UNCHANGED <<frontend, exit, seen, serial, fbuf, told, window, textures>>

\* InvalidateRect takes effect at once; setNeedsDisplay goes through the queue
\* of the main thread.
Tell ==
  /\ clock = "tell" /\ clock' = Then.tell
  /\ IF frontend = "windows" THEN dirty' = TRUE /\ UNCHANGED told
                             ELSE told' = TRUE /\ UNCHANGED dirty
  /\ UNCHANGED <<frontend, exit, seen, serial, fbuf, rgb, drawing, screen, textures>>

setNeedsDisplay ==
  /\ UiIdle /\ told
  /\ told' = FALSE /\ dirty' = TRUE
  /\ UNCHANGED <<frontend, exit, clock, seen, serial, fbuf, rgb, drawing, screen, textures>>

\* paint, drawRect: what is to be drawn is settled before the buffer is read.
Paint ==
  /\ frontend \in {"macos", "windows"} /\ UiIdle /\ dirty
  /\ dirty' = FALSE /\ drawing' = TRUE
  /\ screen' = [screen EXCEPT ![1] = rgb[1]]
  /\ UNCHANGED <<frontend, exit, clocks, textures>>
PaintEnds ==
  /\ drawing /\ drawing' = FALSE
  /\ screen' = [screen EXCEPT ![2] = rgb[2]]
  /\ UNCHANGED <<frontend, exit, clocks, dirty, textures>>

\* A resize, or another scaling.
Exposed ==
  /\ frontend # "kde" /\ UiIdle
  /\ dirty' = TRUE
  /\ UNCHANGED <<frontend, exit, clocks, drawing, screen, textures>>

-----------------------------------------------------------------------------
(* GNOME's textures.                                                       *)

Lent(disp, gsk) == gsk \cup ({disp} \ {None})

\* pool_take: a spare buffer, or a new one.
pool_take ==
  LET free == Buffer \ Lent(texture, held)
  IN  IF spare # {} THEN spare ELSE free

\* loan_release, of the buffer nobody borrows any more (a step gives back one
\* at most): the pool keeps POOL_KEEP, and goes with its last reference.
Released(disp, gsk, kept, count) ==
  LET back == Lent(texture, held) \ Lent(disp, gsk)
      left == count - Cardinality(back)
  IN  /\ refs' = left
      /\ spare' = IF left = 0 THEN {}
                  ELSE IF Cardinality(kept \cup back) <= POOL_KEEP THEN kept \cup back
                  ELSE kept

\* on_tick, with publish_texture.  GSK may still have the texture that is
\* replaced.
on_tick ==
  /\ frontend = "gnome" /\ seen /\ UiIdle
  /\ serial # s_frame_serial
  /\ serial' = s_frame_serial /\ fbuf' = s_frame
  /\ pool_take # {}
  /\ LET b == CHOOSE x \in pool_take : TRUE IN
       /\ px' = [px EXCEPT ![b] = s_frame]
       /\ texture' = b
       /\ Released(b, held, spare \ {b}, refs + 1)
  /\ dirty' = TRUE
  /\ UNCHANGED <<frontend, exit, clock, seen, rgb, told, drawing, screen, onscreen, held, drawn>>

snapshot ==
  /\ frontend = "gnome" /\ UiIdle /\ dirty
  /\ dirty' = FALSE
  /\ IF texture = None THEN UNCHANGED <<onscreen, held, drawn>>
     ELSE onscreen' = texture /\ held' = held \cup {texture} /\ drawn' = px[texture]
  /\ UNCHANGED <<frontend, exit, clocks, drawing, screen, texture, spare, refs, px>>

\* GSK drops what is no longer on the screen, on whatever thread, also after
\* the display has gone.
Drops(b) ==
  /\ b \in held /\ (b # onscreen \/ exit # "no")
  /\ held' = held \ {b}
  /\ onscreen' = IF b = onscreen THEN None ELSE onscreen
  /\ Released(texture, held', spare, refs)
  /\ UNCHANGED <<frontend, exit, clocks, window, texture, px, drawn>>

\* update_tick: the window is mapped, hidden or suspended.  What comes back is
\* drawn.
update_tick ==
  /\ frontend = "gnome" /\ UiIdle
  /\ seen' = ~seen
  /\ dirty' = (dirty \/ seen')
  /\ UNCHANGED <<frontend, exit, clock, serial, fbuf, rgb, told, drawing, screen, textures>>

-----------------------------------------------------------------------------
(* The end of the program.                                                 *)

\* The main window is destroyed; GNOME's display is disposed of with it.
Quit ==
  /\ frontend # "kde" /\ UiIdle
  /\ IF frontend = "gnome"
     THEN /\ exit' = "stopped" /\ clock' = "ended" /\ seen' = FALSE
          /\ texture' = None
          /\ Released(None, held, spare, refs - 1)
          /\ UNCHANGED <<serial, fbuf, rgb, told, onscreen, held, px, drawn>>
     ELSE clock # "off" /\ exit' = "asked" /\ UNCHANGED <<clocks, textures>>
  /\ UNCHANGED <<frontend, window>>

\* The present thread looks at g_running before each tick.
PresentEnds ==
  /\ frontend = "windows" /\ exit # "no"
  /\ clock = "idle" /\ clock' = "ended" /\ seen' = FALSE
  /\ UNCHANGED <<frontend, exit, serial, fbuf, rgb, told, window, textures>>

StopClock_DoesNotWait ==
  /\ exit = "asked" /\ exit' = "stopped"
  /\ UNCHANGED <<frontend, clocks, window, textures>>

\* CVDisplayLinkStop returns between two ticks; the present thread is waited
\* for, but two seconds at most.
StopClock ==
  /\ exit = "asked"
  /\ \/ frontend = "macos" /\ clock = "idle" /\ clock' = "ended" /\ seen' = FALSE
     \/ frontend = "windows" /\ UNCHANGED <<clock, seen>>
        /\ (clock = "ended" \/ (MayStall /\ clock = "idle"))
  /\ exit' = "stopped"
  /\ UNCHANGED <<frontend, serial, fbuf, rgb, told, window, textures>>

\* colecosession_free, and the buffers.
Free ==
  /\ exit = "stopped" /\ ~s_running /\ ui = "idle"
  /\ exit' = "gone"
  /\ UNCHANGED <<frontend, clocks, window, textures>>

-----------------------------------------------------------------------------

Draws ==
  \/ StartClock \/ Pulls \/ (\E half \in 1..2 : convert_frame(half)) \/ Tell \/ setNeedsDisplay
  \/ Paint \/ PaintEnds \/ Exposed
  \/ on_tick \/ snapshot \/ (\E b \in Buffer : Drops(b)) \/ update_tick
  \/ Quit \/ PresentEnds \/ StopClock \/ Free

\* In KDE the interface thread is FrameSlot's; in the others it starts and
\* stops the machine between two events.
Slot ==
  \/ Machine \/ StopJoined
  \/ frontend = "kde" /\ Gui
  \/ UiIdle /\ coleco_host_start
  \/ ~drawing /\ exit \in {"no", "stopped"} /\ StopBegin

DisplaysNext ==
  \/ Slot /\ UNCHANGED pull
  \/ Draws /\ UNCHANGED vars

\* The clocks tick, and the interface thread gets to what it has to draw.
DisplaysFairness ==
  /\ Fairness
  /\ WF_dvars(Pulls /\ UNCHANGED vars)
  /\ WF_dvars(\E half \in 1..2 : convert_frame(half) /\ UNCHANGED vars)
  /\ WF_dvars(Tell /\ UNCHANGED vars)
  /\ WF_dvars(PaintEnds /\ UNCHANGED vars)
  /\ WF_dvars(\E b \in Buffer : Drops(b) /\ UNCHANGED vars)
  /\ SF_dvars(on_tick /\ UNCHANGED vars)

DisplaysSpec == DisplaysInit /\ [][DisplaysNext]_dvars /\ DisplaysFairness

-----------------------------------------------------------------------------
(* What must hold.                                                         *)

\* What the user sees.
Shown == IF frontend # "gnome" THEN screen
         ELSE [h \in 1..2 |-> IF onscreen = None THEN Black ELSE px[onscreen]]

\* Every tick and every request to draw was dealt with.
Settled ==
  /\ frontend # "kde" /\ exit = "no" /\ seen /\ serial = s_frame_serial
  /\ clock \in {"off", "idle"} /\ ~told /\ ~dirty /\ ~drawing

\* However a conversion met a draw, what stays on the screen is one whole
\* picture and the newest, and KDE's feed leaves no frame behind; GNOME never
\* shows anything but the frame it drew, and the pool is there for every buffer
\* that comes back.
ScreenSettles ==
  /\ NothingMissed
  /\ Settled => Shown = [h \in 1..2 |-> s_frame]
  /\ onscreen # None => px[onscreen] = drawn
  /\ Lent(texture, held) # {} => refs > 0

\* Nobody calls a display, or into a session, that is gone: the machine thread
\* KDE's feed, or a tick that is still going on when the program has freed what
\* it uses.
NobodyCallsTheGone == CallbackContextLives /\ (exit = "gone" => clock = "ended")

\* All of them implement the board, each a viewer: it watches while its clock
\* ticks, and has seen what it copied last.
Board == INSTANCE FrameBoard
  WITH Viewer <- Feed \cup {Pull}, picture <- s_frame, version <- s_frame_serial,
       current <- s_frame_valid,
       watching <- m_active \cup (IF seen THEN {Pull} ELSE {}),
       seen <- [v \in Feed \cup {Pull} |-> IF v = Pull THEN serial ELSE m_serial[v]],
       image <- [v \in Feed \cup {Pull} |-> IF v = Pull THEN fbuf ELSE m_fb[v]]
BoardSpec == Board!Spec
=============================================================================
