----------------------------- MODULE FujiTrace ------------------------------
(***************************************************************************)
(* The debugger's FujiNet trace (core/debugger/fujitrace.c): a decoder of  *)
(* SLIP bytes that come in pieces; a bounded log of the packets, in which  *)
(* consecutive identical exchanges fold into counted entries; and the      *)
(* debugger window that polls the log, redrawing only when the count or    *)
(* the newest serial moved (gnome/debugger/dbg_window.c and its three      *)
(* siblings).                                                              *)
(*                                                                         *)
(* The cartridge's tap and the window take fuji_mtx, so a call is a step.  *)
(* That `same` compares a hash beyond the first bytes is left out.  The    *)
(* ring's head and count are the sequence `ring`, oldest first.  FujiTap   *)
(* composes this with the tap that feeds it.                               *)
(***************************************************************************)
EXTENDS Naturals, SequencesExt

CONSTANTS
  Packet,               \* [to_host, data]: a direction and bytes
  FUJITRACE_MAX,        \* entries the log holds
  FUJITRACE_FRAME_MAX   \* bytes of a frame that are kept

ASSUME TraceAssumption ==
  /\ FUJITRACE_MAX \in Nat /\ FUJITRACE_MAX >= 3
  /\ FUJITRACE_FRAME_MAX \in Nat \ {0}
  /\ Packet \subseteq [to_host : BOOLEAN, data : Seq(0..255) \ {<<>>}]

VARIABLES
  ring,        \* the entries
  serial, pending,
  packets,     \* packets counted since the last clear, by to_host
  acc, esc,    \* the frame being decoded, and whether an escape is, by to_host
  \* the window: what it drew, and the count and serial it remembers
  drawn, fuji_count, fuji_last,
  dropped      \* history: how often of each packet the full ring let go since the last clear

log     == <<ring, serial, pending, packets, dropped>>
decoder == <<acc, esc>>
view    == <<drawn, fuji_count, fuji_last>>

TraceInit ==
  /\ ring = <<>> /\ serial = 0 /\ pending = FALSE
  /\ packets = [to \in BOOLEAN |-> 0]
  /\ acc = [to \in BOOLEAN |-> <<>>] /\ esc = [to \in BOOLEAN |-> FALSE]
  /\ drawn = <<>> /\ fuji_count = 0 /\ fuji_last = 0
  /\ dropped = [p \in Packet |-> 0]

-----------------------------------------------------------------------------
(* add: one packet.                                                        *)

\* slot: 0 is the newest.
Slot(r, back) == Len(r) - back
Holds(r, back, p) == Len(r) > back /\ r[Slot(r, back)].pkt = p

\* bump: an entry counts once more, under a serial of its own.
Bump_SameSerial(r, back, s) == [r EXCEPT ![Slot(r, back)].repeat = @ + 1]
Bump(r, back, s) ==
  [r EXCEPT ![Slot(r, back)].repeat = @ + 1, ![Slot(r, back)].serial = s]

\* The newest entry repeats the one two back, and this packet the one between:
\* the exchange happened once more, and the half of it pushed goes.
Completes(p) == pending /\ Holds(ring, 1, p)

FoldExchange ==
  /\ LET r == SubSeq(ring, 1, Len(ring) - 1)
     IN  ring' = Bump(Bump(r, 1, serial + 1), 0, serial + 2)
  /\ serial' = serial + 2 /\ pending' = FALSE
  /\ UNCHANGED dropped

FoldPacket ==
  /\ ring' = Bump(ring, 0, serial + 1)
  /\ serial' = serial + 1 /\ pending' = FALSE
  /\ UNCHANGED dropped

\* push: a full ring lets its oldest entry go.  An exchange is half seen when
\* the new entry repeats the one two back and those two count alike.
HalfSeen(r) ==
  Len(r) >= 3 /\ Holds(r, 2, r[Len(r)].pkt)
    /\ r[Slot(r, 2)].repeat = r[Slot(r, 1)].repeat

Push(p) ==
  /\ LET full == Len(ring) = FUJITRACE_MAX
         kept == IF full THEN Tail(ring) ELSE ring
     IN  /\ ring' = Append(kept, [pkt |-> p, repeat |-> 1, serial |-> serial + 1])
         /\ dropped' = IF full THEN [dropped EXCEPT ![ring[1].pkt] = @ + ring[1].repeat]
                               ELSE dropped
  /\ serial' = serial + 1
  /\ pending' = HalfSeen(ring')

add(p) ==
  /\ packets' = [packets EXCEPT ![p.to_host] = @ + 1]
  /\ \/ Completes(p) /\ FoldExchange
     \/ ~Completes(p) /\ Holds(ring, 0, p) /\ FoldPacket
     \/ ~Completes(p) /\ ~Holds(ring, 0, p) /\ Push(p)

-----------------------------------------------------------------------------
(* fujitrace_feed, from the cartridge's tap on the machine thread.         *)

SLIP_END     == 192
SLIP_ESC     == 219
SLIP_ESC_END == 220
SLIP_ESC_ESC == 221

Unescaped(b) ==
  CASE b = SLIP_ESC_END -> SLIP_END [] b = SLIP_ESC_ESC -> SLIP_ESC [] OTHER -> b

\* One byte of a piece; a frame is over where frame_done would add it.
Decode(st, b) ==
  CASE b = SLIP_END ->
         [acc |-> <<>>, esc |-> FALSE,
          frames |-> IF st.acc = <<>> THEN st.frames ELSE Append(st.frames, st.acc)]
    [] b = SLIP_ESC /\ ~st.esc -> [st EXCEPT !.esc = TRUE]
    [] OTHER ->
         [st EXCEPT !.esc = FALSE,
                    !.acc = IF Len(@) = FUJITRACE_FRAME_MAX THEN @
                            ELSE Append(@, IF st.esc THEN Unescaped(b) ELSE b)]

Decoded_Forgets(to_host, piece) ==
  FoldLeft(Decode, [acc |-> acc[to_host], esc |-> FALSE, frames |-> <<>>], piece)
Decoded(to_host, piece) ==
  FoldLeft(Decode, [acc |-> acc[to_host], esc |-> esc[to_host], frames |-> <<>>], piece)

\* A request means any reply still in pieces never finished.  The tap's pieces
\* end one frame at most.
fujitrace_feed(to_host, piece) ==
  LET st == Decoded(to_host, piece)
  IN  /\ acc' = [to \in BOOLEAN |-> IF to = to_host THEN st.acc ELSE IF to THEN <<>> ELSE acc[to]]
      /\ esc' = [to \in BOOLEAN |-> IF to = to_host THEN st.esc ELSE ~to /\ esc[to]]
      /\ IF st.frames = <<>>
         THEN UNCHANGED log
         ELSE add([to_host |-> to_host, data |-> st.frames[1]])
      /\ UNCHANGED view

-----------------------------------------------------------------------------
(* The window's calls, on the UI thread.                                   *)

\* Serials go on counting over a clear, and a frame half decoded stays.
fujitrace_clear ==
  /\ ring' = <<>> /\ pending' = FALSE /\ packets' = [to \in BOOLEAN |-> 0]
  /\ dropped' = [p \in Packet |-> 0]
  /\ UNCHANGED <<serial, decoder, view>>

NewestSerial == IF ring = <<>> THEN 0 ELSE ring[Len(ring)].serial
LooksUnchanged ==
  Len(ring) = fuji_count /\ (ring = <<>> \/ NewestSerial = fuji_last)

\* The refresh reads the whole log and redraws it if it looks changed.
RefreshFujinet ==
  /\ ~LooksUnchanged
  /\ drawn' = ring /\ fuji_count' = Len(ring) /\ fuji_last' = NewestSerial
  /\ UNCHANGED <<log, decoder>>

-----------------------------------------------------------------------------
(* What must hold.                                                         *)

\* A window that finds nothing to redraw shows the log as it is: count and
\* newest serial tell every change apart.
WindowSeesEveryChange == LooksUnchanged => drawn = ring
=============================================================================
