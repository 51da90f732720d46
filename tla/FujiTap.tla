------------------------------ MODULE FujiTap -------------------------------
(***************************************************************************)
(* The cartridge's trace tap (core/coleco/fujinet_cart.c) feeding the      *)
(* debugger's trace.  What FujiNet's client sends is handed over as the    *)
(* bytes that go out, in one call; what arrives was parsed already and is  *)
(* SLIP-encoded again, through a buffer that is handed over whenever it is *)
(* full.  Between two pieces the window may read or clear the log.         *)
(***************************************************************************)
EXTENDS FujiTrace

CONSTANTS
  Sent, Received,  \* the bodies of frames, by direction
  SlipOut,         \* bytes a slipout holds
  MaxFrames        \* the bound on frames tapped

ASSUME TapAssumption ==
  /\ Sent \subseteq Seq(0..255) \ {<<>>} /\ Received \subseteq Seq(0..255) \ {<<>>}
  /\ SlipOut \in Nat \ {0} /\ MaxFrames \in Nat

VARIABLES
  tapping,   \* the frame being handed over, or NoFrame
  pieces,    \* what of it is still to be handed over
  \* history
  tapped,    \* frames tapped, for the bound
  happened   \* how often each packet was handed over whole since the last clear

tap     == <<tapping, pieces, tapped>>
tapVars == <<log, decoder, view, tap, happened>>

NoFrame == [to_host |-> FALSE, data |-> <<>>]

\* What the log keeps of a frame.
Kept(body) == SubSeq(body, 1, IF Len(body) < FUJITRACE_FRAME_MAX THEN Len(body) ELSE FUJITRACE_FRAME_MAX)
Frames == [to_host : {FALSE}, data : Sent] \cup [to_host : {TRUE}, data : Received]
Logged == {[f EXCEPT !.data = Kept(@)] : f \in Frames}

\* The packets the log can hold: bounded bytes, so finitely many.
ASSUME PacketAssumption == Logged \subseteq Packet /\ IsFiniteSet(Packet)

TapTypeOK ==
  /\ tapping \in Frames \cup {NoFrame} /\ pieces \in Seq(Seq(0..255))
  /\ acc \in [BOOLEAN -> Seq(0..255)] /\ esc \in [BOOLEAN -> BOOLEAN]
  /\ \A i \in DOMAIN ring : ring[i].pkt \in Packet /\ ring[i].repeat > 0
  /\ tapped \in 0..MaxFrames
  /\ dropped \in [Packet -> 0..MaxFrames] /\ happened \in [Packet -> 0..MaxFrames]

TapInit ==
  /\ TraceInit
  /\ tapping = NoFrame /\ pieces = <<>> /\ tapped = 0
  /\ happened = [p \in Packet |-> 0]

-----------------------------------------------------------------------------

\* so_byte
Escaped(b) ==
  CASE b = SLIP_END -> <<SLIP_ESC, SLIP_ESC_END>>
    [] b = SLIP_ESC -> <<SLIP_ESC, SLIP_ESC_ESC>>
    [] OTHER -> <<b>>

Slip(body) ==
  <<SLIP_END>> \o FlattenSeq([i \in DOMAIN body |-> Escaped(body[i])]) \o <<SLIP_END>>

\* so_put hands the buffer over when one more byte does not fit; the caller
\* hands over what is left.
Pieces(bytes) ==
  [i \in 1..((Len(bytes) + SlipOut - 1) \div SlipOut) |->
     SubSeq(bytes, (i - 1) * SlipOut + 1,
            IF i * SlipOut < Len(bytes) THEN i * SlipOut ELSE Len(bytes))]

\* A frame is over: the trace has it, if it is whole.
Handed(f) ==
  happened' = [happened EXCEPT ![[f EXCEPT !.data = Kept(@)]] = @ + 1]

\* trace_sent: the request as fujibus_build_request encodes it, in one piece.
trace_sent(body) ==
  /\ tapping = NoFrame /\ tapped < MaxFrames
  /\ fujitrace_feed(FALSE, Slip(body))
  /\ Handed([to_host |-> FALSE, data |-> body])
  /\ tapped' = tapped + 1
  /\ UNCHANGED <<tapping, pieces>>

\* trace_received: header and data through a slipout.
trace_received(body) ==
  /\ tapping = NoFrame /\ tapped < MaxFrames
  /\ tapping' = [to_host |-> TRUE, data |-> body] /\ pieces' = Pieces(Slip(body))
  /\ tapped' = tapped + 1
  /\ UNCHANGED <<log, decoder, view, happened>>

\* A piece is handed to the trace.
s_trace ==
  /\ tapping # NoFrame
  /\ fujitrace_feed(TRUE, Head(pieces))
  /\ IF Len(pieces) > 1
     THEN pieces' = Tail(pieces) /\ UNCHANGED <<tapping, happened>>
     ELSE pieces' = <<>> /\ tapping' = NoFrame /\ Handed(tapping)
  /\ UNCHANGED tapped

WindowClears ==
  /\ fujitrace_clear
  /\ happened' = [p \in Packet |-> 0]
  /\ UNCHANGED tap

WindowRefreshes ==
  /\ RefreshFujinet
  /\ UNCHANGED <<tap, happened>>

TapNext ==
  \/ \E body \in Sent : trace_sent(body)
  \/ \E body \in Received : trace_received(body)
  \/ s_trace
  \/ WindowClears
  \/ WindowRefreshes

TapSpec == TapInit /\ [][TapNext]_tapVars

-----------------------------------------------------------------------------
(* What must hold.                                                         *)

\* The log never claims a packet that did not cross the cartridge nor forgets
\* one: the counts of a packet's entries, with what the full ring let go, are
\* the times it was handed over -- in whatever pieces, with clears in between,
\* and however folds and evictions followed each other.
ClaimedIn(r, p) ==
  SumFunctionOnSet([i \in DOMAIN r |-> r[i].repeat], {i \in DOMAIN r : r[i].pkt = p})
CountsAreTrue ==
  /\ \A p \in Packet : happened[p] = dropped[p] + ClaimedIn(ring, p)
  /\ \A to \in BOOLEAN :
       packets[to] = SumFunctionOnSet(happened, {p \in Packet : p.to_host = to})
=============================================================================
