------------------------------ MODULE MCFujiTap -----------------------------
(* FujiTap for TLC: a request, the same bytes as a reply, and a longer reply *)
(* of which only the first bytes are kept.  Encoded, both replies have an    *)
(* escape that straddles two pieces.                                         *)
EXTENDS FujiTap

MCSent     == {<<1, SLIP_END>>}
MCReceived == {<<1, SLIP_END>>, <<1, SLIP_ESC, SLIP_ESC_END, 1>>}
MCPacket   == Logged
=============================================================================
