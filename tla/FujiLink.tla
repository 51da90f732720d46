------------------------------ MODULE FujiLink ------------------------------
(***************************************************************************)
(* The cartridge's link to FujiNet: the Windows TCP transport              *)
(* (core/coleco/fujitcp_win32.c), the transactions the mailbox makes over  *)
(* it, and the debugger's trace tap around them (core/coleco/              *)
(* fujinet_cart.c, t_transact and t_send_bare).                            *)
(*                                                                         *)
(* The machine thread dials once and then makes synchronous transactions;  *)
(* FujiNet is a process of its own that answers late, pushes frames before *)
(* its reply, sends a frame in pieces, dies and comes back.  What it sends *)
(* is a stream of tokens, a frame being END, a body, END.  fujibus_parse   *)
(* (external) accepts exactly that.  Any body may be longer than the       *)
(* buffer it is read into, and a request than the one it is built in.      *)
(***************************************************************************)
EXTENDS Naturals, Sequences, FiniteSets

CONSTANTS
  MaxTxn,     \* the bound on transactions
  MaxPushed,  \* the bound on frames FujiNet pushes
  MaxDown     \* the bound on how often FujiNet goes away

ASSUME LinkAssumption == MaxTxn \in Nat /\ MaxPushed \in Nat /\ MaxDown \in Nat

VARIABLES
  \* fujitcp_win32.c
  sock,       \* "none" or "open", as fujitcp_active sees it
  raw,        \* what read_frame has read
  txn,        \* the transaction under way, or the last one
  outcome,    \* what the last transaction returned
  mt,         \* "new", "idle", "reading" or "parsing"
  traced,     \* frames the tap has reported
  \* the connection and FujiNet
  conn,       \* "none", "up" or "closed"
  inq,        \* tokens on their way to the cartridge
  fuji,       \* is FujiNet listening
  asked,      \* requests FujiNet has yet to answer
  rest,       \* what remains to be sent of the frame it is sending
  pushed, downs,
  \* history
  wire,       \* frames that left, or arrived and were parsed, in order
  lost,       \* a send failed
  soured      \* a transaction on this connection has ended without its reply

cart  == <<sock, raw, txn, outcome, mt, traced>>
peer  == <<fuji, asked, rest, pushed, downs>>
link  == <<cart, conn, inq, peer, wire, lost, soured>>

END     == [kind |-> "END", n |-> 0]
Replies == {[kind |-> "reply", n |-> n] : n \in 1..MaxTxn}
Pushed  == [kind |-> "push", n |-> 0]
Inbound == Replies \cup {Pushed}
Token   == Inbound \cup {END}
Request == [kind |-> "request", n |-> txn']
Ack     == [kind |-> "ack", n |-> 0]
Framed(body) == <<END, body, END>>

Outbound == {[kind |-> "request", n |-> n] : n \in 1..MaxTxn} \cup {Ack}
Outcome == {"OK", "ENOLINK", "ETOOBIG", "ETIMEOUT", "EBADFRAME"}

LinkTypeOK ==
  /\ sock \in {"none", "open"} /\ raw \in Seq(Token) /\ Len(raw) <= 3
  /\ txn \in 0..MaxTxn
  /\ outcome \in Outcome
  /\ mt \in {"new", "idle", "reading", "parsing"}
  /\ traced \in Seq(Inbound \cup Outbound) /\ wire \in Seq(Inbound \cup Outbound)
  /\ conn \in {"none", "up", "closed"} /\ inq \in Seq(Token)
  /\ fuji \in BOOLEAN /\ asked \in Seq(1..MaxTxn) /\ rest \in Seq(Token)
  /\ pushed \in 0..MaxPushed /\ downs \in 0..MaxDown
  /\ lost \in BOOLEAN /\ soured \in BOOLEAN

LinkInit ==
  /\ sock = "none" /\ raw = <<>> /\ txn = 0 /\ outcome = "OK" /\ mt = "new"
  /\ traced = <<>> /\ wire = <<>>
  /\ conn = "none" /\ inq = <<>>
  /\ fuji \in BOOLEAN /\ asked = <<>> /\ rest = <<>>
  /\ pushed = 0 /\ downs = 0 /\ lost = FALSE /\ soured = FALSE

-----------------------------------------------------------------------------
(* The machine thread.                                                     *)

\* fujitcp_init, from coleco_cart_create: dial, once.
fujitcp_init ==
  /\ mt = "new"
  /\ mt' = "idle"
  /\ sock' = IF fuji THEN "open" ELSE "none"
  /\ conn' = IF fuji THEN "up" ELSE "none"
  /\ UNCHANGED <<raw, txn, outcome, traced, inq, peer, wire, lost, soured>>

\* send: a live connection takes the frame; a closed one may still take it,
\* to no end, or fail.
SendTakes(frame) ==
  /\ conn \in {"up", "closed"}
  /\ wire' = Append(wire, frame)
  /\ asked' = IF conn = "up" /\ frame.kind = "request" THEN Append(asked, frame.n)
                                                      ELSE asked
  /\ UNCHANGED lost

SendFails ==
  /\ conn = "closed"
  /\ lost' = TRUE
  /\ UNCHANGED <<wire, asked>>

\* fujitcp_transact without a socket, or of a request that does not fit: neither
\* is sent, nor traced.
TransactUnsent ==
  /\ mt = "idle" /\ txn < MaxTxn
  /\ txn' = txn + 1
  /\ outcome' = IF sock = "none" THEN "ENOLINK" ELSE "ETOOBIG"
  /\ UNCHANGED <<sock, raw, mt, traced, conn, inq, peer, wire, lost, soured>>

\* t_transact reports the request, then fujitcp_transact sends it.
Transact ==
  /\ mt = "idle" /\ txn < MaxTxn
  /\ sock = "open"
  /\ txn' = txn + 1
  /\ traced' = Append(traced, Request)
  /\ raw' = <<>>
  /\ \/ SendTakes(Request) /\ mt' = "reading" /\ UNCHANGED <<outcome, soured>>
     \/ SendFails /\ outcome' = "ENOLINK" /\ soured' = TRUE /\ UNCHANGED mt
  /\ UNCHANGED <<sock, conn, inq, fuji, rest, pushed, downs>>

\* read_frame, a byte at a time, up to the second END.
Ends(tokens) == Cardinality({i \in DOMAIN tokens : tokens[i] = END})

ReadFrame_FirstEnd ==
  /\ mt = "reading" /\ inq # <<>>
  /\ raw' = Append(raw, Head(inq)) /\ inq' = Tail(inq)
  /\ mt' = IF Head(inq) = END THEN "parsing" ELSE "reading"
  /\ UNCHANGED <<sock, txn, outcome, traced, conn, peer, wire, lost, soured>>

ReadFrame ==
  /\ mt = "reading" /\ inq # <<>>
  /\ raw' = Append(raw, Head(inq)) /\ inq' = Tail(inq)
  /\ mt' = IF Ends(raw') = 2 THEN "parsing" ELSE "reading"
  /\ UNCHANGED <<sock, txn, outcome, traced, conn, peer, wire, lost, soured>>

ReadTimesOut_WhileOpen ==
  /\ mt = "reading" /\ conn = "up"
  /\ outcome' = "ETIMEOUT" /\ soured' = TRUE
  /\ mt' = "idle" /\ raw' = <<>>
  /\ UNCHANGED <<sock, txn, traced, conn, inq, peer, wire, lost>>

\* The buffer is full before the second END; the rest of the body, if there is
\* more of it, stays in the stream.
ReadOverflows ==
  /\ mt = "reading" /\ inq # <<>> /\ Head(inq) # END
  /\ inq' \in {inq, Tail(inq)}
  /\ outcome' = "ETOOBIG" /\ soured' = TRUE
  /\ mt' = "idle" /\ raw' = <<>>
  /\ UNCHANGED <<sock, txn, traced, conn, peer, wire, lost>>

\* The deadline passes, whatever has been read; a connection the peer closed
\* reads as no byte until then.
ReadTimesOut ==
  /\ mt = "reading"
  /\ outcome' = "ETIMEOUT" /\ soured' = TRUE
  /\ mt' = "idle" /\ raw' = <<>>
  /\ UNCHANGED <<sock, txn, traced, conn, inq, peer, wire, lost>>

ParseBad ==
  /\ mt = "parsing" /\ \A body \in Inbound : raw # Framed(body)
  /\ outcome' = "EBADFRAME" /\ soured' = TRUE
  /\ mt' = "idle" /\ raw' = <<>>
  /\ UNCHANGED <<sock, txn, traced, conn, inq, peer, wire, lost>>

\* A pushed frame is answered (t_send_bare reports both it and the answer) and
\* the wait begins anew ...
ParsePush_AckTracedFirst ==
  /\ mt = "parsing" /\ raw = Framed(Pushed)
  /\ traced' = traced \o <<Ack, Pushed>>
  /\ \/ /\ conn # "none"
        /\ wire' = wire \o <<Pushed, Ack>>
        /\ UNCHANGED lost
     \/ /\ conn = "closed"
        /\ wire' = Append(wire, Pushed)
        /\ lost' = TRUE
  /\ mt' = "reading" /\ raw' = <<>>
  /\ UNCHANGED <<sock, txn, outcome, conn, inq, peer, soured>>

ParsePush ==
  /\ mt = "parsing" /\ raw = Framed(Pushed)
  /\ traced' = traced \o <<Pushed, Ack>>
  /\ \/ /\ conn # "none"
        /\ wire' = wire \o <<Pushed, Ack>>
        /\ UNCHANGED lost
     \/ /\ conn = "closed"
        /\ wire' = Append(wire, Pushed)
        /\ lost' = TRUE
  /\ mt' = "reading" /\ raw' = <<>>
  /\ UNCHANGED <<sock, txn, outcome, conn, inq, peer, soured>>

\* ... and anything else is the reply.
ParseReply(n) ==
  /\ mt = "parsing" /\ raw = Framed([kind |-> "reply", n |-> n])
  /\ traced' = Append(traced, raw[2]) /\ wire' = Append(wire, raw[2])
  /\ outcome' = "OK"
  /\ soured' = (soured \/ n # txn)
  /\ mt' = "idle"
  /\ UNCHANGED <<sock, raw, txn, conn, inq, peer, lost>>

Machine ==
  \/ fujitcp_init \/ TransactUnsent \/ Transact
  \/ ReadFrame \/ ReadOverflows \/ ReadTimesOut \/ ParseBad \/ ParsePush
  \/ \E n \in 1..MaxTxn : ParseReply(n)

-----------------------------------------------------------------------------
(* FujiNet.                                                                *)

\* It pushes only on the way to a reply, and answers in order.
FujiPushes ==
  /\ conn = "up" /\ rest = <<>> /\ asked # <<>> /\ pushed < MaxPushed
  /\ rest' = Framed(Pushed) /\ pushed' = pushed + 1
  /\ UNCHANGED <<cart, conn, inq, fuji, asked, downs, wire, lost, soured>>

FujiReplies ==
  /\ conn = "up" /\ rest = <<>> /\ asked # <<>>
  /\ rest' = Framed([kind |-> "reply", n |-> Head(asked)])
  /\ asked' = Tail(asked)
  /\ UNCHANGED <<cart, conn, inq, fuji, pushed, downs, wire, lost, soured>>

FujiSends ==
  /\ conn = "up" /\ rest # <<>>
  /\ inq' = Append(inq, Head(rest)) /\ rest' = Tail(rest)
  /\ UNCHANGED <<cart, conn, fuji, asked, pushed, downs, wire, lost, soured>>

\* What was on its way may be lost with it.
FujiDies ==
  /\ fuji /\ downs < MaxDown
  /\ fuji' = FALSE /\ downs' = downs + 1
  /\ inq' \in {inq, <<>>}
  /\ conn' = IF conn = "up" THEN "closed" ELSE conn
  /\ asked' = <<>> /\ rest' = <<>>
  /\ UNCHANGED <<cart, pushed, wire, lost, soured>>

FujiComesUp ==
  /\ ~fuji
  /\ fuji' = TRUE
  /\ UNCHANGED <<cart, conn, inq, asked, rest, pushed, downs, wire, lost, soured>>

FujiNet == FujiPushes \/ FujiReplies \/ FujiSends \/ FujiDies \/ FujiComesUp

LinkNext == Machine \/ FujiNet

(* The machine thread runs, and its clock; FujiNet owes nothing.           *)
LinkFairness ==
  /\ WF_link(ReadFrame) /\ WF_link(ReadTimesOut)
  /\ WF_link(ParseBad \/ ParsePush \/ \E n \in 1..MaxTxn : ParseReply(n))

LinkSpec == LinkInit /\ [][LinkNext]_link /\ LinkFairness

-----------------------------------------------------------------------------
(* What must hold.                                                         *)

\* A transaction that gets a whole frame other than a pushed one gets the reply to
\* its own request, past any number of pushed frames and torn deliveries, as long
\* as none before it on this connection gave up.  Once one has, nothing is said:
\* its late reply may be taken for the next one's, for FujiBus has nothing to tell
\* them apart by.
ReplyIsOwn ==
  [][mt = "parsing" /\ mt' = "idle" /\ ~soured =>
       outcome' = "OK" /\ raw[2].n = txn]_link

\* The debugger's trace is the wire, frame for frame and in order, until a
\* send fails.
TraceIsTheWire == ~lost => traced = wire

\* A transaction ends, whatever FujiNet does, once it stops pushing.
TransactionEnds == mt \in {"reading", "parsing"} ~> mt = "idle"

-----------------------------------------------------------------------------
(* What the comments say and the code does not do.                         *)

\* fujinet_cart.c:534-536 and session.c:141-144: the next transaction after
\* one that found no link dials again.
NextTransactionDials ==
  [][txn' # txn /\ outcome = "ENOLINK" /\ fuji => conn' = "up"]_link

\* fujinet_cart.h:94-95: the trace has the frames the cartridge sends.
TraceIsWhatWasSent == traced = wire
=============================================================================
