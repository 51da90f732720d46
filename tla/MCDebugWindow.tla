---------------------------- MODULE MCDebugWindow ---------------------------
(* The cartridge, and the debugger's window: two parts that share nothing    *)
(* but the thread one of them runs on.  A behaviour is of one or the other,  *)
(* so that the instance is as large as both together and not their product;  *)
(* of the windows' machine the cartridge is the source "cart".               *)
EXTENDS FujiCart, DebugWindow

VARIABLE part

MCvars == <<vars, dbgvars, part>>

MCInit ==
  /\ Init /\ DbgInit
  /\ \/ part = "cart" /\ frontend = (CHOOSE f \in Frontend : TRUE)
     \/ part = "window" /\ serve = PlainPlan

MCNext ==
  /\ UNCHANGED part
  /\ \/ part = "cart" /\ Next /\ UNCHANGED dbgvars
     \/ part = "window" /\ DbgNext /\ UNCHANGED vars

MCSpec == MCInit /\ [][MCNext]_MCvars
=============================================================================
