------------------------------- MODULE MCShell -------------------------------
(* The session, step by step, and the windows that start and stop it: two    *)
(* parts whose steps do not interleave, because a window's handler waits for *)
(* colecosession_start and _stop to return.  A behaviour is of one or of the *)
(* other.                                                                    *)
EXTENDS Session, Shell

VARIABLE part

MCvars == <<vars, app, part>>

MCInit ==
  /\ Init /\ ShellInit
  /\ \/ part = "session" /\ app.bios
     \/ part = "windows" /\ opts = (CHOOSE o \in Opts : TRUE)

MCNext ==
  /\ UNCHANGED part
  /\ \/ part = "session" /\ Next /\ UNCHANGED app
     \/ part = "windows" /\ ShellNext /\ UNCHANGED vars

\* The session's threads never run in the other part.
MCSpec == MCInit /\ [][MCNext]_MCvars /\ Fairness
=============================================================================
