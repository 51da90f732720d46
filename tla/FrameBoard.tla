----------------------------- MODULE FrameBoard -----------------------------
(***************************************************************************)
(* What the frame slot promises a display (core/coleco/host.h:50-65): a    *)
(* board with the newest picture and a version that changes exactly when   *)
(* the picture does, and viewers who, while they watch, always get to see  *)
(* the newest one.  No threads, no locks, no callbacks, no event queue.    *)
(***************************************************************************)
EXTENDS Naturals

CONSTANTS Picture, Viewer

VARIABLES
  picture,    \* on the board
  version,    \* of the picture
  current,    \* the picture belongs to the present run of the machine
  watching,   \* the viewers who want to see it
  seen,       \* the version each viewer saw last
  image       \* what each viewer has

vars == <<picture, version, current, watching, seen, image>>

Init ==
  /\ picture \in Picture /\ version = 0 /\ current = FALSE
  /\ watching = {}
  /\ seen = [v \in Viewer |-> 0]
  /\ image = [v \in Viewer |-> picture]

\* A picture equal to the one on the board is not put up again, except as the
\* first of a run.
Show(p) ==
  /\ current => p # picture
  /\ picture' = p /\ version' = version + 1 /\ current' = TRUE
  /\ UNCHANGED <<watching, seen, image>>

NewRun ==
  /\ current' = FALSE
  /\ UNCHANGED <<picture, version, watching, seen, image>>

Watch(v) ==
  /\ watching' = watching \cup {v}
  /\ UNCHANGED <<picture, version, current, seen, image>>

LookAway(v) ==
  /\ watching' = watching \ {v}
  /\ UNCHANGED <<picture, version, current, seen, image>>

Look(v) ==
  /\ v \in watching /\ seen[v] # version
  /\ seen' = [seen EXCEPT ![v] = version]
  /\ image' = [image EXCEPT ![v] = picture]
  /\ UNCHANGED <<picture, version, current, watching>>

\* A viewer may go and another one come in its place, having seen nothing.
Replace(v) ==
  /\ v \notin watching
  /\ seen' = [seen EXCEPT ![v] = 0]
  /\ UNCHANGED <<picture, version, current, watching, image>>

Next ==
  \/ \E p \in Picture : Show(p)
  \/ NewRun
  \/ \E v \in Viewer : Watch(v) \/ LookAway(v) \/ Look(v) \/ Replace(v)

Spec == Init /\ [][Next]_vars /\ \A v \in Viewer : WF_vars(Look(v))
=============================================================================
