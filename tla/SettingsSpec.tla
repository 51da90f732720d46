---------------------------- MODULE SettingsSpec ----------------------------
(***************************************************************************)
(* What the settings store promises (core/include/colecosession.h:75-82):  *)
(* values that can be set, and a saved copy that is always some complete   *)
(* set of them, from which the next program starts.  Where a file cannot   *)
(* be replaced in one step the saved copy may be missing, never partial.   *)
(***************************************************************************)
CONSTANTS Key, Val, Absent

VARIABLES
  mem,    \* the settings of the running program
  saved,  \* what a program that starts now would read
  replaces  \* a file can be replaced in one step

Settings == [Key -> Val \cup {Absent}]

Nothing  == [k \in Key |-> Absent]

Init == mem = Nothing /\ saved = Nothing /\ replaces \in BOOLEAN

Set(k, v) == mem' = [mem EXCEPT ![k] = v] /\ UNCHANGED <<saved, replaces>>
Save      == saved' = mem /\ UNCHANGED <<mem, replaces>>
Vanish    == ~replaces /\ saved' = Nothing /\ UNCHANGED <<mem, replaces>>
Restart   == mem' = saved /\ UNCHANGED <<saved, replaces>>

Next == Save \/ Vanish \/ Restart \/ \E k \in Key, v \in Val : Set(k, v)

Spec == Init /\ [][Next]_<<mem, saved, replaces>>
=============================================================================
