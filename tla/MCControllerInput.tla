------------------------- MODULE MCControllerInput -------------------------
(* ControllerInput for TLC: one digit and one direction on port 0, another  *)
(* direction on port 1.  Acts 1 and 3 are keypad keys.  Keysyms: 1 is "1",   *)
(* 2 is KP_1, 3 is "#", 4 is "w", 5 is "W", 6 is Up, 7 is "3".               *)
EXTENDS ControllerInput

MCPortOf == [t \in Target |-> IF t = 3 THEN 1 ELSE 0]
MCActOf  == [t \in Target |-> CASE t = 0 -> 1 [] t = 1 -> 3 [] OTHER -> 12]
MCFold   == [k \in Keysym |-> CASE k = 2 -> 1 [] k = 5 -> 4 [] OTHER -> k]
MCDefault == [t \in Target |-> CASE t = 0 -> 1 [] t = 1 -> 3 [] t = 2 -> 6 [] OTHER -> 4]

KeyW  == 1
KeyUp == 2
Key1  == 3
Key3  == 4
KeyHash == 5   \* a keyboard where # needs no Shift

MCSym ==
  [key \in PKey |-> [s \in BOOLEAN |->
     CASE key = KeyW  -> IF s THEN 5 ELSE 4
       [] key = KeyUp -> 6
       [] key = Key1  -> 2
       [] key = Key3  -> IF s THEN 3 ELSE 7
       [] key = KeyHash -> 3]]
=============================================================================
