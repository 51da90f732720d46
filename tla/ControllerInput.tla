-------------------------- MODULE ControllerInput --------------------------
(***************************************************************************)
(* Who presses the two hand controllers: the keyboard, through the main    *)
(* window or the keypad window (frontends/gnome), the keypad window's      *)
(* buttons (core/src/session.c) and the gamepads (core/src/gamepad_sdl.c). *)
(* Each keeps its own idea of what is held (core/src/input_map.c) and      *)
(* writes a port's whole word.                                             *)
(***************************************************************************)
EXTENDS Integers, FiniteSets

CONSTANTS
  Target,      \* the bindable controls, by index
  PortOf, ActOf,   \* what they are, as functions
  Digit,       \* the acts that are keypad keys
  Keysym, Fold,    \* keysyms, and fold()
  Default,     \* the bindings at start
  PKey, Sym,   \* physical keys, and the keysym of each, unshifted and shifted
  Device,      \* gamepads
  MaxBinds     \* the bound on rebindings

Port   == {PortOf[t] : t \in Target}
Act    == {ActOf[t] : t \in Target}
Bit    == Act \ Digit
Source == {"main", "keypad", "panel"}
Window == {"main", "keypad"}
None   == -1

Idle     == [bits |-> {}, key |-> None]
Word     == [bits : SUBSET Bit, key : Digit \cup {None}]
AllIdle  == [p \in Port |-> Idle]

ASSUME ControllerAssumption ==
  /\ Target \subseteq Nat /\ Keysym \subseteq Nat \ {0}
  /\ Digit \subseteq Act /\ Digit \subseteq Nat
  /\ Fold \in [Keysym -> Keysym] /\ Default \in [Target -> Keysym \cup {0}]
  /\ Sym \in [PKey -> [BOOLEAN -> Keysym]]
  /\ \A t, u \in Target : PortOf[t] = PortOf[u] /\ ActOf[t] = ActOf[u] => t = u
  /\ MaxBinds \in Nat

VARIABLES
  g_bind,       \* the binding table
  g_map_state,  \* -2, -1 waiting for a control, or the control waiting for a key
  held,         \* coleco_input_state of each source: words by port
  joy,          \* the words the machine samples
  id, last,     \* the gamepad layer: the device of each port, the word it last pushed
  \* the world
  focus,        \* the window with the focus, or "none"
  down, shift,  \* physical keys that are down
  latest,       \* the key that repeats
  mouse,        \* the button of the keypad window that is held down, or None
  plugged, pad, \* the devices that are there, and the bits each holds
  \* history
  writer,       \* who wrote each port's word last
  mine,         \* the keysym under which the main window saw a key go down
  binds

ui    == <<g_bind, g_map_state, held, binds>>
pads  == <<id, last>>
world == <<focus, down, shift, latest, mouse, plugged, pad>>
vars  == <<ui, joy, pads, world, writer, mine>>

TypeOK ==
  /\ g_bind \in [Target -> Keysym \cup {0}] /\ g_map_state \in Target \cup {-2, -1}
  /\ held \in [Source -> [Port -> Word]] /\ joy \in [Port -> Word]
  /\ id \in [Port -> Device \cup {None}] /\ last \in [Port -> Word]
  /\ focus \in Window \cup {"none"} /\ down \subseteq PKey /\ shift \in BOOLEAN
  /\ latest \in PKey \cup {None} /\ mouse \in Target \cup {None}
  /\ plugged \subseteq Device /\ pad \in [Device -> SUBSET Bit]
  /\ writer \in [Port -> Source \cup {"core", "pad"}]
  /\ mine \in [PKey -> Keysym \cup {0}]
  /\ binds \in 0..MaxBinds

\* coleco_binding_target_for_key
Matches(k) == {t \in Target : g_bind[t] # 0 /\ g_bind[t] \in {k, Fold[k]}}
TargetForKey(k) ==
  IF Matches(k) = {} THEN None ELSE CHOOSE t \in Matches(k) : \A u \in Matches(k) : t <= u

\* coleco_input_apply: a released keypad key clears only itself.
Applied(st, t, press) ==
  LET w == st[PortOf[t]]
      a == ActOf[t]
      new == IF a \in Digit
             THEN [w EXCEPT !.key = IF press THEN a ELSE IF w.key = a THEN None ELSE w.key]
             ELSE [w EXCEPT !.bits = IF press THEN w.bits \cup {a} ELSE w.bits \ {a}]
  IN  [st EXCEPT ![PortOf[t]] = new]

Push_ChangedOnly(src, st) ==
  /\ held' = [held EXCEPT ![src] = st]
  /\ LET p == CHOOSE q \in Port : st[q] # held[src][q] \/ st = held[src]
     IN  /\ joy' = [joy EXCEPT ![p] = st[p]]
         /\ writer' = [writer EXCEPT ![p] = src]

\* push_input: the source's state, to both ports.
Push(src, st) ==
  /\ held' = [held EXCEPT ![src] = st]
  /\ joy' = st
  /\ writer' = [p \in Port |-> src]

Init ==
  /\ g_bind = Default /\ g_map_state = -2
  /\ held = [s \in Source |-> AllIdle] /\ joy = AllIdle
  /\ id = [p \in Port |-> None] /\ last = AllIdle
  /\ focus = "main" /\ down = {} /\ shift = FALSE /\ latest = None /\ mouse = None
  /\ plugged = {} /\ pad = [d \in Device |-> {}]
  /\ writer = [p \in Port |-> "core"] /\ mine = [k \in PKey |-> 0]
  /\ binds = 0

-----------------------------------------------------------------------------
(* The keyboard.  A key event carries the keysym the key has under the     *)
(* modifiers of that moment, and goes to the window that has the focus.    *)

\* coleco_input_key and the pushes that follow it, in either window.
coleco_input_key(w, k, press) ==
  LET t == TargetForKey(k)
  IN  IF t = None
      THEN UNCHANGED <<held, joy, writer>>
      ELSE Push(w, Applied(held[w], t, press))

\* coleco_binding_set, to the table.
coleco_binding_set(t, k) ==
  g_bind' = [u \in Target |->
               IF u = t THEN k ELSE IF g_bind[u] = k THEN 0 ELSE g_bind[u]]

MainKey(k, press) ==
  /\ coleco_input_key("main", k, press)
  /\ UNCHANGED <<g_bind, g_map_state, binds>>

KeypadKeyPressed(k) ==
  \/ /\ g_map_state >= 0 /\ binds < MaxBinds
     /\ coleco_binding_set(g_map_state, k)
     /\ g_map_state' = -1 /\ binds' = binds + 1
     /\ UNCHANGED <<held, joy, writer>>
  \/ /\ g_map_state = -1
     /\ UNCHANGED <<ui, joy, writer>>
  \/ /\ g_map_state = -2
     /\ coleco_input_key("keypad", k, TRUE)
     /\ UNCHANGED <<g_bind, g_map_state, binds>>

KeypadKeyReleased(k) ==
  IF g_map_state # -2
  THEN UNCHANGED <<ui, joy, writer>>
  ELSE coleco_input_key("keypad", k, FALSE) /\ UNCHANGED <<g_bind, g_map_state, binds>>

\* on_key_pressed, for a key that goes down or repeats.
KeyPressed(key) ==
  LET k == Sym[key][shift]
  IN  /\ \/ key \notin down
         \/ key = latest /\ focus # "none"
      /\ down' = down \cup {key} /\ latest' = key
      /\ CASE focus = "main"   -> MainKey(k, TRUE) /\ mine' = [mine EXCEPT ![key] = k]
           [] focus = "keypad" -> KeypadKeyPressed(k) /\ UNCHANGED mine
           [] focus = "none"   -> UNCHANGED <<ui, joy, writer, mine>>
      /\ UNCHANGED <<pads, focus, shift, mouse, plugged, pad>>

\* on_key_released
KeyReleased(key) ==
  LET k == Sym[key][shift]
  IN  /\ key \in down
      /\ down' = down \ {key} /\ latest' = IF latest = key THEN None ELSE latest
      /\ CASE focus = "main"   -> MainKey(k, FALSE)
           [] focus = "keypad" -> KeypadKeyReleased(k)
           [] focus = "none"   -> UNCHANGED <<ui, joy, writer>>
      /\ mine' = [mine EXCEPT ![key] = 0]
      /\ UNCHANGED <<pads, focus, shift, mouse, plugged, pad>>

Shift ==
  /\ shift' = ~shift
  /\ UNCHANGED <<ui, joy, pads, focus, down, latest, mouse, plugged, pad, writer, mine>>

on_focus_leave_NoReset ==
  UNCHANGED <<held, joy, writer, mine>>

\* on_focus_leave, which only the main window has: whatever it held is let go.
on_focus_leave ==
  /\ Push("main", AllIdle)
  /\ mine' = [k \in PKey |-> 0]

Focus(w) ==
  /\ w # focus
  /\ focus' = w
  /\ IF focus = "main" THEN on_focus_leave ELSE UNCHANGED <<held, joy, writer, mine>>
  /\ UNCHANGED <<g_bind, g_map_state, binds, pads, down, shift, latest, mouse, plugged, pad>>

-----------------------------------------------------------------------------
(* The keypad window's buttons, with the one mouse.                        *)

\* colecosession_press: only the port it is about.
colecosession_press(t, press) ==
  LET p  == PortOf[t]
      st == Applied(held["panel"], t, press)
  IN  /\ held' = [held EXCEPT !["panel"] = st]
      /\ joy' = [joy EXCEPT ![p] = st[p]]
      /\ writer' = [writer EXCEPT ![p] = "panel"]

\* on_pressed: while a map waits for its control, this is the control.
ButtonPressed(t) ==
  /\ focus = "keypad" /\ mouse = None
  /\ mouse' = t
  /\ \/ /\ g_map_state = -2
        /\ colecosession_press(t, TRUE)
        /\ UNCHANGED g_map_state
     \/ /\ g_map_state = -1
        /\ g_map_state' = t
        /\ UNCHANGED <<held, joy, writer>>
     \/ /\ g_map_state >= 0
        /\ UNCHANGED <<g_map_state, held, joy, writer>>
  /\ UNCHANGED <<g_bind, binds, pads, focus, down, shift, latest, plugged, pad, mine>>

\* on_released and on_cancelled
ButtonReleased ==
  /\ mouse # None
  /\ mouse' = None
  /\ IF g_map_state # -2
     THEN UNCHANGED <<held, joy, writer>>
     ELSE colecosession_press(mouse, FALSE)
  /\ UNCHANGED <<g_bind, g_map_state, binds, pads, focus, down, shift, latest, plugged, pad, mine>>

\* on_map_clicked
MapClicked ==
  /\ focus = "keypad" /\ mouse = None
  /\ g_map_state' = IF g_map_state = -2 THEN -1 ELSE -2
  /\ UNCHANGED <<g_bind, held, binds, joy, pads, world, writer, mine>>

\* on_close, and F9: the window is hidden, and the focus goes elsewhere.
KeypadHidden(w) ==
  /\ focus = "keypad" /\ mouse = None /\ w # "keypad"
  /\ g_map_state' = -2 /\ focus' = w
  /\ UNCHANGED <<g_bind, held, binds, joy, pads, down, shift, latest, mouse, plugged, pad, writer, mine>>

-----------------------------------------------------------------------------
(* The gamepads.                                                           *)

PadPlugged(d) ==
  /\ d \notin plugged
  /\ plugged' = plugged \cup {d}
  /\ UNCHANGED <<ui, joy, pads, focus, down, shift, latest, mouse, pad, writer, mine>>

PadUnplugged(d) ==
  /\ d \in plugged
  /\ plugged' = plugged \ {d} /\ pad' = [pad EXCEPT ![d] = {}]
  /\ UNCHANGED <<ui, joy, pads, focus, down, shift, latest, mouse, writer, mine>>

PadMoved(d, bits) ==
  /\ d \in plugged /\ bits # pad[d]
  /\ pad' = [pad EXCEPT ![d] = bits]
  /\ UNCHANGED <<ui, joy, pads, focus, down, shift, latest, mouse, plugged, writer, mine>>

Gone(ids) == {p \in Port : ids[p] \notin plugged \cup {None}}
Freed(ids) == [p \in Port |-> IF p \in Gone(ids) THEN None ELSE ids[p]]

\* The second half of rescan: each device without a port gets the lowest free
\* one, while there are any; opening it may fail.
Filled(ids) ==
  {new \in [Port -> Device \cup {None}] :
     /\ \A p \in Port : ids[p] # None => new[p] = ids[p]
     /\ \A p \in Port : ids[p] = None /\ new[p] # None =>
          /\ new[p] \in plugged \ {ids[q] : q \in Port}
          /\ \A q \in Port : q < p => new[q] # None
     /\ \A p, q \in Port : new[p] = new[q] /\ new[p] # None => p = q}

rescan_NoRelease ==
  /\ id' \in Filled(Freed(id))
  /\ UNCHANGED <<last, joy, writer>>

\* A port whose device is gone is released, then the free ports are filled.
rescan ==
  /\ id' \in Filled(Freed(id))
  /\ last' = [p \in Port |-> IF p \in Gone(id) THEN Idle ELSE last[p]]
  /\ joy' = [p \in Port |-> IF p \in Gone(id) THEN Idle ELSE joy[p]]
  /\ writer' = [p \in Port |-> IF p \in Gone(id) THEN "pad" ELSE writer[p]]

Rescan ==
  /\ rescan
  /\ UNCHANGED <<ui, world, mine>>

\* poll_thread: a pad is read, and pushed when it changed.
Poll(p) ==
  LET w == [bits |-> pad[id[p]], key |-> None]
  IN  /\ id[p] # None /\ w # last[p]
      /\ last' = [last EXCEPT ![p] = w]
      /\ joy' = [joy EXCEPT ![p] = w]
      /\ writer' = [writer EXCEPT ![p] = "pad"]
      /\ UNCHANGED <<ui, id, world, mine>>

-----------------------------------------------------------------------------

\* colecosession_reset_to_config: another machine, with a gamepad layer that
\* starts over.
ResetToConfig ==
  /\ joy' = AllIdle /\ writer' = [p \in Port |-> "core"]
  /\ id' \in Filled([p \in Port |-> None]) /\ last' = AllIdle
  /\ UNCHANGED <<ui, world, mine>>

Next ==
  \/ \E key \in PKey : KeyPressed(key) \/ KeyReleased(key)
  \/ Shift
  \/ \E w \in Window \cup {"none"} : Focus(w) \/ KeypadHidden(w)
  \/ \E t \in Target : ButtonPressed(t)
  \/ ButtonReleased \/ MapClicked
  \/ \E d \in Device :
       PadPlugged(d) \/ PadUnplugged(d) \/ \E bits \in SUBSET Bit : PadMoved(d, bits)
  \/ Rescan
  \/ \E p \in Port : Poll(p)
  \/ ResetToConfig

Spec == Init /\ [][Next]_vars

-----------------------------------------------------------------------------
(* What must hold.                                                         *)

\* What a writer holds now.
Holds(who, p) ==
  CASE who = "core" -> Idle
    [] who = "pad"  -> last[p]
    [] OTHER        -> held[who][p]

\* The machine samples what its last writer holds now, not what it held at
\* some earlier push: no change of a source's state goes unwritten, on either
\* port.
WordIsCurrent == \A p \in Port : joy[p] = Holds(writer[p], p)

\* A port without a device is not held by the one that is gone.
GonePadIsReleased ==
  \A p \in Port : id[p] = None => last[p] = Idle /\ (writer[p] = "pad" => joy[p] = Idle)

\* A table in which no key is bound under a shifted or keypad name.
Unfolded == \A t \in Target : g_bind[t] # 0 => Fold[g_bind[t]] = g_bind[t]

Seen(key) == IF mine[key] = 0 THEN None ELSE TargetForKey(mine[key])

\* The main window holds a direction or a fire button exactly while a key it
\* saw go down for it is down, whatever Shift did in between and wherever the
\* focus was; and a keypad key only while one is down for it.
MainHoldsWhatIsDown ==
  Unfolded => \A p \in Port :
    LET seen == {ActOf[Seen(key)] : key \in {k \in PKey : Seen(k) # None /\ PortOf[Seen(k)] = p}}
    IN  /\ held["main"][p].bits = seen \cap Bit
        /\ held["main"][p].key \in seen \cup {None}

-----------------------------------------------------------------------------
(* What the comments say and the code does not do.                         *)

\* window.c:355-357, keypad_window.c:274: losing the focus lets go of the keys.
FocusLossReleases ==
  focus = "none" => \A s \in Window : held[s] = AllIdle

\* colecosession.h:257-259: the machine merges the pads' words with the
\* keyboard's.
SourcesMerge ==
  \A p \in Port : last[p].bits \cup held["main"][p].bits \subseteq joy[p].bits

\* session_internal.h:57-59: a button held with the mouse and a key held on the
\* keyboard cannot clear each other.
CannotClearEachOther ==
  [][\A t \in Target : ButtonPressed(t) =>
       \A p \in Port : held["keypad"][p].bits \cap joy[p].bits \subseteq joy'[p].bits]_vars

\* input_map.c:46-50: a keypad key is held until it is released.
NoKeyDownNoKeyHeld ==
  focus = "main" /\ down = {} => \A p \in Port : held["main"][p].key = None
=============================================================================
