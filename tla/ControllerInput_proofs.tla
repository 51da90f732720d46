------------------------ MODULE ControllerInput_proofs ------------------------
(***************************************************************************)
(* Proofs about the writers of the controllers' words, for any controls,   *)
(* keys, bindings, gamepads and number of rebindings.                      *)
(***************************************************************************)
EXTENDS ControllerInput, WellFoundedInduction, TLAPS

\* The type invariant in two parts, the flag apart.
Stores ==
  /\ g_bind \in [Target -> Keysym \cup {0}] /\ g_map_state \in Target \cup {-2, -1}
  /\ held \in [Source -> [Port -> Word]] /\ joy \in [Port -> Word]
  /\ id \in [Port -> Device \cup {None}] /\ last \in [Port -> Word]
  /\ focus \in Window \cup {"none"} /\ down \subseteq PKey
  /\ latest \in PKey \cup {None} /\ mouse \in Target \cup {None}
  /\ plugged \subseteq Device /\ pad \in [Device -> SUBSET Bit]
  /\ writer \in [Port -> Source \cup {"core", "pad"}]
  /\ mine \in [PKey -> Keysym \cup {0}]
  /\ binds \in 0..MaxBinds

LEMMA Parts == TypeOK <=> Stores /\ shift \in BOOLEAN
BY Zenon DEF TypeOK, Stores

-----------------------------------------------------------------------------
(* The operators.                                                          *)

\* A key that drives a control drives the first it matches.
LEMMA FirstMatch ==
  ASSUME NEW k, TargetForKey(k) # None
  PROVE  TargetForKey(k) \in Target /\ TargetForKey(k) \in Matches(k)
<1> DEFINE Less == OpToRel(<, Nat)  S == Matches(k)
<1>1. S # {} /\ S \subseteq Target /\ S \subseteq Nat
  BY ControllerAssumption DEF TargetForKey, Matches
<1>2. \E x \in S : \A y \in S : ~ (<<y, x>> \in Less)
  <2> HIDE DEF S
  <2> QED
    BY <1>1, NatLessThanWellFounded, WFMin
<1>3. \A x, y \in Nat : y < x => <<y, x>> \in Less
  BY DEF OpToRel
<1> HIDE DEF Less
<1>4. PICK x \in S : \A y \in S : ~ (<<y, x>> \in Less)
  BY <1>2
<1>5. \A y \in S : ~ (y < x)
  BY <1>1, <1>3, <1>4
<1>6. \A y \in S : x <= y
  BY <1>1, <1>5
<1> QED
  BY <1>1, <1>6 DEF TargetForKey

LEMMA IdleWord == Idle \in Word /\ AllIdle \in [Port -> Word]
BY DEF Idle, Word, AllIdle

\* Pressing a control changes the word of its own port only.
LEMMA AppliedWord ==
  ASSUME NEW st \in [Port -> Word], NEW t \in Target, NEW press \in BOOLEAN
  PROVE  /\ Applied(st, t, press) \in [Port -> Word]
         /\ PortOf[t] \in Port
         /\ \A p \in Port \ {PortOf[t]} : Applied(st, t, press)[p] = st[p]
<1>1. PortOf[t] \in Port /\ ActOf[t] \in Act
  BY DEF Port, Act
<1> DEFINE w == st[PortOf[t]]
           key == IF press THEN ActOf[t] ELSE IF w.key = ActOf[t] THEN None ELSE w.key
           bits == IF press THEN w.bits \cup {ActOf[t]} ELSE w.bits \ {ActOf[t]}
           new == IF ActOf[t] \in Digit THEN [w EXCEPT !.key = key] ELSE [w EXCEPT !.bits = bits]
<1>2. w \in Word
  BY <1>1
<1>3. ActOf[t] \in Digit => key \in Digit \cup {None}
  BY <1>2 DEF Word
<1>4. ActOf[t] \notin Digit => bits \in SUBSET Bit
  BY <1>1, <1>2 DEF Word, Bit
<1>5. new \in Word
  <2> HIDE DEF key, bits, w
  <2> QED
    BY <1>2, <1>3, <1>4 DEF Word
<1>6. Applied(st, t, press) = [st EXCEPT ![PortOf[t]] = new]
  BY DEF Applied
<1> HIDE DEF new
<1> QED
  BY <1>1, <1>5, <1>6

LEMMA KeysymOf ==
  ASSUME NEW key \in PKey, shift \in BOOLEAN
  PROVE  Sym[key][shift] \in Keysym
BY ControllerAssumption

-----------------------------------------------------------------------------
(* What a step does to the words.                                          *)

Pushes == \E src \in Window, st \in [Port -> Word] : Push(src, st)
Presses == \E t \in Target, press \in BOOLEAN : colecosession_press(t, press)

Effect ==
  \/ UNCHANGED <<held, joy, writer, id, last>>
  \/ (Pushes \/ Presses) /\ UNCHANGED <<id, last>>
  \/ rescan /\ UNCHANGED held
  \/ \E p \in Port : Poll(p)
  \/ ResetToConfig

LEMMA KeyEffect ==
  ASSUME Stores, NEW w \in Window, NEW k \in Keysym, NEW press \in BOOLEAN,
         coleco_input_key(w, k, press)
  PROVE  Pushes \/ UNCHANGED <<held, joy, writer>>
<1>1. CASE TargetForKey(k) = None
  BY <1>1 DEF coleco_input_key
<1>2. CASE TargetForKey(k) # None
  <2>1. held[w] \in [Port -> Word] /\ TargetForKey(k) \in Target
    BY <1>2, FirstMatch DEF Stores, Source, Window
  <2>2. Applied(held[w], TargetForKey(k), press) \in [Port -> Word]
    BY <2>1, AppliedWord
  <2>3. Push(w, Applied(held[w], TargetForKey(k), press))
    BY <1>2 DEF coleco_input_key
  <2> QED
    BY <2>2, <2>3 DEF Pushes
<1> QED
  BY <1>1, <1>2

LEMMA Effects == TypeOK /\ [Next]_vars => Effect
<1> SUFFICES ASSUME Stores, shift \in BOOLEAN, [Next]_vars PROVE Effect
  BY Parts
<1> USE DEF pads, ui, world
<1>1. ASSUME NEW key \in PKey, KeyPressed(key) PROVE Effect
  <2> DEFINE k == Sym[key][shift]
  <2>1. k \in Keysym
    BY KeysymOf
  <2>2. UNCHANGED <<id, last>>
    BY <1>1 DEF KeyPressed
  <2>3. CASE focus = "main"
    <3>1. coleco_input_key("main", k, TRUE)
      BY <1>1, <2>3 DEF KeyPressed, MainKey
    <3> QED
      BY <2>1, <2>2, <3>1, KeyEffect DEF Effect, Window
  <2>4. CASE focus = "keypad"
    <3>1. coleco_input_key("keypad", k, TRUE) \/ UNCHANGED <<held, joy, writer>>
      BY <1>1, <2>4 DEF KeyPressed, KeypadKeyPressed
    <3> QED
      BY <2>1, <2>2, <3>1, KeyEffect DEF Effect, Window
  <2>5. CASE focus = "none"
    BY <1>1, <2>2, <2>5 DEF KeyPressed, Effect
  <2> QED
    BY <2>3, <2>4, <2>5 DEF Stores, Window
<1>2. ASSUME NEW key \in PKey, KeyReleased(key) PROVE Effect
  <2> DEFINE k == Sym[key][shift]
  <2>1. k \in Keysym
    BY KeysymOf
  <2>2. UNCHANGED <<id, last>>
    BY <1>2 DEF KeyReleased
  <2>3. CASE focus = "main"
    <3>1. coleco_input_key("main", k, FALSE)
      BY <1>2, <2>3 DEF KeyReleased, MainKey
    <3> QED
      BY <2>1, <2>2, <3>1, KeyEffect DEF Effect, Window
  <2>4. CASE focus = "keypad"
    <3>1. coleco_input_key("keypad", k, FALSE) \/ UNCHANGED <<held, joy, writer>>
      BY <1>2, <2>4 DEF KeyReleased, KeypadKeyReleased
    <3> QED
      BY <2>1, <2>2, <3>1, KeyEffect DEF Effect, Window
  <2>5. CASE focus = "none"
    BY <1>2, <2>2, <2>5 DEF KeyReleased, Effect
  <2> QED
    BY <2>3, <2>4, <2>5 DEF Stores, Window
<1>3. ASSUME NEW w \in Window \cup {"none"}, Focus(w) PROVE Effect
  BY <1>3, IdleWord DEF Focus, on_focus_leave, Effect, Pushes, Window
<1>4. ASSUME NEW t \in Target, ButtonPressed(t) PROVE Effect
  BY <1>4 DEF ButtonPressed, Effect, Presses
<1>5. CASE ButtonReleased
  BY <1>5 DEF ButtonReleased, Effect, Presses, Stores
<1>6. CASE Rescan
  BY <1>6 DEF Rescan, Effect
<1>7. CASE (\E p \in Port : Poll(p)) \/ ResetToConfig
  BY <1>7 DEF Effect
<1>8. CASE \/ Shift \/ MapClicked
           \/ \E w \in Window \cup {"none"} : KeypadHidden(w)
           \/ \E d \in Device :
                PadPlugged(d) \/ PadUnplugged(d) \/ \E bits \in SUBSET Bit : PadMoved(d, bits)
           \/ UNCHANGED vars
  BY <1>8 DEF Shift, MapClicked, KeypadHidden, PadPlugged, PadUnplugged, PadMoved, vars, Effect
<1> QED
  BY <1>1, <1>2, <1>3, <1>4, <1>5, <1>6, <1>7, <1>8 DEF Next

-----------------------------------------------------------------------------
(* The words.                                                              *)

LEMMA EffectType ==
  Stores /\ Effect =>
    /\ held' \in [Source -> [Port -> Word]] /\ joy' \in [Port -> Word]
    /\ writer' \in [Port -> Source \cup {"core", "pad"}]
    /\ id' \in [Port -> Device \cup {None}] /\ last' \in [Port -> Word]
<1> SUFFICES ASSUME Stores, Effect
    PROVE /\ held' \in [Source -> [Port -> Word]] /\ joy' \in [Port -> Word]
          /\ writer' \in [Port -> Source \cup {"core", "pad"}]
          /\ id' \in [Port -> Device \cup {None}] /\ last' \in [Port -> Word]
  OBVIOUS
<1> USE IdleWord DEF Stores
<1>1. CASE UNCHANGED <<held, joy, writer, id, last>>
  BY <1>1
<1>2. CASE Pushes /\ UNCHANGED <<id, last>>
  BY <1>2 DEF Pushes, Push, Source, Window
<1>3. CASE Presses /\ UNCHANGED <<id, last>>
  <2>1. PICK t \in Target, press \in BOOLEAN : colecosession_press(t, press)
    BY <1>3 DEF Presses
  <2> DEFINE st == Applied(held["panel"], t, press)
  <2>2. st \in [Port -> Word] /\ PortOf[t] \in Port
    BY AppliedWord DEF Source
  <2>3. /\ held' = [held EXCEPT !["panel"] = st]
        /\ joy' = [joy EXCEPT ![PortOf[t]] = st[PortOf[t]]]
        /\ writer' = [writer EXCEPT ![PortOf[t]] = "panel"]
    BY <2>1 DEF colecosession_press
  <2> HIDE DEF st
  <2> QED
    BY <1>3, <2>2, <2>3 DEF Source
<1>4. CASE rescan /\ UNCHANGED held
  BY <1>4 DEF rescan, Filled
<1>5. ASSUME NEW p \in Port, Poll(p)
      PROVE  /\ held' \in [Source -> [Port -> Word]] /\ joy' \in [Port -> Word]
             /\ writer' \in [Port -> Source \cup {"core", "pad"}]
             /\ id' \in [Port -> Device \cup {None}] /\ last' \in [Port -> Word]
  <2> DEFINE w == [bits |-> pad[id[p]], key |-> None]
  <2>1. w \in Word
    BY <1>5 DEF Poll, Word
  <2>2. /\ last' = [last EXCEPT ![p] = w] /\ joy' = [joy EXCEPT ![p] = w]
        /\ writer' = [writer EXCEPT ![p] = "pad"] /\ UNCHANGED <<held, id>>
    BY <1>5 DEF Poll, ui
  <2> HIDE DEF w
  <2> QED
    BY <2>1, <2>2
<1>6. CASE ResetToConfig
  BY <1>6 DEF ResetToConfig, Filled, ui
<1> QED
  BY <1>1, <1>2, <1>3, <1>4, <1>5, <1>6 DEF Effect

LEMMA NextType == TypeOK /\ [Next]_vars => TypeOK'
<1> SUFFICES ASSUME Stores, shift \in BOOLEAN, [Next]_vars PROVE Stores' /\ shift' \in BOOLEAN
  BY Parts DEF TypeOK, Stores
<1>1. /\ held' \in [Source -> [Port -> Word]] /\ joy' \in [Port -> Word]
      /\ writer' \in [Port -> Source \cup {"core", "pad"}]
      /\ id' \in [Port -> Device \cup {None}] /\ last' \in [Port -> Word]
  BY Effects, EffectType, Parts
<1>2. shift' \in BOOLEAN
  BY Zenon DEF Next, KeyPressed, KeyReleased, Shift, Focus, KeypadHidden, ButtonPressed,
         ButtonReleased, MapClicked, PadPlugged, PadUnplugged, PadMoved, Rescan, Poll,
         ResetToConfig, vars, world
<1>3. /\ focus' \in Window \cup {"none"} /\ down' \subseteq PKey
      /\ latest' \in PKey \cup {None} /\ mouse' \in Target \cup {None}
      /\ plugged' \subseteq Device /\ pad' \in [Device -> SUBSET Bit]
  BY DEF Next, KeyPressed, KeyReleased, Shift, Focus, KeypadHidden, ButtonPressed,
         ButtonReleased, MapClicked, PadPlugged, PadUnplugged, PadMoved, Rescan, Poll,
         ResetToConfig, vars, world, Stores
<1>4. mine' \in [PKey -> Keysym \cup {0}]
  <2>1. ASSUME NEW key \in PKey, KeyPressed(key) PROVE mine' \in [PKey -> Keysym \cup {0}]
    <3> DEFINE k == Sym[key][shift]
    <3>1. k \in Keysym
      BY KeysymOf
    <3>2. mine' = mine \/ mine' = [mine EXCEPT ![key] = k]
      BY <2>1 DEF KeyPressed, Stores, Window
    <3> HIDE DEF k
    <3> QED
      BY <3>1, <3>2 DEF Stores
  <2>2. ASSUME ~ \E key \in PKey : KeyPressed(key)
        PROVE  mine' \in [PKey -> Keysym \cup {0}]
    BY <2>2 DEF Next, KeyReleased, Shift, Focus, on_focus_leave, KeypadHidden, ButtonPressed,
         ButtonReleased, MapClicked, PadPlugged, PadUnplugged, PadMoved, Rescan, Poll,
         ResetToConfig, vars, Stores
  <2> QED
    BY <2>1, <2>2
<1>5. /\ g_bind' \in [Target -> Keysym \cup {0}] /\ g_map_state' \in Target \cup {-2, -1}
      /\ binds' \in 0..MaxBinds
  <2> DEFINE Good == /\ g_bind' \in [Target -> Keysym \cup {0}]
                     /\ g_map_state' \in Target \cup {-2, -1}
                     /\ binds' \in 0..MaxBinds
  <2>1. ASSUME NEW key \in PKey, KeyPressed(key) PROVE Good
    <3> DEFINE k == Sym[key][shift]
    <3>1. k \in Keysym
      BY KeysymOf
    <3>2. \/ UNCHANGED <<g_bind, g_map_state, binds>>
          \/ /\ g_map_state >= 0 /\ binds < MaxBinds
             /\ coleco_binding_set(g_map_state, k)
             /\ g_map_state' = -1 /\ binds' = binds + 1
      BY <2>1 DEF KeyPressed, MainKey, KeypadKeyPressed, Stores, Window, ui
    <3> HIDE DEF k
    <3>3. CASE UNCHANGED <<g_bind, g_map_state, binds>>
      BY <3>3 DEF Stores
    <3>4. CASE /\ g_map_state >= 0 /\ binds < MaxBinds
               /\ coleco_binding_set(g_map_state, k)
               /\ g_map_state' = -1 /\ binds' = binds + 1
      BY <3>1, <3>4, ControllerAssumption DEF Stores, coleco_binding_set
    <3> QED
      BY <3>2, <3>3, <3>4
  <2>2. ASSUME NEW key \in PKey, KeyReleased(key) PROVE Good
    <3>1. UNCHANGED <<g_bind, g_map_state, binds>>
      BY <2>2 DEF KeyReleased, MainKey, KeypadKeyReleased, Stores, Window, ui
    <3> QED
      BY <3>1 DEF Stores
  <2>3. ASSUME ~ \E key \in PKey : KeyPressed(key) \/ KeyReleased(key) PROVE Good
    BY <2>3 DEF Next, Shift, Focus, KeypadHidden, ButtonPressed,
         ButtonReleased, MapClicked, PadPlugged, PadUnplugged, PadMoved, Rescan, Poll,
         ResetToConfig, vars, ui, Stores
  <2> QED
    BY <2>1, <2>2, <2>3
<1> QED
  BY <1>1, <1>2, <1>3, <1>4, <1>5 DEF Stores

LEMMA InitType == Init => TypeOK
<1> SUFFICES ASSUME Init PROVE Stores /\ shift \in BOOLEAN
  BY Parts
<1>1. shift \in BOOLEAN
  BY DEF Init
<1>2. Stores
  BY ControllerAssumption, IdleWord DEF Init, Stores, Source, Window, None
<1> QED
  BY <1>1, <1>2

\* What a step does to the words keeps them what their writers hold.
LEMMA WordsKept ==
  TypeOK /\ WordIsCurrent /\ GonePadIsReleased /\ Effect => WordIsCurrent' /\ GonePadIsReleased'
<1> SUFFICES ASSUME Stores, WordIsCurrent, GonePadIsReleased, Effect
             PROVE  WordIsCurrent' /\ GonePadIsReleased'
  BY Parts
<1> USE DEF WordIsCurrent, GonePadIsReleased, Holds, Stores
<1>1. CASE UNCHANGED <<held, joy, writer, id, last>>
  BY <1>1
<1>2. CASE Pushes /\ UNCHANGED <<id, last>>
  BY <1>2 DEF Pushes, Push, Source, Window
<1>3. CASE Presses /\ UNCHANGED <<id, last>>
  <2>1. PICK t \in Target, press \in BOOLEAN : colecosession_press(t, press)
    BY <1>3 DEF Presses
  <2> DEFINE st == Applied(held["panel"], t, press)
  <2>2. /\ st \in [Port -> Word] /\ PortOf[t] \in Port
        /\ \A p \in Port \ {PortOf[t]} : st[p] = held["panel"][p]
    BY AppliedWord DEF Source
  <2>3. /\ held' = [held EXCEPT !["panel"] = st]
        /\ joy' = [joy EXCEPT ![PortOf[t]] = st[PortOf[t]]]
        /\ writer' = [writer EXCEPT ![PortOf[t]] = "panel"]
    BY <2>1 DEF colecosession_press
  <2> HIDE DEF st
  <2>4. held'["panel"] = st /\ \A s \in Source \ {"panel"} : held'[s] = held[s]
    BY <2>3 DEF Source
  <2>5. \A p \in Port : joy'[p] = IF p = PortOf[t] THEN st[p] ELSE joy[p]
    BY <2>3, <2>2
  <2>6. \A p \in Port : writer'[p] = IF p = PortOf[t] THEN "panel" ELSE writer[p]
    BY <2>3, <2>2
  <2>7. WordIsCurrent'
    BY <1>3, <2>2, <2>4, <2>5, <2>6 DEF Source
  <2>8. GonePadIsReleased'
    BY <1>3, <2>2, <2>5, <2>6
  <2> QED
    BY <2>7, <2>8
<1>4. CASE rescan /\ UNCHANGED held
  <2>1. \A p \in Port : id'[p] = None => id[p] = None \/ p \in Gone(id)
    BY <1>4 DEF rescan, Filled, Freed
  <2> QED
    BY <1>4, <2>1 DEF rescan
<1>5. ASSUME NEW p \in Port, Poll(p) PROVE WordIsCurrent' /\ GonePadIsReleased'
  <2> DEFINE w == [bits |-> pad[id[p]], key |-> None]
  <2>1. /\ last' = [last EXCEPT ![p] = w] /\ joy' = [joy EXCEPT ![p] = w]
        /\ writer' = [writer EXCEPT ![p] = "pad"] /\ UNCHANGED <<held, id>>
        /\ id[p] # None
    BY <1>5 DEF Poll, ui
  <2> HIDE DEF w
  <2> QED
    BY <2>1
<1>6. CASE ResetToConfig
  BY <1>6 DEF ResetToConfig, AllIdle, ui
<1> QED
  BY <1>1, <1>2, <1>3, <1>4, <1>5, <1>6 DEF Effect

LEMMA InitWords == Init => WordIsCurrent /\ GonePadIsReleased
BY DEF Init, WordIsCurrent, GonePadIsReleased, Holds, AllIdle

Words == TypeOK /\ WordIsCurrent /\ GonePadIsReleased

\* The types hold in every state.
THEOREM Typing == Spec => []TypeOK
BY InitType, NextType, PTL DEF Spec

\* The words, the types and the pads' ports are right in every state.
THEOREM WordsAreTrue == Spec => []Words
<1>1. Init => Words
  BY InitType, InitWords DEF Words
<1>2. Words /\ [Next]_vars => Words'
  BY NextType, Effects, WordsKept DEF Words
<1> QED
  BY <1>1, <1>2, PTL DEF Spec

\* What the machine samples is what the source that wrote last holds now, on
\* either port (frontends/gnome/window.c:push_input, session.c:colecosession_press,
\* gamepad_sdl.c:poll_thread).
THEOREM SampledIsHeld == Spec => []WordIsCurrent
BY WordsAreTrue, PTL DEF Words

\* A port whose gamepad has gone is released (gamepad_sdl.c:rescan).
THEOREM UnpluggedIsReleased == Spec => []GonePadIsReleased
BY WordsAreTrue, PTL DEF Words

-----------------------------------------------------------------------------
(* The main window.                                                        *)

\* The keyboard of the theorem: Shift changes only what fold() takes back, and
\* no two keys fold to one.  (A key that is "3" and "#", or a second Enter, is
\* not of this kind: see NoKeyDownNoKeyHeld.)
Keyboard ==
  /\ \A key \in PKey : Fold[Sym[key][TRUE]] = Fold[Sym[key][FALSE]]
  /\ \A k, l \in PKey : Fold[Sym[k][FALSE]] = Fold[Sym[l][FALSE]] => k = l

\* What the main window saw go down at a port.
SeenAt(p) == {ActOf[Seen(key)] : key \in {k \in PKey : Seen(k) # None /\ PortOf[Seen(k)] = p}}

\* Away from the main window nothing is held for it, and it has seen nothing go
\* down; what it saw was the key, as it is with or without Shift.
AwayInv ==
  /\ focus # "main" => held["main"] = AllIdle /\ \A key \in PKey : mine[key] = 0
  /\ \A key \in PKey : mine[key] # 0 => Fold[mine[key]] = Fold[Sym[key][FALSE]]

MainInv == TypeOK /\ AwayInv /\ MainHoldsWhatIsDown

LEMMA HoldsSeen ==
  MainHoldsWhatIsDown <=>
    (Unfolded => \A p \in Port : /\ held["main"][p].bits = SeenAt(p) \cap Bit
                                 /\ held["main"][p].key \in SeenAt(p) \cup {None})
BY DEF MainHoldsWhatIsDown, SeenAt

\* The main window that saw nothing and holds nothing is right.
LEMMA NothingSeen ==
  ASSUME held["main"] = AllIdle, \A key \in PKey : mine[key] = 0
  PROVE  MainHoldsWhatIsDown
BY DEF MainHoldsWhatIsDown, Seen, AllIdle, Idle

\* In a table without shifted names a key drives what its folded keysym drives.
LEMMA MatchesFold ==
  ASSUME Unfolded, NEW k
  PROVE  Matches(k) = {t \in Target : g_bind[t] # 0 /\ g_bind[t] = Fold[k]}
BY DEF Unfolded, Matches

LEMMA SameFold ==
  ASSUME Unfolded, NEW k, NEW l, Fold[k] = Fold[l]
  PROVE  TargetForKey(k) = TargetForKey(l)
<1>1. Matches(k) = Matches(l)
  BY MatchesFold
<1> QED
  BY <1>1 DEF TargetForKey

LEMMA DrivenBy ==
  ASSUME Unfolded, NEW k, TargetForKey(k) # None
  PROVE  TargetForKey(k) \in Target /\ g_bind[TargetForKey(k)] = Fold[k]
BY FirstMatch, MatchesFold

\* What a key saw go down is its own.
LEMMA OwnTarget ==
  ASSUME Keyboard, AwayInv, Unfolded, NEW key \in PKey, Seen(key) # None
  PROVE  /\ Seen(key) \in Target /\ mine[key] # 0
         /\ g_bind[Seen(key)] = Fold[Sym[key][FALSE]]
BY DrivenBy DEF Seen, AwayInv

LEMMA SymFold ==
  ASSUME Keyboard, shift \in BOOLEAN, NEW key \in PKey
  PROVE  Fold[Sym[key][shift]] = Fold[Sym[key][FALSE]]
BY DEF Keyboard

\* With the table as it is, only the keys that were written to see another
\* control.
LEMMA SeenNext ==
  ASSUME UNCHANGED g_bind, NEW key \in PKey
  PROVE  Seen(key)' = IF mine'[key] = 0 THEN None ELSE TargetForKey(mine'[key])
BY DEF Seen, TargetForKey, Matches

\* A step that leaves the table and the main window alone.
LEMMA MainUntouched ==
  MainHoldsWhatIsDown /\ UNCHANGED <<g_bind, mine, held["main"]>> => MainHoldsWhatIsDown'
<1> SUFFICES ASSUME MainHoldsWhatIsDown, UNCHANGED <<g_bind, mine, held["main"]>>,
                    Unfolded', NEW p \in Port
             PROVE  /\ held'["main"][p].bits = SeenAt(p)' \cap Bit
                    /\ held'["main"][p].key \in SeenAt(p)' \cup {None}
  BY DEF MainHoldsWhatIsDown, SeenAt
<1>1. Unfolded
  BY DEF Unfolded
<1>2. \A key \in PKey : Seen(key)' = Seen(key)
  BY SeenNext DEF Seen
<1>3. SeenAt(p)' = SeenAt(p)
  BY <1>2 DEF SeenAt
<1> QED
  BY <1>1, <1>3, HoldsSeen

LEMMA MainPress ==
  ASSUME Keyboard, Stores, AwayInv, MainHoldsWhatIsDown, NEW key \in PKey, NEW k \in Keysym,
         Fold[k] = Fold[Sym[key][FALSE]],
         coleco_input_key("main", k, TRUE), mine' = [mine EXCEPT ![key] = k], UNCHANGED g_bind
  PROVE  MainHoldsWhatIsDown'
<1> SUFFICES ASSUME Unfolded', NEW p \in Port
             PROVE  /\ held'["main"][p].bits = SeenAt(p)' \cap Bit
                    /\ held'["main"][p].key \in SeenAt(p)' \cup {None}
  BY DEF MainHoldsWhatIsDown, SeenAt
<1>1. Unfolded
  BY DEF Unfolded
<1>2. /\ held["main"][p].bits = SeenAt(p) \cap Bit
      /\ held["main"][p].key \in SeenAt(p) \cup {None}
  BY <1>1, HoldsSeen
<1> DEFINE T == TargetForKey(k)
<1>3. /\ Seen(key)' = T
      /\ \A l \in PKey \ {key} : Seen(l)' = Seen(l)
      /\ Seen(key) \in {None, T}
  <2>1. k # 0 /\ mine'[key] = k /\ \A l \in PKey \ {key} : mine'[l] = mine[l]
    BY ControllerAssumption DEF Stores
  <2>2. mine[key] # 0 => TargetForKey(mine[key]) = T
    BY <1>1, SameFold DEF AwayInv
  <2> QED
    BY <2>1, <2>2, SeenNext DEF Seen
<1>4. CASE T = None
  <2>1. SeenAt(p)' = SeenAt(p)
    BY <1>3, <1>4 DEF SeenAt
  <2> QED
    BY <1>2, <1>4, <2>1 DEF coleco_input_key
<1>5. CASE T # None
  <2>1. T \in Target /\ PortOf[T] \in Port /\ ActOf[T] \in Act
    BY <1>5, FirstMatch DEF Port, Act
  <2> DEFINE st == Applied(held["main"], T, TRUE)
  <2>2. held'["main"] = st
    BY <1>5 DEF coleco_input_key, Push, Stores, Source
  <2>3. held["main"] \in [Port -> Word]
    BY DEF Stores, Source
  <2>4. CASE p # PortOf[T]
    <3>1. SeenAt(p)' = SeenAt(p)
      BY <1>3, <2>4 DEF SeenAt
    <3>2. st[p] = held["main"][p]
      BY <2>1, <2>3, <2>4, AppliedWord
    <3> QED
      BY <1>2, <2>2, <3>1, <3>2
  <2>5. CASE p = PortOf[T]
    <3>1. SeenAt(p)' = SeenAt(p) \cup {ActOf[T]}
      BY <1>3, <1>5, <2>5 DEF SeenAt
    <3>2. CASE ActOf[T] \in Digit
      <4>1. st[p].bits = held["main"][p].bits /\ st[p].key = ActOf[T]
        BY <2>1, <2>3, <2>5, <3>2 DEF Applied, Word
      <4> QED
        BY <1>2, <2>2, <3>1, <3>2, <4>1 DEF Bit
    <3>3. CASE ActOf[T] \notin Digit
      <4>1. st[p].bits = held["main"][p].bits \cup {ActOf[T]} /\ st[p].key = held["main"][p].key
        BY <2>1, <2>3, <2>5, <3>3 DEF Applied, Word
      <4> QED
        BY <1>2, <2>1, <2>2, <3>1, <3>3, <4>1 DEF Bit
    <3> QED
      BY <3>2, <3>3
  <2> QED
    BY <2>4, <2>5
<1> QED
  BY <1>4, <1>5

LEMMA MainRelease ==
  ASSUME Keyboard, Stores, AwayInv, MainHoldsWhatIsDown, NEW key \in PKey, NEW k \in Keysym,
         Fold[k] = Fold[Sym[key][FALSE]],
         coleco_input_key("main", k, FALSE), mine' = [mine EXCEPT ![key] = 0], UNCHANGED g_bind
  PROVE  MainHoldsWhatIsDown'
<1> SUFFICES ASSUME Unfolded', NEW p \in Port
             PROVE  /\ held'["main"][p].bits = SeenAt(p)' \cap Bit
                    /\ held'["main"][p].key \in SeenAt(p)' \cup {None}
  BY DEF MainHoldsWhatIsDown, SeenAt
<1>1. Unfolded
  BY DEF Unfolded
<1>2. /\ held["main"][p].bits = SeenAt(p) \cap Bit
      /\ held["main"][p].key \in SeenAt(p) \cup {None}
  BY <1>1, HoldsSeen
<1> DEFINE T == TargetForKey(k)
<1>3. /\ Seen(key)' = None
      /\ \A l \in PKey \ {key} : Seen(l)' = Seen(l)
      /\ Seen(key) \in {None, T}
  <2>1. mine'[key] = 0 /\ \A l \in PKey \ {key} : mine'[l] = mine[l]
    BY DEF Stores
  <2>2. mine[key] # 0 => TargetForKey(mine[key]) = T
    BY <1>1, SameFold DEF AwayInv
  <2> QED
    BY <2>1, <2>2, SeenNext DEF Seen
<1>4. CASE T = None
  <2>1. SeenAt(p)' = SeenAt(p)
    BY <1>3, <1>4 DEF SeenAt
  <2> QED
    BY <1>2, <1>4, <2>1 DEF coleco_input_key
<1>5. CASE T # None
  <2>1. T \in Target /\ PortOf[T] \in Port /\ ActOf[T] \in Act /\ g_bind[T] = Fold[k]
    BY <1>1, <1>5, DrivenBy DEF Port, Act
  <2> DEFINE st == Applied(held["main"], T, FALSE)
  <2>2. held'["main"] = st
    BY <1>5 DEF coleco_input_key, Push, Stores, Source
  <2>3. held["main"] \in [Port -> Word]
    BY DEF Stores, Source
  <2>4. CASE p # PortOf[T]
    <3>1. SeenAt(p)' = SeenAt(p)
      BY <1>3, <2>4 DEF SeenAt
    <3>2. st[p] = held["main"][p]
      BY <2>1, <2>3, <2>4 DEF Applied
    <3> QED
      BY <1>2, <2>2, <3>1, <3>2
  <2>5. CASE p = PortOf[T]
    <3>1. \A l \in PKey \ {key} : Seen(l) # None /\ PortOf[Seen(l)] = p => ActOf[Seen(l)] # ActOf[T]
      <4> SUFFICES ASSUME NEW l \in PKey \ {key}, Seen(l) # None, PortOf[Seen(l)] = p,
                          ActOf[Seen(l)] = ActOf[T]
                   PROVE  FALSE
        OBVIOUS
      <4>1. Seen(l) \in Target /\ g_bind[Seen(l)] = Fold[Sym[l][FALSE]]
        BY <1>1, OwnTarget
      <4>2. Seen(l) = T
        BY <2>1, <2>5, <4>1, ControllerAssumption
      <4>3. Fold[Sym[l][FALSE]] = Fold[Sym[key][FALSE]]
        BY <2>1, <4>1, <4>2, Zenon
      <4> QED
        BY <4>3 DEF Keyboard
    <3>2. SeenAt(p)' = SeenAt(p) \ {ActOf[T]}
      BY <1>3, <2>5, <3>1 DEF SeenAt
    <3>3. CASE ActOf[T] \in Digit
      <4>1. /\ st[p].bits = held["main"][p].bits
            /\ st[p].key = IF held["main"][p].key = ActOf[T] THEN None ELSE held["main"][p].key
        BY <2>1, <2>3, <2>5, <3>3 DEF Applied, Word
      <4> QED
        BY <1>2, <2>2, <3>2, <3>3, <4>1 DEF Bit
    <3>4. CASE ActOf[T] \notin Digit
      <4>1. st[p].bits = held["main"][p].bits \ {ActOf[T]} /\ st[p].key = held["main"][p].key
        BY <2>1, <2>3, <2>5, <3>4 DEF Applied, Word
      <4>2. held["main"][p].key \in Digit \cup {None}
        BY <2>3 DEF Word
      <4> QED
        BY <1>2, <2>1, <2>2, <3>2, <3>4, <4>1, <4>2 DEF Bit
    <3> QED
      BY <3>3, <3>4
  <2> QED
    BY <2>4, <2>5
<1> QED
  BY <1>4, <1>5

\* A step that is not the main window's leaves what it holds alone, and what it
\* saw; the table changes only while another window has the focus.
LEMMA MainElsewhere ==
  ASSUME AwayInv, MainHoldsWhatIsDown, UNCHANGED <<mine, held["main"]>>,
         focus # "main" \/ UNCHANGED g_bind
  PROVE  MainHoldsWhatIsDown'
<1>1. CASE focus # "main"
  <2>1. held'["main"] = AllIdle /\ \A key \in PKey : mine'[key] = 0
    BY <1>1 DEF AwayInv
  <2> QED
    BY <2>1 DEF MainHoldsWhatIsDown, Seen, AllIdle, Idle
<1>2. CASE UNCHANGED g_bind
  BY <1>2, MainUntouched
<1> QED
  BY <1>1, <1>2

\* What the keypad window does with a key is nothing to the main window.
LEMMA KeypadKey ==
  ASSUME Stores, NEW k, NEW press,
         \/ coleco_input_key("keypad", k, press)
         \/ UNCHANGED <<held, joy, writer>>
  PROVE  UNCHANGED held["main"]
BY DEF coleco_input_key, Push, Stores, Source

LEMMA NextMain == ASSUME Keyboard PROVE MainInv /\ [Next]_vars => MainInv'
<1> SUFFICES ASSUME MainInv, [Next]_vars PROVE AwayInv' /\ MainHoldsWhatIsDown'
  BY NextType DEF MainInv
<1> USE DEF MainInv, pads, ui, world
<1>0. Stores /\ shift \in BOOLEAN
  BY Parts
<1> DEFINE Good == AwayInv' /\ MainHoldsWhatIsDown'
<1>1. ASSUME NEW key \in PKey, KeyPressed(key) PROVE Good
  <2> DEFINE k == Sym[key][shift]
  <2>1. k \in Keysym /\ Fold[k] = Fold[Sym[key][FALSE]]
    BY <1>0, KeysymOf, SymFold
  <2> HIDE DEF k
  <2>2. focus' = focus
    BY <1>1 DEF KeyPressed
  <2>3. CASE focus = "main"
    <3>1. /\ coleco_input_key("main", k, TRUE) /\ mine' = [mine EXCEPT ![key] = k]
          /\ UNCHANGED g_bind
      BY <1>1, <2>3 DEF KeyPressed, MainKey, k
    <3>2. AwayInv'
      BY <1>0, <2>1, <2>2, <2>3, <3>1 DEF AwayInv, Stores
    <3> QED
      BY <1>0, <2>1, <3>1, <3>2, MainPress
  <2>4. CASE focus # "main"
    <3>1. UNCHANGED mine
      BY <1>0, <1>1, <2>4 DEF KeyPressed, Stores, Window
    <3>2. UNCHANGED held["main"]
      <4>1. CASE focus = "keypad"
        <5>1. coleco_input_key("keypad", k, TRUE) \/ UNCHANGED <<held, joy, writer>>
          BY <1>1, <4>1 DEF KeyPressed, KeypadKeyPressed, k
        <5> QED
          BY <1>0, <5>1, KeypadKey
      <4>2. CASE focus = "none"
        BY <1>1, <4>2 DEF KeyPressed
      <4> QED
        BY <1>0, <2>4, <4>1, <4>2 DEF Stores, Window
    <3>3. AwayInv'
      BY <2>2, <3>1, <3>2 DEF AwayInv
    <3> QED
      BY <2>4, <3>1, <3>2, <3>3, MainElsewhere
  <2> QED
    BY <2>3, <2>4
<1>2. ASSUME NEW key \in PKey, KeyReleased(key) PROVE Good
  <2> DEFINE k == Sym[key][shift]
  <2>1. k \in Keysym /\ Fold[k] = Fold[Sym[key][FALSE]]
    BY <1>0, KeysymOf, SymFold
  <2> HIDE DEF k
  <2>2. focus' = focus /\ mine' = [mine EXCEPT ![key] = 0]
    BY <1>2 DEF KeyReleased
  <2>3. CASE focus = "main"
    <3>1. coleco_input_key("main", k, FALSE) /\ UNCHANGED g_bind
      BY <1>2, <2>3 DEF KeyReleased, MainKey, k
    <3>2. AwayInv'
      BY <1>0, <2>2, <2>3 DEF AwayInv, Stores
    <3> QED
      BY <1>0, <2>1, <2>2, <3>1, <3>2, MainRelease
  <2>4. CASE focus # "main"
    <3>1. mine[key] = 0 /\ UNCHANGED mine
      BY <1>0, <2>2, <2>4 DEF AwayInv, Stores
    <3>2. UNCHANGED held["main"]
      <4>1. CASE focus = "keypad"
        <5>1. coleco_input_key("keypad", k, FALSE) \/ UNCHANGED <<held, joy, writer>>
          BY <1>2, <4>1 DEF KeyReleased, KeypadKeyReleased, k
        <5> QED
          BY <1>0, <5>1, KeypadKey
      <4>2. CASE focus = "none"
        BY <1>2, <4>2 DEF KeyReleased
      <4> QED
        BY <1>0, <2>4, <4>1, <4>2 DEF Stores, Window
    <3>3. AwayInv'
      BY <2>2, <3>1, <3>2 DEF AwayInv
    <3> QED
      BY <2>4, <3>1, <3>2, <3>3, MainElsewhere
  <2> QED
    BY <2>3, <2>4
<1>3. ASSUME NEW w \in Window \cup {"none"}, Focus(w) PROVE Good
  <2>1. focus' = w /\ UNCHANGED g_bind
    BY <1>3 DEF Focus
  <2>2. CASE focus = "main"
    <3>1. held'["main"] = AllIdle /\ \A key \in PKey : mine'[key] = 0
      BY <1>0, <1>3, <2>2 DEF Focus, on_focus_leave, Push, Stores, Source
    <3>2. MainHoldsWhatIsDown'
      BY <3>1 DEF MainHoldsWhatIsDown, Seen, AllIdle, Idle
    <3> QED
      BY <3>1, <3>2 DEF AwayInv
  <2>3. CASE focus # "main"
    <3>1. UNCHANGED <<mine, held["main"]>>
      BY <1>3, <2>3 DEF Focus
    <3>2. AwayInv'
      BY <2>3, <3>1 DEF AwayInv
    <3> QED
      BY <2>3, <3>1, <3>2, MainElsewhere
  <2> QED
    BY <2>2, <2>3
<1>4. ASSUME UNCHANGED <<g_bind, mine, held["main"]>>, focus' = focus \/ focus # "main" PROVE Good
  <2>1. AwayInv'
    BY <1>4 DEF AwayInv
  <2> QED
    BY <1>4, <2>1, MainUntouched
<1>5. ASSUME NEW t \in Target, ButtonPressed(t) PROVE Good
  BY <1>0, <1>4, <1>5 DEF ButtonPressed, colecosession_press, Stores, Source
<1>6. CASE ButtonReleased
  BY <1>0, <1>4, <1>6 DEF ButtonReleased, colecosession_press, Stores, Source
<1>7. ASSUME NEW w \in Window \cup {"none"}, KeypadHidden(w) PROVE Good
  BY <1>4, <1>7 DEF KeypadHidden
<1>8. CASE \/ Shift \/ MapClicked \/ Rescan \/ ResetToConfig
           \/ \E d \in Device :
                PadPlugged(d) \/ PadUnplugged(d) \/ \E bits \in SUBSET Bit : PadMoved(d, bits)
           \/ \E p \in Port : Poll(p)
           \/ UNCHANGED vars
  BY <1>4, <1>8 DEF Shift, MapClicked, Rescan, rescan, ResetToConfig, PadPlugged, PadUnplugged,
                    PadMoved, Poll, vars
<1> QED
  BY <1>1, <1>2, <1>3, <1>5, <1>6, <1>7, <1>8 DEF Next

\* On such a keyboard the main window holds exactly the directions and fire
\* buttons whose keys it saw go down and are down, and no keypad key without
\* one, whatever Shift, the focus, the keypad window and the bindings did in
\* between (core/src/input_map.c:coleco_input_key,
\* frontends/gnome/window.c:on_focus_leave).
THEOREM MainHoldsDown == ASSUME Keyboard PROVE Spec => []MainHoldsWhatIsDown
<1>1. Init => MainInv
  <2> SUFFICES ASSUME Init PROVE AwayInv /\ MainHoldsWhatIsDown
    BY InitType DEF MainInv
  <2>1. held["main"] = AllIdle /\ \A key \in PKey : mine[key] = 0
    BY DEF Init, Source
  <2> QED
    BY <2>1, NothingSeen DEF AwayInv
<1> QED
  BY <1>1, NextMain, PTL DEF Spec, MainInv
=============================================================================
