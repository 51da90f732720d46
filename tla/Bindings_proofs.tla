-------------------------- MODULE Bindings_proofs --------------------------
(***************************************************************************)
(* Proofs about the key bindings, for every set of controls, of keys and   *)
(* every table of defaults that gives no key twice.                        *)
(***************************************************************************)
EXTENDS Bindings, TLAPS, WellFoundedInduction

\* Outside a reset the saved values in memory are the table; inside one, the
\* targets already visited hold their defaults.
Kept ==
  /\ job # "reset" => Load(settings) = g_bind
  /\ job = "reset" => g_bind = Default
                      /\ \A t \in Target \ left : Load(settings)[t] = Default[t]

\* A clean file is what is in memory, unless its rename failed.
Clean == ~dirty /\ ~missed => disk = settings

\* The targets that may still have the key being given away.
Stealing ==
  job \in {"steal", "give"} /\ keysym # Unbound =>
    \A t \in Target \ {target} :
      g_bind[t] = keysym /\ ~torn => job = "steal" /\ t \in left

InForce == g_bind \in seen /\ Default \in seen

IInv ==
  /\ TypeOK
  /\ Kept
  /\ Clean
  /\ Stealing
  /\ InForce
  /\ OneTargetPerKey
  /\ RestartFindsSomeTable

-----------------------------------------------------------------------------

\* The loops visit a target they have not visited yet.
LEMMA FirstIsOne ==
  ASSUME NEW S, S \subseteq Nat, S # {}
  PROVE  First(S) \in S
<1> DEFINE Less == OpToRel(<, Nat)
<1>1. \E x \in S : \A y \in S : ~ (<<y, x>> \in Less)
  BY NatLessThanWellFounded, WFMin
<1>2. \A x, y \in Nat : y < x => <<y, x>> \in Less
  BY DEF OpToRel
<1> HIDE DEF Less
<1>3. PICK x \in S : \A y \in S : ~ (<<y, x>> \in Less)
  BY <1>1
<1>4. \A y \in S : ~ (y < x)
  BY <1>2, <1>3
<1>5. \A y \in S : x <= y
  BY <1>4
<1> QED  BY <1>5 DEF First

\* What is loaded from stored values is a table.
LEMMA LoadType ==
  ASSUME NEW file \in [Target -> Stored]
  PROVE  Load(file) \in [Target -> Bound]
BY BindingsAssumption DEF Load, Stored, Bound, Unset

LEMMA LoadAfterStore ==
  ASSUME NEW file \in [Target -> Stored], NEW t \in Target, NEW v \in Bound
  PROVE  Load([file EXCEPT ![t] = v]) = [Load(file) EXCEPT ![t] = v]
<1> DEFINE new == [file EXCEPT ![t] = v]
<1>1. v # Unset
  BY BindingsAssumption DEF Bound, Unset, Unbound
<1>2. \A u \in Target : new[u] = IF u = t THEN v ELSE file[u]
  OBVIOUS
<1>3. \A u \in Target : Load(new)[u] = IF u = t THEN v ELSE Load(file)[u]
  BY <1>1, <1>2 DEF Load
<1> QED  BY <1>3 DEF Load

\* Two tables that agree everywhere are one.
LEMMA SameTable ==
  ASSUME NEW f \in [Target -> Bound], \A u \in Target : f[u] = Default[u]
  PROVE  f = Default
<1>1. Default \in [Target -> Bound]
  BY BindingsAssumption DEF Bound
<1> QED  BY <1>1

\* Without a file the defaults are in force.
LEMMA EmptyFile == NoFile \in [Target -> Stored] /\ Load(NoFile) = Default
BY BindingsAssumption DEF NoFile, Load, Stored, Unset, Unbound

LEMMA DefaultsAreDistinct == OneEach(Default)
BY BindingsAssumption DEF OneEach

FileType ==
  /\ dirty' \in BOOLEAN /\ disk' \in [Target -> Stored]
  /\ mixed' \in BOOLEAN /\ missed' \in BOOLEAN

LEMMA Flushed ==
  ASSUME TypeOK, settings' \in [Target -> Stored],
         NEW r \in BOOLEAN, flush(r)
  PROVE  /\ FileType
         /\ ~dirty' /\ ~missed' => disk' = settings'
         /\ \/ disk' = settings' /\ mixed' = r
            \/ disk' = disk /\ mixed' = mixed
            \/ disk' = NoFile /\ mixed' = FALSE
BY EmptyFile DEF flush, TypeOK, FileType

LEMMA StoreDoes ==
  ASSUME TypeOK, Clean, NEW t \in Target, NEW v \in Bound, NEW r \in BOOLEAN, store(t, v, r)
  PROVE  /\ settings' = [settings EXCEPT ![t] = v]
         /\ settings' \in [Target -> Stored]
         /\ Load(settings') = [Load(settings) EXCEPT ![t] = v]
         /\ FileType
         /\ ~dirty' /\ ~missed' => disk' = settings'
         /\ \/ disk' = settings' /\ mixed' = r
            \/ disk' = disk /\ mixed' = mixed
            \/ disk' = NoFile /\ mixed' = FALSE
<1>1. settings' = [settings EXCEPT ![t] = v]
  BY DEF store
<1>2. settings' \in [Target -> Stored]
  BY <1>1 DEF TypeOK, Stored
<1>3. Load(settings') = [Load(settings) EXCEPT ![t] = v]
  BY <1>1, LoadAfterStore DEF TypeOK
<1>4. CASE flush(r)
  BY <1>1, <1>2, <1>3, <1>4, Flushed
<1>5. CASE ~dirty /\ settings[t] = v /\ UNCHANGED <<dirty, disk, mixed, missed>>
  <2>1. settings' = settings
    BY <1>1, <1>5 DEF TypeOK
  <2> QED  BY <1>1, <1>2, <1>3, <1>5, <2>1 DEF TypeOK, Clean, FileType
<1> QED  BY <1>4, <1>5 DEF store

-----------------------------------------------------------------------------

LEMMA InitIInv == Init => IInv
<1> SUFFICES ASSUME Init PROVE IInv
  OBVIOUS
<1>1. First(Target) \in Target
  BY FirstIsOne, BindingsAssumption
<1>2. settings \in [Target -> Stored] /\ disk = settings
  BY EmptyFile DEF Init
<1>3. Load(settings) = Default
  BY EmptyFile DEF Init
<1>4. TypeOK
  <2>1. Default \in [Target -> Bound]
    BY BindingsAssumption DEF Bound
  <2>2. 0 \in 0..MaxOps
    BY BindingsAssumption
  <2>3. Unbound \in Bound /\ {Default} \subseteq [Target -> Bound]
    BY <2>1 DEF Bound
  <2> QED  BY <1>1, <1>2, <2>1, <2>2, <2>3 DEF Init, TypeOK
<1>5. OneEach(Default)
  BY BindingsAssumption DEF OneEach
<1> QED  BY <1>2, <1>3, <1>4, <1>5
         DEF Init, IInv, Kept, Clean, Stealing, InForce, OneTargetPerKey, RestartFindsSomeTable

\* What a step leaves alone of the table and the file.
LEMMA QuietStep ==
  ASSUME IInv, UNCHANGED <<table, mixed, torn, missed>>, See
  PROVE  Clean' /\ InForce' /\ OneTargetPerKey' /\ RestartFindsSomeTable' /\ seen' \subseteq [Target -> Bound]
BY DEF IInv, TypeOK, table, See, Clean, InForce, OneTargetPerKey, RestartFindsSomeTable, OneEach, Load

LEMMA BindingSetStep ==
  ASSUME IInv, See, NEW t \in Target, NEW k \in Bound, BindingSet(t, k)
  PROVE  IInv'
<1>1. TypeOK'
  BY QuietStep, BindingsAssumption DEF IInv, TypeOK, BindingSet, table
<1>2. Kept'
  BY DEF IInv, Kept, BindingSet, table, Load
<1>3. Stealing'
  BY DEF BindingSet, Stealing
<1> QED  BY <1>1, <1>2, <1>3, QuietStep DEF IInv, BindingSet

LEMMA StealStep == IInv /\ See /\ Steal => IInv'
<1> SUFFICES ASSUME IInv, See, Steal PROVE IInv'
  OBVIOUS
<1> DEFINE t == First(left)
<1>1. t \in left /\ t \in Target /\ left' = left \ {t}
  BY FirstIsOne, BindingsAssumption DEF IInv, TypeOK, Steal
<1>2. job = "steal" /\ UNCHANGED <<job, target, keysym, torn, ops>>
  BY DEF Steal
<1>3. CASE g_bind[t] = keysym
  <2>1. g_bind' = [g_bind EXCEPT ![t] = Unbound] /\ store(t, Unbound, FALSE)
    BY <1>3 DEF Steal
  <2>2. Unbound \in Bound
    BY DEF Bound
  <2>3. /\ settings' \in [Target -> Stored]
        /\ Load(settings') = [Load(settings) EXCEPT ![t] = Unbound]
        /\ FileType
        /\ ~dirty' /\ ~missed' => disk' = settings'
        /\ \/ disk' = settings' /\ mixed' = FALSE
           \/ disk' = disk /\ mixed' = mixed
           \/ disk' = NoFile /\ mixed' = FALSE
    BY <1>1, <2>1, <2>2, StoreDoes DEF IInv
  <2>4. g_bind' \in [Target -> Bound]
    BY <2>1, <2>2 DEF IInv, TypeOK
  <2>5. TypeOK'
    BY <1>1, <1>2, <2>3, <2>4 DEF IInv, TypeOK, See, FileType
  <2>6. Load(settings') = g_bind'
    BY <1>2, <2>1, <2>3 DEF IInv, Kept
  <2>7. Stealing'
    BY <1>1, <1>2, <2>1, <2>2 DEF IInv, Stealing, TypeOK
  <2>8. ~torn => OneEach(g_bind')
    BY <1>1, <2>1 DEF IInv, TypeOK, OneTargetPerKey, OneEach
  <2>9. g_bind' \in seen'
    BY DEF See
  <2>10. OneTargetPerKey' /\ RestartFindsSomeTable'
    <3>1. CASE disk' = settings' /\ mixed' = FALSE
      BY <1>2, <2>6, <2>8, <2>9, <3>1 DEF OneTargetPerKey, RestartFindsSomeTable
    <3>2. CASE disk' = disk /\ mixed' = mixed
      BY <1>2, <2>8, <3>2 DEF IInv, OneTargetPerKey, RestartFindsSomeTable, See
    <3>3. CASE disk' = NoFile /\ mixed' = FALSE
      BY <1>2, <2>8, <3>3, EmptyFile, DefaultsAreDistinct DEF IInv, OneTargetPerKey, RestartFindsSomeTable, InForce, See
    <3> QED  BY <2>3, <3>1, <3>2, <3>3
  <2> QED  BY <1>2, <2>3, <2>5, <2>6, <2>7, <2>9, <2>10 DEF IInv, Kept, Clean, InForce, See
<1>4. CASE g_bind[t] # keysym
  <2>1. UNCHANGED <<table, mixed, torn, missed>>
    BY <1>2, <1>4 DEF Steal
  <2>2. TypeOK'
    BY <1>1, <1>2, <2>1, QuietStep DEF IInv, TypeOK, table
  <2>3. Kept'
    BY <1>2, <2>1 DEF IInv, Kept, table, Load
  <2>4. Stealing'
    BY <1>1, <1>2, <1>4, <2>1 DEF IInv, Stealing, table
  <2> QED  BY <2>1, <2>2, <2>3, <2>4, QuietStep DEF IInv
<1> QED  BY <1>3, <1>4

LEMMA StealDoneStep == IInv /\ See /\ StealDone => IInv'
<1> SUFFICES ASSUME IInv, See, StealDone PROVE IInv'
  OBVIOUS
<1>1. TypeOK'
  BY QuietStep DEF IInv, TypeOK, StealDone, table
<1>2. Kept'
  BY DEF IInv, Kept, StealDone, table, Load
<1>3. Stealing'
  BY DEF IInv, Stealing, StealDone, table
<1> QED  BY <1>1, <1>2, <1>3, QuietStep DEF IInv, StealDone

LEMMA GiveStep == IInv /\ See /\ Give => IInv'
<1> SUFFICES ASSUME IInv, See, Give PROVE IInv'
  OBVIOUS
<1>1. /\ job = "give" /\ job' = "idle" /\ left' = {} /\ UNCHANGED <<target, keysym, torn, ops>>
      /\ g_bind' = [g_bind EXCEPT ![target] = keysym]
  BY DEF Give
<1>2. target \in Target /\ keysym \in Bound
  BY DEF IInv, TypeOK
<1>3. /\ settings' \in [Target -> Stored]
      /\ Load(settings') = [Load(settings) EXCEPT ![target] = keysym]
      /\ FileType
      /\ ~dirty' /\ ~missed' => disk' = settings'
      /\ \/ disk' = settings' /\ mixed' = FALSE
         \/ disk' = disk /\ mixed' = mixed
         \/ disk' = NoFile /\ mixed' = FALSE
  BY <1>2, StoreDoes DEF IInv, Give
<1>4. g_bind' \in [Target -> Bound]
  BY <1>1, <1>2 DEF IInv, TypeOK
<1>5. TypeOK'
  BY <1>1, <1>3, <1>4 DEF IInv, TypeOK, See, FileType
<1>6. Load(settings') = g_bind'
  BY <1>1, <1>3 DEF IInv, Kept
<1>7. ~torn => OneEach(g_bind')
  BY <1>1, <1>2 DEF IInv, TypeOK, OneTargetPerKey, OneEach, Stealing
<1>8. g_bind' \in seen'
  BY DEF See
<1>9. OneTargetPerKey' /\ RestartFindsSomeTable'
  <2>1. CASE disk' = settings' /\ mixed' = FALSE
    BY <1>1, <1>6, <1>7, <1>8, <2>1 DEF OneTargetPerKey, RestartFindsSomeTable
  <2>2. CASE disk' = disk /\ mixed' = mixed
    BY <1>1, <1>7, <2>2 DEF IInv, OneTargetPerKey, RestartFindsSomeTable, See
  <2>3. CASE disk' = NoFile /\ mixed' = FALSE
    BY <1>1, <1>7, <2>3, EmptyFile, DefaultsAreDistinct DEF IInv, OneTargetPerKey, RestartFindsSomeTable, InForce, See
  <2> QED  BY <1>3, <2>1, <2>2, <2>3
<1> QED  BY <1>1, <1>3, <1>5, <1>6, <1>8, <1>9 DEF IInv, Kept, Clean, InForce, Stealing, See

LEMMA ResetDefaultsStep == IInv /\ See /\ ResetDefaults => IInv'
<1> SUFFICES ASSUME IInv, See, ResetDefaults PROVE IInv'
  OBVIOUS
<1>1. g_bind' \in [Target -> Bound] /\ OneEach(g_bind')
  BY BindingsAssumption DEF ResetDefaults, Bound, OneEach
<1>2. TypeOK'
  BY <1>1, BindingsAssumption DEF IInv, TypeOK, ResetDefaults, See
<1>3. Kept' /\ Clean' /\ Stealing' /\ InForce'
  BY DEF IInv, Kept, Clean, Stealing, InForce, ResetDefaults, See
<1>4. OneTargetPerKey' /\ RestartFindsSomeTable'
  BY <1>1 DEF IInv, OneTargetPerKey, RestartFindsSomeTable, ResetDefaults, See
<1> QED  BY <1>2, <1>3, <1>4 DEF IInv

LEMMA ResetStoreStep == IInv /\ See /\ ResetStore => IInv'
<1> SUFFICES ASSUME IInv, See, ResetStore PROVE IInv'
  OBVIOUS
<1> DEFINE t == First(left)
           r == left' # {}
<1>1. t \in left /\ t \in Target /\ left' = left \ {t}
  BY FirstIsOne, BindingsAssumption DEF IInv, TypeOK, ResetStore
<1>2. job = "reset" /\ UNCHANGED <<g_bind, job, target, keysym, torn, ops>>
  BY DEF ResetStore
<1>3. g_bind[t] \in Bound /\ g_bind[t] = Default[t] /\ store(t, g_bind[t], r)
  BY <1>1, <1>2 DEF IInv, TypeOK, Kept, ResetStore
<1>4. /\ settings' \in [Target -> Stored]
      /\ Load(settings') = [Load(settings) EXCEPT ![t] = g_bind[t]]
      /\ FileType
      /\ ~dirty' /\ ~missed' => disk' = settings'
      /\ \/ disk' = settings' /\ mixed' = r
         \/ disk' = disk /\ mixed' = mixed
         \/ disk' = NoFile /\ mixed' = FALSE
  BY <1>1, <1>3, StoreDoes DEF IInv
<1>5. TypeOK'
  BY <1>1, <1>2, <1>4 DEF IInv, TypeOK, See, FileType
<1>6. Load(settings) \in [Target -> Bound] /\ Load(settings') \in [Target -> Bound]
  BY <1>4, LoadType DEF IInv, TypeOK
<1>7. \A u \in Target \ left' : Load(settings')[u] = Default[u]
  BY <1>1, <1>2, <1>3, <1>4, <1>6 DEF IInv, Kept
<1>8. Kept' /\ Clean' /\ Stealing' /\ InForce'
  BY <1>2, <1>4, <1>7 DEF IInv, Kept, Clean, Stealing, InForce, See
<1>9. ~r => Load(settings') = g_bind'
  <2> SUFFICES ASSUME ~r PROVE Load(settings') = g_bind'
    OBVIOUS
  <2>1. \A u \in Target : Load(settings')[u] = Default[u]
    BY <1>7
  <2>2. g_bind' = Default
    BY <1>2 DEF IInv, Kept
  <2> QED  BY <1>6, <2>1, <2>2, SameTable
<1>10. OneTargetPerKey' /\ RestartFindsSomeTable'
  <2>1. CASE disk' = settings' /\ mixed' = r
    BY <1>2, <1>9, <2>1 DEF IInv, OneTargetPerKey, RestartFindsSomeTable, See
  <2>2. CASE disk' = disk /\ mixed' = mixed
    BY <1>2, <2>2 DEF IInv, OneTargetPerKey, RestartFindsSomeTable, See
  <2>3. CASE disk' = NoFile /\ mixed' = FALSE
    BY <1>2, <2>3, EmptyFile, DefaultsAreDistinct DEF IInv, OneTargetPerKey, RestartFindsSomeTable, InForce, See
  <2> QED  BY <1>4, <2>1, <2>2, <2>3
<1> QED  BY <1>5, <1>8, <1>10 DEF IInv

LEMMA ResetDoneStep == IInv /\ See /\ ResetDone => IInv'
<1> SUFFICES ASSUME IInv, See, ResetDone PROVE IInv'
  OBVIOUS
<1>1. /\ job = "reset" /\ left = {} /\ job' = "idle"
      /\ UNCHANGED <<settings, g_bind, left, target, keysym, torn, ops>>
  BY DEF ResetDone
<1>2. /\ FileType
      /\ ~dirty' /\ ~missed' => disk' = settings'
      /\ \/ disk' = settings' /\ mixed' = FALSE
         \/ disk' = disk /\ mixed' = mixed
         \/ disk' = NoFile /\ mixed' = FALSE
  <2>1. CASE flush(FALSE)
    BY <1>1, <2>1, Flushed DEF IInv, TypeOK
  <2>2. CASE UNCHANGED <<dirty, disk, mixed, missed>>
    BY <1>1, <2>2 DEF IInv, TypeOK, Clean, FileType
  <2> QED  BY <2>1, <2>2 DEF ResetDone
<1>3. TypeOK'
  BY <1>1, <1>2 DEF IInv, TypeOK, See, FileType
<1>4. Load(settings') = g_bind'
  <2>1. Load(settings) \in [Target -> Bound]
    BY LoadType DEF IInv, TypeOK
  <2>2. \A u \in Target : Load(settings)[u] = Default[u]
    BY <1>1 DEF IInv, Kept
  <2>3. g_bind = Default
    BY <1>1 DEF IInv, Kept
  <2>4. Load(settings) = Default
    BY <2>1, <2>2, SameTable
  <2> QED  BY <1>1, <2>3, <2>4
<1>5. Kept' /\ Clean' /\ Stealing' /\ InForce'
  BY <1>1, <1>2, <1>4 DEF IInv, Kept, Clean, Stealing, InForce, See
<1>6. OneTargetPerKey' /\ RestartFindsSomeTable'
  <2>1. CASE disk' = settings' /\ mixed' = FALSE
    BY <1>1, <1>4, <2>1 DEF IInv, OneTargetPerKey, RestartFindsSomeTable, See
  <2>2. CASE disk' = disk /\ mixed' = mixed
    BY <1>1, <2>2 DEF IInv, OneTargetPerKey, RestartFindsSomeTable, See
  <2>3. CASE disk' = NoFile /\ mixed' = FALSE
    BY <1>1, <2>3, EmptyFile, DefaultsAreDistinct DEF IInv, OneTargetPerKey, RestartFindsSomeTable, InForce, See
  <2> QED  BY <1>2, <2>1, <2>2, <2>3
<1> QED  BY <1>3, <1>5, <1>6 DEF IInv

LEMMA RestartStep == IInv /\ See /\ Restart => IInv'
<1> SUFFICES ASSUME IInv, See, Restart PROVE IInv'
  OBVIOUS
<1>1. Load(disk) \in [Target -> Bound]
  BY LoadType DEF IInv, TypeOK
<1>2. TypeOK'
  BY <1>1 DEF IInv, TypeOK, Restart, See
<1>3. Kept' /\ Clean' /\ Stealing' /\ InForce'
  BY DEF IInv, Kept, Clean, Stealing, InForce, Restart, See
<1>4. OneTargetPerKey' /\ RestartFindsSomeTable'
  BY DEF IInv, OneTargetPerKey, RestartFindsSomeTable, Restart, See
<1> QED  BY <1>2, <1>3, <1>4 DEF IInv

LEMMA NextIInv == IInv /\ [Next]_vars => IInv'
<1> SUFFICES ASSUME IInv, [Next]_vars PROVE IInv'
  OBVIOUS
<1>1. CASE UNCHANGED vars
  BY <1>1 DEF vars, table, work, IInv, TypeOK, Kept, Clean, Stealing, InForce,
              OneTargetPerKey, RestartFindsSomeTable, OneEach, Load
<1>2. CASE Next
  BY <1>2, BindingSetStep, StealStep, StealDoneStep, GiveStep, ResetDefaultsStep,
     ResetStoreStep, ResetDoneStep, RestartStep DEF Next
<1> QED  BY <1>1, <1>2

\* bindings.c: the inductive invariant of the table, the file and the jobs.
THEOREM Invariance == Spec => []IInv
<1> QED  BY InitIInv, NextIInv, PTL DEF Spec

\* For any controls, keys and defaults, a key drives one control at most, at
\* every step of a rebinding and after dying at any of them, unless a reset to
\* defaults was cut short: the loop of coleco_binding_set has visited everyone
\* who could have the key before it is given.
THEOREM OneControlPerKey == Spec => []OneTargetPerKey
<1>1. IInv => OneTargetPerKey
  BY DEF IInv
<1> QED  BY <1>1, Invariance, PTL

\* Outside a reset, a settings file that is clean holds exactly the table, unless
\* the last rename of it failed: then the code takes an old file, or none, for clean.
THEOREM RestartIsExact == Spec => []RestartFindsTable
<1>1. IInv => RestartFindsTable
  BY DEF IInv, RestartFindsTable, Kept, Clean
<1> QED  BY <1>1, Invariance, PTL

\* Whichever files fail to open or to be renamed, what a restart finds was once in force.
THEOREM RestartIsSane == Spec => []RestartFindsSomeTable
<1>1. IInv => RestartFindsSomeTable
  BY DEF IInv
<1> QED  BY <1>1, Invariance, PTL

\* Every variable keeps to its type, whatever the controls, keys and defaults.
THEOREM Typing == Spec => []TypeOK
<1>1. IInv => TypeOK
  BY DEF IInv
<1> QED  BY <1>1, Invariance, PTL
=============================================================================
