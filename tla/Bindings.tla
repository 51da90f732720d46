------------------------------ MODULE Bindings ------------------------------
(***************************************************************************)
(* The key binding table (core/src/bindings.c) and what a restart makes of *)
(* it.  A rebinding steals the key from whoever has it and stores target   *)
(* by target; each store rewrites the settings file, or fails to           *)
(* (core/src/settings.c, colecosession_set_int), and the program may die   *)
(* between any two of them.                                                *)
(***************************************************************************)
EXTENDS Integers

CONSTANTS
  Target,    \* 0 .. COLECO_TARGET_COUNT - 1
  Key,       \* keysyms
  Fold,      \* fold(), as a function
  Default,   \* seed_defaults(), as a function
  MaxOps     \* the bound on rebindings and resets

Unbound == 0      \* no keysym
Unset   == -1     \* no such setting

ASSUME BindingsAssumption ==
  /\ Target # {} /\ Target \subseteq Nat /\ Key \subseteq Nat \ {Unbound}
  /\ Fold \in [Key -> Key]
  /\ \A k \in Key : Fold[Fold[k]] = Fold[k]
  /\ Default \in [Target -> Key \cup {Unbound}]
  /\ \A s, t \in Target : Default[s] = Default[t] /\ Default[s] # Unbound => s = t
  /\ MaxOps \in Nat

VARIABLES
  g_bind,    \* the table
  settings,  \* the settings in memory: bind.<target>
  dirty,     \* settings_dirty
  disk,      \* settings.ini
  job,       \* "idle", "steal" and "give" of a rebinding, "reset"
  left,      \* targets the job's loop has yet to visit
  target, keysym,  \* the rebinding's parameters
  \* history
  mixed,     \* the file was last written in the middle of a reset
  torn,      \* the program restarted from such a file
  missed,    \* the last flush could not put its file in place
  seen,      \* the tables that have been in force
  ops

table == <<g_bind, settings, dirty, disk>>
work  == <<job, left, target, keysym>>
vars  == <<table, work, mixed, torn, missed, seen, ops>>

Bound  == Key \cup {Unbound}
Stored == Bound \cup {Unset}

\* Every table that is in force is seen.
See == seen' = seen \cup {g_bind'}

TypeOK ==
  /\ g_bind \in [Target -> Bound]
  /\ settings \in [Target -> Stored] /\ disk \in [Target -> Stored]
  /\ dirty \in BOOLEAN
  /\ job \in {"idle", "steal", "give", "reset"}
  /\ left \subseteq Target
  /\ target \in Target /\ keysym \in Bound
  /\ mixed \in BOOLEAN /\ torn \in BOOLEAN /\ missed \in BOOLEAN
  /\ seen \subseteq [Target -> Bound]
  /\ ops \in 0..MaxOps

\* coleco_bindings_load: what is stored, 0 included, overlays the defaults.
Load_IgnoresUnbound(file) ==
  [t \in Target |-> IF file[t] > 0 THEN file[t] ELSE Default[t]]
Load(file) ==
  [t \in Target |-> IF file[t] # Unset THEN file[t] ELSE Default[t]]

NoFile == [t \in Target |-> Unset]

First(S) == CHOOSE t \in S : \A u \in S : t <= u

Init ==
  /\ g_bind = Default
  /\ settings = NoFile /\ disk = settings /\ dirty = FALSE
  /\ job = "idle" /\ left = {} /\ target = First(Target) /\ keysym = Unbound
  /\ mixed = FALSE /\ torn = FALSE /\ missed = FALSE /\ seen = {Default} /\ ops = 0

-----------------------------------------------------------------------------

\* colecosession_settings_flush rewrites the file.  Where the temporary file
\* cannot be opened the old one stays, and the settings stay dirty; where it
\* cannot be renamed the old one stays too -- or, on Windows, has just been
\* removed -- and the settings count as clean all the same.  (What a write
\* that fails half way leaves is SettingsStore's subject.)
flush(inReset) ==
  \/ disk' = settings' /\ dirty' = FALSE /\ mixed' = inReset /\ missed' = FALSE
  \/ dirty' = TRUE /\ UNCHANGED <<disk, mixed, missed>>
  \/ /\ dirty' = FALSE /\ missed' = TRUE
     /\ \/ UNCHANGED <<disk, mixed>>
        \/ disk' = NoFile /\ mixed' = FALSE

\* store: set the value and, if there is anything to save, save it.
store(t, value, inReset) ==
  /\ settings' = [settings EXCEPT ![t] = value]
  /\ IF dirty \/ settings[t] # value
     THEN flush(inReset)
     ELSE UNCHANGED <<dirty, disk, mixed, missed>>

BindingSet_NoSteal(t, k) ==
  /\ job = "idle" /\ ops < MaxOps
  /\ target' = t /\ keysym' = k
  /\ job' = "give" /\ left' = {}
  /\ ops' = ops + 1
  /\ UNCHANGED <<table, mixed, torn, missed>>

\* coleco_binding_set, from a key press in Map mode (or 0, to unbind).
BindingSet(t, k) ==
  /\ job = "idle" /\ ops < MaxOps
  /\ target' = t /\ keysym' = k
  /\ job' = IF k = Unbound THEN "give" ELSE "steal"
  /\ left' = Target \ {t}
  /\ ops' = ops + 1
  /\ UNCHANGED <<table, mixed, torn, missed>>

Steal_MemoryOnly ==
  /\ job = "steal" /\ left # {}
  /\ LET t == First(left)
     IN  /\ left' = left \ {t}
         /\ g_bind' = [g_bind EXCEPT ![t] = IF @ = keysym THEN Unbound ELSE @]
  /\ UNCHANGED <<settings, dirty, disk, job, target, keysym, mixed, torn, missed, ops>>

\* Take the key from whoever has it, and store that.
Steal ==
  /\ job = "steal" /\ left # {}
  /\ LET t == First(left)
     IN  /\ left' = left \ {t}
         /\ IF g_bind[t] = keysym
            THEN g_bind' = [g_bind EXCEPT ![t] = Unbound] /\ store(t, Unbound, FALSE)
            ELSE UNCHANGED <<table, mixed, missed>>
  /\ UNCHANGED <<job, target, keysym, torn, ops>>

StealDone ==
  /\ job = "steal" /\ left = {}
  /\ job' = "give"
  /\ UNCHANGED <<table, left, target, keysym, mixed, torn, missed, ops>>

\* The key is the target's now.
Give ==
  /\ job = "give"
  /\ g_bind' = [g_bind EXCEPT ![target] = keysym]
  /\ store(target, keysym, FALSE)
  /\ job' = "idle" /\ left' = {}
  /\ UNCHANGED <<target, keysym, torn, ops>>

\* coleco_bindings_reset_defaults: seed the table, then store target by target.
ResetDefaults ==
  /\ job = "idle" /\ ops < MaxOps
  /\ g_bind' = Default
  /\ job' = "reset" /\ left' = Target
  /\ ops' = ops + 1
  /\ UNCHANGED <<settings, dirty, disk, target, keysym, mixed, torn, missed>>

ResetStore ==
  /\ job = "reset" /\ left # {}
  /\ LET t == First(left)
     IN  left' = left \ {t} /\ store(t, g_bind[t], left' # {})
  /\ UNCHANGED <<g_bind, job, target, keysym, torn, ops>>

\* The last flush, for what the stores could not write.
ResetDone ==
  /\ job = "reset" /\ left = {}
  /\ job' = "idle"
  /\ settings' = settings
  /\ IF dirty THEN flush(FALSE) ELSE UNCHANGED <<dirty, disk, mixed, missed>>
  /\ UNCHANGED <<g_bind, left, target, keysym, torn, ops>>

\* The program ends here, and the next one loads the file.
Restart ==
  /\ settings' = disk /\ dirty' = FALSE /\ missed' = FALSE
  /\ g_bind' = Load(disk)
  /\ torn' = (torn \/ mixed)
  /\ job' = "idle" /\ left' = {}
  /\ UNCHANGED <<disk, target, keysym, mixed, ops>>

Next ==
  /\ \/ \E t \in Target, k \in Bound : BindingSet(t, k)
     \/ Steal \/ StealDone \/ Give
     \/ ResetDefaults \/ ResetStore \/ ResetDone
     \/ Restart
  /\ See

Spec == Init /\ [][Next]_vars

-----------------------------------------------------------------------------
(* What must hold.                                                         *)

OneEach(bind) ==
  \A s, t \in Target : bind[s] = bind[t] /\ bind[s] # Unbound => s = t

\* coleco_binding_target_for_key
Matches(k) == {t \in Target : g_bind[t] # Unbound /\ g_bind[t] \in {k, Fold[k]}}
TargetForKey(k) == IF Matches(k) = {} THEN -1 ELSE First(Matches(k))

\* A key is bound to one target at most, at every moment and after a restart at
\* any moment of a rebinding -- unless a reset to defaults was cut short.
OneTargetPerKey ==
  ~torn => OneEach(g_bind) /\ (~mixed => OneEach(Load(disk)))

\* Between the stores of a rebinding as much as after it, what is saved is the
\* table as it is: a target bound on purpose to nothing does not get its
\* default back -- unless the last rename failed, of which the code takes no
\* notice.
RestartFindsTable == ~dirty /\ ~missed /\ job # "reset" => Load(disk) = g_bind

\* Whichever files fail to open or to be renamed and wherever the program dies,
\* the next one finds a table that once was in force, never a half of one
\* change with a half of another -- but for a reset to defaults that was cut
\* short.
RestartFindsSomeTable == ~mixed => Load(disk) \in seen

-----------------------------------------------------------------------------
(* What the comments say and the code does not do.                         *)

\* colecosession.h:228-230: binding a target to a key, stealing it from
\* whatever held it, makes the key drive that target.
BindingTakesEffect ==
  [][job = "give" /\ job' = "idle" /\ keysym # Unbound /\ ~torn /\ Give
       => TargetForKey(keysym)' = target]_vars

\* bindings.c:10-12: a key can drive exactly one control.
KeyHasOneTarget == OneEach(g_bind)
=============================================================================
