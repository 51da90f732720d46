--------------------------- MODULE SettingsStore ---------------------------
(***************************************************************************)
(* The settings store (core/src/settings.c): every change is written to a  *)
(* temporary file that is then renamed over the settings file.  Programs   *)
(* that share the file may run side by side, and may die at any step.      *)
(***************************************************************************)
EXTENDS Naturals, FiniteSets

CONSTANTS
  Key, Val, Absent,
  App,        \* the programs: frontends of the same user
  Failures,   \* of "open", "write" and "rename", those that can fail
  Builds,     \* of Windows and not Windows, those there are
  MaxSets     \* the bound on changes

ASSUME SettingsAssumption ==
  /\ Absent \notin Val
  /\ Failures \subseteq {"open", "write", "rename"}
  /\ Builds \subseteq BOOLEAN
  /\ MaxSets \in Nat

\* A file is opened by each program at most, and named by two names at most.
Inode == 1..(Cardinality(App) + 2)
NoFile == 0

Settings == [Key -> Val \cup {Absent}]
Nothing  == [k \in Key |-> Absent]

VARIABLES
  Windows,  \* the build removes the settings file before the rename
  up,       \* the programs that run
  mem,      \* s->settings of each
  dirty,    \* s->settings_dirty of each
  pc,       \* how far each is in colecosession_settings_flush, "idle" outside
  fp,       \* the file each has open
  file, tmp,  \* what settings_file and its .tmp name: an inode, or NoFile
  content,  \* what each inode holds
  \* history
  missed,   \* the programs whose last rename did not take place
  sets

process == <<up, mem, dirty, pc, fp>>
disk    == <<file, tmp, content>>
vars    == <<Windows, process, disk, missed, sets>>

TypeOK ==
  /\ Windows \in Builds
  /\ up \subseteq App
  /\ mem \in [App -> Settings] /\ dirty \in [App -> BOOLEAN]
  /\ pc \in [App -> {"idle", "flush", "write", "remove", "rename"}]
  /\ fp \in [App -> Inode \cup {NoFile}] /\ \A a \in App : fp[a] # NoFile <=> pc[a] = "write"
  /\ file \in Inode \cup {NoFile} /\ tmp \in Inode \cup {NoFile}
  /\ content \in [Inode -> Settings]
  /\ missed \subseteq App /\ sets \in 0..MaxSets

Init ==
  /\ Windows \in Builds
  /\ up = {}
  /\ mem = [a \in App |-> Nothing] /\ dirty = [a \in App |-> FALSE]
  /\ pc = [a \in App |-> "idle"] /\ fp = [a \in App |-> NoFile]
  /\ file = NoFile /\ tmp = NoFile /\ content = [i \in Inode |-> Nothing]
  /\ missed = {} /\ sets = 0

\* What settings_init reads.
Load == IF file = NoFile THEN Nothing ELSE content[file]

-----------------------------------------------------------------------------

\* settings_init
Launch(a) ==
  /\ a \notin up
  /\ up' = up \cup {a}
  /\ mem' = [mem EXCEPT ![a] = Load]
  /\ dirty' = [dirty EXCEPT ![a] = FALSE]
  /\ UNCHANGED <<pc, fp, disk, missed, sets>>

\* The program ends, in the middle of a flush or outside.
Die(a) ==
  /\ a \in up
  /\ up' = up \ {a}
  /\ pc' = [pc EXCEPT ![a] = "idle"] /\ fp' = [fp EXCEPT ![a] = NoFile]
  /\ UNCHANGED <<mem, dirty, disk, missed, sets>>

SetStr_NoFlush(a, k, v) ==
  /\ a \in up /\ pc[a] = "idle" /\ sets < MaxSets
  /\ mem' = [mem EXCEPT ![a][k] = v]
  /\ sets' = sets + 1
  /\ UNCHANGED <<up, dirty, pc, fp, disk, missed>>

\* colecosession_set_str: set_locked, then a flush.
SetStr(a, k, v) ==
  /\ a \in up /\ pc[a] = "idle" /\ sets < MaxSets
  /\ mem' = [mem EXCEPT ![a][k] = v]
  /\ dirty' = [dirty EXCEPT ![a] = @ \/ mem[a][k] # v]
  /\ pc' = [pc EXCEPT ![a] = "flush"]
  /\ sets' = sets + 1
  /\ UNCHANGED <<up, fp, disk, missed>>

\* colecosession_settings_flush from elsewhere, as from colecosession_free.
Flush(a) ==
  /\ a \in up /\ pc[a] = "idle" /\ dirty[a]
  /\ pc' = [pc EXCEPT ![a] = "flush"]
  /\ UNCHANGED <<up, mem, dirty, fp, disk, missed, sets>>

FlushNothing(a) ==
  /\ pc[a] = "flush" /\ ~dirty[a]
  /\ pc' = [pc EXCEPT ![a] = "idle"]
  /\ UNCHANGED <<up, mem, dirty, fp, disk, missed, sets>>

\* The inodes nobody names or has open.
Free == Inode \ ({file, tmp} \cup {fp[a] : a \in App})

OpenFails(a) ==
  /\ pc[a] = "flush" /\ dirty[a] /\ "open" \in Failures
  /\ pc' = [pc EXCEPT ![a] = "idle"]
  /\ UNCHANGED <<up, mem, dirty, fp, disk, missed, sets>>

Open_InPlace(a) ==
  /\ pc[a] = "flush" /\ dirty[a]
  /\ \E i \in IF file # NoFile THEN {file} ELSE Free :
       /\ fp' = [fp EXCEPT ![a] = i]
       /\ file' = i /\ tmp' = i
       /\ content' = [content EXCEPT ![i] = Nothing]
  /\ pc' = [pc EXCEPT ![a] = "write"]
  /\ UNCHANGED <<up, mem, dirty, missed, sets>>

\* fopen(tmp, "w"): an empty temporary file, the one that is there or a new one.
Open(a) ==
  /\ pc[a] = "flush" /\ dirty[a]
  /\ \E i \in IF tmp # NoFile THEN {tmp} ELSE Free :
       /\ fp' = [fp EXCEPT ![a] = i]
       /\ tmp' = i
       /\ content' = [content EXCEPT ![i] = Nothing]
  /\ pc' = [pc EXCEPT ![a] = "write"]
  /\ UNCHANGED <<up, mem, dirty, file, missed, sets>>

\* The lines, then fclose; lines that do not fit on the disk are lost, and
\* nobody asks.
Write(a) ==
  /\ pc[a] = "write"
  /\ \E kept \in IF "write" \in Failures THEN SUBSET Key ELSE {Key} :
       content' = [content EXCEPT ![fp[a]] =
                     [k \in Key |-> IF k \in kept THEN mem[a][k] ELSE Absent]]
  /\ fp' = [fp EXCEPT ![a] = NoFile]
  /\ pc' = [pc EXCEPT ![a] = IF Windows THEN "remove" ELSE "rename"]
  /\ UNCHANGED <<up, mem, dirty, file, tmp, missed, sets>>

Remove(a) ==
  /\ pc[a] = "remove"
  /\ file' = NoFile
  /\ pc' = [pc EXCEPT ![a] = "rename"]
  /\ UNCHANGED <<up, mem, dirty, fp, tmp, content, missed, sets>>

\* rename, whatever it returns.
Rename(a) ==
  /\ pc[a] = "rename"
  /\ \/ tmp # NoFile /\ file' = tmp /\ tmp' = NoFile /\ missed' = missed \ {a}
     \/ /\ tmp = NoFile \/ "rename" \in Failures
        /\ UNCHANGED <<file, tmp>> /\ missed' = missed \cup {a}
  /\ dirty' = [dirty EXCEPT ![a] = FALSE]
  /\ pc' = [pc EXCEPT ![a] = "idle"]
  /\ UNCHANGED <<up, mem, fp, content, sets>>

FlushStep(a) ==
  FlushNothing(a) \/ OpenFails(a) \/ Open(a) \/ Write(a) \/ Remove(a) \/ Rename(a)

Next ==
  /\ \E a \in App :
       \/ Launch(a) \/ Die(a) \/ Flush(a) \/ FlushStep(a)
       \/ \E k \in Key, v \in Val : SetStr(a, k, v)
  /\ UNCHANGED Windows

Spec == Init /\ [][Next]_vars

-----------------------------------------------------------------------------
(* What must hold.                                                         *)

\* Settings that are clean are on the disk, after a flush that could not open
\* its file as well: dying now loses nothing, but what a rename that failed left
\* in the temporary file.
CleanIsSaved ==
  \A a \in up \ missed : pc[a] = "idle" /\ ~dirty[a] => Load = mem[a]

\* With one program, the settings file, read at any moment, is some complete
\* set of settings the program had.
TheApp == CHOOSE a \in App : TRUE
Store == INSTANCE SettingsSpec
           WITH mem <- IF TheApp \in up THEN mem[TheApp] ELSE Load, saved <- Load,
                replaces <- ~Windows
IsAStore == Store!Spec

=============================================================================
