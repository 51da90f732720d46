------------------------ MODULE SettingsStore_proofs ------------------------
(***************************************************************************)
(* Proofs about the files of the user.  The settings store implements its  *)
(* specification and loses nothing that is clean, for any keys and values  *)
(* and on either build, where one program uses it and the lines that are   *)
(* written arrive.  The import of a BIOS does what it reports and never    *)
(* leaves the user without one, for any images, zips, folders and files.   *)
(***************************************************************************)
EXTENDS DataDir, SequenceTheorems, TLAPS

\* The setting of the theorem: opening and renaming may still fail.
Alone == App = {TheApp} /\ "write" \notin Failures

\* What a flush relies on from one step to the next: the temporary file is not
\* the settings file, it is the one that is open, and once written it holds the
\* settings of the program, which nobody changes meanwhile.
FlushInv ==
  /\ file # NoFile => file # tmp
  /\ pc[TheApp] = "write"  => tmp # NoFile /\ fp[TheApp] = tmp
  /\ pc[TheApp] \in {"remove", "rename"} => tmp # NoFile /\ content[tmp] = mem[TheApp]
  /\ pc[TheApp] = "remove" => Windows
  /\ pc[TheApp] # "idle" => TheApp \in up

IInv == TypeOK /\ FlushInv

Mem == IF TheApp \in up THEN mem[TheApp] ELSE Load

-----------------------------------------------------------------------------

LEMMA InitIInv == ASSUME Alone PROVE Init => IInv
BY SettingsAssumption DEF Alone, Init, IInv, TypeOK, FlushInv, Nothing, Settings, NoFile

LEMMA LoadType == ASSUME TypeOK PROVE Load \in Settings
BY DEF TypeOK, Load, Nothing, Settings

LEMMA NextIInv == ASSUME Alone PROVE IInv /\ [Next]_vars => IInv'
<1> SUFFICES ASSUME IInv, [Next]_vars PROVE IInv'
  OBVIOUS
<1> DEFINE a == TheApp
<1>a. App = {a} /\ a \in App
  BY DEF Alone
<1> HIDE DEF a
<1>w. Windows' = Windows
  BY DEF Next, vars
<1> USE <1>w DEF IInv
<1>1. CASE UNCHANGED vars
  BY <1>1 DEF vars, process, disk, TypeOK, FlushInv
<1>2. CASE Launch(a)
  BY <1>2, <1>a, LoadType DEF a, Launch, TypeOK, FlushInv, disk
<1>3. CASE Die(a)
  BY <1>3, <1>a DEF a, Die, TypeOK, FlushInv, disk, NoFile
<1>4. CASE Flush(a)
  BY <1>4, <1>a DEF a, Flush, TypeOK, FlushInv, disk
<1>5. ASSUME NEW k \in Key, NEW v \in Val, SetStr(a, k, v) PROVE IInv'
  BY <1>5, <1>a, SettingsAssumption DEF a, SetStr, TypeOK, FlushInv, disk, Settings
<1>6. CASE FlushNothing(a)
  BY <1>6, <1>a DEF a, FlushNothing, TypeOK, FlushInv, disk
<1>7. CASE OpenFails(a)
  BY <1>7, <1>a DEF a, OpenFails, TypeOK, FlushInv, disk
<1>8. CASE Open(a)
  <2>1. PICK i \in IF tmp # NoFile THEN {tmp} ELSE Free :
          /\ fp' = [fp EXCEPT ![a] = i]
          /\ tmp' = i
          /\ content' = [content EXCEPT ![i] = Nothing]
    BY <1>8 DEF Open
  <2>2. i \in Inode /\ i # NoFile /\ i # file
    BY DEF Free, Inode, NoFile, TypeOK, FlushInv
  <2>3. Nothing \in Settings
    BY DEF Nothing, Settings
  <2> QED  BY <1>8, <1>a, <2>1, <2>2, <2>3 DEF a, Open, TypeOK, FlushInv
<1>9. CASE Write(a)
  <2>1. fp[a] = tmp /\ tmp \in Inode /\ tmp # NoFile
    BY <1>9, <1>a DEF a, Write, TypeOK, FlushInv
  <2>2. "write" \notin Failures
    BY DEF Alone
  <2>3. content' = [content EXCEPT ![tmp] = [k \in Key |-> mem[a][k]]]
    BY <1>9, <2>1, <2>2 DEF Write
  <2>4. [k \in Key |-> mem[a][k]] = mem[a] /\ mem[a] \in Settings
    BY <1>a DEF TypeOK, Settings
  <2> QED  BY <1>9, <1>a, <2>1, <2>3, <2>4 DEF a, Write, TypeOK, FlushInv, NoFile
<1>10. CASE Remove(a)
  BY <1>10, <1>a DEF a, Remove, TypeOK, FlushInv, NoFile
<1>11. CASE Rename(a)
  BY <1>11, <1>a DEF a, Rename, TypeOK, FlushInv, NoFile
<1> QED
  BY <1>a, <1>1, <1>2, <1>3, <1>4, <1>5, <1>6, <1>7, <1>8, <1>9, <1>10, <1>11 DEF Next, FlushStep

-----------------------------------------------------------------------------
(* Every step is one of the store's, or none.                              *)

LEMMA InitMaps == ASSUME Alone PROVE Init => Store!Init
BY SettingsAssumption DEF Init, Store!Init, Store!Nothing, Load, Nothing, NoFile

LEMMA StepMaps ==
  ASSUME Alone, IInv, IInv', [Next]_vars
  PROVE  [Store!Next]_<<Mem, Load, ~Windows>>
<1> DEFINE a == TheApp
<1>a. App = {a} /\ a \in App
  BY DEF Alone
<1> HIDE DEF a
<1>w. Windows' = Windows
  BY DEF Next, vars
<1> USE <1>w DEF IInv
<1>1. CASE UNCHANGED vars
  BY <1>1 DEF vars, process, disk, Mem, Load
<1>2. CASE Launch(a)
  BY <1>2, <1>a DEF a, Launch, TypeOK, disk, Mem, Load
<1>3. CASE Die(a)
  BY <1>3, <1>a, <1>w DEF a, Die, disk, Mem, Load, Store!Next, Store!Restart
<1>4. CASE Flush(a) \/ FlushNothing(a) \/ OpenFails(a)
  BY <1>4 DEF Flush, FlushNothing, OpenFails, disk, Mem, Load
<1>5. ASSUME NEW k \in Key, NEW v \in Val, SetStr(a, k, v) PROVE Store!Next
  <2>1. Mem = mem[a] /\ Mem' = mem'[a] /\ Load' = Load
    BY <1>5 DEF a, SetStr, Mem, Load, disk
  <2>2. mem'[a] = [mem[a] EXCEPT ![k] = v]
    BY <1>5, <1>a DEF SetStr, TypeOK
  <2> QED  BY <2>1, <2>2 DEF Store!Next, Store!Set, Mem
<1>6. CASE Open(a)
  <2>1. PICK i \in IF tmp # NoFile THEN {tmp} ELSE Free :
          content' = [content EXCEPT ![i] = Nothing]
    BY <1>6 DEF Open
  <2>2. file # NoFile => i # file
    BY DEF Free, FlushInv
  <2> QED  BY <1>6, <2>1, <2>2 DEF Open, Mem, Load, TypeOK
<1>7. CASE Write(a)
  <2>1. fp[a] = tmp /\ (file # NoFile => file # tmp)
    BY <1>7 DEF a, Write, FlushInv
  <2> QED  BY <1>7, <2>1 DEF Write, Mem, Load, TypeOK
<1>8. CASE Remove(a)
  <2>1. Windows /\ Mem' = Mem /\ a \in up /\ Load' = Store!Nothing
    BY <1>8 DEF a, Remove, FlushInv, Mem, Load, Nothing, Store!Nothing
  <2> QED  BY <1>8, <2>1 DEF Store!Next, Store!Vanish, Mem
<1>9. CASE Rename(a)
  <2>1. tmp # NoFile /\ content[tmp] = mem[a] /\ a \in up
    BY <1>9 DEF a, Rename, FlushInv
  <2>2. UNCHANGED <<up, mem, content>>
    BY <1>9 DEF Rename
  <2>3. CASE file' = tmp
    BY <2>1, <2>2, <2>3 DEF a, Mem, Load, Store!Next, Store!Save
  <2>4. CASE UNCHANGED <<file, tmp>>
    BY <2>2, <2>4 DEF Mem, Load
  <2> QED  BY <1>9, <2>3, <2>4 DEF Rename
<1> QED
  BY <1>a, <1>1, <1>2, <1>3, <1>4, <1>5, <1>6, <1>7, <1>8, <1>9 DEF Next, FlushStep, Mem

\* settings.c: with one program and lines that arrive, the settings file is at
\* every moment some complete set of settings the program had, and a program
\* that starts has them, whatever opens and renames fail and wherever it dies;
\* where the file is removed first it may also be missing.
THEOREM StoreRefines == ASSUME Alone PROVE Spec => IsAStore
<1>1. Spec => []IInv
  BY InitIInv, NextIInv, PTL DEF Spec
<1>2. IInv /\ IInv' /\ [Next]_vars => [Store!Next]_<<Mem, Load, ~Windows>>
  BY StepMaps
<1> QED  BY <1>1, <1>2, InitMaps, PTL DEF Spec, IsAStore, Store!Spec, Mem

-----------------------------------------------------------------------------
(* What is clean is saved.                                                 *)

\* Also at the beginning of a flush, which may find that nothing changed.
CleanInv ==
  TheApp \in up \ missed /\ pc[TheApp] \in {"idle", "flush"} /\ ~dirty[TheApp] =>
    Load = mem[TheApp]

LEMMA NextCleanInv ==
  ASSUME Alone, IInv, CleanInv, [Next]_vars
  PROVE  CleanInv'
<1> DEFINE a == TheApp
<1>a. App = {a} /\ a \in App
  BY DEF Alone
<1> HIDE DEF a
<1> USE DEF IInv
<1>1. CASE UNCHANGED vars
  BY <1>1 DEF vars, process, disk, CleanInv, Load
<1>2. CASE Launch(a)
  BY <1>2, <1>a DEF a, Launch, TypeOK, disk, CleanInv, Load
<1>3. CASE Die(a)
  BY <1>3 DEF a, Die, CleanInv
<1>4. CASE Flush(a) \/ FlushNothing(a) \/ OpenFails(a)
  BY <1>4, <1>a DEF a, Flush, FlushNothing, OpenFails, TypeOK, disk, CleanInv, Load
<1>5. ASSUME NEW k \in Key, NEW v \in Val, SetStr(a, k, v) PROVE CleanInv'
  <2>1. dirty'[a] = (dirty[a] \/ mem[a][k] # v) /\ mem'[a] = [mem[a] EXCEPT ![k] = v]
    BY <1>5, <1>a DEF SetStr, TypeOK
  <2>2. mem[a][k] = v => mem'[a] = mem[a]
    BY <2>1, <1>a DEF TypeOK, Settings
  <2> QED  BY <1>5, <2>1, <2>2 DEF a, SetStr, disk, CleanInv, Load
<1>6. CASE Open(a) \/ Write(a) \/ Remove(a)
  BY <1>6, <1>a DEF a, Open, Write, Remove, TypeOK, CleanInv
<1>7. CASE Rename(a)
  <2>1. tmp # NoFile /\ content[tmp] = mem[a]
    BY <1>7 DEF a, Rename, FlushInv
  <2>2. CASE file' = tmp /\ missed' = missed \ {a}
    BY <1>7, <2>1, <2>2 DEF a, Rename, CleanInv, Load
  <2>3. CASE missed' = missed \cup {a}
    BY <2>3 DEF a, CleanInv
  <2> QED  BY <1>7, <2>2, <2>3 DEF Rename
<1> QED
  BY <1>a, <1>1, <1>2, <1>3, <1>4, <1>5, <1>6, <1>7 DEF Next, FlushStep

\* settings.c, colecosession_settings_flush: between two changes the program has
\* nothing to lose: its settings are in the file, or marked as still to be
\* saved, unless it was the rename that failed.
THEOREM SavedWhenClean == ASSUME Alone PROVE Spec => []CleanIsSaved
<1>1. Spec => []IInv
  BY InitIInv, NextIInv, PTL DEF Spec
<1>2. Init => CleanInv
  BY DEF Init, CleanInv
<1>3. IInv /\ CleanInv /\ [Next]_vars => CleanInv'
  BY NextCleanInv
<1>4. IInv /\ CleanInv => CleanIsSaved
  BY DEF Alone, IInv, TypeOK, CleanInv, CleanIsSaved
<1> QED  BY <1>1, <1>2, <1>3, <1>4, PTL DEF Spec

-----------------------------------------------------------------------------
(* The BIOS and its import (core/src/roms.c).                              *)

Importing == {"take", "open", "write", "remove", "rename", "report"}
Positions == Importing \cup {"idle", "provision", "fill", "copy", "copying", "config", "data", "SD"}

Imports ==
  [at : Positions, todo : Seq(Image), guess_bios : BOOLEAN, imported : BOOLEAN,
   guessed : BOOLEAN, write_failed : BOOLEAN, paths : Seq(Path), count : Nat,
   unreadable : BOOLEAN, was : Image, held : Seq(Image), broken : BOOLEAN,
   want : Image, file : Image, into : {"carts", "SD"}]

DirTypeOK ==
  /\ imp \in Imports /\ rom \in Image /\ part \in Image
  /\ embedded \in BOOLEAN
  /\ tree \in [{"config", "data", "SD"} -> {"none", "part", "whole", "edited"}]

\* Nothing goes on without a program, and only a build that carries a BIOS
\* writes it.
GoesInv ==
  /\ TheApp \notin up => imp.at = "idle"
  /\ imp.at \in {"provision", "fill"} => embedded
  /\ imp.at \notin Importing => ~imp.imported /\ ~imp.write_failed
  /\ imp.unreadable => imp.at = "report"

\* What is being written is the image that is wanted, and the first.
WritingInv ==
  imp.at \in {"open", "write", "remove", "rename"} =>
    /\ ~imp.imported /\ imp.todo # <<>> /\ Wanted(Head(imp.todo), imp.guess_bios)
    /\ imp.at \in {"remove", "rename"} => part = Head(imp.todo)
    /\ imp.at = "remove" => Windows

\* What is left to look at is of what the path held; while nothing was imported
\* and no write failed, the first that is wanted is still among it, and the BIOS
\* is what it was, between the removal and the rename excepted; what was imported
\* first is in place; and an import never leaves anything else.
DoneInv ==
  /\ imp.at = "report" => imp.todo = <<>>
  /\ imp.broken <=> imp.unreadable \/ imp.write_failed
  /\ \A j \in 1..Len(imp.todo) : imp.todo[j] \in Held
  /\ imp.imported => (imp.guessed <=> rom \notin known_crc)
  /\ imp.imported /\ ~imp.write_failed => rom \in FirstWanted(imp.held, imp.guess_bios)
  /\ imp.at \in Importing /\ ~imp.imported /\ ~imp.write_failed =>
       /\ ~imp.unreadable =>
            FirstWanted(imp.todo, imp.guess_bios) = FirstWanted(imp.held, imp.guess_bios)
       /\ ~(imp.at = "rename" /\ Windows) => rom = imp.was
  /\ imp.at \in Importing => \/ rom = imp.was
                             \/ rom \in Held /\ Wanted(rom, imp.guess_bios)
                             \/ Windows /\ rom = None

\* Whatever may be guessed was named, in this path or one that follows.
NamedInv ==
  /\ imp.guess_bios => \A j \in 1..Len(imp.todo) : imp.todo[j] \in known_crc \cup named
  /\ \A j \in 1..Len(imp.paths) :
       imp.paths[j].kind = "file" => imp.paths[j].bytes \in known_crc \cup named
  /\ rom \in known_crc \cup named \cup {None, Cut}

DirInv == DirTypeOK /\ GoesInv /\ WritingInv /\ DoneInv /\ NamedInv

\* What a position changes is the position.
LEMMA At ==
  ASSUME NEW i \in Imports, NEW at \in Positions
  PROVE  LET k == [i EXCEPT !.at = at] IN
         /\ k \in Imports /\ k.at = at /\ k.todo = i.todo /\ k.guess_bios = i.guess_bios
         /\ k.imported = i.imported /\ k.guessed = i.guessed /\ k.write_failed = i.write_failed
         /\ k.paths = i.paths /\ k.count = i.count /\ k.was = i.was
         /\ k.unreadable = i.unreadable /\ k.broken = i.broken /\ k.held = i.held
BY DEF Imports

\* The first wanted image is at the head, or in the tail.
LEMMA FirstIsLeft ==
  ASSUME NEW S, NEW images \in Seq(S), images # <<>>, NEW guess
  PROVE  /\ Wanted(Head(images), guess) => Head(images) \in FirstWanted(images, guess)
         /\ ~Wanted(Head(images), guess) => FirstWanted(Tail(images), guess) = FirstWanted(images, guess)
<1> DEFINE n == Len(images)
           rest == Tail(images)
           First(w, j) == Wanted(w[j], guess) /\ \A k \in 1..(j - 1) : ~Wanted(w[k], guess)
<1>1. n \in Nat \ {0} /\ Head(images) = images[1] /\ Len(rest) = n - 1
  OBVIOUS
<1>2. \A j \in 1..(n - 1) : rest[j] = images[j + 1]
  OBVIOUS
<1>3. \A w : FirstWanted(w, guess) = {w[i] : i \in {j \in 1..Len(w) : First(w, j)}}
  BY DEF FirstWanted
<1> HIDE DEF rest
<1>4. ASSUME Wanted(Head(images), guess) PROVE Head(images) \in FirstWanted(images, guess)
  <2>1. 1 \in 1..n /\ First(images, 1)
    BY <1>1, <1>4
  <2> QED  BY <1>1, <1>3, <2>1
<1>5. ASSUME ~Wanted(Head(images), guess) PROVE FirstWanted(rest, guess) = FirstWanted(images, guess)
  <2>1. ASSUME NEW j \in 1..(n - 1)
        PROVE  j + 1 \in 1..n /\ rest[j] = images[j + 1] /\ (First(rest, j) <=> First(images, j + 1))
    <3>1. \A k \in 1..(j - 1) : rest[k] = images[k + 1] /\ k + 1 \in 1..j
      BY <1>1, <1>2, <2>1
    <3>2. \A k \in 1..j : k = 1 \/ (k - 1 \in 1..(j - 1) /\ (k - 1) + 1 = k)
      BY <2>1
    <3>3. (j + 1) - 1 = j
      BY <2>1
    <3>4. (\A k \in 1..(j - 1) : ~Wanted(rest[k], guess)) <=> (\A k \in 1..j : ~Wanted(images[k], guess))
      BY <1>1, <1>5, <3>1, <3>2
    <3> QED  BY <1>1, <1>2, <3>3, <3>4
  <2>2. \A j \in 1..n : First(images, j) => j # 1 /\ j - 1 \in 1..(n - 1) /\ (j - 1) + 1 = j
    BY <1>1, <1>5
  <2> HIDE DEF First
  <2>3. ASSUME NEW b \in FirstWanted(rest, guess) PROVE b \in FirstWanted(images, guess)
    <3>1. PICK j \in 1..(n - 1) : First(rest, j) /\ b = rest[j]
      BY <1>1, <1>3, <2>3
    <3> QED  BY <1>3, <2>1, <3>1
  <2>4. ASSUME NEW b \in FirstWanted(images, guess) PROVE b \in FirstWanted(rest, guess)
    <3>1. PICK j \in 1..n : First(images, j) /\ b = images[j]
      BY <1>3, <2>4
    <3>2. j - 1 \in 1..(n - 1) /\ First(rest, j - 1) /\ b = rest[j - 1]
      BY <2>1, <2>2, <3>1
    <3> QED  BY <1>1, <1>3, <3>2
  <2> QED  BY <2>3, <2>4
<1> QED  BY <1>4, <1>5 DEF rest

LEMMA NoneWanted == \A guess : FirstWanted(<<>>, guess) = {}
BY DEF FirstWanted

\* The first that is wanted is one of them, and wanted.
LEMMA FirstIsHeld ==
  ASSUME NEW guess, NEW b \in FirstWanted(imp.held, guess)
  PROVE  b \in Held /\ Wanted(b, guess)
BY DEF FirstWanted, Held

\* What is in the tail was in the sequence.
LEMMA TailHolds ==
  ASSUME NEW S, NEW images \in Seq(S), images # <<>>
  PROVE  \A j \in 1..Len(Tail(images)) : \E k \in 1..Len(images) : Tail(images)[j] = images[k]
<1> TAKE j \in 1..Len(Tail(images))
<1>1. Tail(images)[j] = images[j + 1] /\ j + 1 \in 1..Len(images)
  OBVIOUS
<1> QED  BY <1>1

LEMMA NoImport ==
  /\ None \in Image /\ Cut \in Image /\ Len(None) = 1 /\ Len(Cut) = 0
  /\ Quiet \in Imports /\ Quiet.at = "idle" /\ Quiet.todo = <<>> /\ ~Quiet.guess_bios
  /\ ~Quiet.imported /\ ~Quiet.write_failed /\ Quiet.paths = <<>>
  /\ ~Quiet.unreadable /\ ~Quiet.broken /\ Quiet.held = <<>>
<1>1. None \in Image /\ Cut \in Image /\ Len(None) = 1 /\ Len(Cut) = 0
  BY DEF None, Cut, Image
<1>2. <<>> \in Seq(Image) /\ <<>> \in Seq(Path)
  <2> HIDE DEF Image, Path
  <2> QED  OBVIOUS
<1>3. Quiet \in Imports
  <2> HIDE DEF None
  <2> QED  BY <1>1, <1>2 DEF Quiet, Imports, Positions
<1> QED  BY <1>1, <1>3 DEF Quiet

\* An import begins with what is found at a path, or cannot.
LEMMA BeginFacts ==
  ASSUME NEW p \in Path, NEW found \in Found(p), NEW rest \in Seq(Path), NEW total \in Nat,
         Begin(p, found, rest, total), rom \in Image
  PROVE  /\ imp' \in Imports /\ ~imp'.imported /\ ~imp'.write_failed
         /\ imp'.was = rom /\ imp'.paths = rest /\ imp'.held = imp'.todo
         /\ \/ /\ imp'.at = "take" /\ imp'.todo = found /\ (imp'.guess_bios <=> p.kind = "file")
               /\ ~imp'.unreadable /\ ~imp'.broken
            \/ /\ imp'.at = "report" /\ imp'.todo = <<>> /\ ~imp'.guess_bios
               /\ imp'.unreadable /\ imp'.broken
<1>1. found \in Seq(Image)
  BY DataDirAssumption
<1>2. GuessBios(p) \in BOOLEAN
  BY DEF GuessBios
<1>3. {"take", "report"} \subseteq Positions
  BY DEF Positions, Importing
<1>4. CASE Unreadable(rest, total)
  BY <1>3, <1>4, NoImport DEF Unreadable, Imports
<1> DEFINE guess == GuessBios(p)
<1>5. guess <=> p.kind = "file"
  BY DEF GuessBios
<1> HIDE DEF guess
<1>6. CASE imp' = [Quiet EXCEPT !.at = "take", !.todo = found, !.guess_bios = guess,
                                !.was = rom, !.held = found, !.paths = rest, !.count = total]
  BY <1>1, <1>2, <1>3, <1>5, <1>6, NoImport DEF Imports, guess
<1> QED  BY <1>4, <1>6 DEF Begin, guess

\* Whatever is to be looked at first is all that the path held.
LEMMA BeginDone ==
  ASSUME imp'.held = imp'.todo, imp'.todo \in Seq(Image), imp'.was = rom, rom' = rom,
         ~imp'.imported, ~imp'.write_failed, imp'.broken <=> imp'.unreadable,
         imp'.at = "report" => imp'.todo = <<>>
  PROVE  DoneInv'
BY DEF DoneInv, Held

\* An import that guesses nothing begins.
LEMMA Starts ==
  ASSUME DirInv, imp' \in Imports, imp'.at \in {"take", "report"}, imp'.held = imp'.todo,
         ~imp'.guess_bios, ~imp'.imported, ~imp'.write_failed, imp'.broken <=> imp'.unreadable,
         imp'.was = rom, imp'.paths = <<>>, imp'.at = "report" => imp'.todo = <<>>,
         imp'.unreadable => imp'.at = "report",
         TheApp \in up, UNCHANGED <<rom, part, embedded, tree, named, up, Windows>>
  PROVE  DirInv'
<1>1. DirTypeOK'
  BY DEF DirInv, DirTypeOK
<1>2. GoesInv' /\ WritingInv'
  BY DEF GoesInv, WritingInv, Importing
<1>3. imp'.todo \in Seq(Image)
  BY DEF Imports
<1>4. DoneInv'
  BY <1>3, BeginDone
<1>5. NamedInv'
  BY DEF DirInv, NamedInv
<1> QED  BY <1>1, <1>2, <1>4, <1>5 DEF DirInv

LEMMA BeginInv ==
  ASSUME DirInv, NEW p \in Path, NEW found \in Found(p), NEW rest \in Seq(Path), NEW total \in Nat,
         Begin(p, found, rest, total), TheApp \in up,
         UNCHANGED <<rom, part, embedded, tree, up, Windows>>, named \subseteq named',
         p.kind = "file" => \A j \in 1..Len(found) : found[j] \in known_crc \cup named',
         \A j \in 1..Len(rest) : rest[j].kind = "file" => rest[j].bytes \in known_crc \cup named'
  PROVE  DirInv'
<1>1. /\ imp' \in Imports /\ ~imp'.imported /\ ~imp'.write_failed
      /\ imp'.was = rom /\ imp'.paths = rest /\ imp'.held = imp'.todo
      /\ \/ /\ imp'.at = "take" /\ imp'.todo = found /\ (imp'.guess_bios <=> p.kind = "file")
            /\ ~imp'.unreadable /\ ~imp'.broken
         \/ /\ imp'.at = "report" /\ imp'.todo = <<>> /\ ~imp'.guess_bios
            /\ imp'.unreadable /\ imp'.broken
  BY BeginFacts DEF DirInv, DirTypeOK
<1>2. DirTypeOK'
  BY <1>1 DEF DirInv, DirTypeOK
<1>3. GoesInv' /\ WritingInv'
  BY <1>1 DEF GoesInv, WritingInv, Importing
<1>4. imp'.todo \in Seq(Image)
  BY <1>1 DEF Imports
<1>5. DoneInv'
  BY <1>1, <1>4, BeginDone
<1>6. NamedInv'
  BY <1>1 DEF DirInv, NamedInv
<1> QED  BY <1>2, <1>3, <1>5, <1>6 DEF DirInv

\* A step that leaves the import and the BIOS alone.
LEMMA Undisturbed ==
  ASSUME DirInv, UNCHANGED <<embedded, rom, part, imp, named, up, Windows>>,
         tree' \in [{"config", "data", "SD"} -> {"none", "part", "whole", "edited"}]
  PROVE  DirInv'
BY DEF DirInv, DirTypeOK, GoesInv, WritingInv, DoneInv, NamedInv, Held

\* A step outside an import of a BIOS.
LEMMA Elsewhere ==
  ASSUME DirInv, NEW at \in Positions \ Importing, Goes(at), imp.at \notin Importing,
         at = "idle" \/ TheApp \in up', at \in {"provision", "fill"} => embedded,
         rom' \in Image, rom' \in known_crc \cup named \cup {None, Cut},
         UNCHANGED <<embedded, part, named>>,
         tree' \in [{"config", "data", "SD"} -> {"none", "part", "whole", "edited"}]
  PROVE  DirInv'
<1>1. /\ imp' \in Imports /\ imp'.at = at /\ imp'.todo = imp.todo
      /\ imp'.guess_bios = imp.guess_bios /\ imp'.imported = imp.imported
      /\ imp'.write_failed = imp.write_failed /\ imp'.paths = imp.paths
      /\ imp'.unreadable = imp.unreadable /\ imp'.broken = imp.broken /\ imp'.held = imp.held
  BY At DEF DirInv, DirTypeOK, Goes
<1>2. ~imp.imported /\ ~imp.write_failed /\ ~imp.unreadable
  BY DEF DirInv, GoesInv, Importing
<1>3. DirTypeOK'
  BY <1>1 DEF DirInv, DirTypeOK
<1>4. GoesInv' /\ WritingInv'
  BY <1>1, <1>2 DEF GoesInv, WritingInv, Importing
<1>6. DoneInv'
  BY <1>1, <1>2 DEF DirInv, DoneInv, Held, Importing
<1>5. NamedInv'
  BY <1>1 DEF DirInv, NamedInv
<1> QED  BY <1>3, <1>4, <1>5, <1>6 DEF DirInv

\* The import, or the program, is over.
LEMMA IsOver ==
  ASSUME DirInv, imp' = Quiet, UNCHANGED <<embedded, rom, part, tree, named>>
  PROVE  DirInv'
<1>1. /\ imp' \in Imports /\ imp'.at = "idle" /\ imp'.todo = <<>> /\ ~imp'.guess_bios
      /\ ~imp'.imported /\ ~imp'.write_failed /\ imp'.paths = <<>>
      /\ ~imp'.unreadable /\ ~imp'.broken
  BY NoImport
<1>2. DirTypeOK'
  BY <1>1 DEF DirInv, DirTypeOK
<1>3. GoesInv' /\ WritingInv' /\ DoneInv'
  BY <1>1 DEF GoesInv, WritingInv, DoneInv, Importing
<1>4. NamedInv'
  BY <1>1 DEF DirInv, NamedInv
<1> QED  BY <1>2, <1>3, <1>4 DEF DirInv

\* The next image is looked at, after a write that failed or without one.
LEMMA Passes ==
  ASSUME DirInv, imp.at \in Importing, imp.todo # <<>>,
         \/ /\ imp' = [imp EXCEPT !.at = "take", !.todo = Tail(@)] /\ imp.at = "take"
            /\ imp.imported \/ ~Wanted(Head(imp.todo), imp.guess_bios)
         \/ imp' = [imp EXCEPT !.at = "take", !.todo = Tail(@), !.write_failed = TRUE, !.broken = TRUE],
         part' \in Image, UNCHANGED <<embedded, rom, tree, named, up, Windows>>
  PROVE  DirInv'
<1>1. Tail(imp.todo) \in Seq(Image) /\ imp.todo \in Seq(Image)
  BY DEF DirInv, DirTypeOK, Imports
<1>2. "take" \in Positions
  BY DEF Positions, Importing
<1> HIDE DEF Image, Path
<1>3. /\ imp' \in Imports /\ imp'.at = "take" /\ imp'.todo = Tail(imp.todo)
      /\ imp'.guess_bios = imp.guess_bios /\ imp'.imported = imp.imported
      /\ imp'.guessed = imp.guessed /\ imp'.paths = imp.paths /\ imp'.was = imp.was
      /\ imp'.held = imp.held /\ imp'.unreadable = imp.unreadable
      /\ \/ /\ imp'.write_failed = imp.write_failed /\ imp'.broken = imp.broken /\ imp.at = "take"
            /\ imp.imported \/ ~Wanted(Head(imp.todo), imp.guess_bios)
         \/ imp'.write_failed /\ imp'.broken
  <2>1. imp \in Imports
    BY DEF DirInv, DirTypeOK
  <2>2. CASE imp' = [imp EXCEPT !.at = "take", !.todo = Tail(@)] /\ imp.at = "take"
             /\ (imp.imported \/ ~Wanted(Head(imp.todo), imp.guess_bios))
    BY <1>1, <1>2, <2>1, <2>2 DEF Imports
  <2>3. CASE imp' = [imp EXCEPT !.at = "take", !.todo = Tail(@), !.write_failed = TRUE, !.broken = TRUE]
    BY <1>1, <1>2, <2>1, <2>3 DEF Imports
  <2> QED  BY <2>2, <2>3
<1>4. DirTypeOK'
  BY <1>3 DEF DirInv, DirTypeOK
<1>5. GoesInv' /\ WritingInv'
  BY <1>3 DEF DirInv, GoesInv, WritingInv, DoneInv, Importing
<1>6. \A j \in 1..Len(Tail(imp.todo)) : \E k \in 1..Len(imp.todo) : Tail(imp.todo)[j] = imp.todo[k]
  BY <1>1, TailHolds
<1>7. ~Wanted(Head(imp.todo), imp.guess_bios) =>
        FirstWanted(Tail(imp.todo), imp.guess_bios) = FirstWanted(imp.todo, imp.guess_bios)
  BY <1>1, FirstIsLeft
<1>8. Held' = Held
  BY <1>3 DEF Held
<1>9. DoneInv'
  BY <1>3, <1>6, <1>7, <1>8 DEF DirInv, DoneInv, Importing
<1>10. NamedInv'
  BY <1>3, <1>6 DEF DirInv, NamedInv
<1> QED  BY <1>4, <1>5, <1>9, <1>10 DEF DirInv

\* The write of an image goes on.
LEMMA GoesOn ==
  ASSUME DirInv, NEW at \in {"open", "write", "remove", "rename", "report"}, Goes(at),
         imp.at \in {"take", "open", "write", "remove"},
         at # "report" => /\ ~imp.imported /\ imp.todo # <<>>
                          /\ Wanted(Head(imp.todo), imp.guess_bios),
         at \in {"remove", "rename"} => part' = Head(imp.todo),
         at = "remove" => Windows, at = "report" => imp.todo = <<>>,
         rom' # rom => at = "rename" /\ Windows /\ rom' = None,
         part' \in Image, UNCHANGED <<embedded, tree, named, up, Windows>>
  PROVE  DirInv'
<1>0. at \in Positions
  BY DEF Positions, Importing
<1>1. /\ imp' \in Imports /\ imp'.at = at /\ imp'.todo = imp.todo
      /\ imp'.guess_bios = imp.guess_bios /\ imp'.imported = imp.imported
      /\ imp'.guessed = imp.guessed /\ imp'.was = imp.was
      /\ imp'.write_failed = imp.write_failed /\ imp'.paths = imp.paths
      /\ imp'.unreadable = imp.unreadable /\ imp'.broken = imp.broken /\ imp'.held = imp.held
  BY <1>0, At DEF DirInv, DirTypeOK, Goes
<1>2. DirTypeOK'
  BY <1>1, NoImport DEF DirInv, DirTypeOK
<1>3. GoesInv'
  BY <1>1 DEF DirInv, GoesInv, Importing
<1>4. WritingInv'
  BY <1>1 DEF WritingInv
<1>5. DoneInv'
  <2>1. Held' = Held
    BY <1>1 DEF Held
  <2> QED  BY <1>1, <2>1 DEF DirInv, DoneInv, Importing
<1>6. NamedInv'
  BY <1>1 DEF DirInv, NamedInv
<1> QED  BY <1>2, <1>3, <1>4, <1>5, <1>6 DEF DirInv

\* Where the import stands, by name.
LEMMA Places ==
  /\ {"idle", "provision", "fill", "copy", "copying", "config", "data", "SD"}
       = Positions \ Importing
  /\ {"take", "open", "write", "remove", "rename", "report"} = Importing
BY DEF Positions, Importing

LEMMA DroppedPath == Dropped \subseteq Path
BY DEF Path

LEMMA DirSteps ==
  ASSUME DirInv, DirNext
  PROVE  DirInv'
<1> USE Places DEF dirs, vars
<1>0. /\ rom \in Image /\ part \in Image /\ imp \in Imports
      /\ tree \in [{"config", "data", "SD"} -> {"none", "part", "whole", "edited"}]
      /\ rom \in known_crc \cup named \cup {None, Cut}
  BY DEF DirInv, DirTypeOK, NamedInv
<1>1. CASE SessionNew
  <2>1. imp.at = "idle" /\ TheApp \in up'
    BY <1>1 DEF DirInv, GoesInv, SessionNew, Launch
  <2>2. CASE embedded
    <3>1. Goes("provision")
      BY <1>1, <2>2 DEF SessionNew
    <3> QED  BY <1>0, <1>1, <2>1, <2>2, <3>1, Elsewhere DEF SessionNew
  <2>3. CASE ~embedded
    <3>1. Goes("idle")
      BY <1>1, <2>3 DEF SessionNew
    <3> QED  BY <1>0, <1>1, <2>1, <2>3, <3>1, Elsewhere DEF SessionNew
  <2> QED  BY <2>2, <2>3
<1>2. CASE Crash
  BY <1>2, IsOver DEF Crash
<1>3. CASE SettingsStep
  <2>1. UNCHANGED <<up, Windows, dirs>>
    BY <1>3 DEF SettingsStep, FlushStep, FlushNothing, OpenFails, Open, Write, Remove, Rename,
                Flush, SetStr
  <2> QED  BY <1>0, <2>1, Undisturbed
<1>4. CASE Provision
  <2>1. embedded /\ TheApp \in up /\ up' = up
    BY <1>4 DEF DirInv, GoesInv, Provision, process
  <2>2. rom' \in Image /\ rom' \in known_crc \cup named \cup {None, Cut}
    BY <1>0, <1>4, NoImport DEF Provision
  <2> QED  BY <1>0, <1>4, <2>1, <2>2, Elsewhere DEF Provision
<1>5. CASE Fill
  <2>1. rom' \in {coleco_embedded_bios, Cut}
    BY <1>5 DEF Fill
  <2>2. rom' \in Image /\ rom' \in known_crc \cup named \cup {None, Cut}
    BY <2>1, NoImport, DataDirAssumption, RomsAssumption
  <2> QED  BY <1>0, <1>5, <2>2, Elsewhere DEF Fill
<1>6. CASE ImportRoms
  <2>1. TheApp \in up /\ UNCHANGED <<rom, part, embedded, tree, up, Windows>>
    BY <1>6 DEF ImportRoms, Ask, Calm
  <2>2. PICK ps \in Chosen : \E found \in Found(ps[1]) :
          /\ Begin(ps[1], found, Tail(ps), 0)
          /\ named' = named \cup ({ps[i].bytes : i \in {j \in 1..Len(ps) : ps[j].kind = "file"}} \ known_crc)
    BY <1>6 DEF ImportRoms
  <2>20. PICK found \in Found(ps[1]) :
           /\ Begin(ps[1], found, Tail(ps), 0)
           /\ named' = named \cup ({ps[i].bytes : i \in {j \in 1..Len(ps) : ps[j].kind = "file"}} \ known_crc)
    BY <2>2
  <2>3. ps \in Seq(Path) /\ ps # <<>>
    BY DataDirAssumption
  <2> HIDE DEF Path, Image
  <2>4. ps[1] \in Path /\ 1 \in 1..Len(ps) /\ Tail(ps) \in Seq(Path)
    BY <2>3
  <2>5. \A i \in 1..Len(ps) : ps[i].kind = "file" => ps[i].bytes \in known_crc \cup named'
    BY <2>20
  <2>6. \A j \in 1..Len(Tail(ps)) : \E i \in 1..Len(ps) : Tail(ps)[j] = ps[i]
    <3> TAKE j \in 1..Len(Tail(ps))
    <3>1. Tail(ps)[j] = ps[j + 1] /\ j + 1 \in 1..Len(ps)
      BY <2>3
    <3> QED  BY <3>1
  <2>7. \A j \in 1..Len(Tail(ps)) : Tail(ps)[j].kind = "file" => Tail(ps)[j].bytes \in known_crc \cup named'
    BY <2>5, <2>6
  <2>8. ps[1].kind = "file" => \A j \in 1..Len(found) : found[j] = ps[1].bytes
    BY <2>4, DataDirAssumption
  <2>9. ps[1].kind = "file" => \A j \in 1..Len(found) : found[j] \in known_crc \cup named'
    BY <2>4, <2>5, <2>8
  <2>10. named \subseteq named' /\ 0 \in Nat
    BY <2>20
  <2> QED  BY <2>1, <2>20, <2>4, <2>7, <2>9, <2>10, BeginInv
<1>7. CASE ImportPacked
  <2>1. TheApp \in up /\ UNCHANGED <<rom, part, embedded, tree, up, Windows, named>>
    BY <1>7 DEF ImportPacked, Ask, Calm
  <2>2. CASE Unreadable(<<>>, 0)
    <3>1. <<>> \in Seq(Path)
      OBVIOUS
    <3> HIDE DEF Path, Image
    <3>2. /\ imp' \in Imports /\ imp'.at = "report" /\ imp'.todo = <<>> /\ ~imp'.guess_bios
          /\ ~imp'.imported /\ ~imp'.write_failed /\ imp'.was = rom /\ imp'.paths = <<>>
          /\ imp'.held = <<>> /\ imp'.unreadable /\ imp'.broken
      BY <1>0, <2>2, <3>1, NoImport DEF Unreadable, Imports, Positions
    <3> QED  BY <2>1, <3>2, Starts
  <2>3. CASE \E o \in Outcomes :
               LET found == IF o.got.ok THEN <<o.got.out>> ELSE <<>>
               IN  imp' = [Quiet EXCEPT !.at = "take", !.todo = found, !.was = rom,
                                        !.held = found, !.want = o.want]
    <3>1. PICK o \in Outcomes :
               LET found == IF o.got.ok THEN <<o.got.out>> ELSE <<>>
               IN  imp' = [Quiet EXCEPT !.at = "take", !.todo = found, !.was = rom,
                                        !.held = found, !.want = o.want]
      BY <2>3
    <3>2. o.got.out \in Image /\ o.want \in Image
      BY NoImport, DataDirAssumption DEF Outcomes
    <3> DEFINE found == IF o.got.ok THEN <<o.got.out>> ELSE <<>>
    <3> HIDE DEF Path, Image
    <3>3. found \in Seq(Image)
      BY <3>2
    <3>4. imp' = [Quiet EXCEPT !.at = "take", !.todo = found, !.was = rom, !.held = found, !.want = o.want]
      BY <3>1
    <3> HIDE DEF found
    <3>5. /\ imp' \in Imports /\ imp'.at = "take" /\ imp'.todo = found /\ ~imp'.guess_bios
          /\ ~imp'.imported /\ ~imp'.write_failed /\ imp'.was = rom /\ imp'.paths = <<>>
          /\ imp'.held = found /\ ~imp'.unreadable /\ ~imp'.broken
      BY <1>0, <3>2, <3>3, <3>4, NoImport DEF Imports, Positions
    <3>6. /\ imp'.held = imp'.todo /\ imp'.at \in {"take", "report"}
          /\ (imp'.broken <=> imp'.unreadable) /\ (imp'.at = "report" => imp'.todo = <<>>)
          /\ (imp'.unreadable => imp'.at = "report")
      BY <3>5
    <3> QED  BY <2>1, <3>5, <3>6, Starts
  <2> QED  BY <1>7, <2>2, <2>3 DEF ImportPacked
<1>8. CASE Take
  <2>1. UNCHANGED <<embedded, rom, part, tree, named, up, Windows>> /\ imp.at = "take"
    BY <1>8 DEF Take, process
  <2>2. CASE imp.todo = <<>>
    <3>1. Goes("report")
      BY <1>8, <2>2 DEF Take
    <3> QED  BY <1>0, <2>1, <2>2, <3>1, GoesOn
  <2>3. CASE imp.todo # <<>> /\ Wanted(Head(imp.todo), imp.guess_bios) /\ ~imp.imported
    <3>1. Goes("open")
      BY <1>8, <2>3 DEF Take
    <3> QED  BY <1>0, <2>1, <2>3, <3>1, GoesOn
  <2>4. CASE imp.todo # <<>> /\ ~(Wanted(Head(imp.todo), imp.guess_bios) /\ ~imp.imported)
    <3>0. imp' = [imp EXCEPT !.todo = Tail(@)]
      BY <1>8, <2>4 DEF Take
    <3>1. imp' = [imp EXCEPT !.at = "take", !.todo = Tail(@)]
      <4> DEFINE rest == Tail(imp.todo)
      <4>1. imp' = [imp EXCEPT !.todo = rest]
        BY <3>0
      <4> HIDE DEF rest, Image, Path
      <4>2. imp' = [imp EXCEPT !.at = "take", !.todo = rest]
        BY <1>0, <2>1, <4>1 DEF Imports
      <4> QED  BY <4>2 DEF rest
    <3>2. imp.imported \/ ~Wanted(Head(imp.todo), imp.guess_bios)
      BY <1>0, <2>4 DEF Imports
    <3> QED  BY <1>0, <2>1, <2>4, <3>1, <3>2, Passes
  <2> QED  BY <2>2, <2>3, <2>4
<1>9. ASSUME imp.at \in {"open", "write", "rename"}, WriteFailed, part' \in Image,
             UNCHANGED <<vars, embedded, rom, tree, named>>
      PROVE  DirInv'
  <2>1. imp.todo # <<>>
    BY <1>9 DEF DirInv, WritingInv
  <2>2. UNCHANGED <<up, Windows>>
    BY <1>9 DEF process
  <2> QED  BY <1>9, <2>1, <2>2, Passes DEF WriteFailed
<1>10. CASE RomOpen
  <2>1. /\ UNCHANGED <<vars, embedded, rom, tree, named, up, Windows>> /\ imp.at = "open"
        /\ imp.todo # <<>> /\ ~imp.imported /\ Wanted(Head(imp.todo), imp.guess_bios)
    BY <1>10 DEF RomOpen, process, DirInv, WritingInv
  <2>2. CASE part' = Cut /\ Goes("write")
    BY <2>1, <2>2, NoImport, GoesOn
  <2>3. CASE Fails("open") /\ UNCHANGED part /\ WriteFailed
    BY <1>0, <1>9, <2>1, <2>3
  <2> QED  BY <1>10, <2>2, <2>3 DEF RomOpen
<1>11. CASE RomWrite
  <2>1. /\ UNCHANGED <<vars, embedded, rom, tree, named, up, Windows>> /\ imp.at = "write"
        /\ imp.todo # <<>> /\ ~imp.imported /\ Wanted(Head(imp.todo), imp.guess_bios)
    BY <1>11 DEF RomWrite, process, DirInv, WritingInv
  <2>2. Head(imp.todo) \in Image
    BY <1>0, <2>1 DEF Imports
  <2>3. CASE part' = Head(imp.todo) /\ Goes(IF Windows THEN "remove" ELSE "rename")
    <3>1. CASE Windows
      <4>1. Goes("remove")
        BY <2>3, <3>1
      <4> QED  BY <2>1, <2>2, <2>3, <3>1, <4>1, GoesOn
    <3>2. CASE ~Windows
      <4>1. Goes("rename")
        BY <2>3, <3>2
      <4> QED  BY <2>1, <2>2, <2>3, <3>2, <4>1, GoesOn
    <3> QED  BY <3>1, <3>2
  <2>4. CASE Fails("write") /\ part' = None /\ WriteFailed
    BY <1>0, <1>9, <2>1, <2>4, NoImport
  <2> QED  BY <1>11, <2>3, <2>4 DEF RomWrite
<1>12. CASE RomRemove
  <2>1. /\ UNCHANGED <<embedded, part, tree, named, up, Windows>> /\ imp.at = "remove"
        /\ imp.todo # <<>> /\ ~imp.imported /\ Wanted(Head(imp.todo), imp.guess_bios)
        /\ part = Head(imp.todo) /\ Windows
    BY <1>12 DEF RomRemove, process, DirInv, WritingInv
  <2>2. rom' = None /\ Goes("rename")
    BY <1>12 DEF RomRemove
  <2> QED  BY <1>0, <2>1, <2>2, GoesOn
<1>13. CASE RomRename
  <2>1. /\ UNCHANGED <<vars, embedded, tree, named, up, Windows>> /\ imp.at = "rename" /\ part' = None
        /\ imp.todo # <<>> /\ ~imp.imported /\ Wanted(part, imp.guess_bios)
        /\ part = Head(imp.todo)
    BY <1>13 DEF RomRename, process, DirInv, WritingInv
  <2>2. CASE /\ rom' = part
             /\ imp' = [imp EXCEPT !.at = "take", !.todo = Tail(@), !.imported = TRUE,
                                   !.guessed = part \notin known_crc]
    <3> HIDE DEF Path, Image
    <3>1. Tail(imp.todo) \in Seq(Image) /\ imp.todo \in Seq(Image)
      BY <1>0, <2>1 DEF Imports
    <3> DEFINE guessed == part \notin known_crc
    <3>2. guessed \in BOOLEAN
      OBVIOUS
    <3>3. imp' = [imp EXCEPT !.at = "take", !.todo = Tail(@), !.imported = TRUE, !.guessed = guessed]
      BY <2>2
    <3>4. (guessed <=> part \notin known_crc)
      OBVIOUS
    <3> HIDE DEF guessed
    <3>5. /\ imp' \in Imports /\ imp'.at = "take" /\ imp'.todo = Tail(imp.todo)
          /\ imp'.guess_bios = imp.guess_bios /\ imp'.imported /\ imp'.guessed = guessed
          /\ imp'.paths = imp.paths /\ imp'.write_failed = imp.write_failed
          /\ imp'.was = imp.was /\ imp'.held = imp.held
          /\ imp'.unreadable = imp.unreadable /\ imp'.broken = imp.broken
      BY <1>0, <3>1, <3>2, <3>3 DEF Imports, Positions
    <3>6. DirTypeOK'
      BY <1>0, <2>1, <2>2, <3>5, NoImport DEF DirInv, DirTypeOK
    <3>7. GoesInv' /\ WritingInv'
      BY <2>1, <3>5 DEF DirInv, GoesInv, WritingInv
    <3>9. \A j \in 1..Len(Tail(imp.todo)) : \E k \in 1..Len(imp.todo) : Tail(imp.todo)[j] = imp.todo[k]
      BY <2>1, <3>1, TailHolds
    <3>10. 1 \in 1..Len(imp.todo) /\ part = imp.todo[1]
      BY <2>1, <3>1
    <3>8. DoneInv'
      <4>1. Held' = Held
        BY <3>5 DEF Held
      <4>2. part \in Held
        BY <3>10 DEF DirInv, DoneInv
      <4>3. ~imp.write_failed /\ ~imp.unreadable => part \in FirstWanted(imp.held, imp.guess_bios)
        BY <2>1, <3>1, FirstIsLeft DEF DirInv, DoneInv, Importing
      <4> QED  BY <2>1, <2>2, <3>4, <3>5, <3>9, <4>1, <4>2, <4>3 DEF DirInv, DoneInv, GoesInv
    <3>11. part \in known_crc \cup named
      BY <2>1, <3>10 DEF DirInv, NamedInv, Wanted
    <3>12. NamedInv'
      BY <2>1, <2>2, <3>5, <3>9, <3>11 DEF DirInv, NamedInv
    <3> QED  BY <3>6, <3>7, <3>8, <3>12 DEF DirInv
  <2>3. CASE Fails("rename") /\ UNCHANGED rom /\ WriteFailed
    BY <1>9, <2>1, <2>3, NoImport
  <2> QED  BY <1>13, <2>2, <2>3 DEF RomRename
<1>14. CASE ImportOne
  <2>1. /\ UNCHANGED <<embedded, rom, part, tree, named, up, Windows>> /\ imp.at = "report"
        /\ TheApp \in up
    BY <1>14 DEF ImportOne, process, DirInv, GoesInv
  <2>2. CASE imp.paths = <<>>
    BY <1>14, <2>1, <2>2, IsOver DEF ImportOne
  <2>3. CASE imp.paths # <<>>
    <3> DEFINE total == imp.count + (IF Result > 0 THEN 1 ELSE 0)
    <3>1. total \in Nat
      BY <1>0 DEF Imports
    <3>2. PICK found \in Found(imp.paths[1]) :
            Begin(imp.paths[1], found, Tail(imp.paths), total)
      BY <1>14, <2>3 DEF ImportOne
    <3> HIDE DEF total, Path, Image
    <3>3. imp.paths \in Seq(Path)
      BY <1>0 DEF Imports
    <3>4. imp.paths[1] \in Path /\ 1 \in 1..Len(imp.paths) /\ Tail(imp.paths) \in Seq(Path)
      BY <2>3, <3>3
    <3>5. \A j \in 1..Len(imp.paths) :
            imp.paths[j].kind = "file" => imp.paths[j].bytes \in known_crc \cup named'
      BY <2>1 DEF DirInv, NamedInv
    <3>6. \A j \in 1..Len(Tail(imp.paths)) : \E i \in 1..Len(imp.paths) : Tail(imp.paths)[j] = imp.paths[i]
      <4> TAKE j \in 1..Len(Tail(imp.paths))
      <4>1. Tail(imp.paths)[j] = imp.paths[j + 1] /\ j + 1 \in 1..Len(imp.paths)
        BY <2>3, <3>3
      <4> QED  BY <4>1
    <3>7. \A j \in 1..Len(Tail(imp.paths)) :
            Tail(imp.paths)[j].kind = "file" => Tail(imp.paths)[j].bytes \in known_crc \cup named'
      BY <3>5, <3>6
    <3>8. imp.paths[1].kind = "file" => \A j \in 1..Len(found) : found[j] = imp.paths[1].bytes
      BY <3>4, DataDirAssumption
    <3>9. imp.paths[1].kind = "file" => \A j \in 1..Len(found) : found[j] \in known_crc \cup named'
      BY <3>4, <3>5, <3>8
    <3>10. named \subseteq named'
      BY <2>1
    <3> QED  BY <2>1, <3>1, <3>2, <3>4, <3>7, <3>9, <3>10, BeginInv
  <2> QED  BY <2>2, <2>3
<1>15. CASE ImportMedia
  <2>1. /\ UNCHANGED <<embedded, rom, part, tree, named, up, Windows>> /\ imp.at = "idle"
        /\ TheApp \in up
    BY <1>15 DEF ImportMedia, Ask, Calm
  <2>2. PICK p \in Dropped :
          IF media_is_rom(p) THEN \E found \in Found(p) : Begin(p, found, <<>>, 0)
          ELSE IF p.ext = "cart" \/ (p.ext = "disk" /\ tree["SD"] # "none") THEN
            LET dir == IF p.ext = "cart" THEN "carts" ELSE "SD"
            IN  \/ imp' = [Quiet EXCEPT !.at = "copy", !.into = dir,
                                          !.file = IF p.from = dir THEN Cut ELSE p.bytes]
                \/ Fails("open") /\ UNCHANGED imp
          ELSE UNCHANGED imp
    BY <1>15 DEF ImportMedia
  <2>3. p \in Path /\ p.bytes \in Image
    <3>1. p.bytes \in Image
      BY DataDirAssumption
    <3>2. p \in Path
      BY DroppedPath
    <3> QED  BY <3>1, <3>2
  <2> HIDE DEF Path, Image
  <2>4. CASE media_is_rom(p)
    <3>1. PICK found \in Found(p) : Begin(p, found, <<>>, 0)
      BY <2>2, <2>4
    <3>2. p.kind = "file" => p.bytes \in known_crc
      BY <2>3, <2>4, DataDirAssumption DEF media_is_rom, Wanted
    <3>3. p.kind = "file" => \A j \in 1..Len(found) : found[j] \in known_crc \cup named'
      BY <2>3, <3>2, DataDirAssumption
    <3>4. <<>> \in Seq(Path) /\ Len(<<>>) = 0 /\ 0 \in Nat /\ named \subseteq named'
      BY <2>1
    <3>5. \A j \in 1..Len(<<>>) : <<>>[j].kind = "file" => <<>>[j].bytes \in known_crc \cup named'
      BY <3>4
    <3> QED  BY <2>1, <2>3, <3>1, <3>3, <3>4, <3>5, BeginInv
  <2>5. CASE UNCHANGED imp
    BY <1>0, <2>1, <2>5, Undisturbed
  <2>6. CASE \E dir \in {"carts", "SD"}, bytes \in Image :
               imp' = [Quiet EXCEPT !.at = "copy", !.into = dir, !.file = bytes]
    <3>1. PICK dir \in {"carts", "SD"}, bytes \in Image :
            imp' = [Quiet EXCEPT !.at = "copy", !.into = dir, !.file = bytes]
      BY <2>6
    <3>2. /\ imp' \in Imports /\ imp'.at = "copy" /\ imp'.todo = <<>> /\ ~imp'.guess_bios
          /\ ~imp'.imported /\ ~imp'.write_failed /\ imp'.paths = <<>>
          /\ ~imp'.unreadable /\ ~imp'.broken
      BY <3>1, NoImport DEF Imports
    <3>3. DirTypeOK'
      BY <2>1, <3>2 DEF DirInv, DirTypeOK
    <3>4. GoesInv' /\ WritingInv' /\ DoneInv'
      BY <2>1, <3>2 DEF GoesInv, WritingInv, DoneInv
    <3>5. NamedInv'
      BY <2>1, <3>2 DEF DirInv, NamedInv
    <3> QED  BY <3>3, <3>4, <3>5 DEF DirInv
  <2> QED  BY <2>2, <2>3, <2>4, <2>5, <2>6, NoImport
<1>16. CASE CopyBegins
  <2>1. imp.at = "copy" /\ up' = up /\ Goes("copying") /\ UNCHANGED <<embedded, rom, part, tree, named>>
    BY <1>16 DEF CopyBegins, process
  <2>2. TheApp \in up
    BY <2>1 DEF DirInv, GoesInv
  <2> QED  BY <1>0, <2>1, <2>2, Elsewhere
<1>17. CASE CopyEnds
  BY <1>17, IsOver DEF CopyEnds
<1>18. CASE ProvisionTree
  <2>1. /\ imp.at = "idle" /\ TheApp \in up' /\ UNCHANGED <<embedded, rom, part, tree, named>>
        /\ (Goes("config") \/ Goes("idle"))
    BY <1>18 DEF ProvisionTree, Ask, Calm
  <2> QED  BY <1>0, <2>1, Elsewhere
<1>19. CASE CopyTree
  <2>1. /\ imp.at \in {"config", "data", "SD"} /\ UNCHANGED <<embedded, rom, part, named, up, Windows>>
        /\ tree' \in [{"config", "data", "SD"} -> {"none", "part", "whole", "edited"}]
        /\ UNCHANGED imp \/ Goes(Next_tree[imp.at])
    BY <1>0, <1>19 DEF CopyTree, process
  <2>2. TheApp \in up
    BY <2>1 DEF DirInv, GoesInv
  <2>3. Next_tree[imp.at] \in {"data", "SD", "idle"}
    BY <2>1 DEF Next_tree
  <2>4. CASE UNCHANGED imp
    BY <2>1, <2>4, Undisturbed
  <2>5. CASE Goes(Next_tree[imp.at])
    BY <1>0, <2>1, <2>2, <2>3, <2>5, Elsewhere
  <2> QED  BY <2>1, <2>4, <2>5
<1>20. CASE SaveConfig
  <2>1. /\ UNCHANGED <<embedded, rom, part, imp, named, up, Windows>>
        /\ tree' \in [{"config", "data", "SD"} -> {"none", "part", "whole", "edited"}]
    BY <1>0, <1>20 DEF SaveConfig, process
  <2> QED  BY <2>1, Undisturbed
<1> QED  BY <1>1, <1>2, <1>3, <1>4, <1>5, <1>6, <1>7, <1>8, <1>10, <1>11, <1>12, <1>13, <1>14,
            <1>15, <1>16, <1>17, <1>18, <1>19, <1>20 DEF DirNext, RomStep

LEMMA DirStart == DirInit => DirInv
<1> SUFFICES ASSUME DirInit PROVE DirInv
  OBVIOUS
<1>1. /\ embedded \in BOOLEAN /\ rom = None /\ part = None /\ imp = Quiet
      /\ tree \in [{"config", "data", "SD"} -> {"none", "part", "whole", "edited"}]
  BY DEF DirInit
<1>2. DirTypeOK
  BY <1>1, NoImport DEF DirTypeOK
<1>3. GoesInv /\ WritingInv /\ DoneInv
  BY <1>1, NoImport DEF GoesInv, WritingInv, DoneInv, Importing
<1>4. NamedInv
  BY <1>1, NoImport DEF NamedInv
<1> QED  BY <1>2, <1>3, <1>4 DEF DirInv

\* roms.c, paths.c and media.c, as one program runs them: what is written is an
\* image that is wanted, and nothing else touches the BIOS.
THEOREM DirectoriesCorrect == DirSpec => []DirInv
<1>1. DirInv /\ UNCHANGED dvars => DirInv'
  BY Undisturbed DEF dvars, dirs, vars, process, DirInv, DirTypeOK
<1> QED  BY DirStart, DirSteps, <1>1, PTL DEF DirSpec

\* roms.c, roms_import_ex, for any images in any order at a path, and whatever
\* fails: 1 is returned with the first image in place that is wanted of those the
\* path held, reported as a guess exactly when its CRC is not known; 0 with the
\* BIOS as it was where the path held none; -1 exactly when the path could not be
\* looked at or a write failed, with the BIOS as it was, or another image of the
\* path in place -- or, on Windows, none.
THEOREM ImportTellsTheTruth == DirSpec => []ResultIsTrue
<1>1. DirInv => ResultIsTrue
  <2> SUFFICES ASSUME DirInv, imp.at = "report" PROVE ResultIsTrue
    BY DEF ResultIsTrue
  <2>1. imp.imported \in BOOLEAN /\ imp.write_failed \in BOOLEAN /\ imp.unreadable \in BOOLEAN
    BY DEF DirInv, DirTypeOK, Imports
  <2>2. imp.at \in Importing /\ imp.todo = <<>>
    BY DEF Importing, DirInv, DoneInv
  <2>3. CASE imp.broken
    <3>1. Result = -1
      BY <2>3 DEF DirInv, DoneInv, Result
    <3> QED  BY <2>2, <2>3, <3>1 DEF DirInv, DoneInv, ResultIsTrue
  <2>4. CASE ~imp.broken /\ imp.imported
    <3>1. Result = 1
      BY <2>4 DEF DirInv, DoneInv, Result
    <3> QED  BY <2>4, <3>1 DEF DirInv, DoneInv, ResultIsTrue
  <2>5. CASE ~imp.broken /\ ~imp.imported
    <3>1. Result = 0
      BY <2>5 DEF DirInv, DoneInv, Result
    <3>2. rom = imp.was /\ FirstWanted(imp.held, imp.guess_bios) = {}
      BY <2>2, <2>5, NoneWanted DEF DirInv, DoneInv
    <3> QED  BY <2>5, <3>1, <3>2 DEF ResultIsTrue
  <2> QED  BY <2>3, <2>4, <2>5
<1> QED  BY <1>1, DirectoriesCorrect, PTL

\* roms.c: an image of an unknown CRC is the BIOS only if it is the file the user
\* named, whatever zips and folders hold and whatever is dropped on the window.
THEOREM GuessesAreNamed == DirSpec => []OnlyNamedFilesGuessed
<1>1. DirInv => OnlyNamedFilesGuessed
  BY DEF DirInv, NamedInv, OnlyNamedFilesGuessed
<1> QED  BY <1>1, DirectoriesCorrect, PTL

LEMMA BiosFound == DirTypeOK => (Available <=> Len(rom) = BIOS_SIZE \/ embedded)
<1> SUFFICES ASSUME DirTypeOK PROVE Available <=> Len(rom) = BIOS_SIZE \/ embedded
  OBVIOUS
<1>1. coleco_embedded_bios \in Image /\ Len(coleco_embedded_bios) = BIOS_SIZE
  BY DataDirAssumption, RomsAssumption
<1>2. BIOS_SIZE # 1
  BY RomsAssumption
<1> QED  BY <1>1, <1>2, NoImport DEF Available, LoadBios

LEMMA BiosFoundNext == DirTypeOK' => (Available' <=> Len(rom') = BIOS_SIZE \/ embedded')
<1> SUFFICES ASSUME DirTypeOK' PROVE Available' <=> Len(rom') = BIOS_SIZE \/ embedded'
  OBVIOUS
<1>1. coleco_embedded_bios \in Image /\ Len(coleco_embedded_bios) = BIOS_SIZE
  BY DataDirAssumption, RomsAssumption
<1>2. BIOS_SIZE # 1
  BY RomsAssumption
<1> QED  BY <1>1, <1>2, NoImport DEF Available, LoadBios

\* roms.c, write_rom: once there is a BIOS there is one after every step, whatever
\* fails and wherever the program dies, but for the removal on Windows.
THEOREM BiosAlwaysThere == DirSpec => BiosStays
<1>1. ASSUME DirInv, DirInv', DirNext, Available
      PROVE  Available' \/ (Windows /\ imp.at = "remove")
  <2>1. Len(rom) = BIOS_SIZE \/ embedded
    BY <1>1, BiosFound DEF DirInv
  <2>2. Len(rom') = BIOS_SIZE \/ embedded' => Available'
    BY <1>1, BiosFoundNext DEF DirInv
  <2>3. embedded' = embedded
    BY <1>1 DEF DirNext, SessionNew, Crash, SettingsStep, Provision, Fill, ImportRoms, ImportPacked,
                RomStep, Take, RomOpen, RomWrite, RomRemove, RomRename, ImportOne, ImportMedia,
                CopyBegins, CopyEnds, ProvisionTree, CopyTree, SaveConfig, dirs
  <2>4. CASE Provision \/ Fill
    BY <1>1, <2>2, <2>3, <2>4 DEF DirInv, GoesInv, Provision, Fill
  <2>5. CASE RomRemove
    BY <1>1, <2>5 DEF DirInv, WritingInv, RomRemove
  <2>6. CASE RomRename
    BY <1>1, <2>1, <2>2, <2>3, <2>6 DEF DirInv, WritingInv, Wanted, RomRename
  <2>7. CASE UNCHANGED rom
    BY <2>1, <2>2, <2>3, <2>7
  <2> QED  BY <1>1, <2>4, <2>5, <2>6, <2>7
             DEF DirNext, SessionNew, Crash, SettingsStep, ImportRoms, ImportPacked, RomStep, Take,
                 RomOpen, RomWrite, ImportOne, ImportMedia, CopyBegins, CopyEnds, ProvisionTree,
                 CopyTree, SaveConfig, dirs
<1>2. DirInv /\ DirInv' /\ [DirNext]_dvars
        => [Available => Available' \/ (Windows /\ imp.at = "remove")]_dvars
  BY <1>1
<1> QED  BY <1>2, DirectoriesCorrect, PTL DEF DirSpec, BiosStays
-----------------------------------------------------------------------------
(* What was packed is found.                                               *)

\* Until it is imported, or a write failed, the image that was packed is what is
\* to be looked at, and then it is in place; of an entry that was not whole
\* nothing is ever wanted.
PackedInv ==
  imp.at \in Importing /\ imp.want # None =>
    /\ ~imp.guess_bios /\ ~imp.unreadable
    /\ imp.at = "report" => imp.todo = <<>>
    /\ imp.want = Cut =>
         ~imp.imported /\ \A j \in 1..Len(imp.todo) : ~Wanted(imp.todo[j], FALSE)
    /\ imp.want # Cut =>
         /\ imp.want \in known_crc
         /\ imp.todo = <<>> \/ imp.todo = <<imp.want>>
         /\ imp.imported => rom = imp.want
         /\ ~imp.imported /\ ~imp.write_failed => imp.todo = <<imp.want>>

\* A known image is none of the marks for no file.
LEMMA KnownIsFull == \A b \in known_crc : b \in Image /\ b # None /\ b # Cut /\ Wanted(b, FALSE)
<1> SUFFICES ASSUME NEW b \in known_crc
             PROVE  b \in Image /\ b # None /\ b # Cut /\ Wanted(b, FALSE)
  OBVIOUS
<1>1. b \in Image /\ Len(b) = BIOS_SIZE /\ BIOS_SIZE \in Nat /\ BIOS_SIZE > 1
  BY RomsAssumption
<1>2. Len(None) = 1 /\ Len(Cut) = 0
  BY NoImport
<1>3. b # None /\ b # Cut
  <2>1. Len(b) # Len(None) /\ Len(b) # Len(Cut)
    BY <1>1, <1>2
  <2> QED  BY <2>1
<1>4. Wanted(b, FALSE)
  BY <1>1 DEF Wanted
<1> QED  BY <1>1, <1>3, <1>4

\* An import of a path that the user chose or dropped is of nothing packed.
LEMMA BeginPacked ==
  ASSUME NEW p, NEW found, NEW rest, NEW total, Begin(p, found, rest, total)
  PROVE  PackedInv'
<1>1. imp'.want = None
  BY DEF Begin, Unreadable, Quiet
<1> QED  BY <1>1 DEF PackedInv

\* A zip of one entry: what it gives is to be looked at.
LEMMA PackedBegins ==
  ASSUME Decodes, DirInv, ImportPacked
  PROVE  PackedInv'
<1>0. CASE Unreadable(<<>>, 0)
  BY <1>0 DEF Unreadable, Quiet, PackedInv
<1> SUFFICES ASSUME ~Unreadable(<<>>, 0) PROVE PackedInv'
  BY <1>0
<1>1. PICK e \in Packed :
        LET found == IF Extracted(e).ok THEN <<Extracted(e).out>> ELSE <<>>
        IN  imp' = [Quiet EXCEPT !.at = "take", !.todo = found, !.was = rom, !.held = found,
                                 !.want = IF e.whole THEN e.crc ELSE Cut]
  <2>1. PICK o \in Outcomes :
          LET found == IF o.got.ok THEN <<o.got.out>> ELSE <<>>
          IN  imp' = [Quiet EXCEPT !.at = "take", !.todo = found, !.was = rom, !.held = found,
                                   !.want = o.want]
    BY DEF ImportPacked
  <2>2. PICK e \in Packed : o = [want |-> IF e.whole THEN e.crc ELSE Cut, got |-> Extracted(e)]
    BY DEF Outcomes
  <2>3. o.want = (IF e.whole THEN e.crc ELSE Cut) /\ o.got = Extracted(e)
    BY <2>2
  <2> QED  BY <2>1, <2>3
<1>2. e.whole \in BOOLEAN /\ e.crc \in Image /\ Extracted(e).ok \in BOOLEAN /\ Extracted(e).out \in Image
  BY DataDirAssumption
<1> DEFINE found == IF Extracted(e).ok THEN <<Extracted(e).out>> ELSE <<>>
           want == IF e.whole THEN e.crc ELSE Cut
<1>3. imp' = [Quiet EXCEPT !.at = "take", !.todo = found, !.was = rom, !.held = found, !.want = want]
  BY <1>1
<1>4. want # Cut => want \in known_crc /\ found = <<want>>
  BY <1>2 DEF Decodes
<1>5. want = Cut => \A j \in 1..Len(found) : ~Wanted(found[j], FALSE)
  <2> SUFFICES ASSUME want = Cut, NEW j \in 1..Len(found) PROVE ~Wanted(found[j], FALSE)
    OBVIOUS
  <2>1. ~e.whole
    BY <1>2, KnownIsFull DEF Decodes
  <2>2. CASE Extracted(e).ok
    <3>1. found = <<Extracted(e).out>> /\ j = 1
      BY <2>2
    <3> QED  BY <2>1, <2>2, <3>1 DEF Decodes
  <2>3. CASE ~Extracted(e).ok
    BY <2>3
  <2> QED  BY <1>2, <2>2, <2>3
<1> HIDE DEF found, want
<1>6. /\ imp'.todo = found /\ imp'.want = want /\ imp'.at = "take"
      /\ ~imp'.guess_bios /\ ~imp'.imported /\ ~imp'.write_failed /\ ~imp'.unreadable
  BY <1>3 DEF Quiet
<1> QED  BY <1>4, <1>5, <1>6 DEF PackedInv

\* The image is looked at and written; the first that is in place is the one
\* that was packed.
LEMMA PackedSteps ==
  ASSUME DirInv, PackedInv, Take \/ RomOpen \/ RomWrite \/ RomRemove \/ RomRename
  PROVE  PackedInv'
<1> USE DEF vars
<1>1. imp \in Imports /\ imp.at \in Importing
  BY DEF DirInv, DirTypeOK, Take, RomOpen, RomWrite, RomRemove, RomRename, Importing
<1> HIDE DEF Path, Image
<1>2. imp.todo \in Seq(Image)
  BY <1>1 DEF Imports
<1>3. SUFFICES ASSUME imp'.want # None PROVE PackedInv'
  BY DEF PackedInv
\* The position alone, and the BIOS only while it is written.
<1>4. ASSUME NEW at \in Importing, Goes(at), ~imp.imported \/ rom' = rom,
             at = "report" => imp.todo = <<>>
      PROVE  PackedInv'
  <2>1. at \in Positions
    BY DEF Positions
  <2>2. /\ imp'.todo = imp.todo /\ imp'.want = imp.want /\ imp'.guess_bios = imp.guess_bios
        /\ imp'.imported = imp.imported /\ imp'.write_failed = imp.write_failed /\ imp'.at = at
        /\ imp'.unreadable = imp.unreadable
    BY <1>1, <1>4, <2>1 DEF Goes, Imports
  <2> QED  BY <1>1, <1>3, <1>4, <2>2 DEF PackedInv
\* The next image, because this one is not wanted or could not be written.
<1>5. ASSUME imp.todo # <<>>, rom' = rom, imp'.todo = Tail(imp.todo), imp'.want = imp.want,
             imp'.at = "take", imp'.guess_bios = imp.guess_bios, imp'.imported = imp.imported,
             imp'.unreadable = imp.unreadable,
             imp'.write_failed \/ imp.imported
               \/ (~imp'.write_failed /\ ~imp.write_failed /\ ~Wanted(Head(imp.todo), FALSE))
      PROVE  PackedInv'
  <2>1. CASE imp.want = Cut
    <3>1. \A j \in 1..Len(Tail(imp.todo)) : \E k \in 1..Len(imp.todo) : Tail(imp.todo)[j] = imp.todo[k]
      <4> TAKE j \in 1..Len(Tail(imp.todo))
      <4>1. Tail(imp.todo)[j] = imp.todo[j + 1] /\ j + 1 \in 1..Len(imp.todo)
        BY <1>2, <1>5
      <4> QED  BY <4>1
    <3> QED  BY <1>1, <1>3, <1>5, <2>1, <3>1 DEF PackedInv
  <2>2. CASE imp.want # Cut
    <3>1. imp.want \in known_crc /\ imp.todo = <<imp.want>> /\ Wanted(imp.want, FALSE)
      BY <1>1, <1>3, <1>5, <2>2, KnownIsFull DEF PackedInv
    <3>2. Head(imp.todo) = imp.want /\ Tail(imp.todo) = <<>>
      BY <3>1
    <3> QED  BY <1>1, <1>3, <1>5, <2>2, <3>1, <3>2 DEF PackedInv
  <2> QED  BY <2>1, <2>2
<1>6. ASSUME imp.at \in {"open", "write", "rename"}, WriteFailed, rom' = rom PROVE PackedInv'
  <2>1. imp.todo # <<>> /\ ~imp.imported
    BY <1>6 DEF DirInv, WritingInv
  <2>2. /\ imp'.todo = Tail(imp.todo) /\ imp'.want = imp.want /\ imp'.guess_bios = imp.guess_bios
        /\ imp'.imported = imp.imported /\ imp'.write_failed /\ imp'.at = "take"
        /\ imp'.unreadable = imp.unreadable
    BY <1>1, <1>6 DEF WriteFailed, Imports
  <2> QED  BY <1>5, <1>6, <2>1, <2>2
<1>7. CASE Take
  <2>1. CASE imp.todo = <<>> \/ (Wanted(Head(imp.todo), imp.guess_bios) /\ ~imp.imported)
    <3>1. rom' = rom /\ ((Goes("report") /\ imp.todo = <<>>) \/ Goes("open"))
      BY <1>7, <2>1 DEF Take
    <3> QED  BY <1>4, <3>1 DEF Importing
  <2>2. CASE imp.todo # <<>> /\ ~(Wanted(Head(imp.todo), imp.guess_bios) /\ ~imp.imported)
    <3>1. rom' = rom /\ imp' = [imp EXCEPT !.todo = Tail(@)] /\ imp.at = "take"
      BY <1>7, <2>2 DEF Take
    <3>2. /\ imp'.todo = Tail(imp.todo) /\ imp'.want = imp.want /\ imp'.guess_bios = imp.guess_bios
          /\ imp'.imported = imp.imported /\ imp'.write_failed = imp.write_failed /\ imp'.at = "take"
          /\ imp'.unreadable = imp.unreadable
      BY <1>1, <3>1 DEF Imports
    <3>3. ~imp.guess_bios
      BY <1>1, <1>3, <3>2 DEF PackedInv
    <3>4. imp.imported \/ ~Wanted(Head(imp.todo), FALSE)
      BY <1>1, <2>2, <3>3 DEF Wanted, Imports
    <3> QED  BY <1>1, <1>5, <2>2, <3>1, <3>2, <3>4 DEF Imports
  <2> QED  BY <2>1, <2>2
<1>8. CASE RomOpen
  <2>1. rom' = rom /\ imp.at = "open" /\ (Goes("write") \/ WriteFailed)
    BY <1>8 DEF RomOpen
  <2> QED  BY <1>4, <1>6, <2>1 DEF Importing
<1>9. CASE RomWrite
  <2>1. rom' = rom /\ imp.at = "write"
        /\ (Goes(IF Windows THEN "remove" ELSE "rename") \/ WriteFailed)
    BY <1>9 DEF RomWrite
  <2>2. (IF Windows THEN "remove" ELSE "rename") \in Importing \ {"report"}
    BY DEF Importing
  <2> QED  BY <1>4, <1>6, <2>1, <2>2
<1>10. CASE RomRemove
  <2>1. ~imp.imported /\ Goes("rename")
    BY <1>10 DEF RomRemove, DirInv, WritingInv
  <2> QED  BY <1>4, <2>1 DEF Importing
<1>11. CASE RomRename
  <2>1. /\ imp.at = "rename" /\ imp.todo # <<>> /\ ~imp.imported
        /\ Wanted(Head(imp.todo), imp.guess_bios) /\ part = Head(imp.todo)
    BY <1>11 DEF RomRename, DirInv, WritingInv
  <2>2. CASE rom' = rom /\ WriteFailed
    BY <1>6, <2>1, <2>2
  <2>3. CASE /\ rom' = part
             /\ imp' = [imp EXCEPT !.at = "take", !.todo = Tail(@), !.imported = TRUE,
                                   !.guessed = part \notin known_crc]
    <3>1. /\ imp'.todo = Tail(imp.todo) /\ imp'.want = imp.want
          /\ imp'.guess_bios = imp.guess_bios /\ imp'.imported /\ imp'.at = "take"
          /\ imp'.unreadable = imp.unreadable
      BY <1>1, <2>3 DEF Imports
    <3>2. imp.want # Cut
      <4> SUFFICES ASSUME imp.want = Cut PROVE FALSE
        OBVIOUS
      <4>1. ~imp.guess_bios /\ 1 \in 1..Len(imp.todo) /\ Head(imp.todo) = imp.todo[1]
        BY <1>1, <1>2, <1>3, <2>1, <3>1 DEF PackedInv
      <4>2. ~Wanted(imp.todo[1], FALSE)
        BY <1>1, <1>3, <3>1, <4>1 DEF PackedInv
      <4> QED  BY <2>1, <4>1, <4>2 DEF Wanted
    <3>3. imp.want \in known_crc /\ imp.todo = <<imp.want>> /\ ~imp.guess_bios
      BY <1>1, <1>3, <2>1, <3>1, <3>2 DEF PackedInv
    <3>4. Head(imp.todo) = imp.want /\ Tail(imp.todo) = <<>>
      BY <3>3
    <3>5. ~imp'.unreadable /\ ~imp'.guess_bios
      BY <1>1, <1>3, <3>1, <3>3 DEF PackedInv
    <3> QED  BY <2>1, <2>3, <3>1, <3>2, <3>3, <3>4, <3>5 DEF PackedInv
  <2> QED  BY <1>11, <2>2, <2>3 DEF RomRename
<1> QED  BY <1>7, <1>8, <1>9, <1>10, <1>11

\* roms.c: where the reader of zips gives back what was packed whole and
\* nothing that is wanted of the rest, the import of a zip puts the packed image
\* in place and says so, or leaves the BIOS alone and says that, unless a write
\* failed.
THEOREM PackedIsImported == ASSUME Decodes PROVE DirSpec => []PackedImageIsFound
<1>1. DirInit => PackedInv
  BY NoImport DEF DirInit, PackedInv, Importing
<1>2. DirInv /\ PackedInv /\ [DirNext]_dvars => PackedInv'
  <2> SUFFICES ASSUME DirInv, PackedInv, [DirNext]_dvars PROVE PackedInv'
    OBVIOUS
  <2> USE DEF vars, dirs
  <2>1. CASE imp'.at \notin Importing
    BY <2>1 DEF PackedInv
  <2>2. CASE UNCHANGED <<imp, rom>>
    BY <2>2 DEF PackedInv
  <2>3. ASSUME NEW at \in Positions \ Importing, Goes(at) PROVE imp'.at \notin Importing
    BY <2>3 DEF DirInv, DirTypeOK, Imports, Goes
  <2>4. CASE imp' = Quiet
    BY <2>1, <2>4, NoImport DEF Importing
  <2>5. CASE SessionNew \/ Provision \/ Fill \/ CopyBegins \/ ProvisionTree
    <3>1. \E at \in {"idle", "provision", "fill", "copying", "config"} : Goes(at) \/ UNCHANGED <<imp, rom>>
      BY <2>5 DEF SessionNew, Provision, Fill, CopyBegins, ProvisionTree
    <3>2. {"idle", "provision", "fill", "copying", "config"} \subseteq Positions \ Importing
      BY DEF Positions, Importing
    <3> QED  BY <2>1, <2>2, <2>3, <3>1, <3>2
  <2>6. CASE Crash \/ CopyEnds
    BY <2>4, <2>6 DEF Crash, CopyEnds
  <2>7. CASE SettingsStep \/ SaveConfig \/ UNCHANGED dvars
    BY <2>2, <2>7 DEF SettingsStep, SaveConfig, dvars
  <2>8. CASE ImportRoms
    BY <2>8, BeginPacked DEF ImportRoms
  <2>9. CASE ImportPacked
    BY <2>9, PackedBegins
  <2>10. CASE Take \/ RomOpen \/ RomWrite \/ RomRemove \/ RomRename
    BY <2>10, PackedSteps
  <2>11. CASE ImportOne
    BY <2>4, <2>11, BeginPacked DEF ImportOne
  <2>12. CASE ImportMedia
    <3>1. \/ \E p \in Dropped : \E found : Begin(p, found, <<>>, 0)
          \/ \E dir, bytes : imp' = [Quiet EXCEPT !.at = "copy", !.into = dir, !.file = bytes]
          \/ UNCHANGED <<imp, rom>>
      BY <2>12 DEF ImportMedia
    <3>2. ASSUME NEW dir, NEW bytes, imp' = [Quiet EXCEPT !.at = "copy", !.into = dir, !.file = bytes]
          PROVE  PackedInv'
      BY <2>1, <3>2 DEF Quiet, Importing
    <3> QED  BY <2>2, <3>1, <3>2, BeginPacked
  <2>13. CASE CopyTree
    <3>1. UNCHANGED <<imp, rom>> \/ Goes(Next_tree[imp.at])
      BY <2>13 DEF CopyTree
    <3>2. imp.at \in {"config", "data", "SD"}
      BY <2>13 DEF CopyTree, DirInv, DirTypeOK
    <3>3. Next_tree[imp.at] \in Positions \ Importing
      BY <3>2 DEF Next_tree, Positions, Importing
    <3> QED  BY <2>1, <2>2, <2>3, <3>1, <3>3
  <2> QED  BY <2>5, <2>6, <2>7, <2>8, <2>9, <2>10, <2>11, <2>12, <2>13 DEF DirNext, RomStep
<1>3. DirInv /\ PackedInv => PackedImageIsFound
  <2> SUFFICES ASSUME DirInv, PackedInv, imp.at = "report", imp.want # None, ~imp.write_failed
               PROVE  IF imp.want = Cut THEN Result = 0 ELSE Result = 1 /\ rom = imp.want
    BY DEF PackedImageIsFound
  <2>1. /\ imp.at \in Importing /\ imp.imported \in BOOLEAN /\ imp.write_failed \in BOOLEAN
        /\ ~imp.unreadable
    BY DEF Importing, DirInv, DirTypeOK, Imports, PackedInv
  <2>2. CASE imp.want = Cut
    <3>1. ~imp.imported
      BY <2>1, <2>2 DEF PackedInv
    <3> QED  BY <2>1, <2>2, <3>1 DEF Result
  <2>3. CASE imp.want # Cut
    <3>1. imp.imported
      <4>0. imp.todo = <<>>
        BY <2>1 DEF PackedInv
      <4>1. imp.todo # <<imp.want>>
        BY <4>0
      <4> QED  BY <2>1, <2>3, <4>1 DEF PackedInv
    <3>2. rom = imp.want
      BY <2>1, <2>3, <3>1 DEF PackedInv
    <3> QED  BY <2>1, <2>3, <3>1, <3>2 DEF Result
  <2> QED  BY <2>2, <2>3
<1> QED  BY <1>1, <1>2, <1>3, DirectoriesCorrect, PTL DEF DirSpec

-----------------------------------------------------------------------------
(* The settings beside the imports: a step of the directories is one of    *)
(* the settings', or counts.                                               *)

Settled == <<Windows, process, disk, missed>>

LEMMA DirIsNext ==
  ASSUME Alone, IInv, DirNext
  PROVE  [Next]_vars \/ (UNCHANGED Settled /\ sets' \in 0..MaxSets)
<1>1. TheApp \in App
  BY DEF Alone
<1>2. CASE (SessionNew \/ Crash) /\ UNCHANGED Windows
  BY <1>1, <1>2 DEF SessionNew, Crash, Next
<1>3. CASE SettingsStep
  BY <1>1, <1>3 DEF SettingsStep, Next
<1>4. CASE ImportRoms \/ ImportPacked \/ ImportMedia \/ ProvisionTree
  <2>1. UNCHANGED Settled /\ sets < MaxSets /\ sets' = sets + 1
    BY <1>4 DEF ImportRoms, ImportPacked, ImportMedia, ProvisionTree, Ask, Settled, process, disk
  <2> QED  BY <2>1, SettingsAssumption DEF IInv, TypeOK
<1>5. CASE UNCHANGED vars
  BY <1>5
<1> QED
  BY <1>2, <1>3, <1>4, <1>5 DEF DirNext, Provision, Fill, RomStep, Take, RomOpen, RomWrite,
       RomRemove, RomRename, ImportOne, CopyBegins, CopyEnds, CopyTree, SaveConfig

LEMMA Counting ==
  ASSUME UNCHANGED Settled, sets' \in 0..MaxSets
  PROVE  (IInv => IInv') /\ (CleanInv => CleanInv') /\ UNCHANGED <<Mem, Load, ~Windows>>
BY DEF Settled, process, disk, IInv, TypeOK, FlushInv, CleanInv, Mem, Load

LEMMA DirSettings == ASSUME Alone PROVE DirSpec => [](IInv /\ CleanInv)
<1>1. DirInit => IInv /\ CleanInv
  BY InitIInv DEF DirInit, Init, CleanInv
<1>2. IInv /\ CleanInv /\ [DirNext]_dvars => (IInv /\ CleanInv)'
  <2> SUFFICES ASSUME IInv, CleanInv, [DirNext]_dvars PROVE (IInv /\ CleanInv)'
    OBVIOUS
  <2>1. [Next]_vars \/ (UNCHANGED Settled /\ sets' \in 0..MaxSets)
    BY DirIsNext DEF dvars
  <2> QED  BY <2>1, NextIInv, NextCleanInv, Counting
<1> QED  BY <1>1, <1>2, PTL DEF DirSpec

\* settings.c beside the imports: what is clean is saved.
THEOREM SavedBesideImports == ASSUME Alone PROVE DirSpec => []CleanIsSaved
<1>1. IInv /\ CleanInv => CleanIsSaved
  BY DEF Alone, IInv, TypeOK, CleanInv, CleanIsSaved
<1> QED  BY <1>1, DirSettings, PTL

\* settings.c beside the imports: the settings file still implements the store.
THEOREM StoreBesideImports == ASSUME Alone PROVE DirSpec => IsAStore
<1>1. IInv /\ IInv' /\ [DirNext]_dvars => [Store!Next]_<<Mem, Load, ~Windows>>
  <2> SUFFICES ASSUME IInv, IInv', [DirNext]_dvars PROVE [Store!Next]_<<Mem, Load, ~Windows>>
    OBVIOUS
  <2>1. [Next]_vars \/ (UNCHANGED Settled /\ sets' \in 0..MaxSets)
    BY DirIsNext DEF dvars
  <2> QED  BY <2>1, StepMaps, Counting
<1>2. DirInit => Store!Init
  BY InitMaps DEF DirInit
<1> QED  BY <1>1, <1>2, DirSettings, PTL DEF DirSpec, IsAStore, Store!Spec, Mem
=============================================================================
