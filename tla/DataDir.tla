------------------------------ MODULE DataDir ------------------------------
(***************************************************************************)
(* The user's directories, as one program fills them: the settings store,  *)
(* the BIOS in the ROM directory (core/src/roms.c), the FujiNet runtime    *)
(* tree (core/src/paths.c), and the files dropped on the window            *)
(* (core/src/media.c).  All of it happens on the UI thread; every step     *)
(* that touches the disk is a place to die, and may fail.                  *)
(***************************************************************************)
EXTENDS SettingsStore, Roms, Integers

CONSTANTS
  coleco_embedded_bios,   \* the image a developer build carries
  Found(_),     \* the images found at a path, in order, in the ways it is read
  Extracted(_), \* what a packed entry gives, as a record of ok and out
  Chosen,    \* what a user may choose to import: files, zips, folders
  Packed,    \* entries of zips, with the image each was packed from
  Dropped,   \* files dropped on the window
  DirFailures \* of "stat", "open", "write" and "rename", those that can fail here

Paths(ps) == {ps[i] : i \in 1..Len(ps)}
Path == Dropped \cup UNION {Paths(ps) : ps \in Chosen}

\* A file holds itself, or nothing when it has another size.
ASSUME DataDirAssumption ==
  /\ coleco_embedded_bios \in known_crc
  /\ \A ps \in Chosen : ps \in Seq(Path) /\ ps # <<>>
  /\ \A p \in Path : Found(p) \subseteq Seq(Image)
  /\ \A p \in Path : p.kind = "file" => \A w \in Found(p) : \A i \in 1..Len(w) : w[i] = p.bytes
  /\ \A p \in Dropped : p.bytes \in Image
  /\ \A e \in Packed : e.crc \in Image /\ e.whole \in BOOLEAN
                       /\ Extracted(e) \in [ok : BOOLEAN, out : Image]

None == <<-1>>     \* no file
Cut  == <<>>       \* a file that was created and not written

VARIABLES
  embedded,  \* the build carries a BIOS
  rom, part, \* OS7.rom and OS7.rom.part
  imp,       \* the import in progress
  tree,      \* fnconfig.ini, data/ and SD/ of the FujiNet runtime
  media,     \* a file in the cartridge directory and one in SD/
  named      \* history: the files of an unknown CRC the user named as the BIOS

dirs  == <<embedded, rom, part, imp, tree, media, named>>
dvars == <<vars, dirs>>

\* import_ctx, with the position in the import, the paths that follow and the
\* total the frontend reports.  History: the BIOS before the import, the images
\* its path held, whether a call of it failed, and what was packed.
Quiet == [at |-> "idle", todo |-> <<>>, guess_bios |-> FALSE, imported |-> FALSE,
          guessed |-> FALSE, write_failed |-> FALSE, unreadable |-> FALSE,
          paths |-> <<>>, count |-> 0, file |-> None, into |-> "carts",
          was |-> None, held |-> <<>>, broken |-> FALSE, want |-> None]

-----------------------------------------------------------------------------
\* Only what the user named itself may be taken on its size, never what was
\* found in a zip or a folder.
GuessBios_FromFolders(p) == p.kind # "zip"
GuessBios(p) == p.kind = "file"

media_is_rom(p) ==
  p.kind # "dir" /\ \E w \in Found(p) : \E i \in 1..Len(w) : Wanted(w[i], FALSE)

\* read_exact, and the embedded image when it finds nothing
LoadBios == IF Len(rom) = BIOS_SIZE THEN rom
            ELSE IF embedded THEN coleco_embedded_bios ELSE None
Available == LoadBios # None

-----------------------------------------------------------------------------

DirInit ==
  /\ Init
  /\ embedded \in BOOLEAN
  /\ rom = None /\ part = None /\ imp = Quiet
  /\ tree = [x \in {"config", "data", "SD"} |-> "none"]
  /\ media = [d \in {"carts", "SD"} |-> None]
  /\ named = {}

Calm == TheApp \in up /\ pc[TheApp] = "idle" /\ imp.at = "idle"
Ask  == Calm /\ sets < MaxSets /\ sets' = sets + 1
Goes(at) == imp' = [imp EXCEPT !.at = at]
Fails(f) == f \in DirFailures

\* colecosession_new: the settings, then roms_provision_embedded.
SessionNew ==
  /\ Launch(TheApp)
  /\ Goes(IF embedded THEN "provision" ELSE "idle")
  /\ UNCHANGED <<embedded, rom, part, tree, media, named>>

\* Dying in the middle of anything.
Crash ==
  /\ Die(TheApp)
  /\ imp' = Quiet
  /\ UNCHANGED <<embedded, rom, part, tree, media, named>>

\* The user's own copy wins; there is no other name to write under.
Provision ==
  /\ imp.at = "provision"
  /\ \/ rom = None /\ rom' = Cut /\ Goes("fill")
     \/ (rom # None \/ Fails("open")) /\ UNCHANGED rom /\ Goes("idle")
  /\ UNCHANGED <<vars, embedded, part, tree, media, named>>
Fill ==
  /\ imp.at = "fill"
  /\ \E got \in {coleco_embedded_bios} \cup (IF Fails("write") THEN {Cut} ELSE {}) : rom' = got
  /\ Goes("idle")
  /\ UNCHANGED <<vars, embedded, part, tree, media, named>>

-----------------------------------------------------------------------------
\* The import of a BIOS.

\* No path was given, or it cannot be looked at: roms_import_ex ends here.
Unreadable(rest, total) ==
  /\ Fails("stat")
  /\ imp' = [Quiet EXCEPT !.at = "report", !.unreadable = TRUE, !.broken = TRUE,
                          !.was = rom, !.paths = rest, !.count = total]

\* roms_import_ex for one path
Begin(p, found, rest, total) ==
  \/ imp' = [Quiet EXCEPT !.at = "take", !.todo = found, !.guess_bios = GuessBios(p),
                          !.was = rom, !.held = found, !.paths = rest, !.count = total]
  \/ Unreadable(rest, total)

\* coleco_import_bios, coleco_import_roms: one path or several.
ImportRoms ==
  /\ Ask
  /\ \E ps \in Chosen : \E found \in Found(ps[1]) :
       /\ Begin(ps[1], found, Tail(ps), 0)
       /\ named' = named \cup ({ps[i].bytes : i \in {j \in 1..Len(ps) : ps[j].kind = "file"}} \ known_crc)
  /\ UNCHANGED <<up, mem, dirty, pc, fp, disk, missed, Windows, embedded, rom, part, tree, media>>

\* What extracting each packed entry gives, with what it was packed from.
Outcomes == {[want |-> IF e.whole THEN e.crc ELSE Cut, got |-> Extracted(e)] :
               e \in Packed}

\* A zip of one packed entry.
ImportPacked ==
  /\ Ask
  /\ \/ \E o \in Outcomes :
          LET found == IF o.got.ok THEN <<o.got.out>> ELSE <<>>
          IN  imp' = [Quiet EXCEPT !.at = "take", !.todo = found, !.was = rom,
                                   !.held = found, !.want = o.want]
     \/ Unreadable(<<>>, 0)
  /\ UNCHANGED <<up, mem, dirty, pc, fp, disk, missed, Windows, embedded, rom, part, tree,
                 media, named>>

\* The first image of a sweep that could be written wins.
Take ==
  /\ imp.at = "take"
  /\ IF imp.todo = <<>> THEN Goes("report")
     ELSE IF Wanted(Head(imp.todo), imp.guess_bios) /\ ~imp.imported THEN Goes("open")
     ELSE imp' = [imp EXCEPT !.todo = Tail(@)]
  /\ UNCHANGED <<vars, embedded, rom, part, tree, media, named>>

WriteFailed_Unsaid ==
  imp' = [imp EXCEPT !.at = "take", !.todo = Tail(@), !.broken = TRUE]
WriteFailed ==
  imp' = [imp EXCEPT !.at = "take", !.todo = Tail(@), !.write_failed = TRUE, !.broken = TRUE]

RomOpen_InPlace ==
  /\ imp.at = "open"
  /\ part' = Cut /\ rom' = Cut /\ Goes("write")
  /\ UNCHANGED <<vars, embedded, tree, media, named>>

\* write_rom: OS7.rom.part is opened, filled, and renamed over OS7.rom.
RomOpen ==
  /\ imp.at = "open"
  /\ \/ part' = Cut /\ Goes("write")
     \/ Fails("open") /\ UNCHANGED part /\ WriteFailed
  /\ UNCHANGED <<vars, embedded, rom, tree, media, named>>
RomWrite ==
  /\ imp.at = "write"
  /\ \/ part' = Head(imp.todo) /\ Goes(IF Windows THEN "remove" ELSE "rename")
     \/ Fails("write") /\ part' = None /\ WriteFailed
  /\ UNCHANGED <<vars, embedded, rom, tree, media, named>>
RomRemove ==
  /\ imp.at = "remove"
  /\ rom' = None /\ Goes("rename")
  /\ UNCHANGED <<vars, embedded, part, tree, media, named>>
RomRename ==
  /\ imp.at = "rename"
  /\ part' = None
  /\ \/ /\ rom' = part
        /\ imp' = [imp EXCEPT !.at = "take", !.todo = Tail(@), !.imported = TRUE,
                              !.guessed = part \notin known_crc]
     \/ Fails("rename") /\ UNCHANGED rom /\ WriteFailed
  /\ UNCHANGED <<vars, embedded, tree, media, named>>

\* What roms_import_ex returns.
Result == IF imp.unreadable \/ imp.write_failed THEN -1 ELSE IF imp.imported THEN 1 ELSE 0

\* import_one adds it to the total, and the next path is taken.
ImportOne ==
  /\ imp.at = "report"
  /\ LET total == imp.count + (IF Result > 0 THEN 1 ELSE 0)
     IN  IF imp.paths = <<>> THEN imp' = Quiet
         ELSE \E found \in Found(imp.paths[1]) :
                Begin(imp.paths[1], found, Tail(imp.paths), total)
  /\ UNCHANGED <<vars, embedded, rom, part, tree, media, named>>

-----------------------------------------------------------------------------
\* colecosession_import_media: a BIOS is imported as one, a cartridge goes to the
\* cartridge directory, a disk image to SD/ when that is there.
ImportMedia ==
  /\ Ask
  /\ \E p \in Dropped :
       IF media_is_rom(p) THEN
         \E found \in Found(p) : Begin(p, found, <<>>, 0)
       ELSE IF p.ext = "cart" \/ (p.ext = "disk" /\ tree["SD"] # "none") THEN
         LET dir == IF p.ext = "cart" THEN "carts" ELSE "SD"
         IN  \/ imp' = [Quiet EXCEPT !.at = "copy", !.into = dir,
                                       !.file = IF p.from = dir THEN Cut ELSE p.bytes]
             \/ Fails("open") /\ UNCHANGED imp
       ELSE UNCHANGED imp
  /\ UNCHANGED <<up, mem, dirty, pc, fp, disk, missed, Windows, embedded, rom, part, tree,
                 media, named>>

\* copy_file writes under the name itself: a file that is there already is
\* emptied before it is read.
CopyBegins ==
  /\ imp.at = "copy"
  /\ media' = [media EXCEPT ![imp.into] = Cut] /\ Goes("copying")
  /\ UNCHANGED <<vars, embedded, rom, part, tree, named>>
CopyEnds ==
  /\ imp.at = "copying"
  /\ imp' = Quiet
  /\ \/ media' = [media EXCEPT ![imp.into] = imp.file]
     \/ Fails("write") /\ UNCHANGED media
  /\ UNCHANGED <<vars, embedded, rom, part, tree, named>>

-----------------------------------------------------------------------------
\* paths_provision_fujinet: when the library and its assets are found and there
\* is no fnconfig.ini the tree is copied, fnconfig.ini first; the results of the
\* copies are not looked at.
ProvisionTree ==
  /\ Ask
  /\ \E found \in BOOLEAN : Goes(IF found /\ tree["config"] = "none" THEN "config" ELSE "idle")
  /\ UNCHANGED <<up, mem, dirty, pc, fp, disk, missed, Windows, embedded, rom, part, tree,
                 media, named>>

Next_tree == [config |-> "data", data |-> "SD", SD |-> "idle"]

CopyTree ==
  /\ imp.at \in DOMAIN tree
  /\ \/ /\ tree[imp.at] # "part" /\ tree' = [tree EXCEPT ![imp.at] = "part"] /\ UNCHANGED imp
     \/ /\ tree[imp.at] = "part" /\ tree' = [tree EXCEPT ![imp.at] = "whole"]
        /\ Goes(Next_tree[imp.at])
     \/ /\ Fails("write") /\ UNCHANGED tree /\ Goes(Next_tree[imp.at])
  /\ UNCHANGED <<vars, embedded, rom, part, media, named>>

\* The FujiNet runtime saves its own configuration.
SaveConfig ==
  /\ Calm /\ tree["config"] # "none"
  /\ tree' = [tree EXCEPT !["config"] = "edited"]
  /\ UNCHANGED <<vars, embedded, rom, part, imp, media, named>>

-----------------------------------------------------------------------------

SettingsStep ==
  /\ \/ FlushStep(TheApp)
     \/ imp.at = "idle" /\ (Flush(TheApp) \/ \E k \in Key, v \in Val : SetStr(TheApp, k, v))
  /\ UNCHANGED <<Windows, dirs>>

RomStep == Take \/ RomOpen \/ RomWrite \/ RomRemove \/ RomRename \/ ImportOne

DirNext ==
  \/ (SessionNew \/ Crash) /\ UNCHANGED Windows
  \/ SettingsStep \/ Provision \/ Fill
  \/ ImportRoms \/ ImportPacked \/ RomStep
  \/ ImportMedia \/ CopyBegins \/ CopyEnds
  \/ ProvisionTree \/ CopyTree \/ SaveConfig

DirSpec == DirInit /\ [][DirNext]_dvars

-----------------------------------------------------------------------------
(* What must hold.                                                         *)

\* Once there is a BIOS to start with there always is one, whatever an import
\* does, fails at or dies at; but on Windows it is removed before the rename, and
\* where that fails, or the program dies first, it stays away.
BiosStays ==
  [][Available => Available' \/ (Windows /\ imp.at = "remove")]_dvars

FirstWanted(images, guess) ==
  {images[i] : i \in {j \in 1..Len(images) :
                        Wanted(images[j], guess) /\ \A k \in 1..(j - 1) : ~Wanted(images[k], guess)}}
Held == {imp.held[i] : i \in 1..Len(imp.held)}

\* What the import returns is what it did: 1 with the first image in place that
\* is wanted of those the path held, reported as a guess exactly when its CRC is
\* not known; 0 with the BIOS untouched where the path held none; -1 exactly when
\* the path could not be looked at or a write failed, and then the BIOS is what
\* it was or another that the path held -- or, on Windows, gone.
ResultIsTrue ==
  imp.at = "report" =>
    /\ Result = 1 => rom \in FirstWanted(imp.held, imp.guess_bios)
                     /\ (imp.guessed <=> rom \notin known_crc)
    /\ Result = 0 => rom = imp.was /\ FirstWanted(imp.held, imp.guess_bios) = {}
    /\ Result = -1 <=> imp.broken
    /\ Result = -1 => \/ rom = imp.was
                      \/ rom \in Held /\ Wanted(rom, imp.guess_bios)
                      \/ Windows /\ rom = None

\* An image of an unknown CRC becomes the BIOS only if the user named that very
\* file as one: never from a folder, a zip, or a file dropped on the window.
OnlyNamedFilesGuessed == rom \in known_crc \cup named \cup {None, Cut}

\* What roms.c asks of the reader of zips (zipread.c): an entry that was packed
\* whole, of an image that is known, comes out as it was, and nothing that is
\* wanted comes out of one that was not.
Decodes ==
  \A e \in Packed :
    IF e.whole THEN Extracted(e).ok /\ Extracted(e).out = e.crc /\ e.crc \in known_crc
    ELSE Extracted(e).ok => ~Wanted(Extracted(e).out, FALSE)

\* An image that was packed whole is unpacked as it was, whatever codes, matches
\* and blocks its packer used, and imported; one that was not is left alone.
PackedImageIsFound ==
  imp.at = "report" /\ imp.want # None /\ ~imp.write_failed =>
    IF imp.want = Cut THEN Result = 0 ELSE Result = 1 /\ rom = imp.want
=============================================================================
