------------------------------ MODULE MacShell ------------------------------
(* The macOS frontend's delegate (frontends/macos/AppDelegate.m, main.m).   *)
(* Alerts and panels are modal to the application; the settings window is a *)
(* window like another.                                                     *)
EXTENDS SessionCalls

enabled(a, window) == a.asks = <<>>

\* A missing BIOS is an offer of the import.
reportRefusal(a) == IF a.why = "bios" THEN Ask(a, Question("offer", "main")) ELSE a

importRomsFromPanel(a, owner) == Ask(a, Question("chooser", owner))

\* Whether the machine waited for a BIOS is asked when the import begins; a
\* start that is refused then is said, and nothing offered.
importRomPaths(a, taken) ==
  LET b == rom_import(a, taken) IN
    IF taken /\ (~a.bios \/ ~a.running) THEN cycle(b) ELSE b

askForRoms(a, q) == importRomsFromPanel(a, "main")
panel_done(a, q, taken) == importRomPaths(a, taken)

load_rom(a, taken) == importRomPaths(a, taken)
load_cart(a, cart) == reportRefusal(cycle(import_cart(a, cart)))

\* Whatever is named on the command line is a cartridge.
applicationDidFinishLaunching(a, arg, rom) ==
  LET cart == IF rom THEN "rom" ELSE arg IN
    reportRefusal(
      start(a, IF cart = None THEN default_opts(a)
               ELSE [default_opts(a) EXCEPT !.cart = cart]))

\* The window is built once, and shows again what it showed.
showSettings(a) ==
  [a EXCEPT !.settings = TRUE, !.draft = IF @ = None THEN default_opts(a) ELSE @]

\* Everything but the address is stored when it is changed, ...
settingChanged(a, s) ==
  [a EXCEPT !.store.option = s.option, !.store.external = s.external,
            !.dirty = TRUE, !.draft = s]

\* ... and the address when its editing ends, if it is one.
externalAddrChanged(a) ==
  IF parse_hostport(a.draft.address)
  THEN [a EXCEPT !.store.address = a.draft.address, !.dirty = TRUE]
  ELSE a

\* The edit that is under way is ended, if there is one; a start that is
\* refused is not reported.
windowWillClose(a, editing) ==
  LET b == IF editing THEN externalAddrChanged(a) ELSE a
      c == [b EXCEPT !.settings = FALSE, !.dirty = FALSE]
  IN IF b.dirty THEN cycle(c) ELSE c
=============================================================================
