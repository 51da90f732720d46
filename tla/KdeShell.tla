------------------------------ MODULE KdeShell ------------------------------
(* The KDE frontend's main window and its Preferences (frontends/kde/       *)
(* MainWindow.cpp, SettingsDialog.cpp, main.cpp).  Choosers and the dialog  *)
(* are modal to the application; the offer is modal to the window.          *)
EXTENDS SessionCalls

enabled(a, window) == a.asks = <<>> /\ (window = "main" => ~a.settings)

\* A missing BIOS is an offer of the import, after which the same start is
\* tried again.
explainRefusal(a, retry) ==
  IF a.why = "bios" THEN Ask(a, [Question("offer", "main") EXCEPT !.retry = retry]) ELSE a

startConsole(a, cart) ==
  explainRefusal(
    start(a, IF cart = None THEN default_opts(a) ELSE [default_opts(a) EXCEPT !.cart = cart]),
    cart)

\* importRoms runs the chooser and says what came of it before it returns.
importRoms(a, owner, then, retry) ==
  Ask(a, [Question("chooser", owner) EXCEPT !.was_missing = ~a.bios,
                                            !.then = then, !.retry = retry])

\* The saved cartridge, else CONFIG, when the BIOS was the missing piece.
afterImport(a, wasMissing) ==
  CASE ~a.running             -> startConsole(a, None)
    [] a.running /\ wasMissing -> startConsole(stop(a), None)
    [] OTHER                   -> a

buttonClicked(a, q) == importRoms(a, "main", "retry", q.retry)

rom_chosen(a, q, taken) ==
  LET b == rom_import(a, taken) IN
    CASE ~taken             -> b
      [] taken /\ q.then = "apply" -> afterImport(b, q.was_missing)
      [] taken /\ q.then = "retry" -> startConsole(b, q.retry)
      [] taken /\ q.then = "later" -> [b EXCEPT !.dirty = TRUE]

load_rom(a, taken) ==
  LET b == rom_import(a, taken) IN IF taken THEN afterImport(b, ~a.bios) ELSE b
load_cart(a, cart) == startConsole(stop(import_cart(a, cart)), None)

\* Whatever is named on the command line is a cartridge.
main(a, arg, rom) == startConsole(a, IF rom THEN "rom" ELSE arg)

restartSession(a) == startConsole(stop(a), None)

\* SettingsDialog::run: nothing is stored before OK.
run(a) == [a EXCEPT !.settings = TRUE, !.draft = default_opts(a)]

closed(a) == [a EXCEPT !.settings = FALSE, !.dirty = FALSE, !.draft = None]

\* An import is on disk already, Cancel or not.
rejected(a) == IF a.dirty THEN restartSession(closed(a)) ELSE closed(a)

\* The address is looked at only while it is used.
commit(a) ==
  LET stored == [a.draft EXCEPT !.cart = a.store.cart]
      b == closed([a EXCEPT !.store = stored])
  IN IF a.dirty \/ stored # a.store THEN restartSession(b) ELSE b

accepted(a) ==
  IF a.draft.external /\ ~parse_hostport(a.draft.address) THEN a ELSE commit(a)
=============================================================================
