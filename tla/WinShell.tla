------------------------------ MODULE WinShell ------------------------------
(* The Windows frontend's main and settings windows (frontends/windows/     *)
(* main.c, import.c).  A question runs the message loop inside its handler: *)
(* only its owner is disabled, and the handlers of the other windows go on. *)
EXTENDS SessionCalls

enabled(a, window) == \A i \in DOMAIN a.asks : a.asks[i].owner # window

\* A missing BIOS is an offer of the import, over the main window.
report_start_failure(a) ==
  IF a.why = "bios" THEN Ask(a, Question("offer", "main")) ELSE a

restart_session(a) == report_start_failure(cycle(a))

apply_new_roms(a, was_missing) ==
  IF was_missing THEN restart_session(a) ELSE a

\* coleco_import_bios: the log, which there is one of, is cleared before the
\* files are chosen.
import_bios(a, owner) ==
  Ask([a EXCEPT !.imported = FALSE,
                !.unapplied = @ \/ \E i \in DOMAIN a.asks :
                  a.imported /\ a.asks[i].what = "result" /\ a.asks[i].was_missing],
      [Question("chooser", owner) EXCEPT !.was_missing = ~a.bios])

import_one(a, taken) == [rom_import(a, taken) EXCEPT !.imported = @ \/ taken]

\* report_roms: the count is what is in the log when the message is answered.
report_roms(a, owner, was_missing) ==
  Ask(a, [Question("result", owner) EXCEPT !.was_missing = was_missing])

pick_each(a, q, taken) ==
  report_roms(import_one(a, taken), q.owner, q.was_missing)

result_seen(a, q) ==
  IF q.taken \/ (q.what = "result" /\ a.imported) THEN apply_new_roms(a, q.was_missing) ELSE a

offer_taken(a, q) == import_bios(a, "main")

\* coleco_import_roms has a log of its own.
load_rom(a, taken) ==
  Ask(rom_import(a, taken),
      [Question("loaded", "main") EXCEPT !.was_missing = ~a.bios, !.taken = taken])
load_cart(a, cart) == restart_session(import_cart(a, cart))

\* A BIOS named on the command line is imported, not run.
WinMain(a, arg, rom) ==
  IF rom THEN report_start_failure(start(rom_import(a, TRUE), default_opts(a)))
  ELSE report_start_failure(
         start(a, IF arg = None THEN default_opts(a)
                  ELSE [default_opts(a) EXCEPT !.cart = arg]))

show_settings(a) ==
  [a EXCEPT !.settings = TRUE, !.draft = default_opts(a)]

\* Everything but the address is stored when it is changed.
settings_apply_checkbox(a, s) ==
  [a EXCEPT !.store.option = s.option, !.store.external = s.external,
            !.dirty = @ \/ s # [a.store EXCEPT !.address = s.address, !.cart = s.cart],
            !.draft = s]

wm_destroy(a) ==
  LET b == [a EXCEPT !.settings = FALSE, !.dirty = FALSE, !.draft = None] IN
    IF a.dirty THEN restart_session(b) ELSE b

wm_close_AddressLeftClean(a) ==
  LET text == a.draft.address IN
    IF a.draft.external /\ ~parse_hostport(text) THEN a
    ELSE wm_destroy(IF parse_hostport(text) THEN [a EXCEPT !.store.address = text] ELSE a)

\* The address is stored here, and only if it is one; a box that is checked
\* with an address that is none keeps the window open.
wm_close(a) ==
  LET text == a.draft.address IN
    IF a.draft.external /\ ~parse_hostport(text) THEN a
    ELSE wm_destroy(
           IF parse_hostport(text) /\ text # a.store.address
           THEN [a EXCEPT !.store.address = text, !.dirty = TRUE]
           ELSE a)
=============================================================================
