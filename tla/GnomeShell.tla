----------------------------- MODULE GnomeShell -----------------------------
(* The GNOME frontend's main window and its Preferences (frontends/gnome/   *)
(* window.c, prefs.c, main.c).  No handler waits for an answer: it arrives  *)
(* as a callback, whatever became of the dialog it was asked from.          *)
EXTENDS SessionCalls

\* The dialogs cover the window's own actions.
enabled(a, window) == a.asks = <<>> /\ (window = "main" => ~a.settings)

show_bios_needed(a) == Ask(a, Question("offer", "main"))

power_cycle(a) ==
  LET b == cycle(a) IN IF b.why = "bios" THEN show_bios_needed(b) ELSE b

import_paths_AskedAfter(a, taken, apply) ==
  LET b == rom_import(a, taken) IN
    IF taken /\ apply /\ ~b.bios THEN power_cycle(b) ELSE b

\* Whether there was a BIOS is asked when the import begins.
import_paths(a, taken, apply) ==
  LET b == rom_import(a, taken) IN
    IF taken /\ apply /\ (~a.bios \/ ~a.running) THEN power_cycle(b) ELSE b

\* Preferences may have closed while the chooser was up.
on_import_done(a, q, taken) ==
  CASE q.owner = "settings" -> [a EXCEPT !.dirty = @ \/ taken]
    [] q.owner = "gone"     -> [a EXCEPT !.unapplied = @ \/ (taken /\ ~a.running)]
    [] OTHER                -> a

on_bios_chosen(a, q, taken) ==
  on_import_done(import_paths(a, taken, q.then = "apply"), q, taken)

coleco_window_import_bios(a, owner, then) ==
  Ask(a, [Question("chooser", owner) EXCEPT !.then = then])

on_bios_needed_response(a, q) == coleco_window_import_bios(a, "main", "apply")

\* An import from Preferences is applied when they close.
on_import_clicked(a) == coleco_window_import_bios(a, "settings", "later")

load_rom(a, taken) == import_paths(a, taken, TRUE)
load_cart(a, cart) == power_cycle(import_cart(a, cart))

\* Offered once the window is up; not when a BIOS was on the command line and
\* was taken by then.
bios_gate_idle(a) == IF a.bios THEN a ELSE show_bios_needed(a)

on_activate(a, arg, rom) ==
  LET opts == IF rom \/ arg = None THEN default_opts(a)
              ELSE [default_opts(a) EXCEPT !.cart = arg]
      b == start(a, opts)
  IN bios_gate_idle(IF rom THEN load_rom(b, TRUE) ELSE b)

coleco_prefs_show(a) == [a EXCEPT !.settings = TRUE, !.draft = default_opts(a)]

\* switch_changed, combo_changed.
switch_changed(a, s) ==
  LET stored == [s EXCEPT !.address = a.store.address, !.cart = a.store.cart] IN
    [a EXCEPT !.store = stored, !.dirty = @ \/ stored # a.store, !.draft = s]

addr_changed(a, text) ==
  LET b == [a EXCEPT !.draft.address = text] IN
    IF parse_hostport(text) /\ text # a.store.address
    THEN [b EXCEPT !.store.address = text, !.dirty = TRUE]
    ELSE b

restart_session(a) == power_cycle(a)

prefs_closed(a) ==
  LET gone(q) == [q EXCEPT !.owner = IF @ = "settings" THEN "gone" ELSE @]
      b == [a EXCEPT !.settings = FALSE, !.dirty = FALSE, !.draft = None,
                     !.asks = [i \in DOMAIN @ |-> gone(@[i])]]
  IN IF a.dirty THEN restart_session(b) ELSE b
=============================================================================
