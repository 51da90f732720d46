---------------------------- MODULE SessionCalls ----------------------------
(***************************************************************************)
(* What the main windows of the four frontends (GnomeShell, KdeShell,      *)
(* MacShell, WinShell) call of a session, and the questions they put up.   *)
(* Everything they know is one record, so that a handler is a function     *)
(* from the application as it finds it to the application as it leaves it: *)
(*                                                                         *)
(*   frontend     which of the four it is, while it runs; else None        *)
(*   store        the settings; also the options a start takes from them   *)
(*   bios         whether OS7.rom is in the ROM folder                     *)
(*   lost         the cartridges whose files cannot be read                *)
(*   running, with, why    the session, the options it runs with, and why  *)
(*                the last start was refused                               *)
(*   settings     whether the settings window is open                      *)
(*   dirty        what is to be applied when it closes                     *)
(*   draft        what it shows and has not stored                         *)
(*   asks         the questions put up and not answered, innermost last    *)
(*   imported     whether the one log of Windows' imports counts any       *)
(*   unapplied    (history) a BIOS was imported whose importer forgot it:  *)
(*                its window had gone, or its log was cleared              *)
(***************************************************************************)
EXTENDS Sequences

CONSTANT None

\* The machine's options are one, the external FujiNet's flag and address two
\* more, and the cartridge.
Off == [option |-> 0, external |-> FALSE, address |-> "here", cart |-> None]

\* colecosession_parse_hostport: nothing, or a port, or a host and a port.
parse_hostport(address) == address # "junk"

Refusal(a, opts) ==
  IF ~a.bios THEN "bios"
  ELSE IF opts.cart \in a.lost THEN "cart"
  ELSE IF opts.external /\ ~parse_hostport(opts.address) THEN "address"
  ELSE "none"

\* A session that runs is not started again; one that is refused is stopped.
start(a, opts) ==
  IF a.running THEN a
  ELSE LET why == Refusal(a, opts) IN
       [a EXCEPT !.why = why, !.running = (why = "none"),
                 !.with = IF why = "none" THEN opts ELSE Off]

stop(a) == [a EXCEPT !.running = FALSE, !.with = Off]

default_opts(a) == a.store

cycle(a) == start(stop(a), default_opts(a))

reset_to_config(a) ==
  IF a.running THEN start(stop(a), [default_opts(a) EXCEPT !.cart = None]) ELSE a

rom_import(a, taken) == IF taken THEN [a EXCEPT !.bios = TRUE] ELSE a

\* colecosession_set_int, and _set_str, of the key the file of a cartridge has
\* in the cartridge folder once it was copied there.
import_cart(a, cart) ==
  [a EXCEPT !.store.cart = cart, !.lost = @ \ {cart}]

\* Eject is the same in the four.
eject(a) == reset_to_config([a EXCEPT !.store.cart = None])

\* A question: the offer to import a BIOS, the chooser of files to import, or
\* what came of it.  Its owner is the window that waits.
Question(what, owner) ==
  [what |-> what, owner |-> owner, was_missing |-> FALSE, taken |-> FALSE,
   then |-> "apply", retry |-> None]
Ask(a, q) == [a EXCEPT !.asks = Append(@, q)]
=============================================================================
