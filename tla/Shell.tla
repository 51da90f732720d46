-------------------------------- MODULE Shell --------------------------------
(***************************************************************************)
(* The main windows of the four frontends over one settings store and one  *)
(* ROM folder: the handlers of GnomeShell, KdeShell, MacShell and WinShell *)
(* in the order the user, and the dialogs, call them.  One frontend runs   *)
(* at a time; what it stored is what the next one starts from.             *)
(***************************************************************************)
EXTENDS Naturals, Sequences

CONSTANTS
  None,
  Carts,       \* cartridges
  MaxAsks      \* the bound on the questions up at once

ASSUME ShellAssumption == None \notin {"gnome", "kde", "macos", "windows"}

VARIABLE app   \* as SessionCalls describes

C == INSTANCE SessionCalls
G == INSTANCE GnomeShell
K == INSTANCE KdeShell
M == INSTANCE MacShell
W == INSTANCE WinShell

Frontends == {"gnome", "kde", "macos", "windows"}

\* What the frontend that runs does.
Of(frontend, gnome, kde, macos, windows) ==
  CASE frontend = "gnome"   -> gnome
    [] frontend = "kde"     -> kde
    [] frontend = "macos"   -> macos
    [] frontend = "windows" -> windows

Does(gnome, kde, macos, windows) ==
  app' = Of(app.frontend, gnome, kde, macos, windows)

\* Whether the user can reach a window.
Enabled(window) ==
  /\ app.frontend # None
  /\ Of(app.frontend, G!enabled(app, window), K!enabled(app, window),
                      M!enabled(app, window), W!enabled(app, window))

\* No program runs, and what is on the disk stays.
Closed(store, bios, lost) ==
  [frontend |-> None, store |-> store, bios |-> bios, lost |-> lost,
   running |-> FALSE, with |-> C!Off, why |-> "none",
   settings |-> FALSE, dirty |-> FALSE, draft |-> None, asks |-> <<>>,
   imported |-> FALSE, unapplied |-> FALSE]
Stored == [option : {0, 1}, external : BOOLEAN, address : {"here", "there", "junk"},
         cart : Carts \cup {None, "rom"}]

ShellTypeOK ==
  /\ app.frontend \in Frontends \cup {None}
  /\ app.store \in Stored /\ app.with \in Stored /\ app.draft \in Stored \cup {None}
  /\ app.lost \subseteq Carts
  /\ app.why \in {"none", "bios", "cart", "address"}
  /\ \A flag \in {app.bios, app.running, app.settings, app.dirty, app.imported, app.unapplied} :
       flag \in BOOLEAN
  /\ \A i \in DOMAIN app.asks :
       /\ app.asks[i].what \in {"offer", "chooser", "result", "loaded"}
       /\ app.asks[i].owner \in {"main", "settings", "gone"}

ShellInit == \E bios \in BOOLEAN : app = Closed(C!Off, bios, {})

-----------------------------------------------------------------------------
(* The program.                                                            *)

Launch(f, arg, rom) ==
  /\ app.frontend = None /\ (rom => arg = None)
  /\ LET a == [app EXCEPT !.frontend = f] IN
       app' = Of(f, G!on_activate(a, arg, rom), K!main(a, arg, rom),
                    M!applicationDidFinishLaunching(a, arg, rom), W!WinMain(a, arg, rom))

Quit ==
  /\ Enabled("main")
  /\ app' = Closed(app.store, app.bios, app.lost)

\* A file manager, at any time.
CartDeleted(cart) ==
  /\ cart \notin app.lost
  /\ app' = [app EXCEPT !.lost = @ \cup {cart}]

-----------------------------------------------------------------------------
(* The main window.                                                        *)

\* A file dropped, chosen, or, on GNOME, handed over by a second launch, which
\* no dialog keeps out.
Reached == Enabled("main") \/ (app.frontend = "gnome" /\ Len(app.asks) < MaxAsks)

LoadCart(cart) ==
  /\ Reached
  /\ Does(G!load_cart(app, cart), K!load_cart(app, cart), M!load_cart(app, cart),
          W!load_cart(app, cart))

LoadRom(taken) ==
  /\ Reached
  /\ Does(G!load_rom(app, taken), K!load_rom(app, taken), M!load_rom(app, taken),
          W!load_rom(app, taken))

Eject == Enabled("main") /\ app' = C!eject(app)

BackToConfig == Enabled("main") /\ app' = C!reset_to_config(app)

ImportBios ==
  /\ Enabled("main")
  /\ Does(G!coleco_window_import_bios(app, "main", "apply"),
          K!importRoms(app, "main", "apply", None),
          M!importRomsFromPanel(app, "main"), W!import_bios(app, "main"))

OpenSettings ==
  /\ Enabled("main") /\ ~app.settings
  /\ Does(G!coleco_prefs_show(app), K!run(app), M!showSettings(app), W!show_settings(app))

-----------------------------------------------------------------------------
(* The questions.  Of those one handler asks within another the last is    *)
(* answered first; GNOME's wait side by side.                              *)

Answerable == IF app.frontend = "gnome" THEN DOMAIN app.asks
              ELSE {i \in DOMAIN app.asks : i = Len(app.asks)}

Dropped(i) ==
  [app EXCEPT !.asks = SubSeq(@, 1, i - 1) \o SubSeq(@, i + 1, Len(@))]

Offered(i, yes) ==
  LET q == app.asks[i]  a == Dropped(i) IN
    /\ q.what = "offer"
    /\ \/ ~yes /\ app' = a
       \/ yes /\ Does(G!on_bios_needed_response(a, q), K!buttonClicked(a, q),
                      M!askForRoms(a, q), W!offer_taken(a, q))

Chosen(i, taken) ==
  LET q == app.asks[i]  a == Dropped(i) IN
    /\ q.what = "chooser"
    /\ Does(G!on_bios_chosen(a, q, taken), K!rom_chosen(a, q, taken),
            M!panel_done(a, q, taken), W!pick_each(a, q, taken))

Cancelled(i) == app.asks[i].what = "chooser" /\ app' = Dropped(i)

ResultSeen(i) ==
  /\ app.asks[i].what \in {"result", "loaded"}
  /\ app' = W!result_seen(Dropped(i), app.asks[i])

Answer ==
  \E i \in Answerable :
    \/ Cancelled(i) \/ ResultSeen(i)
    \/ \E yes \in BOOLEAN : Offered(i, yes) \/ Chosen(i, yes)

-----------------------------------------------------------------------------
(* The settings window.                                                    *)

Setting == Enabled("settings") /\ app.settings

ImportHere ==
  /\ Setting
  /\ Does(G!on_import_clicked(app), K!importRoms(app, "settings", "later", None),
          M!importRomsFromPanel(app, "settings"), W!import_bios(app, "settings"))

Change(s) ==
  /\ Setting
  /\ Does(G!switch_changed(app, s), [app EXCEPT !.draft = s], M!settingChanged(app, s),
          W!settings_apply_checkbox(app, s))

\* The address can be edited only while it is used.
TypeAddress(text) ==
  /\ Setting /\ app.draft.external
  /\ LET typed == [app EXCEPT !.draft.address = text] IN
       Does(G!addr_changed(app, text), typed, typed, typed)

\* Return, or another field.
AddressEntered ==
  /\ Setting /\ app.frontend = "macos"
  /\ app' = M!externalAddrChanged(app)

\* GNOME's chooser is over the main window, and does not keep Preferences from
\* closing.
CloseSettings ==
  /\ app.settings
  /\ \/ app.frontend = "gnome"   /\ app' = G!prefs_closed(app)
     \/ Setting /\ app.frontend = "kde" /\ app' \in {K!accepted(app), K!rejected(app)}
     \/ Setting /\ app.frontend = "windows" /\ app' = W!wm_close(app)
     \/ /\ Setting /\ app.frontend = "macos"
        /\ \E editing \in BOOLEAN : app' = M!windowWillClose(app, editing)

ShellNext ==
  \/ \E f \in Frontends, arg \in Carts \cup {None}, rom \in BOOLEAN : Launch(f, arg, rom)
  \/ Quit
  \/ \E cart \in Carts : CartDeleted(cart) \/ LoadCart(cart)
  \/ \E taken \in BOOLEAN : LoadRom(taken)
  \/ Eject \/ BackToConfig \/ ImportBios \/ OpenSettings \/ Answer \/ ImportHere
  \/ \E on \in {0, 1} : Change([app.draft EXCEPT !.option = on])
  \/ \E on \in BOOLEAN : Change([app.draft EXCEPT !.external = on])
  \/ \E text \in {"here", "there", "junk"} : TypeAddress(text)
  \/ AddressEntered \/ CloseSettings

ShellSpec == ShellInit /\ [][ShellNext]_app

-----------------------------------------------------------------------------
(* What must hold.                                                         *)

\* Nothing is open that would still apply what it changed.
Quiet == app.frontend # None /\ ~app.settings /\ app.asks = <<>>

\* prefs.c:7-9, windows main.c:340-344: once the settings window has closed, a
\* console that runs runs with what the store says.  Two frontends store the
\* address apart from the rest, and each applies in a way of its own.
OptionsInForce ==
  Quiet /\ app.running =>
    /\ app.with.option = app.store.option
    /\ app.with.external = app.store.external
    /\ app.with.external => app.with.address = app.store.address

\* windows main.c:270, window.c:266-268: a console that was refused for want of
\* the BIOS is started when one is imported, by whatever way it comes in.
BiosIsTakenUp ==
  Quiet /\ ~app.running /\ app.why = "bios" /\ ~app.unapplied => ~app.bios

-----------------------------------------------------------------------------
(* What the comments say and the code does not do.                         *)

\* prefs.c:159-160: an import from Preferences is applied when they close.  It
\* is not when they close first, nor, on Windows, when a second import clears
\* the log of the one whose message is still up.
NothingUnapplied == ~app.unapplied

\* prefs.c:117-118, windows main.c:411: the address is saved only if it is one.
\* KDE saves what is in the field while the box is not checked.
OnlyAddressesSaved == app.store.address # "junk"

\* windows main.c:968, gnome main.c:41: a BIOS named on the command line is not
\* run as a cartridge.  It is on KDE and macOS.
NoRomIsACartridge == app.with.cart # "rom"

\* window.c:97-99: a power cycle opens the cartridge the session is for.  One
\* named on the command line is lost when the settings close.
SettingsKeepCartridge ==
  [][CloseSettings /\ app.running /\ app'.running /\ app.with.cart # None
       => app'.with.cart = app.with.cart]_app
=============================================================================
