------------------------------ MODULE FujiCart ------------------------------
(***************************************************************************)
(* The FujiNet cartridge device (core/coleco/fujinet_cart.c): the images   *)
(* it serves and stages, the mailbox page painted into them, the mapper    *)
(* hint, and the swap a hotspot read sets off.                             *)
(*                                                                         *)
(* Everything runs on the machine thread.  The staged firmware sources are *)
(* external: fujimail calls the port (publish, stream, arm) from inside a  *)
(* hotspot read and only while the mailbox is live, and colmap answers     *)
(* with any plan of Plan.  A buffer stands for the push its bytes came     *)
(* from and for what its status page shows.                                *)
(***************************************************************************)
EXTENDS Naturals

CONSTANTS
  Status,     \* what fujimail publishes on the status page
  Cleared,    \* the page fujimail_paint paints
  Own,        \* the bytes an image has there of its own
  None,       \* no buffer
  MaxPush     \* the bound on ROM pushes

ASSUME CartAssumption ==
  /\ Cleared \in Status /\ Own \notin Status
  /\ None \notin [push : Nat, page : Status \cup {Own}]
  /\ MaxPush \in Nat

VARIABLES
  window, staged,        \* the 32K windows
  image, staged_image,   \* full images of the banked kinds, or None
  serve, base,           \* the plan served, and from where
  staged_plan, staged_claims, have_staged, swap_armed, mailbox_live,
  rx,                    \* the ROM stream: "closed", "open" or "refused"
  pending_hint,          \* a mapper named by a .cfg
  \* history
  pub,                   \* what fujimail published last
  pubStaged,             \* something was published since the image was staged
  hinted,                \* a .cfg named a mapper since the last ROM closed
  pushes,                \* ROM pushes opened so far
  rom                    \* the push being served

buffers == <<window, staged, image, staged_image>>
serving == <<serve, base, mailbox_live>>
staging == <<staged_plan, staged_claims, have_staged, swap_armed>>
stream  == <<rx, pending_hint>>
history == <<pub, pubStaged, hinted, pushes, rom>>
vars    == <<buffers, serving, staging, stream, history>>

Page   == Status \cup {Own}
Buffer == [push : 0..MaxPush, page : Page]

\* What colmap_plan may answer: a claiming image is flat or an APPBANK client;
\* the banked games (MegaCart, X-in-1, Activision, SGC) run without a mailbox.
Plan == {[kind |-> "flat", mailbox_ok |-> TRUE],
         [kind |-> "flat", mailbox_ok |-> FALSE],
         [kind |-> "appbank", mailbox_ok |-> TRUE],
         [kind |-> "banked", mailbox_ok |-> FALSE]}
PlainPlan == [kind |-> "flat", mailbox_ok |-> FALSE]
ServesWindow(plan) == plan.kind = "flat"

TypeOK ==
  /\ window \in Buffer /\ staged \in Buffer
  /\ image \in Buffer \cup {None} /\ staged_image \in Buffer \cup {None}
  /\ serve \in Plan /\ base \in {"window", "image"}
  /\ staged_plan \in Plan /\ staged_claims \in BOOLEAN /\ have_staged \in BOOLEAN
  /\ swap_armed \in BOOLEAN /\ mailbox_live \in BOOLEAN
  /\ rx \in {"closed", "open", "refused"}
  /\ pending_hint \in {"auto", "named"}
  /\ pub \in Page /\ pubStaged \in BOOLEAN /\ hinted \in BOOLEAN
  /\ pushes \in 0..MaxPush /\ rom \in 0..MaxPush

-----------------------------------------------------------------------------
(* What the port writes.                                                   *)

Fresh(n) == [push |-> n, page |-> Own]
Poked(b, v) == [b EXCEPT !.page = v]

\* apply_serving
ApplyServing(plan) ==
  serve' = plan /\ base' = IF ServesWindow(plan) THEN "window" ELSE "image"

\* coleco_cart_create: serve the image colmap planned (the CONFIG client if
\* there is none), and paint the mailbox if the image claims it.
Init ==
  /\ \E plan \in Plan :
       LET page == IF plan.mailbox_ok THEN Cleared ELSE Own
       IN  /\ window = [push |-> 0, page |-> page]
           /\ image = IF ServesWindow(plan) THEN None ELSE [push |-> 0, page |-> page]
           /\ serve = plan
           /\ base = IF ServesWindow(plan) THEN "window" ELSE "image"
           /\ mailbox_live = plan.mailbox_ok
           /\ pub = page
  /\ staged = Fresh(0) /\ staged_image = None
  /\ staged_plan = PlainPlan /\ staged_claims = FALSE
  /\ have_staged = FALSE /\ swap_armed = FALSE
  /\ rx = "closed" /\ pending_hint = "auto"
  /\ pubStaged = FALSE /\ hinted = FALSE /\ pushes = 0 /\ rom = 0

c_poke_WindowOnly(v) ==
  /\ window' = Poked(window, v)
  /\ UNCHANGED <<image, staged, staged_image>>

\* c_poke: paint the window, the live client's own image, and a staged image
\* that will have the mailbox.
c_poke(v) ==
  /\ window' = Poked(window, v)
  /\ image' = IF serve.kind = "appbank" /\ image # None THEN Poked(image, v) ELSE image
  /\ staged_image' = IF have_staged /\ staged_claims /\ staged_plan.kind = "appbank"
                        /\ staged_image # None
                     THEN Poked(staged_image, v) ELSE staged_image
  /\ staged' = IF have_staged /\ staged_claims THEN Poked(staged, v) ELSE staged

-----------------------------------------------------------------------------
(* Hotspot reads that reach fujimail: only while the mailbox is live.      *)

Publish(v) ==
  /\ mailbox_live
  /\ c_poke(v)
  /\ pub' = v /\ pubStaged' = have_staged
  /\ UNCHANGED <<serving, staging, stream, hinted, pushes, rom>>

\* colmap_kind_named: a mapper it does not know, or none, is no hint.
Named(mapper) == IF mapper = "known" THEN "named" ELSE "auto"

\* c_stream_close of the .cfg stream: its mapper waits for the ROM.
CloseCfg(mapper) ==
  /\ mailbox_live
  /\ pending_hint' = Named(mapper)
  /\ hinted' = TRUE
  /\ UNCHANGED <<buffers, serving, staging, rx, pub, pubStaged, pushes, rom>>

\* c_stream_open of the ROM stream: colmap_gate may refuse the size, and
\* fujimail may or may not close a stream that was refused.
OpenRom(accepted) ==
  /\ mailbox_live /\ pushes < MaxPush
  /\ pushes' = pushes + 1
  /\ rx' = IF accepted THEN "open" ELSE "refused"
  /\ UNCHANGED <<buffers, serving, staging, pending_hint, pub, pubStaged, hinted, rom>>

\* c_stream_close of the ROM stream: the push was aborted, is empty or has no
\* plan ...
CloseRomRefused_KeepsHint ==
  /\ mailbox_live /\ rx # "closed"
  /\ rx' = "closed" /\ hinted' = FALSE
  /\ UNCHANGED <<buffers, serving, staging, pending_hint, pub, pubStaged, pushes, rom>>

CloseRomRefused ==
  /\ mailbox_live /\ rx # "closed"
  /\ rx' = "closed" /\ pending_hint' = "auto" /\ hinted' = FALSE
  /\ UNCHANGED <<buffers, serving, staging, pub, pubStaged, pushes, rom>>

\* ... or is staged, in place of what was staged before.  An armed swap stays
\* armed.
CloseRom_KeepsImage(plan) ==
  /\ mailbox_live /\ rx = "open"
  /\ rx' = "closed" /\ pending_hint' = "auto" /\ hinted' = FALSE
  /\ staged' = Fresh(pushes)
  /\ staged_image' = IF staged_image # None \/ ServesWindow(plan) THEN staged_image
                                                               ELSE Fresh(pushes)
  /\ staged_plan' = plan /\ staged_claims' = plan.mailbox_ok /\ have_staged' = TRUE
  /\ pubStaged' = FALSE
  /\ UNCHANGED <<window, image, serving, swap_armed, pub, pushes, rom>>

CloseRom(plan) ==
  /\ mailbox_live /\ rx = "open"
  /\ rx' = "closed" /\ pending_hint' = "auto" /\ hinted' = FALSE
  /\ staged' = Fresh(pushes)
  /\ staged_image' = IF ServesWindow(plan) THEN None ELSE Fresh(pushes)
  /\ staged_plan' = plan /\ staged_claims' = plan.mailbox_ok /\ have_staged' = TRUE
  /\ pubStaged' = FALSE
  /\ UNCHANGED <<window, image, serving, swap_armed, pub, pushes, rom>>

c_arm_swap ==
  /\ mailbox_live
  /\ have_staged
  /\ swap_armed' = TRUE
  /\ UNCHANGED <<buffers, serving, staged_plan, staged_claims, have_staged, stream,
                 history>>

-----------------------------------------------------------------------------
(* The swap hotspot, which the cartridge decodes itself.                   *)

do_swap_NoPaint ==
  /\ swap_armed
  /\ window' = staged /\ image' = staged_image /\ staged_image' = None
  /\ ApplyServing(staged_plan)
  /\ swap_armed' = FALSE /\ have_staged' = FALSE
  /\ mailbox_live' = staged_claims
  /\ rom' = staged.push
  /\ pub' = IF staged_claims THEN Cleared ELSE pub
  /\ UNCHANGED <<staged, staged_plan, staged_claims, stream, pubStaged, hinted, pushes>>

\* do_swap: the staged image becomes the served one; a client that has the
\* mailbox gets a page of its own.
do_swap ==
  /\ swap_armed
  /\ LET Painted(b) == IF staged_claims THEN Poked(b, Cleared) ELSE b
     IN  /\ window' = Painted(staged)
         /\ image' = IF staged_plan.kind = "appbank" THEN Painted(staged_image)
                                                     ELSE staged_image
         /\ pub' = IF staged_claims THEN Cleared ELSE pub
  /\ staged_image' = None
  /\ ApplyServing(staged_plan)
  /\ swap_armed' = FALSE /\ have_staged' = FALSE
  /\ mailbox_live' = staged_claims
  /\ rom' = staged.push
  /\ UNCHANGED <<staged, staged_plan, staged_claims, stream, pubStaged, hinted, pushes>>

Next ==
  \/ \E v \in Status : Publish(v)
  \/ \E mapper \in {"none", "known", "unknown"} : CloseCfg(mapper)
  \/ \E accepted \in BOOLEAN : OpenRom(accepted)
  \/ CloseRomRefused
  \/ \E plan \in Plan : CloseRom(plan)
  \/ c_arm_swap
  \/ do_swap

Spec == Init /\ [][Next]_vars

-----------------------------------------------------------------------------
(* What must hold.                                                         *)

\* What cart_read serves from.
Served == IF base = "window" THEN window ELSE image

\* A hint that waits is no older than the close of the last ROM push, whatever
\* became of that push: some .cfg has been closed since.  (The .cfg of a ROM
\* that is never pushed still names the mapper of the ROM that is.)
HintIsForTheNextRom == pending_hint # "auto" => hinted

\* The console reads one whole image, the one swapped in last: whatever was
\* pushed, refused or staged over meanwhile, nothing of another push shows, nor
\* waits to show in the next, and the image it is served from exists.
OneWholeImage == Served # None /\ Served.push = rom /\ HintIsForTheNextRom

\* While the mailbox is live the status page the console reads is the one
\* published last, wherever the image is served from; the debugger, which
\* looks at the window, sees the same page; and a staged client has every
\* publish since it was staged, in the copy it will be served from.  An image
\* without the claim signature is served as it came.
PageIsCurrent ==
  /\ IF mailbox_live THEN Served.page = pub /\ window.page = pub
                     ELSE Served.page = Own
  /\ have_staged /\ staged_claims /\ pubStaged =>
       /\ staged.page = pub
       /\ staged_plan.kind = "appbank" => staged_image.page = pub
=============================================================================
