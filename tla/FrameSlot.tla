----------------------------- MODULE FrameSlot ------------------------------
(***************************************************************************)
(* The frame slot of the machine host (core/coleco/host.c) and the         *)
(* push-driven display that watches it, the KDE frontend's FrameFeed       *)
(* (frontends/kde/FrameFeed.cpp) with its widget.                          *)
(*                                                                         *)
(* The machine thread publishes into a latest-wins slot and then calls the *)
(* registered callback with s_cb_lock held; the callback posts at most one *)
(* event; the GUI thread delivers the event and copies the newest frame.   *)
(* The windows that own the feeds come, go, hide and show in between.      *)
(***************************************************************************)
EXTENDS Naturals

CONSTANTS
  Picture,    \* what a frame may show
  Black,      \* the slot's first contents
  Feed,       \* the displays' feeds
  None,       \* no feed
  MaxSerial   \* the bound on s_frame_serial

ASSUME SlotAssumption ==
  /\ Black \in Picture
  /\ Feed \cap {None, "idle", "joining"} = {}
  /\ MaxSerial \in Nat

VARIABLES
  \* host.c
  s_frame, s_frame_serial, s_frame_valid, s_frame_cb,
  s_running, s_stop_req,
  \* each FrameFeed and its widget
  made,        \* the feeds that exist
  m_active, m_pending,
  posted,      \* deliver events of each feed in the GUI thread's queue
  m_serial, m_fb,
  \* the threads
  mt,          \* machine thread; s_cb_lock is held in "calling" and "posting"
  fb,          \* the frame being published
  ui           \* GUI thread: "idle", "joining", or the feed it copies for

slot    == <<s_frame, s_frame_serial, s_frame_valid>>
running == <<s_running, s_stop_req>>
feeds   == <<made, m_active, m_pending, posted>>
widget  == <<m_serial, m_fb>>
vars    == <<slot, s_frame_cb, running, feeds, widget, mt, fb, ui>>

TypeOK ==
  /\ s_frame \in Picture /\ s_frame_serial \in 0..MaxSerial
  /\ s_frame_valid \in BOOLEAN /\ s_frame_cb \in Feed \cup {None}
  /\ s_running \in BOOLEAN /\ s_stop_req \in BOOLEAN
  /\ made \subseteq Feed /\ m_active \subseteq Feed /\ m_pending \subseteq Feed
  /\ posted \in [Feed -> Nat]
  /\ m_serial \in [Feed -> 0..MaxSerial] /\ m_fb \in [Feed -> Picture]
  /\ mt \in {"none", "top", "publish", "notify", "calling", "posting"}
  /\ fb \in Picture
  /\ ui \in Feed \cup {"idle", "joining"}

Init ==
  /\ s_frame = Black /\ s_frame_serial = 0 /\ s_frame_valid = FALSE
  /\ s_frame_cb = None
  /\ s_running = FALSE /\ s_stop_req = FALSE
  /\ made = {} /\ m_active = {} /\ m_pending = {}
  /\ posted = [f \in Feed |-> 0]
  /\ m_serial = [f \in Feed |-> 0] /\ m_fb = [f \in Feed |-> Black]
  /\ mt = "none" /\ fb = Black /\ ui = "idle"

-----------------------------------------------------------------------------
(* The machine thread.                                                     *)

LoopEnds ==
  /\ mt = "top" /\ s_stop_req
  /\ mt' = "none"
  /\ UNCHANGED <<slot, s_frame_cb, running, feeds, widget, fb, ui>>

\* Run a frame.  (MaxSerial: no new picture is shown past the bound.)
RunFrame(p) ==
  /\ mt = "top" /\ ~s_stop_req
  /\ s_frame_serial < MaxSerial \/ (s_frame_valid /\ p = s_frame)
  /\ fb' = p
  /\ mt' = "publish"
  /\ UNCHANGED <<slot, s_frame_cb, running, feeds, widget, ui>>

frame_publish_NoCompare ==
  /\ mt = "publish"
  /\ s_frame' = fb /\ s_frame_valid' = TRUE
  /\ s_frame_serial' = s_frame_serial + 1
  /\ mt' = "notify"
  /\ UNCHANGED <<s_frame_cb, running, feeds, widget, fb, ui>>

\* frame_publish, with s_frame_lock held: a frame identical to the one in the
\* slot is not a new frame.
frame_publish ==
  /\ mt = "publish"
  /\ \/ /\ s_frame_valid /\ fb = s_frame
        /\ mt' = "top"
        /\ UNCHANGED slot
     \/ /\ ~s_frame_valid \/ fb # s_frame
        /\ s_frame' = fb /\ s_frame_valid' = TRUE
        /\ s_frame_serial' = s_frame_serial + 1
        /\ mt' = "notify"
  /\ UNCHANGED <<s_frame_cb, running, feeds, widget, fb, ui>>

\* Take s_cb_lock and see whether there is somebody to call.
Notify ==
  /\ mt = "notify"
  /\ mt' = IF s_frame_cb = None THEN "top" ELSE "calling"
  /\ UNCHANGED <<slot, s_frame_cb, running, feeds, widget, fb, ui>>

\* FrameFeed::onFrame: only whoever raises m_pending posts the event.
onFrame ==
  /\ mt = "calling"
  /\ m_pending' = m_pending \cup {s_frame_cb}
  /\ mt' = IF s_frame_cb \in m_pending THEN "top" ELSE "posting"
  /\ UNCHANGED <<slot, s_frame_cb, running, made, m_active, posted, widget, fb, ui>>

Post ==
  /\ mt = "posting"
  /\ posted' = [posted EXCEPT ![s_frame_cb] = @ + 1]
  /\ mt' = "top"
  /\ UNCHANGED <<slot, s_frame_cb, running, made, m_active, m_pending, widget, fb, ui>>

Machine ==
  \/ LoopEnds \/ (\E p \in Picture : RunFrame(p))
  \/ frame_publish \/ Notify \/ onFrame \/ Post

-----------------------------------------------------------------------------
(* The GUI thread: the feeds.                                              *)

CbLockFree == mt \notin {"calling", "posting"}

MakeFeed(f) ==
  /\ ui = "idle" /\ f \notin made
  /\ made' = made \cup {f}
  /\ m_pending' = m_pending \ {f}
  /\ m_serial' = [m_serial EXCEPT ![f] = 0]
  /\ UNCHANGED <<slot, s_frame_cb, running, m_active, posted, m_fb, mt, fb, ui>>

\* setActive(true) registers the callback and then draws whatever came while
\* nobody was looking.  A main window shows one display at a time.
SetActive(f) ==
  /\ ui = "idle" /\ f \in made /\ m_active = {}
  /\ CbLockFree
  /\ m_active' = {f} /\ s_frame_cb' = f
  /\ ui' = f
  /\ UNCHANGED <<slot, running, made, m_pending, posted, widget, mt, fb>>

SetInactive_DoesNotWait(f) ==
  /\ ui = "idle" /\ f \in m_active
  /\ m_active' = m_active \ {f} /\ s_frame_cb' = None
  /\ UNCHANGED <<slot, running, made, m_pending, posted, widget, mt, fb, ui>>

\* setActive(false) returns after any call in flight.
SetInactive(f) ==
  /\ ui = "idle" /\ f \in m_active
  /\ CbLockFree
  /\ m_active' = m_active \ {f} /\ s_frame_cb' = None
  /\ UNCHANGED <<slot, running, made, m_pending, posted, widget, mt, fb, ui>>

\* The destructor runs after the widget's own setActive(false); the queue
\* drops the events of an object that is gone.
DestroyFeed(f) ==
  /\ ui = "idle" /\ f \in made /\ f \notin m_active
  /\ made' = made \ {f}
  /\ posted' = [posted EXCEPT ![f] = 0]
  /\ UNCHANGED <<slot, s_frame_cb, running, m_active, m_pending, widget, mt, fb, ui>>

\* FrameFeed::deliver lowers m_pending first ...
deliver(f) ==
  /\ ui = "idle" /\ posted[f] > 0
  /\ posted' = [posted EXCEPT ![f] = @ - 1]
  /\ m_pending' = m_pending \ {f}
  /\ ui' = f
  /\ UNCHANGED <<slot, s_frame_cb, running, made, m_active, widget, mt, fb>>

\* ... and then the widget, if the feed is active, copies by serial:
\* coleco_host_frame_copy, with s_frame_lock held.
Copy(f) ==
  /\ ui = f
  /\ ui' = "idle"
  /\ IF f \in m_active /\ m_serial[f] # s_frame_serial
     THEN /\ m_serial' = [m_serial EXCEPT ![f] = s_frame_serial]
          /\ m_fb' = [m_fb EXCEPT ![f] = s_frame]
     ELSE UNCHANGED widget
  /\ UNCHANGED <<slot, s_frame_cb, running, feeds, mt, fb>>

-----------------------------------------------------------------------------
(* The GUI thread: starting and stopping the machine.                      *)

coleco_host_start ==
  /\ ui = "idle" /\ ~s_running
  /\ s_frame_valid' = FALSE
  /\ s_stop_req' = FALSE /\ s_running' = TRUE
  /\ mt' = "top"
  /\ UNCHANGED <<s_frame, s_frame_serial, s_frame_cb, feeds, widget, fb, ui>>

StopBegin ==
  /\ ui = "idle" /\ s_running
  /\ s_stop_req' = TRUE
  /\ ui' = "joining"
  /\ UNCHANGED <<slot, s_frame_cb, s_running, feeds, widget, mt, fb>>

StopJoined ==
  /\ ui = "joining" /\ mt = "none"
  /\ s_running' = FALSE
  /\ ui' = "idle"
  /\ UNCHANGED <<slot, s_frame_cb, s_stop_req, feeds, widget, mt, fb>>

Gui ==
  \/ \E f \in Feed : \/ MakeFeed(f) \/ SetActive(f) \/ SetInactive(f)
                     \/ DestroyFeed(f) \/ deliver(f) \/ Copy(f)
  \/ coleco_host_start \/ StopBegin \/ StopJoined

Next == Machine \/ Gui

(* The machine thread runs; the GUI thread finishes what it is doing and    *)
(* takes its events in the order they were queued, so that an event is not  *)
(* passed over for ever.                                                   *)
Fairness ==
  /\ WF_vars(LoopEnds) /\ WF_vars(frame_publish) /\ WF_vars(Notify)
  /\ WF_vars(onFrame) /\ WF_vars(Post) /\ WF_vars(StopJoined)
  /\ \A f \in Feed : WF_vars(Copy(f)) /\ SF_vars(deliver(f))

Spec == Init /\ [][Next]_vars /\ Fairness

-----------------------------------------------------------------------------
(* What must hold.                                                         *)

\* The machine thread never calls into a feed that has been destroyed: when
\* set_frame_callback(NULL) returns, no call is in flight and none follows.
CallbackContextLives ==
  /\ s_frame_cb # None => s_frame_cb \in made
  /\ mt \in {"calling", "posting"} => s_frame_cb \in made

\* No frame is lost between the slot and an active display: when the machine
\* thread has nothing left to announce and the GUI thread nothing left to
\* deliver, the display has the newest frame.
NothingMissed ==
  \A f \in m_active :
    ui = "idle" /\ posted[f] = 0 /\ mt \notin {"notify", "calling", "posting"}
      => m_serial[f] = s_frame_serial
=============================================================================
