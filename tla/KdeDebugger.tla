----------------------------- MODULE KdeDebugger ----------------------------
(* The KDE debugger window (frontends/kde/debugger/DebuggerWindow.cpp).     *)
EXTENDS DebugFrontend

refreshDisasm == [disasm |-> {"cpu", "mem", "bps"}]
\* A field is left alone while it is being typed in.
refreshRegs(focus) ==
  IF focus = "field" THEN [regs |-> {"cpu"}] ELSE [regs |-> {"cpu"}, field |-> {"cpu"}]
refreshMem == [mem |-> {"mem"}]
refreshBps == [bps |-> {"bps"}]
refreshTrace == [trace |-> {"trace"}]
refreshVdp == [vdp |-> {"vdp"}, patterns |-> {"vdp", "bank"}]
refreshFujinet == [fuji |-> {"log", "cart"}]

refreshAll(focus) ==
  <<refreshDisasm, refreshRegs(focus), refreshMem, refreshBps, refreshTrace,
    refreshVdp, refreshFujinet, Button>>

\* What is refreshed once the machine was told to continue, and on a stop.
pauseContinue(focus) == refreshAll(focus)
onStopped(focus) == refreshAll(focus)

\* The toolbar's, the docks' and the fields' handlers.  The list of banks has
\* none.
cursorPositionChanged == Does("bps", <<refreshDisasm, refreshBps>>)
gotoEdit == Does(Nothing, <<refreshDisasm>>)
regEdit(focus) == <<refreshRegs(focus), refreshDisasm>>
bpEntry == Does("bps", <<refreshBps, refreshDisasm>>)
memAddr == Does(Nothing, <<refreshMem>>)
patBank == Does("bank", <<>>)
fujiClear == Does("log", <<refreshFujinet>>)
vramSubmit(bytes) == Does(IF bytes THEN "vdp" ELSE Nothing, <<refreshVdp>>)
vramPage == Does(Nothing, <<refreshVdp>>)

commands ==
  {cursorPositionChanged, gotoEdit, bpEntry, memAddr, patBank, fujiClear,
   vramSubmit(TRUE), vramSubmit(FALSE), vramPage}

visibilityChanged(page) == IF page = "fujinet" THEN <<refreshFujinet>> ELSE <<>>

\* Every 100 ms while the machine runs and the window is seen: the registers
\* always, the VDP's and the log's dock while they are raised.
tick(page, focus, visible, fifth) ==
  IF ~visible THEN <<>>
  ELSE (IF page \in {"vdp", "vram"} THEN <<refreshVdp>> ELSE <<>>)
       \o <<refreshRegs(focus)>>
       \o (IF fifth /\ page = "fujinet" THEN <<refreshFujinet>> ELSE <<>>)

\* A window that is built hears of stops before it reads anything.
constructor == <<Callback>> \o refreshAll("elsewhere")

\* Closing destroys the window; Qt drops what was queued for it.
destructor == [window |-> "none", queued |-> "dropped"]
=============================================================================
