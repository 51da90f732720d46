----------------------------- MODULE MacDebugger ----------------------------
(* The macOS debugger window (frontends/macos/debugger/DebuggerWindow.m).   *)
EXTENDS DebugFrontend

refreshDisasm == [disasm |-> {"cpu", "mem", "bps"}]
\* A field is left alone while it is being typed in.
refreshRegs(focus) ==
  IF focus = "field" THEN [regs |-> {"cpu"}] ELSE [regs |-> {"cpu"}, field |-> {"cpu"}]
refreshMem == [mem |-> {"mem"}]
refreshBps == [bps |-> {"bps"}]
refreshTrace == [trace |-> {"trace"}]
refreshVdp == [vdp |-> {"vdp"}, patterns |-> {"vdp", "bank"}]
refreshFujinet == [fuji |-> {"log", "cart"}]

refreshAll(focus) ==
  <<refreshDisasm, refreshRegs(focus), refreshMem, refreshBps, refreshTrace,
    refreshVdp, refreshFujinet, Button>>

\* What is refreshed once the machine was told to continue, and on a stop.
pauseContinue(focus) == refreshAll(focus)
onStopped(focus) == refreshAll(focus)

onToggleAddr == Does("bps", <<refreshDisasm, refreshBps>>)
gotoAddr == Does(Nothing, <<refreshDisasm>>)
gotoMem == Does(Nothing, <<refreshMem>>)
addBreakpoint == Does("bps", <<refreshBps, refreshDisasm>>)
clearBreakpoints == Does("bps", <<refreshBps, refreshDisasm>>)
applyRegister(focus) == <<refreshRegs(focus), refreshDisasm>>
submitVram(bytes) == Does(IF bytes THEN "vdp" ELSE Nothing, <<refreshVdp>>)
vramPage == Does(Nothing, <<refreshVdp>>)
fujiClear == Does("log", <<refreshFujinet>>)
\* Nothing is the target of the list of banks.
patBank == Does("bank", <<>>)

commands ==
  {onToggleAddr, gotoAddr, gotoMem, addBreakpoint, clearBreakpoints,
   submitVram(TRUE), submitVram(FALSE), vramPage, fujiClear, patBank}

didSelectTabViewItem(page) == IF page = "fujinet" THEN <<refreshFujinet>> ELSE <<>>

\* Every 100 ms while the machine runs, whatever is shown.
onTick(page, focus, fifth) ==
  <<refreshVdp, refreshRegs(focus)>>
  \o (IF fifth /\ page = "fujinet" THEN <<refreshFujinet>> ELSE <<>>)

\* A window that is built hears of stops before it reads anything.
initWithSession == <<Callback>> \o refreshAll("elsewhere")

\* Closing only orders the window out; its controller lives as long as the
\* program.
closed == [window |-> "hidden", queued |-> "kept"]
=============================================================================
