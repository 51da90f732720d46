----------------------------- MODULE WinDebugger ----------------------------
(* The Windows debugger window (frontends/windows/debugger/dbg_window.c).   *)
EXTENDS DebugFrontend

refresh_disasm == [disasm |-> {"cpu", "mem", "bps"}]
\* A field is left alone while it is being typed in.
refresh_regs(focus) ==
  IF focus = "field" THEN [regs |-> {"cpu"}] ELSE [regs |-> {"cpu"}, field |-> {"cpu"}]
refresh_mem == [mem |-> {"mem"}]
refresh_bps == [bps |-> {"bps"}]
refresh_trace == [trace |-> {"trace"}]
refresh_vdp == [vdp |-> {"vdp"}, patterns |-> {"vdp", "bank"}]
refresh_fujinet == [fuji |-> {"log", "cart"}]

refresh_all(focus) ==
  <<refresh_disasm, refresh_regs(focus), refresh_mem, refresh_bps,
    refresh_trace, refresh_vdp, refresh_fujinet, Button>>

\* What is refreshed once the machine was told to continue, and on a stop.
toggle_pause(focus) == refresh_all(focus)
on_stopped(focus) == refresh_all(focus)

apply_register(focus) == <<refresh_regs(focus), refresh_disasm>>

\* Enter in a field: an address to go to or to break at, bytes for the VDP.
on_accept ==
  {Does(Nothing, <<refresh_disasm>>), Does(Nothing, <<refresh_mem>>),
   Does("bps", <<refresh_bps, refresh_disasm>>),
   Does("vdp", <<refresh_vdp>>), Does(Nothing, <<refresh_vdp>>)}
disasm_subclass == Does("bps", <<refresh_disasm, refresh_bps>>)
\* The buttons, and the list of banks.
dbg_command ==
  {Does("bps", <<refresh_bps, refresh_disasm>>), Does("bank", <<refresh_vdp>>),
   Does(Nothing, <<refresh_vdp>>), Does("log", <<refresh_fujinet>>)}
commands == on_accept \cup dbg_command \cup {disasm_subclass}

show_page(page) == IF page = "fujinet" THEN <<refresh_fujinet>> ELSE <<>>

\* Every 100 ms while the machine runs, also while the window is hidden.
dbg_timer(page, focus, fifth) ==
  <<refresh_regs(focus)>>
  \o (IF page \in {"vdp", "vram"} THEN <<refresh_vdp>> ELSE <<>>)
  \o (IF fifth /\ page = "fujinet" THEN <<refresh_fujinet>> ELSE <<>>)

\* A window that is built hears of stops before it reads anything.
coleco_debugger_show == <<Callback>> \o refresh_all("elsewhere")

\* Closing hides the window; it goes on hearing of stops.
dbg_close == [window |-> "hidden", queued |-> "kept"]
=============================================================================
