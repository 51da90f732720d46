---------------------------- MODULE GnomeDebugger ---------------------------
(* The GNOME debugger window (frontends/gnome/debugger/dbg_window.c).       *)
EXTENDS DebugFrontend

refresh_disasm == [disasm |-> {"cpu", "mem", "bps"}]
\* A field is rewritten while it is being typed in.
refresh_regs == [regs |-> {"cpu"}, field |-> {"cpu"}]
refresh_mem == [mem |-> {"mem"}]
refresh_bps == [bps |-> {"bps"}]
refresh_trace == [trace |-> {"trace"}]
refresh_vdp == [vdp |-> {"vdp"}, patterns |-> {"vdp", "bank"}]
refresh_fujinet == [fuji |-> {"log", "cart"}]

\* Whether the machine is paused is asked before the views are refreshed.
refresh_all ==
  <<Button, refresh_disasm, refresh_regs, refresh_mem, refresh_bps,
    refresh_trace, refresh_vdp, refresh_fujinet>>

\* What is refreshed once the machine was told to continue, and on a stop.
on_pause_continue == refresh_all
stop_idle == refresh_all

on_disasm_click == Does("bps", <<refresh_disasm, refresh_bps>>)
on_goto == Does(Nothing, <<refresh_disasm>>)
on_mem_addr == Does(Nothing, <<refresh_mem>>)
on_bp_add == Does("bps", <<refresh_bps, refresh_disasm>>)
on_bp_clear_all == Does("bps", <<refresh_bps, refresh_disasm>>)
on_reg_activate == <<refresh_regs, refresh_disasm>>
\* An address alone scrolls the dump there; bytes after it are written.
on_vram_entry(bytes) == Does(IF bytes THEN "vdp" ELSE Nothing, <<refresh_vdp>>)
on_vram_page == Does(Nothing, <<refresh_vdp>>)
on_fuji_clear == Does("log", <<refresh_fujinet>>)
\* Nothing is connected to the list of banks.
pat_bank == Does("bank", <<>>)

commands ==
  {on_disasm_click, on_goto, on_mem_addr, on_bp_add, on_bp_clear_all,
   on_vram_entry(TRUE), on_vram_entry(FALSE), on_vram_page, on_fuji_clear, pat_bank}

on_switch_page(page) == IF page = "fujinet" THEN <<refresh_fujinet>> ELSE <<>>

\* Every 100 ms while the machine runs and the notebook is mapped; the log
\* on every fifth of these ticks.
tick_refresh(page, visible, fifth) ==
  IF ~visible THEN <<>>
  ELSE CASE page = "vdp" -> <<refresh_vdp>>
         [] page = "cpu" -> <<refresh_regs>>
         [] page = "fujinet" /\ fifth -> <<refresh_fujinet>>
         [] OTHER -> <<>>

\* A window that is built hears of stops before it reads anything.
coleco_debugger_show == <<Callback>> \o refresh_all

\* Closing destroys the window; stops that are queued keep pointing to it.
on_destroy == [window |-> "none", queued |-> "kept"]
=============================================================================
