------------------------- MODULE DebugWindow_proofs -------------------------
(***************************************************************************)
(* The debugger's windows, for any bound on the stops that wait and any    *)
(* pages: while the machine is at the break each window shows it           *)
(* (BreakIsShown of DebugWindow).                                          *)
(***************************************************************************)
EXTENDS DebugWindow, SequenceTheorems, TLAPS

\* A refresh rebuilds each of its views from all that the view shows.
Whole(x) == \A v \in View : v \in DOMAIN x => x[v] = Needs(v)

\* It will rebuild a view.
Covers(t, v) == \E i \in 1..Len(t) : v \in DOMAIN t[i]

-----------------------------------------------------------------------------
(* The refreshers, and the lists the four windows are described with.      *)

Disasm  == [disasm |-> {"cpu", "mem", "bps"}]
Regs    == [regs |-> {"cpu"}]
AllRegs == [regs |-> {"cpu"}, field |-> {"cpu"}]
Mem     == [mem |-> {"mem"}]
Bps     == [bps |-> {"bps"}]
Trace   == [trace |-> {"trace"}]
Vdp     == [vdp |-> {"vdp"}, patterns |-> {"vdp", "bank"}]
Fujinet == [fuji |-> {"log", "cart"}]

Refresher == {Disasm, Regs, AllRegs, Mem, Bps, Trace, Vdp, Fujinet, Button, Callback}

LEMMA Domains ==
  /\ DOMAIN Disasm = {"disasm"} /\ DOMAIN Regs = {"regs"} /\ DOMAIN AllRegs = {"regs", "field"}
  /\ DOMAIN Mem = {"mem"} /\ DOMAIN Bps = {"bps"} /\ DOMAIN Trace = {"trace"}
  /\ DOMAIN Vdp = {"vdp", "patterns"} /\ DOMAIN Fujinet = {"fuji"}
  /\ DOMAIN Button = {"button"} /\ DOMAIN Callback = {"callback"}
BY DEF Disasm, Regs, AllRegs, Mem, Bps, Trace, Vdp, Fujinet, Button, Callback

LEMMA AreWhole == \A x \in Refresher : Whole(x)
<1>1. Whole(Disasm) /\ Whole(Mem) /\ Whole(Bps) /\ Whole(Trace) /\ Whole(Fujinet)
  BY Domains DEF Whole, Needs, Disasm, Mem, Bps, Trace, Fujinet
<1>2. Whole(Regs)
  BY Domains DEF Whole, Needs, Regs
<1>3. Whole(AllRegs)
  BY Domains DEF Whole, Needs, AllRegs
<1>4. Whole(Vdp)
  BY Domains, SMTT(30) DEF Whole, Needs, Vdp
<1>5. Whole(Button) /\ Whole(Callback)
  BY Domains DEF Whole, View
<1> QED  BY <1>1, <1>2, <1>3, <1>4, <1>5 DEF Refresher

\* The two forms of a refresh of everything.
AllFirst == <<Button, Disasm, AllRegs, Mem, Bps, Trace, Vdp, Fujinet>>
AllLast(regs) == <<Disasm, regs, Mem, Bps, Trace, Vdp, Fujinet, Button>>

LEMMA AllCover ==
  /\ AllFirst \in Seq(Refresher) /\ \A v \in View : Covers(AllFirst, v)
  /\ \A regs \in {Regs, AllRegs} :
       AllLast(regs) \in Seq(Refresher) /\ \A v \in View \ {"field"} : Covers(AllLast(regs), v)
<1>1. /\ AllFirst \in Seq(Refresher) /\ Len(AllFirst) = 8
      /\ AllFirst[2] = Disasm /\ AllFirst[3] = AllRegs /\ AllFirst[4] = Mem /\ AllFirst[5] = Bps
      /\ AllFirst[6] = Trace /\ AllFirst[7] = Vdp /\ AllFirst[8] = Fujinet
  BY DEF AllFirst, Refresher
<1>2. ASSUME NEW v \in View PROVE Covers(AllFirst, v)
  BY <1>1, Domains DEF Covers, View
<1>3. ASSUME NEW regs \in {Regs, AllRegs}
      PROVE  /\ AllLast(regs) \in Seq(Refresher) /\ Len(AllLast(regs)) = 8
             /\ AllLast(regs)[1] = Disasm /\ AllLast(regs)[2] = regs /\ AllLast(regs)[3] = Mem
             /\ AllLast(regs)[4] = Bps /\ AllLast(regs)[5] = Trace /\ AllLast(regs)[6] = Vdp
             /\ AllLast(regs)[7] = Fujinet /\ "regs" \in DOMAIN regs
  BY Domains DEF AllLast, Refresher
<1>4. ASSUME NEW regs \in {Regs, AllRegs}, NEW v \in View \ {"field"}
      PROVE  Covers(AllLast(regs), v)
  <2> DEFINE t == AllLast(regs)
  <2>1. /\ Len(t) = 8 /\ t[1] = Disasm /\ t[2] = regs /\ t[3] = Mem /\ t[4] = Bps /\ t[5] = Trace
        /\ t[6] = Vdp /\ t[7] = Fujinet /\ "regs" \in DOMAIN regs
    BY <1>3
  <2> HIDE DEF t
  <2>2. \E i \in 1..Len(t) : v \in DOMAIN t[i]
    BY <2>1, Domains DEF View
  <2> QED  BY <2>2 DEF Covers, t
<1> QED  BY <1>1, <1>2, <1>3, <1>4

LEMMA FrontendFacts ==
  ASSUME frontend \in Frontend
  PROVE  /\ frontend \in {"gnome", "kde", "macos", "windows"}
         /\ "field" \in Promised => frontend = "gnome"
         /\ "patterns" \in Promised => frontend = "windows"
         /\ Promised \subseteq View
BY WindowAssumption DEF Promised

\* What a stop and a resume refresh is everything that is promised.
LEMMA AfterCovers ==
  ASSUME frontend \in Frontend
  PROVE  /\ AfterStop \in Seq(Refresher) /\ \A v \in Promised : Covers(AfterStop, v)
         /\ AfterContinue \in Seq(Refresher) /\ \A v \in Promised : Covers(AfterContinue, v)
<1>1. CASE frontend = "gnome"
  <2>1. AfterStop = AllFirst /\ AfterContinue = AllFirst
    BY <1>1 DEF AfterStop, AfterContinue, G!stop_idle, G!on_pause_continue, G!refresh_all,
       G!refresh_disasm, G!refresh_regs, G!refresh_mem, G!refresh_bps, G!refresh_trace,
       G!refresh_vdp, G!refresh_fujinet, AllFirst, Disasm, AllRegs, Mem, Bps, Trace, Vdp, Fujinet,
       G!Button, Button
  <2> QED  BY <2>1, AllCover, FrontendFacts
<1>2. CASE frontend # "gnome"
  <2>1. \E regs \in {Regs, AllRegs} : AfterStop = AllLast(regs) /\ AfterContinue = AllLast(regs)
    <3>1. CASE frontend = "kde"
      BY <3>1 DEF AfterStop, AfterContinue, K!onStopped, K!pauseContinue, K!refreshAll,
         K!refreshDisasm, K!refreshRegs, K!refreshMem, K!refreshBps, K!refreshTrace,
         K!refreshVdp, K!refreshFujinet, AllLast, Disasm, Regs, AllRegs, Mem, Bps, Trace, Vdp,
         Fujinet, K!Button, Button
    <3>2. CASE frontend = "macos"
      BY <3>2 DEF AfterStop, AfterContinue, M!onStopped, M!pauseContinue, M!refreshAll,
         M!refreshDisasm, M!refreshRegs, M!refreshMem, M!refreshBps, M!refreshTrace,
         M!refreshVdp, M!refreshFujinet, AllLast, Disasm, Regs, AllRegs, Mem, Bps, Trace, Vdp,
         Fujinet, M!Button, Button
    <3>3. CASE frontend = "windows"
      BY <3>3 DEF AfterStop, AfterContinue, W!on_stopped, W!toggle_pause, W!refresh_all,
         W!refresh_disasm, W!refresh_regs, W!refresh_mem, W!refresh_bps, W!refresh_trace,
         W!refresh_vdp, W!refresh_fujinet, AllLast, Disasm, Regs, AllRegs, Mem, Bps, Trace, Vdp,
         Fujinet, W!Button, Button
    <3> QED  BY <1>2, <3>1, <3>2, <3>3, FrontendFacts
  <2> QED  BY <1>2, <2>1, AllCover, FrontendFacts
<1> QED  BY <1>1, <1>2

\* A window that is built registers first and refreshes everything then.
Registers(t) ==
  t # <<>> /\ Head(t) = Callback /\ \A v \in Promised : Covers(Tail(t), v)

LEMMA RegistersFirst ==
  ASSUME NEW t \in Seq(Refresher), \A v \in Promised : Covers(t, v)
  PROVE  <<Callback>> \o t \in Seq(Refresher) /\ Registers(<<Callback>> \o t)
<1>1. Callback \in Refresher
  BY DEF Refresher
<1>2. ASSUME NEW x \in Refresher
      PROVE  /\ <<x>> \o t \in Seq(Refresher) /\ <<x>> \o t # <<>>
             /\ Head(<<x>> \o t) = x /\ Tail(<<x>> \o t) = t
  <2> HIDE DEF Refresher
  <2> DEFINE u == <<x>> \o t
  <2>1. <<x>> \in Seq(Refresher) /\ Len(<<x>>) = 1 /\ <<x>>[1] = x /\ Len(t) \in Nat
    OBVIOUS
  <2>2. /\ u \in Seq(Refresher) /\ Len(u) = 1 + Len(t)
        /\ \A i \in 1..(1 + Len(t)) : u[i] = IF i <= 1 THEN <<x>>[i] ELSE t[i - 1]
    BY <2>1, ConcatProperties
  <2> HIDE DEF u
  <2>3. u # <<>> /\ Head(u) = x
    BY <2>1, <2>2
  <2>4. Tail(u) \in Seq(Refresher) /\ Len(Tail(u)) = Len(t)
        /\ \A i \in 1..Len(t) : Tail(u)[i] = t[i]
    BY <2>1, <2>2, <2>3, HeadTailProperties
  <2>5. Tail(u) = t
    BY <2>4, SeqEqual
  <2> QED  BY <2>2, <2>3, <2>5 DEF u
<1> QED  BY <1>1, <1>2 DEF Registers

LEMMA BuiltFacts ==
  ASSUME frontend \in Frontend
  PROVE  Built \in Seq(Refresher) /\ Registers(Built)
<1>1. \E t \in Seq(Refresher) : Built = <<Callback>> \o t /\ \A v \in Promised : Covers(t, v)
  <2>1. CASE frontend = "gnome"
    <3>1. Built = <<Callback>> \o AllFirst
      BY <2>1 DEF Built, G!coleco_debugger_show, G!refresh_all,
         G!refresh_disasm, G!refresh_regs, G!refresh_mem, G!refresh_bps, G!refresh_trace,
         G!refresh_vdp, G!refresh_fujinet, AllFirst, Disasm, AllRegs, Mem, Bps, Trace, Vdp, Fujinet,
         G!Button, Button, G!Callback, Callback
    <3> QED  BY <3>1, AllCover, FrontendFacts
  <2>2. CASE frontend # "gnome"
    <3>1. Built = <<Callback>> \o AllLast(AllRegs)
      <4>1. CASE frontend = "kde"
        BY <4>1 DEF Built, K!constructor, K!refreshAll,
           K!refreshDisasm, K!refreshRegs, K!refreshMem, K!refreshBps, K!refreshTrace,
           K!refreshVdp, K!refreshFujinet, AllLast, Disasm, Regs, AllRegs, Mem, Bps, Trace, Vdp,
           Fujinet, K!Button, Button, K!Callback, Callback
      <4>2. CASE frontend = "macos"
        BY <4>2 DEF Built, M!initWithSession, M!refreshAll,
           M!refreshDisasm, M!refreshRegs, M!refreshMem, M!refreshBps, M!refreshTrace,
           M!refreshVdp, M!refreshFujinet, AllLast, Disasm, Regs, AllRegs, Mem, Bps, Trace, Vdp,
           Fujinet, M!Button, Button, M!Callback, Callback
      <4>3. CASE frontend = "windows"
        BY <4>3 DEF Built, W!coleco_debugger_show, W!refresh_all,
           W!refresh_disasm, W!refresh_regs, W!refresh_mem, W!refresh_bps, W!refresh_trace,
           W!refresh_vdp, W!refresh_fujinet, AllLast, Disasm, Regs, AllRegs, Mem, Bps, Trace, Vdp,
           Fujinet, W!Button, Button, W!Callback, Callback
      <4> QED  BY <2>2, <4>1, <4>2, <4>3, FrontendFacts
    <3> QED  BY <2>2, <3>1, AllCover, FrontendFacts
  <2> QED  BY <2>1, <2>2
<1> QED  BY <1>1, RegistersFirst

\* A command refreshes what is promised of all that it edits.
Follows(e, t) ==
  /\ t \in Seq(Refresher)
  /\ \A v \in Promised : e \in Needs(v) => Covers(t, v)

LEMMA CommandShapes ==
  ASSUME frontend \in Frontend, NEW c \in Commands
  PROVE  \/ c \in {Does("bps", <<Disasm, Bps>>), Does("bps", <<Bps, Disasm>>),
                   Does(Nothing, <<Disasm>>), Does(Nothing, <<Mem>>), Does(Nothing, <<Vdp>>),
                   Does("vdp", <<Vdp>>), Does("log", <<Fujinet>>), Does("bank", <<Vdp>>)}
         \/ frontend # "windows" /\ c = Does("bank", <<>>)
<1>1. CASE frontend = "gnome"
  BY <1>1 DEF Commands, G!commands, G!on_disasm_click, G!on_goto, G!on_mem_addr, G!on_bp_add,
     G!on_bp_clear_all, G!on_vram_entry, G!on_vram_page, G!on_fuji_clear, G!pat_bank,
     G!refresh_disasm, G!refresh_mem, G!refresh_bps, G!refresh_vdp, G!refresh_fujinet,
     G!Does, G!Nothing, Does, Nothing, Disasm, Bps, Mem, Vdp, Fujinet
<1>2. CASE frontend = "kde"
  BY <1>2 DEF Commands, K!commands, K!cursorPositionChanged, K!gotoEdit, K!bpEntry, K!memAddr,
     K!patBank, K!fujiClear, K!vramSubmit, K!vramPage,
     K!refreshDisasm, K!refreshMem, K!refreshBps, K!refreshVdp, K!refreshFujinet,
     K!Does, K!Nothing, Does, Nothing, Disasm, Bps, Mem, Vdp, Fujinet
<1>3. CASE frontend = "macos"
  BY <1>3 DEF Commands, M!commands, M!onToggleAddr, M!gotoAddr, M!gotoMem, M!addBreakpoint,
     M!clearBreakpoints, M!submitVram, M!vramPage, M!fujiClear, M!patBank,
     M!refreshDisasm, M!refreshMem, M!refreshBps, M!refreshVdp, M!refreshFujinet,
     M!Does, M!Nothing, Does, Nothing, Disasm, Bps, Mem, Vdp, Fujinet
<1>4. CASE frontend = "windows"
  BY <1>4 DEF Commands, W!commands, W!on_accept, W!dbg_command, W!disasm_subclass,
     W!refresh_disasm, W!refresh_mem, W!refresh_bps, W!refresh_vdp, W!refresh_fujinet,
     W!Does, W!Nothing, Does, Nothing, Disasm, Bps, Mem, Vdp, Fujinet
<1> QED  BY <1>1, <1>2, <1>3, <1>4, FrontendFacts

\* Short lists of refreshers, and what they rebuild.
LEMMA Lists ==
  /\ <<>> \in Seq(Refresher)
  /\ \A x \in Refresher :
       <<x>> \in Seq(Refresher) /\ \A v \in DOMAIN x : Covers(<<x>>, v)
  /\ \A x, y \in Refresher :
       <<x, y>> \in Seq(Refresher) /\ \A v \in (DOMAIN x) \cup (DOMAIN y) : Covers(<<x, y>>, v)
<1> HIDE DEF Refresher
<1>1. ASSUME NEW x \in Refresher, NEW v \in DOMAIN x
      PROVE  Covers(<<x>>, v)
  BY DEF Covers
<1>2. ASSUME NEW x \in Refresher, NEW y \in Refresher, NEW v \in (DOMAIN x) \cup (DOMAIN y)
      PROVE  Covers(<<x, y>>, v)
  <2> DEFINE t == <<x, y>>
  <2>1. Len(t) = 2 /\ t[1] = x /\ t[2] = y
    OBVIOUS
  <2> HIDE DEF t
  <2>2. \E i \in 1..Len(t) : v \in DOMAIN t[i]
    BY <2>1
  <2> QED  BY <2>2 DEF Covers, t
<1> QED  BY <1>1, <1>2

LEMMA CommandFacts ==
  ASSUME frontend \in Frontend, NEW c \in Commands
  PROVE  Follows(c.edits, c.then)
<1>0. {Disasm, Mem, Bps, Vdp, Fujinet} \subseteq Refresher
  BY DEF Refresher
<1>1. /\ <<Disasm, Bps>> \in Seq(Refresher) /\ <<Bps, Disasm>> \in Seq(Refresher)
      /\ \A v \in {"disasm", "bps"} : Covers(<<Disasm, Bps>>, v) /\ Covers(<<Bps, Disasm>>, v)
  BY <1>0, Domains, Lists
<1>2. /\ <<Disasm>> \in Seq(Refresher) /\ <<Mem>> \in Seq(Refresher) /\ <<>> \in Seq(Refresher)
      /\ <<Vdp>> \in Seq(Refresher) /\ Covers(<<Vdp>>, "vdp") /\ Covers(<<Vdp>>, "patterns")
      /\ <<Fujinet>> \in Seq(Refresher) /\ Covers(<<Fujinet>>, "fuji")
  BY <1>0, Domains, Lists
<1>3. \A v \in View :
        /\ "bps" \in Needs(v) => v \in {"disasm", "bps"}
        /\ "vdp" \in Needs(v) => v \in {"vdp", "patterns"}
        /\ "bank" \in Needs(v) => v = "patterns"
        /\ "log" \in Needs(v) => v = "fuji"
        /\ Nothing \notin Needs(v)
  BY DEF View, Needs, Nothing
<1>4. ASSUME NEW e, NEW t, c = Does(e, t), Follows(e, t)
      PROVE  Follows(c.edits, c.then)
  <2>1. c.edits = e /\ c.then = t
    BY <1>4 DEF Does
  <2> QED  BY <1>4, <2>1
<1>5. Follows("bps", <<Disasm, Bps>>) /\ Follows("bps", <<Bps, Disasm>>)
  BY <1>1, <1>3, FrontendFacts DEF Follows
<1>6. Follows(Nothing, <<Disasm>>) /\ Follows(Nothing, <<Mem>>) /\ Follows(Nothing, <<Vdp>>)
  BY <1>2, <1>3, FrontendFacts DEF Follows
<1>7. Follows("vdp", <<Vdp>>) /\ Follows("bank", <<Vdp>>) /\ Follows("log", <<Fujinet>>)
  BY <1>2, <1>3, FrontendFacts DEF Follows
<1>8. frontend # "windows" => Follows("bank", <<>>)
  BY <1>2, <1>3, FrontendFacts DEF Follows
<1> QED  BY <1>4, <1>5, <1>6, <1>7, <1>8, CommandShapes

LEMMA RegisterFacts ==
  ASSUME frontend \in Frontend
  PROVE  Follows("cpu", RegisterApplied)
<1>1. \/ RegisterApplied = <<AllRegs, Disasm>>
      \/ RegisterApplied = <<Regs, Disasm>> /\ frontend # "gnome"
  BY FrontendFacts
     DEF RegisterApplied, G!on_reg_activate, G!refresh_regs, G!refresh_disasm,
         K!regEdit, K!refreshRegs, K!refreshDisasm, M!applyRegister, M!refreshRegs,
         M!refreshDisasm, W!apply_register, W!refresh_regs, W!refresh_disasm,
         AllRegs, Regs, Disasm
<1>2. /\ <<AllRegs, Disasm>> \in Seq(Refresher) /\ <<Regs, Disasm>> \in Seq(Refresher)
      /\ \A v \in {"regs", "field", "disasm"} : Covers(<<AllRegs, Disasm>>, v)
      /\ \A v \in {"regs", "disasm"} : Covers(<<Regs, Disasm>>, v)
  <2>1. {AllRegs, Regs, Disasm} \subseteq Refresher
    BY DEF Refresher
  <2> QED  BY <2>1, Domains, Lists
<1>3. \A v \in View : "cpu" \in Needs(v) => v \in {"regs", "field", "disasm"}
  BY DEF View, Needs
<1> QED  BY <1>1, <1>2, <1>3, FrontendFacts DEF Follows

LEMMA PageFacts ==
  ASSUME frontend \in Frontend, NEW p
  PROVE  PageShown(p) \in Seq(Refresher)
<1>1. PageShown(p) \in {<<Fujinet>>, <<>>}
  BY FrontendFacts
     DEF PageShown, G!on_switch_page, K!visibilityChanged, M!didSelectTabViewItem, W!show_page,
         G!refresh_fujinet, K!refreshFujinet, M!refreshFujinet, W!refresh_fujinet, Fujinet
<1>2. Fujinet \in Refresher
  BY DEF Refresher
<1> QED  BY <1>1, <1>2, Lists

LEMMA TickFacts ==
  ASSUME frontend \in Frontend, NEW fifth \in BOOLEAN
  PROVE  OnTick(fifth) \in Seq(Refresher)
<1> DEFINE Some == {<<>>, <<Vdp>>, <<Regs>>, <<AllRegs>>, <<Fujinet>>, <<Vdp, Regs>>, <<Vdp, AllRegs>>}
<1>1. \E a, b, c \in Some : OnTick(fifth) = (a \o b) \o c \/ OnTick(fifth) = a \o b \/ OnTick(fifth) = a
  <2>1. CASE frontend = "gnome"
    <3>1. OnTick(fifth) \in Some
      BY <2>1 DEF OnTick, G!tick_refresh, G!refresh_vdp, G!refresh_regs, G!refresh_fujinet,
                  Vdp, AllRegs, Fujinet
    <3> QED  BY <3>1
  <2>2. CASE frontend = "kde"
    BY <2>2 DEF OnTick, K!tick, K!refreshVdp, K!refreshRegs, K!refreshFujinet,
                Vdp, Regs, AllRegs, Fujinet
  <2>3. CASE frontend = "macos"
    BY <2>3 DEF OnTick, M!onTick, M!refreshVdp, M!refreshRegs, M!refreshFujinet,
                Vdp, Regs, AllRegs, Fujinet
  <2>4. CASE frontend = "windows"
    BY <2>4 DEF OnTick, W!dbg_timer, W!refresh_vdp, W!refresh_regs, W!refresh_fujinet,
                Vdp, Regs, AllRegs, Fujinet
  <2> QED  BY <2>1, <2>2, <2>3, <2>4, FrontendFacts
<1>2. \A a \in Some : a \in Seq(Refresher)
  <2>1. {Vdp, Regs, AllRegs, Fujinet} \subseteq Refresher
    BY DEF Refresher
  <2> QED  BY <2>1, Lists, ZenonT(40)
<1> HIDE DEF Some
<1> QED  BY <1>1, <1>2, ConcatProperties

\* Taking the first of a list, and putting another list before one.
LEMMA Goes ==
  ASSUME NEW t \in Seq(Refresher), t # <<>>
  PROVE  /\ Head(t) \in Refresher /\ Tail(t) \in Seq(Refresher)
         /\ \A v : Covers(t, v) => v \in DOMAIN Head(t) \/ Covers(Tail(t), v)
<1> HIDE DEF Refresher
<1>1. /\ Head(t) \in Refresher /\ Tail(t) \in Seq(Refresher) /\ Head(t) = t[1]
      /\ Len(Tail(t)) = Len(t) - 1 /\ Len(t) \in Nat
      /\ \A i \in 1..(Len(t) - 1) : Tail(t)[i] = t[i + 1]
  BY HeadTailProperties
<1>2. ASSUME NEW v, NEW i \in 1..Len(t), v \in DOMAIN t[i], v \notin DOMAIN Head(t)
      PROVE  Covers(Tail(t), v)
  <2>1. i - 1 \in 1..(Len(t) - 1) /\ Tail(t)[i - 1] = t[i]
    BY <1>1, <1>2
  <2> QED  BY <1>1, <1>2, <2>1 DEF Covers
<1> QED  BY <1>1, <1>2 DEF Covers

LEMMA Before ==
  ASSUME NEW s \in Seq(Refresher), NEW t \in Seq(Refresher)
  PROVE  s \o t \in Seq(Refresher) /\ \A v : Covers(s, v) \/ Covers(t, v) => Covers(s \o t, v)
<1> HIDE DEF Refresher
<1> DEFINE u == s \o t
<1>1. /\ u \in Seq(Refresher) /\ Len(u) = Len(s) + Len(t) /\ Len(s) \in Nat /\ Len(t) \in Nat
      /\ \A i \in 1..(Len(s) + Len(t)) : u[i] = IF i <= Len(s) THEN s[i] ELSE t[i - Len(s)]
  BY ConcatProperties
<1> HIDE DEF u
<1>2. ASSUME NEW v, NEW i \in 1..Len(s), v \in DOMAIN s[i]
      PROVE  Covers(u, v)
  <2>1. i \in 1..Len(u) /\ u[i] = s[i]
    BY <1>1
  <2> QED  BY <1>2, <2>1 DEF Covers
<1>3. ASSUME NEW v, NEW i \in 1..Len(t), v \in DOMAIN t[i]
      PROVE  Covers(u, v)
  <2>0. /\ Len(s) + i \in 1..(Len(s) + Len(t)) /\ ~(Len(s) + i <= Len(s))
        /\ (Len(s) + i) - Len(s) = i
    BY <1>1
  <2>1. Len(s) + i \in 1..Len(u) /\ u[Len(s) + i] = t[i]
    BY <1>1, <2>0
  <2> QED  BY <1>3, <2>1 DEF Covers
<1>4. \A v : Covers(s, v) \/ Covers(t, v) => Covers(u, v)
  BY <1>2, <1>3 DEF Covers
<1> QED  BY <1>1, <1>4 DEF u

-----------------------------------------------------------------------------
(* The invariant.                                                          *)

\* Whatever is promised is shown, or is still to be refreshed.
Fresh == \A v \in Promised : shown[v] = Needs(v) \/ Covers(todo, v)

\* A window that is registered and has no stop on its way has seen the stop that the
\* machine stands at, if it stands; one that is not has all its refreshes before it.
BreakInv ==
  /\ frontend \in Frontend /\ posted \in Nat
  /\ todo \in Seq(Refresher)
  /\ open = "none" => ~stop_cb /\ todo = <<>>
  /\ open # "none" /\ ~stop_cb => Registers(todo)
  /\ stop_cb /\ posted = 0 /\ machine \in {"loop", "parked"} => Fresh

LEMMA BreakInit == DbgInit => BreakInv
<1> SUFFICES ASSUME DbgInit PROVE BreakInv
  OBVIOUS
<1>1. todo \in Seq(Refresher)
  BY Lists DEF DbgInit
<1> QED  BY <1>1 DEF DbgInit, BreakInv

\* What the windows are described with depends on the frontend only.
LEMMA SameFrontend ==
  ASSUME UNCHANGED frontend
  PROVE  Promised' = Promised
BY DEF Promised

\* A step that leaves the window's lists and views alone keeps them fresh.
LEMMA Untouched ==
  ASSUME UNCHANGED <<frontend, todo, shown>>
  PROVE  (Fresh <=> Fresh') /\ (Registers(todo) <=> Registers(todo)')
BY SameFrontend DEF Fresh, Registers

\* The machine thread: the registers and memory change only while it runs, and a
\* stop is posted before the loop goes on.
LEMMA MachineSteps ==
  ASSUME BreakInv,
         (\E data \in {{"cpu"}, MachineData} : Execute(data)) \/ Stops \/ notify_stop \/ HostFrame
  PROVE  BreakInv'
<1>1. UNCHANGED <<frontend, open, todo, stop_cb>>
  BY DEF Execute, Stops, notify_stop, HostFrame, debugged, dbgwin
<1>2. Registers(todo)' <=> Registers(todo)
  BY <1>1, SameFrontend DEF Registers
<1>3. CASE \E data \in {{"cpu"}, MachineData} : Execute(data)
  BY <1>1, <1>2, <1>3 DEF BreakInv, Execute, debugged
<1>4. CASE Stops
  BY <1>1, <1>2, <1>4 DEF BreakInv, Stops, dbgwin
<1>5. CASE notify_stop
  <2>1. posted' \in Nat /\ (stop_cb => posted' # 0)
    BY <1>5 DEF BreakInv, notify_stop
  <2> QED  BY <1>1, <1>2, <2>1 DEF BreakInv
<1>6. CASE HostFrame
  <2>1. Fresh => Fresh'
    BY <1>6, Untouched DEF HostFrame, dbgwin
  <2> QED  BY <1>1, <1>2, <1>6, <2>1 DEF BreakInv, HostFrame, dbgwin
<1> QED  BY <1>3, <1>4, <1>5, <1>6

\* A handler that is at work leaves a list that covers what it made stale.
LEMMA Handled ==
  ASSUME BreakInv, Handles, UNCHANGED <<frontend, open, stop_cb>>, posted' \in Nat,
         todo' \in Seq(Refresher),
         posted' = 0 /\ machine' \in {"loop", "parked"} => Fresh'
  PROVE  BreakInv'
<1>1. open # "none" /\ stop_cb
  BY DEF Handles, BreakInv, Registers
<1> QED  BY <1>1 DEF BreakInv

\* Nothing to do and nothing stale.
LEMMA Settled ==
  ASSUME BreakInv, Handles, posted = 0, machine \in {"loop", "parked"}
  PROVE  \A v \in Promised : shown[v] = Needs(v)
<1>1. open # "none" /\ stop_cb /\ todo = <<>>
  BY DEF Handles, BreakInv, Registers
<1>2. \A v : ~Covers(<<>>, v)
  BY DEF Covers
<1> QED  BY <1>1, <1>2 DEF BreakInv, Fresh

\* The window comes and goes.
LEMMA WindowSteps ==
  ASSUME BreakInv, Show \/ Close \/ OnStoppedTooLate
  PROVE  BreakInv'
<1>1. CASE Show
  <2>1. CASE open = "none"
    <3>1. /\ Built \in Seq(Refresher) /\ Registers(Built)
      BY BuiltFacts DEF BreakInv
    <3>2. todo' = Built /\ UNCHANGED frontend
      BY <1>1, <2>1 DEF Show
    <3>3. Registers(todo)'
      BY <3>1, <3>2, SameFrontend DEF Registers
    <3> QED  BY <1>1, <2>1, <3>1, <3>2, <3>3 DEF BreakInv, Show, debugged
  <2>2. CASE open # "none"
    <3>1. UNCHANGED <<frontend, todo, shown, stop_cb, posted, machine>> /\ open' # "none"
      BY <1>1, <2>2 DEF Show, debugged
    <3> QED  BY <2>2, <3>1, Untouched DEF BreakInv
  <2> QED  BY <2>1, <2>2
<1>2. CASE Close
  <2>1. /\ Closed.window \in {"none", "hidden"}
        /\ Closed.window = "hidden" => Closed.queued # "dropped"
    BY FrontendFacts DEF BreakInv, Closed, G!on_destroy, K!destructor, M!closed, W!dbg_close
  <2>2. UNCHANGED <<frontend, todo, shown, machine>> /\ todo = <<>>
    BY <1>2 DEF Close, Handles
  <2>3. CASE open' = "none"
    BY <1>2, <2>2, <2>3 DEF BreakInv, Close
  <2>4. CASE open' = "hidden"
    <3>1. UNCHANGED <<stop_cb, posted>> /\ open # "none"
      BY <1>2, <2>1, <2>4 DEF Close, BreakInv, Handles, Registers
    <3> QED  BY <2>2, <2>4, <3>1, Untouched DEF BreakInv
  <2> QED  BY <1>2, <2>1, <2>3, <2>4 DEF Close
<1>3. CASE OnStoppedTooLate
  <2>1. UNCHANGED <<frontend, open, todo, stop_cb>> /\ open = "none" /\ posted' \in Nat
    BY <1>3 DEF OnStoppedTooLate, debugged, BreakInv
  <2> QED  BY <2>1 DEF BreakInv
<1> QED  BY <1>1, <1>2, <1>3

\* The engine is told to go on or to pause; the pause button refreshes everything.
LEMMA EngineSteps ==
  ASSUME BreakInv, PauseContinue \/ Step
  PROVE  BreakInv'
<1>1. CASE PauseContinue
  <2>1. Handles /\ UNCHANGED <<frontend, open, stop_cb, posted, shown>> /\ posted \in Nat
    BY <1>1 DEF PauseContinue, BreakInv
  <2>2. CASE is_paused
    <3>1. todo' = AfterContinue /\ AfterContinue \in Seq(Refresher)
      BY <1>1, <2>2, AfterCovers DEF PauseContinue, BreakInv
    <3>2. Fresh'
      BY <2>1, <3>1, AfterCovers, SameFrontend DEF Fresh, BreakInv, Covers
    <3> QED  BY <2>1, <3>1, <3>2, Handled
  <2>3. CASE ~is_paused
    <3>1. UNCHANGED <<machine, todo>>
      BY <1>1, <2>3 DEF PauseContinue
    <3> QED  BY <2>1, <3>1, Untouched DEF BreakInv
  <2> QED  BY <2>2, <2>3
<1>2. CASE Step
  <2>1. UNCHANGED <<frontend, open, stop_cb, posted, shown, todo>>
    BY <1>2 DEF Step, dbgwin
  <2>2. machine' \in {"loop", "parked"} => machine \in {"loop", "parked"}
    BY <1>2 DEF Step, Broadcast
  <2> QED  BY <2>1, <2>2, Untouched DEF BreakInv
<1> QED  BY <1>1, <1>2

\* What an edit makes stale its handler refreshes.
LEMMA EditsFresh ==
  ASSUME BreakInv, Handles, NEW c, Edits(c), UNCHANGED frontend,
         posted = 0, machine \in {"loop", "parked"}, Follows(c.edits, c.then)
  PROVE  Fresh'
<1>1. \A v \in Promised : shown[v] = Needs(v) /\ v \in View
  BY Settled, FrontendFacts DEF BreakInv
<1>2. ASSUME NEW v \in Promised
      PROVE  shown'[v] = Needs(v) \/ Covers(todo', v)
  <2>1. CASE c.edits \in Needs(v)
    BY <2>1 DEF Edits, Follows
  <2>2. CASE c.edits \notin Needs(v)
    <3>1. shown[v] \cap {c.edits} = {}
      BY <1>1, <2>2
    <3> QED  BY <1>1, <3>1 DEF Edits, Changed
  <2> QED  BY <2>1, <2>2
<1> QED  BY <1>2, SameFrontend DEF Fresh, Covers

LEMMA CommandSteps ==
  ASSUME BreakInv, ApplyRegister \/ \E c \in Commands : Commanded(c)
  PROVE  BreakInv'
<1>1. PICK c : Handles /\ Edits(c) /\ Follows(c.edits, c.then)
               /\ UNCHANGED <<frontend, debugged, open, posted>>
  <2>1. CASE ApplyRegister
    <3> DEFINE c == Does("cpu", RegisterApplied)
    <3>1. Follows(c.edits, c.then)
      BY RegisterFacts DEF BreakInv, Does
    <3>2. Edits(c) /\ Handles /\ UNCHANGED <<frontend, debugged, open, posted>>
      BY <2>1 DEF ApplyRegister
    <3> HIDE DEF c
    <3> QED  BY <3>1, <3>2
  <2>2. CASE \E c \in Commands : Commanded(c)
    BY <2>2, CommandFacts DEF Commanded, BreakInv
  <2> QED  BY <2>1, <2>2
<1>2. UNCHANGED <<open, stop_cb, posted, machine>> /\ posted \in Nat
  BY <1>1 DEF debugged, BreakInv
<1>3. todo' \in Seq(Refresher)
  BY <1>1 DEF Edits, Follows
<1>4. posted' = 0 /\ machine' \in {"loop", "parked"} => Fresh'
  BY <1>1, <1>2, EditsFresh
<1> QED  BY <1>1, <1>2, <1>3, <1>4, Handled

\* The clock, the pages and the keyboard: nothing becomes stale.
LEMMA QuietSteps ==
  ASSUME BreakInv,
         \/ \E f \in {"elsewhere", "field", "disasm"} : FocusMoves(f)
         \/ \E p \in Pages : SwitchPage(p)
         \/ \E fifth \in BOOLEAN : Tick(fifth)
  PROVE  BreakInv'
<1>1. Handles /\ UNCHANGED <<frontend, debugged, open, posted, shown>>
  BY DEF FocusMoves, SwitchPage, Tick
<1>2. todo' \in Seq(Refresher)
  BY PageFacts, TickFacts DEF FocusMoves, SwitchPage, Tick, BreakInv
<1>3. UNCHANGED <<stop_cb, machine>> /\ posted \in Nat
  BY <1>1 DEF debugged, BreakInv
<1>4. posted' = 0 /\ machine' \in {"loop", "parked"} => Fresh'
  BY <1>1, <1>3, Settled, SameFrontend DEF Fresh
<1> QED  BY <1>1, <1>2, <1>3, <1>4, Handled

\* A stop that arrives refreshes everything.
LEMMA StopArrives ==
  ASSUME BreakInv, OnStopped
  PROVE  BreakInv'
<1>1. /\ Handles /\ UNCHANGED <<frontend, debugged, open, shown>> /\ posted' \in Nat
      /\ todo' = AfterStop /\ AfterStop \in Seq(Refresher)
  BY AfterCovers DEF OnStopped, BreakInv
<1>2. Fresh'
  BY <1>1, AfterCovers, SameFrontend DEF Fresh, BreakInv, Covers
<1> QED  BY <1>1, <1>2, Handled DEF debugged

\* One refresh: what it rebuilds is current, the rest stays as it was.
LEMMA RefreshStep ==
  ASSUME BreakInv, Refresh
  PROVE  BreakInv'
<1> DEFINE next == Head(todo)
<1>1. /\ todo \in Seq(Refresher) /\ todo # <<>> /\ todo' = Tail(todo) /\ open # "none"
      /\ UNCHANGED <<frontend, open, posted, machine>>
      /\ stop_cb' = (stop_cb \/ next = Callback)
      /\ shown' = [v \in View |-> IF v \in DOMAIN next THEN next[v] ELSE shown[v]]
  BY DEF Refresh, BreakInv
<1>2. /\ Whole(next) /\ Tail(todo) \in Seq(Refresher)
      /\ \A v : Covers(todo, v) => v \in DOMAIN next \/ Covers(Tail(todo), v)
  BY <1>1, Goes, AreWhole
<1>3. Promised \subseteq View /\ Promised' = Promised
  BY <1>1, FrontendFacts, SameFrontend DEF BreakInv
<1>4. CASE stop_cb
  <2>1. Fresh => Fresh'
    BY <1>1, <1>2, <1>3 DEF Fresh, Whole, Covers
  <2> QED  BY <1>1, <1>2, <1>4, <2>1 DEF BreakInv
<1>5. CASE ~stop_cb
  <2>1. next = Callback /\ \A v \in Promised : Covers(Tail(todo), v)
    BY <1>1, <1>5 DEF BreakInv, Registers
  <2>2. Fresh'
    BY <1>1, <1>3, <2>1 DEF Fresh, Covers
  <2> HIDE DEF next
  <2> QED  BY <1>1, <1>2, <2>1, <2>2 DEF BreakInv
<1> QED  BY <1>4, <1>5

\* A breakpoint toggled by a refresh of the disassembly is followed by its own refreshes.
LEMMA ToggleStep ==
  ASSUME BreakInv, RefreshToggles
  PROVE  BreakInv'
<1>1. /\ todo \in Seq(Refresher) /\ todo # <<>> /\ Head(todo) = Disasm /\ open # "none"
      /\ UNCHANGED <<frontend, open, posted, machine, stop_cb>> /\ frontend \in Frontend
      /\ todo' = <<Disasm, Bps>> \o Tail(todo) /\ Changed({"bps"})
  BY DEF RefreshToggles, debugged, BreakInv, K!refreshDisasm, K!refreshBps, K!cursorPositionChanged,
         K!Does, Disasm, Bps
<1>2. /\ Tail(todo) \in Seq(Refresher)
      /\ \A v : Covers(todo, v) => v \in DOMAIN Disasm \/ Covers(Tail(todo), v)
  BY <1>1, Goes
<1>3. /\ <<Disasm, Bps>> \in Seq(Refresher)
      /\ \A v \in {"disasm", "bps"} : Covers(<<Disasm, Bps>>, v)
  <2>1. Disasm \in Refresher /\ Bps \in Refresher
    BY DEF Refresher
  <2> QED  BY <2>1, Lists, Domains
<1>4. /\ todo' \in Seq(Refresher)
      /\ \A v : Covers(<<Disasm, Bps>>, v) \/ Covers(Tail(todo), v) => Covers(todo', v)
  BY <1>1, <1>2, <1>3, Before
<1>5. stop_cb
  <2>1. Disasm # Callback
    <3>1. DOMAIN Disasm # DOMAIN Callback
      BY Domains
    <3> QED  BY <3>1
  <2> QED  BY <1>1, <2>1 DEF BreakInv, Registers
<1>6. ASSUME Fresh PROVE Fresh'
  <2>1. ASSUME NEW v \in Promised PROVE shown'[v] = Needs(v) \/ Covers(todo', v)
    <3>1. v \in View
      BY <1>1, FrontendFacts
    <3>2. CASE v \in {"disasm", "bps"}
      BY <1>3, <1>4, <3>2
    <3>3. CASE Covers(Tail(todo), v)
      BY <1>4, <3>3
    <3>4. CASE v \notin {"disasm", "bps"} /\ ~Covers(Tail(todo), v)
      <4>1. shown[v] = Needs(v)
        BY <1>2, <1>6, <3>4, Domains DEF Fresh
      <4>2. "bps" \notin Needs(v)
        BY <3>1, <3>4 DEF Needs, View
      <4> QED  BY <1>1, <3>1, <4>1, <4>2 DEF Changed
    <3> QED  BY <3>2, <3>3, <3>4
  <2> QED  BY <1>1, <2>1, SameFrontend DEF Fresh, Covers
<1> QED  BY <1>1, <1>4, <1>5, <1>6 DEF BreakInv

LEMMA BreakNext == BreakInv /\ [DbgNext]_dbgvars => BreakInv'
<1> SUFFICES ASSUME BreakInv, [DbgNext]_dbgvars PROVE BreakInv'
  OBVIOUS
<1>1. CASE DbgNext
  BY <1>1, MachineSteps, WindowSteps, EngineSteps, CommandSteps, QuietSteps, StopArrives,
     RefreshStep, ToggleStep DEF DbgNext
<1>2. CASE UNCHANGED dbgvars
  <2>1. UNCHANGED <<frontend, posted, machine, stop_cb, open, todo, shown>>
    BY <1>2 DEF dbgvars, debugged, dbgwin
  <2> QED  BY <2>1, Untouched DEF BreakInv
<1> QED  BY <1>1, <1>2

LEMMA BreakHolds == BreakInv => BreakIsShown
<1> SUFFICES ASSUME BreakInv, Handles, posted = 0, machine = "parked"
             PROVE  \A v \in Promised : shown[v] = Needs(v)
  BY DEF BreakIsShown
<1> QED  BY Settled

\* In every frontend, with any pages and however many stops may wait: a window with
\* nothing left to do, at a break whose stop it was handed, shows the machine as it
\* stopped and the engine as it was edited since.
THEOREM BreakIsSeen == DbgSpec => []BreakIsShown
<1>1. DbgSpec => []BreakInv
  BY BreakInit, BreakNext, PTL DEF DbgSpec
<1> QED  BY <1>1, BreakHolds, PTL
=============================================================================
