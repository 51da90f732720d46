---------------------------- MODULE DebugFrontend ---------------------------
(***************************************************************************)
(* The words in which the four debugger windows are described              *)
(* (GnomeDebugger, KdeDebugger, MacDebugger, WinDebugger): which views a   *)
(* refresher rebuilds and which data it reads for them, and what a command *)
(* edits before it refreshes.  How a view is laid out, where it is         *)
(* scrolled to and the wording of its text are left out.                   *)
(***************************************************************************)
EXTENDS Sequences

\* What is shown: the machine's data, the engine's breakpoints, and the
\* window's own choice of a pattern bank.
MachineData == {"cpu", "mem", "vdp", "trace", "log", "cart"}
Source == MachineData \cup {"bps", "bank"}

\* The views.  "field" is the register field with the keyboard focus.
View == {"disasm", "regs", "field", "mem", "bps", "trace", "vdp", "patterns", "fuji"}

\* A step of a handler: the views it rebuilds with the sources it reads for
\* each.  It may instead choose the pause button's label, or register the window
\* for stops.
Button == [button |-> {}]
Callback == [callback |-> {}]

\* A command edits a source, or nothing, and refreshes in turn.
Nothing == "nothing"
Does(edits, then) == [edits |-> edits, then |-> then]
=============================================================================
