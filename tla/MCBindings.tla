----------------------------- MODULE MCBindings -----------------------------
(* Bindings for TLC: three targets and three keysyms, 3 folding onto 1 (as a *)
(* keypad digit folds onto the digit, and a capital onto its letter).        *)
EXTENDS Bindings

MCFold == [k \in Key |-> IF k = 3 THEN 1 ELSE k]
MCDefault == [t \in Target |-> IF t = 2 THEN 0 ELSE t + 1]
=============================================================================
