----------------------------- MODULE MCToolLoop -----------------------------
(* Three calls in two rounds, two kinds of fault, two flips of switches.   *)
EXTENDS ToolLoop, TLC

CONSTANTS x, y

MCArg == {x, y}
Renaming == Permutations(MCArg)
=============================================================================
