---------------------------- MODULE MCAssistant ----------------------------
(* Two proposals on their cards, and two requests served at a time.        *)
EXTENDS Assistant, TLC

CONSTANTS p1, p2, h1, h2

MCProposal == {p1, p2}
MCHandler == {h1, h2}
Renaming == Permutations(MCHandler)
=============================================================================
