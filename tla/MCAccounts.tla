----------------------------- MODULE MCAccounts -----------------------------
(* Two addresses, two requests at once, two links and two invitations.     *)
EXTENDS Accounts, TLC

CONSTANTS ann, bob, q1, q2, k1, k2, i1, i2

MCAddress == {ann, bob}
MCBusy == {ann}
MCRequest == {q1, q2}
MCLink == {k1, k2}
MCInvite == {i1, i2}
Renaming == Permutations(MCRequest)
              \cup Permutations(MCLink) \cup Permutations(MCInvite)
=============================================================================
