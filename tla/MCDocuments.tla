---------------------------- MODULE MCDocuments -----------------------------
(* Two workspaces, one of which has the project: see the README.           *)
EXTENDS Documents

CONSTANTS d1, d2, p1, o1, o2, h1, h2, c1, c2

MCDoc == {d1, d2}
MCProject == {p1}
MCOrg == {o1, o2}
MCOrgOf == [x \in {d1, d2, p1} |-> IF x = d2 THEN o2 ELSE o1]
MCHandler == {h1, h2}
MCCleaner == {c1, c2}
MCTicker == {c1}
=============================================================================
