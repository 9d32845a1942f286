----------------------------- MODULE MCOrgChart -----------------------------
(* Two administrators and a chart of three levels: see the README.         *)
EXTENDS OrgChart, TLC

CONSTANTS t1, t2, r1, c1, c2

MCAgent == 1 .. MaxAgents
MCTask == {t1, t2}
MCReplica == {r1}
MCClient == {c1, c2}

Shape(vps, directors) == [k \in 2 .. 3 |-> IF k = 2 THEN vps ELSE directors]
MCShapes == {Shape(0, 0), Shape(1, 0), Shape(2, 0), Shape(1, 1)}

Clients == Permutations(Client) \cup Permutations(Task)
=============================================================================
