--------------------------- MODULE MCEmailOutbox ----------------------------
(* Two replicas drain two messages, one per batch.                         *)
EXTENDS EmailOutbox

CONSTANTS m1, m2, r1, r2

MCMessage == {m1, m2}
MCReplica == {r1, r2}
=============================================================================
