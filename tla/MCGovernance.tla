---------------------------- MODULE MCGovernance ----------------------------
(* Two people, one of them provisioned by SCIM, and two deletion requests. *)
EXTENDS Governance

CONSTANTS ann, bob, org, q1, q2, h1, h2, r1, r2

MCPerson == {ann, bob}
MCManaged == {bob}
MCRequest == {q1, q2}
MCHandler == {h1, h2}
MCReplica == {r1, r2}
=============================================================================
