---------------------------- MODULE MCAgentTasks ----------------------------
(* Small instances of AgentTasks: see the README for what each bound is for. *)
EXTENDS AgentTasks, TLC

CONSTANTS a1, a2, t1, t2, ann, r1, r2, c1, c2

MCAgent == {a1, a2}
MCOneAgent == {a1}
MCPerson == {ann}
MCTask == {t1, t2}
MCOneTask == {t1}
MCReplica == {r1, r2}
MCOneReplica == {r1}
MCOneClient == {c1}
MCClient == {c1, c2}

\* Agents and tasks are interchangeable: no safety property names one.
Renaming == Permutations(Agent) \cup Permutations(Task)
=============================================================================
