--------------------------- MODULE Confirmations ----------------------------
(***************************************************************************)
(* The life of a Copilot write proposal: the server signs a token, stores  *)
(* a pending row for it, returns it to the client; POST /api/ai/confirm,   *)
(* on any API replica, consumes the row with one UPDATE and only then runs *)
(* the write handler, which commits on its own, and writes the audit       *)
(* record in a further transaction (main.py, copilot.py).                  *)
(*                                                                         *)
(* A handler of /api/ai/confirm may die, or raise, between any two of its  *)
(* transactions.  Rows are keyed by the token's hash, so a proposal stands *)
(* for its token, its claims and its row.                                  *)
(***************************************************************************)
EXTENDS Naturals

CONSTANTS
  Proposal,   \* the tokens the server may mint
  Handler     \* /api/ai/confirm requests being served, on all replicas

VARIABLES
  row,        \* copilot_confirmations: "none", "pending" or "consumed"
  origin,     \* who proposed: a "human" chatting, or an "agent" chatted with
  known,      \* the token has reached a client
  expired,    \* ten minutes have passed (exp claim and expires_at are equal)
  agentOn,    \* execution_allowed: the agent's and the workspace's switch
  pc,         \* where each handler is
  item,       \* the proposal each handler serves
  effects,    \* how often the proposed write was committed (history)
  audited     \* proposals with a committed "confirmed" audit record

vars == <<row, origin, known, expired, agentOn, pc, item, effects, audited>>
serverVars == <<origin, known, expired, agentOn>>

Phases == {"idle", "authorised", "won", "applied"}

TypeOK ==
  /\ row \in [Proposal -> {"none", "pending", "consumed"}]
  /\ origin \in [Proposal -> {"human", "agent"}]
  /\ known \in [Proposal -> BOOLEAN]
  /\ expired \in [Proposal -> BOOLEAN]
  /\ agentOn \in BOOLEAN
  /\ pc \in [Handler -> Phases]
  /\ item \in [Handler -> Proposal]
  /\ effects \in [Proposal -> Nat]
  /\ audited \in [Proposal -> BOOLEAN]

Init ==
  /\ row = [p \in Proposal |-> "none"]
  /\ origin \in [Proposal -> {"human", "agent"}]
  /\ known = [p \in Proposal |-> FALSE]
  /\ expired = [p \in Proposal |-> FALSE]
  /\ agentOn = TRUE
  /\ pc = [h \in Handler |-> "idle"]
  /\ item \in [Handler -> Proposal]
  /\ effects = [p \in Proposal |-> 0]
  /\ audited = [p \in Proposal |-> FALSE]

-----------------------------------------------------------------------------
(* Issuing: ai_plan and send_agent_message store the row and commit before *)
(* the response carries the token; an agent is only asked while enabled.   *)

Issue(p) ==
  /\ row[p] = "none"
  /\ origin[p] = "agent" => agentOn
  /\ row' = [row EXCEPT ![p] = "pending"]
  /\ UNCHANGED <<serverVars, pc, item, effects, audited>>

Return(p) ==
  /\ row[p] # "none"
  /\ ~known[p]
  /\ known' = [known EXCEPT ![p] = TRUE]
  /\ UNCHANGED <<row, origin, expired, agentOn, pc, item, effects, audited>>

Expire(p) ==
  /\ row[p] # "none"
  /\ ~expired[p]
  /\ expired' = [expired EXCEPT ![p] = TRUE]
  /\ UNCHANGED <<row, origin, known, agentOn, pc, item, effects, audited>>

SwitchAgent ==
  /\ agentOn' = ~agentOn
  /\ UNCHANGED <<row, origin, known, expired, pc, item, effects, audited>>

-----------------------------------------------------------------------------
(* POST /api/ai/confirm, one action per transaction.                       *)

\* Token and role checks; the same token may be posted any number of times.
Authorise(h, p) ==
  /\ pc[h] = "idle"
  /\ known[p] /\ ~expired[p]
  /\ origin[p] = "agent" => agentOn
  /\ pc' = [pc EXCEPT ![h] = "authorised"]
  /\ item' = [item EXCEPT ![h] = p]
  /\ UNCHANGED <<row, serverVars, effects, audited>>

\* A plausible bug: the UPDATE loses its "consumed_at IS NULL" condition.
MayConsume_NoPendingCheck(p) == row[p] # "none" /\ ~expired[p]

MayConsume(p) == row[p] = "pending" /\ ~expired[p]

\* The UPDATE matched its row and was committed.
ConsumeOnce(h) ==
  /\ pc[h] = "authorised"
  /\ MayConsume(item[h])
  /\ row' = [row EXCEPT ![item[h]] = "consumed"]
  /\ pc' = [pc EXCEPT ![h] = "won"]
  /\ UNCHANGED <<serverVars, item, effects, audited>>

\* "missing", "used" or "unavailable": rolled back, answered with an error.
ConsumeNothing(h) ==
  /\ pc[h] = "authorised"
  /\ ~MayConsume(item[h])
  /\ pc' = [pc EXCEPT ![h] = "idle"]
  /\ UNCHANGED <<row, serverVars, item, effects, audited>>

\* The write handler commits the proposed change.
Apply(h) ==
  /\ pc[h] = "won"
  /\ effects' = [effects EXCEPT ![item[h]] = @ + 1]
  /\ pc' = [pc EXCEPT ![h] = "applied"]
  /\ UNCHANGED <<row, serverVars, item, audited>>

\* The write handler raises (409, 422, or its own HTTP error): rolled back.
\* A dead process leaves the same state, at any point of the request.
Abandon(h) ==
  /\ pc[h] # "idle"
  /\ pc' = [pc EXCEPT ![h] = "idle"]
  /\ UNCHANGED <<row, serverVars, item, effects, audited>>

\* A plausible bug: the audit record is written before the handler has run.
Audit_BeforeTheWrite(h) ==
  /\ pc[h] \in {"won", "applied"}
  /\ audited' = [audited EXCEPT ![item[h]] = TRUE]
  /\ pc' = [pc EXCEPT ![h] = "idle"]
  /\ UNCHANGED <<row, serverVars, item, effects>>

Audit(h) ==
  /\ pc[h] = "applied"
  /\ audited' = [audited EXCEPT ![item[h]] = TRUE]
  /\ pc' = [pc EXCEPT ![h] = "idle"]
  /\ UNCHANGED <<row, serverVars, item, effects>>

-----------------------------------------------------------------------------
Next ==
  \/ \E p \in Proposal : Issue(p) \/ Return(p) \/ Expire(p)
  \/ SwitchAgent
  \/ \E h \in Handler, p \in Proposal : Authorise(h, p)
  \/ \E h \in Handler :
       ConsumeOnce(h) \/ ConsumeNothing(h) \/ Apply(h) \/ Abandon(h) \/ Audit(h)

Spec == Init /\ [][Next]_vars

-----------------------------------------------------------------------------
\* However often and on however many replicas a token is confirmed, the
\* proposed write is committed at most once, and only for a consumed row
\* (_consume_confirmation_once and the handler it guards in ai_confirm).
EffectAtMostOnce ==
  \A p \in Proposal : effects[p] <= 1 /\ (effects[p] = 1 => row[p] = "consumed")

\* A "confirmed" audit record exists only for a write that was committed:
\* the trail never claims a change the workspace does not have (ai_confirm
\* logs after its handler has returned).
AuditedWasApplied == \A p \in Proposal : audited[p] => effects[p] = 1

\* Past the consuming UPDATE a handler is alone with its proposal.
OneWinner ==
  \A h, g \in Handler :
    /\ pc[h] \in {"won", "applied"} /\ pc[g] \in {"won", "applied"}
    /\ item[h] = item[g]
    => h = g

\* It holds a consumed row, and its phase says whether the write happened.
WinnerHoldsRow ==
  \A h \in Handler :
    /\ pc[h] \in {"won", "applied"} => row[item[h]] = "consumed"
    /\ pc[h] = "won" => effects[item[h]] = 0
    /\ pc[h] = "applied" => effects[item[h]] = 1

\* The inductive invariant: a row is consumed by one handler, which is the
\* only one to hold it afterwards, and the write happens after that.
IndInv ==
  /\ TypeOK
  /\ OneWinner
  /\ WinnerHoldsRow
  /\ EffectAtMostOnce
  /\ AuditedWasApplied

\* The table and the handlers implement the one-shot promise: the consuming
\* UPDATE is the claim, the handler's commit is the effect.
Once == INSTANCE AtMostOnce WITH
          Item <- Proposal,
          claimed <- {p \in Proposal : row[p] = "consumed"},
          effects <- effects

ImplementsAtMostOnce == Once!Spec
=============================================================================
