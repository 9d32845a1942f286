-------------------------- MODULE AssistantProofs ---------------------------
(***************************************************************************)
(* Proofs about the two sides of the assistant.  What becomes of a         *)
(* proposal: Confirmations, and the cards of Assistant on top of it, for   *)
(* any number of proposals and handlers.  And one use of the provider,     *)
(* ToolLoop, for any arguments and any bounds: whatever the provider       *)
(* answers and whenever the switches are flipped, the tools of a use change*)
(* the workspace directly at most once, and it keeps what it recorded and  *)
(* stops one call after execution is off, unless something failed.         *)
(***************************************************************************)
EXTENDS Assistant, ToolLoop, TLAPS

\* No proposal is issued and no handler is busy when the service starts.
LEMMA InitIndInv == Init => IndInv
<1> SUFFICES ASSUME Init PROVE IndInv
  OBVIOUS
<1>1. TypeOK
  BY DEF Init, TypeOK, Phases
<1>2. OneWinner /\ WinnerHoldsRow /\ EffectAtMostOnce /\ AuditedWasApplied
  BY DEF Init, OneWinner, WinnerHoldsRow, EffectAtMostOnce, AuditedWasApplied
<1> QED
  BY <1>1, <1>2 DEF IndInv

\* Every step of issuing, expiring and confirming proposals keeps the types.
LEMMA NextTypeOK == TypeOK /\ [Next]_vars => TypeOK'
<1> SUFFICES ASSUME TypeOK, [Next]_vars PROVE TypeOK'
  OBVIOUS
<1> USE DEF TypeOK, Phases
<1>1. ASSUME NEW p \in Proposal, Issue(p) \/ Return(p) \/ Expire(p) PROVE TypeOK'
  BY <1>1 DEF Issue, Return, Expire, serverVars
<1>2. CASE SwitchAgent
  BY <1>2 DEF SwitchAgent
<1>3. ASSUME NEW h \in Handler, NEW p \in Proposal, Authorise(h, p) PROVE TypeOK'
  BY <1>3 DEF Authorise, serverVars
<1>4. ASSUME NEW h \in Handler, ConsumeOnce(h) \/ ConsumeNothing(h) PROVE TypeOK'
  BY <1>4 DEF ConsumeOnce, ConsumeNothing, serverVars
<1>5. ASSUME NEW h \in Handler, Apply(h) PROVE TypeOK'
  <2>1. effects' \in [Proposal -> Nat]
    BY <1>5 DEF Apply
  <2> QED
    BY <1>5, <2>1 DEF Apply, serverVars
<1>6. ASSUME NEW h \in Handler, Abandon(h) \/ Audit(h) PROVE TypeOK'
  BY <1>6 DEF Abandon, Audit, serverVars
<1>7. CASE UNCHANGED vars
  BY <1>7 DEF vars
<1> QED
  BY <1>1, <1>2, <1>3, <1>4, <1>5, <1>6, <1>7 DEF Next

\* A row nobody consumed belongs to a write nobody made.
LEMMA Unspent ==
  ASSUME IndInv, NEW p \in Proposal, row[p] # "consumed"
  PROVE  effects[p] = 0
<1>1. effects[p] \in Nat /\ effects[p] <= 1 /\ effects[p] # 1
  BY DEF IndInv, TypeOK, EffectAtMostOnce
<1> QED
  BY <1>1

\* The consuming UPDATE has one winner: every step preserves the invariant.
LEMMA NextIndInv == IndInv /\ [Next]_vars => IndInv'
<1> DEFINE Parts ==
      OneWinner /\ WinnerHoldsRow /\ EffectAtMostOnce /\ AuditedWasApplied
<1> SUFFICES ASSUME IndInv, [Next]_vars, TypeOK' PROVE Parts'
  BY NextTypeOK DEF IndInv
<1> USE DEF IndInv, TypeOK, OneWinner, WinnerHoldsRow, EffectAtMostOnce,
            AuditedWasApplied
<1>1. ASSUME NEW p \in Proposal, Issue(p) \/ Return(p) \/ Expire(p) PROVE Parts'
  BY <1>1 DEF Issue, Return, Expire, serverVars
<1>2. CASE SwitchAgent
  BY <1>2 DEF SwitchAgent
<1>3. ASSUME NEW h \in Handler, NEW p \in Proposal, Authorise(h, p) PROVE Parts'
  BY <1>3 DEF Authorise, serverVars
<1>4. ASSUME NEW h \in Handler, ConsumeOnce(h) PROVE Parts'
  \* The row was pending, so no handler held it and the write had not happened.
  <2>1. /\ item[h] \in Proposal
        /\ row[item[h]] = "pending"
        /\ \A g \in Handler : pc[g] \in {"won", "applied"} => item[g] # item[h]
    BY <1>4 DEF ConsumeOnce, MayConsume
  <2>2. effects[item[h]] = 0
    BY <2>1, Unspent
  <2>3. OneWinner'
    BY <1>4, <2>1 DEF ConsumeOnce
  <2>4. WinnerHoldsRow'
    BY <1>4, <2>1, <2>2 DEF ConsumeOnce
  <2>5. (EffectAtMostOnce /\ AuditedWasApplied)'
    BY <1>4, <2>1, <2>2 DEF ConsumeOnce
  <2> QED
    BY <2>3, <2>4, <2>5
<1>5. ASSUME NEW h \in Handler, ConsumeNothing(h) PROVE Parts'
  BY <1>5 DEF ConsumeNothing, serverVars
<1>6. ASSUME NEW h \in Handler, Apply(h) PROVE Parts'
  \* The winner is alone, so the write it commits is the first one.
  <2>1. /\ row[item[h]] = "consumed"
        /\ effects[item[h]] = 0
        /\ \A g \in Handler : pc[g] \in {"won", "applied"} /\ g # h
                                => item[g] # item[h]
    BY <1>6 DEF Apply
  <2> QED
    BY <1>6, <2>1 DEF Apply, serverVars
<1>7. ASSUME NEW h \in Handler, Abandon(h) \/ Audit(h) PROVE Parts'
  BY <1>7 DEF Abandon, Audit, serverVars
<1>8. CASE UNCHANGED vars
  BY <1>8 DEF vars
<1> QED
  BY <1>1, <1>2, <1>3, <1>4, <1>5, <1>6, <1>7, <1>8 DEF Next

\* The columns and handler phases keep their types in every reachable state.
THEOREM TypeCorrect == Spec => []TypeOK
<1>1. Init => TypeOK
  BY DEF Init, TypeOK, Phases
<1> QED
  BY <1>1, NextTypeOK, PTL DEF Spec

\* The invariant holds in every reachable state, for any number of replicas
\* and of proposals.
THEOREM Invariance == Spec => []IndInv
BY InitIndInv, NextIndInv, PTL DEF Spec

\* A proposed write is committed at most once, however many handlers confirm
\* its token (_consume_confirmation_once).
THEOREM AtMostOneEffect == Spec => []EffectAtMostOnce
<1>1. IndInv => EffectAtMostOnce
  BY DEF IndInv, EffectAtMostOnce
<1> QED
  BY <1>1, Invariance, PTL

\* An audit record says "confirmed" only of a write that was committed.
THEOREM AuditIsTruthful == Spec => []AuditedWasApplied
<1>1. IndInv => AuditedWasApplied
  BY DEF IndInv, AuditedWasApplied
<1> QED
  BY <1>1, Invariance, PTL

-----------------------------------------------------------------------------
\* The initial table has no consumed row and no effect.
LEMMA InitClaims == Init => Once!Init
BY DEF Init, Once!Init

\* A step of the confirmation endpoint claims an item, lets a claimed item
\* take its first effect, or does nothing the abstract promise can see.
LEMMA StepOnce ==
  IndInv /\ [Next]_vars
    => [Once!Next]_<<{p \in Proposal : row[p] = "consumed"}, effects>>
<1> DEFINE Claimed == {p \in Proposal : row[p] = "consumed"}
<1> SUFFICES ASSUME IndInv, [Next]_vars
             PROVE  [Once!Next]_<<Claimed, effects>>
  OBVIOUS
<1> TypeOK
  BY DEF IndInv
<1>1. ASSUME NEW p \in Proposal, Issue(p) \/ Return(p) \/ Expire(p)
      PROVE  UNCHANGED <<Claimed, effects>>
  BY <1>1 DEF Issue, Return, Expire, serverVars, TypeOK
<1>2. CASE SwitchAgent
  BY <1>2 DEF SwitchAgent
<1>3. ASSUME NEW h \in Handler, ConsumeOnce(h) PROVE Once!Next
  <2>1. item[h] \in Proposal /\ row[item[h]] = "pending"
    BY <1>3 DEF ConsumeOnce, MayConsume, TypeOK
  <2>2. Claimed' = Claimed \cup {item[h]}
    BY <1>3, <2>1 DEF ConsumeOnce, TypeOK
  <2> QED
    BY <1>3, <2>1, <2>2 DEF ConsumeOnce, Once!Claim, Once!Next
<1>4. ASSUME NEW h \in Handler, Apply(h) PROVE Once!Next
  <2>1. /\ item[h] \in Proposal
        /\ row[item[h]] = "consumed"
        /\ effects[item[h]] = 0
    BY <1>4 DEF IndInv, WinnerHoldsRow, Apply, TypeOK
  <2>2. UNCHANGED Claimed
    BY <1>4 DEF Apply
  <2>3. effects' = [effects EXCEPT ![item[h]] = 1]
    BY <1>4, <2>1 DEF Apply
  <2>4. Once!Effect(item[h])
    BY <2>1, <2>2, <2>3 DEF Once!Effect
  <2> QED
    BY <2>1, <2>4 DEF Once!Next
<1>5. ASSUME NEW h \in Handler, ConsumeNothing(h) \/ Abandon(h) \/ Audit(h)
      PROVE  UNCHANGED <<Claimed, effects>>
  BY <1>5 DEF ConsumeNothing, Abandon, Audit
<1>6. ASSUME NEW h \in Handler, NEW p \in Proposal, Authorise(h, p)
      PROVE  UNCHANGED <<Claimed, effects>>
  BY <1>6 DEF Authorise
<1>7. CASE UNCHANGED vars
  BY <1>7 DEF vars
<1> QED
  BY <1>1, <1>2, <1>3, <1>4, <1>5, <1>6, <1>7 DEF Next

\* Confirmations implements the abstract one-shot promise.
THEOREM Refinement == Spec => ImplementsAtMostOnce
BY InitClaims, StepOnce, Invariance, PTL DEF Spec, ImplementsAtMostOnce, Once!Spec

-----------------------------------------------------------------------------
(* The cards.                                                              *)

\* Nothing a person does, and nothing that happens to an answer, is more to
\* the server than one of its own steps.
LEMMA PageStepIsAStep == [PageNext]_<<vars, pageVars>> => [Next]_vars
<1>1. ASSUME NEW p \in Proposal, Show(p) \/ Reject(p) PROVE [Next]_vars
  BY <1>1 DEF Show, Reject, Next
<1>2. ASSUME NEW h \in Handler, NEW p \in Proposal, Run(h, p) \/ RunForAgent(h, p)
      PROVE  Next
  BY <1>2 DEF Run, RunForAgent, Next
<1>3. ASSUME NEW h \in Handler, Succeed(h) \/ Fail(h) \/ LoseAnswer(h) \/ Tell(h)
      PROVE  [Next]_vars
  BY <1>3 DEF Succeed, Fail, LoseAnswer, Tell, Next
<1>4. ASSUME Server PROVE Next
  BY <1>4 DEF Server, Next
<1> QED
  BY <1>1, <1>2, <1>3, <1>4 DEF PageNext, LeaveView, CloseInspector

\* The page starts without cards.
LEMMA InitPageInv == PageInit => PageInv
<1> SUFFICES ASSUME PageInit PROVE PageInv
  OBVIOUS
<1>1. IndInv
  BY InitIndInv DEF PageInit
<1>2. PageTypeOK
  BY <1>1 DEF PageInit, PageTypeOK, IndInv
<1>3. AnswersAreTrue /\ PageKnows
  BY DEF PageInit, Init, AnswersAreTrue, PageKnows, Human
<1> QED
  BY <1>1, <1>2, <1>3 DEF PageInv

\* Cards, answers and what the page missed keep their types.
LEMMA PageNextTypeOK ==
  ASSUME IndInv, PageTypeOK, [PageNext]_<<vars, pageVars>>
  PROVE  PageTypeOK'
<1> USE DEF PageTypeOK
<1>1. TypeOK'
  BY PageStepIsAStep, NextTypeOK
<1>2. ASSUME NEW p \in Proposal, Show(p) \/ Reject(p) PROVE PageTypeOK'
  BY <1>1, <1>2 DEF Show, Reject
<1>3. ASSUME NEW h \in Handler, NEW p \in Proposal, Run(h, p) \/ RunForAgent(h, p)
      PROVE  PageTypeOK'
  BY <1>1, <1>3 DEF Run, RunForAgent
<1>4. ASSUME NEW h \in Handler, Succeed(h) \/ Fail(h) \/ LoseAnswer(h) PROVE PageTypeOK'
  <2>1. item[h] \in Proposal
    BY DEF TypeOK
  <2> QED
    BY <1>1, <1>4, <2>1 DEF Succeed, Fail, LoseAnswer, Answers
<1>5. ASSUME NEW h \in Handler, Tell(h) PROVE PageTypeOK'
  BY <1>1, <1>5 DEF Tell
<1>6. CASE LeaveView
  BY <1>1, <1>6 DEF LeaveView, Human
<1>7. CASE CloseInspector
  BY <1>1, <1>7 DEF CloseInspector
<1>8. CASE UNCHANGED pageVars
  BY <1>1, <1>8 DEF pageVars
<1> QED
  BY <1>2, <1>3, <1>4, <1>5, <1>6, <1>7, <1>8 DEF PageNext

\* The server's own steps show the page nothing, and write for a card only
\* while it waits.
LEMMA ServerKeepsPage ==
  ASSUME PageInv, Server, UNCHANGED pageVars
  PROVE  AnswersAreTrue' /\ PageKnows'
<1> USE DEF PageInv
<1>1. UNCHANGED <<card, heard, unsure, item, audited, origin, known>>
  BY DEF Server, pageVars, Issue, Expire, SwitchAgent, ConsumeOnce, Apply, serverVars
<1>2. AnswersAreTrue'
  BY <1>1 DEF AnswersAreTrue, Human
<1>3. \A g \in Handler :
        /\ pc'[g] # "idle" => pc[g] # "idle"
        /\ pc'[g] = "authorised" => pc[g] = "authorised"
  BY DEF Server, Issue, Expire, SwitchAgent, ConsumeOnce, Apply, IndInv, TypeOK
<1>4. ASSUME UNCHANGED effects PROVE PageKnows'
  BY <1>1, <1>3, <1>4 DEF PageKnows, Human
<1>5. ASSUME NEW h \in Handler, Apply(h) PROVE PageKnows'
  <2>1. \A p \in Proposal : p # item[h] => effects'[p] = effects[p]
    BY <1>5 DEF Apply, IndInv, TypeOK
  <2>2. pc[h] = "won" /\ pc'[h] = "applied" /\ \A g \in Handler \ {h} : pc'[g] = pc[g]
    BY <1>5 DEF Apply, IndInv, TypeOK
  <2>3. ASSUME NEW p \in Human \ unsure, p = item[h]
        PROVE  /\ card[p] = "running" /\ heard[h] = "awaited"
               /\ \A g \in Handler \ {h} : item[g] = p => heard[g] = "no" /\ pc[g] = "idle"
    BY <2>2, <2>3 DEF PageKnows
  <2> QED
    BY <1>1, <1>3, <2>1, <2>2, <2>3 DEF PageKnows, Human
<1> QED
  BY <1>2, <1>4, <1>5 DEF Server, Issue, Expire, SwitchAgent, ConsumeOnce

\* A proposal that is shown for the first time has not been carried out.
LEMMA ShowKeepsPage ==
  ASSUME PageInv, NEW p \in Proposal, Show(p)
  PROVE  AnswersAreTrue' /\ PageKnows'
<1> USE DEF PageInv
<1>1. /\ UNCHANGED <<heard, unsure, item, audited, origin, pc, effects>>
      /\ card' = [card EXCEPT ![p] = "open"] /\ known' = [known EXCEPT ![p] = TRUE]
      /\ ~known[p]
  BY DEF Show, Return
<1>2. card[p] = "none"
  BY <1>1 DEF AnswersAreTrue
<1>3. AnswersAreTrue'
  BY <1>1 DEF AnswersAreTrue, PageTypeOK, TypeOK, Human
<1>4. PageKnows'
  BY <1>1, <1>2 DEF PageKnows, PageTypeOK, Human
<1> QED
  BY <1>3, <1>4

\* A card that is confirmed waits, and for one request only.
LEMMA RunKeepsPage ==
  ASSUME PageInv, NEW h \in Handler, NEW p \in Proposal, Run(h, p) \/ RunForAgent(h, p)
  PROVE  AnswersAreTrue' /\ PageKnows'
<1> USE DEF PageInv
<1>1. /\ UNCHANGED <<unsure, audited, origin, known, effects>>
      /\ pc[h] = "idle" /\ heard[h] = "no" /\ known[p]
      /\ pc' = [pc EXCEPT ![h] = "authorised"]
      /\ item' = [item EXCEPT ![h] = p]
      /\ heard' = [heard EXCEPT ![h] = "awaited"]
  BY DEF Run, RunForAgent, Authorise, serverVars
<1>2. /\ pc'[h] = "authorised" /\ item'[h] = p /\ heard'[h] = "awaited"
      /\ \A g \in Handler \ {h} : pc'[g] = pc[g] /\ item'[g] = item[g] /\ heard'[g] = heard[g]
  BY <1>1 DEF PageTypeOK, TypeOK
<1>3. CASE Run(h, p)
  <2>1. p \in Human /\ card[p] = "open" /\ card' = [card EXCEPT ![p] = "running"]
    BY <1>3 DEF Run
  <2>2. AnswersAreTrue'
    BY <1>1, <1>2, <2>1 DEF AnswersAreTrue, PageTypeOK, Human
  <2>3. ASSUME p \notin unsure
        PROVE  effects[p] = 0 /\ \A g \in Handler : item[g] = p => heard[g] = "no"
    BY <2>1, <2>3 DEF PageKnows
  <2>4. PageKnows'
    BY <1>1, <1>2, <2>1, <2>3 DEF PageKnows, PageTypeOK, Human
  <2> QED
    BY <2>2, <2>4
<1>4. CASE RunForAgent(h, p)
  <2>1. p \notin Human /\ UNCHANGED card
    BY <1>4 DEF RunForAgent
  <2> QED
    BY <1>1, <1>2, <2>1 DEF AnswersAreTrue, PageKnows, Human
<1> QED
  BY <1>3, <1>4

\* A request that ends is heard of, if it is, as what it was.
LEMMA EndKeepsPage ==
  ASSUME PageInv, NEW h \in Handler, Succeed(h) \/ Fail(h) \/ LoseAnswer(h)
  PROVE  AnswersAreTrue' /\ PageKnows'
<1> DEFINE p == item[h]
<1> USE DEF PageInv
<1>1. /\ UNCHANGED <<card, item, origin, known, effects>>
      /\ \A g \in Handler \ {h} : heard'[g] = heard[g] /\ pc'[g] = pc[g]
      /\ heard[h] # "awaited" => heard'[h] = heard[h]
      /\ pc'[h] = "idle" \/ pc'[h] = pc[h]
      /\ heard'[h] # "no" => heard[h] # "no"
      /\ unsure \subseteq unsure'
      /\ p \in Proposal
  BY DEF Succeed, Fail, LoseAnswer, Answers, Audit, ConsumeNothing, Abandon, serverVars,
         vars, PageTypeOK, TypeOK
<1>2. CASE Succeed(h)
  <2>1. /\ audited' = [audited EXCEPT ![p] = TRUE] /\ UNCHANGED unsure
        /\ heard'[h] # "error" \/ heard'[h] = heard[h]
        /\ pc'[h] = "idle"
    BY <1>2 DEF Succeed, Answers, Audit, PageTypeOK, TypeOK
  <2>2. AnswersAreTrue'
    BY <1>1, <2>1 DEF AnswersAreTrue, PageTypeOK, TypeOK, Human
  <2>3. PageKnows'
    BY <1>1, <2>1 DEF PageKnows, Human
  <2> QED
    BY <2>2, <2>3
<1>3. CASE Fail(h) \/ LoseAnswer(h)
  <2>1. UNCHANGED audited /\ (heard'[h] = "ok" => heard[h] = "ok")
    BY <1>3 DEF Fail, LoseAnswer, Answers, ConsumeNothing, Abandon, vars, PageTypeOK
  <2>2. AnswersAreTrue'
    BY <1>1, <2>1 DEF AnswersAreTrue, Human
  <2>3. ASSUME p \in Human, p \notin unsure', heard'[h] = "error" PROVE effects[p] = 0
    <3>1. CASE heard[h] = "error"
      BY <1>1, <2>3, <3>1 DEF PageKnows
    <3>2. CASE Fail(h) /\ heard[h] # "error"
      <4>1. pc[h] \in {"authorised", "won"}
        BY <2>3, <3>2 DEF Fail, ConsumeNothing, Abandon, PageTypeOK, TypeOK, Phases
      <4> QED
        BY <1>1, <2>3, <4>1 DEF PageKnows, IndInv, WinnerHoldsRow
    <3>3. ~LoseAnswer(h)
      BY <2>3 DEF LoseAnswer
    <3> QED
      BY <1>3, <3>1, <3>2, <3>3
  <2>4. pc'[h] = "idle" \/ p \in unsure'
    BY <1>3 DEF Fail, LoseAnswer, ConsumeNothing, Abandon, PageTypeOK, TypeOK
  <2>5. PageKnows'
    BY <1>1, <2>3, <2>4 DEF PageKnows, Human
  <2> QED
    BY <2>2, <2>5
<1> QED
  BY <1>2, <1>3

\* A card that is told of an answer says what the answer said.
LEMMA TellKeepsPage ==
  ASSUME PageInv, NEW h \in Handler, Tell(h)
  PROVE  AnswersAreTrue' /\ PageKnows'
<1> DEFINE p == item[h]
<1> USE DEF PageInv
<1>1. /\ UNCHANGED <<unsure, item, origin, known, effects, audited, pc>>
      /\ heard[h] \in {"ok", "error"} /\ heard' = [heard EXCEPT ![h] = "no"]
      /\ p \in Proposal
      /\ \A q \in Proposal \ {p} : card'[q] = card[q]
  BY DEF Tell, vars, PageTypeOK, TypeOK
<1>2. /\ card'[p] = "done" => audited[p]
      /\ card'[p] = card[p] \/ card'[p] \in {"done", "open"}
      /\ card[p] = "none" => heard[h] = "ok" \/ card'[p] = "none"
  BY <1>1 DEF Tell, AnswersAreTrue, PageTypeOK
<1>3. /\ heard'[h] = "no"
      /\ \A g \in Handler \ {h} : heard'[g] = heard[g]
  BY <1>1 DEF PageTypeOK
<1>4. AnswersAreTrue'
  BY <1>1, <1>2, <1>3 DEF AnswersAreTrue, PageTypeOK, TypeOK, Human, Tell
<1>5. PageKnows'
  <2> SUFFICES ASSUME NEW q \in Human, q \notin unsure
               PROVE  /\ card'[q] \in {"none", "open", "rejected"} => effects[q] = 0
                      /\ \A k \in Handler :
                           item[k] = q =>
                             /\ pc[k] # "idle" => heard'[k] = "awaited"
                             /\ heard'[k] # "no" =>
                                  /\ card'[q] = "running"
                                  /\ \A g \in Handler : item[g] = q /\ heard'[g] # "no" => g = k
                             /\ heard'[k] = "error" \/ pc[k] = "authorised" => effects[q] = 0
    BY <1>1 DEF PageKnows, Human
  <2>1. CASE q # p
    BY <1>1, <1>3, <2>1 DEF PageKnows, Human
  <2>2. CASE q = p
    <3>1. /\ card[p] = "running" /\ pc[h] = "idle"
          /\ \A g \in Handler \ {h} : item[g] = p => heard[g] = "no" /\ pc[g] = "idle"
          /\ heard[h] = "error" => effects[p] = 0
      BY <1>1, <2>2 DEF PageKnows
    <3>2. card'[p] = IF heard[h] = "ok" THEN "done" ELSE "open"
      BY <1>1, <3>1 DEF Tell, PageTypeOK
    <3> QED
      BY <1>1, <1>3, <2>2, <3>1, <3>2
  <2> QED
    BY <2>1, <2>2
<1> QED
  BY <1>4, <1>5

\* A view that is left takes its answers with it, and the page no longer knows
\* what became of what it was waiting for.
LEMMA LeaveKeepsPage ==
  ASSUME PageInv, LeaveView
  PROVE  AnswersAreTrue' /\ PageKnows'
<1> USE DEF PageInv
<1>1. /\ UNCHANGED <<item, origin, known, effects, audited, pc>>
      /\ card' = [p \in Proposal |->
                    IF p \in Human /\ card[p] # "none" THEN "open" ELSE card[p]]
      /\ heard' = [h \in Handler |-> IF item[h] \in Human THEN "no" ELSE heard[h]]
      /\ unsure' = unsure \cup {p \in Human : card[p] \in {"running", "done"}}
  BY DEF LeaveView, vars
<1>2. AnswersAreTrue'
  BY <1>1 DEF AnswersAreTrue, PageTypeOK, TypeOK, Human
<1>3. ASSUME NEW p \in Human, p \notin unsure'
      PROVE  /\ effects[p] = 0
             /\ \A h \in Handler : item[h] = p => pc[h] = "idle" /\ heard'[h] = "no"
  <2>1. p \notin unsure /\ card[p] \notin {"running", "done"} /\ p \in Proposal
    BY <1>1, <1>3 DEF Human
  <2>2. card[p] \in {"none", "open", "rejected"}
    BY <2>1, <1>3 DEF PageTypeOK, AnswersAreTrue
  <2> QED
    BY <1>1, <1>3, <2>1, <2>2 DEF PageKnows
<1>4. PageKnows'
  BY <1>1, <1>3 DEF PageKnows, Human
<1> QED
  BY <1>2, <1>4

\* What is closed with the inspector are no cards of the Copilot's.
LEMMA CloseKeepsPage ==
  ASSUME PageInv, CloseInspector
  PROVE  AnswersAreTrue' /\ PageKnows'
<1> USE DEF PageInv
<1>1. /\ UNCHANGED <<item, origin, known, effects, audited, pc, heard, unsure>>
      /\ card' = [p \in Proposal |->
                    IF p \notin Human /\ card[p] # "none" THEN "gone" ELSE card[p]]
  BY DEF CloseInspector, vars
<1> QED
  BY <1>1 DEF AnswersAreTrue, PageKnows, PageTypeOK, TypeOK, Human

\* A card that can be rejected is of a proposal nobody is carrying out.
LEMMA RejectKeepsPage ==
  ASSUME PageInv, NEW p \in Proposal, Reject(p)
  PROVE  AnswersAreTrue' /\ PageKnows'
<1> USE DEF PageInv
<1>1. /\ UNCHANGED <<item, origin, known, effects, audited, pc, heard, unsure>>
      /\ card' = [card EXCEPT ![p] = "rejected"] /\ p \in Human /\ card[p] = "open"
  BY DEF Reject, vars
<1>2. AnswersAreTrue'
  BY <1>1 DEF AnswersAreTrue, PageTypeOK, TypeOK, Human
<1>3. PageKnows'
  BY <1>1 DEF PageKnows, PageTypeOK, Human
<1> QED
  BY <1>2, <1>3

\* Every step of the server, of a person and of an answer keeps the invariant.
LEMMA PageNextInv == PageInv /\ [PageNext]_<<vars, pageVars>> => PageInv'
<1> SUFFICES ASSUME PageInv, [PageNext]_<<vars, pageVars>> PROVE PageInv'
  OBVIOUS
<1>1. IndInv'
  BY PageStepIsAStep, NextIndInv DEF PageInv
<1>2. PageTypeOK'
  BY PageNextTypeOK DEF PageInv
<1>3. ASSUME UNCHANGED <<vars, pageVars>> PROVE AnswersAreTrue' /\ PageKnows'
  BY <1>3 DEF PageInv, AnswersAreTrue, PageKnows, Human, vars, pageVars
<1>4. AnswersAreTrue' /\ PageKnows'
  BY <1>3, ServerKeepsPage, ShowKeepsPage, RunKeepsPage, EndKeepsPage, TellKeepsPage,
     LeaveKeepsPage, CloseKeepsPage, RejectKeepsPage DEF PageNext, PageInv
<1> QED
  BY <1>1, <1>2, <1>4 DEF PageInv

\* The invariant holds of every page, whatever a person clicks and whichever
\* answers are lost or come late.
THEOREM PageInvariance == PageSpec => []PageInv
BY InitPageInv, PageNextInv, PTL DEF PageSpec

\* A card says "Done." only of a write that was committed and audited, and
\* "Rejected. Nothing was changed." only of one that was not and will not be,
\* unless the page missed an answer or its view was left (assistant.tsx).
THEOREM CardsAreTruthful == PageSpec => []CardsTellTheTruth
<1>1. PageInv => CardsTellTheTruth
  <2> SUFFICES ASSUME PageInv PROVE CardsTellTheTruth
    OBVIOUS
  <2>1. ASSUME NEW p \in Proposal, card[p] = "done" PROVE effects[p] = 1 /\ audited[p]
    BY <2>1 DEF PageInv, AnswersAreTrue, IndInv, AuditedWasApplied
  <2>2. ASSUME NEW p \in Proposal, card[p] = "rejected", p \notin unsure
        PROVE  effects[p] = 0 /\ \A h \in Handler : pc[h] # "idle" => item[h] # p
    <3>1. p \in Human
      BY <2>2 DEF PageInv, AnswersAreTrue
    <3> QED
      BY <2>2, <3>1 DEF PageInv, PageKnows
  <2> QED
    BY <2>1, <2>2 DEF CardsTellTheTruth, PageInv
<1> QED
  BY <1>1, PageInvariance, PTL

\* With the pages in front of it the service still implements the one-shot
\* promise: no click, repeated, rejected or unanswered, runs a proposal twice.
THEOREM PageRefinement == PageSpec => ImplementsAtMostOnce
<1>1. PageInit => Init
  BY DEF PageInit
<1>2. PageInv => IndInv
  BY DEF PageInv
<1> QED
  BY <1>1, <1>2, InitClaims, StepOnce, PageStepIsAStep, PageInvariance, PTL
  DEF PageSpec, ImplementsAtMostOnce, Once!Spec

-----------------------------------------------------------------------------
(* One use of the provider.  Each part of the invariant has a lemma, with  *)
(* one step for each group of actions that write the same variables.       *)

\* The steps of a use, by what they do.

Starting == StartChat \/ StartStep
Talking == StartRound \/ Answer \/ PlanDeterministic \/ EndTurn
Looking == Refuse \/ Raise \/ ReadWorkspace \/ ReadRepository \/ UseBrowser \/ RejectPatch
Noting == LogProgress \/ MarkTaskComplete
Patching == PreparePatch \/ ApplyPatch \/ ProposePatch
Writing == Propose \/ DirectWrite \/ AuditWrite \/ RejectWrite
Ending == Close \/ Finish \/ Die

\* Every step is of one of these kinds.
LEMMA StepsOfNext ==
  LoopNext => \/ Starting \/ Talking \/ (\E c \in Call : TakeCall(c)) \/ Looking
          \/ Noting \/ Patching \/ Writing \/ Ending \/ (\E s \in Switches : Toggle(s))
BY DEF LoopNext, Work, Starting, Talking, Looking, Noting, Patching, Writing, Ending

-----------------------------------------------------------------------------
(* Types.                                                                  *)

\* A step goes on to a known phase with a known outcome.
LEMMA ControlIsTyped ==
  ASSUME LoopTypeOK, LoopNext
  PROVE  stage' \in Stages /\ outcome' \in Outcomes
<1> USE DEF LoopTypeOK, callerVars, rowVars, workVars, lateVars
<1>1. CASE Starting
  BY <1>1 DEF Starting, StartChat, StartStep, RefuseStart, Grant, OpenRun,
     Fault, Conclude, Stages, Outcomes
<1>2. CASE Talking
  BY <1>2 DEF Talking, StartRound, Answer, Acts, PlanDeterministic, EndTurn, React,
     Leave, Conclude, Recorded, Unrecorded, Fault, Said, Stages, Outcomes
<1>3. ASSUME NEW c \in Call, TakeCall(c) PROVE stage' \in Stages /\ outcome' \in Outcomes
  BY <1>3 DEF TakeCall, Conclude, Stages, Outcomes
<1>4. CASE Looking
  BY <1>4 DEF Looking, Refuse, Raise, ReadWorkspace, ReadRepository, UseBrowser, Acts,
     RejectPatch, Answered, Fault, Conclude, Stages, Outcomes
<1>5. CASE Noting
  BY <1>5 DEF Noting, LogProgress, MarkTaskComplete, Then, Acts, Conclude,
     Stages, Outcomes
<1>6. CASE Patching
  BY <1>6 DEF Patching, PreparePatch, ApplyPatch, ProposePatch, Then,
     MayPatch, Edited, Acts, Answered, Fault, Conclude, Stages, Outcomes
<1>7. CASE Writing
  BY <1>7 DEF Writing, Propose, DirectWrite, AuditWrite, RejectWrite, Direct,
     MayChange, Acts, Fault, Conclude, Stages, Outcomes
<1>8. CASE Ending
  BY <1>8 DEF Ending, Close, Finish, Die, Settle, Keep, Drop, Reports,
     Metered, Fault, Stages, Outcomes
<1>9. ASSUME NEW s \in Switches, Toggle(s) PROVE stage' \in Stages /\ outcome' \in Outcomes
  BY <1>9 DEF Toggle, Stages, Outcomes
<1> QED
  BY <1>1, <1>2, <1>3, <1>4, <1>5, <1>6, <1>7, <1>8, <1>9, StepsOfNext

\* Only known faults are counted.
LEMMA FaultsAreTyped ==
  ASSUME LoopTypeOK, LoopNext
  PROVE  faults' \subseteq Faults
<1> USE DEF LoopTypeOK, callerVars, rowVars, workVars, lateVars
<1>1. CASE Starting
  BY <1>1 DEF Starting, StartChat, StartStep, RefuseStart, Grant, OpenRun,
     Fault, Conclude, Faults
<1>2. CASE Talking
  BY <1>2 DEF Talking, StartRound, Answer, Acts, PlanDeterministic, EndTurn, React,
     Leave, Conclude, Recorded, Unrecorded, Fault, Said, Faults
<1>3. ASSUME NEW c \in Call, TakeCall(c) PROVE faults' \subseteq Faults
  BY <1>3 DEF TakeCall, Conclude, Faults
<1>4. CASE Looking
  BY <1>4 DEF Looking, Refuse, Raise, ReadWorkspace, ReadRepository, UseBrowser, Acts,
     RejectPatch, Answered, Fault, Conclude, Faults
<1>5. CASE Noting
  BY <1>5 DEF Noting, LogProgress, MarkTaskComplete, Then, Acts, Conclude,
     Faults
<1>6. CASE Patching
  BY <1>6 DEF Patching, PreparePatch, ApplyPatch, ProposePatch, Then,
     MayPatch, Edited, Acts, Answered, Fault, Conclude, Faults
<1>7. CASE Writing
  BY <1>7 DEF Writing, Propose, DirectWrite, AuditWrite, RejectWrite, Direct,
     MayChange, Acts, Fault, Conclude, Faults
<1>8. CASE Ending
  BY <1>8 DEF Ending, Close, Finish, Die, Settle, Keep, Drop, Reports,
     Metered, Fault, Faults
<1>9. ASSUME NEW s \in Switches, Toggle(s) PROVE faults' \subseteq Faults
  BY <1>9 DEF Toggle, Faults
<1> QED
  BY <1>1, <1>2, <1>3, <1>4, <1>5, <1>6, <1>7, <1>8, <1>9, StepsOfNext

\* The locals of the loop stay within the limits of rounds and of patches.
LEMMA LoopIsTyped ==
  ASSUME LoopTypeOK, StepsAreInOrder, LoopNext
  PROVE  loop' \in Loop
<1> USE DEF LoopTypeOK, StepsAreInOrder, callerVars, rowVars, workVars, lateVars
<1>1. CASE Starting
  BY <1>1 DEF Starting, StartChat, StartStep, RefuseStart, Grant, OpenRun,
     Fault, Conclude, Loop
<1>2. CASE Talking
  <2>1. CASE UNCHANGED loop
    BY <2>1
  <2>2. CASE StartRound /\ loop' # loop
    <3>1. loop.rounds < MaxRounds /\ loop' = [loop EXCEPT !.rounds = @ + 1, !.proposed = FALSE]
      BY <2>2 DEF StartRound
    <3>2. loop.rounds + 1 \in 0..MaxRounds
      BY <3>1, LimitsAssumption DEF Loop
    <3> QED BY <3>1, <3>2 DEF Loop
  <2> QED BY <1>2, <2>1, <2>2 DEF Talking, Answer, PlanDeterministic, EndTurn
<1>3. ASSUME NEW c \in Call, TakeCall(c) PROVE loop' \in Loop
  <2>1. CASE UNCHANGED loop
    BY <2>1
  <2>2. CASE loop' = [loop EXCEPT !.warned = TRUE, !.calls = @ + 1]
    <3>1. loop \in Loop /\ loop.calls + 1 \in Nat
      BY DEF Loop
    <3> HIDE DEF LoopTypeOK, StepsAreInOrder
    <3> QED BY <2>2, <3>1 DEF Loop
  <2>3. CASE loop' = [loop EXCEPT !.seen = IF IsStep THEN {} ELSE @ \cup {c},
                                  !.calls = @ + 1]
    <3>1. (IF IsStep THEN {} ELSE loop.seen \cup {c}) \in SUBSET Call
      BY DEF Loop
    <3>2. loop \in Loop /\ loop.calls + 1 \in Nat
      BY DEF Loop
    <3> HIDE DEF LoopTypeOK, StepsAreInOrder
    <3> QED BY <2>3, <3>1, <3>2 DEF Loop
  <2> QED BY <1>3, <2>1, <2>2, <2>3 DEF TakeCall
<1>4. CASE Looking
  BY <1>4 DEF Looking, Refuse, Raise, ReadWorkspace, ReadRepository, UseBrowser, Acts,
     RejectPatch, Answered, Fault, Conclude, Loop
<1>5. CASE Noting
  BY <1>5 DEF Noting, LogProgress, MarkTaskComplete, Then, Acts, Conclude, Loop
<1>6. CASE Patching
  <2>1. CASE PreparePatch
    BY <2>1 DEF PreparePatch
  <2>2. CASE ApplyPatch
    <3>1. loop.patches + 1 \in 0..MaxPatches
      BY <2>2, LimitsAssumption DEF ApplyPatch, Loop
    <3> QED BY <2>2, <3>1 DEF ApplyPatch, Edited, Loop
  <2>3. CASE ProposePatch
    BY <2>3 DEF ProposePatch, Loop
  <2> QED BY <1>6, <2>1, <2>2, <2>3 DEF Patching
<1>7. CASE Writing
  BY <1>7 DEF Writing, Propose, DirectWrite, AuditWrite, RejectWrite, Direct,
     MayChange, Acts, Fault, Conclude, Loop
<1>8. CASE Ending
  BY <1>8 DEF Ending, Close, Finish, Die, Settle, Keep, Drop, Reports,
     Metered, Fault, Loop
<1>9. ASSUME NEW s \in Switches, Toggle(s) PROVE loop' \in Loop
  BY <1>9 DEF Toggle, Loop
<1> QED
  BY <1>1, <1>2, <1>3, <1>4, <1>5, <1>6, <1>7, <1>8, <1>9, StepsOfNext

\* Sessions and tables hold the rows of a use only.
LEMMA RowsAreTyped ==
  ASSUME LoopTypeOK, LoopNext
  PROVE  session' \subseteq Rows /\ stored' \subseteq Rows /\ lost' \subseteq Rows
<1> USE DEF LoopTypeOK, callerVars, rowVars, workVars, lateVars
<1>1. CASE Starting
  BY <1>1 DEF Starting, StartChat, StartStep, RefuseStart, Grant, OpenRun,
     Fault, Conclude, Rows
<1>2. CASE Talking
  BY <1>2 DEF Talking, StartRound, Answer, Acts, PlanDeterministic, EndTurn, React,
     Leave, Conclude, Recorded, Unrecorded, Fault, Said, Rows
<1>3. ASSUME NEW c \in Call, TakeCall(c)
      PROVE  session' \subseteq Rows /\ stored' \subseteq Rows /\ lost' \subseteq Rows
  BY <1>3 DEF TakeCall, Conclude, Rows
<1>4. CASE Looking
  BY <1>4 DEF Looking, Refuse, Raise, ReadWorkspace, ReadRepository, UseBrowser, Acts,
     RejectPatch, Answered, Fault, Conclude, Rows
<1>5. CASE Noting
  BY <1>5 DEF Noting, LogProgress, MarkTaskComplete, Then, Acts, Conclude, Rows
<1>6. CASE Patching
  BY <1>6 DEF Patching, PreparePatch, ApplyPatch, ProposePatch, Then,
     MayPatch, Edited, Acts, Answered, Fault, Conclude, Rows
<1>7. CASE Writing
  BY <1>7 DEF Writing, Propose, DirectWrite, AuditWrite, RejectWrite, Direct,
     MayChange, Acts, Fault, Conclude, Rows
<1>8. CASE Ending
  BY <1>8 DEF Ending, Close, Finish, Die, Settle, Keep, Drop, Reports,
     Metered, Fault, Rows
<1>9. ASSUME NEW s \in Switches, Toggle(s)
      PROVE  session' \subseteq Rows /\ stored' \subseteq Rows /\ lost' \subseteq Rows
  BY <1>9 DEF Toggle, Rows
<1> QED
  BY <1>1, <1>2, <1>3, <1>4, <1>5, <1>6, <1>7, <1>8, <1>9, StepsOfNext

\* The ledger counts.
LEMMA LedgerIsTyped ==
  ASSUME LoopTypeOK, LoopNext
  PROVE  ledger' \in Ledger
<1> USE DEF LoopTypeOK, callerVars, rowVars, workVars, lateVars
<1>1. CASE Starting
  BY <1>1 DEF Starting, StartChat, StartStep, RefuseStart, Grant, OpenRun,
     Fault, Conclude, Ledger
<1>2. CASE Talking
  <2>1. CASE UNCHANGED ledger
    BY <2>1
  <2>2. CASE Recorded
    <3>1. ledger.asked + 1 \in Nat /\ ledger.recorded + 1 \in Nat
      BY DEF Ledger
    <3> HIDE DEF LoopTypeOK
    <3> QED BY <2>2, <3>1 DEF Recorded, Ledger, LoopTypeOK
  <2>3. CASE Unrecorded
    BY <2>3 DEF Unrecorded, Ledger
  <2> QED BY <1>2, <2>1, <2>2, <2>3 DEF Talking, StartRound, Answer, PlanDeterministic, EndTurn
<1>3. ASSUME NEW c \in Call, TakeCall(c) PROVE ledger' \in Ledger
  BY <1>3 DEF TakeCall, Conclude, Ledger
<1>4. CASE Looking
  BY <1>4 DEF Looking, Refuse, Raise, ReadWorkspace, ReadRepository, UseBrowser, Acts,
     RejectPatch, Answered, Fault, Conclude, Ledger
<1>5. CASE Noting
  BY <1>5 DEF Noting, LogProgress, MarkTaskComplete, Then, Acts, Conclude,
     Ledger
<1>6. CASE Patching
  BY <1>6 DEF Patching, PreparePatch, ApplyPatch, ProposePatch, Then,
     MayPatch, Edited, Acts, Answered, Fault, Conclude, Ledger
<1>7. CASE Writing
  BY <1>7 DEF Writing, Propose, DirectWrite, AuditWrite, RejectWrite, Direct,
     MayChange, Acts, Fault, Conclude, Ledger
<1>8. CASE Ending
  BY <1>8 DEF Ending, Close, Finish, Die, Settle, Keep, Drop, Reports,
     Metered, Fault, Ledger
<1>9. ASSUME NEW s \in Switches, Toggle(s) PROVE ledger' \in Ledger
  BY <1>9 DEF Toggle, Ledger
<1> QED
  BY <1>1, <1>2, <1>3, <1>4, <1>5, <1>6, <1>7, <1>8, <1>9, StepsOfNext

\* So do the histories.
LEMMA CountsAreTyped ==
  ASSUME LoopTypeOK, LoopNext
  PROVE  changes' \in Nat /\ clicks' \in Nat /\ late' \in Nat /\ toggles' \in Nat
<1>0. Acts => late' \in Nat
  BY DEF LoopTypeOK, Acts
<1> USE DEF LoopTypeOK, callerVars, rowVars, workVars, lateVars
<1>1. CASE Starting
  BY <1>1 DEF Starting, StartChat, StartStep, RefuseStart, Grant, OpenRun,
     Fault, Conclude
<1>2. CASE Talking
  BY <1>0, <1>2 DEF Talking, StartRound, Answer, PlanDeterministic, EndTurn
<1>3. ASSUME NEW c \in Call, TakeCall(c)
      PROVE  changes' \in Nat /\ clicks' \in Nat /\ late' \in Nat /\ toggles' \in Nat
  BY <1>3 DEF TakeCall, Conclude
<1>4. CASE Looking
  <2>1. \A n \in BrowserWrites : clicks + (IF loop.full THEN n ELSE 0) \in Nat
    BY LimitsAssumption
  <2> QED
    BY <1>0, <1>4, <2>1 DEF Looking, Refuse, Raise, ReadWorkspace, ReadRepository, UseBrowser,
       RejectPatch
<1>5. CASE Noting
  BY <1>5 DEF Noting, LogProgress, MarkTaskComplete, Then, Acts, Conclude
<1>6. CASE Patching
  BY <1>6 DEF Patching, PreparePatch, ApplyPatch, ProposePatch, Then,
     MayPatch, Edited, Acts, Answered, Fault, Conclude
<1>7. CASE Writing
  BY <1>7 DEF Writing, Propose, DirectWrite, AuditWrite, RejectWrite, Direct,
     MayChange, Acts, Fault, Conclude
<1>8. CASE Ending
  BY <1>8 DEF Ending, Close, Finish, Die, Settle, Keep, Drop, Reports,
     Metered, Fault
<1>9. ASSUME NEW s \in Switches, Toggle(s)
      PROVE  changes' \in Nat /\ clicks' \in Nat /\ late' \in Nat /\ toggles' \in Nat
  BY <1>9 DEF Toggle
<1> QED
  BY <1>1, <1>2, <1>3, <1>4, <1>5, <1>6, <1>7, <1>8, <1>9, StepsOfNext

\* Whether the browser was used late is a Boolean.
LEMMA BrowsingIsTyped ==
  ASSUME LoopTypeOK, LoopNext
  PROVE  browsed' \in BOOLEAN
<1>1. browsed' = browsed \/ browsed' \in BOOLEAN
  <2>1. CASE Starting \/ Talking \/ (\E c \in Call : TakeCall(c)) \/ Noting \/ Patching
             \/ Writing \/ Ending
    BY <2>1 DEF Starting, StartChat, StartStep, Talking, StartRound, Answer, PlanDeterministic,
       EndTurn, TakeCall, Noting, LogProgress, MarkTaskComplete, Patching, PreparePatch,
       ApplyPatch, ProposePatch, Writing, Propose, DirectWrite, AuditWrite, RejectWrite,
       Ending, Close, Finish, Die, lateVars
  <2>2. CASE Looking
    BY <2>2 DEF Looking, Refuse, Raise, ReadWorkspace, ReadRepository, UseBrowser,
       RejectPatch, lateVars
  <2>3. ASSUME NEW s \in Switches, Toggle(s) PROVE browsed' \in BOOLEAN
    BY <2>3 DEF Toggle
  <2> QED BY <2>1, <2>2, <2>3, StepsOfNext
<1> QED BY <1>1 DEF LoopTypeOK

\* What the environment owns, and the call in hand.
LEMMA RestIsTyped ==
  ASSUME LoopTypeOK, LoopNext
 
      PROVE  /\ kind' \in Kinds /\ switch' \in [Switches -> BOOLEAN]
             /\ view' \in {"on", "off", "expired"} /\ call' \in Call
<1> USE DEF LoopTypeOK, callerVars, rowVars, workVars, lateVars
<1>1. CASE Starting
  BY <1>1 DEF Starting, StartChat, StartStep, RefuseStart, Grant, OpenRun,
     Fault, Conclude
<1>2. CASE Talking
  BY <1>2 DEF Talking, StartRound, Answer, Acts, PlanDeterministic, EndTurn, React,
     Leave, Conclude, Recorded, Unrecorded, Fault, Said
<1>3. ASSUME NEW c \in Call, TakeCall(c)
      PROVE  /\ kind' \in Kinds /\ switch' \in [Switches -> BOOLEAN]
             /\ view' \in {"on", "off", "expired"} /\ call' \in Call
  BY <1>3 DEF TakeCall, Conclude
<1>4. CASE Looking
  BY <1>4 DEF Looking, Refuse, Raise, ReadWorkspace, ReadRepository, UseBrowser, Acts,
     RejectPatch, Answered, Fault, Conclude
<1>5. CASE Noting
  BY <1>5 DEF Noting, LogProgress, MarkTaskComplete, Then, Acts, Conclude
<1>6. CASE Patching
  BY <1>6 DEF Patching, PreparePatch, ApplyPatch, ProposePatch, Then,
     MayPatch, Edited, Acts, Answered, Fault, Conclude
<1>7. CASE Writing
  BY <1>7 DEF Writing, Propose, DirectWrite, AuditWrite, RejectWrite, Direct,
     MayChange, Acts, Fault, Conclude
<1>8. CASE Ending
  BY <1>8 DEF Ending, Close, Finish, Die, Settle, Keep, Drop, Reports,
     Metered, Fault
<1>9. ASSUME NEW s \in Switches, Toggle(s)
      PROVE  /\ kind' \in Kinds /\ switch' \in [Switches -> BOOLEAN]
             /\ view' \in {"on", "off", "expired"} /\ call' \in Call
  BY <1>9 DEF Toggle
<1> QED
  BY <1>1, <1>2, <1>3, <1>4, <1>5, <1>6, <1>7, <1>8, <1>9, StepsOfNext

-----------------------------------------------------------------------------
(* The parts of the invariant.                                             *)

\* Edits begin within the budget, errors come from faults, nothing precedes the start.
LEMMA OrderIsKept ==
  ASSUME LoopTypeOK, StepsAreInOrder, LoopNext
  PROVE  StepsAreInOrder'
<1> USE DEF LoopTypeOK, StepsAreInOrder, callerVars, rowVars, workVars, lateVars
<1>1. CASE Starting
  BY <1>1 DEF Starting, StartChat, StartStep, RefuseStart, Grant, OpenRun,
     Fault, Conclude, Loop, Ledger
<1>2. CASE Talking
  BY <1>2 DEF Talking, StartRound, Answer, Acts, PlanDeterministic, EndTurn, React,
     Leave, Conclude, Recorded, Unrecorded, Fault, Said, Loop, Ledger
<1>3. ASSUME NEW c \in Call, TakeCall(c) PROVE StepsAreInOrder'
  BY <1>3 DEF TakeCall, Conclude, Loop, Ledger
<1>4. CASE Looking
  BY <1>4 DEF Looking, Refuse, Raise, ReadWorkspace, ReadRepository, UseBrowser, Acts,
     RejectPatch, Answered, Fault, Conclude, Loop, Ledger
<1>5. CASE Noting
  BY <1>5 DEF Noting, LogProgress, MarkTaskComplete, Then, Acts, Conclude, Loop,
     Ledger
<1>6. CASE Patching
  BY <1>6 DEF Patching, PreparePatch, ApplyPatch, ProposePatch, Then,
     MayPatch, Edited, Acts, Answered, Fault, Conclude, Loop, Ledger
<1>7. CASE Writing
  BY <1>7 DEF Writing, Propose, DirectWrite, AuditWrite, RejectWrite, Direct,
     MayChange, Acts, Fault, Conclude, Loop, Ledger
<1>8. CASE Ending
  BY <1>8 DEF Ending, Close, Finish, Die, Settle, Keep, Drop, Reports,
     Metered, Fault, Loop, Ledger
<1>9. ASSUME NEW s \in Switches, Toggle(s) PROVE StepsAreInOrder'
  BY <1>9 DEF Toggle, Loop, Ledger
<1> QED
  BY <1>1, <1>2, <1>3, <1>4, <1>5, <1>6, <1>7, <1>8, <1>9, StepsOfNext

\* Only a fault drops what the session holds, and the end leaves it empty.
LEMMA WorkIsKept ==
  ASSUME LoopTypeOK, StepsAreInOrder, WorkIsStored, LoopNext
  PROVE  WorkIsStored'
<1> USE DEF LoopTypeOK, StepsAreInOrder, WorkIsStored, callerVars, rowVars, workVars, lateVars
<1>1. CASE Starting
  BY <1>1 DEF Starting, StartChat, StartStep, RefuseStart, Grant, OpenRun,
     Fault, Conclude
<1>2. CASE Talking
  BY <1>2 DEF Talking, StartRound, Answer, Acts, PlanDeterministic, EndTurn, React,
     Leave, Conclude, Recorded, Unrecorded, Fault, Said
<1>3. ASSUME NEW c \in Call, TakeCall(c) PROVE WorkIsStored'
  BY <1>3 DEF TakeCall, Conclude
<1>4. CASE Looking
  BY <1>4 DEF Looking, Refuse, Raise, ReadWorkspace, ReadRepository, UseBrowser, Acts,
     RejectPatch, Answered, Fault, Conclude
<1>5. CASE Noting
  BY <1>5 DEF Noting, LogProgress, MarkTaskComplete, Then, Acts, Conclude
<1>6. CASE Patching
  BY <1>6 DEF Patching, PreparePatch, ApplyPatch, ProposePatch, Then,
     MayPatch, Edited, Acts, Answered, Fault, Conclude
<1>7. CASE Writing
  BY <1>7 DEF Writing, Propose, DirectWrite, AuditWrite, RejectWrite, Direct,
     MayChange, Acts, Fault, Conclude
<1>8. CASE Ending
  BY <1>8 DEF Ending, Close, Finish, Die, Settle, Keep, Drop, Reports,
     Metered, Fault
<1>9. ASSUME NEW s \in Switches, Toggle(s) PROVE WorkIsStored'
  BY <1>9 DEF Toggle
<1> QED
  BY <1>1, <1>2, <1>3, <1>4, <1>5, <1>6, <1>7, <1>8, <1>9, StepsOfNext

\* An invocation and its record come together, a run is closed on return.
LEMMA LedgerIsKept ==
  ASSUME LoopTypeOK, StepsAreInOrder, LedgerIsComplete, LoopNext
  PROVE  LedgerIsComplete'
<1> USE DEF LoopTypeOK, StepsAreInOrder, LedgerIsComplete, callerVars, rowVars, workVars, lateVars
<1>1. CASE Starting
  BY <1>1 DEF Starting, StartChat, StartStep, RefuseStart, Grant, OpenRun,
     Fault, Conclude, Ledger
<1>2. CASE Talking
  BY <1>2 DEF Talking, StartRound, Answer, Acts, PlanDeterministic, EndTurn, React,
     Leave, Conclude, Recorded, Unrecorded, Fault, Said, Ledger
<1>3. ASSUME NEW c \in Call, TakeCall(c) PROVE LedgerIsComplete'
  BY <1>3 DEF TakeCall, Conclude, Ledger
<1>4. CASE Looking
  BY <1>4 DEF Looking, Refuse, Raise, ReadWorkspace, ReadRepository, UseBrowser, Acts,
     RejectPatch, Answered, Fault, Conclude, Ledger
<1>5. CASE Noting
  BY <1>5 DEF Noting, LogProgress, MarkTaskComplete, Then, Acts, Conclude,
     Ledger
<1>6. CASE Patching
  BY <1>6 DEF Patching, PreparePatch, ApplyPatch, ProposePatch, Then,
     MayPatch, Edited, Acts, Answered, Fault, Conclude, Ledger
<1>7. CASE Writing
  BY <1>7 DEF Writing, Propose, DirectWrite, AuditWrite, RejectWrite, Direct,
     MayChange, Acts, Fault, Conclude, Ledger
<1>8. CASE Ending
  BY <1>8 DEF Ending, Close, Finish, Die, Settle, Keep, Drop, Reports,
     Metered, Fault, Ledger
<1>9. ASSUME NEW s \in Switches, Toggle(s) PROVE LedgerIsComplete'
  BY <1>9 DEF Toggle, Ledger
<1> QED
  BY <1>1, <1>2, <1>3, <1>4, <1>5, <1>6, <1>7, <1>8, <1>9, StepsOfNext

\* The loop's flag counts the changes, up to the one whose audit is due.
LEMMA ChangesAreKept ==
  ASSUME LoopTypeOK, ChangesAreKnown, LoopNext
  PROVE  ChangesAreKnown'
<1> USE DEF LoopTypeOK, ChangesAreKnown, callerVars, rowVars, workVars, lateVars
<1>1. CASE Starting
  BY <1>1 DEF Starting, StartChat, StartStep, RefuseStart, Grant, OpenRun,
     Fault, Conclude, Loop
<1>2. CASE Talking
  BY <1>2 DEF Talking, StartRound, Answer, Acts, PlanDeterministic, EndTurn, React,
     Leave, Conclude, Recorded, Unrecorded, Fault, Said, Loop
<1>3. ASSUME NEW c \in Call, TakeCall(c) PROVE ChangesAreKnown'
  BY <1>3 DEF TakeCall, Conclude, Loop
<1>4. CASE Looking
  <2>1. UNCHANGED <<loop, changes>> /\ faults \subseteq faults'
    BY <1>4 DEF Looking, Refuse, Raise, ReadWorkspace, ReadRepository, UseBrowser, Acts, RejectPatch,
         Answered, Fault
  <2>2. stage \notin {"start", "ended", "audit"} /\ stage' \in {"calls", "return"}
    BY <1>4 DEF Looking, Refuse, Raise, ReadWorkspace, ReadRepository, UseBrowser, Acts, RejectPatch,
         Then, Answered, Conclude
  <2> QED BY <2>1, <2>2 DEF Loop
<1>5. CASE Noting
  BY <1>5 DEF Noting, LogProgress, MarkTaskComplete, Then, Acts, Conclude, Loop
<1>6. CASE Patching
  BY <1>6 DEF Patching, PreparePatch, ApplyPatch, ProposePatch, Then,
     MayPatch, Edited, Acts, Answered, Fault, Conclude, Loop
<1>7. CASE Writing
  BY <1>7 DEF Writing, Propose, DirectWrite, AuditWrite, RejectWrite, Direct,
     MayChange, Acts, Fault, Conclude, Loop
<1>8. CASE Ending
  BY <1>8 DEF Ending, Close, Finish, Die, Settle, Keep, Drop, Reports,
     Metered, Fault, Loop
<1>9. ASSUME NEW s \in Switches, Toggle(s) PROVE ChangesAreKnown'
  BY <1>9 DEF Toggle, Loop
<1> QED
  BY <1>1, <1>2, <1>3, <1>4, <1>5, <1>6, <1>7, <1>8, <1>9, StepsOfNext

\* Only the CEO changes anything itself, in a use that began with full access.
LEMMA GrantIsKept ==
  ASSUME LoopTypeOK, ChangesAreGranted, LoopNext
  PROVE  ChangesAreGranted'
<1>0. changes \in Nat /\ clicks \in Nat
  BY DEF LoopTypeOK
<1>1. ASSUME UNCHANGED <<kind, changes, clicks>>, loop'.full = loop.full, stage' # "start"
      PROVE  ChangesAreGranted'
  BY <1>1 DEF ChangesAreGranted, IsCeo
<1>2. CASE Starting
  BY <1>0, <1>2 DEF Starting, StartChat, StartStep, ChangesAreGranted, workVars
<1>3. CASE Talking
  <2>1. UNCHANGED <<kind, changes, clicks>> /\ loop'.full = loop.full
    BY <1>3 DEF Talking, StartRound, Answer, PlanDeterministic, EndTurn, callerVars, workVars,
       LoopTypeOK, Loop
  <2>2. stage' # "start"
    BY <1>3 DEF Talking, StartRound, Answer, PlanDeterministic, EndTurn, React, Leave,
       Conclude, Unrecorded, Said
  <2> QED BY <1>1, <2>1, <2>2
<1>4. ASSUME NEW c \in Call, TakeCall(c) PROVE ChangesAreGranted'
  <2>1. UNCHANGED <<kind, changes, clicks>> /\ loop'.full = loop.full /\ stage' # "start"
    BY <1>4 DEF TakeCall, Conclude, callerVars, workVars, LoopTypeOK, Loop
  <2> QED BY <1>1, <2>1
<1>5. CASE Looking
  <2>1. kind' = kind /\ loop' = loop /\ changes' = changes /\ stage' \in {"calls", "return"}
    BY <1>5 DEF Looking, Refuse, Raise, ReadWorkspace, ReadRepository, UseBrowser, RejectPatch,
       Answered, Conclude, callerVars, workVars
  <2>2. clicks' = clicks \/ (IsCeo /\ loop.full)
    <3>1. CASE UseBrowser
      <4>1. PICK n \in BrowserWrites : clicks' = clicks + (IF loop.full THEN n ELSE 0)
        BY <3>1 DEF UseBrowser
      <4>2. IsCeo
        BY <3>1 DEF UseBrowser
      <4>3. CASE loop.full
        BY <4>2, <4>3
      <4>4. CASE ~loop.full
        BY <1>0, <4>1, <4>4
      <4> QED BY <4>3, <4>4
    <3>2. CASE ~UseBrowser
      BY <1>5, <3>2 DEF Looking, Refuse, Raise, ReadWorkspace, ReadRepository, RejectPatch,
         workVars
    <3> QED BY <3>1, <3>2
  <2> QED BY <2>1, <2>2 DEF ChangesAreGranted, IsCeo
<1>6. CASE Noting \/ Patching \/ Propose \/ AuditWrite \/ RejectWrite \/ Ending
  <2>1. UNCHANGED <<kind, changes, clicks>> /\ loop'.full = loop.full
    BY <1>6 DEF Noting, LogProgress, MarkTaskComplete, Patching, PreparePatch, ApplyPatch,
       ProposePatch, Edited, Propose, AuditWrite, RejectWrite, Ending, Close, Finish, Die,
       callerVars, workVars, LoopTypeOK, Loop
  <2>2. stage' # "start"
    BY <1>6 DEF Noting, LogProgress, MarkTaskComplete, Patching, PreparePatch, ApplyPatch,
       ProposePatch, Propose, AuditWrite, RejectWrite, Ending, Close, Finish, Die,
       Answered, Conclude
  <2> QED BY <1>1, <2>1, <2>2
<1>7. CASE DirectWrite
  BY <1>7 DEF DirectWrite, Direct, ChangesAreGranted, IsCeo, callerVars
<1>8. ASSUME NEW s \in Switches, Toggle(s) PROVE ChangesAreGranted'
  BY <1>1, <1>8 DEF Toggle, workVars
<1> QED
  BY <1>2, <1>3, <1>4, <1>5, <1>6, <1>7, <1>8, StepsOfNext DEF Writing

\* A checked call finds execution on; nothing is carried out twice without a check.
LEMMA LateIsKept ==
  ASSUME LoopTypeOK, LateCalls, LoopNext
  PROVE  LateCalls'
<1> USE DEF LoopTypeOK, LateCalls, callerVars, rowVars, workVars, lateVars
<1>1. CASE Starting
  BY <1>1 DEF Starting, StartChat, StartStep, RefuseStart, Grant, OpenRun,
     Fault, Conclude, Unchecked, Checked, ExecutionAllowed, IsStep, IsAgent
<1>0. late \in Nat /\ browsed \in BOOLEAN
  OBVIOUS
<1>2. CASE Talking
  <2>1. CASE StartRound
    BY <2>1 DEF StartRound, Leave, Conclude, Checked, ExecutionAllowed, IsStep, IsAgent
  <2>2. CASE Answer
    <3>1. /\ stage = "asked" /\ browsed' = browsed /\ Acts
          /\ (ExecutionAllowed' <=> ExecutionAllowed) /\ (IsStep' <=> IsStep)
      BY <2>2 DEF Answer, ExecutionAllowed, IsStep, IsAgent
    <3>2. stage' = "return" \/ (stage' = "first" /\ ExecutionAllowed)
      BY <2>2 DEF Answer, React, Leave, Conclude, Unrecorded, Said
    <3>3. IsStep => late = 0 /\ ~browsed
      BY <3>1
    <3>4. IsStep => late' <= 1 /\ (ExecutionAllowed => late' = 0)
      BY <3>1, <3>3 DEF Acts
    <3> QED BY <3>1, <3>2, <3>3, <3>4
  <2>3. CASE PlanDeterministic \/ EndTurn
    BY <2>3 DEF PlanDeterministic, EndTurn, Unrecorded, Conclude, Checked, ExecutionAllowed,
       IsStep, IsAgent
  <2> QED BY <1>2, <2>1, <2>2, <2>3 DEF Talking
<1>3. ASSUME NEW c \in Call, TakeCall(c) PROVE LateCalls'
  BY <1>3 DEF TakeCall, Conclude, Unchecked, Checked, ExecutionAllowed, IsStep,
     IsAgent
<1>4. CASE Looking
  <2>1. (ExecutionAllowed' <=> ExecutionAllowed) /\ (IsStep' <=> IsStep)
    BY <1>4 DEF Looking, Refuse, Raise, ReadWorkspace, ReadRepository, UseBrowser, RejectPatch,
       ExecutionAllowed, IsStep, IsAgent
  <2>2. stage' \in {"calls", "return"}
    BY <1>4 DEF Looking, Refuse, Raise, ReadWorkspace, ReadRepository, UseBrowser, RejectPatch,
       Answered, Conclude
  <2>3. CASE ReadRepository
    <3>1. IsStep => late = 0
      BY <2>3 DEF ReadRepository, Then, Checked, Unchecked
    <3>2. IsStep => late' <= 1 /\ (ExecutionAllowed => late' = 0)
      BY <2>3, <3>1 DEF ReadRepository, Acts
    <3>3. browsed' = browsed
      BY <2>3 DEF ReadRepository
    <3> QED BY <2>1, <2>2, <3>2, <3>3
  <2>4. CASE UseBrowser
    <3>1. late' = late /\ (IsStep /\ ExecutionAllowed => ~browsed')
      BY <2>4 DEF UseBrowser
    <3> QED BY <2>1, <2>2, <3>1
  <2>5. CASE late' = late /\ browsed' = browsed
    BY <2>1, <2>2, <2>5
  <2> QED
    BY <1>4, <2>3, <2>4, <2>5 DEF Looking, Refuse, Raise, ReadWorkspace, RejectPatch
<1>5. CASE Noting
  BY <1>5 DEF Noting, LogProgress, MarkTaskComplete, Then, Acts, Conclude,
     Unchecked, Checked, ExecutionAllowed, IsStep, IsAgent
<1>6. CASE Patching
  BY <1>6 DEF Patching, PreparePatch, ApplyPatch, ProposePatch, Then,
     MayPatch, Edited, Acts, Answered, Fault, Conclude, Unchecked, Checked,
     ExecutionAllowed, IsStep, IsAgent
<1>7. CASE Writing
  BY <1>7 DEF Writing, Propose, DirectWrite, AuditWrite, RejectWrite, Direct,
     MayChange, Acts, Fault, Conclude, Unchecked, Checked, ExecutionAllowed,
     IsStep, IsAgent
<1>8. CASE Ending
  BY <1>8 DEF Ending, Close, Finish, Die, Settle, Keep, Drop, Reports,
     Metered, Fault, Unchecked, Checked, ExecutionAllowed, IsStep, IsAgent
<1>9. ASSUME NEW s \in Switches, Toggle(s) PROVE LateCalls'
  BY <1>9 DEF Toggle, Unchecked, Checked, ExecutionAllowed, IsStep, IsAgent
<1> QED
  BY <1>1, <1>2, <1>3, <1>4, <1>5, <1>6, <1>7, <1>8, <1>9, StepsOfNext

-----------------------------------------------------------------------------
(* The invariant and what it gives.                                        *)

\* A use begins with nothing asked, recorded or changed.
LEMMA InitLoopInv == LoopInit => LoopInv
<1> SUFFICES ASSUME LoopInit PROVE LoopInv
  OBVIOUS
<1> USE DEF LoopInit
<1>1. loop \in Loop /\ ledger \in Ledger
  BY LimitsAssumption DEF Loop, Ledger
<1>2. call \in Call
  BY DEF Call, Tool
<1>3. LoopTypeOK
  BY <1>1, <1>2 DEF LoopTypeOK, Stages, Outcomes
<1> QED
  BY <1>3 DEF LoopInv, WorkIsStored, LedgerIsComplete, ChangesAreKnown,
      ChangesAreGranted, LateCalls,
      StepsAreInOrder, Checked

\* No step breaks a part of it.
LEMMA NextLoopInv == LoopInv /\ [LoopNext]_loopVars => LoopInv'
<1> SUFFICES ASSUME LoopInv, [LoopNext]_loopVars PROVE LoopInv'
  OBVIOUS
<1>1. CASE LoopNext
  <2>1. LoopTypeOK'
    BY <1>1, ControlIsTyped, FaultsAreTyped, LoopIsTyped, RowsAreTyped, LedgerIsTyped,
       CountsAreTyped, BrowsingIsTyped, RestIsTyped DEF LoopInv, LoopTypeOK
  <2> QED
    BY <1>1, <2>1, OrderIsKept, WorkIsKept, LedgerIsKept, ChangesAreKept, GrantIsKept, LateIsKept
       DEF LoopInv
<1>2. CASE UNCHANGED loopVars
  BY <1>2 DEF LoopInv, LoopTypeOK, WorkIsStored, LedgerIsComplete, ChangesAreKnown,
      ChangesAreGranted, LateCalls,
      StepsAreInOrder, ExecutionAllowed, IsStep, IsAgent, IsCeo, Checked, loopVars, callerVars, rowVars, workVars, lateVars
<1> QED BY <1>1, <1>2

\* The inductive invariant of a use of the provider (ai_plan, send_agent_message,
\* _run_agent_step), for every number of rounds, calls, patches and faults.
THEOREM LoopInvariance == LoopSpec => []LoopInv
BY InitLoopInv, NextLoopInv, PTL DEF LoopSpec

\* One direct change of the CEO per use, unless the ledger failed to record it
\* (copilot.py, the direct writes of plan and of the autonomous step).
THEOREM AtMostOneChange == LoopSpec => []OneDirectChange
<1>1. LoopInv => OneDirectChange
  BY DEF LoopInv, ChangesAreKnown, ChangesAreGranted, OneDirectChange
<1> QED BY <1>1, LoopInvariance, PTL

\* What is recorded on the way is stored in the end, unless something failed
\* (the commits of send_agent_message and of the scheduler's step).
THEOREM NothingIsDropped == LoopSpec => []WorkIsStored
<1>1. LoopInv => WorkIsStored
  BY DEF LoopInv
<1> QED BY <1>1, LoopInvariance, PTL

\* An agent's step carries out at most one call after execution was switched off
\* (require_execution before the calls of _run_agent_step).
THEOREM SwitchIsHeard == LoopSpec => []SwitchStopsSteps
<1>1. LoopInv => SwitchStopsSteps
  BY DEF LoopInv, LateCalls, SwitchStopsSteps
<1> QED BY <1>1, LoopInvariance, PTL

\* Every invocation of the provider is in the ledger (provider_call and
\* execution_run of observability.py).
THEOREM LedgerIsWhole == LoopSpec => []LedgerIsComplete
<1>1. LoopInv => LedgerIsComplete
  BY DEF LoopInv
<1> QED BY <1>1, LoopInvariance, PTL
=============================================================================
