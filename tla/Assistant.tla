------------------------------ MODULE Assistant ------------------------------
(***************************************************************************)
(* The cards on which a person runs or rejects the proposals of            *)
(* Confirmations: those of the Copilot's page (assistant.tsx, AI) and of   *)
(* the inspector of an agent (agents.tsx and confirmAgentAction in         *)
(* page.tsx).  A card posts its token to /api/ai/confirm and says what     *)
(* became of it, from what it has heard; it hears nothing of an answer     *)
(* that is lost, or that comes after its view has been left.               *)
(*                                                                         *)
(* The Copilot's messages belong to the page and outlive the view, what    *)
(* was done with them does not.  Reloading the page, which ends all cards, *)
(* and requests refused by the checks of the token, which change nothing,  *)
(* are left out.                                                           *)
(***************************************************************************)
EXTENDS Confirmations

VARIABLES
  card,     \* what each card shows
  heard,    \* what the page knows of the request each handler serves
  unsure    \* proposals whose confirmation the page missed or forgot (history)

pageVars == <<card, heard, unsure>>

Human == {p \in Proposal : origin[p] = "human"}

PageTypeOK ==
  /\ TypeOK
  /\ card \in [Proposal -> {"none", "open", "running", "done", "rejected", "gone"}]
  /\ heard \in [Handler -> {"no", "awaited", "ok", "error"}]
  /\ unsure \subseteq Proposal

PageInit ==
  /\ Init
  /\ card = [p \in Proposal |-> "none"]
  /\ heard = [h \in Handler |-> "no"]
  /\ unsure = {}

-----------------------------------------------------------------------------
(* The person.                                                             *)

\* The answer of the Copilot or of an agent, with its proposal.
Show(p) ==
  /\ Return(p)
  /\ card' = [card EXCEPT ![p] = "open"]
  /\ UNCHANGED <<heard, unsure>>

\* "Confirm and run" of the Copilot's page, where both buttons then wait ...
Run(h, p) ==
  /\ p \in Human /\ card[p] = "open" /\ heard[h] = "no"
  /\ Authorise(h, p)
  /\ card' = [card EXCEPT ![p] = "running"]
  /\ heard' = [heard EXCEPT ![h] = "awaited"]
  /\ UNCHANGED unsure

\* ... and of the inspector, where the button stays.
RunForAgent(h, p) ==
  /\ p \notin Human /\ card[p] \in {"open", "done"} /\ heard[h] = "no"
  /\ Authorise(h, p)
  /\ heard' = [heard EXCEPT ![h] = "awaited"]
  /\ UNCHANGED <<card, unsure>>

\* A plausible bug: the button is not disabled while the confirmation runs.
Reject_WhileRunning(p) ==
  /\ p \in Human /\ card[p] \in {"open", "running"}
  /\ card' = [card EXCEPT ![p] = "rejected"]
  /\ UNCHANGED <<vars, heard, unsure>>

\* "Rejected. Nothing was changed."
Reject(p) ==
  /\ p \in Human /\ card[p] = "open"
  /\ card' = [card EXCEPT ![p] = "rejected"]
  /\ UNCHANGED <<vars, heard, unsure>>

\* Another view: when the Copilot's is shown again all its buttons are back, and
\* the answers that were awaited find no card.
LeaveView ==
  /\ \E p \in Human : card[p] \in {"running", "done", "rejected"}
  /\ card' = [p \in Proposal |->
                IF p \in Human /\ card[p] # "none" THEN "open" ELSE card[p]]
  /\ heard' = [h \in Handler |-> IF item[h] \in Human THEN "no" ELSE heard[h]]
  /\ unsure' = unsure \cup {p \in Human : card[p] \in {"running", "done"}}
  /\ UNCHANGED vars

\* The inspector is closed, or opened for another agent: the transcript that is
\* loaded then has no proposals.
CloseInspector ==
  /\ \E p \in Proposal \ Human : card[p] \in {"open", "done"}
  /\ card' = [p \in Proposal |->
                IF p \notin Human /\ card[p] # "none" THEN "gone" ELSE card[p]]
  /\ UNCHANGED <<vars, heard, unsure>>

-----------------------------------------------------------------------------
(* The answers.                                                            *)

Answers(h, what) ==
  heard' = [heard EXCEPT ![h] = IF @ = "awaited" THEN what ELSE @]

\* A handler ends; one that fails after its write has been committed answers
\* like one that has done nothing.
Succeed(h) == Audit(h) /\ Answers(h, "ok") /\ UNCHANGED <<card, unsure>>
Fail(h) ==
  /\ ConsumeNothing(h) \/ Abandon(h)
  /\ Answers(h, "error")
  /\ unsure' = IF pc[h] = "applied" THEN unsure \cup {item[h]} ELSE unsure
  /\ UNCHANGED card

\* The connection breaks, or a proxy gives up, while the handler works on.
LoseAnswer(h) ==
  /\ heard[h] = "awaited"
  /\ Answers(h, "error")
  /\ unsure' = unsure \cup {item[h]}
  /\ UNCHANGED <<vars, card>>

\* The answer reaches the card, after the page has been refreshed.  An error
\* gives the Copilot's card its buttons back; the inspector's only ever adds "Done."
Tell(h) ==
  /\ heard[h] \in {"ok", "error"}
  /\ heard' = [heard EXCEPT ![h] = "no"]
  /\ card' = [card EXCEPT ![item[h]] =
                IF @ = "gone" THEN @
                ELSE IF heard[h] = "ok" THEN "done"
                ELSE IF @ = "running" THEN "open" ELSE @]
  /\ UNCHANGED <<vars, unsure>>

-----------------------------------------------------------------------------
Server ==
  \/ \E p \in Proposal : Issue(p) \/ Expire(p)
  \/ SwitchAgent
  \/ \E h \in Handler : ConsumeOnce(h) \/ Apply(h)

PageNext ==
  \/ Server /\ UNCHANGED pageVars
  \/ \E p \in Proposal : Show(p) \/ Reject(p)
  \/ \E h \in Handler, p \in Proposal : Run(h, p) \/ RunForAgent(h, p)
  \/ \E h \in Handler : Succeed(h) \/ Fail(h) \/ LoseAnswer(h) \/ Tell(h)
  \/ LeaveView \/ CloseInspector

PageSpec == PageInit /\ [][PageNext]_<<vars, pageVars>>

-----------------------------------------------------------------------------
(* The properties.                                                         *)

\* What the page believes: a request answered well was carried out, a card that
\* says "Done." as well; only the Copilot's cards are rejected, and only the
\* inspector's are gone.
AnswersAreTrue ==
  /\ \A h \in Handler :
       /\ heard[h] = "ok" => audited[item[h]]
       /\ heard[h] # "no" => known[item[h]]
  /\ \A p \in Proposal :
       /\ card[p] = "done" => audited[p]
       /\ card[p] = "rejected" => p \in Human
       /\ card[p] = "gone" => p \notin Human
       /\ card[p] = "none" \/ known[p]

\* What it knows of a proposal of the Copilot if it missed and forgot nothing:
\* one request at most serves it, for which the card waits, and unless it waits
\* or says "Done." nothing was written.
PageKnows ==
  \A p \in Human \ unsure :
    /\ card[p] \in {"none", "open", "rejected"} => effects[p] = 0
    /\ \A h \in Handler :
         item[h] = p =>
           /\ pc[h] # "idle" => heard[h] = "awaited"
           /\ heard[h] # "no" =>
                /\ card[p] = "running"
                /\ \A g \in Handler : item[g] = p /\ heard[g] # "no" => g = h
           /\ heard[h] = "error" \/ pc[h] = "authorised" => effects[p] = 0

\* The inductive invariant of the proposals and of the cards they are shown on.
PageInv ==
  /\ IndInv
  /\ PageTypeOK
  /\ AnswersAreTrue
  /\ PageKnows

\* What a card says is true: "Done." of a write that was committed and audited,
\* and "Rejected. Nothing was changed." of one that was not and will not be,
\* unless the page has missed or forgotten an earlier answer (assistant.tsx,
\* where both are decided from local state).
CardsTellTheTruth ==
  /\ PageTypeOK
  /\ \A p \in Proposal :
       /\ card[p] = "done" => effects[p] = 1 /\ audited[p]
       /\ (card[p] = "rejected" /\ p \notin unsure) =>
            /\ effects[p] = 0
            /\ \A h \in Handler : pc[h] # "idle" => item[h] # p

\* The same without the exception, which does not hold: "Nothing was changed."
\* may be said of a proposal that was carried out (assistant.tsx).
RejectedChangedNothing ==
  \A p \in Proposal : card[p] = "rejected" => effects[p] = 0
=============================================================================
