------------------------------ MODULE ToolLoop ------------------------------
(***************************************************************************)
(* One use of the AI provider, from the caller's first check to its last   *)
(* commit: a chat with the Copilot (ai_plan), a chat with an agent or the  *)
(* CEO agent (send_agent_message), or one step of an agent on its task     *)
(* (_run_agent_step).  copilot.py alternates rounds of the provider with   *)
(* the tool calls of its answers; what the calls record waits in the       *)
(* caller's session, except a direct change of the CEO, whose handler      *)
(* commits everything the session holds, and the ledger (observability.py),*)
(* which is written in transactions of its own.                            *)
(*                                                                         *)
(* The CEO may also work the web client in a browser of its own: with full *)
(* access each use of it makes any number of changes, as requests of the   *)
(* API that this use of the provider neither counts nor rolls back.        *)
(*                                                                         *)
(* Meanwhile administrators flip the switches.  The provider answers what  *)
(* it likes or fails; the ledger, a handler, a call and the final commit   *)
(* may fail, and the process may die.  A call is its tool and its          *)
(* arguments.                                                              *)
(***************************************************************************)
EXTENDS Naturals, FiniteSets

CONSTANTS
  Arg,          \* the arguments a tool may be called with
  MaxRounds,    \* round_limit
  MaxPatches,   \* MAX_AGENT_PATCHES_PER_RUN (the budget in bytes acts alike)
  BrowserWrites,\* how many changes one use of the browser may make
  MaxCalls,     \* bound: calls the provider asks for
  MaxToggles,   \* bound: switches flipped meanwhile
  MaxFaults     \* bound: kinds of fault in one use

ASSUME LimitsAssumption ==
  MaxRounds \in Nat /\ MaxPatches \in Nat /\ BrowserWrites \subseteq Nat

VARIABLES
  kind,      \* who asks
  switch,    \* the switches administrators own
  toggles,   \* flips so far (bound)
  view,      \* the workspace switch as the caller's session has loaded it
  stage,        \* where the use is
  loop,      \* the locals of the loop
  call,      \* the call being carried out
  session,   \* rows added to the caller's session and not committed
  stored,    \* rows of the use that are committed
  lost,      \* rows that were added and will not be committed (history)
  changes,   \* changes the CEO committed directly (history)
  clicks,    \* changes its browser made through the API (history)
  ledger,    \* provider invocations, their records, the run's record
  outcome,   \* how the loop ended
  faults,    \* the kinds of fault that have happened
  late,      \* invocations, and calls other than reads of the workspace and
             \* the browser's, since execution was last switched off (history)
  browsed    \* whether a step has used the browser since then (history)

callerVars == <<kind, toggles, switch>>
rowVars == <<session, stored, lost>>
workVars == <<changes, clicks>>
lateVars == <<late, browsed>>
loopVars == <<callerVars, view, stage, loop, call, rowVars, workVars, ledger, outcome,
          faults, lateVars>>

Chats == {"human", "agent", "ceo"}
Steps == {"step", "ceostep"}
Kinds == Chats \cup Steps
Switches == {"execution", "full", "workspace"}
Tool == {"read", "repo_read", "enter_ai_cli", "log_progress",
         "mark_task_complete", "repo_apply_patch", "repo_propose_patch",
         "write", "propose"}
Said == {"text", "calls", "failure"}
Call == Tool \X Arg
Rows == {"message", "comment", "completion", "patch_log", "reply", "apology",
         "confirmation", "usage"}
Stages == {"start", "round", "planning", "asked", "first", "calls", "act",
           "apply", "audit", "return", "commit", "ended"}
Outcomes == {"none", "refused", "answered", "proposed", "completed", "succeeded",
             "failed", "inconclusive", "provider_error", "error"}
Faults == {"ledger", "handler", "call", "commit", "death"}

Loop ==
  [full: BOOLEAN, repo: BOOLEAN, rounds: 0..MaxRounds, calls: Nat, seen: SUBSET Call,
   warned: BOOLEAN, proposed: BOOLEAN, changed: BOOLEAN, patches: 0..MaxPatches]
Ledger == [asked: Nat, recorded: Nat, run: {"none", "started", "finished"}]

IsAgent == kind # "human"
IsCeo == kind \in {"ceo", "ceostep"}
IsStep == kind \in Steps

LoopTypeOK ==
  /\ kind \in Kinds
  /\ switch \in [Switches -> BOOLEAN]
  /\ toggles \in Nat
  /\ view \in {"on", "off", "expired"}
  /\ stage \in Stages
  /\ loop \in Loop
  /\ call \in Call
  /\ session \subseteq Rows /\ stored \subseteq Rows /\ lost \subseteq Rows
  /\ changes \in Nat
  /\ clicks \in Nat
  /\ ledger \in Ledger
  /\ outcome \in Outcomes
  /\ faults \subseteq Faults
  /\ late \in Nat
  /\ browsed \in BOOLEAN

LoopInit ==
  /\ kind \in Kinds
  /\ switch \in [Switches -> BOOLEAN]
  /\ toggles = 0
  /\ view = "expired"
  /\ stage = "start"
  /\ loop = [full |-> FALSE, repo |-> FALSE, rounds |-> 0, calls |-> 0,
             seen |-> {}, warned |-> FALSE, proposed |-> FALSE,
             changed |-> FALSE, patches |-> 0]
  /\ call \in {<<"read", a>> : a \in Arg}
  /\ session = {} /\ stored = {} /\ lost = {}
  /\ changes = 0
  /\ clicks = 0
  /\ ledger = [asked |-> 0, recorded |-> 0, run |-> "none"]
  /\ outcome = "none"
  /\ faults = {}
  /\ late = 0
  /\ browsed = FALSE

-----------------------------------------------------------------------------
(* The ends of the loop, and its accidents.                                *)

Fault(f) ==
  /\ Cardinality(faults \cup f) <= MaxFaults
  /\ faults' = faults \cup f

Conclude(how) == stage' = "return" /\ outcome' = how

\* A call has been carried out and is audited.  When that raises, the model is
\* told that the call failed, which is audited in turn.
Answered ==
  \/ stage' = "calls" /\ UNCHANGED <<outcome, faults>>
  \/ Fault({"ledger"}) /\ (Conclude("error") \/ (stage' = "calls" /\ UNCHANGED outcome))

\* What the caller is left with when the provider fails or has had its rounds:
\* edits already made are reported instead.
Leave(how) == Conclude(IF loop.patches > 0 THEN "answered" ELSE how)

ExecutionAllowed == IsAgent => switch["execution"]

\* A step carries out a call, or has the provider asked: it is late when
\* execution is off by now.
Acts == late' = (IF IsStep /\ ~ExecutionAllowed THEN late + 1 ELSE late)

-----------------------------------------------------------------------------
(* The caller and the rounds.                                              *)

\* What the switches allow is read now, for the whole use.
Grant ==
  /\ loop' = [loop EXCEPT !.full = IsCeo /\ switch["full"],
                          !.repo = IsAgent /\ switch["workspace"]]
  /\ view' = IF switch["workspace"] THEN "on" ELSE "off"

\* A step opens its run in the ledger, which may fail.
OpenRun ==
  \/ stage' = "round" /\ ledger' = [ledger EXCEPT !.run = "started"]
                   /\ UNCHANGED <<outcome, faults>>
  \/ Fault({"ledger"}) /\ Conclude("error") /\ UNCHANGED ledger

RefuseStart ==
  /\ ~ExecutionAllowed
  /\ stage' = "ended" /\ outcome' = "refused"
  /\ UNCHANGED <<loop, view, session, ledger, faults>>

\* A chat adds the person's message to the agent's conversation and asks the
\* configured provider, which may be the deterministic one.
StartChat ==
  /\ stage = "start" /\ ~IsStep
  /\ \/ RefuseStart
     \/ /\ ExecutionAllowed
        /\ Grant
        /\ session' = IF IsAgent THEN {"message"} ELSE {}
        /\ stage' \in {"round", "planning"}
        /\ UNCHANGED <<outcome, ledger, faults>>
  /\ UNCHANGED <<callerVars, call, stored, lost, workVars, lateVars>>

\* A step, of the task the scheduler has seen assigned.
StartStep ==
  /\ stage = "start" /\ IsStep
  /\ \/ RefuseStart
     \/ ExecutionAllowed /\ Grant /\ OpenRun /\ UNCHANGED session
  /\ UNCHANGED <<callerVars, call, stored, lost, workVars, lateVars>>

\* The round limit, the deadline of a chat, the switch, or one more round.
StartRound ==
  /\ stage = "round"
  /\ \/ /\ loop.rounds = MaxRounds
        /\ Leave(IF IsStep THEN "inconclusive" ELSE "provider_error")
        /\ UNCHANGED loop
     \/ /\ loop.rounds < MaxRounds
        /\ (IsStep => ~ExecutionAllowed)
        /\ Conclude("provider_error")
        /\ UNCHANGED loop
     \/ /\ loop.rounds < MaxRounds /\ ExecutionAllowed
        /\ stage' = "asked"
        /\ loop' = [loop EXCEPT !.rounds = @ + 1, !.proposed = FALSE]
        /\ UNCHANGED outcome
  /\ UNCHANGED <<callerVars, view, call, rowVars, workVars, ledger, faults, lateVars>>

\* A plausible bug: only invocations that return are recorded.
Recorded_Successes ==
  ledger' = [ledger EXCEPT !.asked = @ + 1,
                           !.recorded = IF outcome' = "none" THEN @ + 1 ELSE @]

\* provider_call records every invocation, failed ones too, in its finally.
Recorded == ledger' = [ledger EXCEPT !.asked = @ + 1, !.recorded = @ + 1]

Unrecorded ==
  /\ Fault({"ledger"}) /\ Conclude("error")
  /\ ledger' = [ledger EXCEPT !.asked = @ + 1]

\* What is made of the provider's answer: the switch is asked again before
\* anything is done with it.
React(said) ==
  CASE said = "failure" -> Leave("provider_error")
    [] said # "failure" /\ ~ExecutionAllowed -> Conclude("provider_error")
    [] said = "text" /\ ExecutionAllowed -> Conclude("answered")
    [] said = "calls" /\ ExecutionAllowed -> stage' = "first" /\ UNCHANGED outcome

Answer ==
  /\ stage = "asked"
  /\ \/ (\E said \in Said : React(said)) /\ Recorded /\ UNCHANGED faults
     \/ Unrecorded
  /\ Acts
  /\ UNCHANGED <<callerVars, view, loop, call, rowVars, workVars, browsed>>

\* The deterministic provider: one answer, and a proposal when it is asked for.
PlanDeterministic ==
  /\ stage = "planning"
  /\ \/ /\ \/ Conclude("provider_error")
           \/ /\ ExecutionAllowed
              /\ Conclude("answered") \/ Conclude("proposed")
        /\ Recorded
        /\ UNCHANGED faults
     \/ Unrecorded
  /\ UNCHANGED <<callerVars, view, loop, call, rowVars, workVars, lateVars>>

\* The calls of an answer are done: a proposal ends a chat, else the next round.
EndTurn ==
  /\ stage = "calls"
  /\ IF loop.proposed THEN Conclude("proposed") ELSE stage' = "round" /\ UNCHANGED outcome
  /\ UNCHANGED <<callerVars, view, loop, call, rowVars, workVars, ledger, faults, lateVars>>

-----------------------------------------------------------------------------
(* The calls of an answer.                                                 *)

\* A step asks the switch again before its calls, except reads of the workspace,
\* the CEO's browser and the proposal of a patch, which only chats can make.
Unchecked == {"read", "enter_ai_cli", "repo_propose_patch"}

\* A plausible bug: a step relies on the check that followed the answer.
Checked_Once(c) == IsStep /\ c[1] \notin Unchecked /\ stage = "first"

Checked(c) == IsStep /\ c[1] \notin Unchecked

\* The next call.  A chat carries out a call once: it is told so the first time
\* it repeats itself, and given up the second.
TakeCall(c) ==
  /\ stage \in {"first", "calls"}
  /\ loop.calls < MaxCalls
  /\ \/ /\ (Checked(c) /\ ~ExecutionAllowed) \/ (c \in loop.seen /\ loop.warned)
        /\ Conclude("provider_error") /\ UNCHANGED <<loop, call>>
     \/ /\ c \in loop.seen /\ ~loop.warned
        /\ stage' = "calls" /\ UNCHANGED <<outcome, call>>
        /\ loop' = [loop EXCEPT !.warned = TRUE, !.calls = @ + 1]
     \/ /\ c \notin loop.seen
        /\ Checked(c) => ExecutionAllowed
        /\ stage' = "act" /\ call' = c /\ UNCHANGED outcome
        /\ loop' = [loop EXCEPT !.seen = IF IsStep THEN {} ELSE @ \cup {c},
                                !.calls = @ + 1]
  /\ UNCHANGED <<callerVars, view, rowVars, workVars, ledger, faults, lateVars>>

Then(tool) == stage = "act" /\ call[1] = tool

\* A call refused for the caller's role, its arguments, the answer's other calls
\* or because the tool is not offered: the model is told so.
Refuse ==
  /\ stage = "act"
  /\ IsStep => call[1] \notin {"log_progress", "mark_task_complete"}
  /\ stage' = "calls"
  /\ UNCHANGED <<callerVars, view, loop, call, rowVars, workVars, ledger, outcome,
                 faults, lateVars>>

\* The calls whose handlers catch whatever is raised.
CatchAll == {"repo_read", "repo_apply_patch", "enter_ai_cli"}

\* An exception that no handler names leaves the loop: of the database in a
\* check of the switch, or of a call (its handlers, where it has any, name
\* ValueError and KeyError alone).
Raise ==
  /\ stage \in {"round", "first", "calls"} \/ (stage = "act" /\ call[1] \notin CatchAll)
  /\ Fault({"call"}) /\ Conclude("error")
  /\ UNCHANGED <<callerVars, view, loop, call, rowVars, workVars, ledger, lateVars>>

\* A read of the workspace leaves an audit record in its finally, which may raise.
ReadWorkspace ==
  /\ Then("read")
  /\ \/ stage' = "calls" /\ UNCHANGED <<outcome, faults>>
     \/ Fault({"ledger"}) /\ Conclude("error")
  /\ UNCHANGED <<callerVars, view, loop, call, rowVars, workVars, ledger, lateVars>>

\* A read or a check of the repository, for agents.
ReadRepository ==
  /\ Then("repo_read") /\ loop.repo
  /\ Answered
  /\ Acts
  /\ UNCHANGED <<callerVars, view, loop, call, rowVars, workVars, ledger, browsed>>

\* A plausible bug: the page's requests are let through without full access.
UseBrowser_Unguarded ==
  /\ Then("enter_ai_cli") /\ IsCeo
  /\ Answered
  /\ \E n \in BrowserWrites : clicks' = clicks + n
  /\ browsed' = (browsed \/ (IsStep /\ ~ExecutionAllowed))
  /\ UNCHANGED <<callerVars, view, loop, call, rowVars, changes, ledger, late>>

\* The CEO's browser: its page asks the API for changes, which are let through
\* when full access was on at the start, whether or not execution still is.
UseBrowser ==
  /\ Then("enter_ai_cli") /\ IsCeo
  /\ Answered
  /\ \E n \in BrowserWrites : clicks' = clicks + (IF loop.full THEN n ELSE 0)
  /\ browsed' = (browsed \/ (IsStep /\ ~ExecutionAllowed))
  /\ UNCHANGED <<callerVars, view, loop, call, rowVars, changes, ledger, late>>

\* log_progress and mark_task_complete: rows of the step's own session.
LogProgress ==
  /\ IsStep /\ Then("log_progress")
  /\ session' = session \cup {"comment"}
  /\ stage' = "calls"
  /\ Acts
  /\ UNCHANGED <<callerVars, view, loop, call, stored, lost, workVars, ledger,
                 outcome, faults, browsed>>

MarkTaskComplete ==
  /\ IsStep /\ Then("mark_task_complete")
  /\ session' = session \cup {"completion"}
  /\ Conclude("completed")
  /\ Acts
  /\ UNCHANGED <<callerVars, view, loop, call, stored, lost, workVars, ledger, faults,
                 browsed>>

MayPatch == loop.repo /\ (IsStep \/ IsCeo) /\ loop.patches < MaxPatches

\* A patch: the budget, for a step the switch once more, and the workspace
\* switch as the session knows it ...
PreparePatch ==
  /\ Then("repo_apply_patch") /\ MayPatch
  /\ IsStep => ExecutionAllowed
  /\ view' = IF view # "expired" THEN view
             ELSE IF switch["workspace"] THEN "on" ELSE "off"
  /\ IF view' = "on" THEN stage' = "apply" /\ UNCHANGED <<outcome, faults>>
                     ELSE Answered
  /\ UNCHANGED <<callerVars, loop, call, rowVars, workVars, ledger, lateVars>>

\* What the budget and the session keep of an edit.
Edited ==
  /\ loop' = [loop EXCEPT !.patches = @ + 1]
  /\ session' = session \cup {"patch_log"}

\* ... then git edits the files, and the edit is logged in the session ...
ApplyPatch ==
  /\ stage = "apply"
  /\ Edited
  /\ Acts
  /\ Answered
  /\ UNCHANGED <<callerVars, view, call, stored, lost, workVars, ledger, browsed>>

\* ... or the patch is found to name other files, to follow links, to remove or
\* move a file, or not to apply to the repository as it is now.
RejectPatch ==
  /\ stage = "apply"
  /\ Answered
  /\ UNCHANGED <<callerVars, view, loop, call, rowVars, workVars, ledger, lateVars>>

\* A patch proposed in a chat, for a person to confirm.
ProposePatch ==
  /\ Then("repo_propose_patch")
  /\ loop.repo /\ ~IsStep /\ ~loop.proposed
  /\ loop' = [loop EXCEPT !.proposed = TRUE]
  /\ \/ stage' = "calls" /\ UNCHANGED <<outcome, faults>>
     \/ Fault({"ledger"}) /\ Conclude("error")
  /\ UNCHANGED <<callerVars, view, call, rowVars, workVars, ledger, lateVars>>

\* Writes the CEO may make itself, when full access was on at the start.
Direct == IsCeo /\ loop.full /\ call[1] = "write"

\* A write that needs a person: one per answer of a chat.  A step returns with
\* it at once.
Propose ==
  /\ call[1] \in {"write", "propose"} /\ stage = "act"
  /\ ~Direct /\ ~loop.proposed
  /\ IF IsStep THEN Conclude("proposed") /\ UNCHANGED loop
               ELSE /\ stage' = "calls" /\ UNCHANGED outcome
                    /\ loop' = [loop EXCEPT !.proposed = TRUE]
  /\ Acts
  /\ UNCHANGED <<callerVars, view, call, rowVars, workVars, ledger, faults, browsed>>

\* A plausible bug: the flag is never asked.
MayChange_Again == ~loop.proposed

\* One direct change per chat; a step ends with its first.
MayChange == ~loop.proposed /\ ~loop.changed

\* The handler of the direct write commits the session, with all it holds ...
DirectWrite ==
  /\ stage = "act" /\ Direct /\ MayChange
  /\ stored' = stored \cup session /\ session' = {}
  /\ changes' = changes + 1
  /\ view' = "expired"
  /\ stage' = "audit"
  /\ Acts
  /\ UNCHANGED <<callerVars, loop, call, lost, clicks, ledger, outcome, faults, browsed>>

\* ... and its audit record follows.  When that raises, the model is told that
\* the change failed, and may ask for another.
AuditWrite ==
  /\ stage = "audit"
  /\ \/ /\ loop' = [loop EXCEPT !.changed = TRUE]
        /\ IF IsStep THEN Conclude("succeeded") ELSE stage' = "calls" /\ UNCHANGED outcome
        /\ UNCHANGED faults
     \/ /\ Fault({"ledger"})
        /\ UNCHANGED loop
        /\ \/ Conclude("error")
           \/ IF IsStep THEN Conclude("failed") ELSE stage' = "calls" /\ UNCHANGED outcome
  /\ UNCHANGED <<callerVars, view, call, rowVars, workVars, ledger, lateVars>>

\* A handler that raises: the session is rolled back, with all it holds.
RejectWrite ==
  /\ stage = "act" /\ Direct /\ MayChange
  /\ lost' = lost \cup session /\ session' = {}
  /\ view' = "expired"
  /\ \/ /\ Fault({"handler"})
        /\ IF IsStep THEN Conclude("failed") ELSE stage' = "calls" /\ UNCHANGED outcome
     \/ Fault({"handler", "ledger"}) /\ Conclude("error")
  /\ Acts
  /\ UNCHANGED <<callerVars, loop, call, stored, workVars, ledger, browsed>>

-----------------------------------------------------------------------------
(* Back in the caller.                                                     *)

\* execution_run closes the run of a step, plan audits a failed chat; an outage
\* of the ledger turns the outcome into an error.
Close ==
  /\ stage = "return"
  /\ stage' = "commit"
  /\ \/ /\ ledger' = IF ledger.run = "started" THEN [ledger EXCEPT !.run = "finished"]
                                               ELSE ledger
        /\ UNCHANGED <<outcome, faults>>
     \/ /\ IsStep \/ outcome \in {"provider_error", "error"}
        /\ Fault({"ledger"}) /\ outcome' = "error"
        /\ UNCHANGED ledger
  /\ UNCHANGED <<callerVars, view, loop, call, rowVars, workVars, lateVars>>

\* Billing counts the chats that were answered.
Metered == IF IsStep THEN {} ELSE {"usage"}

\* What the caller adds before it commits.
Reports ==
  CASE outcome = "provider_error" -> {IF IsStep THEN {"apology"} ELSE {}}
    [] outcome = "proposed" /\ ~IsStep -> {{"reply", "confirmation"} \cup Metered}
    [] outcome # "provider_error" /\ IsStep -> {{"reply"}, {}}
    [] OTHER -> {{"reply"} \cup Metered}

Keep ==
  /\ \E rows \in Reports : stored' = stored \cup session \cup rows
  /\ UNCHANGED lost
Drop == lost' = lost \cup session /\ UNCHANGED stored

\* Provider errors commit what there is; other exceptions roll back.

\* A plausible bug: a provider error rolls back as well.
Settle_OnlySuccess ==
  IF outcome \in {"error", "provider_error"} THEN Drop ELSE Keep

Settle == IF outcome = "error" THEN Drop ELSE Keep

Finish ==
  /\ stage = "commit"
  /\ stage' = "ended"
  /\ session' = {}
  /\ \/ Settle /\ UNCHANGED faults
     \/ Fault({"commit"}) /\ Drop
  /\ UNCHANGED <<callerVars, view, loop, call, workVars, ledger, outcome, lateVars>>

-----------------------------------------------------------------------------
(* The environment.                                                        *)

\* The switches may have any value at the start; after the loop none is asked,
\* and full access, read once by Grant, is not asked again within it.
Toggle(s) ==
  /\ stage \notin {"start", "return", "commit", "ended"} /\ toggles < MaxToggles
  /\ switch' = [switch EXCEPT ![s] = ~@]
  /\ toggles' = toggles + 1
  /\ late' = (IF s = "execution" THEN 0 ELSE late)
  /\ browsed' = (s # "execution" /\ browsed)
  /\ UNCHANGED <<kind, view, stage, loop, call, rowVars, workVars, ledger, outcome, faults>>

Die ==
  /\ stage \notin {"start", "ended"}
  /\ Fault({"death"})
  /\ stage' = "ended"
  /\ lost' = lost \cup session /\ session' = {}
  /\ UNCHANGED <<callerVars, view, loop, call, stored, workVars, ledger, outcome, lateVars>>

Work ==
  \/ StartChat \/ StartStep \/ StartRound \/ Answer \/ PlanDeterministic \/ EndTurn
  \/ \E c \in Call : TakeCall(c)
  \/ Refuse \/ Raise \/ ReadWorkspace \/ ReadRepository \/ UseBrowser
  \/ LogProgress \/ MarkTaskComplete
  \/ PreparePatch \/ ApplyPatch \/ RejectPatch \/ ProposePatch
  \/ Propose \/ DirectWrite \/ AuditWrite \/ RejectWrite
  \/ Close \/ Finish

LoopNext == Work \/ (\E s \in Switches \ {"full"} : Toggle(s)) \/ Die

LoopSpec == LoopInit /\ [][LoopNext]_loopVars

-----------------------------------------------------------------------------
(* The properties.                                                         *)

\* The write tools of a use of the provider directly change the workspace at
\* most once, unless the ledger failed to record the change; and nothing is
\* changed directly, by them or by the browser (which the code does not
\* count), but by the CEO in a use that began with full access.
OneDirectChange ==
  /\ "ledger" \in faults \/ changes <= 1
  /\ changes > 0 \/ clicks > 0 => IsCeo /\ loop.full

\* What was recorded on the way (the person's message, progress, a completion,
\* an edit) is stored in the end, whatever the provider answered and however
\* the loop was left, unless a handler, the ledger, a commit or the process
\* failed, or a call raised what no handler of the loop names.
WorkIsStored ==
  /\ lost # {} => faults # {}
  /\ stage = "ended" => session = {}

\* When execution is switched off, a step carries out no more than the one call
\* it had already been allowed, or the one invocation of the provider; reads of
\* the workspace and the CEO's browser, which the code does not ask the switch
\* for, go on through the rest of that answer, and no other answer follows.
SwitchStopsSteps ==
  IsStep => late <= 1 /\ (browsed => stage \notin {"asked", "first"})

\* Every invocation of the provider is in the ledger, and a run that was opened
\* is closed, unless the ledger or the process failed.
LedgerIsComplete ==
  /\ "ledger" \notin faults => ledger.recorded = ledger.asked
  /\ (stage \in {"commit", "ended"} /\ faults \cap {"ledger", "death"} = {}) =>
        ledger.run # "started"

\* The changes made are those the loop knows of, and the one not yet audited;
\* the browser's are not among them.
ChangesAreKnown ==
  /\ \/ "ledger" \in faults
     \/ /\ changes <= 1
        /\ stage # "ended" => changes = IF loop.changed \/ stage = "audit" THEN 1 ELSE 0
  /\ stage = "audit" => ~loop.changed

\* Nothing is changed before full access is granted.
ChangesAreGranted == changes > 0 \/ clicks > 0 => IsCeo /\ loop.full /\ stage # "start"

\* A call is late only while execution is off, and none is waiting after it.
LateCalls ==
  IsStep =>
    /\ ExecutionAllowed => late = 0 /\ ~browsed
    /\ stage \in {"asked", "apply"} => late = 0
    /\ stage = "act" /\ Checked(call) => late = 0
    /\ late <= 1
    /\ browsed => stage \notin {"asked", "first"}

\* What those rest on: an edit is begun within the budget, an error is one of the
\* faults, and a use begins with nothing recorded.
StepsAreInOrder ==
  /\ stage = "apply" => loop.patches < MaxPatches
  /\ outcome = "error" => faults # {}
  /\ stage = "start" => ledger.run = "none" /\ session = {}

\* The inductive invariant: the rows, the ledger, the changes and the late calls
\* of a use of the provider, at every step of the loop (copilot.py).
LoopInv ==
  /\ LoopTypeOK /\ WorkIsStored /\ LedgerIsComplete /\ ChangesAreKnown
  /\ ChangesAreGranted /\ LateCalls /\ StepsAreInOrder
=============================================================================
