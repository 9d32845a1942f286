# Enter AI in TLA+

This directory models the protocols inside Enter AI: what happens between the
transactions of the backend's API handlers and background loops (`src/backend/app`)
when several replicas run them at once and any of them may die, and what the web
client (`src/frontend`) makes of their answers. TLC checks small instances; TLAPS
proves the main safety properties for instances of every size.

Enter AI is a FastAPI service over one PostgreSQL database. Any number of replicas
of one process serve requests and each runs background loops (agent execution, email
retries, cleanup, audit aggregation). Components do not exchange messages: they
meet in database rows, in PostgreSQL advisory locks, and at outside parties
(Stripe, a mail relay, an identity provider; the AI provider is one more, modelled
only by what it may answer). So the hard behaviour is the same everywhere: a session
reads rows, decides, and commits later, while another replica does the same.

## Inventory

| Component | State | Operations | What makes it correct |
|---|---|---|---|
| Copilot confirmations (`main.py`, `copilot.py`) | `copilot_confirmations` rows, signed tokens | issue, confirm, consume, audit | a proposal is carried out once, and the audit trail does not lie |
| Proposal cards (`assistant.tsx`, `agents.tsx`, `page.tsx`) | outcomes in the view, messages in the page | show, run, reject, leave | a card says what was done |
| Agent scheduler (`execution.py`, `copilot.py`, `agent_workspace.py`) | agent pointer, failures, `last_execution_at`, advisory locks, ORM sessions | tick, lock, step, save, fail | one step per agent at a time, a cooldown apart, nobody starves |
| Task assignment (`main.py`, `services.py`, `hierarchy.py`, `admin.py`) | `tasks`, agent columns of `users`, the two switches | create, update, delegate, delete, retire, switch, message | pointer and assignee agree; a retired agent is inert |
| Org chart (`hierarchy.py`, `main.py`) | `hierarchy_configs`, agents as a tree | configure, reconcile, retire | the configured tree whatever was there; branches go whole |
| AI turns (`copilot.py`, `ai/`, `observability.py`, `agent_workspace.py`) | the loop's locals, the caller's session, the ledger | round, call, propose, write, patch, report | one direct change by the tools, none without full access; what was recorded is stored; the switch is heard |
| Billing webhook (`billing_service.py`) | `billing_webhook_events`, `organization_subscriptions` | deliver, record, apply | each event applied at most once; the row follows Stripe |
| Email outbox (`email.py`) | `email_outbox`, advisory lock | send, enqueue, drain, commit | no repetition without a crash or a lost answer, nor beyond the limit; the record is true; the queue drains |
| Governance and deletion (`admin.py`, `privacy*.py`, `sso_auth.py`, `enterprise_routes.py`) | `users`, `organizations`, `deletion_requests`, files, row lock, advisory lock | role, active, SCIM, policies, request, cancel, clean up | an administrator remains; completed means done; every due deletion runs |
| Accounts and sessions (`accounts.py`, `auth.py`, `tokens.py`) | `users`, `auth_tokens`, `invites`, session tokens | register, sign in, links, invite, accept, remove | one-time means once; old sessions die; seats are kept |
| Single sign-on (`sso_oidc.py`, `sso_routes.py`, `sso_auth.py`) | `identity_providers` with its client, secret and cached document, key cache, accounts | start, callback, patch, rekey, SCIM | the row says what was asked for; sessions of deactivated people die; nobody is refused without a reason |
| Documents (`main.py`, `storage.py`, `privacy_service.py`) | `project_documents`, files, advisory lock, a run's session | upload, create and delete projects, retention cleanup | file and row part only where a call failed; what is too old goes |
| Object mirror (`backup_objects.py`) | backup bucket, a run's two listings | list, copy, remove | living files keep their backup, deletions reach it |
| Chunking and indexing (`chunking.py`, `indexing.py`, `embeddings.py`) | the buffer, chunks, vectors, `document_chunks` | cut, embed, write | the chunks are the text, bounded, and each row holds its own vector |
| Rate limiter, collaboration API, browser, reporting, deployment, CLI | see `PROJECT.json` | | not modelled, or only where another component meets them |

The hard behaviours, with their lines and the properties that cover them, are the
`hazards` of `PROJECT.json`.

## Modules

Every component has a module of its own and a module `MC...` that instantiates it for
TLC; eight modules `...Proofs` hold the theorems, about the extended module too where
one extends another. `AssistantProofs` is about `Confirmations`, `Assistant` and `ToolLoop`,
`OrgChartProofs` about `AgentTasks` and `OrgChart`, `StorageProofs` about `Documents`,
`ObjectMirror`, the two beside each other, and `Chunking`. `OrgChart` and `Assistant` compose: the one runs
the chart beside everything `AgentTasks` has agents do, the other the cards beside the
server of `Confirmations`, each by extending the other's module and giving its actions
a share in the new state. What two components have in common is stated once, as an
abstract specification: `AtMostOnce`, which two of them implement, and `Bucket`, which
one implements and another builds on.

**`AtMostOnce`** is that specification: an item is claimed at most once, and only a
claimed item takes effect, at most once. Confirmations and webhook events are the
two one-shot operations of the system; both modules instantiate it
(`Once == INSTANCE AtMostOnce WITH ...`) and have it as a property.

**`Confirmations`**. One action per transaction of `POST /api/ai/confirm`:
`Authorise` (token, role and switch), `ConsumeOnce`/`ConsumeNothing` (the one
UPDATE of `_consume_confirmation_once`), `Apply` (the write handler's own commit),
`Audit`. `Abandon` is an exception or a dead process at any of those points. A
proposal stands for its token, its claims and its row, since rows are keyed by the
token's hash. What the write changes is one increment of `effects`.

**`Assistant`** adds the page. `Show` puts a proposal on a card, `Run`/`RunForAgent` post
its token (the Copilot's card then waits, the inspector's button stays), `Reject` is
local, `LeaveView` and `CloseInspector` are what React forgets when a component goes.
`Succeed` and `Fail` are the ends of a handler, as the page may hear of them;
`LoseAnswer` is a broken connection while the handler works on, and `Tell` brings the
answer to the card. `unsure` is a history: the proposals of whose confirmation the page
missed or forgot something.

**`AgentTasks`**. The committed columns are the record `db`. An API handler is two
actions: `UpdateTask(c, ...)` and its kind read `db`, decide, and note in
`pending[c]` the columns they changed; `Commit(c)` writes those columns onto
whatever `db` then is. That is what SQLAlchemy does at READ COMMITTED, and it is
where updates are lost. The scheduler's actions follow `run_execution_tick`:
`StartTick` (the eligibility query loads the agents), `TakeLock`/`PassBusy`,
`PassOver` (cooldown or switch), `ClearPointer`, `BeginStep`, the provider's
outcomes (`Answer`, `ProviderError`, `EditRepository`), `SaveStep`, `FailStep`.
`seen` and `job` are the session's copies of rows: a commit or rollback expires
them, and until then the code decides on them. The provider is nondeterministic.
Conversations, comments and messages are left out.

**`OrgChart`**. `Configure` is the first commit of `PATCH /api/hierarchy-config`, the
counts; `Reconcile` computes, as the recursive function `Filled` over the levels, who
keeps a seat, who is hired and, as `Removed`, who goes with the branch, and leaves them
in the request's pending rows; `CommitRows` is the second commit, `Interrupt` and
`RollbackRows` lose it. Agents are numbered by `created_at`, which decides who stays; the
first two may be there from the start, so that a reconciliation meets rows that others made.
`intact` says that a request's view of the chart is still true; `settled`, that nothing
has changed since a reconciliation from a true view.

**`ToolLoop`** is one use of the AI provider: a chat with the Copilot, a chat with an
agent or the CEO, or an autonomous step. `StartRound` and `Answer` alternate with the
calls: `TakeCall` (repetitions, the switch), then one action per kind of tool. `session`
holds the rows the calls add; `DirectWrite` commits it, because the handler of the
CEO's write does, `RejectWrite` rolls it back, and `Finish` is the caller's commit.
`AuditWrite` and every record of the ledger are transactions of their own and may
fail. `Toggle` flips the switches and `Die` kills the process. `lost`, `late`, `browsed`,
`clicks` and `changes` are histories. `UseBrowser` is the CEO's browser, whose page may
ask the API for any number of changes (`BrowserWrites`); the ones that full access lets
through are counted in `clicks`, apart from `changes`, because the code does not count
them, and with the call that opened the page. Neither it nor a read of the workspace is
asked the switch, so `Acts` is not part of them; `browsed` and `SwitchStopsSteps` say how
far they go. `Raise` is an exception that no handler of the loop names, the fault "call":
of a read, a check of the switch or a database call; the handlers in `CatchAll` name
every one. Full access is read by `Grant`, at the start, and not again, so `Toggle` may
flip the other switches only: flipping this one later would change nothing here.

**`BillingWebhook`**. `StripeStep` (external) issues the events of one customer:
subscribe, check out, change, cancel, something else. A delivery is `Receive`,
`Record` (first commit) or `SkipConcurrent` (unique constraint), `Load`, `Save`
(second commit, changed columns only), or `Fail` at any point. Signature checking
and period dates are left out; a price Stripe has and `billing_plans` has not is
`None`. A customer has one live subscription at a time: neither `billing_routes.py:62-71`,
which opens a checkout for a workspace that has a subscription, nor
`billing_service.py:174-193` enforces that, and with two the row follows whichever
event came last.

**`EmailOutbox`**. `DeliverNow`, `FailNow`, `Enqueue`, `EnqueueFails` are `send`;
`StartTick`, then `Abandon`, `Deliver` or `Postpone` for each message of the batch,
then `CommitBatch` and `EndTick` are a tick; `Crash` may take it anywhere. An attempt
that raises (`Raise`, in `FailNow` and `Postpone`) may have been accepted all the same:
SMTP can time out waiting for the answer to DATA, or fail on QUIT. The code cannot tell
and neither do its rows; the histories `deliveries` and `unanswered` count what the
relay accepted and how much of it was not answered. Backoff and age are the sets `due`
and `old`, which time only enlarges. The connection that holds the lock is assumed to
live as long as its tick.

**`Governance`**. `UpdateRole` and `SetActive` take the organization's row lock;
`DeleteMyAccount`, `DeleteOrganization` and `CancelDeletion` do not; SCIM writes
(`ScimDeactivate`, `ScimUpsert`) ask nobody. Handlers read in one action and commit
in another. The cleanup loop is `StartTick`, `RunUser`/`RunWorkspace`, `Finish` (one
commit per request), `AbortTick` (a foreign key refuses the deletion), `EndTick`,
`Crash`. `linked` says which rows refer to the organization that
`delete_organization_data` does not delete: none, a policy, an allowlist or an audit
aggregation (`Save`, `Aggregate`), or an identity provider too, without which there is
no SCIM. Roles below administrator are one role.

**`Accounts`**. A request reads and checks in `Start`, and commits in the action of its
kind (`Register`, `Forgot`, `Reset`, `Change`, `CreateInvite`, `AcceptInvite`, `Deactivate`,
...); only removal and return of people hold a lock in between. `Mint` is the session
handed out after the commit, from the row as it is then. `era` counts credential events
of an account, which `session_epoch` stands for; `overlapped`, `overwritten` and
`readmitted` are histories of what the properties except.

**`SsoLogin`**. A login is two requests of a browser, `Start`, `Discover`, `Send`, then
`Call`, `Discover`, `Exchange`, `Verify`, `Match`, `Complete`; between reading the provider's
row and the commit lie up to three calls to the issuer, any of which may `Fail`, and
meanwhile `Patch` changes the settings, `Rekey` rewrites the stored secret, `RotateKey` the
issuer's keys, and SCIM creates, deactivates and reactivates the same accounts. A client
and a secret are named by the issuer they are registered at. `Form` is what an
administrator may send: an issuer or a secret that is left out stays, a client that is
left out becomes blank (`Moved`), and `settings` is the history of what was asked for, so
the three may come apart, and logins with settings that are not `Whole` are refused.
`Expire` is a login that took longer than its state is valid. Issuers in `Unnamed` sign
tokens that do not name their key; every issuer publishes one key at a time. A secret
that was never set is not among the settings: the login is refused as with a wrong one.

**`Chunking`** is `index_document` for a text given as paragraphs of sentences of
lengths: `AddParagraph`, `OpenParagraph`, `AddSentence`, `CloseParagraph`, `CloseText` are the
two nested loops of `chunk_text` and `EmbedBatch`, `WriteRows`, `EmbeddingFails`,
`EndRequest` the rest. A token is its position in the text. No paragraph and no sentence
is empty, for the code drops those (`chunking.py:58`, `67`); sums and joined texts are
recursive functions, and the clean boundary of an overlap is the least of a set.

**`Bucket`** is what the upload bucket promises: a key is saved once, may be deleted
any number of times, and never comes back. `Documents` implements it
(`ImplementsBucket`), and `ObjectMirror` runs beside it (`Source!Next`), so that the
mirror need not know requests and retention runs.

**`Documents`**. A request's actions follow the order of the code: `StartUpload`
saves the file, `CommitUpload` or `UploadRefused` (the project is gone, and with it
the foreign key) ends it; `StartDelete` reads the list of a project's documents,
`Discard`/`DiscardFails` are `_discard_file` for each, `FinishDelete` or
`DeleteRefused` (a document came after the list was read) the transaction; `StartProject`
and `CommitProject` move documents of drafts into a new project. A retention run is
`StartTick` (every workspace, under the advisory lock) or `RunNow` (one workspace, no
lock), then for each workspace `SelectStale`, `DeleteStale` (which waits for rows
another run is deleting), `Purge`/`PurgeFails` for each file and `CommitOrg`.
`Abandon` and `AbortRun` are an exception or a dead process anywhere. `leaked` and
`cut` are histories: the files and the rows that such failures left behind. Every
workspace has a retention policy, which stays as it is.

**`ObjectMirror`**. `StartListing` and a `ReadSource` for each key (a listing is read
in pages while files come and go), `ListBackup`, then `Download`/`Upload` through the
spool and `RemoveCopy`; `DownloadMissing` (the file was deleted since it was listed) and
`AbortRun` end a run early. One process mirrors, as the deployment has it.

PostgreSQL is assumed: on SQLite the locks always grant, which the code documents
as a single-process setup.

## Runs

| Run | Instance | Shows |
|---|---|---|
| `confirmations` | `MCAssistant`: 2 proposals, 2 handlers | a write happens once however often it is confirmed; audited writes exist; cards say what was done; refinement of `AtMostOnce` |
| `agent_replicas` | 1 agent, 2 tasks, 2 replicas, 1 request, 1 crash | mutual exclusion, spacing, pointer and assignee agree, no starvation |
| `org_chart` | 4 agents on 3 levels, 2 tasks, 1 replica, 2 clients, 4 shapes, 3 requests | a reconciliation leaves the configured tree; branches go whole; who goes is inert |
| `copilot_loop` | 2 rounds, 3 calls with 2 arguments, 1 patch, 0 or 2 changes by a use of the browser, 2 flips, 2 kinds of fault | one direct change by the tools and none without full access, nothing recorded is dropped, the ledger is whole, a step stops at the switch but for what is not asked of it |
| `billing_webhook` | 2 subscriptions, 4 events, 2 replicas, 1 failure | events applied at most once; in-order processing yields Stripe's status |
| `email_outbox` | 2 messages, 2 replicas, 1 crash, 3 attempts, batches of up to 2 | repetitions have a crash or a lost answer for their cause, and a bound; outcomes are true, also in a batch of which one fails; the queue drains |
| `governance` | 2 people (1 under SCIM), 2 deletions, 3 requests, 2 replicas, 1 crash | last administrator, truthful completion, files with rows, due deletions run |
| `accounts` | 2 addresses (1 that does more than join), 2 links, 2 invitations, 2 requests at a time, 1 seat, 2 credential events, 1 session | links and invitations act once, seats are kept, sessions die with their credentials |
| `sso_login` | 2 issuers (1 whose tokens name no key), 4 forms, 1 person, 2 logins, 2 requests at a time, 3 events | the provider's row says what was asked for, sessions follow provisioning, refusals have a reason |
| `documents` | 2 workspaces with a document each, 1 project, 2 requests and 2 retention runs (1 periodic) at a time, 1 failure | files and rows part only by failures; the bucket is used as `Bucket` says; too old documents go |
| `object_mirror` | 3 keys, 1 failure | no living file loses its backup; deletions and files reach it |
| `chunking` | all texts of a few paragraphs and sentences, asked sizes 1, 3 and 9, overlaps 0, 1 and 7, sizes clamped to 2..4 | nothing lost, reordered or repeated beyond the overlap; chunks bounded; rows hold their own vectors |

Six more configurations are for running by hand. Five give TLC's counterexample to
something the code's own words say, or that one would expect of it:

| Configuration | Property | What the counterexample shows |
|---|---|---|
| `MCAgentTasksEdits` (module `MCAgentTasks`) | `EditsWhileAssigned` | a repository edit for a task that is no longer the agent's |
| `MCBillingWebhookLost` | `RecordedIsApplied` | an event recorded and never applied |
| `MCEmailOutboxTwice` | `SentOnce` | a message sent twice: the relay accepted it and its answer was lost |
| `MCGovernanceStuck` | `DueDeletionsRun` | a linked workspace that is never deleted, under the fairness below |
| `MCAssistantRejected` | `RejectedChangedNothing` | "Nothing was changed" said of a write that was made |

`MCAgentTasksRequests` checks `PointerFollowsAssignee` and `RetiredAgentIsInert` with two
agents and requests one at a time; `AssignmentsAreSound` implies the two.

Bounds. Two replicas suffice for what locks protect: each property speaks of at most
two holders. Two agents, tasks, people or messages give every case of "the same"
and "another". `MaxRequests`, `MaxEvents`, `MaxFailures`, `MaxCrashes` and
`MaxAttempts` cap counters: two requests let one change what the other has read,
four events reach cancel-and-subscribe-again with a checkout between, three attempts
separate the first, a middle and the last one, and one crash lets a survivor find
what the dead left. `MaxFailures` in `AgentTasks` is the breaker of the code with
the value 2 for its 3. `BatchLimit` is 2, so a batch may hold both messages or,
when one is not due, be drained while the other waits.
In `documents` no bound limits requests: the uploads are as many as the documents, and
a project is created and deleted once. A second workspace lets a failure there meet
files purged here; a project may already exist in the initial state, so that both
requests can race on it. In `org_chart` four agents let two requests both hire for
the same two seats, and three levels let a branch go whose root goes for its
superior's sake. In `copilot_loop` two rounds let a call follow the report of
another, three calls repeat one twice, two kinds of fault let one hide another, and a
browser that changes nothing or two things differs from a tool that changes one. In
`accounts` one address is only ever invited, which is all the second is needed for, and
the seat limit counts seats besides the administrators'. `sso_login` has room for a
rotation, a deactivation and a change of the provider during one login; its forms move
everything at once, the issuer alone, the client and secret after it, and nothing.

Deadlock is not checked (`CHECK_DEADLOCK FALSE`) where the system may really stop:
when the requests and events of the bound are used up and the queues are empty, when a
use of the provider has ended, when the request that indexes a document has.
`Assistant`, `Documents` and `ObjectMirror` have no such state and are checked.

Symmetry is used over agents, tasks, requests, logins, links, invitations, handlers or
arguments that no property of those runs names, and never in a run with a liveness
property.

Properties worth a remark:

- `CardsTellTheTruth` excepts proposals in `unsure` from what "Rejected. Nothing was
  changed." says, and only them; see `RejectedChangedNothing` below.
- `AssignmentsAreSound` is checked and proved for one client, `BranchesGoWhole` says the
  same for any number until requests race: the code then fails (see below). Both speak
  of the table and of what the open requests will leave there.
- `ChartFollowsShape` is about the moments after a reconciliation whose view was true.
- `LoopInv` is relative to `faults`: an outage of the ledger may let the CEO
  write twice, a failing handler, call, commit or process may lose what was recorded.
  The browser's changes are bound to full access by it, and by nothing else.
- `SwitchStopsSteps` counts what a step does after execution was last switched off: one
  call whose check came before, or the one invocation of the provider; what is not asked
  the switch ends with the answer it came in.
- `RepeatsAreExcused` lets a message be accepted again for each tick that died and each
  answer that was lost, and bounds the latter by MAX_ATTEMPTS.
- `StatusFollowsStripe` is conditional on `InStep`, a history that says events were
  applied one at a time, in order and none lost; the handler compares no timestamps.
- `AdminRemains` is conditional on `bypassed`: no account deletion was executed and
  SCIM wrote nothing. Those two paths do not apply the last-administrator rule.
- `CompletedIsCarriedOut` exempts people the identity provider may write anew.
- `OneTimeAccess` and `SessionsFollowCredentials` except overlapping requests about the
  same account or workspace, epochs set from stale reads, people reactivated, and
  sessions whose epoch was read after the password was checked.
- `SignOn` excepts changes of the provider that overlap a login or a re-encryption, and
  epochs a provisioning call wrote over another's.
- `RefusalsAreExcused` lists its excuses: an outage or an answer that is no document of
  the issuer, the callback sent again, a state that has expired, a change of the provider
  or a rotation meanwhile, settings that do not belong together, a token that names no
  key while an old one is cached, and an overlap as above. Refusals by the workspace
  (an address that is taken, an account that is switched off) are not refusals of the
  issuer's word and are not counted.
- `OrphansAreLeaks` and `RowsAreIntact` are relative to `leaked` and `cut`: the code
  does leave files without rows and rows without files, and the properties say that
  only a call that failed, or a deletion interrupted before its own commit, does.
- `DueDeletionsRunUnlinked` is `DueDeletionsRun` for a workspace to which no rows refer
  that block its deletion: the counterexample is due to those rows alone.

## Fairness

`AgentTasks`: each replica's loop (`while True` with a sleep, exceptions caught), the
end of each request, and time. Provider calls have timeouts and a bounded number of
rounds, so a step ends; a crashed replica restarts, or its share is taken over.
`EmailOutbox` and `Governance`: some replica's loop keeps ticking, requests end, time
passes; the relay is not assumed to accept anything. `Documents`: some replica's
cleanup loop keeps ticking and a run that has begun goes on, but no request need come
or end. `ObjectMirror`: the loop of `--loop` goes on, whatever ended the last run. No
fairness is put on requests,
events, crashes, or on the provider succeeding. The counterexample to
`DueDeletionsRun` holds under this same fairness. The other modules state no fairness
and no liveness: what they begin is a request, which ends.

## Proofs

Every theorem is about the specification without fairness, for any finite or infinite sets
of replicas, handlers, agents, messages and so on, from the named assumptions on the
constants only: `None` is not one of them, bounds are natural numbers, and in `Accounts`
the tables that are counted are finite.

| Module | Theorems | Argument |
|---|---|---|
| `AssistantProofs` | `Invariance`, `AtMostOneEffect`, `AuditIsTruthful`, `Refinement` | past the consuming UPDATE a handler is alone with its proposal (`OneWinner`), and its phase says whether the write was made (`WinnerHoldsRow`); without these the bound on effects is not inductive |
| | `PageInvariance`, `CardsAreTruthful`, `PageRefinement` | the page is a caller like any other, so the above holds of it; a request answered well was carried out and audited (`AnswersAreTrue`); while the page has missed no answer about a proposal, one request at most serves it, for which the card waits, and nothing was written unless the card waits or says so (`PageKnows`) |
| | `LoopInvariance`, `AtMostOneChange`, `NothingIsDropped`, `SwitchIsHeard`, `LedgerIsWhole` | the loop's flag counts the changes, up to the one whose audit is due (`ChangesAreKnown`); a checked call found the switch on, so only one can be late, and after the browser no answer is asked for (`LateCalls`); changes of either kind come after `Grant` found full access on (`ChangesAreGranted`); an error outcome, which drops the session, came from a fault (`StepsAreInOrder`) |
| `OrgChartProofs` | `Invariance`, `MutualExclusion`, `Spacing` | a worker holds its agent's lock until it leaves the agent (`WorkersHoldTheLock`), so the cooldown read under the lock stays true (`SteppedHasCooledDown`); only a step's own save ends it |
| | `AssignmentsStaySound`, `ChartInvariance`, `BranchesAreWhole` | every handler turns rows that are `Sound` into such rows (`ClientStepBegins`, `ReconciledIsSound`, whoever the reconciliation seats); between its reads and its commit the others only finish, delete and drop (`Fading`), which keeps what it will save sound where the database accepts it |
| | `ChartInvariant`, `ChartStaysSound` | agents are numbers, so of several that would break a rule there is a first one (`LeastNumber`), and what the recursion `Filled` returns is followed from one level to the next (`Climb`): each level has its number under each superior (`ChartFills`), whoever is cut off goes with the branch (`ReachedFromAbove`), and the rows left are the tree (`ReconciledIsShaped`); nothing disturbs it before the commit (`ChartInv`) |
| `BillingWebhookProofs` | `Invariance`, `Refinement` | between its two commits a delivery is the only one for its event, which is recorded and not applied (`OneApplier`) |
| | `StatusIsStripes` | while events are applied one at a time and in order, the session that has loaded the row holds it as it is (`SessionIsCurrent`) and a linked row says what the last applied event says (`RowFollowsEvents`), which is what Stripe says of its latest subscription (`StripeIsOrderly`) |
| `EmailOutboxProofs` | `Invariance`, `RepeatsHaveACause`, `RecordIsTrue` | the drainer holds the lock and untried messages of its batch are as it read them (`DrainerIsAlone`); each message has at most one answered acceptance per crash not yet spent (`EachCrashMayRepeat`); every acceptance is an attempt its row counts, or will when the batch is committed, or one that died with a tick (`AttemptsAreCounted`) |
| `GovernanceProofs` | `Invariance`, `LastAdministrator` | the row's holder is the only one about to change a user, what it read is current, and its change leaves an administrator: the actor, who is not the one demoted (`ChangeIsCurrent`) |
| | `CompletedMeansCarriedOut`, `FilesStayWithRows` | a marked row stays without personal data until SCIM writes it (`MarksAreTrue`), and no open request changes that (`ChangesKeepErasure`); a request in a batch keeps its id (`BatchIsRecorded`), and the change about to be committed with its "completed" erases, or follows an erasure (`ErasureIsPrepared`) |
| `StorageProofs` | `Invariance`, `NoFileIsForgotten`, `RowsKeepTheirFiles`, `Refinement` | until its row is committed a file is known to its own request only (`SavedIsPrivate`), so nobody deletes it before it is there; what a deletion in progress has passed is deleted or a leak (`TakenIsGone`) |
| | `MirrorInvariance`, `FilesKeepTheirBackup` | a key of the backup that the listing of the source has passed over was deleted, and stays so (`MirrorIsSound`, `CopiesAreOfFiles`) |
| | `StorageComposes`, `RowsKeepTheirBackups` | requests and retention runs beside the mirror on one bucket are a behaviour of `Documents` and one of `ObjectMirror`, whose bucket does what `ImplementsBucket` proves requests do; so a backup is removed only if the document's row is gone, going, or was cut off |
| | `ChunkInvariance`, `ChunksAreTheText`, `ChunksStayBounded` | a chunk, and what the buffer would make, is one stretch of the text that starts at most one token after the end of the last and ends beyond it (`IsStretch`, `Continues`), and the end of what is stored is what was read (`ChunksAreChained`, `BufferIsNext`); what follows a boundary is itself the end of a stretch (`EndIsStretch`, `CleanBoundaryIsAnEnd`), and a stretch has at most as many words as it is long (`StretchIsAsLong`); the sums and the joined texts are followed index by index, by `LeastNumber` and `Climb` in place of induction (`SumsGrow`, `JoinedGrows`) |
| `AccountsProofs` | `Invariance`, `AccessOnce` | between its reads and its commit nobody else changes the links, invitations and members a request has read (`LinksAreAsRead`, `SeatsAreLeft`) without `overlapped` showing it (`ClashesAreKnown`); an effect leaves its row used (`EffectsAreFinal`) |
| | `CredentialsEndSessions` | where no epoch was written over another, an epoch equal to the account's was taken after the account's last credential event (`EpochsCount`), and every event raises it |
| `SsoLoginProofs` | `Invariance`, `SignOnIsSound` | as long as no change of the provider has overlapped a use of it, what every request has read of it is what the row says, and the row is what was asked for (`IssuerIsSettled`), so a form that leaves a field out leaves what was asked for before, and what is stored belongs to the configured issuer; epochs count as in `Accounts` |
| | `NobodyIsTurnedAway` | a login nothing has disturbed began with settings that belong together and are still in force, is alone with its code, at the configured issuer, and its token's key is in force (`OneRequestForEach`, `LoginsAreAsBegun`): the issuer accepts the code, and one look at its keys finds the right one |

Each `IndInv` is also an invariant of a run, that of `Confirmations` as a conjunct of
`PageInv`, those of `ToolLoop` and `ObjectMirror` under the names `LoopInv` and
`MirrorInv`. Five are not listed with a run: `IndInv` and `EpochsCount` of `Accounts`,
`IndInv` of `SsoLogin`, `ChartInv` of `OrgChart` and `ChunkInv` of `Chunking`, which TLC
finds to hold in the instances of `accounts`, `sso_login`, `org_chart` and `chunking` when
they are added to those configurations. `StorageComposes` assumes that
documents are the keys of the bucket (`Key = Doc`), which is what the upload does. No
theorem about `AgentTasks`, and of those about `OrgChart` only the last two, cites the
numbering of agents that `OrgChart` assumes. Those two look into `Filled`; the other
proofs about `OrgChart` hold whoever is hired, retired and seated. Type
correctness is a theorem of each module, or a conjunct of its invariant.
`EffectAtMostOnce` of `Confirmations`, `OneDirectChange`, `WorkIsStored` and
`LedgerIsComplete` of `ToolLoop` follow from `LoopInv` and are not repeated in the runs.

Model-checked only is liveness (`AgentIsServed`, `QueueDrains`, `DueDeletionsRunUnlinked`,
`StaleRowsGo`, `DeletionsReachBackup`, `FilesAreBackedUp`), which is out of the prover's
reach: every other property of the runs is stated by a theorem, or follows from one as
said above.

## What the code does otherwise

Shown by TLC, with the configurations above:

- An agent's patch is applied although the task was reassigned while the provider
  answered: the assignment is tested on rows the session loaded before
  (`agent_workspace.py:485`; `copilot.py:842-843` says that the task is the agent's).
- A billing event whose handler dies between its two commits is never applied: Stripe's
  redelivery finds it recorded (`billing_service.py:249`, against the comment at 253-254).
- A message is sent twice (against the docstring at `email.py:202`) when the relay
  accepted it and its answer was lost: the attempt raises (`email.py:70-75`) and the
  message is queued or postponed (`email.py:139-142`, `188-194`). So it is when the tick
  dies before its commit (`email.py:197`).
- A workspace with an identity provider, a session policy, an allowlist entry or a row
  of the audit aggregation is never deleted, nor are the requests due after it: the
  foreign key refuses, the tick aborts, and the next one begins with the same request
  (`privacy_service.py:210-211`, `254-255`). With the aggregation loop on, every
  workspace has such a row after the loop's first tick (`observability.py:345-382`).
- A card says "Rejected. Nothing was changed." (`assistant.tsx:122`) of a proposal that
  was carried out, when the answer to its confirmation was lost or failed after the
  write, or when the view was left meanwhile. The comment "it can be run or rejected
  exactly once" (`assistant.tsx:15-16`) does not hold either: what was done with a
  proposal is kept in the view and not in the page, so the buttons come back with it.

Seen while modelling, and excluded by the condition of a property rather than shown:

Agents and tasks
- Two administrators at once, one delegating a task to an agent and the other
  retiring it, leave a retired agent with a task (`main.py:706`, `hierarchy.py:65`).
- A step that completes a task writes `done` by id: if the task was reassigned
  meanwhile, the new assignee's task is done and its pointer stays
  (`copilot.py:916`, `services.py:72`).
- The failure counter is written from the session's copy, so a human's reset during
  a step can be overwritten (`execution.py:121`).
- `create_task` with an agent as assignee leaves the agent's pointer alone: the agent
  is not scheduled for it (`main.py:481`).
- An agent retired alone leaves its reports under it, and a reconciliation never looks
  at them. Counts are committed before the agents (`main.py:692`): a failure between
  leaves them apart until the next change. Two changes at once hire twice, which the
  next one heals.

AI turns
- When a direct write of the CEO fails, the rollback takes the person's message and the
  notes of earlier calls with it, and only the later reply is stored.
- When the ledger fails after a direct write was committed, the model hears of a failure
  and may make a second change (`copilot.py:991-994`).
- A write proposed by an autonomous step has its token in the step's result only, and
  no row is issued for it: it cannot be confirmed (`copilot.py:999`).
- A repeated call or a switch flipped late ends a chat or step with an error that does
  not report edits already made; full access is read once, at the start.
- With full access each use of the CEO's browser may change the workspace any number of
  times, beside the write tools: "Only one direct workspace change is allowed per turn"
  (`copilot.py:792`) is about those. Execution is not checked before it
  (`copilot.py:905`), so it goes on to the end of the answer after "Organization
  execution is disabled for all agents." (`admin-console.tsx:146`).
- An exception other than the ones the loop names, of a read for instance, leaves it
  (`copilot.py:1012`) and the caller rolls back what was recorded.

Accounts
- A one-time link is read, tested and marked without a lock (`tokens.py:62`): requests
  that overlap may use it twice, or leave two live links.
- Seats are counted before the member is added (`billing_service.py:148`); `set_active`
  asks for none.
- `session_epoch` is set to the value read plus one (`accounts.py:192`, `220`,
  `admin.py:181`; `sso_auth.py:59`, `129`): two events at once raise it once. A sign-in
  reads the epoch after its commit, not when it checked the password.

Single sign-on
- A discovery document fetched for the issuer a request has read is stored on the row
  after an administrator changed the issuer (`sso_oidc.py:166-168`); a rotation of
  secrets writes back the one it read (`secrets_store.py:105-115`).
- A form that leaves out fields changes the issuer but keeps the secret of the old one,
  and makes the client blank (`sso_routes.py:155-157`; the comment at 158-165 says that
  only the issuer is not a full replacement): logins are refused until the rest follows.
- A token without a key id is tried with the first cached key, and refused for up to an
  hour after a rotation (`sso_oidc.py:248`). A person who takes longer than ten minutes
  at the issuer is refused (`sso_oidc.py:115-119`).
- A signed state may be used again for ten minutes, and two first logins at once make
  the second fail at the unique email. An account created by SCIM has a subject that no
  OIDC login matches (`sso_oidc.py:321`, against the comment at `sso_auth.py:104`). SCIM
  PUT and POST ignore `active` for existing accounts.

Billing
- The plan of a first subscription is lost when `customer.subscription.created` is
  processed before `checkout.session.completed`, and an unknown price leaves the old plan.

Governance
- The last-administrator rule of `delete_my_account` is applied when the deletion is
  requested only (`privacy.py:63`); SCIM applies none (`sso_auth.py:135`).
- A cancellation that commits while its deletion runs overwrites `completed`, or is
  overwritten by it (`privacy_service.py:248`, `276`); two requests at once for one
  target may both become pending (`privacy_service.py:228`).
- SCIM reactivates and renames an anonymized user; a later deletion of that user is
  skipped because `anonymized_at` is set (`privacy_service.py:125`).

Documents and indexing
- A document uploaded while its project is being deleted makes the foreign key refuse
  the deletion, whose files are already gone: the rows stay without them
  (`main.py:560-570`). A refused or interrupted upload leaves its file
  (`main.py:437`, `467`).
- Chunks are flushed after the document's commit and never committed
  (`main.py:446-453`, `469-475`), so no chunk is ever found. A flush that fails makes the
  `except` read an expired row, and the upload answers 500 after its commit.
- A chunk may exceed `chunk_size` by its overlap, by the blank lines, and by a sentence
  that cannot be cut (`chunking.py:76-80` promises "up to chunk_size tokens").

Outside the models
- The limiters said to "gate only AI endpoints" (`ratelimit.py:77-79`) gate sign-in,
  sign-up, recovery and invitations: without Redis those are refused, and AI endpoints
  have no limiter.
- `ai ask --confirm` of the command line client posts a tool and its arguments, where the
  API requires `confirmation_token` (`main.py:178`).

## Plan

Done: all modules above, with their runs, and the proofs of all of them. What would come
next: SCIM PATCH combinations and the creation of people by SCIM in `Governance`;
attachments of tasks in `Documents`.

## Not modelled

- Rate limiter: a window is one atomic script on the Redis server, or one list under a
  lock; nothing interleaves, and what is left is the arithmetic of clocks.
- Collaboration API (projects, teams, comments, notifications, search): rows written and
  read in one transaction, with no protocol between them.
- The text of prompts and answers: routing, profiles, the textual tool-call adapter,
  grounding of names, redaction. `conversation_memory.py` and `context_budget.py` change
  nothing that is kept.
- Browser and git subprocesses, embeddings as numbers, search, exports, the cipher of
  stored secrets, creation of the bucket, deployment files, the command line client, and
  the rest of the web client: I/O, numeric, sequential or rendering.

`PROJECT.json` gives the reason for each component, and what is left out of those that are
modelled partly.
