------------------------------ MODULE SsoLogin ------------------------------
(***************************************************************************)
(* Signing in through an identity provider (sso_oidc.py, the login routes  *)
(* and the provider settings of sso_routes.py), beside the provisioning    *)
(* calls that make and switch off the same accounts (sso_auth.py, the SCIM *)
(* routes of sso_routes.py).                                               *)
(*                                                                         *)
(* A login is two requests of a browser.  The first resolves the issuer's  *)
(* endpoints (the discovery document, cached on the provider's row) and    *)
(* sends the browser there; nothing is kept but a signed state.  The       *)
(* second, the callback, resolves them again, trades the code for a token, *)
(* checks its signature against the issuer's keys (cached in the process), *)
(* finds or makes the account and gives out a session.  Three calls to the *)
(* issuer lie between the callback's reading of the provider's row and its *)
(* commit, and administrators and the provisioning engine are at work      *)
(* meanwhile.                                                              *)
(*                                                                         *)
(* A client and a secret are named by the issuer they are registered at.   *)
(* An issuer publishes one signing key at a time; keys are numbered by     *)
(* generation.                                                             *)
(***************************************************************************)
EXTENDS Naturals, FiniteSets

CONSTANTS
  Issuer,       \* issuers an administrator may configure
  First,        \* the one configured at first
  Unnamed,      \* issuers whose tokens do not name the key they are signed with
  Form,         \* forms an administrator may send, with fields that are left out
  Person,       \* subjects at the identity provider, one email each
  Flow,         \* logins a browser may begin
  Request,      \* requests that may be running at once
  None,         \* no document, no key set, no login
  MaxEvents,    \* bound: what happens besides logins
  MaxSessions   \* bound: sessions at once

ASSUME FirstAssumption == First \in Issuer /\ Unnamed \subseteq Issuer
ASSUME NoneAssumption == None \notin Issuer \cup Flow \cup Person \cup Nat
ASSUME FormAssumption ==
  Form \subseteq [issuer : Issuer \cup {None}, client : Issuer \cup {None},
                  secret : Issuer \cup {None}]
ASSUME BoundsAssumption == MaxEvents \in Nat /\ MaxSessions \in Nat

VARIABLES
  provider,     \* the row of identity_providers
  key,          \* the signing key each issuer publishes
  jwks,         \* _jwks_cache: the key fetched less than an hour ago
  flow,         \* each login at the browser and the issuer
  account,      \* rows of users and their SCIM mapping
  sessions,     \* session tokens given out
  request,      \* what each running request has read
  era,          \* deactivations of each account (history)
  overwritten,  \* accounts whose epoch was set from a stale read (history)
  settings,     \* what the administrators have asked for, in turn (history)
  overlapped,   \* a change of the provider overlapped its use (history)
  disturbed,    \* logins that met an outage, a repetition or a change (history)
  needless,     \* logins refused without any of these (history)
  events        \* what happened besides logins, counted

history == <<era, overwritten, settings, overlapped, disturbed, needless, events>>
vars == <<provider, key, jwks, flow, account, sessions, request, history>>

Homes == {"none", "sso", "scim"}
Logins == {"starting", "called", "discovered", "exchanged", "verified", "matched"}
Ops == Logins \cup {"idle", "patching", "rekeying", "creating", "deactivating",
                    "reactivating"}
Rows == [issuer : Issuer, client : Issuer \cup {None}, secret : Issuer,
         cache : Issuer \cup {None}, fresh : BOOLEAN]
Settings == [issuer : Issuer, client : Issuer \cup {None}, secret : Issuer]
Passages == [stage : {"idle", "starting", "sent", "code", "called", "spent", "expired"},
             at : Issuer \cup {None}, who : Person \cup {None}]
Accounts == [home : Homes, active : BOOLEAN, epoch : Nat]
Readings == [op : Ops, flow : Flow \cup {None}, row : Rows, doc : Issuer \cup {None},
             store : BOOLEAN, signed : Nat, who : Person \cup {None}, epoch : Nat,
             era : Nat]

FirstRow == [issuer |-> First, client |-> First, secret |-> First, cache |-> None,
             fresh |-> FALSE]

Idle == [op |-> "idle", flow |-> None, row |-> FirstRow, doc |-> None, store |-> FALSE,
         signed |-> 0, who |-> None, epoch |-> 0, era |-> 0]

TypeOK ==
  /\ provider \in Rows
  /\ key \in [Issuer -> Nat]
  /\ jwks \in [Issuer -> Nat \cup {None}]
  /\ flow \in [Flow -> Passages]
  /\ account \in [Person -> Accounts]
  /\ sessions \subseteq [owner : Person, epoch : Nat, era : Nat]
  /\ request \in [Request -> Readings]
  /\ era \in [Person -> Nat]
  /\ overwritten \subseteq Person
  /\ settings \in Settings
  /\ overlapped \in BOOLEAN
  /\ disturbed \subseteq Flow /\ needless \subseteq Flow
  /\ events \in 0 .. MaxEvents

\* create_provider, with nothing cached; no account is known here yet.
Init ==
  /\ provider = FirstRow
  /\ key = [i \in Issuer |-> 0]
  /\ jwks = [i \in Issuer |-> None]
  /\ flow = [f \in Flow |-> [stage |-> "idle", at |-> None, who |-> None]]
  /\ account = [p \in Person |-> [home |-> "none", active |-> TRUE, epoch |-> 0]]
  /\ sessions = {}
  /\ request = [r \in Request |-> Idle]
  /\ era = [p \in Person |-> 0]
  /\ settings = [issuer |-> First, client |-> First, secret |-> First]
  /\ overwritten = {} /\ overlapped = FALSE /\ disturbed = {} /\ needless = {}
  /\ events = 0

-----------------------------------------------------------------------------
(* The provider's row: who reads it, who writes it, what a write leaves.   *)

Uses(op) == op \in Logins
Changes(op) == op = "patching"

\* A change of the issuer overlaps a login, a re-encryption or another change.
Clash(op, other) ==
  \/ Changes(op) /\ (Uses(other) \/ other \in {"patching", "rekeying"})
  \/ Changes(other) /\ (Uses(op) \/ op = "rekeying")

Event == events < MaxEvents /\ events' = events + 1

\* A request reads the row; an overlap excuses every login from then on.
ReadRow(r, op, f, excused) ==
  /\ request[r].op = "idle"
  /\ request' = [request EXCEPT ![r] = [Idle EXCEPT !.op = op, !.flow = f, !.row = provider]]
  /\ overlapped' = (overlapped \/ \E q \in Request : Clash(op, request[q].op))
  /\ disturbed' = IF overlapped' THEN Flow ELSE disturbed \cup excused

\* discover has flushed its document: the row stays locked until the commit.
Unlocked(r) == \A q \in Request \ {r} : ~request[q].store

Stored(r) ==
  IF request[r].store THEN [provider EXCEPT !.cache = request[r].doc, !.fresh = TRUE]
                      ELSE provider

Begun == {f \in Flow : flow[f].stage # "idle"}

\* Is the client registered at the issuer, and is the secret that client's?
Whole == settings.client = settings.issuer /\ settings.secret = settings.issuer

\* What a form asks for: an issuer or a secret that is left out stays, a client
\* that is left out is blank.
Asked(form) ==
  [issuer |-> IF form.issuer = None THEN settings.issuer ELSE form.issuer,
   client |-> form.client,
   secret |-> IF form.secret = None THEN settings.secret ELSE form.secret]

\* Does the form name another issuer than the one that was read?
Renames(r, form) == form.issuer \notin {None, request[r].row.issuer}

\* A plausible bug: a new issuer is stored beside the old one's document.
Moved_KeepsDocument(r, form) ==
  [provider EXCEPT !.issuer = IF Renames(r, form) THEN form.issuer ELSE @,
                   !.client = IF form.client = request[r].row.client THEN @ ELSE form.client,
                   !.secret = IF form.secret = None THEN @ ELSE form.secret]

\* What patch_provider writes: columns that are as they were read are not
\* written again, and a secret that is given always is.
Moved(r, form) ==
  LET clears == Renames(r, form) /\ request[r].row.cache # None IN
  [provider EXCEPT !.issuer = IF Renames(r, form) THEN form.issuer ELSE @,
                   !.client = IF form.client = request[r].row.client THEN @ ELSE form.client,
                   !.secret = IF form.secret = None THEN @ ELSE form.secret,
                   !.cache = IF clears THEN None ELSE @,
                   !.fresh = IF clears THEN FALSE ELSE @]

StartPatch(r) ==
  /\ ReadRow(r, "patching", None, {})
  /\ Event
  /\ UNCHANGED <<provider, key, jwks, flow, account, sessions, era, overwritten,
                 settings, needless>>

Patch(r) ==
  /\ request[r].op = "patching" /\ Unlocked(r)
  /\ \E form \in Form : provider' = Moved(r, form) /\ settings' = Asked(form)
  /\ disturbed' = disturbed \cup Begun
  /\ request' = [request EXCEPT ![r] = Idle]
  /\ UNCHANGED <<key, jwks, flow, account, sessions, era, overwritten, overlapped,
                 needless, events>>

\* rotate_stored_secrets reads every secret, and writes back what it has read
\* under the current key.
StartRekey(r) ==
  /\ ReadRow(r, "rekeying", None, {})
  /\ Event
  /\ UNCHANGED <<provider, key, jwks, flow, account, sessions, era, overwritten,
                 settings, needless>>

Rekey(r) ==
  /\ request[r].op = "rekeying" /\ Unlocked(r)
  /\ provider' = [provider EXCEPT !.secret = request[r].row.secret]
  /\ request' = [request EXCEPT ![r] = Idle]
  /\ UNCHANGED <<key, jwks, flow, account, sessions, history>>

\* The document is a day old.
AgeDocument ==
  /\ provider.fresh
  /\ provider' = [provider EXCEPT !.fresh = FALSE]
  /\ Event
  /\ UNCHANGED <<key, jwks, flow, account, sessions, request, era, overwritten,
                 settings, overlapped, disturbed, needless>>

-----------------------------------------------------------------------------
(* A login.                                                                *)

\* The signed state: what the callback must know of the login it ends.  An issuer
\* that does not know the client keeps the browser.
MintState(f, i, client) ==
  [flow EXCEPT ![f] = [@ EXCEPT !.stage = "sent", !.at = IF client = i THEN i ELSE None]]

\* read_state: the state of a login that took too long is refused.
StateHolds(f) == flow[f].stage \in {"code", "called", "spent"}

\* sso_login_start.
Start(r, f) ==
  /\ flow[f].stage = "idle"
  /\ ReadRow(r, "starting", f, IF Whole THEN {} ELSE {f})
  /\ flow' = [flow EXCEPT ![f].stage = "starting"]
  /\ UNCHANGED <<provider, key, jwks, account, sessions, era, overwritten, settings,
                 needless, events>>

\* sso_login_callback: the browser may send the same callback again.
Call(r, f) ==
  /\ StateHolds(f)
  /\ ReadRow(r, "called", f, IF flow[f].stage = "code" THEN {} ELSE {f})
  /\ flow' = [flow EXCEPT ![f].stage = IF @ = "code" THEN "called" ELSE @]
  /\ UNCHANGED <<provider, key, jwks, account, sessions, era, overwritten, settings,
                 needless, events>>

\* An OIDCError of the callback: the refusal is audited, and the commit stores
\* the document that was fetched.
Refuse(r, excuses) ==
  /\ needless' = needless \cup ({request[r].flow} \ (disturbed \cup excuses))
  /\ disturbed' = disturbed \cup excuses
  /\ provider' = Stored(r)
  /\ request' = [request EXCEPT ![r] = Idle]
  /\ UNCHANGED <<key, account, sessions, era, overwritten, settings, overlapped, events>>

\* discover: the row's document while it is fresh, the issuer's otherwise, and
\* the row's again when the issuer does not answer.  A host that may not be asked
\* and an answer that is no document of this issuer are refused in any case.
Discover(r) ==
  LET row == request[r].row
      next == IF request[r].op = "called" THEN "discovered" ELSE "starting"
      Resolve(doc, store) ==
        /\ request' = [request EXCEPT ![r] =
                         [@ EXCEPT !.op = next, !.doc = doc, !.store = store,
                                   !.row = [row EXCEPT !.cache = None, !.fresh = FALSE]]]
        /\ UNCHANGED <<provider, key, jwks, flow, account, sessions, history>>
  IN
  /\ request[r].op \in {"starting", "called"} /\ request[r].doc = None
  /\ request[r].op = "starting" => row.client # None
  /\ \/ row.cache # None /\ Resolve(row.cache, FALSE)
     \/ (row.cache = None \/ ~row.fresh) /\ Unlocked(r) /\ Resolve(row.issuer, TRUE)
     \/ /\ row.cache = None \/ ~row.fresh
        /\ request[r].op = "called"
        /\ Refuse(r, {request[r].flow}) /\ UNCHANGED <<jwks, flow>>

\* The browser is sent to the document's endpoint.
Send(r) ==
  LET f == request[r].flow IN
  /\ request[r].op = "starting" /\ request[r].doc # None
  /\ provider' = Stored(r)
  /\ flow' = MintState(f, request[r].doc, request[r].row.client)
  /\ request' = [request EXCEPT ![r] = Idle]
  /\ UNCHANGED <<key, jwks, account, sessions, history>>

\* The person signs in at the issuer, which sends the browser back with a code.
Authenticate(f, p) ==
  /\ flow[f].stage = "sent" /\ flow[f].at # None
  /\ flow' = [flow EXCEPT ![f] = [@ EXCEPT !.stage = "code", !.who = p]]
  /\ UNCHANGED <<provider, key, jwks, account, sessions, request, history>>

\* The login took longer than STATE_TTL_SECONDS.
Expire(f) ==
  /\ flow[f].stage \in {"sent", "code"}
  /\ flow' = [flow EXCEPT ![f].stage = "expired"]
  /\ disturbed' = disturbed \cup {f}
  /\ UNCHANGED <<provider, key, jwks, account, sessions, request, era, overwritten,
                 settings, overlapped, needless, events>>

\* The token endpoint takes a code of its own, once, from its own client.
Accepted(r) ==
  /\ request[r].doc = flow[request[r].flow].at
  /\ request[r].doc = request[r].row.client /\ request[r].doc = request[r].row.secret
  /\ flow[request[r].flow].stage = "called"

\* exchange_code: the token is signed with the key of the moment.
Exchange(r) ==
  LET f == request[r].flow IN
  /\ request[r].op = "discovered"
  /\ \/ /\ Accepted(r)
        /\ flow' = [flow EXCEPT ![f] = [@ EXCEPT !.stage = "spent", !.at = None]]
        /\ request' = [request EXCEPT ![r] = [@ EXCEPT !.op = "exchanged", !.row = FirstRow,
                                                       !.signed = key[request[r].doc]]]
        /\ UNCHANGED <<provider, key, jwks, account, sessions, history>>
     \/ ~Accepted(r) /\ Refuse(r, {}) /\ UNCHANGED <<jwks, flow>>
     \/ Refuse(r, {f}) /\ UNCHANGED <<jwks, flow>>

\* A plausible bug: keys that were cached are not fetched again.
Refetched_Never(i, signed) == jwks[i] = None

\* _signing_key: a key that is not among the cached ones is looked for again, if
\* the token names it; a token that does not is tried with the cached key.
Refetched(i, signed) == jwks[i] = None \/ (jwks[i] # signed /\ i \notin Unnamed)

FetchJwks(i) == jwks' = [jwks EXCEPT ![i] = key[i]]

\* verify_id_token; the fetch of the keys may fail.
Verify(r) ==
  LET i == request[r].doc
      signed == request[r].signed
      Verified == request' = [request EXCEPT ![r] = [@ EXCEPT !.op = "verified", !.signed = 0]]
                  /\ UNCHANGED <<provider, key, flow, account, sessions, history>>
  IN
  /\ request[r].op = "exchanged"
  /\ \/ /\ ~Refetched(i, signed)
        /\ IF jwks[i] = signed
             THEN Verified
             ELSE Refuse(r, IF i \in Unnamed THEN {request[r].flow} ELSE {}) /\ UNCHANGED flow
        /\ UNCHANGED jwks
     \/ /\ Refetched(i, signed)
        /\ FetchJwks(i)
        /\ IF key[i] = signed THEN Verified ELSE Refuse(r, {}) /\ UNCHANGED flow
     \/ /\ Refetched(i, signed)
        /\ Refuse(r, {request[r].flow}) /\ UNCHANGED <<jwks, flow>>

\* provision_or_update_user reads the mapping and the account.  An account of
\* the address that is not this subject's, or that is switched off, ends the
\* login; the refusal is the workspace's, not the issuer's.
Match(r) ==
  LET p == flow[request[r].flow].who IN
  /\ request[r].op = "verified"
  /\ IF account[p].home = "none" \/ (account[p].home = "sso" /\ account[p].active)
       THEN /\ request' = [request EXCEPT ![r] =
                 [@ EXCEPT !.op = "matched", !.who = IF account[p].home = "sso" THEN p ELSE None,
                           !.epoch = account[p].epoch, !.era = era[p]]]
            /\ UNCHANGED provider
       ELSE provider' = Stored(r) /\ request' = [request EXCEPT ![r] = Idle]
  /\ UNCHANGED <<key, jwks, flow, account, sessions, history>>

\* The first login of a subject makes its account and its mapping.
Provisioned(p) == [account EXCEPT ![p].home = "sso"]

\* complete_login: the token is made from the account as it was read; an account
\* made meanwhile with the same address makes the commit fail (Fail).
Complete(r) ==
  LET p == flow[request[r].flow].who IN
  /\ request[r].op = "matched"
  /\ Cardinality(sessions) < MaxSessions
  /\ request[r].who = p \/ account[p].home = "none"
  /\ account' = Provisioned(p)
  /\ sessions' = sessions \cup {[owner |-> p, epoch |-> request[r].epoch,
                                 era |-> request[r].era]}
  /\ provider' = Stored(r)
  /\ request' = [request EXCEPT ![r] = Idle]
  /\ UNCHANGED <<key, jwks, flow, history>>

\* The start that has no client or finds no document, an error nobody handles, a
\* dead process: nothing is committed.
Fail(r) ==
  /\ request[r].op # "idle"
  /\ request' = [request EXCEPT ![r] = Idle]
  /\ UNCHANGED <<provider, key, jwks, flow, account, sessions, history>>

-----------------------------------------------------------------------------
(* Provisioning.  A full replacement switches the account on, whatever it  *)
(* says of that: its active flag is not read.  A call that finds nothing   *)
(* to change, or an address that is taken, changes nothing.                *)

ReadUser(r, p, op) ==
  /\ request[r].op = "idle"
  /\ request' = [request EXCEPT ![r] = [Idle EXCEPT !.op = op, !.who = p,
                                                    !.epoch = account[p].epoch]]
  /\ Event
  /\ UNCHANGED <<provider, key, jwks, flow, account, sessions, era, overwritten,
                 settings, overlapped, disturbed, needless>>

\* POST: the address is the subject, which is not how a login names it.
ScimPost(r, p) ==
  \/ account[p].home = "none" /\ ReadUser(r, p, "creating")
  \/ account[p].home = "scim" /\ ~account[p].active /\ ReadUser(r, p, "reactivating")

ScimPut(r, p) ==
  account[p].home # "none" /\ ~account[p].active /\ ReadUser(r, p, "reactivating")

ScimPatch(r, p) ==
  /\ account[p].home # "none"
  /\ ReadUser(r, p, IF account[p].active THEN "deactivating" ELSE "reactivating")

\* scim_create_or_update of a subject that has no mapping.
CreateUser(r) ==
  LET p == request[r].who IN
  /\ request[r].op = "creating" /\ account[p].home = "none"
  /\ account' = [account EXCEPT ![p].home = "scim"]
  /\ request' = [request EXCEPT ![r] = Idle]
  /\ UNCHANGED <<provider, key, jwks, flow, sessions, history>>

\* A plausible bug: the epoch stays what it was.
Bumped_Not(r) == request[r].epoch

\* Both switching off and switching on retire the sessions there are.
Bumped(r) == request[r].epoch + 1

Overwritten(r) ==
  IF account[request[r].who].epoch = request[r].epoch THEN overwritten
                                                      ELSE overwritten \cup {request[r].who}

DeactivateUser(r) ==
  LET p == request[r].who IN
  /\ request[r].op = "deactivating"
  /\ account' = [account EXCEPT ![p] = [@ EXCEPT !.active = FALSE, !.epoch = Bumped(r)]]
  /\ era' = [era EXCEPT ![p] = @ + 1]
  /\ overwritten' = Overwritten(r)
  /\ request' = [request EXCEPT ![r] = Idle]
  /\ UNCHANGED <<provider, key, jwks, flow, sessions, settings, overlapped, disturbed,
                 needless, events>>

ReactivateUser(r) ==
  LET p == request[r].who IN
  /\ request[r].op = "reactivating"
  /\ account' = [account EXCEPT ![p] = [@ EXCEPT !.active = TRUE, !.epoch = Bumped(r)]]
  /\ overwritten' = Overwritten(r)
  /\ request' = [request EXCEPT ![r] = Idle]
  /\ UNCHANGED <<provider, key, jwks, flow, sessions, era, settings, overlapped, disturbed,
                 needless, events>>

-----------------------------------------------------------------------------
(* What happens without a request.                                         *)

\* The issuer signs with a new key; tokens that are on their way lose theirs.
RotateKey(i) ==
  /\ Event
  /\ key' = [key EXCEPT ![i] = @ + 1]
  /\ disturbed' = disturbed \cup
       {f \in Flow : \E r \in Request : request[r].op = "exchanged" /\ request[r].flow = f}
  /\ UNCHANGED <<provider, jwks, flow, account, sessions, request, era, overwritten,
                 settings, overlapped, needless>>

\* The key set is an hour old, or the process starts again.
ForgetKeys(i) ==
  /\ jwks[i] # None
  /\ jwks' = [jwks EXCEPT ![i] = None]
  /\ Event
  /\ UNCHANGED <<provider, key, flow, account, sessions, request, era, overwritten,
                 settings, overlapped, disturbed, needless>>

EndSession(s) ==
  /\ sessions' = sessions \ {s}
  /\ UNCHANGED <<provider, key, jwks, flow, account, request, history>>

Handle(r) ==
  \/ StartPatch(r) \/ Patch(r) \/ StartRekey(r) \/ Rekey(r)
  \/ \E f \in Flow : Start(r, f) \/ Call(r, f)
  \/ Discover(r) \/ Send(r) \/ Exchange(r) \/ Verify(r) \/ Match(r) \/ Complete(r) \/ Fail(r)
  \/ \E p \in Person : ScimPost(r, p) \/ ScimPut(r, p) \/ ScimPatch(r, p)
  \/ CreateUser(r) \/ DeactivateUser(r) \/ ReactivateUser(r)

Next ==
  \/ \E r \in Request : Handle(r)
  \/ \E f \in Flow : Expire(f) \/ \E p \in Person : Authenticate(f, p)
  \/ \E i \in Issuer : RotateKey(i) \/ ForgetKeys(i)
  \/ \E s \in sessions : EndSession(s)
  \/ AgeDocument

Spec == Init /\ [][Next]_vars

-----------------------------------------------------------------------------
(* The properties.                                                         *)

Honoured(s) == account[s.owner].active /\ s.epoch = account[s.owner].epoch

\* The row says what the administrators have asked for, whatever a form left out,
\* and the document beside it is the configured issuer's: neither a re-encryption
\* nor a login brings back what was replaced (patch_provider, rotate_stored_secrets,
\* discover), unless a change of the provider overlapped a use of it.
ProviderIsAsConfigured ==
  \/ overlapped
  \/ /\ provider.cache \in {None, provider.issuer}
     /\ provider.issuer = settings.issuer
     /\ provider.client = settings.client
     /\ provider.secret = settings.secret

\* A session opens the account only if the account has not been switched off
\* since the login looked at it, unless a provisioning call wrote its epoch over
\* that of another it had not seen.
SessionsFollowProvisioning ==
  \A s \in sessions : Honoured(s) => s.era = era[s.owner] \/ s.owner \in overwritten

\* Both of the above, of well-typed states: what a change of the issuer and what
\* a change of an account leave behind (sso_oidc.py, sso_auth.py).
SignOn == TypeOK /\ ProviderIsAsConfigured /\ SessionsFollowProvisioning

\* A person the issuer has let in is turned away for something that happened: an
\* outage or an answer that is no document, the callback sent again, more than ten
\* minutes at the issuer, the provider changed or the issuer's key rotated
\* meanwhile, settings that were not of one piece when the login began, a token
\* that names no key while an old one is cached, or an earlier change that
\* overlapped a use of the provider.  Caches that have grown old, keys rotated
\* before and other people's logins are no other reason (sso_oidc.py).
RefusalsAreExcused == needless = {}

-----------------------------------------------------------------------------
(* What the proofs need.                                                   *)

Callbacks == Logins \ {"starting"}
ScimOps == {"creating", "deactivating", "reactivating"}

\* What a request has got so far, and how far its login has come at the browser.
RequestsHaveTheirLogins ==
  /\ \A r \in Request :
       /\ request[r].op \in Logins => request[r].flow \in Flow
       /\ request[r].op = "called" => request[r].doc = None
       /\ request[r].op \in Callbacks \ {"called"} => request[r].doc # None
       /\ request[r].op \in ScimOps => request[r].who \in Person
       /\ request[r].store => request[r].op \in Logins
       /\ request[r].op = "starting" => flow[request[r].flow].stage = "starting"
       /\ request[r].op \in Callbacks =>
            flow[request[r].flow].stage \in {"called", "spent"}
       /\ request[r].op = "matched" =>
            request[r].who \in {None, flow[request[r].flow].who}
  /\ \A f \in Flow : flow[f].stage \in {"code", "called", "spent"} => flow[f].who \in Person

\* Only a callback sent again makes two requests of one login.
OneRequestForEach ==
  \A q, r \in Request :
    (q # r /\ request[q].op \in Logins /\ request[r].op \in Logins
       /\ request[q].flow = request[r].flow) =>
      request[q].op # "starting" /\ request[q].flow \in disturbed

\* As long as no change of the issuer has overlapped its use, what every request
\* has read of the provider is what the row says.
IssuerIsSettled ==
  /\ overlapped => disturbed = Flow
  /\ ~overlapped =>
       /\ ProviderIsAsConfigured
       /\ \A q, r \in Request : q # r => ~Clash(request[q].op, request[r].op)
       /\ \A r \in Request :
            /\ request[r].op \in {"starting", "called", "discovered", "patching"} =>
                 /\ request[r].row.issuer = provider.issuer
                 /\ request[r].row.client = provider.client
                 /\ request[r].row.secret = provider.secret
                 /\ request[r].row.cache \in {None, provider.issuer}
            /\ request[r].op \in Logins => request[r].doc \in {None, provider.issuer}
            /\ request[r].op = "patching" => request[r].row.cache = provider.cache
            /\ request[r].op = "rekeying" => request[r].row.secret = provider.secret

\* A login that nothing has disturbed began with settings of one piece, which are
\* still in force, and is still at the configured issuer, with its
\* code unused and, once it has a token, the token's key in force.
LoginsAreAsBegun ==
  \A f \in Flow \ disturbed :
    /\ flow[f].stage # "idle" => Whole
    /\ flow[f].stage \in {"sent", "code", "called"} => flow[f].at = provider.issuer
    /\ \A r \in Request : request[r].flow = f =>
         /\ request[r].op \in {"called", "discovered"} => flow[f].stage = "called"
         /\ request[r].op = "exchanged" => request[r].signed = key[request[r].doc]

\* Where no epoch was written over another, the epochs a session or a login has
\* taken from the account count what happened to it.
EpochsCount ==
  \A p \in Person \ overwritten :
    /\ \A s \in sessions : s.owner = p =>
         s.epoch <= account[p].epoch /\ (s.epoch = account[p].epoch => s.era = era[p])
    /\ \A r \in Request :
         (request[r].op = "matched" /\ flow[request[r].flow].who = p) =>
           /\ request[r].epoch <= account[p].epoch
           /\ request[r].epoch = account[p].epoch => request[r].era = era[p]

IndInv ==
  /\ TypeOK
  /\ RequestsHaveTheirLogins
  /\ OneRequestForEach
  /\ IssuerIsSettled
  /\ LoginsAreAsBegun
  /\ EpochsCount
  /\ RefusalsAreExcused
=============================================================================
