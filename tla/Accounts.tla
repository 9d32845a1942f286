------------------------------ MODULE Accounts ------------------------------
(***************************************************************************)
(* Accounts and what gives access to them: the one-time links that reset a *)
(* password or confirm an address, invitations and the seats they take,    *)
(* and sessions (accounts.py, tokens.py, auth.py, the sign-up, sign-in and *)
(* sign-out of main.py, seat_problem of billing_service.py, set_active of  *)
(* admin.py).                                                              *)
(*                                                                         *)
(* A request reads and checks, then commits what it decided; nothing locks *)
(* the rows in between, so requests overlap.  A request that hands out a   *)
(* session does so after its commit, from the account as it is then: the   *)
(* commit has expired what had been read.                                  *)
(*                                                                         *)
(* A session carries the epoch of the account; credential events (a reset, *)
(* a change of password, a removal) raise it.  `era' is what the epoch     *)
(* stands for: the number of such events so far.                           *)
(***************************************************************************)
EXTENDS Naturals, FiniteSets

CONSTANTS
  Address,      \* email addresses
  Request,      \* requests that may be running at once
  Link, Invite, \* the one-time links and invitations that may be issued
  Nobody,       \* no address
  SeatLimit,    \* seats of the plan, less those of the administrators
  Busy,         \* bound: addresses that do more than being invited
  MaxEra,       \* bound: credential events of an account
  MaxSessions   \* bound: sessions at once

ASSUME NobodyAssumption == Nobody \notin Address
ASSUME BusyAssumption == Busy \subseteq Address
ASSUME SeatAssumption == SeatLimit \in Nat

\* Links and invitations are rows of two tables, and no table is infinite.
ASSUME TableAssumption ==
  Link \cap Invite = {} /\ IsFiniteSet(Address) /\ IsFiniteSet(Invite)

VARIABLES
  account,      \* the row of each address, if it has one
  link,         \* rows of auth_tokens
  invite,       \* rows of invites
  sessions,     \* session tokens given out and not signed out
  request,      \* what each running request has read
  era,          \* credential events of each account (history)
  uses,         \* times each link or invitation had its effect (history)
  overwritten,  \* accounts whose epoch was set from a stale read (history)
  overlapped,   \* where requests have overlapped (history)
  readmitted    \* people reactivated (history)

rows == <<account, link, invite>>
history == <<era, uses, overwritten, overlapped, readmitted>>
vars == <<rows, sessions, request, history>>

Homes == {"none", "ours", "elsewhere"}
Purposes == {"password_reset", "email_verification"}
Ops == {"idle", "register", "login", "forgot", "resend", "reset", "verify",
        "change", "deactivate", "reactivate", "invite", "revoke", "accept"}
AboutCredentials == {"login", "reset", "change", "deactivate"}
Members == "members"

Idle == [op |-> "idle", mint |-> FALSE, who |-> Nobody, item |-> {}, seen |-> {},
         epoch |-> 0, era |-> 0]

TypeOK ==
  /\ account \in [Address -> [home: Homes, active: BOOLEAN, verified: BOOLEAN,
                              epoch: Nat]]
  /\ link \in [Link -> [to: Address \cup {Nobody}, purpose: Purposes,
                        state: {"live", "used"}]]
  /\ invite \in [Invite -> [to: Address \cup {Nobody},
                            state: {"live", "expired", "revoked", "accepted"}]]
  /\ sessions \subseteq [owner: Address, epoch: Nat, checked: Nat, era: Nat]
  /\ request \in [Request -> [op: Ops, mint: BOOLEAN, who: Address \cup {Nobody},
                              item: SUBSET (Link \cup Invite),
                              seen: SUBSET (Link \cup Invite), epoch: Nat, era: Nat]]
  /\ era \in [Address -> Nat]
  /\ uses \in [Link \cup Invite -> Nat]
  /\ overwritten \subseteq Address
  /\ overlapped \subseteq Address \cup {Members}
  /\ readmitted \subseteq Address

Init ==
  /\ account = [a \in Address |->
                  [home |-> "none", active |-> TRUE, verified |-> FALSE, epoch |-> 0]]
  /\ link = [l \in Link |-> [to |-> Nobody, purpose |-> "password_reset",
                         state |-> "live"]]
  /\ invite = [i \in Invite |-> [to |-> Nobody, state |-> "live"]]
  /\ sessions = {}
  /\ request = [r \in Request |-> Idle]
  /\ era = [a \in Address |-> 0]
  /\ uses = [x \in Link \cup Invite |-> 0]
  /\ overwritten = {} /\ overlapped = {} /\ readmitted = {}

-----------------------------------------------------------------------------
(* Reading: what a request looks up and checks.                            *)

Exists(a) == account[a].home # "none"
Live(a) == Exists(a) /\ account[a].active

\* current_user: the epoch is the account's, and the account is active.
Honoured(s) == Live(s.owner) /\ s.epoch = account[s.owner].epoch

Unused(a, purpose) ==
  {l \in Link : link[l].to = a /\ link[l].purpose = purpose /\ link[l].state # "used"}
Redeemable(l, purpose) ==
  link[l].to # Nobody /\ link[l].purpose = purpose /\ link[l].state = "live"
LiveInvite(i) == invite[i].to # Nobody /\ invite[i].state = "live"
Unanswered(a) ==
  {i \in Invite : invite[i].to = a /\ invite[i].state \in {"live", "expired"}}

People == {a \in Address : account[a].home = "ours" /\ account[a].active}
Pending == {i \in Invite : LiveInvite(i)}

\* A plausible bug: outstanding invitations take no seat.
SeatProblem_PeopleOnly(a) == Cardinality(People) + 1 > SeatLimit

\* A re-invited address does not count twice.
SeatProblem(a) ==
  Cardinality(People) + Cardinality({i \in Pending : invite[i].to # a}) + 1 > SeatLimit

\* What a request may clash with: others about the same account's links and
\* password, or about the same workspace's members.
Concerns(op, a) ==
  CASE op \in {"register", "forgot", "resend", "reset", "verify", "change"} -> {a}
    [] op \in {"invite", "revoke", "accept", "deactivate", "reactivate"} -> {Members}
    [] OTHER -> {}

Read(r, op, a, item, seen) ==
  /\ request[r].op = "idle"
  /\ request' = [request EXCEPT ![r] =
                   [op |-> op, mint |-> op = "login", who |-> a, item |-> item,
                    seen |-> seen,
                    epoch |-> IF op \in AboutCredentials THEN account[a].epoch ELSE 0,
                    era |-> IF op = "login" THEN era[a] ELSE 0]]
  /\ overlapped' = overlapped \cup
       UNION {Concerns(op, a) \cap Concerns(request[q].op, request[q].who) :
                q \in Request \ {r}}
  /\ UNCHANGED <<rows, sessions, era, uses, overwritten, readmitted>>

\* set_active holds the organization's row from its checks to its commit.
Locked == \E q \in Request : request[q].op \in {"deactivate", "reactivate"}

\* Requests about the account of an address ...
StartOwn(r, a) ==
  \/ ~Exists(a) /\ Read(r, "register", a, {}, {})
  \/ Live(a) /\ Read(r, "login", a, {}, {})
  \/ Live(a) /\ Read(r, "forgot", a, {}, Unused(a, "password_reset"))
  \/ /\ Live(a) /\ ~account[a].verified
     /\ Read(r, "resend", a, {}, Unused(a, "email_verification"))
  \/ \E l \in Link :
       /\ link[l].to = a /\ Live(a)
       /\ \/ /\ Redeemable(l, "password_reset")
             /\ Read(r, "reset", a, {l}, Unused(a, "password_reset"))
          \/ Redeemable(l, "email_verification") /\ Read(r, "verify", a, {l}, {})
  \/ /\ \E s \in sessions : s.owner = a /\ Honoured(s)
     /\ Read(r, "change", a, {}, Unused(a, "password_reset"))
  \/ /\ account[a].home = "ours" /\ ~Locked
     /\ \E op \in {"deactivate", "reactivate"} : Read(r, op, a, {}, {})

\* ... and about who joins.
StartJoin(r, a) ==
  \/ ~SeatProblem(a) /\ ~Exists(a) /\ Read(r, "invite", a, {}, Unanswered(a))
  \/ \E i \in Invite :
       /\ invite[i].to = a
       /\ \/ invite[i].state # "accepted" /\ Read(r, "revoke", a, {i}, {})
          \/ LiveInvite(i) /\ ~Exists(a) /\ Read(r, "accept", a, {i}, {})

Start(r) ==
  \/ \E a \in Busy : StartOwn(r, a)
  \/ \E a \in Address : StartJoin(r, a)

-----------------------------------------------------------------------------
(* Committing.                                                             *)

Doing(r, op) == request[r].op = op /\ ~request[r].mint

Done(r) == request' = [request EXCEPT ![r] = Idle]

\* The commit is followed by a new session.
ThenMint(r, epoch, event) ==
  request' = [request EXCEPT ![r] = [@ EXCEPT !.mint = TRUE, !.epoch = epoch, !.era = event]]

\* The columns used_at, accepted_at, revoked_at and expires_at decide in that order.
Marked(old, chosen, mark) ==
  [x \in DOMAIN old |->
     IF x \in chosen /\ old[x].state # "accepted" THEN [old[x] EXCEPT !.state = mark]
                                                 ELSE old[x]]

\* A plausible bug: the links issued before stay good.
Issued_Beside(l, a, purpose, seen) ==
  [link EXCEPT ![l] = [to |-> a, purpose |-> purpose, state |-> "live"]]

\* issue_auth_token: the unused links that were seen are spent, one is added.
Issued(l, a, purpose, seen) ==
  [Marked(link, seen, "used") EXCEPT ![l] = [to |-> a, purpose |-> purpose, state |-> "live"]]

\* A plausible bug: the key of users does not cover the address.
Free_Always(a) == TRUE

\* The key of users refuses a second account of an address.
Free(a) == ~Exists(a)

\* register: the address may have been taken meanwhile, which the row's key finds.
Register(r) ==
  LET a == request[r].who IN
  /\ Doing(r, "register") /\ Free(a)
  /\ account' = [account EXCEPT ![a] = [@ EXCEPT !.home = "elsewhere"]]
  /\ \E l \in Link : link[l].to = Nobody
                     /\ link' = Issued(l, a, "email_verification", {})
  /\ ThenMint(r, 0, 0)
  /\ UNCHANGED <<invite, sessions, history>>

SendLink(r, purpose) ==
  /\ \E l \in Link : link[l].to = Nobody
                     /\ link' = Issued(l, request[r].who, purpose, request[r].seen)
  /\ Done(r)
  /\ UNCHANGED <<account, invite, sessions, history>>

\* The links are mailed after the commit.
Forgot(r) == Doing(r, "forgot") /\ SendLink(r, "password_reset")
Resend(r) == Doing(r, "resend") /\ SendLink(r, "email_verification")

\* A plausible bug: the epoch stays what it was.
Bumped_Not(r) == request[r].epoch

\* Sessions opened before a credential event have another epoch.
Bumped(r) == request[r].epoch + 1

CredentialEvent(r) ==
  LET a == request[r].who IN
  /\ era[a] < MaxEra
  /\ era' = [era EXCEPT ![a] = @ + 1]
  /\ overwritten' = IF account[a].epoch = request[r].epoch THEN overwritten
                                                           ELSE overwritten \cup {a}

\* reset_password: the link, and every other that was seen, is spent.
Reset(r) ==
  LET a == request[r].who IN
  /\ Doing(r, "reset")
  /\ CredentialEvent(r)
  /\ account' = [account EXCEPT ![a] = [@ EXCEPT !.epoch = Bumped(r), !.verified = TRUE]]
  /\ link' = Marked(link, request[r].seen \cup request[r].item, "used")
  /\ uses' = [uses EXCEPT ![CHOOSE l \in request[r].item : TRUE] = @ + 1]
  /\ Done(r)
  /\ UNCHANGED <<invite, sessions, overlapped, readmitted>>

Verify(r) ==
  LET a == request[r].who IN
  /\ Doing(r, "verify")
  /\ account' = [account EXCEPT ![a] = [@ EXCEPT !.verified = TRUE]]
  /\ link' = Marked(link, request[r].item, "used")
  /\ uses' = [uses EXCEPT ![CHOOSE l \in request[r].item : TRUE] = @ + 1]
  /\ Done(r)
  /\ UNCHANGED <<invite, sessions, era, overwritten, overlapped, readmitted>>

\* change_password goes on with a session of its own.
Change(r) ==
  LET a == request[r].who IN
  /\ Doing(r, "change")
  /\ CredentialEvent(r)
  /\ account' = [account EXCEPT ![a] = [@ EXCEPT !.epoch = Bumped(r)]]
  /\ link' = Marked(link, request[r].seen, "used")
  /\ ThenMint(r, request[r].epoch + 1, era[a] + 1)
  /\ UNCHANGED <<invite, sessions, uses, overlapped, readmitted>>

Deactivate(r) ==
  LET a == request[r].who IN
  /\ Doing(r, "deactivate")
  /\ CredentialEvent(r)
  /\ account' = [account EXCEPT ![a] = [@ EXCEPT !.epoch = Bumped(r), !.active = FALSE]]
  /\ Done(r)
  /\ UNCHANGED <<link, invite, sessions, uses, overlapped, readmitted>>

\* Nobody asks whether a seat is left.
Reactivate(r) ==
  LET a == request[r].who IN
  /\ Doing(r, "reactivate")
  /\ account' = [account EXCEPT ![a] = [@ EXCEPT !.active = TRUE]]
  /\ readmitted' = IF account[a].active THEN readmitted ELSE readmitted \cup {a}
  /\ Done(r)
  /\ UNCHANGED <<link, invite, sessions, era, uses, overwritten, overlapped>>

\* create_invite: the invitations of the address that were seen are revoked.
CreateInvite(r) ==
  /\ Doing(r, "invite")
  /\ \E i \in Invite :
       /\ invite[i].to = Nobody
       /\ invite' = [Marked(invite, request[r].seen, "revoked") EXCEPT ![i] =
                       [to |-> request[r].who, state |-> "live"]]
  /\ Done(r)
  /\ UNCHANGED <<account, link, sessions, history>>

RevokeInvite(r) ==
  /\ Doing(r, "revoke")
  /\ invite' = Marked(invite, request[r].item, "revoked")
  /\ Done(r)
  /\ UNCHANGED <<account, link, sessions, history>>

AcceptInvite(r) ==
  LET a == request[r].who IN
  /\ Doing(r, "accept") /\ Free(a)
  /\ account' = [account EXCEPT ![a] = [@ EXCEPT !.home = "ours", !.verified = TRUE]]
  /\ invite' = Marked(invite, request[r].item, "accepted")
  /\ uses' = [uses EXCEPT ![CHOOSE i \in request[r].item : TRUE] = @ + 1]
  /\ ThenMint(r, 0, 0)
  /\ UNCHANGED <<link, sessions, era, overwritten, overlapped, readmitted>>

\* create_token: the row is read again, after the commit.
Mint(r) ==
  LET a == request[r].who IN
  /\ request[r].mint
  /\ Cardinality(sessions) < MaxSessions
  /\ sessions' = sessions \cup {[owner |-> a, epoch |-> account[a].epoch,
                                 checked |-> request[r].epoch, era |-> request[r].era]}
  /\ Done(r)
  /\ UNCHANGED <<rows, history>>

\* A check that fails, a limiter that is spent, a failed commit, a dead process.
Abandon(r) ==
  /\ request[r].op # "idle"
  /\ Done(r)
  /\ UNCHANGED <<rows, sessions, history>>

-----------------------------------------------------------------------------
(* What happens without a request.  An invitation that expires gives its   *)
(* seat back; a link that expires is one that nobody follows any more.     *)

\* A session is signed out (revoke_session_token) or reaches its expiry.
EndSession(s) ==
  /\ sessions' = sessions \ {s}
  /\ UNCHANGED <<rows, request, history>>

ExpireInvite(i) ==
  /\ LiveInvite(i)
  /\ invite' = Marked(invite, {i}, "expired")
  /\ UNCHANGED <<account, link, sessions, request, history>>

Commit(r) ==
  \/ Register(r) \/ Forgot(r) \/ Resend(r) \/ Reset(r) \/ Verify(r) \/ Change(r)
  \/ Deactivate(r) \/ Reactivate(r)
  \/ CreateInvite(r) \/ RevokeInvite(r) \/ AcceptInvite(r) \/ Mint(r)

Next ==
  \/ \E r \in Request : Start(r) \/ Commit(r) \/ Abandon(r)
  \/ \E s \in sessions : EndSession(s)
  \/ \E i \in Invite : ExpireInvite(i)

Spec == Init /\ [][Next]_vars

-----------------------------------------------------------------------------
(* The properties.                                                         *)

\* A session opens the account only if no credential event has happened since
\* the password (or the invitation) it was given for was checked.  Two narrow
\* cases aside: the event fell between that check and the making of the token,
\* or an event overwrote the epoch of another it had not seen.
SessionsFollowCredentials ==
  \A s \in sessions :
    Honoured(s) => \/ s.era = era[s.owner]
                   \/ s.epoch # s.checked
                   \/ s.owner \in overwritten

\* An invitation makes one account, even accepted twice at once; a link has its
\* effect once unless requests about the account overlap.
SpentOnce ==
  /\ \A i \in Invite : uses[i] <= 1
  /\ \A l \in Link : uses[l] <= 1 \/ link[l].to \in overlapped

\* Asking for another link retires the one before, unless the requests overlap.
OneLiveLink ==
  \A l, k \in Link :
    (Redeemable(l, link[k].purpose) /\ Redeemable(k, link[k].purpose)
       /\ link[l].to = link[k].to) => l = k \/ link[l].to \in overlapped

\* Seats are not oversold by requests that do not overlap; people who were
\* reactivated are not asked for one.
SeatsAreKept ==
  Members \in overlapped
  \/ Cardinality(People \ readmitted) + Cardinality(Pending) <= SeatLimit

\* What gives access does so once: invitations, links and seats, in well-typed
\* states (tokens.py, accounts.py, seat_problem).
OneTimeAccess == TypeOK /\ SpentOnce /\ OneLiveLink /\ SeatsAreKept

-----------------------------------------------------------------------------
(* What the proofs need.                                                   *)

\* Where no stale read has set an epoch, it counts the credential events, and
\* so do what requests have checked and what sessions were given for.
EpochsCount ==
  /\ \A a \in Address \ overwritten : account[a].epoch = era[a]
  /\ \A r \in Request :
       request[r].mint /\ request[r].who \notin overwritten => request[r].epoch = request[r].era
  /\ \A s \in sessions : s.owner \notin overwritten => s.checked = s.era

\* A running request is about an address, its links and its invitation.
RequestsHaveTheirRows ==
  \A r \in Request :
    LET q == request[r] IN
    /\ q.op # "idle" => q.who \in Address
    /\ q.mint => q.op \in {"login", "register", "change", "accept"}
    /\ q.op \in {"reset", "verify"} => \E l \in Link : q.item = {l} /\ link[l].to = q.who
    /\ q.op = "accept" => \E i \in Invite : q.item = {i} /\ invite[i].to = q.who
    /\ q.op \in {"forgot", "resend", "reset", "verify", "change"} =>
         \A l \in q.seen : l \in Link /\ link[l].to = q.who
    /\ q.op \in {"forgot", "resend"} => Exists(q.who)

\* Requests that clash have overlapped.
ClashesAreKnown ==
  \A q, r \in Request :
    q # r => Concerns(request[q].op, request[q].who)
               \cap Concerns(request[r].op, request[r].who) \subseteq overlapped

\* Nobody but an overlapping request issues or spends what a request has read.
LinksAreAsRead ==
  \A r \in Request :
    LET q == request[r] IN
    q.who \notin overlapped =>
      /\ q.op \in {"reset", "verify"} => \A l \in q.item : link[l].state = "live"
      /\ q.op = "forgot" => Unused(q.who, "password_reset") \subseteq q.seen
      /\ q.op = "resend" => Unused(q.who, "email_verification") \subseteq q.seen

\* What has had its effect is spent: a link is used, an invitation's address
\* has its account.  Only accounts are sent links.
EffectsAreFinal ==
  /\ \A l \in Link : uses[l] > 0 => link[l].to # Nobody /\ link[l].state = "used"
  /\ \A l \in Link : link[l].to # Nobody => Exists(link[l].to)
  /\ \A i \in Invite : uses[i] > 0 => invite[i].to # Nobody /\ Exists(invite[i].to)

\* A request that will take a seat has one left, unless requests overlap.
SeatsAreLeft ==
  Members \notin overlapped =>
    \A r \in Request :
      LET q == request[r] IN
      /\ q.op = "invite" =>
           /\ Cardinality(People) + Cardinality({i \in Pending : invite[i].to # q.who}) + 1
                <= SeatLimit
           /\ \A i \in Pending : invite[i].to = q.who => i \in q.seen
      /\ q.op = "accept" /\ ~q.mint =>
           Cardinality(People \ readmitted) + Cardinality(Pending \ q.item) + 1 <= SeatLimit

\* The inductive invariant of the links, the invitations and the seats.
IndInv ==
  /\ OneTimeAccess
  /\ RequestsHaveTheirRows
  /\ ClashesAreKnown
  /\ LinksAreAsRead
  /\ EffectsAreFinal
  /\ SeatsAreLeft
=============================================================================
