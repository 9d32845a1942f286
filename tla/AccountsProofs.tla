--------------------------- MODULE AccountsProofs ---------------------------
(***************************************************************************)
(* Proofs about Accounts, for any addresses, requests, links, invitations, *)
(* seats and bounds: a session dies with the credentials it was given for, *)
(* links and invitations act once, and seats are kept, where requests that *)
(* clash do not overlap.  The argument is that between its reads and its   *)
(* commit nobody else changes what a request has read (LinksAreAsRead,     *)
(* SeatsAreLeft) without the history showing that the two overlapped.      *)
(***************************************************************************)
EXTENDS Accounts, FiniteSetTheorems, TLAPS

-----------------------------------------------------------------------------
(* What requests do to each other's view.                                  *)

\* The requests about the links and the password of one account, and about
\* the members of the workspace.
OwnOps == {"register", "forgot", "resend", "reset", "verify", "change"}
MemberOps == {"invite", "revoke", "accept", "deactivate", "reactivate"}

\* A request has read and checked, and nothing else has happened.
Reads(r, op, a, item, seen) ==
  /\ Read(r, op, a, item, seen)
  /\ op \in Ops \ {"idle"} /\ a \in Address
  /\ item \in SUBSET (Link \cup Invite) /\ seen \in SUBSET (Link \cup Invite)
  /\ op \in {"reset", "verify"} => \E l \in Link :
       item = {l} /\ link[l].to = a /\ link[l].state = "live"
  /\ op = "accept" => \E i \in Pending : item = {i} /\ invite[i].to = a
  /\ op \in {"forgot", "resend", "reset", "verify", "change"} =>
       \A l \in seen : l \in Link /\ link[l].to = a
  /\ op \in {"forgot", "resend"} => Exists(a)
  /\ op = "forgot" => Unused(a, "password_reset") \subseteq seen
  /\ op = "resend" => Unused(a, "email_verification") \subseteq seen
  /\ op = "invite" => ~SeatProblem(a) /\ \A i \in Pending : invite[i].to = a => i \in seen

\* A request ends, or goes on to hand out a session; the others go on.
Settles(r) ==
  LET q == request[r] IN
  /\ \/ request' = [request EXCEPT ![r] = Idle]
     \/ /\ q.op \in {"register", "change", "accept"}
        /\ \E epoch, event \in Nat :
             request' = [request EXCEPT ![r] =
                           [q EXCEPT !.mint = TRUE, !.epoch = epoch, !.era = event]]
  /\ overlapped' = overlapped

\* No row goes and none changes hands.
RowsPersist ==
  /\ \A a \in Address : Exists(a) => account'[a].home = account[a].home
  /\ \A l \in Link : link[l].to # Nobody => link'[l].to = link[l].to
  /\ \A i \in Invite : invite[i].to # Nobody => invite'[i].to = invite[i].to

\* A link that is used stays so, and keeps its purpose.
LinksPersist ==
  \A l \in Link :
    link[l].to # Nobody => /\ link'[l].to = link[l].to /\ link'[l].purpose = link[l].purpose
                           /\ link[l].state = "used" => link'[l].state = "used"

\* Only links of one account have changed.
LinksOnlyOf(a) ==
  \A l \in Link :
    link'[l] = link[l] \/ (link[l].to \in {a, Nobody} /\ link'[l].to = a)

\* Requests that start read rows of their account.
LEMMA StartReads ==
  ASSUME TypeOK, NEW r \in Request, Start(r)
  PROVE  \E op, a, item, seen : Reads(r, op, a, item, seen)
<1> USE DEF Reads, Ops
<1>0. /\ \A a, p : Unused(a, p) \subseteq Link /\ \A l \in Unused(a, p) : link[l].to = a
      /\ \A a : Unanswered(a) \subseteq Invite
      /\ \A i \in Pending : i \in Invite /\ LiveInvite(i)
  BY DEF Unused, Unanswered, Pending
<1>1. ASSUME NEW a \in Busy, StartOwn(r, a)
      PROVE  \E op, b, item, seen : Reads(r, op, b, item, seen)
  <2>0. a \in Address
    BY BusyAssumption
  <2>1. CASE Read(r, "register", a, {}, {})
    <3>1. Reads(r, "register", a, {}, {})
      BY <2>0, <2>1
    <3> QED BY <3>1
  <2>2. CASE Read(r, "login", a, {}, {})
    <3>1. Reads(r, "login", a, {}, {})
      BY <2>0, <2>2
    <3> QED BY <3>1
  <2>3. CASE Live(a) /\ Read(r, "forgot", a, {}, Unused(a, "password_reset"))
    <3>1. Reads(r, "forgot", a, {}, Unused(a, "password_reset"))
      BY <1>0, <2>0, <2>3 DEF Live
    <3> QED BY <3>1
  <2>4. CASE Live(a) /\ Read(r, "resend", a, {}, Unused(a, "email_verification"))
    <3>1. Reads(r, "resend", a, {}, Unused(a, "email_verification"))
      BY <1>0, <2>0, <2>4 DEF Live
    <3> QED BY <3>1
  <2>5. ASSUME NEW l \in Link, link[l].to = a, Redeemable(l, "password_reset"),
               Read(r, "reset", a, {l}, Unused(a, "password_reset"))
        PROVE  \E op, b, item, seen : Reads(r, op, b, item, seen)
    <3>1. Reads(r, "reset", a, {l}, Unused(a, "password_reset"))
      BY <1>0, <2>0, <2>5 DEF Redeemable
    <3> QED BY <3>1
  <2>6. ASSUME NEW l \in Link, link[l].to = a, Redeemable(l, "email_verification"),
               Read(r, "verify", a, {l}, {})
        PROVE  \E op, b, item, seen : Reads(r, op, b, item, seen)
    <3>1. Reads(r, "verify", a, {l}, {})
      BY <2>0, <2>6 DEF Redeemable
    <3> QED BY <3>1
  <2>7. CASE Read(r, "change", a, {}, Unused(a, "password_reset"))
    <3>1. Reads(r, "change", a, {}, Unused(a, "password_reset"))
      BY <1>0, <2>0, <2>7
    <3> QED BY <3>1
  <2>8. ASSUME NEW op \in {"deactivate", "reactivate"}, Read(r, op, a, {}, {})
        PROVE  \E o, b, item, seen : Reads(r, o, b, item, seen)
    <3>1. Reads(r, op, a, {}, {})
      BY <2>0, <2>8
    <3> QED BY <3>1
  <2> QED BY <1>1, <2>1, <2>2, <2>3, <2>4, <2>5, <2>6, <2>7, <2>8 DEF StartOwn
<1>2. ASSUME NEW a \in Address, StartJoin(r, a)
      PROVE  \E op, b, item, seen : Reads(r, op, b, item, seen)
  <2>1. CASE ~SeatProblem(a) /\ Read(r, "invite", a, {}, Unanswered(a))
    <3>1. \A i \in Pending : invite[i].to = a => i \in Unanswered(a)
      BY DEF Pending, LiveInvite, Unanswered
    <3>2. Reads(r, "invite", a, {}, Unanswered(a))
      BY <1>0, <2>1, <3>1
    <3> QED BY <3>2
  <2>2. ASSUME NEW i \in Invite, Read(r, "revoke", a, {i}, {})
        PROVE  \E op, b, item, seen : Reads(r, op, b, item, seen)
    <3>1. Reads(r, "revoke", a, {i}, {})
      BY <2>2
    <3> QED BY <3>1
  <2>3. ASSUME NEW i \in Invite, invite[i].to = a, LiveInvite(i),
               Read(r, "accept", a, {i}, {})
        PROVE  \E op, b, item, seen : Reads(r, op, b, item, seen)
    <3>1. Reads(r, "accept", a, {i}, {})
      BY <2>3 DEF Pending
    <3> QED BY <3>1
  <2> QED BY <1>2, <2>1, <2>2, <2>3 DEF StartJoin
<1> QED BY <1>1, <1>2 DEF Start

\* A request that commits or is abandoned settles.
LEMMA CommitSettles ==
  ASSUME TypeOK, RequestsHaveTheirRows, NEW r \in Request, Commit(r) \/ Abandon(r)
  PROVE  Settles(r)
<1>0. era \in [Address -> Nat] /\ request[r].epoch \in Nat
  BY DEF TypeOK
<1>1. CASE Register(r)
  BY <1>1 DEF Settles, Register, Doing, ThenMint, history
<1>2. CASE AcceptInvite(r)
  BY <1>2 DEF Settles, AcceptInvite, Doing, ThenMint
<1>3. CASE Change(r)
  <2>1. request[r].op = "change" /\ request[r].who \in Address
    BY <1>3 DEF Change, Doing, RequestsHaveTheirRows
  <2>2. request[r].epoch + 1 \in Nat /\ era[request[r].who] + 1 \in Nat
    BY <1>0, <2>1
  <2>3. overlapped' = overlapped /\ ThenMint(r, request[r].epoch + 1, era[request[r].who] + 1)
    BY <1>3 DEF Change
  <2> QED BY <2>1, <2>2, <2>3 DEF Settles, ThenMint
<1>4. CASE Abandon(r) \/ Mint(r) \/ Forgot(r) \/ Resend(r) \/ CreateInvite(r) \/ RevokeInvite(r)
  BY <1>4 DEF Settles, Abandon, Mint, Forgot, Resend, SendLink, CreateInvite, RevokeInvite,
              Done, history
<1>5. CASE Reset(r) \/ Verify(r) \/ Deactivate(r) \/ Reactivate(r)
  BY <1>5 DEF Settles, Reset, Verify, Deactivate, Reactivate, Done
<1> QED BY <1>1, <1>2, <1>3, <1>4, <1>5 DEF Commit

-----------------------------------------------------------------------------
(* What a commit does to the rows.                                         *)

\* Spending links changes nothing but the state of those spent.
LEMMA MarkedLinks ==
  ASSUME TypeOK, NEW S
  PROVE  /\ Marked(link, S, "used") \in [Link -> [to: Address \cup {Nobody}, purpose: Purposes,
                                               state: {"live", "used"}]]
         /\ \A l \in Link :
              /\ Marked(link, S, "used")[l].to = link[l].to
              /\ Marked(link, S, "used")[l].purpose = link[l].purpose
              /\ l \notin S => Marked(link, S, "used")[l] = link[l]
              /\ l \in S => Marked(link, S, "used")[l].state = "used"
  BY DEF Marked, TypeOK

\* The same of invitations, of which the accepted ones stay so.
LEMMA MarkedInvites ==
  ASSUME TypeOK, NEW S, NEW mark \in {"expired", "revoked", "accepted"}
  PROVE  /\ Marked(invite, S, mark) \in [Invite -> [to: Address \cup {Nobody},
                                    state: {"live", "expired", "revoked", "accepted"}]]
         /\ \A i \in Invite :
              /\ Marked(invite, S, mark)[i].to = invite[i].to
              /\ i \notin S => Marked(invite, S, mark)[i] = invite[i]
              /\ i \in S => Marked(invite, S, mark)[i].state # "live"
  BY DEF Marked, TypeOK

\* Issuing a link spends those that were seen.
LEMMA IssuedLinks ==
  ASSUME TypeOK, NEW k \in Link, NEW a \in Address, NEW p \in Purposes, NEW S
  PROVE  /\ Issued(k, a, p, S) \in [Link -> [to: Address \cup {Nobody}, purpose: Purposes,
                                           state: {"live", "used"}]]
         /\ Issued(k, a, p, S)[k] = [to |-> a, purpose |-> p, state |-> "live"]
         /\ \A l \in Link : l # k => Issued(k, a, p, S)[l] = Marked(link, S, "used")[l]
<1>1. Marked(link, S, "used") \in [Link -> [to: Address \cup {Nobody}, purpose: Purposes,
                                          state: {"live", "used"}]]
  BY MarkedLinks
<1> QED BY <1>1 DEF Issued

\* Accounts appear, once, and are not moved.
AccountWrites(q) ==
  /\ q.who \in Address
  /\ \A b \in Address \ {q.who} : account'[b] = account[b]
  /\ \/ account'[q.who].home = account[q.who].home
     \/ q.op = "register" /\ ~Exists(q.who) /\ account'[q.who].home = "elsewhere"
     \/ q.op = "accept" /\ ~Exists(q.who) /\ account'[q.who].home = "ours"

\* Links that were read are spent, or one is added.
LinkWrites(q) ==
  \/ UNCHANGED link
  \/ q.op = "change" /\ link' = Marked(link, q.seen, "used")
  \/ /\ q.op \in {"reset", "verify"}
     /\ link' = Marked(link, q.seen \cup q.item, "used") \/ link' = Marked(link, q.item, "used")
  \/ \E k \in Link, p \in Purposes :
       /\ link[k].to = Nobody
       /\ \/ /\ q.op = "register" /\ ~Exists(q.who) /\ account'[q.who].home = "elsewhere"
             /\ link' = Issued(k, q.who, p, {})
          \/ /\ \/ q.op = "forgot" /\ p = "password_reset"
                \/ q.op = "resend" /\ p = "email_verification"
             /\ link' = Issued(k, q.who, p, q.seen)

\* An invitation is answered, or one is added.
InviteWrites(q) ==
  \/ UNCHANGED invite
  \/ q.op = "revoke" /\ invite' = Marked(invite, q.item, "revoked")
  \/ q.op = "accept" /\ invite' = Marked(invite, q.item, "accepted")
  \/ /\ q.op = "invite"
     /\ \E i \in Invite :
          /\ invite[i].to = Nobody
          /\ invite' = [Marked(invite, q.seen, "revoked") EXCEPT ![i] =
                          [to |-> q.who, state |-> "live"]]

\* What has its effect is what the request came with, and is spent by it.
EffectWrites(q) ==
  \/ UNCHANGED uses
  \/ /\ q.op \in {"reset", "verify", "accept"}
     /\ \E x \in q.item : q.item = {x} /\ uses' = [uses EXCEPT ![x] = @ + 1]
     /\ q.op = "accept" => ~Exists(q.who) /\ account'[q.who].home = "ours"
     /\ q.op # "accept" =>
          link' = Marked(link, q.seen \cup q.item, "used") \/ link' = Marked(link, q.item, "used")

\* What a commit writes, table by table.
LEMMA CommitWrites ==
  ASSUME TypeOK, RequestsHaveTheirRows, NEW r \in Request, Commit(r)
  PROVE  LET q == request[r] IN
         AccountWrites(q) /\ LinkWrites(q) /\ InviteWrites(q) /\ EffectWrites(q)
<1> DEFINE q == request[r]
           a == q.who
<1>0. /\ a \in Address /\ account \in [Address -> [home: Homes, active: BOOLEAN,
                                                 verified: BOOLEAN, epoch: Nat]]
      /\ Purposes = {"password_reset", "email_verification"}
  BY DEF RequestsHaveTheirRows, Commit, Register, Forgot, Resend, Reset, Verify, Change,
         Deactivate, Reactivate, CreateInvite, RevokeInvite, AcceptInvite, Mint, Doing,
         TypeOK, Purposes
<1>1. CASE Register(r)
  BY <1>0, <1>1 DEF Register, Doing, Free, history,
                    AccountWrites, LinkWrites, InviteWrites, EffectWrites
<1>2. CASE Forgot(r) \/ Resend(r)
  BY <1>0, <1>2 DEF Forgot, Resend, SendLink, Doing, history,
                    AccountWrites, LinkWrites, InviteWrites, EffectWrites
<1>3. CASE Reset(r) \/ Verify(r)
  <2>1. PICK l \in Link : q.item = {l}
    BY <1>3 DEF Reset, Verify, Doing, RequestsHaveTheirRows
  <2>2. (CHOOSE x \in q.item : TRUE) = l
    BY <2>1
  <2>3. AccountWrites(q)
    <3>1. CASE Reset(r)
      BY <1>0, <3>1 DEF Reset, AccountWrites
    <3>2. CASE Verify(r)
      BY <1>0, <3>2 DEF Verify, AccountWrites
    <3> QED BY <1>3, <3>1, <3>2
  <2>4. LinkWrites(q)
    BY <1>3 DEF Reset, Verify, Doing, LinkWrites
  <2>5. InviteWrites(q)
    BY <1>3 DEF Reset, Verify, InviteWrites
  <2>6. EffectWrites(q)
    BY <1>3, <2>1, <2>2 DEF Reset, Verify, Doing, EffectWrites
  <2> QED BY <2>3, <2>4, <2>5, <2>6
<1>4. CASE Change(r)
  BY <1>0, <1>4 DEF Change, Doing, AccountWrites, LinkWrites, InviteWrites, EffectWrites
<1>5. CASE Deactivate(r) \/ Reactivate(r)
  <2>1. AccountWrites(q)
    BY <1>0, <1>5 DEF Deactivate, Reactivate, AccountWrites
  <2> QED BY <1>5, <2>1 DEF Deactivate, Reactivate, LinkWrites, InviteWrites, EffectWrites
<1>6. CASE CreateInvite(r) \/ RevokeInvite(r)
  BY <1>0, <1>6 DEF CreateInvite, RevokeInvite, Doing, history,
                    AccountWrites, LinkWrites, InviteWrites, EffectWrites
<1>7. CASE AcceptInvite(r)
  <2>1. PICK i \in Invite : q.item = {i}
    BY <1>7 DEF AcceptInvite, Doing, RequestsHaveTheirRows
  <2>2. (CHOOSE x \in q.item : TRUE) = i
    BY <2>1
  <2> QED BY <1>0, <1>7, <2>1, <2>2
          DEF AcceptInvite, Doing, Free, AccountWrites, LinkWrites, InviteWrites, EffectWrites
<1>8. CASE Mint(r)
  BY <1>0, <1>8 DEF Mint, rows, history, AccountWrites, LinkWrites, InviteWrites, EffectWrites
<1> QED BY <1>1, <1>2, <1>3, <1>4, <1>5, <1>6, <1>7, <1>8 DEF Commit

\* Links change only where the request has read, and a used link stays so.
LEMMA LinksChange ==
  ASSUME TypeOK, RequestsHaveTheirRows, NEW r \in Request, LinkWrites(request[r]),
         request[r].who \in Address
  PROVE  LinksPersist /\ LinksOnlyOf(request[r].who)
<1> DEFINE q == request[r]
<1>1. CASE UNCHANGED link
  BY <1>1 DEF LinksOnlyOf, LinksPersist
<1>2. ASSUME NEW S, link' = Marked(link, S, "used"),
             \/ S \subseteq q.seen \cup q.item /\ q.op \in {"reset", "verify"}
             \/ S = q.seen /\ q.op = "change"
      PROVE  LinksPersist /\ LinksOnlyOf(q.who)
  <2>1. \A l \in q.item : q.op \in {"reset", "verify"} => link[l].to = q.who
    BY DEF RequestsHaveTheirRows
  <2>2. \A l \in S : l \in Link => link[l].to = q.who
    BY <1>2, <2>1 DEF RequestsHaveTheirRows
  <2> QED BY <1>2, <2>1, <2>2, MarkedLinks DEF LinksOnlyOf, LinksPersist
<1>3. ASSUME NEW k \in Link, NEW p \in Purposes, NEW S, link[k].to = Nobody,
             link' = Issued(k, q.who, p, S), \A l \in S : l \in Link => link[l].to = q.who
      PROVE  LinksPersist /\ LinksOnlyOf(q.who)
  <2>1. link'[k].to = q.who
    <3>1. Issued(k, q.who, p, S)[k] = [to |-> q.who, purpose |-> p, state |-> "live"]
      BY IssuedLinks
    <3> QED BY <1>3, <3>1
  <2>2. ASSUME NEW l \in Link, l # k
        PROVE  /\ link'[l].to = link[l].to /\ link'[l].purpose = link[l].purpose
               /\ link[l].to # q.who => link'[l] = link[l]
               /\ link[l].state = "used" => link'[l].state = "used"
    <3>1. link'[l] = Marked(link, S, "used")[l]
      <4>1. Issued(k, q.who, p, S)[l] = Marked(link, S, "used")[l]
        BY <2>2, MarkedLinks DEF Issued
      <4> QED BY <1>3, <4>1
    <3> QED BY <1>3, <3>1, MarkedLinks
  <2>3. LinksOnlyOf(q.who)
    BY <1>3, <2>1, <2>2 DEF LinksOnlyOf
  <2>4. LinksPersist
    BY <1>3, <2>1, <2>2 DEF LinksPersist
  <2> QED BY <2>3, <2>4
<1>4. CASE UNCHANGED link \/ q.op \in {"reset", "verify", "change"}
  BY <1>1, <1>2, <1>4 DEF LinkWrites
<1>5. CASE ~UNCHANGED link /\ q.op \notin {"reset", "verify", "change"}
  <2>1. PICK k \in Link, p \in Purposes :
          /\ link[k].to = Nobody
          /\ \/ link' = Issued(k, q.who, p, {})
             \/ link' = Issued(k, q.who, p, q.seen) /\ q.op \in {"forgot", "resend"}
    BY <1>5 DEF LinkWrites
  <2>2. CASE link' = Issued(k, q.who, p, {})
    <3>1. \A l \in {} : l \in Link => link[l].to = q.who
      OBVIOUS
    <3> QED BY <1>3, <2>1, <2>2, <3>1
  <2>3. CASE link' = Issued(k, q.who, p, q.seen) /\ q.op \in {"forgot", "resend"}
    <3>1. \A l \in q.seen : l \in Link => link[l].to = q.who
      BY <2>3 DEF RequestsHaveTheirRows
    <3> QED BY <1>3, <2>1, <2>3, <3>1
  <2> QED BY <2>1, <2>2, <2>3
<1> QED BY <1>4, <1>5

\* No account goes, and nothing changes hands.
LEMMA CommitPersists ==
  ASSUME TypeOK, RequestsHaveTheirRows, NEW r \in Request, Commit(r)
  PROVE  RowsPersist /\ LinksPersist /\ LinksOnlyOf(request[r].who)
<1> DEFINE q == request[r]
<1>0. AccountWrites(q) /\ LinkWrites(q) /\ InviteWrites(q)
  BY CommitWrites
<1>1. \A a \in Address : Exists(a) => account'[a].home = account[a].home
  BY <1>0 DEF AccountWrites, Exists
<1>2. LinksPersist /\ LinksOnlyOf(q.who)
  BY <1>0, LinksChange DEF AccountWrites
<1>3. \A i \in Invite : invite[i].to # Nobody => invite'[i].to = invite[i].to
  BY <1>0, MarkedInvites DEF InviteWrites, AccountWrites
<1> QED BY <1>1, <1>2, <1>3 DEF RowsPersist, LinksPersist

\* Accounts, seats and invitations: the people who joined, as seats are counted.
Seated == People \ readmitted

\* Requests that are not about members leave people and invitations alone.
MembersStay ==
  People' = People /\ UNCHANGED <<invite, readmitted>>

\* The others free seats, or take the one that they asked for.
SeatWrites(q) ==
  \/ Seated' \subseteq Seated /\ Pending' \subseteq Pending
  \/ /\ q.op = "invite" /\ ~q.mint /\ Seated' \subseteq Seated
     /\ \E i \in Invite : Pending' \subseteq (Pending \ q.seen) \cup {i}
  \/ /\ q.op = "accept" /\ ~q.mint /\ Seated' \subseteq Seated \cup {q.who}
     /\ Pending' \subseteq Pending \ q.item

\* What a commit does to the people and the invitations.
LEMMA CommitSeats ==
  ASSUME TypeOK, RequestsHaveTheirRows, NEW r \in Request, Commit(r)
  PROVE  LET q == request[r] IN
         SeatWrites(q) /\ (q.op \notin MemberOps => MembersStay)
<1> DEFINE q == request[r]
           a == q.who
<1>0. /\ a \in Address /\ account \in [Address -> [home: Homes, active: BOOLEAN,
                                                 verified: BOOLEAN, epoch: Nat]]
      /\ readmitted \subseteq Address
  BY DEF RequestsHaveTheirRows, Commit, Register, Forgot, Resend, Reset, Verify, Change,
         Deactivate, Reactivate, CreateInvite, RevokeInvite, AcceptInvite, Mint, Doing, TypeOK
<1>1. CASE Register(r)
  <2>1. People' = People /\ UNCHANGED <<invite, readmitted>>
    BY <1>0, <1>1 DEF Register, Free, Exists, People, history
  <2> QED BY <2>1 DEF SeatWrites, MembersStay, Seated, Pending, LiveInvite
<1>2. CASE Forgot(r) \/ Resend(r) \/ Mint(r)
  <2>1. UNCHANGED <<account, invite, readmitted>>
    BY <1>2 DEF Forgot, Resend, SendLink, Mint, rows, history
  <2> QED BY <2>1 DEF SeatWrites, MembersStay, Seated, People, Pending, LiveInvite
<1>3. CASE Reset(r) \/ Verify(r) \/ Change(r)
  <2>1. People' = People /\ UNCHANGED <<invite, readmitted>>
    <3>1. CASE Reset(r)
      BY <1>0, <3>1 DEF Reset, People
    <3>2. CASE Verify(r)
      BY <1>0, <3>2 DEF Verify, People
    <3>3. CASE Change(r)
      BY <1>0, <3>3 DEF Change, People
    <3> QED BY <1>3, <3>1, <3>2, <3>3
  <2> QED BY <2>1 DEF SeatWrites, MembersStay, Seated, Pending, LiveInvite
<1>4. CASE Deactivate(r)
  <2>1. People' \subseteq People /\ UNCHANGED <<invite, readmitted>> /\ q.op \in MemberOps
    BY <1>0, <1>4 DEF Deactivate, Doing, People, MemberOps
  <2> QED BY <2>1 DEF SeatWrites, Seated, Pending, LiveInvite
<1>5. CASE Reactivate(r)
  <2>1. Seated' \subseteq Seated /\ UNCHANGED invite /\ q.op \in MemberOps
    BY <1>0, <1>5 DEF Reactivate, Doing, Seated, People, MemberOps
  <2> QED BY <2>1 DEF SeatWrites, Pending, LiveInvite
<1>6. CASE CreateInvite(r)
  <2>1. q.op = "invite" /\ ~q.mint /\ UNCHANGED <<account, readmitted>>
    BY <1>6 DEF CreateInvite, Doing, history
  <2>2. PICK i \in Invite :
          invite' = [Marked(invite, q.seen, "revoked") EXCEPT ![i] = [to |-> a, state |-> "live"]]
    BY <1>6 DEF CreateInvite
  <2>3. ASSUME NEW j \in Pending', j # i
        PROVE  j \in Pending \ q.seen
    <3>1. j \in Invite /\ invite'[j].state = "live" /\ invite'[j].to # Nobody
      BY DEF Pending, LiveInvite
    <3>2. invite'[j] = Marked(invite, q.seen, "revoked")[j]
      BY <2>2, <2>3, <3>1, MarkedInvites
    <3>3. Marked(invite, q.seen, "revoked")[j].state = "live"
          /\ Marked(invite, q.seen, "revoked")[j].to # Nobody
      BY <3>1, <3>2
    <3>4. j \notin q.seen /\ invite[j].state = "live" /\ invite[j].to # Nobody
      BY <3>1, <3>3, MarkedInvites
    <3> QED BY <3>1, <3>4 DEF Pending, LiveInvite
  <2>4. Pending' \subseteq (Pending \ q.seen) \cup {i}
    BY <2>3
  <2> QED BY <2>1, <2>4 DEF SeatWrites, MemberOps, Seated, People
<1>7. CASE RevokeInvite(r) \/ AcceptInvite(r)
  <2>1. PICK mark \in {"revoked", "accepted"} :
          invite' = Marked(invite, q.item, mark) /\ q.op \in {"revoke", "accept"}
    BY <1>7 DEF RevokeInvite, AcceptInvite, Doing
  <2>2. ASSUME NEW j \in Pending'
        PROVE  j \in Pending \ q.item
    <3>1. j \in Invite /\ invite'[j].state = "live" /\ invite'[j].to # Nobody
      BY DEF Pending, LiveInvite
    <3>2. j \notin q.item /\ invite[j].state = "live" /\ invite[j].to # Nobody
      BY <2>1, <3>1, MarkedInvites
    <3> QED BY <3>1, <3>2 DEF Pending, LiveInvite
  <2>3. CASE RevokeInvite(r)
    BY <2>1, <2>2, <2>3 DEF RevokeInvite, history, SeatWrites, Seated, People, MemberOps
  <2>4. CASE AcceptInvite(r)
    <3>1. Seated' \subseteq Seated \cup {a} /\ ~q.mint /\ q.op = "accept"
      BY <1>0, <2>4 DEF AcceptInvite, Doing, Seated, People
    <3> QED BY <2>2, <3>1 DEF SeatWrites, MemberOps
  <2> QED BY <1>7, <2>3, <2>4
<1> QED BY <1>1, <1>2, <1>3, <1>4, <1>5, <1>6, <1>7 DEF Commit

\* Rows of users, and requests, as TypeOK has them.
AccountRow == [home: Homes, active: BOOLEAN, verified: BOOLEAN, epoch: Nat]
RequestRow == [op: Ops, mint: BOOLEAN, who: Address \cup {Nobody},
               item: SUBSET (Link \cup Invite), seen: SUBSET (Link \cup Invite),
               epoch: Nat, era: Nat]

\* Where a request settles, it ends or keeps what it is about; the others go on.
LEMMA SettledRequests ==
  ASSUME TypeOK, NEW r \in Request, Settles(r), NEW x \in Request
  PROVE  \/ x # r /\ request'[x] = request[x]
         \/ x = r /\ request'[x] = Idle
         \/ /\ x = r /\ request[x].op \in {"register", "change", "accept"}
            /\ request'[x].mint
            /\ request'[x].op = request[x].op /\ request'[x].who = request[x].who
            /\ request'[x].item = request[x].item /\ request'[x].seen = request[x].seen
            /\ request'[x].epoch \in Nat /\ request'[x].era \in Nat
<1>0. request \in [Request -> RequestRow] /\ request[r] \in RequestRow
  BY DEF TypeOK, RequestRow
<1>1. CASE request' = [request EXCEPT ![r] = Idle]
  BY <1>0, <1>1
<1>2. ASSUME NEW epoch \in Nat, NEW event \in Nat,
             request[r].op \in {"register", "change", "accept"},
             request' = [request EXCEPT ![r] = [request[r] EXCEPT !.mint = TRUE,
                                                  !.epoch = epoch, !.era = event]]
      PROVE  \/ x # r /\ request'[x] = request[x]
             \/ /\ x = r /\ request[x].op \in {"register", "change", "accept"}
                /\ request'[x].mint
                /\ request'[x].op = request[x].op /\ request'[x].who = request[x].who
                /\ request'[x].item = request[x].item /\ request'[x].seen = request[x].seen
                /\ request'[x].epoch \in Nat /\ request'[x].era \in Nat
  <2>1. CASE x # r
    BY <1>0, <1>2, <2>1
  <2>2. CASE x = r
    <3>1. request'[x] = [request[r] EXCEPT !.mint = TRUE, !.epoch = epoch, !.era = event]
      BY <1>0, <1>2, <2>2
    <3> QED BY <1>0, <1>2, <2>2, <3>1 DEF RequestRow
  <2> QED BY <2>1, <2>2
<1> QED BY <1>1, <1>2 DEF Settles

\* What a request concerns.
LEMMA ConcernsOf ==
  ASSUME NEW op, NEW a
  PROVE  /\ op \in OwnOps => Concerns(op, a) = {a}
         /\ op \in MemberOps => Concerns(op, a) = {Members}
         /\ op \notin OwnOps \cup MemberOps => Concerns(op, a) = {}
  BY DEF Concerns, OwnOps, MemberOps

-----------------------------------------------------------------------------
(* Commits, conjunct by conjunct.                                          *)

\* A column of an account is set.
LEMMA AccountsTyped ==
  ASSUME TypeOK, NEW a \in Address, NEW home \in Homes, NEW on \in BOOLEAN, NEW n \in Nat
  PROVE  /\ account[a] \in AccountRow /\ account \in [Address -> AccountRow]
         /\ [account[a] EXCEPT !.home = home] \in AccountRow
         /\ [account[a] EXCEPT !.active = on] \in AccountRow
         /\ [account[a] EXCEPT !.verified = on] \in AccountRow
         /\ [account[a] EXCEPT !.home = home, !.verified = on] \in AccountRow
         /\ [account[a] EXCEPT !.epoch = n] \in AccountRow
         /\ [account[a] EXCEPT !.epoch = n, !.verified = on] \in AccountRow
         /\ [account[a] EXCEPT !.epoch = n, !.active = on] \in AccountRow
<1>1. account \in [Address -> AccountRow] /\ account[a] \in AccountRow
  BY DEF TypeOK, AccountRow
<1>2. /\ [account[a] EXCEPT !.home = home] \in AccountRow
      /\ [account[a] EXCEPT !.active = on] \in AccountRow
      /\ [account[a] EXCEPT !.verified = on] \in AccountRow
      /\ [account[a] EXCEPT !.epoch = n] \in AccountRow
  BY <1>1 DEF AccountRow
<1>3. /\ [account[a] EXCEPT !.home = home, !.verified = on] \in AccountRow
      /\ [account[a] EXCEPT !.epoch = n, !.verified = on] \in AccountRow
      /\ [account[a] EXCEPT !.epoch = n, !.active = on] \in AccountRow
  BY <1>1 DEF AccountRow
<1> QED BY <1>1, <1>2, <1>3

\* A commit leaves well-typed requests, accounts, links, invitations and counts.
LEMMA CommitTypes ==
  ASSUME TypeOK, RequestsHaveTheirRows, NEW r \in Request, Commit(r) \/ Abandon(r)
  PROVE  TypeOK'
<1> DEFINE q == request[r]
           a == q.who
<1>0. /\ account \in [Address -> AccountRow]
      /\ era \in [Address -> Nat] /\ q.epoch \in Nat /\ q.era \in Nat
      /\ request \in [Request -> RequestRow] /\ q \in RequestRow
      /\ sessions \subseteq [owner: Address, epoch: Nat, checked: Nat, era: Nat]
      /\ overwritten \subseteq Address /\ overlapped \subseteq Address \cup {Members}
      /\ readmitted \subseteq Address
      /\ uses \in [Link \cup Invite -> Nat]
  BY DEF TypeOK, AccountRow, RequestRow
<1>1. request' \in [Request -> RequestRow] /\ overlapped' = overlapped
  <2>1. Settles(r)
    BY CommitSettles
  <2>2. Idle \in RequestRow
    BY DEF Idle, RequestRow, Ops
  <2>3. \A epoch, event \in Nat :
          [q EXCEPT !.mint = TRUE, !.epoch = epoch, !.era = event] \in RequestRow
    BY <1>0 DEF RequestRow
  <2> QED BY <1>0, <2>1, <2>2, <2>3 DEF Settles
<1>2. CASE Abandon(r)
  BY <1>1, <1>2 DEF TypeOK, Abandon, rows, history, RequestRow
<1>3. ASSUME Commit(r)
      PROVE  TypeOK'
  <2>0. a \in Address /\ {"none", "ours", "elsewhere"} \subseteq Homes
    BY <1>3, CommitWrites DEF AccountWrites, Homes
  <2>1. link' \in [Link -> [to: Address \cup {Nobody}, purpose: Purposes,
                          state: {"live", "used"}]]
    <3>1. LinkWrites(q)
      BY <1>3, CommitWrites
    <3>2. CASE UNCHANGED link
      BY <3>2 DEF TypeOK
    <3>3. ASSUME NEW S, link' = Marked(link, S, "used")
          PROVE  link' \in [Link -> [to: Address \cup {Nobody}, purpose: Purposes,
                                   state: {"live", "used"}]]
      BY <3>3, MarkedLinks
    <3>4. ASSUME NEW k \in Link, NEW p \in Purposes, NEW S, link' = Issued(k, a, p, S)
          PROVE  link' \in [Link -> [to: Address \cup {Nobody}, purpose: Purposes,
                                   state: {"live", "used"}]]
      BY <2>0, <3>4, IssuedLinks
    <3> QED BY <3>1, <3>2, <3>3, <3>4 DEF LinkWrites
  <2>2. invite' \in [Invite -> [to: Address \cup {Nobody},
                              state: {"live", "expired", "revoked", "accepted"}]]
    <3>1. InviteWrites(q)
      BY <1>3, CommitWrites
    <3>2. CASE UNCHANGED invite
      BY <3>2 DEF TypeOK
    <3>3. ASSUME NEW i \in Invite, invite' = [Marked(invite, q.seen, "revoked") EXCEPT ![i] =
                                                [to |-> a, state |-> "live"]]
          PROVE  invite' \in [Invite -> [to: Address \cup {Nobody},
                                       state: {"live", "expired", "revoked", "accepted"}]]
      <4>1. Marked(invite, q.seen, "revoked") \in
              [Invite -> [to: Address \cup {Nobody},
                          state: {"live", "expired", "revoked", "accepted"}]]
        BY MarkedInvites
      <4> QED BY <2>0, <3>3, <4>1
    <3> QED BY <3>1, <3>2, <3>3, MarkedInvites DEF InviteWrites
  <2>3. uses' \in [Link \cup Invite -> Nat]
    <3>1. EffectWrites(q)
      BY <1>3, CommitWrites
    <3>2. CASE UNCHANGED uses
      BY <1>0, <3>2
    <3>3. ASSUME NEW x \in q.item, uses' = [uses EXCEPT ![x] = @ + 1]
          PROVE  uses' \in [Link \cup Invite -> Nat]
      <4>1. x \in Link \cup Invite
        BY <1>0 DEF RequestRow
      <4>2. uses[x] + 1 \in Nat
        BY <1>0, <4>1
      <4> QED BY <1>0, <3>3, <4>1, <4>2
    <3> QED BY <3>1, <3>2, <3>3 DEF EffectWrites
  <2>4. CASE Forgot(r) \/ Resend(r) \/ CreateInvite(r) \/ RevokeInvite(r)
    BY <1>0, <1>1, <2>1, <2>2, <2>3, <2>4
       DEF Forgot, Resend, SendLink, CreateInvite, RevokeInvite, history, TypeOK, AccountRow,
           RequestRow
  <2>5. CASE Mint(r)
    <3>1. [owner |-> a, epoch |-> account[a].epoch, checked |-> q.epoch, era |-> q.era]
            \in [owner: Address, epoch: Nat, checked: Nat, era: Nat]
      BY <1>0, <2>0 DEF AccountRow
    <3> QED BY <1>0, <1>1, <2>1, <2>2, <2>3, <2>5, <3>1
            DEF Mint, rows, history, TypeOK, AccountRow, RequestRow
  <2>6. CASE Register(r) \/ Verify(r) \/ Reactivate(r) \/ AcceptInvite(r)
    <3>1. account' \in [Address -> AccountRow]
      <4>1. CASE Register(r)
        BY <2>0, <4>1, AccountsTyped DEF Register
      <4>2. CASE Verify(r)
        BY <2>0, <4>2, AccountsTyped DEF Verify
      <4>3. CASE Reactivate(r)
        BY <2>0, <4>3, AccountsTyped DEF Reactivate
      <4>4. CASE AcceptInvite(r)
        BY <2>0, <4>4, AccountsTyped DEF AcceptInvite
      <4> QED BY <2>6, <4>1, <4>2, <4>3, <4>4
    <3>2. readmitted' \subseteq Address /\ UNCHANGED <<sessions, era, overwritten>>
      BY <1>0, <2>0, <2>6 DEF Register, Verify, Reactivate, AcceptInvite, history
    <3> QED BY <1>0, <1>1, <2>1, <2>2, <2>3, <3>1, <3>2 DEF TypeOK, AccountRow, RequestRow
  <2>7. CASE Reset(r) \/ Change(r) \/ Deactivate(r)
    <3>1. CredentialEvent(r) /\ UNCHANGED <<sessions, readmitted>>
      BY <2>7 DEF Reset, Change, Deactivate
    <3>2. era' \in [Address -> Nat] /\ overwritten' \subseteq Address
      BY <1>0, <2>0, <3>1 DEF CredentialEvent
    <3>3. Bumped(r) \in Nat
      BY <1>0 DEF Bumped
    <3>4. account' \in [Address -> AccountRow]
      <4>1. CASE Reset(r)
        BY <2>0, <3>3, <4>1, AccountsTyped DEF Reset
      <4>2. CASE Change(r)
        BY <2>0, <3>3, <4>2, AccountsTyped DEF Change
      <4>3. CASE Deactivate(r)
        BY <2>0, <3>3, <4>3, AccountsTyped DEF Deactivate
      <4> QED BY <2>7, <4>1, <4>2, <4>3
    <3> QED BY <1>0, <1>1, <2>1, <2>2, <2>3, <3>1, <3>2, <3>4 DEF TypeOK, AccountRow, RequestRow
  <2> QED BY <1>3, <2>4, <2>5, <2>6, <2>7 DEF Commit
<1> QED BY <1>2, <1>3

\* The requests that go on keep their rows, and have clashed as before.
LEMMA CommitRequests ==
  ASSUME TypeOK, RequestsHaveTheirRows, ClashesAreKnown, NEW r \in Request, Settles(r),
         RowsPersist
  PROVE  RequestsHaveTheirRows' /\ ClashesAreKnown'
<1>0. \A x \in Request :
        request'[x] = Idle \/ (request'[x].op = request[x].op /\ request'[x].who = request[x].who)
  BY SettledRequests
<1>1. ASSUME NEW x \in Request
      PROVE  LET q == request'[x] IN
             /\ q.op # "idle" => q.who \in Address
             /\ q.mint => q.op \in {"login", "register", "change", "accept"}
             /\ q.op \in {"reset", "verify"} => \E l \in Link : q.item = {l} /\ link'[l].to = q.who
             /\ q.op = "accept" => \E i \in Invite : q.item = {i} /\ invite'[i].to = q.who
             /\ q.op \in {"forgot", "resend", "reset", "verify", "change"} =>
                  \A l \in q.seen : l \in Link /\ link'[l].to = q.who
             /\ q.op \in {"forgot", "resend"} => account'[q.who].home # "none"
  <2>1. CASE request'[x] = Idle
    BY <2>1 DEF Idle
  <2>2. CASE request'[x] # Idle
    <3>1. /\ request'[x].op = request[x].op /\ request'[x].who = request[x].who
          /\ request'[x].item = request[x].item /\ request'[x].seen = request[x].seen
          /\ request'[x].mint => request[x].mint \/ request[x].op \in {"register", "change", "accept"}
      BY <2>2, SettledRequests
    <3>2. request[x].op # "idle" => request[x].who \in Address /\ request[x].who # Nobody
      BY NobodyAssumption DEF RequestsHaveTheirRows
    <3>3. request'[x].mint => request'[x].op \in {"login", "register", "change", "accept"}
      BY <3>1 DEF RequestsHaveTheirRows
    <3>4. request[x].op \in {"reset", "verify"} =>
            \E l \in Link : request[x].item = {l} /\ link'[l].to = request[x].who
      BY <3>2 DEF RequestsHaveTheirRows, RowsPersist
    <3>5. request[x].op = "accept" =>
            \E i \in Invite : request[x].item = {i} /\ invite'[i].to = request[x].who
      BY <3>2 DEF RequestsHaveTheirRows, RowsPersist
    <3>6. request[x].op \in {"forgot", "resend", "reset", "verify", "change"} =>
            \A l \in request[x].seen : l \in Link /\ link'[l].to = request[x].who
      BY <3>2 DEF RequestsHaveTheirRows, RowsPersist
    <3>7. request[x].op \in {"forgot", "resend"} => account'[request[x].who].home # "none"
      BY <3>2 DEF RequestsHaveTheirRows, RowsPersist, Exists
    <3> QED BY <3>1, <3>2, <3>3, <3>4, <3>5, <3>6, <3>7
  <2> QED BY <2>1, <2>2
<1>2. RequestsHaveTheirRows'
  BY <1>1 DEF RequestsHaveTheirRows, Exists
<1>3. ASSUME NEW x \in Request, NEW y \in Request, x # y
      PROVE  Concerns(request'[x].op, request'[x].who)
               \cap Concerns(request'[y].op, request'[y].who) \subseteq overlapped'
  <2>1. overlapped' = overlapped
    BY DEF Settles
  <2>2. Concerns(Idle.op, Idle.who) = {}
    BY DEF Idle, Concerns
  <2>3. CASE request'[x] = Idle \/ request'[y] = Idle
    BY <2>2, <2>3
  <2>4. CASE /\ request'[x].op = request[x].op /\ request'[x].who = request[x].who
             /\ request'[y].op = request[y].op /\ request'[y].who = request[y].who
    <3>1. Concerns(request[x].op, request[x].who)
            \cap Concerns(request[y].op, request[y].who) \subseteq overlapped
      BY <1>3 DEF ClashesAreKnown
    <3> QED BY <2>1, <2>4, <3>1
  <2> QED BY <1>0, <2>3, <2>4
<1>4. ClashesAreKnown'
  BY <1>3 DEF ClashesAreKnown, Concerns
<1> QED BY <1>2, <1>4

\* Requests about one account that run together have overlapped.
LEMMA Overlap ==
  ASSUME ClashesAreKnown, NEW q \in Request, NEW r \in Request, q # r
  PROVE  /\ (request[q].op \in OwnOps /\ request[r].op \in OwnOps
              /\ request[q].who = request[r].who) => request[q].who \in overlapped
         /\ (request[q].op \in MemberOps /\ request[r].op \in MemberOps)
              => Members \in overlapped
<1>1. Concerns(request[q].op, request[q].who)
        \cap Concerns(request[r].op, request[r].who) \subseteq overlapped
  BY DEF ClashesAreKnown
<1> QED BY <1>1, ConcernsOf

\* A commit changes the links of one account, which only requests that overlap with
\* it have read.
LEMMA CommitLeavesLinks ==
  ASSUME TypeOK, RequestsHaveTheirRows, ClashesAreKnown, LinksAreAsRead,
         NEW r \in Request, Settles(r), LinksOnlyOf(request[r].who),
         request[r].op \in OwnOps \/ UNCHANGED link
  PROVE  LinksAreAsRead'
<1>1. ASSUME NEW x \in Request, request'[x].who \notin overlapped,
             request'[x].op \in {"reset", "verify", "forgot", "resend"}
      PROVE  /\ request[x] = request'[x]
             /\ \A l \in Link : link[l].to = request'[x].who \/ link'[l].to = request'[x].who
                                  => link'[l] = link[l]
  <2>1. x # r /\ request'[x] = request[x]
    BY <1>1, SettledRequests DEF Idle
  <2>2. CASE UNCHANGED link
    BY <2>1, <2>2
  <2>3. CASE request[r].op \in OwnOps
    <3>1. request[x].who # request[r].who
      BY <1>1, <2>1, <2>3, Overlap DEF OwnOps
    <3>2. request[x].who # Nobody
      BY <1>1, <2>1, NobodyAssumption DEF RequestsHaveTheirRows
    <3> QED BY <2>1, <3>1, <3>2 DEF LinksOnlyOf
  <2> QED BY <2>2, <2>3
<1>2. ASSUME NEW x \in Request, request'[x].who \notin overlapped,
             request'[x].op \in {"reset", "verify"}, NEW l \in request'[x].item
      PROVE  link'[l].state = "live"
  <2>1. request[x] = request'[x]
    BY <1>1, <1>2
  <2>2. l \in Link /\ link[l].to = request[x].who
    BY <1>2, <2>1 DEF RequestsHaveTheirRows
  <2>3. link[l].state = "live"
    BY <1>2, <2>1 DEF LinksAreAsRead
  <2> QED BY <1>1, <1>2, <2>1, <2>2, <2>3
<1>3. ASSUME NEW x \in Request, request'[x].who \notin overlapped, NEW p,
             \/ request'[x].op = "forgot" /\ p = "password_reset"
             \/ request'[x].op = "resend" /\ p = "email_verification",
             NEW l \in Link, link'[l].to = request'[x].who, link'[l].purpose = p,
             link'[l].state # "used"
      PROVE  l \in request'[x].seen
  <2>1. request[x] = request'[x] /\ link'[l] = link[l]
    BY <1>1, <1>3
  <2>2. l \in Unused(request[x].who, p)
    BY <1>3, <2>1 DEF Unused
  <2> QED BY <1>3, <2>1, <2>2 DEF LinksAreAsRead
<1>4. overlapped' = overlapped
  BY DEF Settles
<1> QED BY <1>2, <1>3, <1>4 DEF LinksAreAsRead, Unused

\* What had its effect stays spent, once; only accounts are sent links.
LEMMA CommitEffects ==
  ASSUME IndInv, NEW r \in Request, Commit(r)
  PROVE  EffectsAreFinal' /\ SpentOnce'
<1> DEFINE q == request[r]
           a == q.who
<1>0. /\ TypeOK /\ RequestsHaveTheirRows /\ EffectsAreFinal /\ SpentOnce /\ LinksAreAsRead
      /\ overlapped' = overlapped
  BY CommitSettles DEF IndInv, OneTimeAccess, Settles
<1>1. /\ AccountWrites(q) /\ LinkWrites(q) /\ EffectWrites(q)
      /\ RowsPersist /\ LinksPersist /\ a \in Address /\ a # Nobody
  BY <1>0, CommitWrites, CommitPersists, NobodyAssumption DEF AccountWrites
<1>2. \A b \in Address : Exists(b) => account'[b].home # "none"
  BY <1>1 DEF RowsPersist, Exists
<1>3. ASSUME NEW l \in Link, link'[l].to # Nobody
      PROVE  account'[link'[l].to].home # "none"
  <2>1. CASE link[l].to # Nobody
    <3>1. link'[l].to = link[l].to /\ link[l].to \in Address /\ Exists(link[l].to)
      BY <1>0, <1>1, <2>1 DEF LinksPersist, EffectsAreFinal, TypeOK
    <3> QED BY <1>2, <3>1
  <2>2. CASE link[l].to = Nobody
    <3>1. \A S : Marked(link, S, "used")[l].to = Nobody
      BY <1>0, <2>2, MarkedLinks
    <3>2. PICK k \in Link, p \in Purposes, S \in {{}, q.seen} :
            /\ link' = Issued(k, a, p, S)
            /\ \/ account'[a].home = "elsewhere"
               \/ q.op \in {"forgot", "resend"}
      BY <1>1, <1>3, <2>2, <3>1 DEF LinkWrites
    <3>3. Issued(k, a, p, S)[l] = IF l = k THEN [to |-> a, purpose |-> p, state |-> "live"]
                                           ELSE Marked(link, S, "used")[l]
      BY <1>0, MarkedLinks DEF Issued
    <3>4. link'[l].to = a
      BY <1>3, <3>1, <3>2, <3>3
    <3>5. q.op \in {"forgot", "resend"} => Exists(a)
      BY <1>0 DEF RequestsHaveTheirRows
    <3> QED BY <1>1, <1>2, <3>2, <3>4, <3>5
  <2> QED BY <2>1, <2>2
<1>4. /\ \A l \in Link : uses[l] > 0 => link'[l].to # Nobody /\ link'[l].state = "used"
      /\ \A i \in Invite : uses[i] > 0 => invite'[i].to # Nobody
                                        /\ account'[invite'[i].to].home # "none"
      /\ \A i \in Invite : uses[i] <= 1
      /\ \A l \in Link : uses[l] <= 1 \/ link'[l].to \in overlapped
  <2>1. ASSUME NEW l \in Link, uses[l] > 0
        PROVE  /\ link'[l].to # Nobody /\ link'[l].state = "used" /\ link'[l].to = link[l].to
    BY <1>0, <1>1, <2>1 DEF EffectsAreFinal, LinksPersist
  <2>2. ASSUME NEW i \in Invite, uses[i] > 0
        PROVE  invite'[i].to # Nobody /\ account'[invite'[i].to].home # "none"
    <3>1. invite[i].to \in Address /\ invite[i].to # Nobody /\ Exists(invite[i].to)
      BY <1>0, <2>2 DEF EffectsAreFinal, TypeOK
    <3> QED BY <1>1, <1>2, <3>1 DEF RowsPersist
  <2>3. \A l \in Link : uses[l] \in Nat /\ (uses[l] <= 1 \/ link[l].to \in overlapped)
    BY <1>0 DEF TypeOK, SpentOnce
  <2>4. ASSUME NEW l \in Link
        PROVE  uses[l] <= 1 \/ link'[l].to \in overlapped
    <3>1. CASE uses[l] > 0
      BY <2>1, <2>3, <3>1
    <3>2. CASE ~(uses[l] > 0)
      BY <2>3, <3>2
    <3> QED BY <3>1, <3>2
  <2> QED BY <1>0, <2>1, <2>2, <2>4 DEF SpentOnce
<1>5. CASE UNCHANGED uses
  BY <1>0, <1>3, <1>4, <1>5 DEF EffectsAreFinal, SpentOnce, Exists
<1>6. CASE ~UNCHANGED uses
  <2>1. PICK x \in q.item : q.item = {x} /\ uses' = [uses EXCEPT ![x] = @ + 1]
    BY <1>1, <1>6 DEF EffectWrites
  <2>2. \A y \in Link \cup Invite : y # x => uses'[y] = uses[y]
    BY <1>0, <2>1 DEF TypeOK
  <2>3. x \in Link \cup Invite => uses'[x] = uses[x] + 1 /\ uses[x] \in Nat
    BY <1>0, <2>1 DEF TypeOK
  <2>4. CASE q.op = "accept"
    <3>1. x \in Invite /\ x \notin Link /\ invite[x].to = a
      BY <1>0, <2>1, <2>4, TableAssumption DEF RequestsHaveTheirRows
    <3>2. ~Exists(a) /\ account'[a].home = "ours"
      BY <1>1, <1>6, <2>4 DEF EffectWrites
    <3>3. ~(uses[x] > 0)
      BY <1>0, <3>1, <3>2 DEF EffectsAreFinal
    <3>4. uses'[x] = 1
      BY <2>3, <3>1, <3>3
    <3>5. invite'[x].to = a
      BY <1>1, <3>1 DEF RowsPersist
    <3>6. \A l \in Link : uses'[l] = uses[l]
      BY <2>2, <3>1
    <3>7. EffectsAreFinal'
      BY <1>1, <1>3, <1>4, <2>2, <3>1, <3>2, <3>5, <3>6 DEF EffectsAreFinal, Exists
    <3>8. SpentOnce'
      BY <1>0, <1>4, <2>2, <3>1, <3>4, <3>6 DEF SpentOnce
    <3> QED BY <3>7, <3>8
  <2>5. CASE q.op # "accept"
    <3>1. /\ q.op \in {"reset", "verify"}
          /\ \/ link' = Marked(link, q.seen \cup q.item, "used")
             \/ link' = Marked(link, q.item, "used")
      BY <1>1, <1>6, <2>5 DEF EffectWrites
    <3>2. x \in Link /\ x \notin Invite /\ link[x].to = a
      BY <1>0, <2>1, <3>1, TableAssumption DEF RequestsHaveTheirRows
    <3>3. link'[x].to = a /\ link'[x].state = "used"
      BY <1>0, <2>1, <3>1, <3>2, MarkedLinks
    <3>4. a \in overlapped \/ ~(uses[x] > 0)
      BY <1>0, <2>1, <3>1, <3>2 DEF LinksAreAsRead, EffectsAreFinal
    <3>5. uses'[x] <= 1 \/ link'[x].to \in overlapped
      BY <2>3, <3>2, <3>3, <3>4
    <3>6. \A i \in Invite : uses'[i] = uses[i]
      BY <2>2, <3>2
    <3>7. EffectsAreFinal'
      BY <1>1, <1>3, <1>4, <2>2, <3>2, <3>3, <3>6 DEF EffectsAreFinal, Exists
    <3>8. SpentOnce'
      BY <1>0, <1>4, <2>2, <3>2, <3>5, <3>6 DEF SpentOnce
    <3> QED BY <3>7, <3>8
  <2> QED BY <2>4, <2>5
<1> QED BY <1>5, <1>6

\* A link issued is the only one that is good, unless requests overlapped.
LEMMA CommitOneLink ==
  ASSUME IndInv, NEW r \in Request, Commit(r)
  PROVE  OneLiveLink'
<1> DEFINE q == request[r]
           a == q.who
<1>0. /\ TypeOK /\ RequestsHaveTheirRows /\ EffectsAreFinal /\ OneLiveLink /\ LinksAreAsRead
      /\ overlapped' = overlapped
  BY CommitSettles DEF IndInv, OneTimeAccess, Settles
<1>1. LinkWrites(q) /\ a \in Address /\ a # Nobody
  BY <1>0, CommitWrites, NobodyAssumption DEF AccountWrites
<1>2. ASSUME NEW S, NEW l \in Link, Marked(link, S, "used")[l].state = "live"
      PROVE  l \notin S /\ Marked(link, S, "used")[l] = link[l]
  BY <1>0, <1>2, MarkedLinks
<1>3. ASSUME \A l \in Link : link'[l].state = "live" => link'[l] = link[l]
      PROVE  OneLiveLink'
  BY <1>0, <1>3 DEF OneLiveLink, Redeemable
<1>4. CASE UNCHANGED link
  BY <1>3, <1>4
<1>5. ASSUME NEW S, link' = Marked(link, S, "used")
      PROVE  OneLiveLink'
  BY <1>2, <1>3, <1>5
<1>6. ASSUME NEW k \in Link, NEW p \in Purposes, NEW S, link' = Issued(k, a, p, S),
             \A l \in Link : link[l].to = a /\ link[l].purpose = p /\ link[l].state = "live"
                            => l \in S \/ a \in overlapped
      PROVE  OneLiveLink'
  <2>1. /\ link'[k] = [to |-> a, purpose |-> p, state |-> "live"]
        /\ \A l \in Link : l # k => link'[l] = Marked(link, S, "used")[l]
    <3>1. Marked(link, S, "used") \in [Link -> [to: Address \cup {Nobody}, purpose: Purposes,
                                              state: {"live", "used"}]]
      BY <1>0, MarkedLinks
    <3> QED BY <1>6, <3>1 DEF Issued
  <2>2. \A l \in Link : l # k /\ link'[l].state = "live" => l \notin S /\ link'[l] = link[l]
    BY <1>2, <2>1
  <2>3. ASSUME NEW l \in Link, l # k, Redeemable(l, p)', link'[l].to = a
        PROVE  a \in overlapped
    BY <1>6, <2>2, <2>3 DEF Redeemable
  <2>4. ASSUME NEW l \in Link, NEW m \in Link, l # m, link'[l].to = link'[m].to,
               Redeemable(l, link[m].purpose)', Redeemable(m, link[m].purpose)'
        PROVE  link'[l].to \in overlapped
    <3>0. /\ link'[l].state = "live" /\ link'[m].state = "live" /\ link'[l].to # Nobody
          /\ link'[l].purpose = link'[m].purpose
      BY <2>4 DEF Redeemable
    <3>1. CASE l = k
      BY <2>1, <2>3, <2>4, <3>0, <3>1 DEF Redeemable
    <3>2. CASE m = k
      BY <2>1, <2>3, <2>4, <3>0, <3>2 DEF Redeemable
    <3>3. CASE l # k /\ m # k
      BY <1>0, <2>2, <2>4, <3>0, <3>3 DEF OneLiveLink, Redeemable
    <3> QED BY <3>1, <3>2, <3>3
  <2> QED BY <1>0, <2>4 DEF OneLiveLink, Redeemable
<1>7. CASE q.op = "register"
  <2>1. UNCHANGED link \/ \E k \in Link, p \in Purposes :
          ~Exists(a) /\ link' = Issued(k, a, p, {})
    BY <1>1, <1>7 DEF LinkWrites
  <2>2. ~Exists(a) => \A l \in Link : link[l].to # a
    BY <1>0, <1>1 DEF EffectsAreFinal
  <2> QED BY <1>4, <1>6, <2>1, <2>2
<1>8. CASE q.op \in {"forgot", "resend"}
  <2>1. UNCHANGED link \/ \E k \in Link, p \in Purposes :
          /\ \/ q.op = "forgot" /\ p = "password_reset"
             \/ q.op = "resend" /\ p = "email_verification"
          /\ link' = Issued(k, a, p, q.seen)
    BY <1>1, <1>8 DEF LinkWrites
  <2>2. ASSUME NEW p \in Purposes, NEW l \in Link,
               \/ q.op = "forgot" /\ p = "password_reset"
               \/ q.op = "resend" /\ p = "email_verification",
               link[l].to = a, link[l].purpose = p, link[l].state = "live"
        PROVE  l \in q.seen \/ a \in overlapped
    <3>1. l \in Unused(a, p)
      BY <2>2 DEF Unused
    <3> QED BY <1>0, <2>2, <3>1 DEF LinksAreAsRead
  <2> QED BY <1>4, <1>6, <2>1, <2>2
<1>9. CASE q.op \notin {"register", "forgot", "resend"}
  BY <1>1, <1>4, <1>5, <1>9 DEF LinkWrites
<1> QED BY <1>7, <1>8, <1>9

-----------------------------------------------------------------------------
(* Seats.                                                                  *)

\* There are finitely many people and invitations.
LEMMA SeatsAreFinite ==
  /\ IsFiniteSet(Seated) /\ IsFiniteSet(People) /\ IsFiniteSet(Pending)
  /\ \A S \in SUBSET Pending : IsFiniteSet(S)
<1>1. Seated \subseteq Address /\ People \subseteq Address /\ Pending \subseteq Invite
  BY DEF Seated, People, Pending
<1> QED BY <1>1, TableAssumption, FS_Subset

\* One more takes at most one more seat.
LEMMA OneMore ==
  ASSUME NEW S, NEW x, IsFiniteSet(S)
  PROVE  /\ IsFiniteSet(S \cup {x}) /\ Cardinality(S) \in Nat
         /\ Cardinality(S \cup {x}) \in Nat /\ Cardinality(S \cup {x}) <= Cardinality(S) + 1
<1>1. /\ IsFiniteSet(S \cup {x})
      /\ Cardinality(S \cup {x}) = IF x \in S THEN Cardinality(S) ELSE Cardinality(S) + 1
  BY FS_AddElement
<1>2. Cardinality(S) \in Nat
  BY FS_CardinalityType
<1> QED BY <1>1, <1>2

\* A commit takes a seat only where one was left.
LEMMA CommitKeepsSeats ==
  ASSUME IndInv, NEW r \in Request, Commit(r)
  PROVE  SeatsAreKept'
<1> DEFINE q == request[r]
<1>0. /\ TypeOK /\ RequestsHaveTheirRows /\ SeatsAreKept /\ SeatsAreLeft
      /\ overlapped' = overlapped /\ SeatWrites(q)
  BY CommitSettles, CommitSeats DEF IndInv, OneTimeAccess, Settles
<1> SUFFICES ASSUME Members \notin overlapped
             PROVE  Cardinality(Seated') + Cardinality(Pending') <= SeatLimit
  BY <1>0 DEF SeatsAreKept, Seated
<1>1. Cardinality(Seated) + Cardinality(Pending) <= SeatLimit
  BY <1>0 DEF SeatsAreKept, Seated
<1>2. /\ IsFiniteSet(Seated) /\ IsFiniteSet(People) /\ IsFiniteSet(Pending)
      /\ Cardinality(Seated) \in Nat /\ Cardinality(People) \in Nat
      /\ Cardinality(Pending) \in Nat /\ SeatLimit \in Nat
  BY SeatsAreFinite, FS_CardinalityType, SeatAssumption
<1>3. /\ IsFiniteSet(Seated') /\ IsFiniteSet(Pending')
      /\ Cardinality(Seated') \in Nat /\ Cardinality(Pending') \in Nat
  <2>1. Seated' \subseteq Address /\ Pending' \subseteq Invite
    BY DEF Seated, People, Pending
  <2> QED BY <2>1, TableAssumption, FS_Subset, FS_CardinalityType
<1>4. CASE Seated' \subseteq Seated /\ Pending' \subseteq Pending
  <2>1. Cardinality(Seated') <= Cardinality(Seated)
        /\ Cardinality(Pending') <= Cardinality(Pending)
    BY <1>2, <1>4, FS_Subset
  <2> QED BY <1>1, <1>2, <1>3, <2>1
<1>5. ASSUME q.op = "invite", Seated' \subseteq Seated,
             NEW i \in Invite, Pending' \subseteq (Pending \ q.seen) \cup {i}
      PROVE  Cardinality(Seated') + Cardinality(Pending') <= SeatLimit
  <2> DEFINE Others == {j \in Pending : invite[j].to # q.who}
  <2>1. /\ Cardinality(People) + Cardinality(Others) + 1 <= SeatLimit
        /\ \A j \in Pending : invite[j].to = q.who => j \in q.seen
    BY <1>0, <1>5 DEF SeatsAreLeft
  <2>2. Pending' \subseteq Others \cup {i}
    BY <1>5, <2>1
  <2>3. IsFiniteSet(Others) /\ Cardinality(Others) \in Nat
    <3>1. Others \subseteq Pending
      OBVIOUS
    <3> QED BY <1>2, <3>1, FS_Subset, FS_CardinalityType
  <2>4. IsFiniteSet(Others \cup {i}) /\ Cardinality(Others \cup {i}) <= Cardinality(Others) + 1
    <3> HIDE DEF Others
    <3> QED BY <2>3, OneMore
  <2>5. Cardinality(Others \cup {i}) \in Nat
        /\ Cardinality(Pending') <= Cardinality(Others \cup {i})
    <3> HIDE DEF Others
    <3> QED BY <2>2, <2>4, FS_Subset, FS_CardinalityType
  <2>6. Cardinality(Seated') <= Cardinality(People)
    <3>1. Seated' \subseteq People
      BY <1>5 DEF Seated
    <3> QED BY <1>2, <3>1, FS_Subset
  <2> HIDE DEF Others
  <2> QED BY <1>2, <1>3, <2>1, <2>3, <2>4, <2>5, <2>6
<1>6. ASSUME q.op = "accept", ~q.mint, Seated' \subseteq Seated \cup {q.who},
             Pending' \subseteq Pending \ q.item
      PROVE  Cardinality(Seated') + Cardinality(Pending') <= SeatLimit
  <2>1. Cardinality(Seated) + Cardinality(Pending \ q.item) + 1 <= SeatLimit
    BY <1>0, <1>6 DEF SeatsAreLeft, Seated
  <2>2. IsFiniteSet(Pending \ q.item) /\ Cardinality(Pending \ q.item) \in Nat
        /\ Cardinality(Pending') <= Cardinality(Pending \ q.item)
    <3>1. Pending \ q.item \subseteq Pending
      OBVIOUS
    <3> QED BY <1>2, <1>6, <3>1, FS_Subset, FS_CardinalityType
  <2>3. IsFiniteSet(Seated \cup {q.who}) /\ Cardinality(Seated \cup {q.who}) \in Nat
        /\ Cardinality(Seated \cup {q.who}) <= Cardinality(Seated) + 1
    BY <1>2, OneMore
  <2>4. Cardinality(Seated') <= Cardinality(Seated \cup {q.who})
    BY <1>6, <2>3, FS_Subset
  <2> QED BY <1>2, <1>3, <2>1, <2>2, <2>3, <2>4
<1> QED BY <1>0, <1>4, <1>5, <1>6 DEF SeatWrites

\* The seats that other requests count on stay: who would take one has overlapped.
LEMMA CommitLeavesSeats ==
  ASSUME IndInv, NEW r \in Request, Commit(r)
  PROVE  SeatsAreLeft'
<1> DEFINE q == request[r]
<1>0. /\ TypeOK /\ SeatsAreLeft /\ ClashesAreKnown /\ Settles(r)
      /\ overlapped' = overlapped /\ (q.op \notin MemberOps => MembersStay)
  BY CommitSettles, CommitSeats DEF IndInv, OneTimeAccess, Settles
<1>1. ASSUME NEW x \in Request, Members \notin overlapped, request'[x].op \in {"invite", "accept"},
             request'[x].op = "accept" => ~request'[x].mint
      PROVE  /\ request'[x] = request[x] /\ People' = People /\ Pending' = Pending
             /\ UNCHANGED <<invite, readmitted>>
  <2>1. x # r /\ request'[x] = request[x]
    BY <1>0, <1>1, SettledRequests DEF Idle
  <2>2. q.op \notin MemberOps
    BY <1>0, <1>1, <2>1, Overlap DEF MemberOps
  <2> QED BY <1>0, <2>1, <2>2 DEF MembersStay, Pending, LiveInvite
<1>2. ASSUME NEW x \in Request, Members \notin overlapped, request'[x].op = "invite"
      PROVE  /\ Cardinality(People') + Cardinality({i \in Pending' : invite'[i].to # request'[x].who})
                  + 1 <= SeatLimit
             /\ \A i \in Pending' : invite'[i].to = request'[x].who => i \in request'[x].seen
  <2>1. /\ request'[x] = request[x] /\ People' = People /\ Pending' = Pending /\ invite' = invite
    BY <1>1, <1>2
  <2> QED BY <1>0, <1>2, <2>1 DEF SeatsAreLeft
<1>3. ASSUME NEW x \in Request, Members \notin overlapped, request'[x].op = "accept",
             ~request'[x].mint
      PROVE  Cardinality(People' \ readmitted') + Cardinality(Pending' \ request'[x].item) + 1
               <= SeatLimit
  <2>1. /\ request'[x] = request[x] /\ People' = People /\ Pending' = Pending
        /\ readmitted' = readmitted
    BY <1>1, <1>3
  <2> QED BY <1>0, <1>3, <2>1 DEF SeatsAreLeft
<1> QED BY <1>0, <1>2, <1>3 DEF SeatsAreLeft

\* A commit keeps the invariant.
LEMMA CommitKeeps ==
  ASSUME IndInv, NEW r \in Request, Commit(r)
  PROVE  IndInv'
<1>0. /\ TypeOK /\ RequestsHaveTheirRows /\ ClashesAreKnown /\ LinksAreAsRead
  BY DEF IndInv, OneTimeAccess
<1>1. Settles(r) /\ RowsPersist /\ LinksOnlyOf(request[r].who) /\ LinkWrites(request[r])
  BY <1>0, CommitSettles, CommitPersists, CommitWrites
<1>2. request[r].op \in OwnOps \/ UNCHANGED link
  BY <1>1 DEF LinkWrites, OwnOps
<1>3. TypeOK' /\ RequestsHaveTheirRows' /\ ClashesAreKnown' /\ LinksAreAsRead'
  BY <1>0, <1>1, <1>2, CommitTypes, CommitRequests, CommitLeavesLinks
<1> QED BY <1>3, CommitEffects, CommitOneLink, CommitKeepsSeats, CommitLeavesSeats
        DEF IndInv, OneTimeAccess

\* An abandoned request leaves the invariant.
LEMMA AbandonKeeps ==
  ASSUME IndInv, NEW r \in Request, Abandon(r)
  PROVE  IndInv'
<1>0. /\ TypeOK /\ RequestsHaveTheirRows /\ ClashesAreKnown /\ LinksAreAsRead /\ SeatsAreLeft
      /\ SpentOnce /\ OneLiveLink /\ SeatsAreKept /\ EffectsAreFinal
  BY DEF IndInv, OneTimeAccess
<1>1. /\ Settles(r) /\ UNCHANGED <<account, link, invite, uses, readmitted, overlapped>>
  BY <1>0, CommitSettles DEF Abandon, rows, history
<1>2. RowsPersist /\ LinksOnlyOf(request[r].who)
  BY <1>1 DEF RowsPersist, LinksOnlyOf
<1>3. TypeOK' /\ RequestsHaveTheirRows' /\ ClashesAreKnown' /\ LinksAreAsRead'
  BY <1>0, <1>1, <1>2, CommitTypes, CommitRequests, CommitLeavesLinks
<1>4. SpentOnce' /\ OneLiveLink' /\ SeatsAreKept' /\ EffectsAreFinal'
  BY <1>0, <1>1 DEF SpentOnce, OneLiveLink, Redeemable, SeatsAreKept, People, Pending,
                    LiveInvite, EffectsAreFinal, Exists
<1>5. \A x \in Request : request'[x] = Idle \/ request'[x] = request[x]
  BY <1>0 DEF Abandon, Done, TypeOK
<1>6. SeatsAreLeft'
  <2>1. People' = People /\ Pending' = Pending
    BY <1>1 DEF People, Pending, LiveInvite
  <2>2. Idle.op = "idle"
    BY DEF Idle
  <2> QED BY <1>0, <1>1, <1>5, <2>1, <2>2 DEF SeatsAreLeft
<1> QED BY <1>3, <1>4, <1>6 DEF IndInv, OneTimeAccess

\* A request that starts leaves the invariant: what it clashes with is written down.
LEMMA StartKeeps ==
  ASSUME IndInv, NEW r \in Request, Start(r)
  PROVE  IndInv'
<1>0. /\ TypeOK /\ RequestsHaveTheirRows /\ ClashesAreKnown /\ LinksAreAsRead /\ SeatsAreLeft
      /\ SpentOnce /\ OneLiveLink /\ SeatsAreKept /\ EffectsAreFinal
  BY DEF IndInv, OneTimeAccess
<1>1. PICK op, a, item, seen : Reads(r, op, a, item, seen)
  BY <1>0, StartReads
<1> DEFINE epoch == IF op \in AboutCredentials THEN account[a].epoch ELSE 0
           event == IF op = "login" THEN era[a] ELSE 0
           new == [op |-> op, mint |-> op = "login", who |-> a, item |-> item,
                   seen |-> seen, epoch |-> epoch, era |-> event]
<1>2. /\ request' = [request EXCEPT ![r] = new]
      /\ overlapped' = overlapped \cup
            UNION {Concerns(op, a) \cap Concerns(request[q].op, request[q].who) :
                     q \in Request \ {r}}
      /\ UNCHANGED <<account, link, invite, sessions, era, uses, overwritten, readmitted>>
  BY <1>1 DEF Reads, Read, rows
<1>3. a \in Address /\ op \in Ops \ {"idle"} /\ a # Nobody
  BY <1>1, NobodyAssumption DEF Reads
<1>4. /\ request' \in [Request -> RequestRow] /\ request'[r] = new
      /\ \A x \in Request : x # r => request'[x] = request[x]
  <2>1. request \in [Request -> RequestRow] /\ account[a].epoch \in Nat /\ era[a] \in Nat
    BY <1>0, <1>3 DEF TypeOK, RequestRow
  <2>2. item \in SUBSET (Link \cup Invite) /\ seen \in SUBSET (Link \cup Invite)
    BY <1>1 DEF Reads
  <2>3. epoch \in Nat /\ event \in Nat
    BY <2>1
  <2>4. new \in RequestRow
    <3> HIDE DEF epoch, event
    <3> QED BY <1>3, <2>2, <2>3 DEF RequestRow
  <2> HIDE DEF new
  <2> QED BY <1>2, <2>1, <2>4
<1>5. TypeOK'
  <2>1. Concerns(op, a) \subseteq Address \cup {Members}
    BY <1>3 DEF Concerns
  <2>2. overlapped' \subseteq Address \cup {Members}
    BY <1>0, <1>2, <2>1 DEF TypeOK
  <2> QED BY <1>0, <1>2, <1>4, <2>2 DEF TypeOK, RequestRow
<1>6. /\ new.op = op /\ new.who = a /\ new.item = item /\ new.seen = seen
      /\ new.mint = (op = "login")
  OBVIOUS
<1>7. RequestsHaveTheirRows'
  <2>1. ASSUME NEW x \in Request
        PROVE  LET q == request'[x] IN
               /\ q.op # "idle" => q.who \in Address
               /\ q.mint => q.op \in {"login", "register", "change", "accept"}
               /\ q.op \in {"reset", "verify"} => \E l \in Link : q.item = {l} /\ link[l].to = q.who
               /\ q.op = "accept" => \E i \in Invite : q.item = {i} /\ invite[i].to = q.who
               /\ q.op \in {"forgot", "resend", "reset", "verify", "change"} =>
                    \A l \in q.seen : l \in Link /\ link[l].to = q.who
               /\ q.op \in {"forgot", "resend"} => Exists(q.who)
    <3>1. CASE x # r
      <4>1. request'[x] = request[x]
        BY <1>4, <3>1
      <4> QED BY <1>0, <4>1 DEF RequestsHaveTheirRows
    <3>2. CASE x = r
      <4> HIDE DEF new
      <4> QED BY <1>1, <1>3, <1>4, <1>6, <3>2 DEF Reads, Pending
    <3> QED BY <3>1, <3>2
  <2> QED BY <1>2, <2>1 DEF RequestsHaveTheirRows, Exists
<1>8. ClashesAreKnown'
  <2>1. ASSUME NEW x \in Request, x # r
        PROVE  Concerns(op, a) \cap Concerns(request[x].op, request[x].who) \subseteq overlapped'
    BY <1>2, <2>1
  <2>2. ASSUME NEW x \in Request, NEW y \in Request, x # y
        PROVE  Concerns(request'[x].op, request'[x].who)
                 \cap Concerns(request'[y].op, request'[y].who) \subseteq overlapped'
    <3> HIDE DEF new
    <3>1. CASE x = r
      BY <1>4, <1>6, <2>1, <2>2, <3>1
    <3>2. CASE y = r
      BY <1>4, <1>6, <2>1, <2>2, <3>2
    <3>3. CASE x # r /\ y # r
      BY <1>0, <1>2, <1>4, <2>2, <3>3 DEF ClashesAreKnown
    <3> QED BY <3>1, <3>2, <3>3
  <2> QED BY <2>2 DEF ClashesAreKnown, Concerns
<1>9. LinksAreAsRead'
  <2>1. ASSUME NEW x \in Request, request'[x].who \notin overlapped'
        PROVE  LET q == request'[x] IN
               /\ q.op \in {"reset", "verify"} => \A l \in q.item : link[l].state = "live"
               /\ q.op = "forgot" => Unused(q.who, "password_reset") \subseteq q.seen
               /\ q.op = "resend" => Unused(q.who, "email_verification") \subseteq q.seen
    <3>1. CASE x # r
      BY <1>0, <1>2, <1>4, <2>1, <3>1 DEF LinksAreAsRead
    <3>2. CASE x = r
      <4> HIDE DEF new
      <4> QED BY <1>1, <1>4, <1>6, <3>2 DEF Reads
    <3> QED BY <3>1, <3>2
  <2> QED BY <1>2, <2>1 DEF LinksAreAsRead, Unused
<1>10. SpentOnce' /\ OneLiveLink' /\ SeatsAreKept' /\ EffectsAreFinal'
  <2>1. overlapped \subseteq overlapped'
    BY <1>2
  <2>3. People' = People /\ Pending' = Pending
    BY <1>2 DEF People, Pending, LiveInvite
  <2> QED BY <1>0, <1>2, <2>1, <2>3 DEF SpentOnce, OneLiveLink, Redeemable, SeatsAreKept,
                                        EffectsAreFinal, Exists
<1>11. SeatsAreLeft'
  <2>1. People' = People /\ Pending' = Pending /\ overlapped \subseteq overlapped'
    BY <1>2 DEF People, Pending, LiveInvite
  <2>2. ASSUME Members \notin overlapped', NEW x \in Request
        PROVE  LET q == request'[x] IN
               /\ q.op = "invite" =>
                    /\ Cardinality(People)
                         + Cardinality({i \in Pending : invite[i].to # q.who}) + 1 <= SeatLimit
                    /\ \A i \in Pending : invite[i].to = q.who => i \in q.seen
               /\ q.op = "accept" /\ ~q.mint =>
                    Cardinality(People \ readmitted) + Cardinality(Pending \ q.item) + 1
                      <= SeatLimit
    <3>1. CASE x # r
      BY <1>0, <1>4, <2>1, <2>2, <3>1 DEF SeatsAreLeft
    <3>2. CASE x = r /\ op = "invite"
      <4>1. ~SeatProblem(a) /\ \A i \in Pending : invite[i].to = a => i \in seen
        BY <1>1, <3>2 DEF Reads
      <4>2. Cardinality(People) + Cardinality({i \in Pending : invite[i].to # a}) + 1 <= SeatLimit
        <5> DEFINE Others == {i \in Pending : invite[i].to # a}
        <5>1. Others \in SUBSET Pending
          OBVIOUS
        <5>2. Cardinality(People) \in Nat /\ Cardinality(Others) \in Nat
          BY <5>1, SeatsAreFinite, FS_CardinalityType
        <5>3. ~(Cardinality(People) + Cardinality(Others) + 1 > SeatLimit)
          BY <4>1 DEF SeatProblem
        <5> HIDE DEF Others
        <5>4. Cardinality(People) + Cardinality(Others) + 1 <= SeatLimit
          BY <5>2, <5>3, SeatAssumption
        <5> USE DEF Others
        <5> QED BY <5>4
      <4> HIDE DEF new
      <4> QED BY <1>4, <1>6, <3>2, <4>1, <4>2
    <3>3. CASE x = r /\ op = "accept"
      <4>1. PICK i \in Pending : item = {i}
        BY <1>1, <3>3 DEF Reads
      <4>2. /\ Cardinality(Pending \ {i}) = Cardinality(Pending) - 1
            /\ Cardinality(Pending) \in Nat /\ Cardinality(Seated) \in Nat
        BY <4>1, SeatsAreFinite, FS_RemoveElement, FS_CardinalityType
      <4>3. Cardinality(Seated) + Cardinality(Pending) <= SeatLimit
        BY <1>0, <2>1, <2>2 DEF SeatsAreKept, Seated
      <4>4. Cardinality(Seated) + Cardinality(Pending \ item) + 1 <= SeatLimit
        BY <4>1, <4>2, <4>3, SeatAssumption
      <4> HIDE DEF new
      <4> QED BY <1>4, <1>6, <3>3, <4>4 DEF Seated
    <3>4. CASE x = r /\ op \notin {"invite", "accept"}
      <4> HIDE DEF new
      <4> QED BY <1>4, <1>6, <3>4
    <3> QED BY <3>1, <3>2, <3>3, <3>4
  <2> QED BY <1>2, <2>1, <2>2 DEF SeatsAreLeft
<1> QED BY <1>5, <1>7, <1>8, <1>9, <1>10, <1>11 DEF IndInv, OneTimeAccess

\* An invitation that expires gives its seat back.
LEMMA ExpireKeeps ==
  ASSUME IndInv, NEW i \in Invite, ExpireInvite(i)
  PROVE  IndInv'
<1>0. /\ TypeOK /\ RequestsHaveTheirRows /\ ClashesAreKnown /\ LinksAreAsRead /\ SeatsAreLeft
      /\ SpentOnce /\ OneLiveLink /\ SeatsAreKept /\ EffectsAreFinal
  BY DEF IndInv, OneTimeAccess
<1>1. /\ UNCHANGED <<account, link, sessions, request, era, uses, overwritten, overlapped, readmitted>>
      /\ invite' = Marked(invite, {i}, "expired")
  BY DEF ExpireInvite, history
<1>2. /\ invite' \in [Invite -> [to: Address \cup {Nobody},
                               state: {"live", "expired", "revoked", "accepted"}]]
      /\ \A j \in Invite : invite'[j].to = invite[j].to
      /\ Pending' \subseteq Pending
  <2>1. \A j \in Invite : /\ invite'[j].to = invite[j].to
                         /\ invite'[j].state = "live" => invite'[j] = invite[j]
    BY <1>0, <1>1, MarkedInvites
  <2> QED BY <1>0, <1>1, <2>1, MarkedInvites DEF Pending, LiveInvite
<1>3. TypeOK'
  BY <1>0, <1>1, <1>2 DEF TypeOK
<1>4. RequestsHaveTheirRows'
  BY <1>0, <1>1, <1>2 DEF RequestsHaveTheirRows, Exists
<1>5. ClashesAreKnown' /\ LinksAreAsRead' /\ SpentOnce' /\ OneLiveLink'
  BY <1>0, <1>1 DEF ClashesAreKnown, Concerns, LinksAreAsRead, Unused, SpentOnce, OneLiveLink,
                    Redeemable
<1>6. EffectsAreFinal'
  BY <1>0, <1>1, <1>2 DEF EffectsAreFinal, Exists
<1>7. People' = People /\ Seated' = Seated
  BY <1>1 DEF People, Seated
<1>8. ASSUME NEW S \in SUBSET Pending, NEW T \in SUBSET S
      PROVE  /\ Cardinality(S) \in Nat /\ Cardinality(T) \in Nat
             /\ Cardinality(T) <= Cardinality(S)
  <2>1. IsFiniteSet(S) /\ T \in SUBSET S
    BY SeatsAreFinite
  <2> QED BY <2>1, FS_Subset, FS_CardinalityType
<1>9. Cardinality(People) \in Nat /\ Cardinality(Seated) \in Nat
  BY SeatsAreFinite, FS_CardinalityType
<1>10. SeatsAreKept'
  <2>1. /\ Cardinality(Pending) \in Nat /\ Cardinality(Pending') \in Nat
        /\ Cardinality(Pending') <= Cardinality(Pending)
    BY <1>2, <1>8
  <2> QED BY <1>0, <1>1, <1>7, <1>9, <2>1, SeatAssumption DEF SeatsAreKept, Seated
<1>11. SeatsAreLeft'
  <2>1. ASSUME Members \notin overlapped, NEW x \in Request, request[x].op = "invite"
        PROVE  /\ Cardinality(People)
                    + Cardinality({j \in Pending' : invite'[j].to # request[x].who}) + 1 <= SeatLimit
               /\ \A j \in Pending' : invite'[j].to = request[x].who => j \in request[x].seen
    <3> DEFINE S == {j \in Pending : invite[j].to # request[x].who}
               T == {j \in Pending' : invite'[j].to # request[x].who}
    <3>1. Pending' \subseteq Invite
      BY DEF Pending
    <3>2. S \in SUBSET Pending /\ T \in SUBSET S
      BY <1>2, <3>1
    <3>3. /\ Cardinality(People) + Cardinality(S) + 1 <= SeatLimit
          /\ \A j \in Pending : invite[j].to = request[x].who => j \in request[x].seen
      BY <1>0, <2>1 DEF SeatsAreLeft
    <3>4. Cardinality(People) + Cardinality(T) + 1 <= SeatLimit
      <4> HIDE DEF S, T
      <4> QED BY <1>8, <1>9, <3>2, <3>3, SeatAssumption
    <3> QED BY <1>2, <3>1, <3>3, <3>4
  <2>2. ASSUME Members \notin overlapped, NEW x \in Request, request[x].op = "accept",
               ~request[x].mint
        PROVE  Cardinality(Seated) + Cardinality(Pending' \ request[x].item) + 1 <= SeatLimit
    <3> DEFINE S == Pending \ request[x].item
               T == Pending' \ request[x].item
    <3>1. S \in SUBSET Pending /\ T \in SUBSET S
      BY <1>2
    <3>2. Cardinality(Seated) + Cardinality(S) + 1 <= SeatLimit
      BY <1>0, <2>2 DEF SeatsAreLeft, Seated
    <3>3. Cardinality(Seated) + Cardinality(T) + 1 <= SeatLimit
      <4> HIDE DEF S, T
      <4> QED BY <1>8, <1>9, <3>1, <3>2, SeatAssumption
    <3> QED BY <3>3
  <2> QED BY <1>1, <1>7, <2>1, <2>2 DEF SeatsAreLeft, Seated
<1> QED BY <1>3, <1>4, <1>5, <1>6, <1>10, <1>11 DEF IndInv, OneTimeAccess

-----------------------------------------------------------------------------
(* The inductive invariant, and what follows from it.                      *)

\* The initial state has neither requests nor rows.
LEMMA InitHolds ==
  ASSUME Init
  PROVE  IndInv
<1>1. /\ \A r \in Request : request[r] = Idle
      /\ \A l \in Link : link[l] = [to |-> Nobody, purpose |-> "password_reset", state |-> "live"]
      /\ \A i \in Invite : invite[i] = [to |-> Nobody, state |-> "live"]
      /\ \A x \in Link \cup Invite : uses[x] = 0
      /\ People = {} /\ Pending = {}
  BY DEF Init, People, Pending, LiveInvite
<1>2. Idle.op = "idle" /\ ~Idle.mint /\ Concerns(Idle.op, Idle.who) = {}
  BY DEF Idle, Concerns
<1>3. TypeOK
  BY DEF Init, TypeOK, Idle, Ops, Homes, Purposes
<1>4. SeatsAreKept
  <2>1. People \ readmitted = {}
    BY <1>1
  <2>2. Cardinality(People \ readmitted) = 0 /\ Cardinality(Pending) = 0
    BY <1>1, <2>1, FS_EmptySet
  <2> QED BY <2>2, SeatAssumption DEF SeatsAreKept
<1>5. SpentOnce /\ OneLiveLink
  BY <1>1 DEF SpentOnce, OneLiveLink, Redeemable
<1>6. RequestsHaveTheirRows /\ LinksAreAsRead /\ SeatsAreLeft
  BY <1>1, <1>2 DEF RequestsHaveTheirRows, LinksAreAsRead, SeatsAreLeft
<1>7. ClashesAreKnown
  BY <1>1, <1>2 DEF ClashesAreKnown
<1>8. EffectsAreFinal
  BY <1>1 DEF EffectsAreFinal
<1> QED BY <1>3, <1>4, <1>5, <1>6, <1>7, <1>8 DEF IndInv, OneTimeAccess

\* Every step of accounts, links and invitations keeps the inductive invariant.
LEMMA StepHolds ==
  ASSUME IndInv, [Next]_vars
  PROVE  IndInv'
<1>1. ASSUME UNCHANGED <<rows, request, history>>, sessions' \subseteq sessions
      PROVE  IndInv'
  <2>0. UNCHANGED <<account, link, invite, request, era, uses, overwritten, overlapped, readmitted>>
    BY <1>1 DEF rows, history
  <2>1. TypeOK'
    BY <1>1, <2>0 DEF IndInv, OneTimeAccess, TypeOK
  <2>2. People' = People /\ Pending' = Pending
    BY <2>0 DEF People, Pending, LiveInvite
  <2>3. SpentOnce' /\ OneLiveLink' /\ SeatsAreKept'
    BY <2>0, <2>2 DEF IndInv, OneTimeAccess, SpentOnce, OneLiveLink, Redeemable, SeatsAreKept
  <2>4. RequestsHaveTheirRows' /\ ClashesAreKnown' /\ LinksAreAsRead' /\ EffectsAreFinal'
    BY <2>0 DEF IndInv, RequestsHaveTheirRows, Exists, ClashesAreKnown, Concerns, LinksAreAsRead,
                Unused, EffectsAreFinal
  <2>5. SeatsAreLeft'
    BY <2>0, <2>2 DEF IndInv, SeatsAreLeft
  <2> QED BY <2>1, <2>3, <2>4, <2>5 DEF IndInv, OneTimeAccess
<1>2. ASSUME NEW r \in Request, Start(r) \/ Commit(r) \/ Abandon(r)
      PROVE  IndInv'
  BY <1>2, StartKeeps, CommitKeeps, AbandonKeeps
<1>3. ASSUME NEW s \in sessions, EndSession(s)
      PROVE  IndInv'
  BY <1>1, <1>3 DEF EndSession
<1>4. ASSUME NEW i \in Invite, ExpireInvite(i)
      PROVE  IndInv'
  BY <1>4, ExpireKeeps
<1>5. CASE UNCHANGED vars
  BY <1>1, <1>5 DEF vars
<1> QED BY <1>2, <1>3, <1>4, <1>5 DEF Next

\* What requests have read is so when they commit, unless they overlapped: the
\* inductive invariant of accounts.py, tokens.py and seat_problem.
THEOREM Invariance == Spec => []IndInv
  BY InitHolds, StepHolds, PTL DEF Spec

\* An invitation makes one account and a link acts once; asking for another link
\* retires the one before; seats are not oversold (tokens.py, accounts.py,
\* seat_problem): for any addresses, requests, links, invitations and seats.
THEOREM AccessOnce == Spec => []OneTimeAccess
<1>1. IndInv => OneTimeAccess
  BY DEF IndInv
<1> QED BY <1>1, Invariance, PTL

-----------------------------------------------------------------------------
(* Epochs.                                                                 *)

\* Where no stale read has set the epoch of an account, it counts its events.
EpochsOfAccounts == \A a \in Address \ overwritten : account[a].epoch = era[a]

\* An event counts, in the epoch too unless it was set from a stale read.
LEMMA EventCounts ==
  ASSUME TypeOK, EpochsOfAccounts, NEW r \in Request, request[r].who \in Address,
         Reset(r) \/ Change(r) \/ Deactivate(r)
  PROVE  LET a == request[r].who IN
         /\ overwritten \subseteq overwritten' /\ EpochsOfAccounts'
         /\ a \notin overwritten' => request[r].epoch = era[a]
<1> DEFINE a == request[r].who
<1>0. /\ account \in [Address -> AccountRow] /\ era \in [Address -> Nat]
      /\ account[a] \in AccountRow
  BY AccountsTyped DEF TypeOK, AccountRow
<1>1. CredentialEvent(r)
  BY DEF Reset, Change, Deactivate
<1>2. /\ overwritten \subseteq overwritten'
      /\ \A b \in Address : b # a => era'[b] = era[b]
      /\ era'[a] = era[a] + 1
      /\ a \notin overwritten' => a \notin overwritten /\ account[a].epoch = request[r].epoch
  BY <1>0, <1>1 DEF CredentialEvent
<1>3. /\ \A b \in Address : b # a => account'[b] = account[b]
      /\ account'[a].epoch = request[r].epoch + 1
  <2>1. CASE Reset(r)
    BY <1>0, <2>1 DEF Reset, Bumped, AccountRow
  <2>2. CASE Change(r)
    BY <1>0, <2>2 DEF Change, Bumped, AccountRow
  <2>3. CASE Deactivate(r)
    BY <1>0, <2>3 DEF Deactivate, Bumped, AccountRow
  <2> QED BY <2>1, <2>2, <2>3
<1>4. a \notin overwritten' => request[r].epoch = era[a]
  BY <1>2 DEF EpochsOfAccounts
<1>5. ASSUME NEW b \in Address, b \notin overwritten'
      PROVE  account'[b].epoch = era'[b]
  <2>1. CASE b = a
    BY <1>2, <1>3, <1>4, <1>5, <2>1
  <2>2. CASE b # a
    BY <1>2, <1>3, <1>5, <2>2 DEF EpochsOfAccounts
  <2> QED BY <2>1, <2>2
<1> QED BY <1>2, <1>4, <1>5 DEF EpochsOfAccounts

\* A commit keeps what epochs count, of accounts, requests and sessions.
LEMMA CommitCounts ==
  ASSUME TypeOK, RequestsHaveTheirRows, EpochsCount, NEW r \in Request, Commit(r) \/ Abandon(r)
  PROVE  EpochsCount'
<1> DEFINE q == request[r]
           a == q.who
<1>0. /\ EpochsOfAccounts /\ Settles(r) /\ account \in [Address -> AccountRow]
      /\ Idle.op = "idle" /\ ~Idle.mint /\ request \in [Request -> RequestRow]
  BY CommitSettles DEF EpochsCount, EpochsOfAccounts, Idle, TypeOK, AccountRow, RequestRow
<1>1. Commit(r) => a \in Address
  BY CommitWrites DEF AccountWrites
<1>2. EpochsOfAccounts' /\ overwritten \subseteq overwritten'
  <2>1. CASE Reset(r) \/ Change(r) \/ Deactivate(r)
    BY <1>0, <1>1, <2>1, EventCounts DEF Commit
  <2>2. CASE Register(r) \/ Verify(r) \/ Reactivate(r) \/ AcceptInvite(r)
    <3>1. a \in Address /\ UNCHANGED <<era, overwritten>>
      BY <1>1, <2>2 DEF Commit, Register, Verify, Reactivate, AcceptInvite, history
    <3>2. \A b \in Address : account'[b].epoch = account[b].epoch
      <4>1. CASE Register(r)
        BY <1>0, <3>1, <4>1 DEF Register, AccountRow
      <4>2. CASE Verify(r)
        BY <1>0, <3>1, <4>2 DEF Verify, AccountRow
      <4>3. CASE Reactivate(r)
        BY <1>0, <3>1, <4>3 DEF Reactivate, AccountRow
      <4>4. CASE AcceptInvite(r)
        BY <1>0, <3>1, <4>4 DEF AcceptInvite, AccountRow
      <4> QED BY <2>2, <4>1, <4>2, <4>3, <4>4
    <3> QED BY <1>0, <3>1, <3>2 DEF EpochsOfAccounts
  <2>3. CASE Forgot(r) \/ Resend(r) \/ CreateInvite(r) \/ RevokeInvite(r) \/ Mint(r) \/ Abandon(r)
    <3>1. UNCHANGED <<account, era, overwritten>>
      BY <2>3 DEF Forgot, Resend, SendLink, CreateInvite, RevokeInvite, Mint, Abandon, rows, history
    <3> QED BY <1>0, <3>1 DEF EpochsOfAccounts
  <2> QED BY <2>1, <2>2, <2>3 DEF Commit
<1>3. ASSUME NEW x \in Request, request'[x].mint, request'[x].who \notin overwritten'
      PROVE  request'[x].epoch = request'[x].era
  <2>1. CASE x # r
    <3>1. request'[x] = request[x]
      BY <1>0, <2>1, SettledRequests
    <3> QED BY <1>2, <1>3, <3>1 DEF EpochsCount
  <2>2. CASE x = r
    <3>1. CASE Register(r) \/ AcceptInvite(r)
      <4>1. ThenMint(r, 0, 0)
        BY <3>1 DEF Register, AcceptInvite
      <4>2. request'[x] = [q EXCEPT !.mint = TRUE, !.epoch = 0, !.era = 0]
        BY <1>0, <2>2, <4>1 DEF ThenMint
      <4> QED BY <1>0, <4>2 DEF RequestRow
    <3>2. CASE Change(r)
      <4>1. ThenMint(r, q.epoch + 1, era[a] + 1) /\ a \in Address
        BY <1>1, <3>2 DEF Change, Commit
      <4>2. request'[x] = [q EXCEPT !.mint = TRUE, !.epoch = q.epoch + 1, !.era = era[a] + 1]
        BY <1>0, <2>2, <4>1 DEF ThenMint
      <4>3. /\ request'[x].epoch = q.epoch + 1 /\ request'[x].era = era[a] + 1
            /\ request'[x].who = a
        BY <1>0, <4>2 DEF RequestRow
      <4>4. a \notin overwritten' => q.epoch = era[a]
        BY <1>0, <3>2, <4>1, EventCounts
      <4> QED BY <1>3, <4>3, <4>4
    <3>3. CASE ~Register(r) /\ ~AcceptInvite(r) /\ ~Change(r)
      <4>1. Done(r)
        BY <3>3 DEF Commit, Forgot, Resend, SendLink, Reset, Verify, Deactivate, Reactivate,
                    CreateInvite, RevokeInvite, Mint, Abandon
      <4> QED BY <1>0, <1>3, <2>2, <4>1 DEF Done
    <3> QED BY <3>1, <3>2, <3>3
  <2> QED BY <2>1, <2>2
<1>4. ASSUME NEW s \in sessions', s.owner \notin overwritten'
      PROVE  s.checked = s.era
  <2>1. CASE s \in sessions
    BY <1>2, <1>4, <2>1 DEF EpochsCount
  <2>2. CASE s \notin sessions
    <3>1. /\ q.mint /\ s = [owner |-> a, epoch |-> account[a].epoch,
                            checked |-> q.epoch, era |-> q.era]
      BY <1>4, <2>2 DEF Commit, Register, Forgot, Resend, SendLink, Reset, Verify, Change,
         Deactivate, Reactivate, CreateInvite, RevokeInvite, AcceptInvite, Mint, Abandon
    <3>2. s.owner = a /\ s.checked = q.epoch /\ s.era = q.era
      BY <3>1
    <3> QED BY <1>2, <1>4, <3>1, <3>2 DEF EpochsCount
  <2> QED BY <2>1, <2>2
<1> QED BY <1>2, <1>3, <1>4 DEF EpochsCount, EpochsOfAccounts

\* A sign-in reads the epoch as it counts.
LEMMA StartCounts ==
  ASSUME TypeOK, EpochsCount, NEW r \in Request, Start(r)
  PROVE  EpochsCount'
<1>1. PICK op, a, item, seen : Reads(r, op, a, item, seen)
  BY StartReads
<1> DEFINE epoch == IF op \in AboutCredentials THEN account[a].epoch ELSE 0
           event == IF op = "login" THEN era[a] ELSE 0
           new == [op |-> op, mint |-> op = "login", who |-> a, item |-> item,
                   seen |-> seen, epoch |-> epoch, era |-> event]
<1>2. /\ request' = [request EXCEPT ![r] = new]
      /\ UNCHANGED <<account, sessions, era, overwritten>> /\ a \in Address
  BY <1>1 DEF Reads, Read, rows
<1>3. request \in [Request -> RequestRow]
  BY DEF TypeOK, RequestRow
<1>4. /\ new.mint = (op = "login") /\ new.who = a /\ new.epoch = epoch /\ new.era = event
  OBVIOUS
<1>5. op = "login" /\ a \notin overwritten => epoch = event
  BY <1>2 DEF EpochsCount, AboutCredentials
<1>6. ASSUME NEW x \in Request, request'[x].mint, request'[x].who \notin overwritten
      PROVE  request'[x].epoch = request'[x].era
  <2> HIDE DEF new, epoch, event
  <2>1. CASE x = r
    <3>1. request'[x] = new
      BY <1>2, <1>3, <2>1
    <3> QED BY <1>4, <1>5, <1>6, <3>1
  <2>2. CASE x # r
    <3>1. request'[x] = request[x]
      BY <1>2, <1>3, <2>2
    <3> QED BY <1>6, <3>1 DEF EpochsCount
  <2> QED BY <2>1, <2>2
<1> QED BY <1>2, <1>6 DEF EpochsCount

\* Every step keeps what epochs count.
LEMMA StepCounts ==
  ASSUME IndInv, EpochsCount, [Next]_vars
  PROVE  EpochsCount'
<1>0. TypeOK /\ RequestsHaveTheirRows
  BY DEF IndInv, OneTimeAccess
<1>1. ASSUME NEW r \in Request, Start(r) \/ Commit(r) \/ Abandon(r)
      PROVE  EpochsCount'
  BY <1>0, <1>1, StartCounts, CommitCounts
<1>2. CASE (\E s \in sessions : EndSession(s)) \/ (\E i \in Invite : ExpireInvite(i)) \/ UNCHANGED vars
  <2>1. sessions' \subseteq sessions /\ UNCHANGED <<account, request, era, overwritten>>
    BY <1>2 DEF EndSession, ExpireInvite, vars, rows, history
  <2> QED BY <2>1 DEF EpochsCount
<1> QED BY <1>1, <1>2 DEF Next

\* A session opens the account only while no credential event has happened since
\* what it was given for was checked, the two cases aside that the property names
\* (current_user, token_epoch of auth.py and accounts.py): for any bounds.
THEOREM CredentialsEndSessions == Spec => []SessionsFollowCredentials
<1>1. Init => EpochsCount
  BY DEF Init, EpochsCount, Idle
<1>2. IndInv /\ EpochsCount => SessionsFollowCredentials
  <2>1. ASSUME IndInv, EpochsCount, NEW s \in sessions, Honoured(s), s.owner \notin overwritten,
               s.epoch = s.checked
        PROVE  s.era = era[s.owner]
    <3>1. s.owner \in Address
      BY <2>1 DEF IndInv, OneTimeAccess, TypeOK
    <3> QED BY <2>1, <3>1 DEF Honoured, EpochsCount
  <2> QED BY <2>1 DEF SessionsFollowCredentials
<1> QED BY <1>1, <1>2, StepCounts, Invariance, PTL DEF Spec
=============================================================================
