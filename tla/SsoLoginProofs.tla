--------------------------- MODULE SsoLoginProofs ---------------------------
(***************************************************************************)
(* Proofs about SsoLogin, for any issuers, people, logins, requests, forms *)
(* and bounds: the provider's row is as it was configured, a session that  *)
(* the identity provider has ended stays ended, and nobody is turned away  *)
(* without a reason.  The argument is that as long as no change of the     *)
(* provider has overlapped its use, everything a request has read of the   *)
(* row is what it still says (IssuerIsSettled), and that a login that      *)
(* nothing disturbed is alone with its code (LoginsAreAsBegun).            *)
(***************************************************************************)
EXTENDS SsoLogin, TLAPS

-----------------------------------------------------------------------------
(* Types.                                                                  *)

\* A request that is not running has read nothing.
LEMMA IdleIsTyped == Idle \in Readings /\ FirstRow \in Rows
BY FirstAssumption DEF Idle, Readings, FirstRow, Rows, Ops

\* Reading the provider's row keeps the types.
LEMMA ReadRowTypes ==
  ASSUME TypeOK, NEW r \in Request, NEW op \in Ops, NEW f \in Flow \cup {None},
         NEW excused \in SUBSET Flow, ReadRow(r, op, f, excused)
  PROVE  /\ request' \in [Request -> Readings] /\ overlapped' \in BOOLEAN
         /\ disturbed' \subseteq Flow
<1>1. [Idle EXCEPT !.op = op, !.flow = f, !.row = provider] \in Readings
  BY IdleIsTyped DEF TypeOK, Readings
<1>2. request' \in [Request -> Readings]
  BY <1>1 DEF ReadRow, TypeOK, Readings
<1>3. overlapped' \in BOOLEAN /\ disturbed' \subseteq Flow
  BY Zenon DEF ReadRow, TypeOK
<1> QED BY <1>2, <1>3

\* A row whose document was just fetched is a row.
LEMMA StoredIsTyped ==
  ASSUME TypeOK, RequestsHaveTheirLogins, NEW r \in Request
  PROVE  Stored(r) \in Rows
BY DEF TypeOK, Stored, Readings, Rows

\* A refused callback keeps the types.
LEMMA RefuseTypes ==
  ASSUME TypeOK, RequestsHaveTheirLogins, NEW r \in Request, request[r].op \in Logins,
         NEW excuses \in SUBSET Flow, Refuse(r, excuses)
  PROVE  /\ provider' \in Rows /\ request' \in [Request -> Readings]
         /\ disturbed' \subseteq Flow /\ needless' \subseteq Flow
<1>1. request[r].flow \in Flow
  BY DEF RequestsHaveTheirLogins
<1> QED BY <1>1, StoredIsTyped, IdleIsTyped DEF Refuse, TypeOK, Readings

\* Every step of a login keeps the types.
LEMMA LoginTypes ==
  ASSUME TypeOK, RequestsHaveTheirLogins, NEW r \in Request,
         \/ Discover(r) \/ Send(r) \/ Exchange(r) \/ Verify(r) \/ Match(r) \/ Complete(r)
         \/ Fail(r)
  PROVE  TypeOK'
<1> USE IdleIsTyped, StoredIsTyped
<1>0. /\ request[r].op \in Logins => request[r].flow \in Flow
      /\ request[r] \in Readings
  BY DEF RequestsHaveTheirLogins, TypeOK, Readings
<1>1. CASE Discover(r)
  <2> DEFINE row == request[r].row
             next == IF request[r].op = "called" THEN "discovered" ELSE "starting"
             Resolved(doc, store) ==
               [request[r] EXCEPT !.op = next,
                                  !.doc = doc, !.store = store,
                                  !.row = [row EXCEPT !.cache = None, !.fresh = FALSE]]
  <2>1. ASSUME NEW doc \in Issuer, NEW store \in BOOLEAN PROVE Resolved(doc, store) \in Readings
    <3>1. [row EXCEPT !.cache = None, !.fresh = FALSE] \in Rows
      BY <1>0 DEF Readings, Rows
    <3>2. "discovered" \in Ops /\ "starting" \in Ops
      BY DEF Ops, Logins
    <3> QED BY <1>0, <3>1, <3>2 DEF Readings
  <2>2. row.issuer \in Issuer /\ (row.cache # None => row.cache \in Issuer)
    BY <1>0 DEF Readings, Rows
  <2>3. ASSUME NEW doc \in Issuer, NEW store \in BOOLEAN,
               request' = [request EXCEPT ![r] = Resolved(doc, store)],
               UNCHANGED <<provider, key, jwks, flow, account, sessions, history>>
        PROVE  TypeOK'
    BY <2>1, <2>3 DEF TypeOK, history
  <2>4. CASE /\ request[r].op \in Logins /\ Refuse(r, {request[r].flow})
             /\ UNCHANGED <<jwks, flow>>
    BY <1>0, <2>4, RefuseTypes DEF TypeOK, Refuse
  <2>5. CASE row.cache # None /\ request' = [request EXCEPT ![r] = Resolved(row.cache, FALSE)]
             /\ UNCHANGED <<provider, key, jwks, flow, account, sessions, history>>
    BY <2>2, <2>3, <2>5
  <2>6. CASE request' = [request EXCEPT ![r] = Resolved(row.issuer, TRUE)]
             /\ UNCHANGED <<provider, key, jwks, flow, account, sessions, history>>
    BY <2>2, <2>3, <2>6
  <2>7. CASE request[r].op = "called" /\ Refuse(r, {request[r].flow}) /\ UNCHANGED <<jwks, flow>>
    BY <2>4, <2>7 DEF Logins
  <2> QED BY <1>1, <2>5, <2>6, <2>7, Zenon DEF Discover
<1>2. CASE Send(r)
  <2>1. request[r].doc \in Issuer
    BY <1>0, <1>2 DEF Send, Readings
  <2>2. request' \in [Request -> Readings]
    BY <1>2 DEF Send, TypeOK, Readings
  <2>3. flow' \in [Flow -> Passages]
    <3>1. PICK at \in Issuer \cup {None} :
            flow' = [flow EXCEPT ![request[r].flow] = [@ EXCEPT !.stage = "sent", !.at = at]]
      BY <1>2, <2>1 DEF Send, MintState
    <3> QED BY <3>1 DEF TypeOK, Passages
  <2> QED BY <1>2, <2>2, <2>3 DEF Send, TypeOK, history
<1>3. CASE Exchange(r)
  <2>0. request[r].op \in Logins /\ request[r].flow \in Flow
    BY <1>0, <1>3 DEF Exchange, Logins
  <2>1. CASE /\ Accepted(r)
             /\ flow' = [flow EXCEPT ![request[r].flow] =
                           [@ EXCEPT !.stage = "spent", !.at = None]]
             /\ request' = [request EXCEPT ![r] = [@ EXCEPT !.op = "exchanged", !.row = FirstRow,
                                                            !.signed = key[request[r].doc]]]
             /\ UNCHANGED <<provider, key, jwks, account, sessions, history>>
    <3>1. key[request[r].doc] \in Nat
      BY <1>0, <2>1 DEF Accepted, TypeOK, Readings, Rows
    <3>2. request' \in [Request -> Readings]
      BY <1>0, <2>1, <3>1 DEF TypeOK, Readings, Ops, Logins
    <3>3. flow' \in [Flow -> Passages]
      BY <2>1 DEF TypeOK, Passages
    <3> QED BY <2>1, <3>2, <3>3 DEF TypeOK, history
  <2>2. CASE (Refuse(r, {}) \/ Refuse(r, {request[r].flow})) /\ UNCHANGED <<jwks, flow>>
    BY <2>0, <2>2, RefuseTypes DEF TypeOK, Refuse
  <2> QED BY <1>3, <2>1, <2>2 DEF Exchange
<1>4. CASE Verify(r)
  <2>0. request[r].op \in Logins /\ request[r].flow \in Flow
    BY <1>0, <1>4 DEF Verify, Logins
  <2>1. jwks' \in [Issuer -> Nat \cup {None}] /\ flow' = flow
    BY <1>4 DEF Verify, FetchJwks, TypeOK, history
  <2>2. CASE /\ request' = [request EXCEPT ![r] = [@ EXCEPT !.op = "verified", !.signed = 0]]
             /\ UNCHANGED <<provider, key, flow, account, sessions, history>>
    <3>1. request' \in [Request -> Readings]
      BY <1>0, <2>2 DEF TypeOK, Readings, Ops, Logins
    <3> QED BY <2>1, <2>2, <3>1 DEF TypeOK, history
  <2>3. CASE Refuse(r, {}) \/ Refuse(r, {request[r].flow})
    BY <2>0, <2>1, <2>3, RefuseTypes DEF TypeOK, Refuse
  <2> QED BY <1>4, <2>2, <2>3 DEF Verify
<1>5. CASE Match(r)
  <2> DEFINE p == flow[request[r].flow].who
  <2>0. p \in Person
    BY <1>5 DEF Match, RequestsHaveTheirLogins, Callbacks, Logins
  <2>1. CASE /\ request' = [request EXCEPT ![r] =
                   [@ EXCEPT !.op = "matched",
                             !.who = IF account[p].home = "sso" THEN p ELSE None,
                             !.epoch = account[p].epoch, !.era = era[p]]]
             /\ UNCHANGED provider
    <3>0. account[p].epoch \in Nat /\ era[p] \in Nat /\ "matched" \in Ops
      BY <2>0 DEF TypeOK, Accounts, Ops, Logins
    <3>1. request' \in [Request -> Readings]
      BY <1>0, <2>0, <2>1, <3>0 DEF TypeOK, Readings
    <3> QED BY <1>5, <2>1, <3>1 DEF Match, TypeOK, history
  <2>2. CASE provider' = Stored(r) /\ request' = [request EXCEPT ![r] = Idle]
    <3>1. request' \in [Request -> Readings]
      BY <2>2 DEF TypeOK, Readings
    <3> QED BY <1>5, <2>2, <3>1 DEF Match, TypeOK, history
  <2> QED BY <1>5, <2>1, <2>2 DEF Match
<1>6. CASE Complete(r)
  <2> DEFINE p == flow[request[r].flow].who
  <2>0. p \in Person
    BY <1>6 DEF Complete, RequestsHaveTheirLogins, Callbacks, Logins
  <2>1. request' \in [Request -> Readings]
    BY <1>6 DEF Complete, TypeOK, Readings
  <2>2. account' \in [Person -> Accounts]
    BY <1>6, <2>0 DEF Complete, Provisioned, TypeOK, Accounts, Homes
  <2>3. sessions' \subseteq [owner : Person, epoch : Nat, era : Nat]
    BY <1>0, <1>6, <2>0 DEF Complete, TypeOK, Readings
  <2> QED BY <1>6, <2>1, <2>2, <2>3 DEF Complete, TypeOK, history
<1>7. CASE Fail(r)
  BY <1>7 DEF Fail, TypeOK, Readings, history
<1> QED BY <1>1, <1>2, <1>3, <1>4, <1>5, <1>6, <1>7

\* The other steps: administrators, the browser, provisioning and time.
LEMMA OtherTypes ==
  ASSUME TypeOK, RequestsHaveTheirLogins, NEW r \in Request,
         \/ StartPatch(r) \/ Patch(r) \/ StartRekey(r) \/ Rekey(r)
         \/ \E f \in Flow : Start(r, f) \/ Call(r, f)
         \/ \E p \in Person : ScimPost(r, p) \/ ScimPut(r, p) \/ ScimPatch(r, p)
         \/ CreateUser(r) \/ DeactivateUser(r) \/ ReactivateUser(r)
  PROVE  TypeOK'
<1> USE IdleIsTyped
<1>0. request[r] \in Readings
  BY DEF TypeOK
<1>1. CASE StartPatch(r) \/ StartRekey(r)
  <2>1. "patching" \in Ops /\ "rekeying" \in Ops
    BY DEF Ops
  <2>2. /\ request' \in [Request -> Readings] /\ overlapped' \in BOOLEAN
        /\ disturbed' \subseteq Flow
    BY <1>1, <2>1, ReadRowTypes, {} \in SUBSET Flow DEF StartPatch, StartRekey
  <2> QED BY <1>1, <2>2, BoundsAssumption DEF StartPatch, StartRekey, TypeOK, Event
<1>2. CASE Patch(r)
  <2>1. PICK form \in Form : provider' = Moved(r, form) /\ settings' = Asked(form)
    BY <1>2 DEF Patch
  <2>2. /\ form.issuer \in Issuer \cup {None} /\ form.client \in Issuer \cup {None}
        /\ form.secret \in Issuer \cup {None}
    BY FormAssumption
  <2>3. provider' \in Rows
    BY <2>1, <2>2 DEF Moved, Renames, TypeOK, Rows
  <2>4. settings' \in Settings
    BY <2>1, <2>2 DEF Asked, TypeOK, Settings
  <2> QED BY <1>2, <2>3, <2>4 DEF Patch, TypeOK, Begun
<1>3. CASE Rekey(r)
  <2>1. provider' \in Rows
    BY <1>0, <1>3 DEF Rekey, TypeOK, Readings, Rows
  <2> QED BY <1>3, <2>1 DEF Rekey, TypeOK, history
<1>4. ASSUME NEW f \in Flow, Start(r, f) \/ Call(r, f) PROVE TypeOK'
  <2>1. "starting" \in Ops /\ "called" \in Ops
    BY DEF Ops, Logins
  <2>2. /\ request' \in [Request -> Readings] /\ overlapped' \in BOOLEAN
        /\ disturbed' \subseteq Flow
    BY <1>4, <2>1, ReadRowTypes DEF Start, Call
  <2>3. flow' \in [Flow -> Passages]
    BY <1>4 DEF Start, Call, TypeOK, Passages
  <2> QED BY <1>4, <2>2, <2>3 DEF Start, Call, TypeOK
<1>5. ASSUME NEW p \in Person, ScimPost(r, p) \/ ScimPut(r, p) \/ ScimPatch(r, p)
      PROVE  TypeOK'
  <2>1. PICK op \in ScimOps : ReadUser(r, p, op)
    BY <1>5 DEF ScimPost, ScimPut, ScimPatch, ScimOps
  <2>2. account[p].epoch \in Nat /\ op \in Ops
    BY DEF TypeOK, Accounts, ScimOps, Ops
  <2>3. [Idle EXCEPT !.op = op, !.who = p, !.epoch = account[p].epoch] \in Readings
    BY <2>2 DEF Readings
  <2> QED BY <2>1, <2>3, BoundsAssumption DEF ReadUser, TypeOK, Event
<1>6. CASE CreateUser(r) \/ DeactivateUser(r) \/ ReactivateUser(r)
  <2>1. request[r].who \in Person /\ Bumped(r) \in Nat
    BY <1>0, <1>6 DEF CreateUser, DeactivateUser, ReactivateUser, RequestsHaveTheirLogins,
       ScimOps, Bumped, Readings
  <2>2. account' \in [Person -> Accounts]
    <3>1. CASE CreateUser(r)
      BY <2>1, <3>1 DEF CreateUser, TypeOK, Accounts, Homes
    <3>2. CASE DeactivateUser(r)
      BY <2>1, <3>2 DEF DeactivateUser, TypeOK, Accounts
    <3>3. CASE ReactivateUser(r)
      BY <2>1, <3>3 DEF ReactivateUser, TypeOK, Accounts
    <3> QED BY <1>6, <3>1, <3>2, <3>3
  <2>3. era' \in [Person -> Nat] /\ overwritten' \subseteq Person
    BY <1>6, <2>1 DEF CreateUser, DeactivateUser, ReactivateUser, TypeOK, Overwritten, history
  <2> QED BY <1>6, <2>2, <2>3 DEF CreateUser, DeactivateUser, ReactivateUser, TypeOK, history
<1> QED BY <1>1, <1>2, <1>3, <1>4, <1>5, <1>6

\* Every step keeps the types.
LEMMA NextTypeOK ==
  ASSUME TypeOK, RequestsHaveTheirLogins, Next
  PROVE  TypeOK'
<1>1. ASSUME NEW r \in Request, Handle(r) PROVE TypeOK'
  BY <1>1, LoginTypes, OtherTypes DEF Handle
<1>2. ASSUME NEW f \in Flow, NEW p \in Person, Authenticate(f, p) PROVE TypeOK'
  <2>1. flow' \in [Flow -> Passages]
    BY <1>2 DEF Authenticate, TypeOK, Passages
  <2> QED BY <1>2, <2>1 DEF Authenticate, TypeOK, history
<1>3. ASSUME NEW i \in Issuer, RotateKey(i) PROVE TypeOK'
  BY <1>3, BoundsAssumption DEF RotateKey, TypeOK, Event
<1>4. ASSUME NEW i \in Issuer, ForgetKeys(i) PROVE TypeOK'
  BY <1>4, BoundsAssumption DEF ForgetKeys, TypeOK, Event
<1>5. ASSUME NEW s \in sessions, EndSession(s) PROVE TypeOK'
  BY <1>5 DEF EndSession, TypeOK, history
<1>6. CASE AgeDocument
  <2>1. provider' \in Rows
    BY <1>6 DEF AgeDocument, TypeOK, Rows
  <2> QED BY <1>6, <2>1, BoundsAssumption DEF AgeDocument, TypeOK, Event
<1>7. ASSUME NEW f \in Flow, Expire(f) PROVE TypeOK'
  <2>1. flow' \in [Flow -> Passages]
    BY <1>7 DEF Expire, TypeOK, Passages
  <2> QED BY <1>7, <2>1 DEF Expire, TypeOK
<1> QED BY <1>1, <1>2, <1>3, <1>4, <1>5, <1>6, <1>7 DEF Next

-----------------------------------------------------------------------------
(* The provider, the logins and the requests.                              *)

\* What the next state must have, besides its types.
Settled ==
  RequestsHaveTheirLogins /\ OneRequestForEach /\ IssuerIsSettled /\ LoginsAreAsBegun

\* A request that ends leaves the others as they are; the document it may store
\* is the configured issuer's.
LEMMA EndKeepsProvider ==
  ASSUME TypeOK, Settled, NEW r \in Request,
         request' = [request EXCEPT ![r] = Idle], provider' \in {provider, Stored(r)},
         overlapped' = overlapped, settings' = settings,
         disturbed \subseteq disturbed', disturbed' \subseteq Flow
  PROVE  /\ OneRequestForEach' /\ IssuerIsSettled' /\ provider'.issuer = provider.issuer
         /\ request'[r].op = "idle" /\ request'[r].store = FALSE
         /\ \A q \in Request : q # r => request'[q] = request[q]
<1>1. /\ request'[r].op = "idle" /\ request'[r].store = FALSE
      /\ \A q \in Request : q # r => request'[q] = request[q]
  BY DEF TypeOK, Idle
<1>2. /\ provider'.issuer = provider.issuer /\ provider'.secret = provider.secret
      /\ provider'.client = provider.client
  BY DEF TypeOK, Stored, Rows
<1>3. OneRequestForEach'
  BY <1>1 DEF Settled, OneRequestForEach, Logins
<1>4. IssuerIsSettled'
  <2>1. overlapped' => disturbed' = Flow
    BY DEF Settled, IssuerIsSettled
  <2>2. ASSUME ~overlapped
        PROVE  \/ provider'.cache = provider.cache
               \/ /\ provider'.cache \in {None, provider.issuer}
                  /\ \A q \in Request : q # r => request[q].op # "patching"
    <3>1. CASE request[r].store
      <4>1. request[r].op \in Logins
        BY <3>1 DEF Settled, RequestsHaveTheirLogins
      <4>2. \A q \in Request : q # r => request[q].op # "patching"
        BY <2>2, <4>1 DEF Settled, IssuerIsSettled, Clash, Changes, Uses
      <4>3. request[r].doc \in {None, provider.issuer}
        BY <2>2, <4>1 DEF Settled, IssuerIsSettled
      <4>4. provider'.cache \in {provider.cache, request[r].doc}
        BY <3>1 DEF Stored, TypeOK, Rows
      <4> QED BY <4>2, <4>3, <4>4
    <3>2. CASE ~request[r].store
      BY <3>2 DEF Stored
    <3> QED BY <3>1, <3>2
  <2>3. ASSUME ~overlapped, NEW q \in Request, NEW s \in Request, q # s
        PROVE  ~Clash(request'[q].op, request'[s].op)
    BY <1>1, <2>3 DEF Settled, IssuerIsSettled, Clash, Changes, Uses, Logins
  <2>4. ASSUME ~overlapped
        PROVE  ProviderIsAsConfigured'
    BY <1>2, <2>2, <2>4 DEF Settled, IssuerIsSettled, ProviderIsAsConfigured
  <2>5. ASSUME ~overlapped, NEW q \in Request, q # r
        PROVE  /\ request[q].op \in {"starting", "called", "discovered", "patching"} =>
                    /\ request[q].row.issuer = provider'.issuer
                    /\ request[q].row.client = provider'.client
                    /\ request[q].row.secret = provider'.secret
                    /\ request[q].row.cache \in {None, provider'.issuer}
               /\ request[q].op \in Logins => request[q].doc \in {None, provider'.issuer}
               /\ request[q].op = "patching" => request[q].row.cache = provider'.cache
               /\ request[q].op = "rekeying" => request[q].row.secret = provider'.secret
    BY <1>2, <2>2, <2>5 DEF Settled, IssuerIsSettled
  <2> QED BY <1>1, <2>1, <2>3, <2>4, <2>5 DEF IssuerIsSettled, Logins
<1> QED BY <1>1, <1>2, <1>3, <1>4

\* So it is where nothing happens at the browser.
LEMMA RequestEnds ==
  ASSUME TypeOK, Settled, NEW r \in Request,
         request' = [request EXCEPT ![r] = Idle], provider' \in {provider, Stored(r)},
         flow' = flow, key' = key, overlapped' = overlapped, settings' = settings,
         disturbed \subseteq disturbed', disturbed' \subseteq Flow
  PROVE  Settled'
<1>1. /\ OneRequestForEach' /\ IssuerIsSettled' /\ provider'.issuer = provider.issuer
      /\ request'[r].op = "idle" /\ request'[r].store = FALSE
      /\ \A q \in Request : q # r => request'[q] = request[q]
  BY EndKeepsProvider
<1>2. RequestsHaveTheirLogins'
  BY <1>1 DEF Settled, RequestsHaveTheirLogins, Logins, Callbacks, ScimOps
<1>3. LoginsAreAsBegun'
  BY <1>1 DEF Settled, LoginsAreAsBegun, Whole
<1> QED BY <1>1, <1>2, <1>3 DEF Settled

\* What a request reads of the provider is what the row says.
LEMMA ReadRowSettles ==
  ASSUME TypeOK, Settled, NEW r \in Request,
         NEW op \in {"patching", "rekeying", "starting", "called"},
         NEW f \in Flow \cup {None}, NEW excused \in SUBSET Flow,
         ReadRow(r, op, f, excused), provider' = provider, settings' = settings
  PROVE  /\ IssuerIsSettled'
         /\ request'[r].op = op /\ request'[r].flow = f /\ request'[r].doc = None
         /\ request'[r].store = FALSE
         /\ \A q \in Request : q # r => request'[q] = request[q]
         /\ disturbed \subseteq disturbed' /\ excused \subseteq disturbed'
<1>1. /\ request'[r] = [Idle EXCEPT !.op = op, !.flow = f, !.row = provider]
      /\ \A q \in Request : q # r => request'[q] = request[q]
  BY DEF ReadRow, TypeOK
<1>2. /\ request'[r].op = op /\ request'[r].flow = f /\ request'[r].doc = None
      /\ request'[r].store = FALSE /\ request'[r].row = provider
  BY <1>1 DEF Idle
<1>3. /\ overlapped' => disturbed' = Flow
      /\ disturbed \subseteq disturbed' /\ excused \subseteq disturbed'
  BY DEF ReadRow, TypeOK
<1>4. ~overlapped' => ~overlapped /\ \A q \in Request : ~Clash(op, request[q].op)
  BY DEF ReadRow
<1>5. ASSUME ~overlapped', NEW q \in Request, NEW s \in Request, q # s
      PROVE  ~Clash(request'[q].op, request'[s].op)
  <2>1. ASSUME NEW x \in Request, x # r
        PROVE  /\ request'[x] = request[x]
               /\ ~Clash(op, request[x].op) /\ ~Clash(request[x].op, op)
    <3>1. ~Clash(op, request[x].op)
      BY <1>4, <1>5, <2>1
    <3>2. Clash(request[x].op, op) => Clash(op, request[x].op)
      BY DEF Clash, Changes, Uses, Logins
    <3> QED BY <1>1, <2>1, <3>1, <3>2
  <2>2. CASE q = r
    BY <1>2, <1>5, <2>1, <2>2
  <2>3. CASE s = r
    BY <1>2, <1>5, <2>1, <2>3
  <2>4. CASE q # r /\ s # r
    <3>1. request'[q] = request[q] /\ request'[s] = request[s]
      BY <2>1, <2>4
    <3> QED BY <1>4, <1>5, <3>1 DEF Settled, IssuerIsSettled
  <2> QED BY <2>2, <2>3, <2>4
<1>6. ASSUME ~overlapped', NEW q \in Request
      PROVE  /\ request'[q].op \in {"starting", "called", "discovered", "patching"} =>
                  /\ request'[q].row.issuer = provider.issuer
                  /\ request'[q].row.client = provider.client
                  /\ request'[q].row.secret = provider.secret
                  /\ request'[q].row.cache \in {None, provider.issuer}
             /\ request'[q].op \in Logins => request'[q].doc \in {None, provider.issuer}
             /\ request'[q].op = "patching" => request'[q].row.cache = provider.cache
             /\ request'[q].op = "rekeying" => request'[q].row.secret = provider.secret
  <2>1. CASE q = r
    BY <1>2, <1>4, <1>6, <2>1 DEF Settled, IssuerIsSettled, ProviderIsAsConfigured
  <2>2. CASE q # r
    <3>1. request'[q] = request[q]
      BY <1>1, <2>2
    <3> QED BY <1>4, <1>6, <3>1 DEF Settled, IssuerIsSettled
  <2> QED BY <2>1, <2>2
<1>7. IssuerIsSettled'
  BY <1>3, <1>4, <1>5, <1>6 DEF Settled, IssuerIsSettled, ProviderIsAsConfigured
<1> QED BY <1>1, <1>2, <1>3, <1>7

\* An administrator reads the provider's row.
LEMMA StartChangeSettles ==
  ASSUME TypeOK, Settled, NEW r \in Request, StartPatch(r) \/ StartRekey(r)
  PROVE  Settled'
<1>1. PICK op \in {"patching", "rekeying"} : ReadRow(r, op, None, {})
  BY DEF StartPatch, StartRekey
<1>2. provider' = provider /\ flow' = flow /\ key' = key /\ settings' = settings
  BY DEF StartPatch, StartRekey
<1>3. /\ op \in {"patching", "rekeying", "starting", "called"} /\ None \in Flow \cup {None}
      /\ {} \in SUBSET Flow
  OBVIOUS
<1>4. /\ IssuerIsSettled'
      /\ request'[r].op \in {"patching", "rekeying"} /\ request'[r].store = FALSE
      /\ \A q \in Request : q # r => request'[q] = request[q]
      /\ disturbed \subseteq disturbed'
  BY <1>1, <1>2, <1>3, ReadRowSettles
<1>5. RequestsHaveTheirLogins'
  BY <1>2, <1>4 DEF Settled, RequestsHaveTheirLogins, Logins, Callbacks, ScimOps
<1>6. OneRequestForEach'
  BY <1>4 DEF Settled, OneRequestForEach, Logins
<1>7. LoginsAreAsBegun'
  BY <1>2, <1>4 DEF Settled, LoginsAreAsBegun, Whole
<1> QED BY <1>4, <1>5, <1>6, <1>7 DEF Settled

\* A login begins, or comes back from the issuer.
LEMMA StartSettles ==
  ASSUME TypeOK, Settled, NEW r \in Request, NEW f \in Flow, Start(r, f) \/ Call(r, f)
  PROVE  Settled'
<1> DEFINE op == IF Start(r, f) THEN "starting" ELSE "called"
           excused == IF Start(r, f) THEN IF Whole THEN {} ELSE {f}
                      ELSE IF flow[f].stage = "code" THEN {} ELSE {f}
<1>1. /\ ReadRow(r, op, f, excused)
      /\ provider' = provider /\ key' = key /\ settings' = settings
  BY DEF Start, Call
<1>2. /\ IssuerIsSettled'
      /\ request'[r].op = op /\ request'[r].flow = f /\ request'[r].doc = None
      /\ request'[r].store = FALSE
      /\ \A q \in Request : q # r => request'[q] = request[q]
      /\ disturbed \subseteq disturbed' /\ excused \subseteq disturbed'
  <2>1. op \in {"patching", "rekeying", "starting", "called"} /\ excused \in SUBSET Flow
    OBVIOUS
  <2> HIDE DEF op, excused
  <2> QED BY <1>1, <2>1, ReadRowSettles
<1>3. /\ request'[r].op = op /\ request'[r].flow = f /\ request'[r].store = FALSE
      /\ request'[r].doc = None
      /\ \A q \in Request : q # r => request'[q] = request[q]
      /\ disturbed \subseteq disturbed'
  BY <1>2
<1>4. /\ flow'[f].stage = IF Start(r, f) THEN "starting"
                          ELSE IF flow[f].stage = "code" THEN "called" ELSE flow[f].stage
      /\ flow'[f].at = flow[f].at /\ flow'[f].who = flow[f].who
      /\ \A g \in Flow : g # f => flow'[g] = flow[g]
  BY DEF Start, Call, TypeOK, Passages
<1>5. /\ Start(r, f) => flow[f].stage = "idle"
      /\ ~Start(r, f) => flow[f].stage \in {"code", "called", "spent"}
  BY DEF Start, Call, StateHolds
<1>6. ASSUME NEW q \in Request, q # r, request[q].op \in Logins, request[q].flow = f
      PROVE  ~Start(r, f) /\ request[q].op # "starting" /\ f \in disturbed'
  BY <1>2, <1>5, <1>6 DEF Settled, RequestsHaveTheirLogins, Logins, Callbacks
<1>7. RequestsHaveTheirLogins'
  <2>1. ASSUME NEW q \in Request, q # r, request[q].op \in Logins
        PROVE  /\ request[q].op = "starting" => flow'[request[q].flow].stage = "starting"
               /\ request[q].op \in Callbacks =>
                    flow'[request[q].flow].stage \in {"called", "spent"}
               /\ flow'[request[q].flow].who = flow[request[q].flow].who
    <3>1. CASE request[q].flow = f
      BY <1>4, <1>5, <1>6, <2>1, <3>1 DEF Settled, RequestsHaveTheirLogins
    <3>2. CASE request[q].flow # f
      BY <1>4, <2>1, <3>2 DEF Settled, RequestsHaveTheirLogins
    <3> QED BY <3>1, <3>2
  <2>2. \A g \in Flow : flow'[g].stage \in {"code", "called", "spent"} => flow'[g].who \in Person
    BY <1>4, <1>5 DEF Settled, RequestsHaveTheirLogins
  <2>3. ASSUME NEW q \in Request, q # r
        PROVE  /\ request[q].op \in Logins => request[q].flow \in Flow
               /\ request[q].op = "called" => request[q].doc = None
               /\ request[q].op \in Callbacks \ {"called"} => request[q].doc # None
               /\ request[q].op \in ScimOps => request[q].who \in Person
               /\ request[q].store => request[q].op \in Logins
               /\ request[q].op = "matched" =>
                    request[q].who \in {None, flow[request[q].flow].who}
    BY <2>3 DEF Settled, RequestsHaveTheirLogins
  <2> QED BY <1>3, <1>4, <1>5, <2>1, <2>2, <2>3
          DEF RequestsHaveTheirLogins, Logins, Callbacks, ScimOps
<1>8. OneRequestForEach'
  <2>1. ASSUME NEW q \in Request, NEW s \in Request, q # s,
               request'[q].op \in Logins, request'[s].op \in Logins,
               request'[q].flow = request'[s].flow
        PROVE  request'[q].op # "starting" /\ request'[q].flow \in disturbed'
    <3>1. CASE q # r /\ s # r
      BY <1>3, <2>1, <3>1 DEF Settled, OneRequestForEach
    <3>2. CASE q = r
      BY <1>3, <1>6, <2>1, <3>2
    <3>3. CASE s = r
      BY <1>3, <1>6, <2>1, <3>3
    <3> QED BY <3>1, <3>2, <3>3
  <2> QED BY <2>1 DEF OneRequestForEach
<1>9. LoginsAreAsBegun'
  <2>1. ASSUME NEW g \in Flow \ disturbed', g # f
        PROVE  /\ flow'[g] = flow[g] /\ g \notin disturbed
               /\ \A q \in Request : request'[q].flow = g => request'[q] = request[q]
    BY <1>2, <1>3, <1>4, <2>1
  <2>2. ASSUME f \notin disturbed'
        PROVE  /\ flow'[f].stage # "idle" => Whole'
               /\ flow'[f].stage \in {"sent", "code", "called"} => flow'[f].at = provider.issuer
               /\ \A q \in Request : request'[q].flow = f =>
                    /\ request'[q].op \in {"called", "discovered"} => flow'[f].stage = "called"
                    /\ request'[q].op # "exchanged"
    <3>1. (Start(r, f) /\ Whole) \/ (~Start(r, f) /\ flow[f].stage = "code")
      BY <1>2, <2>2
    <3>2. flow[f].stage = "code" => flow[f].at = provider.issuer /\ Whole
      BY <1>2, <2>2 DEF Settled, LoginsAreAsBegun
    <3>4. Whole'
      BY <1>1, <3>1, <3>2 DEF Whole
    <3>3. \A q \in Request : q # r /\ request'[q].flow = f => request'[q].op \notin Logins
      BY <1>2, <1>6, <2>2
    <3> QED BY <1>3, <1>4, <3>1, <3>2, <3>3, <3>4 DEF Logins
  <2> QED BY <1>1, <2>1, <2>2 DEF Settled, LoginsAreAsBegun, Whole
<1> QED BY <1>2, <1>7, <1>8, <1>9 DEF Settled

\* Provisioning reads an account.
LEMMA ReadUserSettles ==
  ASSUME TypeOK, Settled, NEW r \in Request, NEW p \in Person,
         ScimPost(r, p) \/ ScimPut(r, p) \/ ScimPatch(r, p)
  PROVE  Settled'
<1>1. PICK op \in ScimOps : ReadUser(r, p, op)
  BY DEF ScimPost, ScimPut, ScimPatch, ScimOps
<1>2. /\ request'[r].op = op /\ request'[r].who = p /\ request'[r].store = FALSE
      /\ \A q \in Request : q # r => request'[q] = request[q]
      /\ UNCHANGED <<provider, key, flow, settings, overlapped, disturbed>>
  BY <1>1 DEF ReadUser, TypeOK, Idle
<1>3. RequestsHaveTheirLogins'
  BY <1>2 DEF Settled, RequestsHaveTheirLogins, Logins, Callbacks, ScimOps
<1>4. OneRequestForEach'
  BY <1>2 DEF Settled, OneRequestForEach, Logins, ScimOps
<1>5. LoginsAreAsBegun'
  BY <1>2 DEF Settled, LoginsAreAsBegun, ScimOps, Whole
<1>6. ASSUME ~overlapped, NEW q \in Request, NEW s \in Request, q # s
      PROVE  ~Clash(request'[q].op, request'[s].op)
  BY <1>2, <1>6 DEF Settled, IssuerIsSettled, Clash, Changes, Uses, Logins, ScimOps
<1>7. IssuerIsSettled'
  BY <1>2, <1>6 DEF Settled, IssuerIsSettled, ProviderIsAsConfigured, Logins, ScimOps
<1> QED BY <1>3, <1>4, <1>5, <1>7 DEF Settled
\* An administrator changes the row, or time does.
LEMMA ChangeSettles ==
  ASSUME TypeOK, TypeOK', Settled,
         (\E r \in Request : Patch(r) \/ Rekey(r)) \/ AgeDocument
  PROVE  Settled'
<1>1. ASSUME NEW r \in Request, Patch(r) PROVE Settled'
  <2>1. /\ request'[r].op = "idle" /\ request'[r].store = FALSE
        /\ \A q \in Request : q # r => request'[q] = request[q]
        /\ flow' = flow /\ key' = key /\ overlapped' = overlapped
        /\ disturbed' = disturbed \cup Begun
    BY <1>1 DEF Patch, TypeOK, Idle
  <2>2. RequestsHaveTheirLogins'
    BY <2>1 DEF Settled, RequestsHaveTheirLogins, Logins, Callbacks, ScimOps
  <2>3. OneRequestForEach'
    BY <2>1 DEF Settled, OneRequestForEach, Logins
  <2>4. LoginsAreAsBegun'
    <3>1. ASSUME NEW f \in Flow \ disturbed' PROVE flow'[f].stage = "idle"
      BY <2>1, <3>1 DEF Begun
    <3>2. ASSUME NEW f \in Flow \ disturbed', NEW q \in Request, request'[q].flow = f
          PROVE  request'[q].op \notin Callbacks
      BY <2>2, <3>1, <3>2 DEF RequestsHaveTheirLogins
    <3> QED BY <3>1, <3>2 DEF LoginsAreAsBegun, Callbacks, Logins
  <2>5. overlapped => disturbed' = Flow
    BY <2>1 DEF Settled, IssuerIsSettled, TypeOK, Begun
  <2>6. ASSUME ~overlapped
        PROVE  /\ \A q \in Request :
                    q # r => request[q].op \notin Logins \cup {"patching", "rekeying"}
               /\ ProviderIsAsConfigured'
    <3>1. /\ request[r].op = "patching" /\ request[r].row.cache = provider.cache
          /\ request[r].row.issuer = provider.issuer /\ request[r].row.client = provider.client
          /\ ProviderIsAsConfigured
      BY <1>1, <2>6 DEF Patch, Settled, IssuerIsSettled
    <3>2. PICK form \in Form : provider' = Moved(r, form) /\ settings' = Asked(form)
      BY <1>1 DEF Patch
    <3>5. /\ settings'.issuer = IF form.issuer = None THEN settings.issuer ELSE form.issuer
          /\ settings'.client = form.client
          /\ settings'.secret = IF form.secret = None THEN settings.secret ELSE form.secret
      BY <3>2 DEF Asked
    <3>6. /\ provider'.issuer = IF Renames(r, form) THEN form.issuer ELSE provider.issuer
          /\ provider'.client = form.client
          /\ provider'.secret = IF form.secret = None THEN provider.secret ELSE form.secret
          /\ provider'.cache = IF Renames(r, form) THEN None ELSE provider.cache
      BY <3>1, <3>2 DEF Moved, TypeOK, Rows
    <3>7. /\ provider.issuer = settings.issuer /\ provider.client = settings.client
          /\ provider.secret = settings.secret /\ provider.cache \in {None, provider.issuer}
      BY <2>6, <3>1 DEF ProviderIsAsConfigured
    <3>3. ProviderIsAsConfigured'
      BY <3>1, <3>5, <3>6, <3>7 DEF ProviderIsAsConfigured, Renames
    <3>4. ASSUME NEW q \in Request, q # r
          PROVE  request[q].op \notin Logins \cup {"patching", "rekeying"}
      BY <2>6, <3>1, <3>4 DEF Settled, IssuerIsSettled, Clash, Changes, Uses
    <3> QED BY <3>3, <3>4
  <2>7. IssuerIsSettled'
    <3>1. ASSUME ~overlapped, NEW q \in Request
          PROVE  request'[q].op \notin Logins \cup {"patching", "rekeying"}
      BY <2>1, <2>6, <3>1 DEF Logins
    <3> QED BY <2>1, <2>5, <2>6, <3>1
            DEF IssuerIsSettled, Clash, Changes, Uses, Logins
  <2> QED BY <2>2, <2>3, <2>4, <2>7 DEF Settled
<1>2. ASSUME NEW r \in Request, Rekey(r) PROVE Settled'
  <2>1. /\ request'[r].op = "idle" /\ request'[r].store = FALSE
        /\ \A q \in Request : q # r => request'[q] = request[q]
        /\ UNCHANGED <<flow, key, settings, overlapped, disturbed>>
    BY <1>2 DEF Rekey, TypeOK, Idle, history
  <2>2. /\ provider'.issuer = provider.issuer /\ provider'.cache = provider.cache
        /\ provider'.client = provider.client
        /\ ~overlapped => provider'.secret = provider.secret
    BY <1>2 DEF Rekey, TypeOK, Rows, Settled, IssuerIsSettled
  <2>3. RequestsHaveTheirLogins'
    BY <2>1 DEF Settled, RequestsHaveTheirLogins, Logins, Callbacks, ScimOps
  <2>4. OneRequestForEach'
    BY <2>1 DEF Settled, OneRequestForEach, Logins
  <2>5. LoginsAreAsBegun'
    BY <2>1, <2>2 DEF Settled, LoginsAreAsBegun, Whole
  <2>6. ASSUME ~overlapped, NEW q \in Request, NEW s \in Request, q # s
        PROVE  ~Clash(request'[q].op, request'[s].op)
    BY <2>1, <2>6 DEF Settled, IssuerIsSettled, Clash, Changes, Uses, Logins
  <2>7. IssuerIsSettled'
    BY <2>1, <2>2, <2>6 DEF Settled, IssuerIsSettled, ProviderIsAsConfigured, Logins
  <2> QED BY <2>3, <2>4, <2>5, <2>7 DEF Settled
<1>3. CASE AgeDocument
  <2>1. /\ UNCHANGED <<key, flow, request, settings, overlapped, disturbed>>
        /\ provider'.issuer = provider.issuer /\ provider'.cache = provider.cache
        /\ provider'.secret = provider.secret /\ provider'.client = provider.client
    BY <1>3 DEF AgeDocument, TypeOK, Rows
  <2> QED BY <2>1 DEF Settled, RequestsHaveTheirLogins, OneRequestForEach, IssuerIsSettled,
                      ProviderIsAsConfigured, LoginsAreAsBegun, Whole
<1> QED BY <1>1, <1>2, <1>3
\* A request that goes on keeps its login, and what it has of the provider is
\* what it read or the document it found.
Proceeds(r) ==
  /\ request'[r].flow = request[r].flow
  /\ \A q \in Request : q # r => request'[q] = request[q]
  /\ UNCHANGED <<provider, settings, overlapped, disturbed>>

\* Requests of a login that nothing disturbed are alone with it.
LEMMA Alone ==
  ASSUME Settled, NEW r \in Request, request[r].op \in Logins,
         NEW q \in Request, q # r, request[q].op \in Logins,
         request[q].flow = request[r].flow
  PROVE  request[r].op # "starting" /\ request[q].op # "starting" /\ request[r].flow \in disturbed
BY DEF Settled, OneRequestForEach

\* A login that goes on does not get into another's way.
LEMMA ProceedsKeeps ==
  ASSUME TypeOK, Settled, NEW r \in Request, Proceeds(r),
         request[r].op \in Logins, request'[r].op \in Logins,
         request'[r].op = "starting" <=> request[r].op = "starting",
         ~overlapped => /\ request'[r].op \in {"starting", "called", "discovered", "patching"} =>
                             /\ request'[r].row.issuer = provider.issuer
                             /\ request'[r].row.client = provider.client
                             /\ request'[r].row.secret = provider.secret
                             /\ request'[r].row.cache \in {None, provider.issuer}
                        /\ request'[r].doc \in {None, provider.issuer}
  PROVE  OneRequestForEach' /\ IssuerIsSettled'
<1>1. OneRequestForEach'
  <2>1. ASSUME NEW q \in Request, NEW s \in Request, q # s,
               request'[q].op \in Logins, request'[s].op \in Logins,
               request'[q].flow = request'[s].flow
        PROVE  request'[q].op # "starting" /\ request'[q].flow \in disturbed'
    <3>1. CASE q # r /\ s # r
      BY <2>1, <3>1 DEF Settled, OneRequestForEach, Proceeds
    <3>2. CASE q = r
      <4>1. request[s].op \in Logins /\ request[s].flow = request[r].flow
        BY <2>1, <3>2 DEF Proceeds
      <4> QED BY <2>1, <3>2, <4>1, Alone DEF Proceeds
    <3>3. CASE s = r
      <4>1. request[q].op \in Logins /\ request[q].flow = request[r].flow
        BY <2>1, <3>3 DEF Proceeds
      <4> QED BY <2>1, <3>3, <4>1, Alone DEF Proceeds
    <3> QED BY <3>1, <3>2, <3>3
  <2> QED BY <2>1 DEF OneRequestForEach
<1>2. ASSUME ~overlapped, NEW q \in Request, NEW s \in Request, q # s
      PROVE  ~Clash(request'[q].op, request'[s].op)
  <2>1. ~Clash(request[q].op, request[s].op)
    BY <1>2 DEF Settled, IssuerIsSettled
  <2>2. /\ request'[q].op = request[q].op \/ (q = r /\ request'[q].op \in Logins)
        /\ request'[s].op = request[s].op \/ (s = r /\ request'[s].op \in Logins)
    BY DEF Proceeds
  <2> QED BY <2>1, <2>2 DEF Clash, Changes, Uses, Logins
<1>3. ASSUME ~overlapped, NEW q \in Request, q # r
      PROVE  /\ request'[q].op \in {"starting", "called", "discovered", "patching"} =>
                  /\ request'[q].row.issuer = provider.issuer
                  /\ request'[q].row.client = provider.client
                  /\ request'[q].row.secret = provider.secret
                  /\ request'[q].row.cache \in {None, provider.issuer}
             /\ request'[q].op \in Logins => request'[q].doc \in {None, provider.issuer}
             /\ request'[q].op = "patching" => request'[q].row.cache = provider.cache
             /\ request'[q].op = "rekeying" => request'[q].row.secret = provider.secret
  <2>1. request'[q] = request[q]
    BY <1>3 DEF Proceeds
  <2> QED BY <1>3, <2>1 DEF Settled, IssuerIsSettled
<1>4. request'[r].op # "patching" /\ request'[r].op # "rekeying"
  BY DEF Logins
<1>5. IssuerIsSettled'
  BY <1>2, <1>3, <1>4 DEF Proceeds, Settled, IssuerIsSettled, ProviderIsAsConfigured
<1> QED BY <1>1, <1>5

\* A refused callback ends.
LEMMA RefuseSettles ==
  ASSUME TypeOK, Settled, NEW r \in Request, NEW excuses \in SUBSET Flow, Refuse(r, excuses),
         flow' = flow
  PROVE  Settled'
BY RequestEnds DEF Refuse, TypeOK

\* The endpoints are resolved, or cannot be.
LEMMA DiscoverSettles ==
  ASSUME TypeOK, Settled, NEW r \in Request, Discover(r)
  PROVE  Settled'
<1> DEFINE row == request[r].row
           next == IF request[r].op = "called" THEN "discovered" ELSE "starting"
           Resolved(doc, store) ==
             [request[r] EXCEPT !.op = next, !.doc = doc, !.store = store,
                                !.row = [row EXCEPT !.cache = None, !.fresh = FALSE]]
<1>0. request[r] \in Readings /\ request[r].op \in {"starting", "called"}
  BY DEF TypeOK, Discover
<1>1. row.issuer \in Issuer /\ (row.cache # None => row.cache \in Issuer)
  BY <1>0 DEF Readings, Rows
<1>2. ASSUME NEW doc \in Issuer, NEW store \in BOOLEAN,
             request' = [request EXCEPT ![r] = Resolved(doc, store)],
             doc \in {row.cache, row.issuer},
             UNCHANGED <<provider, key, jwks, flow, account, sessions, history>>
      PROVE  Settled'
  <2> DEFINE left == [row EXCEPT !.cache = None, !.fresh = FALSE]
  <2>0. /\ left.issuer = row.issuer /\ left.client = row.client /\ left.secret = row.secret
        /\ left.cache = None
    BY <1>0 DEF Readings, Rows
  <2>1. /\ request'[r].op = next /\ request'[r].doc = doc
        /\ request'[r].row.issuer = row.issuer /\ request'[r].row.client = row.client
        /\ request'[r].row.secret = row.secret /\ request'[r].row.cache = None
    <3>1. request'[r] = Resolved(doc, store)
      BY <1>2 DEF TypeOK
    <3> QED BY <1>0, <2>0, <3>1 DEF Readings
  <2>2. Proceeds(r)
    BY <1>0, <1>2 DEF Proceeds, TypeOK, Readings, history
  <2>3. doc # None
    BY NoneAssumption
  <2>4. ~overlapped => /\ row.issuer = provider.issuer /\ row.client = provider.client
                       /\ row.secret = provider.secret
                       /\ row.cache \in {None, provider.issuer}
    BY <1>0 DEF Settled, IssuerIsSettled
  <2>5. OneRequestForEach' /\ IssuerIsSettled'
    BY <1>0, <1>2, <2>1, <2>2, <2>3, <2>4, ProceedsKeeps DEF Logins
  <2>6. RequestsHaveTheirLogins'
    BY <1>0, <1>2, <2>1, <2>2, <2>3
       DEF Settled, RequestsHaveTheirLogins, Proceeds, Logins, Callbacks, ScimOps
  <2>7. LoginsAreAsBegun'
    BY <1>0, <1>2, <2>1, <2>2 DEF Settled, LoginsAreAsBegun, Proceeds, Whole
  <2> QED BY <2>5, <2>6, <2>7 DEF Settled
<1>3. CASE row.cache # None /\ request' = [request EXCEPT ![r] = Resolved(row.cache, FALSE)]
           /\ UNCHANGED <<provider, key, jwks, flow, account, sessions, history>>
  BY <1>1, <1>2, <1>3
<1>4. CASE request' = [request EXCEPT ![r] = Resolved(row.issuer, TRUE)]
           /\ UNCHANGED <<provider, key, jwks, flow, account, sessions, history>>
  BY <1>1, <1>2, <1>4
<1>5. CASE Refuse(r, {request[r].flow}) /\ UNCHANGED <<jwks, flow>>
  <2>1. {request[r].flow} \in SUBSET Flow
    BY <1>0 DEF Settled, RequestsHaveTheirLogins, Logins
  <2> QED BY <1>5, <2>1, RefuseSettles
<1> QED BY <1>3, <1>4, <1>5, Zenon DEF Discover
\* The browser is sent to the issuer.
LEMMA SendSettles ==
  ASSUME TypeOK, Settled, NEW r \in Request, Send(r)
  PROVE  Settled'
<1> DEFINE f == request[r].flow
<1>0. /\ f \in Flow /\ request[r].op = "starting" /\ request[r].doc # None
      /\ flow[f].stage = "starting"
      /\ UNCHANGED <<key, settings, overlapped, disturbed>>
  BY DEF Send, Settled, RequestsHaveTheirLogins, Logins, history
<1>1. /\ OneRequestForEach' /\ IssuerIsSettled' /\ provider'.issuer = provider.issuer
      /\ request'[r].op = "idle" /\ request'[r].store = FALSE
      /\ \A q \in Request : q # r => request'[q] = request[q]
  BY EndKeepsProvider DEF Send, TypeOK, history
<1>2. /\ flow'[f].stage = "sent"
      /\ request[r].row.client = request[r].doc => flow'[f].at = request[r].doc
      /\ \A g \in Flow : g # f => flow'[g] = flow[g]
  BY <1>0 DEF Send, MintState, TypeOK, Passages
<1>3. ASSUME NEW q \in Request, request'[q].op \in Logins
      PROVE  q # r /\ request'[q] = request[q] /\ request[q].flow # f
  BY <1>0, <1>1, <1>3, Alone DEF Logins
<1>4. RequestsHaveTheirLogins'
  BY <1>0, <1>1, <1>2, <1>3
     DEF Settled, RequestsHaveTheirLogins, Logins, Callbacks, ScimOps
<1>5. LoginsAreAsBegun'
  <2>0. f \notin disturbed => Whole
    BY <1>0 DEF Settled, LoginsAreAsBegun
  <2>1. f \notin disturbed => /\ request[r].doc = provider.issuer
                             /\ request[r].row.client = request[r].doc
    BY <1>0, <2>0 DEF Settled, IssuerIsSettled, ProviderIsAsConfigured, Whole, Logins
  <2>2. ASSUME NEW q \in Request, request'[q].flow = f PROVE request'[q].op \notin Logins
    BY <1>3, <2>2
  <2>3. ASSUME NEW g \in Flow \ disturbed, g # f, NEW q \in Request, request'[q].flow = g
        PROVE  /\ request'[q].op \in {"called", "discovered"} => flow'[g].stage = "called"
               /\ request'[q].op = "exchanged" => request'[q].signed = key[request'[q].doc]
    BY <1>1, <1>2, <2>3 DEF Settled, LoginsAreAsBegun
  <2>4. ASSUME NEW g \in Flow \ disturbed, flow'[g].stage \in {"sent", "code", "called"}
        PROVE  flow'[g].at = provider.issuer
    BY <1>2, <2>1, <2>4 DEF Settled, LoginsAreAsBegun
  <2>5. ASSUME NEW g \in Flow \ disturbed, flow'[g].stage # "idle" PROVE Whole
    BY <1>2, <2>0, <2>5 DEF Settled, LoginsAreAsBegun
  <2> QED BY <1>0, <1>1, <2>2, <2>3, <2>4, <2>5 DEF LoginsAreAsBegun, Logins, Whole
<1> QED BY <1>1, <1>4, <1>5 DEF Settled

\* The code is traded for a token.
LEMMA ExchangeSettles ==
  ASSUME TypeOK, Settled, NEW r \in Request, Exchange(r)
  PROVE  Settled'
<1> DEFINE f == request[r].flow
<1>0. f \in Flow /\ request[r].op = "discovered" /\ request[r] \in Readings
  BY DEF Exchange, Settled, RequestsHaveTheirLogins, Logins, TypeOK
<1>1. CASE /\ Accepted(r)
           /\ flow' = [flow EXCEPT ![f] = [@ EXCEPT !.stage = "spent", !.at = None]]
           /\ request' = [request EXCEPT ![r] = [@ EXCEPT !.op = "exchanged", !.row = FirstRow,
                                                          !.signed = key[request[r].doc]]]
           /\ UNCHANGED <<provider, key, jwks, account, sessions, history>>
  <2>1. /\ request'[r].op = "exchanged" /\ request'[r].signed = key[request[r].doc]
        /\ request'[r].doc = request[r].doc /\ request'[r].flow = f
        /\ request'[r].store = request[r].store
    BY <1>0, <1>1 DEF TypeOK, Readings
  <2>2. Proceeds(r) /\ key' = key
    BY <1>1, <2>1 DEF Proceeds, TypeOK, history
  <2>3. /\ flow[f].stage = "called" /\ flow'[f].stage = "spent" /\ flow'[f].who = flow[f].who
        /\ \A g \in Flow : g # f => flow'[g] = flow[g]
    BY <1>0, <1>1 DEF Accepted, TypeOK, Passages
  <2>4. OneRequestForEach' /\ IssuerIsSettled'
    <3>1. ~overlapped => request[r].doc \in {None, provider.issuer}
      BY <1>0 DEF Settled, IssuerIsSettled, Logins
    <3> QED BY <1>0, <2>1, <2>2, <3>1, ProceedsKeeps DEF Logins
  <2>5. ASSUME NEW q \in Request, q # r, request[q].op \in Logins, request[q].flow = f
        PROVE  request[q].op # "starting" /\ f \in disturbed
    BY <1>0, <2>5, Alone DEF Logins
  <2>6. RequestsHaveTheirLogins'
    <3>1. ASSUME NEW q \in Request, q # r, request[q].op \in Logins
          PROVE  /\ request[q].op = "starting" => flow'[request[q].flow].stage = "starting"
                 /\ request[q].op \in Callbacks =>
                      flow'[request[q].flow].stage \in {"called", "spent"}
                 /\ flow'[request[q].flow].who = flow[request[q].flow].who
      BY <2>3, <2>5, <3>1 DEF Settled, RequestsHaveTheirLogins
    <3>2. \A g \in Flow :
            flow'[g].stage \in {"code", "called", "spent"} => flow'[g].who \in Person
      BY <2>3 DEF Settled, RequestsHaveTheirLogins
    <3>3. \A q \in Request :
            /\ request[q].op \in Logins => request[q].flow \in Flow
            /\ request[q].op = "called" => request[q].doc = None
            /\ request[q].op \in Callbacks \ {"called"} => request[q].doc # None
            /\ request[q].op \in ScimOps => request[q].who \in Person
            /\ request[q].store => request[q].op \in Logins
            /\ request[q].op = "matched" =>
                 request[q].who \in {None, flow[request[q].flow].who}
      BY DEF Settled, RequestsHaveTheirLogins
    <3>4. request[r].doc # None
      BY <1>0, <3>3 DEF Callbacks, Logins
    <3> QED BY <1>0, <2>1, <2>2, <2>3, <3>1, <3>2, <3>3, <3>4
            DEF RequestsHaveTheirLogins, Proceeds, Logins, Callbacks, ScimOps
  <2>7. LoginsAreAsBegun'
    <3>1. ASSUME NEW g \in Flow \ disturbed, g # f
          PROVE  /\ flow'[g] = flow[g]
                 /\ \A q \in Request : request'[q].flow = g => request'[q] = request[q]
      BY <2>1, <2>2, <2>3, <3>1 DEF Proceeds
    <3>2. ASSUME f \notin disturbed, NEW q \in Request, request'[q].flow = f
          PROVE  /\ request'[q].op \notin {"called", "discovered"}
                 /\ request'[q].op = "exchanged" => request'[q].signed = key[request'[q].doc]
      BY <2>1, <2>2, <2>5, <3>2 DEF Proceeds, Logins
    <3> QED BY <2>2, <2>3, <3>1, <3>2 DEF Settled, LoginsAreAsBegun, Proceeds, Whole
  <2> QED BY <2>4, <2>6, <2>7 DEF Settled
<1>2. CASE (Refuse(r, {}) \/ Refuse(r, {f})) /\ UNCHANGED <<jwks, flow>>
  <2>1. {f} \in SUBSET Flow /\ {} \in SUBSET Flow
    BY <1>0
  <2> QED BY <1>2, <2>1, RefuseSettles
<1> QED BY <1>1, <1>2 DEF Exchange

\* The token is verified, and the account is looked up.
LEMMA VerifySettles ==
  ASSUME TypeOK, Settled, NEW r \in Request, Verify(r) \/ Match(r)
  PROVE  Settled'
<1> DEFINE f == request[r].flow
<1>0. /\ f \in Flow /\ request[r].op \in {"exchanged", "verified"} /\ request[r] \in Readings
      /\ flow' = flow
  BY DEF Verify, Match, Settled, RequestsHaveTheirLogins, Logins, TypeOK, Refuse, history
<1>1. ASSUME request'[r].op \in {"verified", "matched"}, request'[r].doc = request[r].doc,
             request'[r].store = request[r].store, Proceeds(r), key' = key,
             request'[r].op = "matched" => request'[r].who \in {None, flow[f].who}
      PROVE  Settled'
  <2>1. OneRequestForEach' /\ IssuerIsSettled'
    <3>1. ~overlapped => request[r].doc \in {None, provider.issuer}
      BY <1>0 DEF Settled, IssuerIsSettled, Logins
    <3> QED BY <1>0, <1>1, <3>1, ProceedsKeeps DEF Logins
  <2>2. RequestsHaveTheirLogins'
    BY <1>0, <1>1 DEF Settled, RequestsHaveTheirLogins, Proceeds, Logins, Callbacks, ScimOps
  <2>3. LoginsAreAsBegun'
    BY <1>0, <1>1 DEF Settled, LoginsAreAsBegun, Proceeds, Whole
  <2> QED BY <2>1, <2>2, <2>3 DEF Settled
<1>2. CASE Verify(r)
  <2>1. CASE /\ request' = [request EXCEPT ![r] = [@ EXCEPT !.op = "verified", !.signed = 0]]
             /\ UNCHANGED <<provider, key, flow, account, sessions, history>>
    BY <1>0, <1>1, <2>1 DEF Proceeds, TypeOK, Readings, history
  <2>2. CASE Refuse(r, {}) \/ Refuse(r, {f})
    <3>1. {f} \in SUBSET Flow /\ {} \in SUBSET Flow
      BY <1>0
    <3> QED BY <1>0, <2>2, <3>1, RefuseSettles
  <2> QED BY <1>2, <2>1, <2>2 DEF Verify
<1>3. CASE Match(r)
  <2> DEFINE p == flow[f].who
  <2>1. CASE /\ request' = [request EXCEPT ![r] =
                   [@ EXCEPT !.op = "matched",
                             !.who = IF account[p].home = "sso" THEN p ELSE None,
                             !.epoch = account[p].epoch, !.era = era[p]]]
             /\ UNCHANGED provider
    <3>1. /\ request'[r].op = "matched" /\ request'[r].doc = request[r].doc
          /\ request'[r].store = request[r].store /\ request'[r].flow = f
          /\ request'[r].who \in {None, p}
      BY <1>0, <2>1 DEF TypeOK, Readings
    <3>2. Proceeds(r) /\ key' = key
      BY <1>3, <2>1, <3>1 DEF Match, Proceeds, TypeOK, history
    <3> QED BY <1>1, <3>1, <3>2
  <2>2. CASE provider' = Stored(r) /\ request' = [request EXCEPT ![r] = Idle]
    BY <1>3, <2>2, RequestEnds DEF Match, TypeOK, history
  <2> QED BY <1>3, <2>1, <2>2 DEF Match
<1> QED BY <1>2, <1>3
\* Whoever logs in, provisions or dies at the end leaves the others alone.
LEMMA EndsSettle ==
  ASSUME TypeOK, Settled, NEW r \in Request,
         \/ Complete(r) \/ Fail(r) \/ CreateUser(r) \/ DeactivateUser(r) \/ ReactivateUser(r)
  PROVE  Settled'
<1>1. /\ request' = [request EXCEPT ![r] = Idle] /\ provider' \in {provider, Stored(r)}
      /\ UNCHANGED <<flow, key, settings, overlapped, disturbed>>
  BY DEF Complete, Fail, CreateUser, DeactivateUser, ReactivateUser, history
<1> QED BY <1>1, RequestEnds DEF TypeOK

\* The person signs in, the issuer changes its key.
LEMMA OutsideSettles ==
  ASSUME TypeOK, Settled,
         \/ \E f \in Flow : Expire(f) \/ \E p \in Person : Authenticate(f, p)
         \/ \E i \in Issuer : RotateKey(i) \/ ForgetKeys(i)
         \/ \E s \in sessions : EndSession(s)
  PROVE  Settled'
<1>1. ASSUME NEW f \in Flow, NEW p \in Person, Authenticate(f, p) PROVE Settled'
  <2>1. /\ flow[f].stage = "sent" /\ flow'[f].stage = "code" /\ flow'[f].at = flow[f].at
        /\ flow'[f].who = p /\ \A g \in Flow : g # f => flow'[g] = flow[g]
        /\ UNCHANGED <<provider, key, request, settings, overlapped, disturbed>>
    BY <1>1 DEF Authenticate, TypeOK, Passages, history
  <2>2. \A q \in Request : request[q].op \in Logins => request[q].flow # f
    BY <2>1 DEF Settled, RequestsHaveTheirLogins, Logins, Callbacks
  <2>3. RequestsHaveTheirLogins'
    BY <2>1, <2>2 DEF Settled, RequestsHaveTheirLogins, Logins, Callbacks
  <2>4. OneRequestForEach' /\ IssuerIsSettled'
    BY <2>1 DEF Settled, OneRequestForEach, IssuerIsSettled, ProviderIsAsConfigured
  <2>5. LoginsAreAsBegun'
    BY <2>1, <2>2 DEF Settled, LoginsAreAsBegun, Logins, Whole
  <2> QED BY <2>3, <2>4, <2>5 DEF Settled
<1>6. ASSUME NEW f \in Flow, Expire(f) PROVE Settled'
  <2>1. /\ flow[f].stage \in {"sent", "code"} /\ flow'[f].stage = "expired"
        /\ \A g \in Flow : g # f => flow'[g] = flow[g]
        /\ UNCHANGED <<provider, key, request, settings, overlapped>>
        /\ disturbed' = disturbed \cup {f}
    BY <1>6 DEF Expire, TypeOK, Passages
  <2>2. \A q \in Request : request[q].op \in Logins => request[q].flow # f
    BY <2>1 DEF Settled, RequestsHaveTheirLogins, Logins, Callbacks
  <2>3. RequestsHaveTheirLogins'
    BY <2>1, <2>2 DEF Settled, RequestsHaveTheirLogins, Logins, Callbacks
  <2>4. OneRequestForEach'
    BY <2>1 DEF Settled, OneRequestForEach
  <2>5. IssuerIsSettled'
    BY <2>1 DEF Settled, IssuerIsSettled, ProviderIsAsConfigured
  <2>6. LoginsAreAsBegun'
    BY <2>1, <2>2 DEF Settled, LoginsAreAsBegun, Logins, Whole
  <2> QED BY <2>3, <2>4, <2>5, <2>6 DEF Settled
<1>2. ASSUME NEW i \in Issuer, RotateKey(i) PROVE Settled'
  <2>1. /\ UNCHANGED <<provider, flow, request, settings, overlapped>>
        /\ disturbed \subseteq disturbed' /\ disturbed' \subseteq Flow
        /\ \A f \in Flow \ disturbed' : \A q \in Request :
             request[q].flow = f => request[q].op # "exchanged"
    BY <1>2 DEF RotateKey, TypeOK
  <2>2. RequestsHaveTheirLogins'
    BY <2>1 DEF Settled, RequestsHaveTheirLogins
  <2>3. OneRequestForEach'
    BY <2>1 DEF Settled, OneRequestForEach
  <2>4. IssuerIsSettled'
    BY <2>1 DEF Settled, IssuerIsSettled, ProviderIsAsConfigured
  <2>5. LoginsAreAsBegun'
    BY <2>1 DEF Settled, LoginsAreAsBegun, Whole
  <2> QED BY <2>2, <2>3, <2>4, <2>5 DEF Settled
<1>3. ASSUME UNCHANGED <<provider, key, flow, request, settings, overlapped, disturbed>>
      PROVE  Settled'
  BY <1>3 DEF Settled, RequestsHaveTheirLogins, OneRequestForEach, IssuerIsSettled,
              ProviderIsAsConfigured, LoginsAreAsBegun, Whole
<1>4. ASSUME NEW i \in Issuer, ForgetKeys(i) PROVE Settled'
  BY <1>3, <1>4 DEF ForgetKeys
<1>5. ASSUME NEW s \in sessions, EndSession(s) PROVE Settled'
  BY <1>3, <1>5 DEF EndSession, history
<1> QED BY <1>1, <1>2, <1>4, <1>5, <1>6

\* Every step keeps what requests know of the provider and of their logins.
LEMMA NextSettled ==
  ASSUME TypeOK, TypeOK', Settled, Next
  PROVE  Settled'
<1>1. ASSUME NEW r \in Request, Handle(r) PROVE Settled'
  <2>1. CASE StartPatch(r) \/ StartRekey(r)
    BY <2>1, StartChangeSettles
  <2>2. CASE Patch(r) \/ Rekey(r)
    BY <2>2, ChangeSettles
  <2>3. CASE \E f \in Flow : Start(r, f) \/ Call(r, f)
    BY <2>3, StartSettles
  <2>4. CASE Discover(r)
    BY <2>4, DiscoverSettles
  <2>5. CASE Send(r)
    BY <2>5, SendSettles
  <2>6. CASE Exchange(r)
    BY <2>6, ExchangeSettles
  <2>7. CASE Verify(r) \/ Match(r)
    BY <2>7, VerifySettles
  <2>8. CASE \E p \in Person : ScimPost(r, p) \/ ScimPut(r, p) \/ ScimPatch(r, p)
    BY <2>8, ReadUserSettles
  <2>9. CASE Complete(r) \/ Fail(r) \/ CreateUser(r) \/ DeactivateUser(r) \/ ReactivateUser(r)
    BY <2>9, EndsSettle
  <2> QED BY <1>1, <2>1, <2>2, <2>3, <2>4, <2>5, <2>6, <2>7, <2>8, <2>9 DEF Handle
<1>2. CASE AgeDocument
  BY <1>2, ChangeSettles
<1> QED BY <1>1, <1>2, OutsideSettles DEF Next

-----------------------------------------------------------------------------
(* Refusals.                                                               *)

\* A refusal is excused by what disturbed the login, or by what it met itself.
LEMMA RefusedWithReason ==
  ASSUME RefusalsAreExcused, NEW r \in Request, NEW excuses \in SUBSET Flow,
         Refuse(r, excuses), request[r].flow \in disturbed \cup excuses
  PROVE  RefusalsAreExcused'
BY DEF Refuse, RefusalsAreExcused

\* The issuer refuses nothing that belongs to a login nothing has disturbed.
LEMMA UndisturbedIsAccepted ==
  ASSUME TypeOK, Settled, NEW r \in Request, request[r].op = "discovered",
         request[r].flow \notin disturbed
  PROVE  Accepted(r)
<1>1. ~overlapped /\ request[r].flow \in Flow /\ request[r].doc # None
  BY DEF Settled, IssuerIsSettled, RequestsHaveTheirLogins, Logins, Callbacks
<1>2. /\ request[r].doc = provider.issuer
      /\ request[r].row.client = provider.client /\ request[r].row.secret = provider.secret
  BY <1>1 DEF Settled, IssuerIsSettled, Logins
<1>3. flow[request[r].flow].stage = "called" /\ flow[request[r].flow].at = provider.issuer
  BY <1>1 DEF Settled, LoginsAreAsBegun
<1>4. provider.client = provider.issuer /\ provider.secret = provider.issuer
  BY <1>1, <1>3 DEF Settled, LoginsAreAsBegun, IssuerIsSettled, ProviderIsAsConfigured, Whole
<1> QED BY <1>2, <1>3, <1>4 DEF Accepted

\* No step turns a person away without a reason.
LEMMA NextExcused ==
  ASSUME TypeOK, Settled, RefusalsAreExcused, Next
  PROVE  RefusalsAreExcused'
<1>1. ASSUME needless' = needless PROVE RefusalsAreExcused'
  BY <1>1 DEF RefusalsAreExcused
<1>2. ASSUME NEW r \in Request, Discover(r) PROVE RefusalsAreExcused'
  <2>1. request[r].flow \in Flow
    BY <1>2 DEF Discover, Settled, RequestsHaveTheirLogins, Logins
  <2>2. {request[r].flow} \in SUBSET Flow
    BY <2>1
  <2>3. CASE Refuse(r, {request[r].flow})
    BY <2>2, <2>3, RefusedWithReason
  <2>4. CASE UNCHANGED history
    BY <1>1, <2>4 DEF history
  <2> QED BY <1>2, <2>3, <2>4 DEF Discover
<1>3. ASSUME NEW r \in Request, Exchange(r) PROVE RefusalsAreExcused'
  <2>1. request[r].flow \in Flow /\ request[r].op = "discovered"
    BY <1>3 DEF Exchange, Settled, RequestsHaveTheirLogins, Logins
  <2>2. {request[r].flow} \in SUBSET Flow /\ {} \in SUBSET Flow
    BY <2>1
  <2>3. CASE ~Accepted(r) /\ Refuse(r, {})
    BY <2>1, <2>2, <2>3, RefusedWithReason, UndisturbedIsAccepted
  <2>4. CASE Refuse(r, {request[r].flow})
    BY <2>2, <2>4, RefusedWithReason
  <2>5. CASE UNCHANGED history
    BY <1>1, <2>5 DEF history
  <2> QED BY <1>3, <2>3, <2>4, <2>5 DEF Exchange
<1>4. ASSUME NEW r \in Request, Verify(r) PROVE RefusalsAreExcused'
  <2>1. request[r].flow \in Flow /\ request[r].op = "exchanged"
    BY <1>4 DEF Verify, Settled, RequestsHaveTheirLogins, Logins
  <2>2. {request[r].flow} \in SUBSET Flow /\ {} \in SUBSET Flow
    BY <2>1
  <2>3. CASE key[request[r].doc] # request[r].signed /\ Refuse(r, {})
    <3>1. request[r].flow \in disturbed
      BY <2>1, <2>3 DEF Settled, LoginsAreAsBegun
    <3> QED BY <2>2, <2>3, <3>1, RefusedWithReason
  <2>4. CASE Refuse(r, {request[r].flow})
    BY <2>2, <2>4, RefusedWithReason
  <2>5. CASE UNCHANGED history
    BY <1>1, <2>5 DEF history
  <2> QED BY <1>4, <2>3, <2>4, <2>5 DEF Verify, Refetched
<1>5. ASSUME NEW r \in Request, Handle(r) PROVE RefusalsAreExcused'
  <2>1. CASE \/ StartPatch(r) \/ Patch(r) \/ StartRekey(r) \/ Rekey(r)
             \/ \E f \in Flow : Start(r, f) \/ Call(r, f)
             \/ Send(r) \/ Match(r) \/ Complete(r) \/ Fail(r)
    BY <1>1, <2>1 DEF StartPatch, Patch, StartRekey, Rekey, Start, Call, Send, Match, Complete,
       Fail, history
  <2>2. CASE \/ \E p \in Person : ScimPost(r, p) \/ ScimPut(r, p) \/ ScimPatch(r, p)
             \/ CreateUser(r) \/ DeactivateUser(r) \/ ReactivateUser(r)
    BY <1>1, <2>2 DEF ScimPost, ScimPut, ScimPatch, ReadUser, CreateUser, DeactivateUser,
       ReactivateUser, history
  <2> QED BY <1>2, <1>3, <1>4, <1>5, <2>1, <2>2 DEF Handle
<1>6. CASE \/ \E f \in Flow : Expire(f) \/ \E p \in Person : Authenticate(f, p)
           \/ \E i \in Issuer : RotateKey(i) \/ ForgetKeys(i)
           \/ \E s \in sessions : EndSession(s)
           \/ AgeDocument
  BY <1>1, <1>6 DEF Expire, Authenticate, RotateKey, ForgetKeys, EndSession, AgeDocument, history
<1> QED BY <1>5, <1>6 DEF Next
-----------------------------------------------------------------------------
(* Epochs.                                                                 *)

\* What is known of an epoch taken from an account: it is not ahead, and while
\* it is the account's nothing has happened to the account since.
Counts(p, epoch, event) ==
  epoch <= account[p].epoch /\ (epoch = account[p].epoch => event = era[p])

\* What EpochsCount says, in those words.
LEMMA CountsOf ==
  EpochsCount <=>
    \A p \in Person \ overwritten :
      /\ \A s \in sessions : s.owner = p => Counts(p, s.epoch, s.era)
      /\ \A r \in Request : (request[r].op = "matched" /\ flow[request[r].flow].who = p) =>
           Counts(p, request[r].epoch, request[r].era)
BY DEF EpochsCount, Counts

\* A step that touches no epoch, session or login about to end.
LEMMA QuietCounts ==
  ASSUME TypeOK, EpochsCount, sessions' \subseteq sessions, UNCHANGED <<era, overwritten>>,
         \A p \in Person : account'[p].epoch = account[p].epoch,
         \A q \in Request : request'[q].op = "matched" =>
           request'[q] = request[q] /\ flow'[request[q].flow].who = flow[request[q].flow].who
  PROVE  EpochsCount'
BY DEF EpochsCount

\* The steps of a login before its end, and of everything but provisioning.
LEMMA LoginCounts ==
  ASSUME TypeOK, RequestsHaveTheirLogins, EpochsCount, NEW r \in Request,
         \/ StartPatch(r) \/ Patch(r) \/ StartRekey(r) \/ Rekey(r)
         \/ \E f \in Flow : Start(r, f) \/ Call(r, f)
         \/ Discover(r) \/ Send(r) \/ Exchange(r) \/ Verify(r) \/ Fail(r)
  PROVE  EpochsCount'
<1>1. UNCHANGED <<account, era, overwritten, sessions>>
  BY DEF StartPatch, Patch, StartRekey, Rekey, Start, Call, Discover, Send, Exchange, Verify,
     Fail, Refuse, history
<1>2. \A q \in Request : q # r => request'[q] = request[q]
  BY DEF StartPatch, Patch, StartRekey, Rekey, Start, Call, Discover, Send, Exchange, Verify,
     Fail, Refuse, ReadRow, TypeOK
<1>3. request'[r].op # "matched"
  <2>1. CASE StartPatch(r) \/ StartRekey(r) \/ \E f \in Flow : Start(r, f) \/ Call(r, f)
    <3>1. ASSUME NEW op \in {"patching", "rekeying", "starting", "called"}, NEW f, NEW excused,
                 ReadRow(r, op, f, excused)
          PROVE  request'[r].op # "matched"
      BY <3>1 DEF ReadRow, TypeOK, Idle
    <3> QED BY <2>1, <3>1 DEF StartPatch, StartRekey, Start, Call
  <2>2. CASE request' = [request EXCEPT ![r] = Idle]
    BY <2>2 DEF TypeOK, Idle
  <2>3. CASE Discover(r)
    <3>1. CASE Refuse(r, {request[r].flow})
      BY <2>2, <3>1 DEF Refuse
    <3>2. ASSUME NEW doc, NEW store, NEW row,
                 request' = [request EXCEPT ![r] =
                   [@ EXCEPT !.op = IF request[r].op = "called" THEN "discovered" ELSE "starting",
                             !.doc = doc, !.store = store, !.row = row]]
          PROVE  request'[r].op # "matched"
      BY <3>2 DEF TypeOK, Readings
    <3> DEFINE row == request[r].row
               next == IF request[r].op = "called" THEN "discovered" ELSE "starting"
               Resolved(doc, store) ==
                 [request[r] EXCEPT !.op = next, !.doc = doc, !.store = store,
                                    !.row = [row EXCEPT !.cache = None, !.fresh = FALSE]]
    <3>3. CASE request' = [request EXCEPT ![r] = Resolved(row.cache, FALSE)]
      BY <3>2, <3>3
    <3>4. CASE request' = [request EXCEPT ![r] = Resolved(row.issuer, TRUE)]
      BY <3>2, <3>4
    <3> QED BY <2>3, <3>1, <3>3, <3>4, Zenon DEF Discover
  <2>4. CASE Exchange(r)
    BY <2>2, <2>4 DEF Exchange, Refuse, TypeOK, Readings
  <2>5. CASE Verify(r)
    BY <2>2, <2>5 DEF Verify, Refuse, TypeOK, Readings
  <2>6. CASE Patch(r) \/ Rekey(r) \/ Send(r) \/ Fail(r)
    BY <2>2, <2>6 DEF Patch, Rekey, Send, Fail
  <2> QED BY <2>1, <2>3, <2>4, <2>5, <2>6
<1>4. \A g \in Flow : flow'[g].who = flow[g].who
  <2>1. CASE \E f \in Flow : Start(r, f) \/ Call(r, f)
    BY <2>1 DEF Start, Call, TypeOK, Passages
  <2>2. CASE Send(r)
    BY <2>2 DEF Send, MintState, TypeOK, Passages
  <2>3. CASE Exchange(r)
    <3>1. CASE flow' = flow
      BY <3>1
    <3>2. CASE flow' = [flow EXCEPT ![request[r].flow] =
                          [@ EXCEPT !.stage = "spent", !.at = None]]
      BY <3>2 DEF TypeOK, Passages
    <3> QED BY <2>3, <3>1, <3>2 DEF Exchange
  <2>4. CASE \/ StartPatch(r) \/ Patch(r) \/ StartRekey(r) \/ Rekey(r)
             \/ Discover(r) \/ Verify(r) \/ Fail(r)
    BY <2>4 DEF StartPatch, Patch, StartRekey, Rekey, Discover, Verify, Fail, history
  <2> QED BY <2>1, <2>2, <2>3, <2>4
<1>5. \A q \in Request : request'[q].op = "matched" =>
        request'[q] = request[q] /\ flow'[request[q].flow].who = flow[request[q].flow].who
  BY <1>2, <1>3, <1>4 DEF RequestsHaveTheirLogins, Logins
<1> QED BY <1>1, <1>5, QuietCounts

\* The account is looked up.
LEMMA MatchCounts ==
  ASSUME TypeOK, RequestsHaveTheirLogins, EpochsCount, NEW r \in Request, Match(r)
  PROVE  EpochsCount'
<1> DEFINE p == flow[request[r].flow].who
<1>0. p \in Person /\ UNCHANGED <<flow, account, sessions, era, overwritten>>
  BY DEF Match, RequestsHaveTheirLogins, Callbacks, Logins, history
<1>1. CASE provider' = Stored(r) /\ request' = [request EXCEPT ![r] = Idle]
  <2>1. \A q \in Request : request'[q].op = "matched" => request'[q] = request[q]
    BY <1>1 DEF TypeOK, Idle
  <2> QED BY <1>0, <2>1, QuietCounts
<1>2. CASE /\ request' = [request EXCEPT ![r] =
                 [@ EXCEPT !.op = "matched", !.who = IF account[p].home = "sso" THEN p ELSE None,
                           !.epoch = account[p].epoch, !.era = era[p]]]
           /\ UNCHANGED provider
  <2>1. /\ request'[r].epoch = account[p].epoch /\ request'[r].era = era[p]
        /\ request'[r].flow = request[r].flow
        /\ \A q \in Request : q # r => request'[q] = request[q]
    BY <1>2 DEF TypeOK, Readings
  <2>2. account[p].epoch \in Nat
    BY <1>0 DEF TypeOK, Accounts
  <2> QED BY <1>0, <2>1, <2>2 DEF EpochsCount
<1> QED BY <1>1, <1>2 DEF Match

\* The session is handed out with the epoch as it was read.
LEMMA CompleteCounts ==
  ASSUME TypeOK, RequestsHaveTheirLogins, EpochsCount, NEW r \in Request, Complete(r)
  PROVE  EpochsCount'
<1> DEFINE p == flow[request[r].flow].who
           new == [owner |-> p, epoch |-> request[r].epoch, era |-> request[r].era]
<1>0. /\ p \in Person /\ UNCHANGED <<flow, era, overwritten>> /\ request[r].op = "matched"
      /\ sessions' = sessions \cup {new}
  BY DEF Complete, RequestsHaveTheirLogins, Callbacks, Logins, history
<1>1. \A a \in Person : account'[a].epoch = account[a].epoch
  BY <1>0 DEF Complete, Provisioned, TypeOK, Accounts
<1>2. \A q \in Request : request'[q].op = "matched" => request'[q] = request[q]
  BY DEF Complete, TypeOK, Idle
<1>3. p \notin overwritten => Counts(p, request[r].epoch, request[r].era)
  BY <1>0 DEF EpochsCount, Counts
<1>4. ASSUME NEW a \in Person \ overwritten', NEW s \in sessions', s.owner = a
      PROVE  s.epoch <= account'[a].epoch /\ (s.epoch = account'[a].epoch => s.era = era'[a])
  <2>1. CASE s \in sessions
    BY <1>0, <1>1, <1>4, <2>1 DEF EpochsCount
  <2>2. CASE s = new
    BY <1>0, <1>1, <1>3, <1>4, <2>2 DEF Counts
  <2> QED BY <1>0, <2>1, <2>2
<1> QED BY <1>0, <1>1, <1>2, <1>4 DEF EpochsCount

\* Provisioning raises the epoch it has read, or writes over another's.
LEMMA ProvisionCounts ==
  ASSUME TypeOK, TypeOK', RequestsHaveTheirLogins, EpochsCount, NEW r \in Request,
         DeactivateUser(r) \/ ReactivateUser(r)
  PROVE  EpochsCount'
<1> DEFINE p == request[r].who
<1>0. /\ p \in Person /\ request[r].epoch \in Nat
      /\ UNCHANGED <<flow, sessions>> /\ overwritten \subseteq overwritten'
      /\ \A q \in Request : request'[q].op = "matched" => request'[q] = request[q]
  BY DEF DeactivateUser, ReactivateUser, RequestsHaveTheirLogins, ScimOps, TypeOK, Readings,
     Idle, Overwritten, history
<1>1. \A a \in Person : a # p => account'[a] = account[a] /\ era'[a] = era[a]
  BY DEF DeactivateUser, ReactivateUser, TypeOK, history
<1>2. account'[p].epoch = request[r].epoch + 1
  <2>1. CASE DeactivateUser(r)
    BY <1>0, <2>1 DEF DeactivateUser, Bumped, TypeOK, Accounts
  <2>2. CASE ReactivateUser(r)
    BY <1>0, <2>2 DEF ReactivateUser, Bumped, TypeOK, Accounts
  <2> QED BY <2>1, <2>2
<1>3. p \notin overwritten' => account[p].epoch = request[r].epoch
  BY DEF DeactivateUser, ReactivateUser, Overwritten
<1>4. \A s \in sessions : s.epoch \in Nat
  BY DEF TypeOK
<1>5. \A q \in Request : request[q].epoch \in Nat
  BY DEF TypeOK, Readings
<1>6. ASSUME NEW a \in Person \ overwritten', NEW epoch \in Nat, NEW event,
             Counts(a, epoch, event)
      PROVE  epoch <= account'[a].epoch /\ (epoch = account'[a].epoch => event = era'[a])
  <2>1. CASE a = p
    BY <1>0, <1>2, <1>3, <1>6, <2>1 DEF Counts
  <2>2. CASE a # p
    BY <1>1, <1>6, <2>2 DEF Counts
  <2> QED BY <2>1, <2>2
<1>7. ASSUME NEW a \in Person \ overwritten', NEW s \in sessions', s.owner = a
      PROVE  s.epoch <= account'[a].epoch /\ (s.epoch = account'[a].epoch => s.era = era'[a])
  BY <1>0, <1>4, <1>6, <1>7, CountsOf
<1>8. ASSUME NEW a \in Person \ overwritten', NEW q \in Request, request'[q].op = "matched",
             flow'[request'[q].flow].who = a
      PROVE  /\ request'[q].epoch <= account'[a].epoch
             /\ request'[q].epoch = account'[a].epoch => request'[q].era = era'[a]
  BY <1>0, <1>5, <1>6, <1>8, CountsOf
<1> QED BY <1>7, <1>8 DEF EpochsCount

\* Every step keeps the count.
LEMMA NextCounts ==
  ASSUME TypeOK, TypeOK', RequestsHaveTheirLogins, EpochsCount, Next
  PROVE  EpochsCount'
<1>1. ASSUME NEW r \in Request, NEW p \in Person,
             ScimPost(r, p) \/ ScimPut(r, p) \/ ScimPatch(r, p)
      PROVE  EpochsCount'
  <2>1. PICK op \in ScimOps : ReadUser(r, p, op)
    BY <1>1 DEF ScimPost, ScimPut, ScimPatch, ScimOps
  <2>2. /\ UNCHANGED <<flow, account, sessions, era, overwritten>>
        /\ \A q \in Request : request'[q].op = "matched" => request'[q] = request[q]
    BY <2>1 DEF ReadUser, TypeOK, ScimOps, Idle
  <2> QED BY <2>2, QuietCounts
<1>2. ASSUME NEW r \in Request, CreateUser(r) PROVE EpochsCount'
  <2>1. /\ UNCHANGED <<flow, sessions, era, overwritten>>
        /\ \A q \in Request : request'[q].op = "matched" => request'[q] = request[q]
        /\ \A a \in Person : account'[a].epoch = account[a].epoch
    BY <1>2 DEF CreateUser, TypeOK, Accounts, Idle, history
  <2> QED BY <2>1, QuietCounts
<1>3. ASSUME NEW r \in Request, Handle(r) PROVE EpochsCount'
  <2>1. CASE \/ StartPatch(r) \/ Patch(r) \/ StartRekey(r) \/ Rekey(r)
             \/ \E f \in Flow : Start(r, f) \/ Call(r, f)
             \/ Discover(r) \/ Send(r) \/ Exchange(r) \/ Verify(r) \/ Fail(r)
    BY <2>1, LoginCounts
  <2> QED BY <1>1, <1>2, <1>3, <2>1, MatchCounts, CompleteCounts, ProvisionCounts DEF Handle
<1>4. ASSUME NEW f \in Flow, Expire(f) \/ \E p \in Person : Authenticate(f, p)
      PROVE  EpochsCount'
  <2>1. /\ flow[f].stage \in {"sent", "code"} /\ \A g \in Flow : g # f => flow'[g] = flow[g]
        /\ UNCHANGED <<account, sessions, request, era, overwritten>>
    BY <1>4 DEF Expire, Authenticate, TypeOK, history
  <2>2. ASSUME NEW q \in Request, request[q].op = "matched"
        PROVE  flow'[request[q].flow] = flow[request[q].flow]
    BY <2>1, <2>2 DEF RequestsHaveTheirLogins, Logins, Callbacks
  <2> QED BY <2>1, <2>2, QuietCounts
<1>5. CASE \/ \E i \in Issuer : RotateKey(i) \/ ForgetKeys(i)
           \/ \E s \in sessions : EndSession(s)
           \/ AgeDocument
  <2>1. /\ UNCHANGED <<flow, account, request, era, overwritten>> /\ sessions' \subseteq sessions
    BY <1>5 DEF RotateKey, ForgetKeys, EndSession, AgeDocument, history
  <2> QED BY <2>1, QuietCounts
<1> QED BY <1>3, <1>4, <1>5 DEF Next
-----------------------------------------------------------------------------
(* The theorems.                                                           *)

\* The invariant holds before any login.
LEMMA InitHolds == Init => IndInv
<1> SUFFICES ASSUME Init PROVE IndInv
  OBVIOUS
<1>1. TypeOK
  <2>1. provider \in Rows /\ request \in [Request -> Readings]
    BY IdleIsTyped DEF Init
  <2>2. flow \in [Flow -> Passages] /\ account \in [Person -> Accounts]
    BY DEF Init, Passages, Accounts, Homes
  <2>3. key \in [Issuer -> Nat] /\ jwks \in [Issuer -> Nat \cup {None}]
    BY DEF Init
  <2>4. /\ era \in [Person -> Nat] /\ events \in 0 .. MaxEvents
        /\ sessions = {} /\ overwritten = {} /\ disturbed = {} /\ needless = {}
        /\ overlapped = FALSE /\ settings \in Settings
    BY BoundsAssumption, FirstAssumption DEF Init, Settings
  <2> QED BY <2>1, <2>2, <2>3, <2>4 DEF TypeOK
<1>2. \A r \in Request : request[r].op = "idle" /\ request[r].store = FALSE
  BY DEF Init, Idle
<1>3. RequestsHaveTheirLogins /\ OneRequestForEach
  BY <1>2 DEF Init, RequestsHaveTheirLogins, OneRequestForEach, Logins, Callbacks, ScimOps
<1>4. IssuerIsSettled
  BY <1>2 DEF Init, FirstRow, IssuerIsSettled, ProviderIsAsConfigured, Clash, Changes, Uses, Logins
<1>5. LoginsAreAsBegun
  BY <1>2 DEF Init, LoginsAreAsBegun
<1>6. EpochsCount
  BY <1>2 DEF Init, EpochsCount
<1> QED BY <1>1, <1>3, <1>4, <1>5, <1>6 DEF IndInv, Init, RefusalsAreExcused

\* Every step keeps it.
LEMMA StepHolds == IndInv /\ [Next]_vars => IndInv'
<1> SUFFICES ASSUME IndInv, [Next]_vars PROVE IndInv'
  OBVIOUS
<1>1. CASE Next
  <2>1. TypeOK' /\ Settled
    BY <1>1, NextTypeOK DEF IndInv, Settled
  <2>2. Settled' /\ RefusalsAreExcused' /\ EpochsCount'
    BY <1>1, <2>1, NextSettled, NextExcused, NextCounts DEF IndInv
  <2> QED BY <2>1, <2>2 DEF IndInv, Settled
<1>2. CASE UNCHANGED vars
  BY <1>2 DEF IndInv, vars, history, TypeOK, RequestsHaveTheirLogins, OneRequestForEach,
              IssuerIsSettled, ProviderIsAsConfigured, LoginsAreAsBegun, Whole, EpochsCount,
              RefusalsAreExcused
<1> QED BY <1>1, <1>2

\* What requests have read of the provider stays true until a change overlaps a
\* use of it, and the epochs taken from the accounts count.
THEOREM Invariance == Spec => []IndInv
BY InitHolds, StepHolds, PTL DEF Spec

\* The provider's row says what the administrators have asked for, with the
\* document of the issuer they named (patch_provider, rotate_stored_secrets,
\* discover), and a session given out for an account that was switched off
\* meanwhile does not open it (complete_login, deactivate_scim_user), in the cases
\* that SignOn does not except.
THEOREM SignOnIsSound == Spec => []SignOn
<1>1. IndInv => SignOn
  <2> SUFFICES ASSUME IndInv PROVE SignOn
    OBVIOUS
  <2>1. ProviderIsAsConfigured
    BY DEF IndInv, IssuerIsSettled, ProviderIsAsConfigured
  <2>2. ASSUME NEW s \in sessions, Honoured(s), s.owner \notin overwritten
        PROVE  s.era = era[s.owner]
    BY <2>2 DEF IndInv, TypeOK, EpochsCount, Honoured
  <2> QED BY <2>1, <2>2 DEF IndInv, SignOn, SessionsFollowProvisioning
<1> QED BY <1>1, Invariance, PTL

\* Nobody whom the issuer has let in is turned away without one of the reasons
\* RefusalsAreExcused lists: not by an old cache, an earlier rotation of a key that
\* tokens name, or another's login (sso_oidc.py).
THEOREM NobodyIsTurnedAway == Spec => []RefusalsAreExcused
<1>1. IndInv => RefusalsAreExcused
  BY DEF IndInv
<1> QED BY <1>1, Invariance, PTL
=============================================================================
