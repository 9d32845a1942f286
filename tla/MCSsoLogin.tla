----------------------------- MODULE MCSsoLogin -----------------------------
(* Two issuers, two logins of one person's browser and two requests at     *)
(* once.  The issuers are told apart by which is configured at first.      *)
EXTENDS SsoLogin, TLC

CONSTANTS a, b

Asks(issuer, client, secret) == [issuer |-> issuer, client |-> client, secret |-> secret]

\* Everything moves, the issuer alone moves, the client and its secret follow, and
\* a form about something else that sends the client again.
MCForm == {Asks(b, b, b), Asks(b, None, None), Asks(None, b, b), Asks(None, a, None)}

Symmetry == Permutations(Flow) \cup Permutations(Request)
=============================================================================
