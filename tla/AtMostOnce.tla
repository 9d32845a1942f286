----------------------------- MODULE AtMostOnce -----------------------------
(***************************************************************************)
(* What a one-shot operation of this system promises, whatever tables and  *)
(* handlers implement it: an item is claimed at most once, and only a      *)
(* claimed item takes effect, at most once.  Claiming without any effect   *)
(* is allowed (the claimer may fail or die after it has claimed).          *)
(*                                                                         *)
(* Confirmations implements it with the consumed_at column of              *)
(* copilot_confirmations, BillingWebhook with the rows of                  *)
(* billing_webhook_events.                                                  *)
(***************************************************************************)
EXTENDS Naturals

CONSTANT Item

VARIABLES
  claimed,  \* the items somebody has claimed
  effects   \* how often each item has taken effect

Init ==
  /\ claimed = {}
  /\ effects = [i \in Item |-> 0]

Claim(i) ==
  /\ i \notin claimed
  /\ claimed' = claimed \cup {i}
  /\ UNCHANGED effects

Effect(i) ==
  /\ i \in claimed
  /\ effects[i] = 0
  /\ effects' = [effects EXCEPT ![i] = 1]
  /\ UNCHANGED claimed

Next == \E i \in Item : Claim(i) \/ Effect(i)

Spec == Init /\ [][Next]_<<claimed, effects>>
=============================================================================
