--------------------------- MODULE ReviewedPayment ---------------------------
(***************************************************************************)
(* What a simple send promises to the user, and no more.                   *)
(*                                                                         *)
(* A payment is offered for review before it is made.  An offer is made    *)
(* good at most once: the payment in hand uses it up, whether it succeeds  *)
(* or fails.  The payment is the one offered, unless the user has amended  *)
(* the offer.                                                              *)
(***************************************************************************)
CONSTANTS
  Payments,  \* what can be offered and paid
  Nothing    \* no payment

VARIABLES
  offer,    \* the payment the user is looking at
  amended,  \* the user has changed something under the offer
  paying    \* the payment in hand

vars == <<offer, amended, paying>>

Init == offer = Nothing /\ amended = FALSE /\ paying = Nothing

Offer(p) ==
  /\ offer = Nothing
  /\ offer' = p
  /\ UNCHANGED <<amended, paying>>

Amend ==
  /\ offer # Nothing
  /\ amended' = TRUE
  /\ UNCHANGED <<offer, paying>>

Withdraw ==
  /\ paying = Nothing
  /\ offer' = Nothing
  /\ amended' = FALSE
  /\ UNCHANGED paying

Pay(p) ==
  /\ offer # Nothing
  /\ paying = Nothing
  /\ p = offer \/ amended
  /\ paying' = p
  /\ UNCHANGED <<offer, amended>>

Settle ==
  /\ paying # Nothing
  /\ paying' = Nothing
  /\ offer' = Nothing
  /\ amended' = FALSE

Next ==
  \/ \E p \in Payments : Offer(p) \/ Pay(p)
  \/ Amend \/ Withdraw \/ Settle

Spec == Init /\ [][Next]_vars
=============================================================================
