--------------------------- MODULE PaymentLedger ---------------------------
(***************************************************************************)
(* What the payments domain promises its users, with no requests, webhooks *)
(* or transactions in sight: a payment on the books is refused or settled  *)
(* as news of it comes in, it is settled only when the money was received, *)
(* settling it grants one subscription period, and that is the last thing  *)
(* that happens to it.  Payments implements this specification.            *)
(***************************************************************************)
EXTENDS Naturals

CONSTANTS Payments

VARIABLES
    status,  \* payments.status, "absent" while the payment is on no books
    subs,    \* how many subscription periods each payment has granted
    paid     \* payments for which Paystack holds the full price

ledgerVars == <<status, subs, paid>>

Init ==
    /\ status = [p \in Payments |-> "absent"]
    /\ subs = [p \in Payments |-> 0]
    /\ paid = {}

Open(p) ==
    /\ status[p] = "absent"
    /\ status' = [status EXCEPT ![p] = "pending"]
    /\ UNCHANGED <<subs, paid>>

Pay(p) ==
    /\ paid' = paid \cup {p}
    /\ UNCHANGED <<status, subs>>

\* A refused payment may be refused again, or settled after all.
Unsettled(p) == status[p] \in {"pending", "failed"}

Refuse(p) ==
    /\ Unsettled(p)
    /\ status' = [status EXCEPT ![p] = "failed"]
    /\ UNCHANGED <<subs, paid>>

Settle(p) ==
    /\ Unsettled(p)
    /\ p \in paid
    /\ status' = [status EXCEPT ![p] = "successful"]
    /\ subs' = [subs EXCEPT ![p] = @ + 1]
    /\ UNCHANGED paid

Next == \E p \in Payments : Open(p) \/ Pay(p) \/ Refuse(p) \/ Settle(p)

Spec == Init /\ [][Next]_ledgerVars
=============================================================================
