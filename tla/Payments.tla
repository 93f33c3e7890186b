------------------------------ MODULE Payments ------------------------------
(***************************************************************************)
(* Subscription payments: app/domains/payments/{service,repository,models, *)
(* router,schemas}.py and the factory of app/domains/subscriptions/        *)
(* models.py.                                                              *)
(*                                                                         *)
(* A checkout request inserts a pending payment, opens a transaction with  *)
(* Paystack under the same reference and answers with Paystack's link.     *)
(* The payment row becomes visible only when get_db() commits, which, with *)
(* the FastAPI that uv.lock pins, is after the answer was sent.  Paystack  *)
(* reports what happens to the charge by webhook, again and again until it *)
(* gets a 200: events arrive late, twice, and in any order.                *)
(*                                                                         *)
(* Paystack is external: a charge can be attempted once its link is out,   *)
(* may be declined or paid short any number of times, and paid in full     *)
(* once.  An event with a bad signature or a malformed body changes        *)
(* nothing and is left out.                                                *)
(***************************************************************************)
EXTENDS Naturals

CONSTANTS
    Payments,   \* payments, each known to Paystack by its unique reference
    Deliveries, \* webhook requests that may be in flight together
    NoEvent

\* "paid": charge.success of the full price; "wrong_amount": of another sum;
\* "declined": charge.success whose data.status is not "success"; "other":
\* any other event.
Kinds  == {"paid", "wrong_amount", "declined", "other"}
Events == [payment : Payments, kind : Kinds]

ASSUME EventsAssumption == NoEvent \notin Events

VARIABLES
    checkout,  \* how far the request that opens each payment has come
    status,    \* payments.status as committed; "absent" when there is no row
    subs,      \* subscriptions whose payment_id is this payment, as committed
    webhook,   \* the handler of each delivery
    paid,      \* Paystack: payments charged in full
    unacked,   \* Paystack: events it keeps sending
    missed     \* history: payments a webhook looked for and did not find

vars == <<checkout, status, subs, webhook, paid, unacked, missed>>

(***************************************************************************)
(* Types.                                                                  *)
(***************************************************************************)

\* PaymentStatus.  REFUNDED is set by no code.
Statuses == {"absent", "pending", "successful", "failed"}

Writes == {"none", "successful", "failed"}

Handler == [step : {"idle", "received", "locked", "answer"},
            event : Events \cup {NoEvent}, write : Writes]

Idle == [step |-> "idle", event |-> NoEvent, write |-> "none"]

Checkouts == {"none", "inserted", "opened", "responded", "committed",
              "aborted", "lost"}

TypeOK ==
    /\ checkout \in [Payments -> Checkouts]
    /\ status \in [Payments -> Statuses]
    /\ subs \in [Payments -> Nat]
    /\ webhook \in [Deliveries -> Handler]
    /\ paid \subseteq Payments
    /\ unacked \subseteq Events
    /\ missed \subseteq Payments

Init ==
    /\ checkout = [p \in Payments |-> "none"]
    /\ status = [p \in Payments |-> "absent"]
    /\ subs = [p \in Payments |-> 0]
    /\ webhook = [d \in Deliveries |-> Idle]
    /\ paid = {}
    /\ unacked = {}
    /\ missed = {}

(***************************************************************************)
(* initialize_payment, in the order of its effects.                        *)
(***************************************************************************)

Checkout(p, from, to) ==
    /\ checkout[p] = from
    /\ checkout' = [checkout EXCEPT ![p] = to]

\* The INSERT, flushed and not committed.
InsertPayment(p) ==
    /\ Checkout(p, "none", "inserted")
    /\ UNCHANGED <<status, subs, webhook, paid, unacked, missed>>

\* Paystack's initialize call returned a link.
OpenCharge(p) ==
    /\ Checkout(p, "inserted", "opened")
    /\ UNCHANGED <<status, subs, webhook, paid, unacked, missed>>

Respond(p) ==
    /\ Checkout(p, "opened", "responded")
    /\ UNCHANGED <<status, subs, webhook, paid, unacked, missed>>

CommitPayment(p) ==
    /\ Checkout(p, "responded", "committed")
    /\ status' = [status EXCEPT ![p] = "pending"]
    /\ UNCHANGED <<subs, webhook, paid, unacked, missed>>

\* The Paystack call raised, the worker died, or the commit failed; once the
\* answer is out, the renter keeps a link to a payment that has no row.
AbortCheckout(p) ==
    /\ \/ Checkout(p, "inserted", "aborted")
       \/ Checkout(p, "opened", "aborted")
       \/ Checkout(p, "responded", "lost")
    /\ UNCHANGED <<status, subs, webhook, paid, unacked, missed>>

(***************************************************************************)
(* Paystack.                                                               *)
(***************************************************************************)

LinkOut(p) == checkout[p] \in {"responded", "committed", "lost"}

Report(p, kind) == unacked' = unacked \cup {[payment |-> p, kind |-> kind]}

PayInFull(p) ==
    /\ LinkOut(p)
    /\ p \notin paid
    /\ paid' = paid \cup {p}
    /\ Report(p, "paid")
    /\ UNCHANGED <<checkout, status, subs, webhook, missed>>

AttemptFails(p, kind) ==
    /\ LinkOut(p)
    /\ p \notin paid
    /\ Report(p, kind)
    /\ UNCHANGED <<checkout, status, subs, webhook, paid, missed>>

(***************************************************************************)
(* The webhook: handle_webhook, then the explicit commit, then the 200.    *)
(***************************************************************************)

\* get_by_reference, without FOR UPDATE.
NotLocked(p) == FALSE

\* The row lock of get_by_reference_for_update, held to the commit.
Locked(p) ==
    \E d \in Deliveries : /\ webhook[d].step = "locked"
                          /\ webhook[d].event.payment = p

Receive(d, e) ==
    /\ webhook[d] = Idle
    /\ e \in unacked
    /\ webhook' = [webhook EXCEPT ![d] = [step |-> "received", event |-> e,
                                          write |-> "none"]]
    /\ UNCHANGED <<checkout, status, subs, paid, unacked, missed>>

\* Not charge.success: nothing to do.
IgnoreOther(d) ==
    /\ webhook[d].step = "received"
    /\ webhook[d].event.kind = "other"
    /\ webhook' = [webhook EXCEPT ![d].step = "answer"]
    /\ UNCHANGED <<checkout, status, subs, paid, unacked, missed>>

\* Uncommitted rows are invisible: an event that outruns the checkout's commit
\* finds nothing, and is answered with 200 all the same.
MissPayment(d) ==
    LET e == webhook[d].event IN
    /\ webhook[d].step = "received"
    /\ e.kind # "other"
    /\ status[e.payment] = "absent"
    /\ missed' = missed \cup {e.payment}
    /\ webhook' = [webhook EXCEPT ![d].step = "answer"]
    /\ UNCHANGED <<checkout, status, subs, paid, unacked>>

\* No replay protection.
NeverSettled(p) == FALSE

Settled(p) == status[p] = "successful"

\* The amount is not compared.
AnyAmount(kind) == kind \in {"paid", "wrong_amount"}

FullAmount(kind) == kind = "paid"

\* Paystack's own word for the outcome, stored as it comes.
RawStatus(e) == e.kind

Outcome(e) ==
    CASE Settled(e.payment)   -> "none"
      [] ~Settled(e.payment) /\ FullAmount(e.kind)  -> "successful"
      [] ~Settled(e.payment) /\ ~FullAmount(e.kind) -> "failed"

LockPayment(d) ==
    LET e == webhook[d].event IN
    /\ webhook[d].step = "received"
    /\ e.kind # "other"
    /\ status[e.payment] # "absent"
    /\ ~Locked(e.payment)
    /\ webhook' = [webhook EXCEPT ![d].step = "locked", ![d].write = Outcome(e)]
    /\ UNCHANGED <<checkout, status, subs, paid, unacked, missed>>

\* mark_success and create_from_payment, mark_failed, or nothing.
CommitWebhook(d) ==
    LET p == webhook[d].event.payment
        w == webhook[d].write IN
    /\ webhook[d].step = "locked"
    /\ status' = IF w = "none" THEN status ELSE [status EXCEPT ![p] = w]
    /\ subs' = IF w = "successful" THEN [subs EXCEPT ![p] = @ + 1] ELSE subs
    /\ webhook' = [webhook EXCEPT ![d].step = "answer", ![d].write = "none"]
    /\ UNCHANGED <<checkout, paid, unacked, missed>>

\* The answer goes out before the commit, which then fails.
HandledEarly(d) == webhook[d].step \in {"locked", "answer"}

Handled(d) == webhook[d].step = "answer"

\* The 200 reaches Paystack.
Answer(d) ==
    /\ Handled(d)
    /\ unacked' = unacked \ {webhook[d].event}
    /\ webhook' = [webhook EXCEPT ![d] = Idle]
    /\ UNCHANGED <<checkout, status, subs, paid, missed>>

\* An exception or a crash: rollback of what is not committed, and no 200.
FailWebhook(d) ==
    /\ webhook[d] # Idle
    /\ webhook' = [webhook EXCEPT ![d] = Idle]
    /\ UNCHANGED <<checkout, status, subs, paid, unacked, missed>>

(***************************************************************************)
(* The system.                                                             *)
(***************************************************************************)

Process(d) ==
    \/ IgnoreOther(d)
    \/ MissPayment(d)
    \/ LockPayment(d)
    \/ CommitWebhook(d)
    \/ Answer(d)

Next ==
    \/ \E p \in Payments :
          \/ InsertPayment(p)
          \/ OpenCharge(p)
          \/ Respond(p)
          \/ CommitPayment(p)
          \/ AbortCheckout(p)
          \/ PayInFull(p)
          \/ \E kind \in Kinds \ {"paid"} : AttemptFails(p, kind)
    \/ \E d \in Deliveries :
          \/ \E e \in Events : Receive(d, e)
          \/ Process(d)
          \/ FailWebhook(d)

Spec == Init /\ [][Next]_vars

\* Handlers run, and PostgreSQL queues those that wait for a row, so they get
\* it in the end.  Paystack "retries aggressively" (router.py:114): an event it
\* keeps sending is received time and again.  The retries can only help if the
\* deliveries do not fail for ever.
Fairness ==
    /\ \A d \in Deliveries : SF_vars(Process(d))
    /\ \A p \in Payments :
          SF_vars(\E d \in Deliveries : Receive(d, [payment |-> p, kind |-> "paid"]))
    /\ <>[][\A d \in Deliveries : ~FailWebhook(d)]_vars

FairSpec == Spec /\ Fairness

-----------------------------------------------------------------------------
(***************************************************************************)
(* Properties.                                                             *)
(***************************************************************************)

\* A payment has one subscription if it is successful and none otherwise,
\* however many deliveries of however many events about it interleave.
GrantedOnceIffSuccessful ==
    \A p \in Payments : subs[p] = IF status[p] = "successful" THEN 1 ELSE 0

\* No subscription without the full price: neither a short payment nor events
\* that overtake each other make a payment successful.
SuccessfulOnlyIfPaid == \A p \in Payments : status[p] = "successful" => p \in paid

\* A late failure event never takes a successful payment back.
StaysSuccessful ==
    \A p \in Payments : status[p] = "successful" => status'[p] = "successful"

\* Every step keeps successful payments successful.
SuccessfulIsFinal == [][StaysSuccessful]_vars

\* Money received for a payment whose row no webhook missed ends in a
\* subscription, whatever crashes and duplicates come between.
PaidIsGranted ==
    \A p \in Payments :
        (p \in paid /\ p \notin missed /\ status[p] # "absent")
            ~> status[p] = "successful"

PaidEvent(p) == [payment |-> p, kind |-> "paid"]

\* What PaidIsGranted rests on: while money received has not been granted, and
\* no webhook looked for its payment in vain, Paystack still has its event to
\* send.  No duplicate, refusal or crash makes Paystack forget it too early.
PaidIsNotForgotten ==
    \A p \in paid : \/ status[p] = "successful"
                   \/ p \in missed
                   \/ PaidEvent(p) \in unacked

\* The ledger that users see: the same rows, with no requests in flight.
Ledger == INSTANCE PaymentLedger WITH status <- status, subs <- subs, paid <- paid

\* All that happens to payments is what the ledger allows.
ImplementsLedger == Ledger!Spec

\* "The webhook handler can match from the start" (repository.py:74-76): no
\* webhook ever looks for a payment in vain.
MatchedFromTheStart == missed = {}
=============================================================================
