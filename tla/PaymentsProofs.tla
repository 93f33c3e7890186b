--------------------------- MODULE PaymentsProofs ---------------------------
(***************************************************************************)
(* What TLAPS proves about Payments, for any number of payments and of     *)
(* concurrent deliveries.                                                  *)
(*                                                                         *)
(* That a payment grants one subscription is not inductive by itself: a    *)
(* commit adds one whatever the row says by then.  IInv adds that FOR      *)
(* UPDATE gives each payment at most one handler between its decision and  *)
(* its commit, so that the decision still fits the row, and that an event  *)
(* of a full payment exists only once the money was received.              *)
(***************************************************************************)
EXTENDS Payments, TLAPS

\* A row is there only after the commit of its checkout.
RowsOK == \A p \in Payments : checkout[p] # "committed" => status[p] = "absent"

\* Paystack does not report a full payment before there is one.
HonestEvents ==
    /\ \A e \in unacked : e.kind = "paid" => e.payment \in paid
    /\ \A d \in Deliveries :
          webhook[d].step # "idle" =>
             /\ webhook[d].event \in Events
             /\ webhook[d].event.kind = "paid" => webhook[d].event.payment \in paid

\* One handler at a time holds a payment's row.
LocksExclusive ==
    \A c, d \in Deliveries :
        /\ webhook[c].step = "locked" /\ webhook[d].step = "locked"
        /\ webhook[c].event.payment = webhook[d].event.payment
        => c = d

\* What a handler decided under the lock fits the row until it commits.
DecisionsFit ==
    \A d \in Deliveries :
        webhook[d].step = "locked" =>
           LET p == webhook[d].event.payment
               w == webhook[d].write IN
           /\ status[p] # "absent"
           /\ w # "none" => status[p] # "successful"
           /\ w = "successful" => p \in paid

IInv ==
    /\ TypeOK
    /\ RowsOK
    /\ HonestEvents
    /\ LocksExclusive
    /\ DecisionsFit
    /\ GrantedOnceIffSuccessful
    /\ SuccessfulOnlyIfPaid

-----------------------------------------------------------------------------

\* No handler, no row, no subscription.
LEMMA InitIInv == Init => IInv
<1> SUFFICES ASSUME Init PROVE IInv
  OBVIOUS
<1>1. TypeOK
  BY DEF Init, TypeOK, Checkouts, Statuses, Handler, Idle, Writes
<1>2. \A d \in Deliveries : webhook[d].step = "idle"
  BY DEF Init, Idle
<1>3. RowsOK /\ HonestEvents /\ LocksExclusive /\ DecisionsFit
  BY <1>2 DEF Init, RowsOK, HonestEvents, LocksExclusive, DecisionsFit
<1>4. GrantedOnceIffSuccessful /\ SuccessfulOnlyIfPaid
  BY DEF Init, GrantedOnceIffSuccessful, SuccessfulOnlyIfPaid
<1>5. QED
  BY <1>1, <1>3, <1>4 DEF IInv

\* The steps of a checkout keep the invariant; its commit opens the payment.
LEMMA CheckoutIInv ==
    ASSUME IInv, NEW p \in Payments, NEW from \in Checkouts, NEW to \in Checkouts,
           from # "committed", Checkout(p, from, to),
           \/ to # "committed" /\ UNCHANGED status
           \/ to = "committed" /\ status' = [status EXCEPT ![p] = "pending"],
           UNCHANGED <<subs, webhook, paid, unacked, missed>>
    PROVE  IInv' /\ status[p] = "absent"
<1>1. status[p] = "absent"
  BY DEF Checkout, IInv, RowsOK
<1>2. TypeOK'
  BY DEF Checkout, IInv, TypeOK, Statuses
<1>3. /\ \A q \in Payments : q # p => checkout'[q] = checkout[q] /\ status'[q] = status[q]
      /\ checkout'[p] = to
      /\ status'[p] \in {"absent", "pending"}
      /\ to # "committed" => status'[p] = "absent"
  BY <1>1 DEF Checkout, IInv, TypeOK
<1>4. RowsOK' /\ GrantedOnceIffSuccessful' /\ SuccessfulOnlyIfPaid'
  BY <1>1, <1>3 DEF IInv, RowsOK, GrantedOnceIffSuccessful, SuccessfulOnlyIfPaid
<1>5. HonestEvents' /\ LocksExclusive'
  BY DEF IInv, HonestEvents, LocksExclusive
<1>6. DecisionsFit'
  <2> SUFFICES ASSUME NEW d \in Deliveries, webhook[d].step = "locked"
               PROVE  status'[webhook[d].event.payment] = status[webhook[d].event.payment]
    BY DEF IInv, DecisionsFit
  <2>1. webhook[d].event.payment \in Payments /\ webhook[d].event.payment # p
    BY <1>1 DEF IInv, DecisionsFit, HonestEvents, Events
  <2>2. QED
    BY <1>3, <2>1
<1>7. QED
  BY <1>1, <1>2, <1>4, <1>5, <1>6 DEF IInv

\* What Paystack does adds events and money, and touches no row.
LEMMA PaystackIInv ==
    ASSUME IInv, NEW p \in Payments,
           PayInFull(p) \/ \E kind \in Kinds \ {"paid"} : AttemptFails(p, kind)
    PROVE  IInv'
<1>1. /\ UNCHANGED <<checkout, status, subs, webhook, missed>>
      /\ paid \subseteq paid' /\ paid' \subseteq Payments
      /\ \A e \in unacked' : \/ e \in unacked
                             \/ e \in Events /\ (e.kind = "paid" => e.payment \in paid')
  BY DEF PayInFull, AttemptFails, Report, Kinds, Events, IInv, TypeOK
<1>2. TypeOK'
  BY <1>1 DEF IInv, TypeOK
<1>3. RowsOK' /\ HonestEvents' /\ LocksExclusive' /\ DecisionsFit'
  BY <1>1 DEF IInv, TypeOK, RowsOK, HonestEvents, LocksExclusive, DecisionsFit
<1>4. GrantedOnceIffSuccessful' /\ SuccessfulOnlyIfPaid'
  BY <1>1 DEF IInv, GrantedOnceIffSuccessful, SuccessfulOnlyIfPaid
<1>5. QED
  BY <1>2, <1>3, <1>4 DEF IInv

\* A step of a webhook that changes no row, and takes a lock only if it is free
\* and the decision fits the row.
LEMMA WebhookIInv ==
    ASSUME IInv, NEW d \in Deliveries, NEW h \in Handler,
           webhook' = [webhook EXCEPT ![d] = h],
           UNCHANGED <<checkout, status, subs, paid>>,
           unacked' \subseteq unacked, missed' \subseteq Payments,
           h.step # "idle" =>
              h.event \in Events /\ (h.event.kind = "paid" => h.event.payment \in paid),
           h.step = "locked" =>
              /\ ~Locked(h.event.payment)
              /\ status[h.event.payment] # "absent"
              /\ h.write # "none" => status[h.event.payment] # "successful"
              /\ h.write = "successful" => h.event.payment \in paid
    PROVE  IInv'
<1>1. /\ webhook'[d] = h
      /\ \A c \in Deliveries : c # d => webhook'[c] = webhook[c]
  BY DEF IInv, TypeOK
<1>2. TypeOK'
  BY DEF IInv, TypeOK
<1>3. RowsOK' /\ HonestEvents' /\ DecisionsFit'
  BY <1>1 DEF IInv, RowsOK, HonestEvents, DecisionsFit
<1>4. LocksExclusive'
  BY <1>1 DEF IInv, LocksExclusive, Locked
<1>5. GrantedOnceIffSuccessful' /\ SuccessfulOnlyIfPaid'
  BY DEF IInv, GrantedOnceIffSuccessful, SuccessfulOnlyIfPaid
<1>6. QED
  BY <1>2, <1>3, <1>4, <1>5 DEF IInv

\* A delivery that arrives has decided nothing yet.
LEMMA ReceiveIInv ==
    ASSUME IInv, NEW d \in Deliveries, NEW e \in Events, Receive(d, e) PROVE IInv'
<1> DEFINE h == [step |-> "received", event |-> e, write |-> "none"]
<1>1. h \in Handler /\ h.step = "received" /\ h.event = e
  BY DEF Handler, Writes
<1>2. e.kind = "paid" => e.payment \in paid
  BY DEF Receive, IInv, HonestEvents
<1>3. webhook' = [webhook EXCEPT ![d] = h] /\ missed' \subseteq Payments
  BY DEF Receive, IInv, TypeOK
<1> HIDE DEF h
<1>4. QED
  BY <1>1, <1>2, <1>3, WebhookIInv DEF Receive

\* A handler that is done, or gives up, leaves the rows as they are.
LEMMA IdleIInv ==
    ASSUME IInv, NEW d \in Deliveries, Answer(d) \/ FailWebhook(d) PROVE IInv'
<1>1. Idle \in Handler /\ Idle.step = "idle"
  BY DEF Idle, Handler, Writes
<1>2. QED
  BY <1>1, WebhookIInv DEF Answer, FailWebhook, IInv, TypeOK

\* What a handler finds, or misses, when it looks its payment up.
LEMMA LookupIInv ==
    ASSUME IInv, NEW d \in Deliveries,
           IgnoreOther(d) \/ MissPayment(d) \/ LockPayment(d)
    PROVE  IInv'
<1> DEFINE e == webhook[d].event
<1>1. /\ webhook[d] \in Handler /\ webhook[d].step = "received"
      /\ e \in Events /\ e.payment \in Payments
      /\ e.kind = "paid" => e.payment \in paid
  BY DEF IgnoreOther, MissPayment, LockPayment, IInv, HonestEvents, TypeOK, Events
<1>2. CASE IgnoreOther(d) \/ MissPayment(d)
  <2> DEFINE h == [webhook[d] EXCEPT !.step = "answer"]
  <2>1. h \in Handler /\ h.step = "answer" /\ h.event = e
    BY <1>1 DEF Handler
  <2>2. webhook' = [webhook EXCEPT ![d] = h]
    BY <1>1, <1>2 DEF IgnoreOther, MissPayment, IInv, TypeOK
  <2>3. missed' \subseteq Payments
    BY <1>1, <1>2 DEF IgnoreOther, MissPayment, IInv, TypeOK
  <2> HIDE DEF h, e
  <2>4. QED
    BY <1>1, <1>2, <2>1, <2>2, <2>3, WebhookIInv DEF IgnoreOther, MissPayment
<1>3. CASE LockPayment(d)
  <2> DEFINE h == [webhook[d] EXCEPT !.step = "locked", !.write = Outcome(e)]
  <2>1. /\ Outcome(e) \in Writes
        /\ Outcome(e) # "none" => status[e.payment] # "successful"
        /\ Outcome(e) = "successful" => e.kind = "paid"
    BY DEF Outcome, Writes, Settled, FullAmount
  <2>2. h \in Handler /\ h.step = "locked" /\ h.event = e /\ h.write = Outcome(e)
    BY <1>1, <2>1 DEF Handler
  <2>3. webhook' = [webhook EXCEPT ![d] = h] /\ missed' \subseteq Payments
    BY <1>1, <1>3 DEF LockPayment, IInv, TypeOK
  <2>4. ~Locked(e.payment) /\ status[e.payment] # "absent"
    BY <1>3 DEF LockPayment
  <2>5. UNCHANGED <<checkout, status, subs, paid>> /\ unacked' \subseteq unacked
    BY <1>3 DEF LockPayment
  <2>6. /\ ~Locked(h.event.payment)
        /\ status[h.event.payment] # "absent"
        /\ h.write # "none" => status[h.event.payment] # "successful"
        /\ h.write = "successful" => h.event.payment \in paid
    BY <1>1, <2>1, <2>2, <2>4
  <2>7. h.event \in Events /\ (h.event.kind = "paid" => h.event.payment \in paid)
    BY <1>1, <2>2
  <2> HIDE DEF h, e
  <2>8. QED
    BY <2>2, <2>3, <2>5, <2>6, <2>7, WebhookIInv
<1>4. QED
  BY <1>2, <1>3

\* The commit of a webhook: nothing, a refusal or a settlement of the payment,
\* as in the ledger.
LEMMA CommitWebhookIInv ==
    ASSUME IInv, NEW d \in Deliveries, CommitWebhook(d)
    PROVE  /\ IInv'
           /\ webhook[d].event.payment \in Payments
           /\ \/ UNCHANGED <<status, subs, paid>>
              \/ Ledger!Refuse(webhook[d].event.payment)
              \/ Ledger!Settle(webhook[d].event.payment)
<1> DEFINE p == webhook[d].event.payment
           w == webhook[d].write
           h == [webhook[d] EXCEPT !.step = "answer", !.write = "none"]
<1>1. /\ webhook[d] \in Handler /\ webhook[d].step = "locked" /\ w \in Writes
      /\ p \in Payments /\ webhook[d].event \in Events
      /\ webhook[d].event.kind = "paid" => p \in paid
      /\ status[p] # "absent"
      /\ w # "none" => status[p] # "successful"
      /\ w = "successful" => p \in paid
  BY DEF CommitWebhook, IInv, HonestEvents, DecisionsFit, TypeOK, Handler, Events
<1>2. /\ status' = IF w = "none" THEN status ELSE [status EXCEPT ![p] = w]
      /\ subs' = IF w = "successful" THEN [subs EXCEPT ![p] = @ + 1] ELSE subs
      /\ webhook' = [webhook EXCEPT ![d] = h]
      /\ UNCHANGED <<checkout, paid, unacked, missed>>
  BY DEF CommitWebhook, IInv, TypeOK
<1>3. h \in Handler /\ h.step = "answer" /\ h.event = webhook[d].event
  BY <1>1 DEF Handler, Writes
<1>4. /\ webhook'[d] = h /\ \A c \in Deliveries : c # d => webhook'[c] = webhook[c]
      /\ \A q \in Payments : q # p => status'[q] = status[q] /\ subs'[q] = subs[q]
  BY <1>1, <1>2 DEF IInv, TypeOK
<1>5. status[p] \in {"pending", "successful", "failed"}
  BY <1>1 DEF IInv, TypeOK, Statuses
<1>6. \/ UNCHANGED <<status, subs, paid>>
      \/ Ledger!Refuse(p)
      \/ Ledger!Settle(p)
  BY <1>1, <1>2, <1>5
     DEF Writes, Ledger!Refuse, Ledger!Settle, Ledger!Unsettled
<1>7. TypeOK'
  BY <1>1, <1>2, <1>3 DEF IInv, TypeOK, Writes, Statuses
<1>8. RowsOK' /\ HonestEvents'
  BY <1>1, <1>2, <1>3, <1>4 DEF IInv, RowsOK, HonestEvents
<1>9. LocksExclusive'
  <2>1. \A c \in Deliveries :
           webhook'[c].step = "locked" => c # d /\ webhook'[c] = webhook[c]
    BY <1>3, <1>4
  <2>2. QED
    BY <2>1 DEF IInv, LocksExclusive
<1>10. DecisionsFit'
  <2> SUFFICES ASSUME NEW c \in Deliveries, webhook'[c].step = "locked"
               PROVE  /\ webhook'[c] = webhook[c]
                      /\ status'[webhook[c].event.payment] = status[webhook[c].event.payment]
    BY <1>2 DEF IInv, DecisionsFit
  <2>1. c # d /\ webhook'[c] = webhook[c]
    BY <1>3, <1>4
  <2>2. webhook[c].event.payment \in Payments /\ webhook[c].event.payment # p
    BY <1>1, <2>1 DEF IInv, LocksExclusive, HonestEvents, Events
  <2>3. QED
    BY <1>4, <2>1, <2>2
<1>11. GrantedOnceIffSuccessful' /\ SuccessfulOnlyIfPaid'
  <2>1. \/ status'[p] = status[p] /\ subs'[p] = subs[p]
        \/ status'[p] = "failed" /\ status[p] # "successful" /\ subs'[p] = subs[p]
        \/ /\ status'[p] = "successful" /\ status[p] # "successful"
           /\ subs'[p] = subs[p] + 1 /\ p \in paid
    BY <1>1, <1>2 DEF IInv, TypeOK, Writes
  <2>2. QED
    BY <1>1, <1>2, <1>4, <2>1
       DEF IInv, TypeOK, GrantedOnceIffSuccessful, SuccessfulOnlyIfPaid
<1>12. IInv'
  BY <1>7, <1>8, <1>9, <1>10, <1>11 DEF IInv
<1>13. QED
  BY <1>1, <1>6, <1>12

-----------------------------------------------------------------------------
(***************************************************************************)
(* The theorems.                                                           *)
(***************************************************************************)

\* Every step keeps the invariant and is a step of the ledger or none.
LEMMA NextIInv == IInv /\ [Next]_vars => IInv' /\ [Ledger!Next]_(Ledger!ledgerVars)
<1> SUFFICES ASSUME IInv, [Next]_vars
             PROVE  IInv' /\ [Ledger!Next]_(Ledger!ledgerVars)
  OBVIOUS
<1> USE DEF Ledger!Next, Ledger!ledgerVars
<1>1. CASE UNCHANGED vars
  BY <1>1 DEF vars, IInv, TypeOK, RowsOK, HonestEvents, LocksExclusive,
     DecisionsFit, GrantedOnceIffSuccessful, SuccessfulOnlyIfPaid
<1>2. ASSUME NEW p \in Payments,
             InsertPayment(p) \/ OpenCharge(p) \/ Respond(p) \/ AbortCheckout(p)
      PROVE  IInv' /\ UNCHANGED <<status, subs, paid>>
  BY <1>2, CheckoutIInv DEF InsertPayment, OpenCharge, Respond, AbortCheckout, Checkouts
<1>3. ASSUME NEW p \in Payments, CommitPayment(p)
      PROVE  IInv' /\ Ledger!Open(p)
  BY <1>3, CheckoutIInv DEF CommitPayment, Checkouts, Ledger!Open
<1>4. ASSUME NEW p \in Payments, PayInFull(p)
      PROVE  IInv' /\ Ledger!Pay(p)
  BY <1>4, PaystackIInv DEF PayInFull, Ledger!Pay
<1>5. ASSUME NEW p \in Payments, \E kind \in Kinds \ {"paid"} : AttemptFails(p, kind)
      PROVE  IInv' /\ UNCHANGED <<status, subs, paid>>
  BY <1>5, PaystackIInv DEF AttemptFails
<1>6. ASSUME NEW d \in Deliveries, \E e \in Events : Receive(d, e)
      PROVE  IInv' /\ UNCHANGED <<status, subs, paid>>
  BY <1>6, ReceiveIInv DEF Receive
<1>7. ASSUME NEW d \in Deliveries, Answer(d) \/ FailWebhook(d)
      PROVE  IInv' /\ UNCHANGED <<status, subs, paid>>
  BY <1>7, IdleIInv DEF Answer, FailWebhook
<1>8. ASSUME NEW d \in Deliveries, IgnoreOther(d) \/ MissPayment(d) \/ LockPayment(d)
      PROVE  IInv' /\ UNCHANGED <<status, subs, paid>>
  BY <1>8, LookupIInv DEF IgnoreOther, MissPayment, LockPayment
<1>9. ASSUME NEW d \in Deliveries, CommitWebhook(d)
      PROVE  IInv' /\ [Ledger!Next]_(Ledger!ledgerVars)
  BY <1>9, CommitWebhookIInv
<1>10. QED
  BY <1>1, <1>2, <1>3, <1>4, <1>5, <1>6, <1>7, <1>8, <1>9 DEF Next, Process

\* The strengthened invariant holds in every reachable state.
THEOREM Invariance == Spec => []IInv
<1>1. Init => IInv
  BY InitIInv
<1>2. IInv /\ [Next]_vars => IInv'
  BY NextIInv
<1>3. QED
  BY <1>1, <1>2, PTL DEF Spec

\* Rows, handlers and Paystack's events have the types their columns and
\* schemas give them.
THEOREM TypeCorrect == Spec => []TypeOK
<1>1. IInv => TypeOK
  BY DEF IInv
<1>2. QED
  BY <1>1, Invariance, PTL

\* A payment has one subscription if it is successful, and none otherwise.
THEOREM GrantedOnceProved == Spec => []GrantedOnceIffSuccessful
<1>1. IInv => GrantedOnceIffSuccessful
  BY DEF IInv
<1>2. QED
  BY <1>1, Invariance, PTL

\* Nothing but the full price makes a payment successful.
THEOREM SuccessfulOnlyIfPaidProved == Spec => []SuccessfulOnlyIfPaid
<1>1. IInv => SuccessfulOnlyIfPaid
  BY DEF IInv
<1>2. QED
  BY <1>1, Invariance, PTL

\* Rows, subscriptions and money move as the ledger says, and in no other way.
THEOREM Implementation == Spec => ImplementsLedger
<1>1. Init => Ledger!Init
  BY DEF Init, Ledger!Init
<1>2. IInv /\ [Next]_vars => [Ledger!Next]_(Ledger!ledgerVars)
  BY NextIInv
<1>3. QED
  BY <1>1, <1>2, Invariance, PTL DEF Spec, ImplementsLedger, Ledger!Spec

\* Nothing that arrives late takes a successful payment back.
THEOREM SuccessfulIsFinalProved == Spec => SuccessfulIsFinal
<1>1. IInv /\ [Next]_vars => [StaysSuccessful]_vars
  <2> SUFFICES ASSUME IInv, [Next]_vars PROVE StaysSuccessful
    OBVIOUS
  <2>1. CASE UNCHANGED status
    BY <2>1 DEF StaysSuccessful
  <2>2. ASSUME NEW p \in Payments, Ledger!Unsettled(p) \/ status[p] = "absent",
               NEW s, status' = [status EXCEPT ![p] = s]
        PROVE  StaysSuccessful
    BY <2>2 DEF StaysSuccessful, IInv, TypeOK, Ledger!Unsettled
  <2>3. QED
    BY <2>1, <2>2, NextIInv
       DEF Ledger!Next, Ledger!ledgerVars, Ledger!Open, Ledger!Pay,
           Ledger!Refuse, Ledger!Settle
<1>2. QED
  BY <1>1, Invariance, PTL DEF Spec, SuccessfulIsFinal
-----------------------------------------------------------------------------

\* Paystack stops sending the event of a full payment when a handler that has
\* processed it answers.  Such a handler has settled the payment, or seen that
\* another had, or missed it.
DoneWithPaid ==
    \A d \in Deliveries : webhook[d].event \in Events /\ webhook[d].event.kind = "paid" =>
        LET p == webhook[d].event.payment IN
        /\ webhook[d].step = "locked" /\ webhook[d].write # "successful" =>
              status[p] = "successful"
        /\ webhook[d].step = "answer" => status[p] = "successful" \/ p \in missed

HandoverInv == DoneWithPaid /\ PaidIsNotForgotten

\* Money and misses only grow, and successful is final.
LEMMA OnlyForward ==
    ASSUME IInv, [Next]_vars
    PROVE  /\ missed \subseteq missed'
           /\ \A p \in Payments : status[p] = "successful" => status'[p] = "successful"
<1>1. missed \subseteq missed'
  BY DEF Next, Process, vars, InsertPayment, OpenCharge, Respond, CommitPayment,
     AbortCheckout, PayInFull, AttemptFails, Receive, IgnoreOther, MissPayment,
     LockPayment, CommitWebhook, Answer, FailWebhook
<1>2. ASSUME NEW p \in Payments, Ledger!Unsettled(p) \/ status[p] = "absent",
             NEW s, status' = [status EXCEPT ![p] = s]
      PROVE  StaysSuccessful
  BY <1>2 DEF StaysSuccessful, IInv, TypeOK, Ledger!Unsettled
<1>3. StaysSuccessful
  BY <1>2, NextIInv DEF Ledger!Next, Ledger!ledgerVars, Ledger!Open, Ledger!Pay,
     Ledger!Refuse, Ledger!Settle, StaysSuccessful
<1>4. QED
  BY <1>1, <1>3 DEF StaysSuccessful

\* A handler that answers has done what its event asked for.
LEMMA NextDoneWithPaid ==
    ASSUME IInv, DoneWithPaid, [Next]_vars PROVE DoneWithPaid'
<1> SUFFICES ASSUME NEW d \in Deliveries,
                    webhook'[d].event \in Events, webhook'[d].event.kind = "paid"
             PROVE  LET p == webhook'[d].event.payment IN
                    /\ webhook'[d].step = "locked" /\ webhook'[d].write # "successful"
                          => status'[p] = "successful"
                    /\ webhook'[d].step = "answer"
                          => status'[p] = "successful" \/ p \in missed'
  BY DEF DoneWithPaid
<1> DEFINE p == webhook[d].event.payment
<1>1. webhook'[d].event.payment \in Payments
  BY DEF Events
<1>2. CASE webhook'[d] = webhook[d]
  BY <1>1, <1>2, OnlyForward DEF DoneWithPaid
<1>3. CASE Receive(d, webhook'[d].event) \/ Answer(d) \/ FailWebhook(d)
  BY <1>3, EventsAssumption DEF Receive, Answer, FailWebhook, Idle, IInv, TypeOK
<1>4. CASE IgnoreOther(d)
  BY <1>4 DEF IgnoreOther, IInv, TypeOK, Handler
<1>5. CASE MissPayment(d)
  BY <1>5 DEF MissPayment, IInv, TypeOK, Handler
<1>6. CASE LockPayment(d)
  <2>1. /\ webhook'[d].event = webhook[d].event /\ webhook'[d].step = "locked"
        /\ webhook'[d].write = Outcome(webhook[d].event) /\ UNCHANGED status
    BY <1>6 DEF LockPayment, IInv, TypeOK, Handler
  <2>2. QED
    BY <2>1 DEF Outcome, Settled, FullAmount
<1>7. CASE CommitWebhook(d)
  <2>1. /\ webhook'[d].event = webhook[d].event /\ webhook'[d].step = "answer"
        /\ webhook[d].step = "locked" /\ p \in Payments
        /\ webhook[d].write = "successful" => status' = [status EXCEPT ![p] = "successful"]
    BY <1>1, <1>7 DEF CommitWebhook, IInv, TypeOK, Handler
  <2>2. webhook[d].write # "successful" => status'[p] = "successful"
    BY <2>1, OnlyForward DEF DoneWithPaid
  <2>3. webhook[d].write = "successful" => status'[p] = "successful"
    BY <2>1 DEF IInv, TypeOK
  <2>4. QED
    BY <2>1, <2>2, <2>3
<1>8. ASSUME NEW c \in Deliveries, c # d,
             \/ \E e \in Events : Receive(c, e)
             \/ Process(c) \/ FailWebhook(c)
      PROVE  webhook'[d] = webhook[d]
  BY <1>8 DEF Process, Receive, IgnoreOther, MissPayment, LockPayment,
     CommitWebhook, Answer, FailWebhook, IInv, TypeOK
<1>9. ASSUME NEW e \in Events, Receive(d, e) PROVE Receive(d, webhook'[d].event)
  BY <1>9 DEF Receive, IInv, TypeOK
<1>10. UNCHANGED webhook \/ \E c \in Deliveries :
          (\E e \in Events : Receive(c, e)) \/ Process(c) \/ FailWebhook(c)
  BY DEF Next, vars, InsertPayment, OpenCharge, Respond, CommitPayment,
     AbortCheckout, PayInFull, AttemptFails
<1>11. QED
  BY <1>2, <1>3, <1>4, <1>5, <1>6, <1>7, <1>8, <1>9, <1>10 DEF Process

\* An event leaves Paystack's queue by its answer alone.
LEMMA NextNotForgotten ==
    ASSUME IInv, HandoverInv, [Next]_vars PROVE PaidIsNotForgotten'
<1> SUFFICES ASSUME NEW p \in paid'
             PROVE  \/ status'[p] = "successful"
                    \/ p \in missed'
                    \/ PaidEvent(p) \in unacked'
  BY DEF PaidIsNotForgotten, PaidEvent
<1>1. /\ PaidEvent(p).payment = p /\ PaidEvent(p).kind = "paid"
      /\ p \in Payments /\ PaidEvent(p) \in Events
  BY NextIInv DEF IInv, TypeOK, PaidEvent, Events, Kinds
<1>2. CASE p \notin paid
  <2>1. \E q \in Payments : PayInFull(q)
    BY <1>2 DEF Next, Process, vars, InsertPayment, OpenCharge, Respond, CommitPayment,
       AbortCheckout, AttemptFails, Receive, IgnoreOther, MissPayment, LockPayment,
       CommitWebhook, Answer, FailWebhook
  <2>2. QED
    BY <1>2, <2>1 DEF PayInFull, Report, PaidEvent
<1>3. CASE status[p] = "successful" \/ p \in missed
  BY <1>1, <1>3, OnlyForward
<1>4. CASE PaidEvent(p) \in unacked
  <2>1. CASE unacked \subseteq unacked'
    BY <1>4, <2>1
  <2>2. ASSUME NEW d \in Deliveries, Answer(d), webhook[d].event # PaidEvent(p)
        PROVE  PaidEvent(p) \in unacked'
    BY <1>4, <2>2 DEF Answer
  <2>3. ASSUME NEW d \in Deliveries, Answer(d), webhook[d].event = PaidEvent(p)
        PROVE  status'[p] = "successful" \/ p \in missed'
    BY <1>1, <2>3, OnlyForward DEF HandoverInv, DoneWithPaid, Answer, Handled
  <2>4. unacked \subseteq unacked' \/ \E d \in Deliveries : Answer(d)
    BY DEF Next, Process, vars, InsertPayment, OpenCharge, Respond, CommitPayment,
       AbortCheckout, PayInFull, AttemptFails, Report, Receive, IgnoreOther,
       MissPayment, LockPayment, CommitWebhook, FailWebhook
  <2>5. QED
    BY <2>1, <2>2, <2>3, <2>4
<1>5. QED
  BY <1>2, <1>3, <1>4 DEF HandoverInv, PaidIsNotForgotten

\* Money received is granted, missed, or still to be reported: the safety half
\* of PaidIsGranted.
THEOREM PaidIsNotForgottenProved == Spec => []PaidIsNotForgotten
<1>1. Init => HandoverInv
  BY EventsAssumption DEF Init, Idle, HandoverInv, DoneWithPaid, PaidIsNotForgotten
<1>2. IInv /\ HandoverInv /\ [Next]_vars => HandoverInv'
  BY NextDoneWithPaid, NextNotForgotten DEF HandoverInv
<1>3. HandoverInv => PaidIsNotForgotten
  BY DEF HandoverInv
<1>4. QED
  BY <1>1, <1>2, <1>3, Invariance, PTL DEF Spec
=============================================================================
