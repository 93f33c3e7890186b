------------------------------- MODULE Access -------------------------------
(***************************************************************************)
(* The subscription gate of one user: app/permissions/guards.py, with the  *)
(* rows it reads (app/domains/subscriptions) and the Redis key it caches   *)
(* its answer under (app/core/redis_client.py).                            *)
(*                                                                         *)
(* Subscriptions come from payments, so the module runs on top of          *)
(* PaymentLedger: what settles a payment there inserts a subscription      *)
(* here.  Users share neither rows nor keys, hence one of them suffices.   *)
(* Administrators pass the gate unconditionally and are left out; so is    *)
(* the status EXPIRED, which no code of this repository assigns.           *)
(***************************************************************************)
EXTENDS Naturals

CONSTANTS
    Payments,    \* the user's payments; each names the subscription it buys
    Requests,    \* the user's requests that may be in flight together
    Duration,    \* SUBSCRIPTION_DURATION_DAYS
    CacheTTL,    \* SUBSCRIPTION_TTL_SECONDS
    RedisDelay,  \* longest time from the gate's query to the end of its setex
    MaxTime,     \* bound on the clock
    NoPayment

ASSUME TimesAssumption ==
    /\ Duration \in Nat \ {0}
    /\ CacheTTL \in Nat
    /\ RedisDelay \in Nat
    /\ MaxTime \in Nat

ASSUME PaymentsAssumption == NoPayment \notin Payments

VARIABLES
    status, subs, paid,  \* as in PaymentLedger
    subStatus,   \* subscriptions.status of the row each payment bought
    expires,     \* subscriptions.expires_at; 0 before there is a row
    cacheUntil,  \* when Redis drops the key; the key is there before that
    request,     \* where each request is
    now

vars == <<status, subs, paid, subStatus, expires, cacheUntil, request, now>>
rows == <<status, subs, paid, subStatus, expires>>

Ledger == INSTANCE PaymentLedger WITH status <- status, subs <- subs, paid <- paid

\* `at` is the time of the gate's query, then of its answer.
Request == [step : {"idle", "found", "admitted", "cancelling", "invalidated"},
            at : 0 .. MaxTime, sub : Payments \cup {NoPayment}]

Idle == [step |-> "idle", at |-> 0, sub |-> NoPayment]

TypeOK ==
    /\ status \in [Payments -> {"absent", "pending", "successful", "failed"}]
    /\ subs \in [Payments -> Nat]
    /\ paid \subseteq Payments
    /\ subStatus \in [Payments -> {"none", "active", "cancelled"}]
    /\ expires \in [Payments -> 0 .. MaxTime + Duration]
    /\ cacheUntil \in 0 .. MaxTime + CacheTTL
    /\ request \in [Requests -> Request]
    /\ now \in 0 .. MaxTime

Init ==
    /\ Ledger!Init
    /\ subStatus = [p \in Payments |-> "none"]
    /\ expires = [p \in Payments |-> 0]
    /\ cacheUntil = 0
    /\ request = [r \in Requests |-> Idle]
    /\ now = 0

(***************************************************************************)
(* Subscriptions.                                                          *)
(***************************************************************************)

\* Payments that come and go without a subscription.
Billing ==
    /\ \E p \in Payments : Ledger!Open(p) \/ Ledger!Pay(p) \/ Ledger!Refuse(p)
    /\ UNCHANGED <<subStatus, expires, cacheUntil, request, now>>

\* create_from_payment: handle_webhook passes it no current_active_sub, so the
\* period starts now whatever the user still has.  No key is invalidated.
Grant(p) ==
    /\ Ledger!Settle(p)
    /\ subStatus' = [subStatus EXCEPT ![p] = "active"]
    /\ expires' = [expires EXCEPT ![p] = now + Duration]
    /\ UNCHANGED <<cacheUntil, request, now>>

\* is_active, without the half that looks at the clock.
StatusActive(p) == subStatus[p] \in {"active", "cancelled"}

\* Subscription.is_active: a cancelled subscription lasts until it expires.
IsActive(p) == subStatus[p] \in {"active", "cancelled"} /\ expires[p] > now

Move(r, req) == request' = [request EXCEPT ![r] = req]

\* cancel reads the row without a lock, and passes rows that have expired.
StartCancel(r, p) ==
    /\ request[r] = Idle
    /\ subStatus[p] = "active"
    /\ Move(r, [Idle EXCEPT !.step = "cancelling", !.sub = p])
    /\ UNCHANGED <<rows, cacheUntil, now>>

\* redis.delete, before the commit; its failure is only logged.
Invalidate(r) ==
    /\ request[r].step = "cancelling"
    /\ cacheUntil' \in {0, cacheUntil}
    /\ Move(r, [request[r] EXCEPT !.step = "invalidated"])
    /\ UNCHANGED <<rows, now>>

CommitCancel(r) ==
    /\ request[r].step = "invalidated"
    /\ subStatus' = [subStatus EXCEPT ![request[r].sub] = "cancelled"]
    /\ Move(r, Idle)
    /\ UNCHANGED <<status, subs, paid, expires, cacheUntil, now>>

(***************************************************************************)
(* _enforce_subscription                                                   *)
(***************************************************************************)

Admitted == [Idle EXCEPT !.step = "admitted", !.at = now]

CacheHit(r) ==
    /\ request[r] = Idle
    /\ now < cacheUntil
    /\ Move(r, Admitted)
    /\ UNCHANGED <<rows, cacheUntil, now>>

\* The key is missing, was when it was read, or Redis is down.  A query that
\* finds nothing refuses the request, which is no step.
Query(r) ==
    /\ request[r] = Idle
    /\ \E p \in Payments : IsActive(p)
    /\ Move(r, [Idle EXCEPT !.step = "found", !.at = now])
    /\ UNCHANGED <<rows, cacheUntil, now>>

\* PSETEX's milliseconds mistaken for seconds.
InMilliseconds == now + 1000 * CacheTTL

KeyExpiry == now + CacheTTL

\* setex, or nothing when Redis is down.
Warm(r) ==
    /\ request[r].step = "found"
    /\ cacheUntil' \in {KeyExpiry, cacheUntil}
    /\ Move(r, Admitted)
    /\ UNCHANGED <<rows, now>>

\* The request ends, or fails on its way: Redis keeps what was set.
Leave(r) ==
    /\ request[r] # Idle
    /\ Move(r, Idle)
    /\ UNCHANGED <<rows, cacheUntil, now>>

(***************************************************************************)
(* The system.                                                             *)
(***************************************************************************)

\* socket_timeout bounds how long a setex can be under way.
InTime(r) == request[r].step = "found" => now < request[r].at + RedisDelay

Tick ==
    /\ now < MaxTime
    /\ \A r \in Requests : InTime(r)
    /\ now' = now + 1
    /\ UNCHANGED <<rows, cacheUntil, request>>

Next ==
    \/ Billing
    \/ \E p \in Payments : Grant(p)
    \/ \E r \in Requests :
          \/ \E p \in Payments : StartCancel(r, p)
          \/ Invalidate(r)
          \/ CommitCancel(r)
          \/ CacheHit(r)
          \/ Query(r)
          \/ Warm(r)
          \/ Leave(r)
    \/ Tick

Spec == Init /\ [][Next]_vars

-----------------------------------------------------------------------------
(***************************************************************************)
(* Properties.                                                             *)
(***************************************************************************)

\* Time bought and paid for, with the time that a cached answer may outlive it:
\* the life of the key, and how late the key may be set.
Covers(p, t) ==
    p \in paid /\ subs[p] = 1 /\ t < expires[p] + RedisDelay + CacheTTL

\* Whoever is let in has paid for a period that has not ended, or ended no
\* longer ago than the cache may be stale: cancelling, renewing, a Redis that
\* comes and goes and gates that race for the key never stretch it further.
AdmittedWhilePaid ==
    \A r \in Requests : request[r].step = "admitted" =>
        \E p \in Payments : Covers(p, request[r].at)
=============================================================================
