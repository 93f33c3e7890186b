---------------------------- MODULE AccessProofs ----------------------------
(***************************************************************************)
(* What TLAPS proves about Access, for any number of payments and requests *)
(* and any durations.                                                      *)
(*                                                                         *)
(* AdmittedWhilePaid speaks of admitted requests only.  IInv adds what the *)
(* gate's intermediate results carry: an active row was paid for, a query  *)
(* that found one was made no longer ago than RedisDelay, and the cached   *)
(* answer dies with the grace that the last period allows it.              *)
(***************************************************************************)
EXTENDS Access, TLAPS

Bought(p) == p \in paid /\ subs[p] = 1

\* The subscription rows are those of the settled payments.
RowsOK ==
    \A p \in Payments :
        /\ subStatus[p] # "none" => status[p] = "successful"
        /\ status[p] = "successful" => Bought(p)
        /\ status[p] # "successful" => subs[p] = 0

\* A cached answer outlives some paid period by no more than the grace.
CacheCovered ==
    cacheUntil # 0 =>
        \E p \in Payments :
            Bought(p) /\ cacheUntil <= expires[p] + RedisDelay + CacheTTL

\* A query saw a paid period that had not ended, and not long ago.
QueriesFresh ==
    \A r \in Requests :
        /\ request[r].step = "found" =>
              /\ now <= request[r].at + RedisDelay
              /\ \E p \in Payments : Bought(p) /\ request[r].at < expires[p]
        /\ request[r].step \in {"cancelling", "invalidated"} =>
              /\ request[r].sub \in Payments
              /\ subStatus[request[r].sub] # "none"

IInv ==
    /\ TypeOK
    /\ RowsOK
    /\ CacheCovered
    /\ QueriesFresh
    /\ AdmittedWhilePaid

-----------------------------------------------------------------------------

\* The fields of a request that has nothing to do.
LEMMA IdleFields ==
    /\ Idle \in Request /\ Idle.step = "idle" /\ Idle.at = 0
    /\ Idle.sub = NoPayment
BY TimesAssumption DEF Idle, Request

\* Nothing bought, nothing cached, nobody inside.
LEMMA InitIInv == Init => IInv
<1> SUFFICES ASSUME Init PROVE IInv
  OBVIOUS
<1> USE IdleFields, TimesAssumption DEF Init, Ledger!Init
<1>1. TypeOK
  BY DEF TypeOK
<1>2. RowsOK /\ CacheCovered /\ QueriesFresh /\ AdmittedWhilePaid
  BY DEF RowsOK, CacheCovered, QueriesFresh, AdmittedWhilePaid
<1>3. QED
  BY <1>1, <1>2 DEF IInv

\* Steps that leave requests, cache and clock alone, take nothing from what
\* was bought and shorten no period.
LEMMA RowsGrow ==
    ASSUME IInv, UNCHANGED <<cacheUntil, request, now>>, TypeOK', RowsOK',
           \A p \in Payments : Bought(p) => Bought(p)' /\ expires'[p] = expires[p],
           \A p \in Payments : subStatus[p] # "none" => subStatus'[p] # "none"
    PROVE  IInv'
<1>1. CacheCovered' /\ AdmittedWhilePaid'
  BY DEF IInv, CacheCovered, AdmittedWhilePaid, Covers, Bought
<1>2. QueriesFresh'
  BY DEF IInv, QueriesFresh
<1>3. QED
  BY <1>1, <1>2 DEF IInv

\* Payments that grant nothing change nothing the gate looks at.
LEMMA BillingIInv == ASSUME IInv, Billing PROVE IInv'
<1>1. PICK p \in Payments : Ledger!Open(p) \/ Ledger!Pay(p) \/ Ledger!Refuse(p)
  BY DEF Billing
<1>2. /\ status[p] # "successful" \/ UNCHANGED status
      /\ \/ UNCHANGED status
         \/ status' = [status EXCEPT ![p] = "pending"]
         \/ status' = [status EXCEPT ![p] = "failed"]
      /\ paid' = paid \/ paid' = paid \cup {p}
      /\ UNCHANGED <<subs, subStatus, expires, cacheUntil, request, now>>
  BY <1>1 DEF Billing, Ledger!Open, Ledger!Pay, Ledger!Refuse, Ledger!Unsettled
<1>3. TypeOK'
  BY <1>2 DEF IInv, TypeOK
<1>4. RowsOK'
  BY <1>2 DEF IInv, TypeOK, RowsOK, Bought
<1>5. QED
  BY <1>2, <1>3, <1>4, RowsGrow DEF Bought

\* A new period only adds to what was bought.
LEMMA GrantIInv == ASSUME IInv, NEW p \in Payments, Grant(p) PROVE IInv'
<1>1. /\ status[p] # "successful" /\ p \in paid /\ subs[p] = 0
      /\ subs' = [subs EXCEPT ![p] = @ + 1]
      /\ status' = [status EXCEPT ![p] = "successful"]
      /\ subStatus' = [subStatus EXCEPT ![p] = "active"]
      /\ expires' = [expires EXCEPT ![p] = now + Duration]
      /\ UNCHANGED <<paid, cacheUntil, request, now>>
  BY DEF Grant, Ledger!Settle, Ledger!Unsettled, IInv, RowsOK
<1>2. now + Duration \in 0 .. MaxTime + Duration
  BY TimesAssumption DEF IInv, TypeOK
<1>3. TypeOK'
  BY <1>1, <1>2 DEF IInv, TypeOK
<1>4. RowsOK'
  BY <1>1 DEF IInv, TypeOK, RowsOK, Bought
<1>5. \A q \in Payments : Bought(q) => Bought(q)' /\ expires'[q] = expires[q]
  BY <1>1 DEF IInv, TypeOK, Bought
<1>6. \A q \in Payments : subStatus[q] # "none" => subStatus'[q] # "none"
  BY <1>1 DEF IInv, TypeOK
<1>7. QED
  BY <1>1, <1>3, <1>4, <1>5, <1>6, RowsGrow

\* A step of one request that changes no row and lets it in, if at all, while
\* the time bought covers it.
LEMMA OneRequest ==
    ASSUME IInv, NEW r \in Requests, NEW q \in Request,
           Move(r, q), UNCHANGED <<rows, now>>, CacheCovered',
           cacheUntil' \in 0 .. MaxTime + CacheTTL,
           q.step = "found" =>
              q.at = now /\ \E p \in Payments : Bought(p) /\ now < expires[p],
           q.step = "admitted" => \E p \in Payments : Covers(p, q.at),
           q.step \in {"cancelling", "invalidated"} =>
              q.sub \in Payments /\ subStatus[q.sub] # "none"
    PROVE  IInv'
<1>1. /\ request'[r] = q
      /\ \A x \in Requests : x # r => request'[x] = request[x]
  BY DEF Move, IInv, TypeOK
<1>2. TypeOK'
  BY DEF Move, IInv, TypeOK, rows
<1>3. RowsOK'
  BY DEF IInv, RowsOK, Bought, rows
<1>4. now <= now + RedisDelay
  BY TimesAssumption DEF IInv, TypeOK
<1>5. QueriesFresh'
  BY <1>1, <1>4 DEF IInv, QueriesFresh, Bought, rows
<1>6. AdmittedWhilePaid'
  BY <1>1 DEF IInv, AdmittedWhilePaid, Covers, rows
<1>7. QED
  BY <1>2, <1>3, <1>5, <1>6 DEF IInv

\* A request that ends leaves the cached answer behind.
LEMMA LeaveIInv ==
    ASSUME IInv, NEW r \in Requests, Leave(r) PROVE IInv'
<1>1. CacheCovered' /\ cacheUntil' \in 0 .. MaxTime + CacheTTL
  BY DEF Leave, IInv, TypeOK, CacheCovered, Bought, rows
<1>2. QED
  BY <1>1, IdleFields, OneRequest DEF Leave

\* cancel, up to its commit, shortens no period and sets no key.
LEMMA CancelIInv ==
    ASSUME IInv, NEW r \in Requests,
           (\E p \in Payments : StartCancel(r, p)) \/ Invalidate(r) \/ CommitCancel(r)
    PROVE  IInv'
<1>1. ASSUME NEW p \in Payments, StartCancel(r, p) PROVE IInv'
  <2> DEFINE q == [Idle EXCEPT !.step = "cancelling", !.sub = p]
  <2>1. q \in Request /\ q.step = "cancelling" /\ q.sub = p
    BY IdleFields DEF Idle, Request
  <2>2. CacheCovered' /\ cacheUntil' \in 0 .. MaxTime + CacheTTL
    BY <1>1 DEF StartCancel, IInv, TypeOK, CacheCovered, Bought, rows
  <2>3. Move(r, q)
    BY <1>1 DEF StartCancel
  <2> HIDE DEF q
  <2>4. QED
    BY <1>1, <2>1, <2>2, <2>3, OneRequest DEF StartCancel
<1>2. CASE Invalidate(r)
  <2> DEFINE q == [request[r] EXCEPT !.step = "invalidated"]
  <2>1. q \in Request /\ q.step = "invalidated" /\ q.sub = request[r].sub
    BY DEF IInv, TypeOK, Request
  <2>2. request[r].sub \in Payments /\ subStatus[request[r].sub] # "none"
    BY <1>2 DEF Invalidate, IInv, QueriesFresh
  <2>3. CacheCovered' /\ cacheUntil' \in 0 .. MaxTime + CacheTTL
    BY <1>2, TimesAssumption DEF Invalidate, IInv, TypeOK, CacheCovered, Bought, rows
  <2>4. Move(r, q) /\ UNCHANGED <<rows, now>>
    BY <1>2 DEF Invalidate
  <2> HIDE DEF q
  <2>5. QED
    BY <2>1, <2>2, <2>3, <2>4, OneRequest
<1>3. CASE CommitCancel(r)
  <2> DEFINE p == request[r].sub
  <2>1. p \in Payments /\ subStatus[p] # "none"
    BY <1>3 DEF CommitCancel, IInv, QueriesFresh
  <2>2. /\ subStatus' = [subStatus EXCEPT ![p] = "cancelled"]
        /\ request' = [request EXCEPT ![r] = Idle]
        /\ UNCHANGED <<status, subs, paid, expires, cacheUntil, now>>
    BY <1>3 DEF CommitCancel, Move
  <2>3. /\ request'[r] = Idle
        /\ \A x \in Requests : x # r => request'[x] = request[x]
        /\ subStatus'[p] = "cancelled"
        /\ \A x \in Payments : x # p => subStatus'[x] = subStatus[x]
    BY <2>1, <2>2 DEF IInv, TypeOK
  <2>4. TypeOK'
    BY <2>1, <2>2, IdleFields DEF IInv, TypeOK
  <2>5. RowsOK' /\ CacheCovered'
    BY <2>1, <2>2, <2>3 DEF IInv, RowsOK, CacheCovered, Bought
  <2>6. QueriesFresh'
    BY <2>1, <2>2, <2>3, IdleFields DEF IInv, QueriesFresh, Bought
  <2>7. AdmittedWhilePaid'
    BY <2>2, <2>3, IdleFields DEF IInv, AdmittedWhilePaid, Covers
  <2>8. QED
    BY <2>4, <2>5, <2>6, <2>7 DEF IInv
<1>4. QED
  BY <1>1, <1>2, <1>3

\* The gate admits on a cached answer or on a row, and caches the latter.
LEMMA GateIInv ==
    ASSUME IInv, NEW r \in Requests, CacheHit(r) \/ Query(r) \/ Warm(r) PROVE IInv'
<1>1. /\ Admitted \in Request /\ Admitted.step = "admitted" /\ Admitted.at = now
  BY IdleFields DEF Admitted, Idle, Request, IInv, TypeOK
<1>2. /\ now \in Nat /\ RedisDelay \in Nat /\ CacheTTL \in Nat
      /\ cacheUntil \in Nat /\ \A p \in Payments : expires[p] \in Nat
  BY TimesAssumption DEF IInv, TypeOK
<1>3. CASE CacheHit(r)
  <2>1. CacheCovered' /\ cacheUntil' \in 0 .. MaxTime + CacheTTL
    BY <1>3 DEF CacheHit, IInv, TypeOK, CacheCovered, Bought, rows
  <2>2. \E p \in Payments : Covers(p, now)
    BY <1>2, <1>3 DEF CacheHit, IInv, CacheCovered, Covers, Bought
  <2>3. QED
    BY <1>1, <1>3, <2>1, <2>2, OneRequest DEF CacheHit
<1>4. CASE Query(r)
  <2> DEFINE q == [Idle EXCEPT !.step = "found", !.at = now]
  <2>1. q \in Request /\ q.step = "found" /\ q.at = now
    BY IdleFields DEF Idle, Request, IInv, TypeOK
  <2>2. CacheCovered' /\ cacheUntil' \in 0 .. MaxTime + CacheTTL
    BY <1>4 DEF Query, IInv, TypeOK, CacheCovered, Bought, rows
  <2>3. \E p \in Payments : Bought(p) /\ now < expires[p]
    BY <1>2, <1>4 DEF Query, IsActive, IInv, RowsOK
  <2>4. Move(r, q) /\ UNCHANGED <<rows, now>>
    BY <1>4 DEF Query
  <2> HIDE DEF q
  <2>5. QED
    BY <2>1, <2>2, <2>3, <2>4, OneRequest
<1>5. CASE Warm(r)
  <2>1. PICK p \in Payments : Bought(p) /\ request[r].at < expires[p]
    BY <1>5 DEF Warm, IInv, QueriesFresh
  <2>2. request[r].at \in Nat /\ now <= request[r].at + RedisDelay
    BY <1>5, TimesAssumption DEF Warm, IInv, QueriesFresh, TypeOK, Request
  <2>3. KeyExpiry <= expires[p] + RedisDelay + CacheTTL /\ Covers(p, now)
    BY <1>2, <2>1, <2>2 DEF KeyExpiry, Covers, Bought
  <2>4. CacheCovered'
    BY <1>5, <2>1, <2>3 DEF Warm, IInv, CacheCovered, Bought, rows
  <2>5. cacheUntil' \in 0 .. MaxTime + CacheTTL
    BY <1>5, TimesAssumption DEF Warm, KeyExpiry, IInv, TypeOK
  <2>6. QED
    BY <1>1, <1>5, <2>3, <2>4, <2>5, OneRequest DEF Warm
<1>6. QED
  BY <1>3, <1>4, <1>5

\* Time passes, but not past the delay that a setex is allowed.
LEMMA TickIInv == ASSUME IInv, Tick PROVE IInv'
<1> USE DEF Tick, rows
<1>1. TypeOK'
  BY TimesAssumption DEF IInv, TypeOK
<1>2. RowsOK' /\ CacheCovered' /\ AdmittedWhilePaid'
  BY DEF IInv, RowsOK, CacheCovered, AdmittedWhilePaid, Covers, Bought
<1>3. \A r \in Requests :
         request[r].step = "found" => now + 1 <= request[r].at + RedisDelay
  BY TimesAssumption DEF InTime, IInv, TypeOK, Request
<1>4. QueriesFresh'
  BY <1>3 DEF IInv, QueriesFresh, Bought
<1>5. QED
  BY <1>1, <1>2, <1>4 DEF IInv

-----------------------------------------------------------------------------

\* Every period that was bought still covers whoever was let in on it.
THEOREM Invariance == Spec => []IInv
<1>1. Init => IInv
  BY InitIInv
<1>2. IInv /\ [Next]_vars => IInv'
  <2> SUFFICES ASSUME IInv, [Next]_vars PROVE IInv'
    OBVIOUS
  <2>1. CASE UNCHANGED vars
    BY <2>1 DEF vars, IInv, TypeOK, RowsOK, CacheCovered, QueriesFresh,
       AdmittedWhilePaid, Covers, Bought
  <2>2. ASSUME NEW r \in Requests,
               \/ \E p \in Payments : StartCancel(r, p)
               \/ Invalidate(r) \/ CommitCancel(r)
               \/ CacheHit(r) \/ Query(r) \/ Warm(r) \/ Leave(r)
        PROVE  IInv'
    BY <2>2, CancelIInv, GateIInv, LeaveIInv
  <2>3. QED
    BY <2>1, <2>2, BillingIInv, GrantIInv, TickIInv DEF Next
<1>3. QED
  BY <1>1, <1>2, PTL DEF Spec

\* Columns, key and requests have their types, within the bounds of the clock.
THEOREM TypeCorrect == Spec => []TypeOK
<1>1. IInv => TypeOK
  BY DEF IInv
<1>2. QED
  BY <1>1, Invariance, PTL

\* Nobody is let in who has not paid for a period that has not ended, or ended
\* within the life of a cached answer.
THEOREM AdmittedWhilePaidProved == Spec => []AdmittedWhilePaid
<1>1. IInv => AdmittedWhilePaid
  BY DEF IInv
<1>2. QED
  BY <1>1, Invariance, PTL
=============================================================================
