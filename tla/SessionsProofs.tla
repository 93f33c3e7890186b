--------------------------- MODULE SessionsProofs ---------------------------
(***************************************************************************)
(* What TLAPS proves about Sessions, for any number of requests and        *)
(* tokens, any lifetime and any bound on the clock.                        *)
(*                                                                         *)
(* IInv adds what ties a handler's locals to the tokens: a token that is   *)
(* presented has been minted, one that is to be minted has not, and one    *)
(* that is on its way to the browser is known to nobody else.              *)
(***************************************************************************)
EXTENDS Sessions, FiniteSetTheorems, TLAPS

TokensOK ==
    /\ \A t \in Tokens : /\ expires[t] <= now + Lifetime
                         /\ fate[t] # "open" => expires[t] # 0
                         /\ blacklist[t] # 0 => fate[t] # "open"
    /\ \A t \in Tokens \ lapsed : fate[t] # "open" => expires[t] <= blacklist[t]
    /\ cookie # NoToken => expires[cookie] # 0

\* A new token that the browser does not have yet.
OnItsWay(t) ==
    /\ expires[t] # 0 /\ fate[t] = "open" /\ cookie # t
    /\ \A q \in Requests : request[q].token # t

RequestOK(q) ==
    /\ q.op = "none" => q = Idle
    /\ IF q.op \in {"refresh", "logout"}
       THEN q.token \in Tokens /\ expires[q.token] # 0
       ELSE q.token = NoToken
    /\ q.step = "accepted" => q.op = "refresh" /\ q.next # NoToken
    /\ q.step = "answering" => q.op \in {"login", "refresh", "logout"}
    /\ q.step \in {"checked", "inserted", "committing"} => q.op = "register"
    /\ q.next # NoToken =>
          \/ q.step = "accepted" /\ expires[q.next] = 0
          \/ q.step = "answering" /\ OnItsWay(q.next)

RequestsOK == \A r \in Requests : RequestOK(request[r])

NextsApart ==
    \A q, r \in Requests :
        q # r /\ request[q].next = request[r].next => request[q].next = NoToken

Inserting == {r \in Requests : request[r].step \in {"inserted", "committing"}}

AccountOK ==
    /\ accounts <= 1
    /\ \A r \in Inserting : accounts = 0
    /\ \A q, r \in Inserting : q = r

SuccessorsOK ==
    \A t \in Tokens \ (lapsed \cup overlapped) :
        /\ fate[t] # "exchanged" => Successors(t) = {}
        /\ \A u, v \in Successors(t) : u = v
        /\ fate[t] # "open" => Accepted(t) = {}

\* Whoever revoked the cookie's token is about to answer with another.
CookieOK ==
    ~lost /\ cookie # NoToken /\ fate[cookie] # "open" =>
        \E r \in Requests : request[r].step = "answering" /\ request[r].token = cookie

IInv ==
    /\ TypeOK
    /\ TokensOK
    /\ RequestsOK
    /\ NextsApart
    /\ AccountOK
    /\ SuccessorsOK
    /\ CookieOK

-----------------------------------------------------------------------------

\* The fields of a request that has nothing to do.
LEMMA IdleFields ==
    /\ Idle \in Request
    /\ Idle.op = "none" /\ Idle.step = "idle"
    /\ Idle.token = NoToken /\ Idle.next = NoToken
    /\ RequestOK(Idle)
BY DEF Idle, Request, Ops, Steps, RequestOK

\* No account, no tokens.
LEMMA InitIInv == Init => IInv
<1> SUFFICES ASSUME Init PROVE IInv
  OBVIOUS
<1>1. TypeOK
  <2>1. 0 \in 0 .. MaxTime /\ 0 \in 0 .. MaxTime + Lifetime
    BY TimesAssumption
  <2>2. QED
    BY <2>1, IdleFields DEF Init, TypeOK
<1>2. TokensOK
  BY TimesAssumption DEF Init, TokensOK
<1>3. RequestsOK /\ NextsApart /\ AccountOK
  BY IdleFields DEF Init, RequestsOK, NextsApart, AccountOK, Inserting
<1>4. SuccessorsOK /\ CookieOK
  BY TokensAssumption DEF Init, SuccessorsOK, Successors, Accepted, At, CookieOK
<1>5. QED
  BY <1>1, <1>2, <1>3, <1>4 DEF IInv

\* The locals of one request change.
LEMMA MoveFact ==
    ASSUME IInv, NEW r \in Requests, NEW q \in Request, Move(r, q)
    PROVE  /\ request' \in [Requests -> Request]
           /\ request'[r] = q
           /\ \A p \in Requests : p # r => request'[p] = request[p]
BY DEF Move, IInv, TypeOK

\* A step that touches no token, no account and no cookie leaves the invariant
\* if the locals that it gives its request are in order.
LEMMA MoveIInv ==
    ASSUME IInv, NEW r \in Requests, NEW q \in Request, Move(r, q),
           UNCHANGED <<accounts, tokens, redis, cookie, now>>,
           lost' \in BOOLEAN, lost => lost',
           RequestOK(q), q.next = NoToken,
           q.step \in {"inserted", "committing"} => accounts = 0 /\ NoneInserting,
           q.token \notin {NoToken, request[r].token} => q.token = cookie,
           lost' \/ request[r].step # "answering"
    PROVE  IInv'
<1>1. /\ request' \in [Requests -> Request] /\ request'[r] = q
      /\ \A p \in Requests : p # r => request'[p] = request[p]
      /\ accounts' = accounts /\ expires' = expires /\ parent' = parent
      /\ blacklist' = blacklist /\ fate' = fate /\ lapsed' = lapsed
      /\ overlapped' = overlapped /\ cookie' = cookie /\ now' = now
  BY MoveFact DEF tokens, redis
<1>2. TypeOK' /\ TokensOK'
  BY <1>1 DEF IInv, TypeOK, TokensOK
<1>3. \A t : OnItsWay(t) => OnItsWay(t)' \/ t = NoToken
  BY <1>1 DEF OnItsWay, IInv, RequestsOK, TypeOK, Request
<1>4. RequestsOK'
  BY <1>1, <1>3 DEF IInv, RequestsOK, RequestOK
<1>5. NextsApart'
  BY <1>1 DEF IInv, NextsApart
<1>6. AccountOK'
  BY <1>1 DEF IInv, AccountOK, Inserting, NoneInserting
<1>7. \A t \in Tokens : /\ Successors(t)' = Successors(t)
                        /\ Accepted(t)' \subseteq Accepted(t)
  BY <1>1 DEF Successors, Accepted, At, RequestOK
<1>8. SuccessorsOK'
  BY <1>1, <1>7 DEF IInv, SuccessorsOK
<1>9. CookieOK'
  BY <1>1 DEF IInv, CookieOK
<1>10. QED
  BY <1>2, <1>4, <1>5, <1>6, <1>8, <1>9 DEF IInv

LEMMA SendIInv ==
    ASSUME IInv, NEW r \in Requests, NEW op \in {"refresh", "logout"}, Send(r, op)
    PROVE  IInv'
<1> DEFINE q == [Idle EXCEPT !.op = op, !.step = "sent", !.token = cookie]
<1>1. /\ q \in Request /\ q.op = op /\ q.step = "sent" /\ q.token = cookie
      /\ q.next = NoToken
  BY DEF IInv, TypeOK, Idle, Request, Ops, Steps
<1>2. /\ Move(r, q) /\ cookie # NoToken /\ request[r].step # "answering"
      /\ UNCHANGED <<accounts, tokens, redis, cookie, now>> /\ lost' = lost
  BY IdleFields DEF Send, browser
<1> HIDE DEF q
<1>3. RequestOK(q)
  BY <1>1, <1>2 DEF RequestOK, IInv, TypeOK, TokensOK
<1>4. QED
  BY <1>1, <1>2, <1>3, MoveIInv DEF IInv, TypeOK

LEMMA FailIInv == ASSUME IInv, NEW r \in Requests, Fail(r) PROVE IInv'
<1>1. /\ Move(r, Idle) /\ UNCHANGED <<accounts, tokens, redis, cookie, now>>
      /\ lost' = (lost \/ request[r].step = "answering")
  BY DEF Fail
<1>2. QED
  BY <1>1, IdleFields, MoveIInv DEF IInv, TypeOK

LEMMA CheckEmailIInv == ASSUME IInv, NEW r \in Requests, CheckEmail(r) PROVE IInv'
<1> DEFINE q == [Idle EXCEPT !.op = "register", !.step = "checked"]
<1>1. /\ q \in Request /\ q.op = "register" /\ q.step = "checked"
      /\ q.token = NoToken /\ q.next = NoToken
  BY DEF Idle, Request, Ops, Steps
<1>2. /\ Move(r, q) /\ request[r].step # "answering"
      /\ UNCHANGED <<accounts, tokens, redis, cookie, now>> /\ lost' = lost
  BY IdleFields DEF CheckEmail, browser
<1> HIDE DEF q
<1>3. RequestOK(q)
  BY <1>1 DEF RequestOK
<1>4. QED
  BY <1>1, <1>2, <1>3, MoveIInv DEF IInv, TypeOK

\* The index lets in one INSERT, and no account is there then.
LEMMA InsertUserIInv == ASSUME IInv, NEW r \in Requests, InsertUser(r) PROVE IInv'
<1> DEFINE q == [request[r] EXCEPT !.step = "inserted"]
<1>1. /\ request[r] \in Request /\ RequestOK(request[r])
      /\ request[r].op = "register" /\ request[r].step = "checked"
  BY DEF InsertUser, At, IInv, TypeOK, RequestsOK
<1>2. /\ UNCHANGED <<accounts, tokens, redis, cookie, now>> /\ lost' = lost
      /\ NoneInserting
      /\ \/ accounts = 0 /\ Move(r, q)
         \/ Move(r, Idle)
  BY DEF InsertUser, GoOn, browser
<1>3. /\ q \in Request /\ q.op = "register" /\ q.step = "inserted"
      /\ q.token = request[r].token /\ q.next = request[r].next
  BY <1>1 DEF Request, Steps
<1> HIDE DEF q
<1>4. RequestOK(q) /\ q.next = NoToken /\ q.token = NoToken
  BY <1>1, <1>3 DEF RequestOK
<1>5. QED
  BY <1>1, <1>2, <1>3, <1>4, IdleFields, MoveIInv DEF IInv, TypeOK

LEMMA RefuseIInv == ASSUME IInv, NEW r \in Requests, Refuse(r) PROVE IInv'
<1>1. /\ Move(r, Idle) /\ UNCHANGED <<accounts, tokens, redis, cookie, now>>
      /\ lost' = lost /\ request[r].step = "sent"
  BY DEF Refuse, At, browser
<1>2. QED
  BY <1>1, IdleFields, MoveIInv DEF IInv, TypeOK

-----------------------------------------------------------------------------

\* A token minted for the browser, by a request that holds no other.
LEMMA MintFact ==
    ASSUME IInv, NEW t \in Tokens, expires[t] = 0, NEW from \in Tokens \cup {NoToken},
           Mint(t, from)
    PROVE  /\ expires'[t] = now + Lifetime /\ expires'[t] # 0
           /\ \A u \in Tokens : u # t => expires'[u] = expires[u]
           /\ expires' \in [Tokens -> 0 .. MaxTime + Lifetime]
           /\ parent' \in [Tokens -> Tokens \cup {NoToken}]
           /\ fate[t] = "open" /\ blacklist[t] = 0
           /\ \A u \in Tokens : u # from => Successors(u)' \subseteq Successors(u)
           /\ from \in Tokens => Successors(from)' \subseteq Successors(from) \cup {t}
<1>1. now + Lifetime \in 0 .. MaxTime + Lifetime /\ now + Lifetime # 0
  BY TimesAssumption DEF IInv, TypeOK
<1>2. /\ expires' = [expires EXCEPT ![t] = now + Lifetime]
      /\ parent' = [parent EXCEPT ![t] = from]
  BY DEF Mint
<1>3. fate[t] = "open" /\ blacklist[t] = 0
  BY DEF IInv, TypeOK, TokensOK
<1>4. QED
  BY <1>1, <1>2, <1>3, TokensAssumption DEF IInv, TypeOK, Successors

\* What a token that is minted keeps of the others.
LEMMA MintTokensOK ==
    ASSUME IInv, NEW t \in Tokens, expires[t] = 0, NEW from \in Tokens \cup {NoToken},
           Mint(t, from), UNCHANGED <<redis, now>>, cookie' \in {cookie, t}
    PROVE  TokensOK'
<1>1. /\ expires'[t] = now + Lifetime /\ expires'[t] # 0
      /\ \A u \in Tokens : u # t => expires'[u] = expires[u]
      /\ fate[t] = "open" /\ blacklist[t] = 0
  BY MintFact
<1>2. now + Lifetime \in Nat
  BY TimesAssumption DEF IInv, TypeOK
<1>3. QED
  BY <1>1, <1>2 DEF IInv, TypeOK, TokensOK, redis

\* The tokens of other requests stay as they are.
LEMMA OthersKept ==
    ASSUME IInv, NEW r \in Requests, NEW q \in Request, Move(r, q),
           NEW t \in Tokens, expires[t] = 0,
           \A p \in Requests : p # r => request[p].next # t,
           \A u \in Tokens : expires'[u] # expires[u] => u = t /\ expires'[u] # 0,
           \A u \in Tokens : fate'[u] # fate[u] => u = request[r].token,
           cookie' \in {cookie, t, request[r].next},
           q.token \in {NoToken, request[r].token},
           NEW p \in Requests, p # r
    PROVE  RequestOK(request[p])'
<1>1. /\ request'[r] = q /\ \A s \in Requests : s # r => request'[s] = request[s]
      /\ request[p] \in Request /\ RequestOK(request[p])
      /\ request[r] \in Request /\ RequestOK(request[r])
  BY MoveFact DEF IInv, TypeOK, RequestsOK
<1>2. ASSUME request[p].next # NoToken, request[p].next \in Tokens
      PROVE  /\ request[p].next # t /\ request[p].next # request[r].next
             /\ expires'[request[p].next] = expires[request[p].next]
             /\ OnItsWay(request[p].next) => OnItsWay(request[p].next)'
  BY <1>1, <1>2 DEF IInv, NextsApart, OnItsWay
<1>3. \A u \in Tokens : expires[u] # 0 => expires'[u] # 0
  OBVIOUS
<1>4. request'[p] = request[p]
  BY <1>1
<1>5. request[p].next # NoToken => request[p].next \in Tokens
  BY <1>1 DEF Request
<1>6. QED
  BY <1>1, <1>2, <1>3, <1>4, <1>5 DEF RequestOK

LEMMA AnswerRegisterIInv ==
    ASSUME IInv, NEW r \in Requests, NEW t \in Tokens, AnswerRegister(r, t)
    PROVE  IInv'
<1> DEFINE q == [request[r] EXCEPT !.step = "committing"]
<1>1. /\ request[r] \in Request /\ RequestOK(request[r])
      /\ request[r].op = "register" /\ request[r].step = "inserted"
      /\ request[r].token = NoToken /\ request[r].next = NoToken
  BY DEF AnswerRegister, At, IInv, TypeOK, RequestsOK, RequestOK
<1>2. /\ Move(r, q) /\ Mint(t, NoToken) /\ expires[t] = 0
      /\ \A p \in Requests : request[p].next # t
      /\ accounts' = accounts /\ UNCHANGED redis /\ now' = now
      /\ \/ cookie' = t /\ lost' = lost
         \/ cookie' = cookie /\ lost' = TRUE
  BY DEF AnswerRegister, GoOn, Fresh
<1>3. /\ q \in Request /\ q.op = "register" /\ q.step = "committing"
      /\ q.token = NoToken /\ q.next = NoToken
  BY <1>1 DEF Request, Steps
<1> HIDE DEF q
<1>4. /\ request' \in [Requests -> Request] /\ request'[r] = q
      /\ \A p \in Requests : p # r => request'[p] = request[p]
  BY <1>2, <1>3, MoveFact
<1>5. /\ expires'[t] # 0 /\ \A u \in Tokens : u # t => expires'[u] = expires[u]
      /\ expires' \in [Tokens -> 0 .. MaxTime + Lifetime]
      /\ parent' \in [Tokens -> Tokens \cup {NoToken}]
      /\ fate[t] = "open"
      /\ \A u \in Tokens : Successors(u)' \subseteq Successors(u)
  BY <1>2, MintFact, TokensAssumption
<1>6. TypeOK'
  BY <1>2, <1>4, <1>5 DEF IInv, TypeOK, redis
<1>7. TokensOK'
  BY <1>2, MintTokensOK
<1>8. RequestOK(request[r])'
  BY <1>3, <1>4 DEF RequestOK
<1>9. \A p \in Requests : p # r => RequestOK(request[p])'
  BY <1>1, <1>2, <1>3, <1>5, OthersKept DEF redis
<1>10. RequestsOK' /\ NextsApart'
  BY <1>3, <1>4, <1>8, <1>9 DEF IInv, RequestsOK, NextsApart
<1>11. AccountOK'
  BY <1>1, <1>2, <1>4 DEF IInv, AccountOK, Inserting
<1>12. \A u \in Tokens : Accepted(u)' \subseteq Accepted(u)
  BY <1>3, <1>4 DEF Accepted, At
<1>13. SuccessorsOK'
  BY <1>2, <1>5, <1>12 DEF IInv, SuccessorsOK, redis
<1>14. CookieOK'
  BY <1>1, <1>2, <1>4, <1>5 DEF IInv, CookieOK, redis
<1>15. QED
  BY <1>6, <1>7, <1>10, <1>11, <1>13, <1>14 DEF IInv

LEMMA CommitRegisterIInv ==
    ASSUME IInv, NEW r \in Requests, CommitRegister(r) PROVE IInv'
<1>1. /\ request[r].step = "committing" /\ Move(r, Idle)
      /\ accounts' = accounts + 1 /\ UNCHANGED <<tokens, redis, browser, now>>
      /\ accounts = 0 /\ \A q \in Inserting : q = r
  BY DEF CommitRegister, At, IInv, AccountOK, Inserting
<1>2. /\ request' \in [Requests -> Request] /\ request'[r] = Idle
      /\ \A p \in Requests : p # r => request'[p] = request[p]
  BY <1>1, MoveFact, IdleFields
<1>3. TypeOK' /\ TokensOK'
  BY <1>1, <1>2 DEF IInv, TypeOK, TokensOK, tokens, redis, browser
<1>4. \A t : t # NoToken /\ OnItsWay(t) => OnItsWay(t)'
  BY <1>1, <1>2, IdleFields DEF OnItsWay, tokens, redis, browser
<1>5. RequestsOK' /\ NextsApart'
  BY <1>1, <1>2, <1>4, IdleFields
     DEF IInv, RequestsOK, RequestOK, NextsApart, tokens
<1>6. AccountOK'
  BY <1>1, <1>2, IdleFields DEF AccountOK, Inserting
<1>7. \A u \in Tokens : Accepted(u)' \subseteq Accepted(u) /\ Successors(u)' = Successors(u)
  BY <1>1, <1>2, IdleFields DEF Accepted, At, Successors, tokens
<1>8. SuccessorsOK' /\ CookieOK'
  BY <1>1, <1>2, <1>7 DEF IInv, SuccessorsOK, CookieOK, redis, browser
<1>9. QED
  BY <1>3, <1>5, <1>6, <1>8 DEF IInv

LEMMA LoginIInv ==
    ASSUME IInv, NEW r \in Requests, NEW t \in Tokens, Login(r, t) PROVE IInv'
<1> DEFINE q == [Idle EXCEPT !.op = "login", !.step = "answering", !.next = t]
<1>1. /\ q \in Request /\ q.op = "login" /\ q.step = "answering"
      /\ q.token = NoToken /\ q.next = t
  BY DEF Idle, Request, Ops, Steps
<1>2. /\ Move(r, q) /\ Mint(t, NoToken) /\ expires[t] = 0
      /\ request[r] = Idle
      /\ \A p \in Requests : request[p].next # t
      /\ accounts' = accounts /\ UNCHANGED <<redis, browser, now>>
  BY DEF Login, Fresh
<1> HIDE DEF q
<1>3. /\ request' \in [Requests -> Request] /\ request'[r] = q
      /\ \A p \in Requests : p # r => request'[p] = request[p]
  BY <1>1, <1>2, MoveFact
<1>4. /\ expires'[t] # 0 /\ \A u \in Tokens : u # t => expires'[u] = expires[u]
      /\ expires' \in [Tokens -> 0 .. MaxTime + Lifetime]
      /\ parent' \in [Tokens -> Tokens \cup {NoToken}]
      /\ fate[t] = "open"
      /\ \A u \in Tokens : Successors(u)' \subseteq Successors(u)
  BY <1>2, MintFact, TokensAssumption
<1>5. TypeOK'
  BY <1>2, <1>3, <1>4 DEF IInv, TypeOK, redis, browser
<1>6. TokensOK'
  BY <1>2, MintTokensOK DEF browser
<1>7. OnItsWay(t)'
  <2>1. cookie # t /\ \A p \in Requests : request[p].token # t
    BY <1>2, TokensAssumption DEF IInv, TokensOK, RequestsOK, RequestOK
  <2>2. QED
    BY <1>1, <1>2, <1>3, <1>4, <2>1, TokensAssumption DEF OnItsWay, redis, browser
<1>8. RequestOK(request[r])'
  BY <1>1, <1>3, <1>7 DEF RequestOK
<1>9. \A p \in Requests : p # r => RequestOK(request[p])'
  BY <1>1, <1>2, <1>4, OthersKept DEF redis, browser
<1>10. RequestsOK' /\ NextsApart'
  BY <1>1, <1>2, <1>3, <1>8, <1>9 DEF IInv, RequestsOK, NextsApart
<1>11. AccountOK'
  BY <1>1, <1>2, <1>3 DEF IInv, AccountOK, Inserting
<1>12. \A u \in Tokens : Accepted(u)' \subseteq Accepted(u)
  BY <1>1, <1>3 DEF Accepted, At
<1>13. SuccessorsOK'
  BY <1>2, <1>4, <1>12 DEF IInv, SuccessorsOK, redis
<1>14. CookieOK'
  BY <1>1, <1>2, <1>3, IdleFields DEF IInv, CookieOK, redis, browser
<1>15. QED
  BY <1>5, <1>6, <1>10, <1>11, <1>13, <1>14 DEF IInv

\* A revoked token passes the check only when Redis fails.
LEMMA AcceptIInv ==
    ASSUME IInv, NEW r \in Requests, NEW next \in Tokens, Accept(r, next)
    PROVE  IInv'
<1> DEFINE t == request[r].token
           q == [request[r] EXCEPT !.step = "accepted", !.next = next]
<1>1. /\ request[r] \in Request /\ RequestOK(request[r])
      /\ request[r].op = "refresh" /\ request[r].step = "sent"
      /\ t \in Tokens /\ expires[t] # 0
  BY DEF Accept, At, IInv, TypeOK, RequestsOK, RequestOK
<1>2. /\ Move(r, q) /\ expires[next] = 0
      /\ \A p \in Requests : request[p].next # next
      /\ Valid(t)
      /\ \/ ~Blacklisted(t) /\ lapsed' = lapsed
         \/ lapsed' = lapsed \cup {t}
      /\ accounts' = accounts /\ UNCHANGED <<tokens, blacklist, fate, overlapped>>
      /\ UNCHANGED <<browser, now>>
  BY DEF Accept, Fresh
<1>3. /\ q \in Request /\ q.op = "refresh" /\ q.step = "accepted"
      /\ q.token = t /\ q.next = next
  BY <1>1 DEF Request, Steps
<1> HIDE DEF q
<1>4. /\ request' \in [Requests -> Request] /\ request'[r] = q
      /\ \A p \in Requests : p # r => request'[p] = request[p]
  BY <1>2, <1>3, MoveFact
<1>5. TypeOK'
  BY <1>1, <1>2, <1>4 DEF IInv, TypeOK, tokens, browser
<1>6. TokensOK'
  BY <1>1, <1>2 DEF IInv, TokensOK, tokens, browser
<1>7. RequestOK(request[r])'
  BY <1>1, <1>2, <1>3, <1>4, TokensAssumption DEF RequestOK, tokens
<1>8. \A p \in Requests : p # r => RequestOK(request[p])'
  BY <1>1, <1>2, <1>3, OthersKept DEF tokens, browser
<1>9. RequestsOK' /\ NextsApart'
  BY <1>2, <1>3, <1>4, <1>7, <1>8 DEF IInv, RequestsOK, NextsApart
<1>10. AccountOK'
  BY <1>2, <1>3, <1>4 DEF IInv, AccountOK, Inserting
<1>11. fate[t] # "open" => t \in lapsed'
  BY <1>1, <1>2 DEF IInv, TypeOK, TokensOK, Valid, Blacklisted
<1>12. \A u \in Tokens : /\ u # t => Accepted(u)' \subseteq Accepted(u)
                         /\ Successors(u)' = Successors(u)
  BY <1>2, <1>3, <1>4 DEF Accepted, At, Successors, tokens
<1>13. SuccessorsOK'
  BY <1>2, <1>11, <1>12 DEF IInv, SuccessorsOK
<1>14. CookieOK'
  BY <1>1, <1>2, <1>3, <1>4 DEF IInv, CookieOK, browser
<1>15. QED
  BY <1>5, <1>6, <1>9, <1>10, <1>13, <1>14 DEF IInv

\* What the two outcomes of setex leave of the tokens.
LEMMA BlacklistFact ==
    ASSUME IInv, NEW r \in Requests, NEW as \in {"exchanged", "loggedOut"},
           request[r].token \in Tokens, expires[request[r].token] # 0,
           Blacklist(r, as)
    PROVE  /\ blacklist' \in [Tokens -> 0 .. MaxTime + Lifetime]
           /\ fate' \in [Tokens -> {"open", "exchanged", "loggedOut"}]
           /\ lapsed' \subseteq Tokens /\ overlapped' \subseteq Tokens
           /\ lapsed \subseteq lapsed' /\ overlapped \subseteq overlapped'
           /\ \A u \in Tokens \ {request[r].token} :
                 fate'[u] = fate[u] /\ blacklist'[u] = blacklist[u]
           /\ \A u \in Tokens :
                 /\ blacklist'[u] # 0 => fate'[u] # "open"
                 /\ u \notin lapsed' /\ fate'[u] # "open" => expires[u] <= blacklist'[u]
           /\ request[r].token \notin lapsed' \cup overlapped' =>
                 /\ fate[request[r].token] = "open" => fate'[request[r].token] = as
                 /\ fate[request[r].token] # "open" =>
                       fate'[request[r].token] = fate[request[r].token]
                 /\ Accepted(request[r].token) \subseteq {r}
<1> DEFINE t == request[r].token
<1>1. CASE /\ blacklist' = [blacklist EXCEPT ![t] = KeyExpiry]
           /\ fate' = [fate EXCEPT ![t] = IF @ = "open" THEN as ELSE @]
           /\ overlapped' = IF Accepted(t) \subseteq {r} THEN overlapped
                            ELSE overlapped \cup {t}
           /\ lapsed' = lapsed
  <2>1. KeyExpiry \in 0 .. MaxTime + Lifetime /\ expires[t] <= KeyExpiry
    BY TimesAssumption DEF KeyExpiry, IInv, TypeOK, TokensOK
  <2>2. QED
    BY <1>1, <2>1 DEF IInv, TypeOK, TokensOK
<1>2. CASE /\ lapsed' = lapsed \cup {t}
           /\ UNCHANGED <<blacklist, fate, overlapped>>
  BY <1>2 DEF IInv, TypeOK, TokensOK
<1>3. QED
  BY <1>1, <1>2 DEF Blacklist

LEMMA ExchangeIInv == ASSUME IInv, NEW r \in Requests, Exchange(r) PROVE IInv'
<1> DEFINE q == [request[r] EXCEPT !.step = "answering"]
<1>0. PICK t \in Tokens, next \in Tokens : t = request[r].token /\ next = request[r].next
  BY DEF Exchange, At, IInv, TypeOK, RequestsOK, RequestOK, Request
<1>1. /\ request[r] \in Request /\ RequestOK(request[r])
      /\ request[r].op = "refresh" /\ request[r].step = "accepted"
      /\ t = request[r].token /\ expires[t] # 0
      /\ next = request[r].next /\ expires[next] = 0 /\ next # NoToken
  BY <1>0, TokensAssumption
     DEF Exchange, At, IInv, TypeOK, RequestsOK, RequestOK, Request
<1>2. /\ Move(r, q) /\ Blacklist(r, "exchanged") /\ Mint(next, t)
      /\ accounts' = accounts /\ UNCHANGED <<browser, now>>
  BY <1>0 DEF Exchange, GoOn
<1>3. /\ q \in Request /\ q.op = "refresh" /\ q.step = "answering"
      /\ q.token = t /\ q.next = next
  BY <1>1 DEF Request, Steps
<1> HIDE DEF q
<1>4. /\ request' \in [Requests -> Request] /\ request'[r] = q
      /\ \A p \in Requests : p # r => request'[p] = request[p]
  BY <1>2, <1>3, MoveFact
<1>5. /\ expires'[next] = now + Lifetime /\ expires'[next] # 0
      /\ \A u \in Tokens : u # next => expires'[u] = expires[u]
      /\ expires' \in [Tokens -> 0 .. MaxTime + Lifetime]
      /\ parent' \in [Tokens -> Tokens \cup {NoToken}]
      /\ fate[next] = "open" /\ blacklist[next] = 0
      /\ \A u \in Tokens : u # t => Successors(u)' \subseteq Successors(u)
      /\ Successors(t)' \subseteq Successors(t) \cup {next}
  BY <1>1, <1>2, MintFact
<1>6. /\ blacklist' \in [Tokens -> 0 .. MaxTime + Lifetime]
      /\ fate' \in [Tokens -> {"open", "exchanged", "loggedOut"}]
      /\ lapsed' \subseteq Tokens /\ overlapped' \subseteq Tokens
      /\ lapsed \subseteq lapsed' /\ overlapped \subseteq overlapped'
      /\ \A u \in Tokens \ {t} : fate'[u] = fate[u] /\ blacklist'[u] = blacklist[u]
      /\ \A u \in Tokens :
            /\ blacklist'[u] # 0 => fate'[u] # "open"
            /\ u \notin lapsed' /\ fate'[u] # "open" => expires[u] <= blacklist'[u]
      /\ t \notin lapsed' \cup overlapped' =>
            /\ fate[t] = "open" => fate'[t] = "exchanged"
            /\ fate[t] # "open" => fate'[t] = fate[t]
            /\ Accepted(t) \subseteq {r}
  BY <1>1, <1>2, BlacklistFact
<1>7. TypeOK'
  BY <1>2, <1>4, <1>5, <1>6 DEF IInv, TypeOK, browser
<1>8. TokensOK'
  <2>1. now + Lifetime \in Nat /\ next # t /\ cookie' = cookie /\ now' = now
    BY <1>1, <1>2, TimesAssumption DEF IInv, TypeOK, browser
  <2>2. fate'[next] = "open"
    BY <1>1, <1>5, <1>6, <2>1
  <2>3. \A u \in Tokens : u # next =>
           expires'[u] = expires[u] /\ expires[u] <= now + Lifetime
    BY <1>5 DEF IInv, TokensOK
  <2>4. \A u \in Tokens : fate'[u] # "open" => expires'[u] # 0
    BY <1>1, <1>5, <1>6 DEF IInv, TokensOK
  <2>5. cookie # NoToken => expires'[cookie] # 0
    BY <1>5 DEF IInv, TokensOK, TypeOK
  <2>6. \A u \in Tokens : expires'[u] <= now + Lifetime
    BY <1>5, <2>1, <2>3
  <2>7. \A u \in Tokens \ lapsed' : fate'[u] # "open" => expires'[u] <= blacklist'[u]
    BY <1>6, <2>2, <2>3
  <2>8. QED
    BY <1>6, <2>1, <2>4, <2>5, <2>6, <2>7 DEF TokensOK
<1>9. OnItsWay(next)'
  <2>1. cookie # next /\ \A p \in Requests : request[p].token # next
    BY <1>1, TokensAssumption DEF IInv, TokensOK, RequestsOK, RequestOK
  <2>2. QED
    BY <1>1, <1>2, <1>3, <1>4, <1>5, <1>6, <2>1 DEF OnItsWay, browser
<1>10. RequestOK(request[r])'
  BY <1>1, <1>3, <1>4, <1>5, <1>9 DEF RequestOK
<1>11. \A p \in Requests : p # r => RequestOK(request[p])'
  <2>1. \A p \in Requests : p # r => request[p].next # next
    BY <1>1 DEF IInv, NextsApart
  <2>2. /\ \A u \in Tokens : expires'[u] # expires[u] => u = next /\ expires'[u] # 0
        /\ \A u \in Tokens : fate'[u] # fate[u] => u = t
        /\ cookie' = cookie
    BY <1>2, <1>5, <1>6 DEF browser
  <2>3. QED
    BY <1>1, <1>2, <1>3, <2>1, <2>2, OthersKept
<1>12. RequestsOK' /\ NextsApart'
  BY <1>1, <1>3, <1>4, <1>10, <1>11 DEF IInv, RequestsOK, NextsApart
<1>13. AccountOK'
  BY <1>1, <1>2, <1>3, <1>4 DEF IInv, AccountOK, Inserting
<1>14. \A u \in Tokens : Accepted(u)' \subseteq Accepted(u) \ {r}
  BY <1>3, <1>4 DEF Accepted, At
<1>15. r \in Accepted(t)
  BY <1>1 DEF Accepted, At
<1>16. SuccessorsOK'
  <2> SUFFICES ASSUME NEW u \in Tokens, u \notin lapsed', u \notin overlapped'
               PROVE  /\ fate'[u] # "exchanged" => Successors(u)' = {}
                      /\ \A v, w \in Successors(u)' : v = w
                      /\ fate'[u] # "open" => Accepted(u)' = {}
    BY DEF SuccessorsOK
  <2>1. u \notin lapsed /\ u \notin overlapped
    BY <1>6
  <2>2. CASE u # t
    BY <1>5, <1>6, <1>14, <2>1, <2>2 DEF IInv, SuccessorsOK
  <2>3. CASE u = t
    <3>1. fate[t] = "open" /\ Successors(t) = {}
      BY <1>15, <2>1, <2>3 DEF IInv, SuccessorsOK
    <3>2. fate'[t] = "exchanged" /\ Accepted(t) \subseteq {r}
      BY <1>6, <2>3, <3>1
    <3>3. QED
      BY <1>5, <1>14, <2>3, <3>1, <3>2
  <2>4. QED
    BY <2>2, <2>3
<1>17. CookieOK'
  BY <1>1, <1>2, <1>3, <1>4, <1>6 DEF IInv, CookieOK, TypeOK, browser
<1>18. QED
  BY <1>7, <1>8, <1>12, <1>13, <1>16, <1>17 DEF IInv

LEMMA LogoutIInv == ASSUME IInv, NEW r \in Requests, Logout(r) PROVE IInv'
<1> DEFINE q == [request[r] EXCEPT !.step = "answering"]
<1>0. PICK t \in Tokens : t = request[r].token
  BY DEF Logout, At, IInv, RequestsOK, RequestOK
<1>1. /\ request[r] \in Request /\ RequestOK(request[r])
      /\ request[r].op = "logout" /\ request[r].step = "sent"
      /\ t = request[r].token /\ expires[t] # 0 /\ request[r].next = NoToken
  BY <1>0 DEF Logout, At, IInv, TypeOK, RequestsOK, RequestOK
<1>2. /\ Move(r, q)
      /\ Blacklist(r, "loggedOut") \/ UNCHANGED redis
      /\ accounts' = accounts /\ UNCHANGED <<tokens, browser, now>>
  BY DEF Logout, GoOn
<1>3. /\ q \in Request /\ q.op = "logout" /\ q.step = "answering"
      /\ q.token = t /\ q.next = NoToken
  BY <1>1 DEF Request, Steps
<1> HIDE DEF q
<1>4. /\ request' \in [Requests -> Request] /\ request'[r] = q
      /\ \A p \in Requests : p # r => request'[p] = request[p]
  BY <1>2, <1>3, MoveFact
<1>6. /\ blacklist' \in [Tokens -> 0 .. MaxTime + Lifetime]
      /\ fate' \in [Tokens -> {"open", "exchanged", "loggedOut"}]
      /\ lapsed' \subseteq Tokens /\ overlapped' \subseteq Tokens
      /\ lapsed \subseteq lapsed' /\ overlapped \subseteq overlapped'
      /\ \A u \in Tokens \ {t} : fate'[u] = fate[u] /\ blacklist'[u] = blacklist[u]
      /\ \A u \in Tokens :
            /\ blacklist'[u] # 0 => fate'[u] # "open"
            /\ u \notin lapsed' /\ fate'[u] # "open" => expires[u] <= blacklist'[u]
      /\ t \notin lapsed' \cup overlapped' =>
            \/ fate'[t] = fate[t]
            \/ fate[t] = "open" /\ fate'[t] = "loggedOut" /\ Accepted(t) \subseteq {r}
  <2>1. CASE UNCHANGED redis
    BY <2>1 DEF redis, IInv, TypeOK, TokensOK
  <2>2. CASE Blacklist(r, "loggedOut")
    BY <1>1, <2>2, BlacklistFact
  <2>3. QED
    BY <1>2, <2>1, <2>2
<1>7. TypeOK'
  BY <1>2, <1>4, <1>6 DEF IInv, TypeOK, browser, tokens
<1>8. TokensOK'
  <2>1. \A u \in Tokens : fate'[u] # "open" => expires[u] # 0
    BY <1>1, <1>6 DEF IInv, TokensOK
  <2>2. QED
    BY <1>2, <1>6, <2>1 DEF IInv, TokensOK, tokens, browser
<1>9. RequestOK(request[r])'
  BY <1>1, <1>2, <1>3, <1>4 DEF RequestOK, tokens
<1>10. \A p \in Requests : p # r => RequestOK(request[p])'
  <2> SUFFICES ASSUME NEW p \in Requests, p # r PROVE RequestOK(request[p])'
    OBVIOUS
  <2>1. RequestOK(request[p]) /\ request'[p] = request[p] /\ request[p] \in Request
    BY <1>4 DEF IInv, TypeOK, RequestsOK
  <2>2. request[p].next \in Tokens /\ OnItsWay(request[p].next) => OnItsWay(request[p].next)'
    BY <1>1, <1>2, <1>3, <1>4, <1>6, <2>1 DEF OnItsWay, tokens, browser
  <2>3. QED
    BY <1>2, <2>1, <2>2 DEF RequestOK, Request, tokens
<1>11. RequestsOK' /\ NextsApart'
  BY <1>3, <1>4, <1>9, <1>10 DEF IInv, RequestsOK, NextsApart
<1>12. AccountOK'
  BY <1>1, <1>2, <1>3, <1>4 DEF IInv, AccountOK, Inserting
<1>13. r \notin Accepted(t)
  BY <1>1 DEF Accepted, At
<1>14. \A u \in Tokens : Accepted(u)' \subseteq Accepted(u) /\ Successors(u)' = Successors(u)
  BY <1>2, <1>3, <1>4 DEF Accepted, At, Successors, tokens
<1>15. SuccessorsOK'
  <2> SUFFICES ASSUME NEW u \in Tokens, u \notin lapsed', u \notin overlapped'
               PROVE  /\ fate'[u] # "exchanged" => Successors(u)' = {}
                      /\ \A v, w \in Successors(u)' : v = w
                      /\ fate'[u] # "open" => Accepted(u)' = {}
    BY DEF SuccessorsOK
  <2>1. u \notin lapsed /\ u \notin overlapped
    BY <1>6
  <2>2. \/ fate'[u] = fate[u]
        \/ fate[u] = "open" /\ fate'[u] = "loggedOut" /\ Accepted(u) = {}
    BY <1>6, <1>13
  <2>3. QED
    BY <1>14, <2>1, <2>2 DEF IInv, SuccessorsOK
<1>16. CookieOK'
  BY <1>1, <1>2, <1>3, <1>4, <1>6 DEF IInv, CookieOK, TypeOK, browser
<1>17. QED
  BY <1>7, <1>8, <1>11, <1>12, <1>15, <1>16 DEF IInv

\* The browser's new token is one that nobody has presented.
LEMMA AnswerIInv == ASSUME IInv, NEW r \in Requests, Answer(r) PROVE IInv'
<1>1. /\ request[r] \in Request /\ RequestOK(request[r])
      /\ request[r].step = "answering" /\ Move(r, Idle)
      /\ cookie' = request[r].next /\ lost' = lost
      /\ UNCHANGED <<accounts, tokens, redis, now>>
  BY DEF Answer, NewCookie, IInv, TypeOK, RequestsOK
<1>2. /\ request' \in [Requests -> Request] /\ request'[r] = Idle
      /\ \A p \in Requests : p # r => request'[p] = request[p]
  BY <1>1, MoveFact, IdleFields
<1>3. /\ request[r].next \in Tokens \cup {NoToken}
      /\ request[r].next # NoToken => OnItsWay(request[r].next)
  BY <1>1 DEF Request, RequestOK
<1>4. TypeOK' /\ TokensOK'
  BY <1>1, <1>2, <1>3 DEF IInv, TypeOK, TokensOK, OnItsWay, tokens, redis
<1>5. \A p \in Requests : RequestOK(request[p])'
  <2>1. RequestOK(request[r])'
    BY <1>2, IdleFields DEF RequestOK
  <2>2. ASSUME NEW p \in Requests, p # r PROVE RequestOK(request[p])'
    <3>1. RequestOK(request[p]) /\ request'[p] = request[p] /\ request[p] \in Request
      BY <1>2, <2>2 DEF IInv, TypeOK, RequestsOK
    <3>2. request[p].next # NoToken => request[p].next # request[r].next
      BY <2>2 DEF IInv, NextsApart
    <3>3. request[p].next # NoToken /\ OnItsWay(request[p].next)
             => OnItsWay(request[p].next)'
      BY <1>1, <1>2, <3>1, <3>2, IdleFields DEF OnItsWay, tokens, redis
    <3>4. QED
      BY <1>1, <3>1, <3>3 DEF RequestOK, tokens
  <2>3. QED
    BY <2>1, <2>2
<1>6. NextsApart' /\ AccountOK'
  BY <1>1, <1>2, IdleFields DEF IInv, NextsApart, AccountOK, Inserting
<1>7. \A u \in Tokens : Accepted(u)' \subseteq Accepted(u) /\ Successors(u)' = Successors(u)
  BY <1>1, <1>2, IdleFields DEF Accepted, At, Successors, tokens
<1>8. SuccessorsOK'
  BY <1>1, <1>7 DEF IInv, SuccessorsOK, redis
<1>9. CookieOK'
  BY <1>1, <1>3 DEF CookieOK, OnItsWay, redis
<1>10. QED
  BY <1>4, <1>5, <1>6, <1>8, <1>9 DEF IInv, RequestsOK

LEMMA TickIInv == ASSUME IInv, Tick PROVE IInv'
<1>1. /\ now' = now + 1 /\ now < MaxTime
      /\ UNCHANGED <<accounts, expires, parent, blacklist, fate, lapsed,
                     overlapped, cookie, lost, request>>
  BY DEF Tick, tokens, redis, browser
<1>2. TypeOK'
  BY <1>1, TimesAssumption DEF IInv, TypeOK
<1>3. TokensOK'
  BY <1>1, TimesAssumption DEF IInv, TypeOK, TokensOK
<1>4. RequestsOK' /\ NextsApart' /\ AccountOK'
  BY <1>1 DEF IInv, RequestsOK, RequestOK, OnItsWay, NextsApart, AccountOK, Inserting
<1>5. SuccessorsOK' /\ CookieOK'
  BY <1>1 DEF IInv, SuccessorsOK, Successors, Accepted, At, CookieOK
<1>6. QED
  BY <1>2, <1>3, <1>4, <1>5 DEF IInv

\* Every step.
LEMMA NextIInv == IInv /\ [Next]_vars => IInv'
<1> SUFFICES ASSUME IInv, [Next]_vars PROVE IInv'
  OBVIOUS
<1>1. CASE UNCHANGED vars
  <2>1. UNCHANGED <<accounts, expires, parent, blacklist, fate, lapsed,
                    overlapped, cookie, lost, request, now>>
    BY <1>1 DEF vars, tokens, redis, browser
  <2>2. TypeOK' /\ TokensOK'
    BY <2>1 DEF IInv, TypeOK, TokensOK
  <2>3. RequestsOK' /\ NextsApart' /\ AccountOK'
    BY <2>1 DEF IInv, RequestsOK, RequestOK, OnItsWay, NextsApart, AccountOK, Inserting
  <2>4. SuccessorsOK' /\ CookieOK'
    BY <2>1 DEF IInv, SuccessorsOK, Successors, Accepted, At, CookieOK
  <2>5. QED
    BY <2>2, <2>3, <2>4 DEF IInv
<1>2. QED
  BY <1>1, SendIInv, FailIInv, CheckEmailIInv, InsertUserIInv, CommitRegisterIInv,
     AnswerRegisterIInv, LoginIInv, AcceptIInv, RefuseIInv, ExchangeIInv,
     LogoutIInv, AnswerIInv, TickIInv DEF Next

-----------------------------------------------------------------------------

\* Whatever requests, failures of Redis and lost answers there are, IInv holds.
THEOREM Invariance == Spec => []IInv
BY InitIInv, NextIInv, PTL DEF Spec

\* Every variable keeps its type.
THEOREM TypeCorrect == Spec => []TypeOK
<1>1. IInv => TypeOK
  BY DEF IInv
<1>2. QED
  BY <1>1, Invariance, PTL

\* Registrations that overlap leave at most one account of one email.
THEOREM AtMostOneAccountProved == Spec => []AtMostOneAccount
<1>1. IInv => AtMostOneAccount
  BY DEF IInv, AccountOK, AtMostOneAccount
<1>2. QED
  BY <1>1, Invariance, PTL

\* A blacklisted token stays refused until it expires, unless Redis failed.
THEOREM RevokedStaysRevokedProved == Spec => []RevokedStaysRevoked
<1>1. IInv => RevokedStaysRevoked
  BY DEF IInv, TypeOK, TokensOK, RevokedStaysRevoked, Valid, Blacklisted
<1>2. QED
  BY <1>1, Invariance, PTL

\* A token has one successor, and none when it was logged out.
THEOREM OneSuccessorProved == Spec => []OneSuccessorUnlessOverlap
<1>1. ASSUME IInv, NEW t \in Tokens \ (lapsed \cup overlapped)
      PROVE  Cardinality(Successors(t)) <= IF fate[t] = "exchanged" THEN 1 ELSE 0
  <2>1. CASE Successors(t) = {}
    BY <2>1, FS_EmptySet
  <2>2. ASSUME NEW u \in Successors(t) PROVE Cardinality(Successors(t)) = 1
    <3>1. Successors(t) = {u}
      BY <1>1, <2>2 DEF IInv, SuccessorsOK
    <3>2. QED
      BY <3>1, FS_Singleton
  <2>3. Successors(t) # {} => fate[t] = "exchanged"
    BY <1>1 DEF IInv, SuccessorsOK
  <2>4. QED
    BY <2>1, <2>2, <2>3
<1>2. IInv => OneSuccessorUnlessOverlap
  BY <1>1 DEF OneSuccessorUnlessOverlap
<1>3. QED
  BY <1>2, Invariance, PTL

\* If every answer arrived, the browser never ends up with a revoked token.
THEOREM CookieWorksProved == Spec => []CookieWorks
<1>1. IInv => CookieWorks
  BY IdleFields
     DEF IInv, TypeOK, TokensOK, CookieOK, CookieWorks, Valid, Blacklisted
<1>2. QED
  BY <1>1, Invariance, PTL

\* A token that was exchanged or logged out gets no further refresh past the
\* check, unless Redis failed: the check finds the key, whose life is at least
\* the token's.
THEOREM RevokedIsRejectedProved == Spec => RevokedIsRejected
<1>1. ASSUME IInv, [Next]_vars, NEW t \in Tokens, fate[t] # "open", t \notin lapsed',
             NEW r \in Requests, r \in Accepted(t)', r \notin Accepted(t)
      PROVE  FALSE
  <2>1. \A q \in Requests, a \in Request : Move(q, a) =>
           /\ request'[q] = a
           /\ \A p \in Requests : p # q => request'[p] = request[p]
    BY <1>1, MoveFact
  <2>2. ASSUME NEW q \in Requests, NEW a \in Request, Move(q, a), a.step # "accepted"
        PROVE  FALSE
    BY <1>1, <2>1, <2>2 DEF Accepted, At
  <2>3. \A q \in Requests : request[q] \in Request /\ Idle \in Request
    BY <1>1, IdleFields DEF IInv, TypeOK
  <2>4. ASSUME NEW q \in Requests, NEW next \in Tokens, Accept(q, next)
        PROVE  FALSE
    <3> DEFINE a == [request[q] EXCEPT !.step = "accepted", !.next = next]
    <3>1. /\ Valid(request[q].token)
          /\ \/ ~Blacklisted(request[q].token) /\ lapsed' = lapsed
             \/ lapsed' = lapsed \cup {request[q].token}
          /\ Move(q, a)
      BY <2>4 DEF Accept
    <3>2. a \in Request /\ a.token = request[q].token
      BY <2>3 DEF Request, Steps
    <3> HIDE DEF a
    <3>3. request'[q] = a /\ \A p \in Requests : p # q => request'[p] = request[p]
      BY <2>1, <3>1, <3>2
    <3>4. q = r /\ request[q].token = t
      BY <1>1, <3>2, <3>3 DEF Accepted, At
    <3>5. Valid(t) /\ ~Blacklisted(t) /\ t \notin lapsed
      BY <1>1, <3>1, <3>4
    <3>6. QED
      BY <1>1, <3>5 DEF IInv, TypeOK, TokensOK, Valid, Blacklisted
  <2>5. request' # request
    BY <1>1 DEF Accepted, At
  <2>6. ASSUME NEW q \in Requests, NEW step \in Steps, step # "accepted", GoOn(q, step)
        PROVE  FALSE
    BY <2>2, <2>3, <2>6 DEF GoOn, Request
  <2>7. QED
    <3>1. ASSUME NEW q \in Requests,
                 \/ \E op \in {"refresh", "logout"} : Send(q, op)
                 \/ Fail(q) \/ CheckEmail(q) \/ Refuse(q) \/ CommitRegister(q)
                 \/ \E u \in Tokens : Login(q, u)
                 \/ Answer(q)
          PROVE  FALSE
      <4>1. CASE \E op \in {"refresh", "logout"} : Send(q, op)
        <5>1. PICK op \in {"refresh", "logout"} : Send(q, op)
          BY <4>1
        <5>2. /\ [Idle EXCEPT !.op = op, !.step = "sent", !.token = cookie] \in Request
              /\ Move(q, [Idle EXCEPT !.op = op, !.step = "sent", !.token = cookie])
          BY <1>1, <2>3, <5>1 DEF Send, IInv, TypeOK, Request, Ops, Steps
        <5>3. QED
          BY <2>2, <2>3, <5>2 DEF Request
      <4>2. CASE CheckEmail(q)
        <5>1. /\ [Idle EXCEPT !.op = "register", !.step = "checked"] \in Request
              /\ Move(q, [Idle EXCEPT !.op = "register", !.step = "checked"])
          BY <2>3, <4>2 DEF CheckEmail, Request, Ops, Steps
        <5>2. QED
          BY <2>2, <2>3, <5>1 DEF Request
      <4>3. CASE \E u \in Tokens : Login(q, u)
        <5>1. PICK u \in Tokens : Login(q, u)
          BY <4>3
        <5> DEFINE a == [Idle EXCEPT !.op = "login", !.step = "answering", !.next = u]
        <5>2. a \in Request /\ a.step = "answering" /\ Move(q, a)
          BY <2>3, <5>1 DEF Login, Request, Ops, Steps
        <5>3. QED
          BY <2>2, <5>2
      <4>4. CASE Fail(q) \/ Refuse(q) \/ CommitRegister(q) \/ Answer(q)
        BY <2>2, <4>4, IdleFields DEF Fail, Refuse, CommitRegister, Answer
      <4>5. QED
        BY <3>1, <4>1, <4>2, <4>3, <4>4
    <3>2. ASSUME NEW q \in Requests,
                 \/ InsertUser(q) \/ Exchange(q) \/ Logout(q)
                 \/ \E u \in Tokens : AnswerRegister(q, u)
          PROVE  FALSE
      BY <2>2, <2>3, <2>6, <3>2, IdleFields
         DEF InsertUser, Exchange, Logout, AnswerRegister, Steps
    <3>3. Tick => FALSE
      BY <2>5 DEF Tick
    <3>4. UNCHANGED vars => FALSE
      BY <2>5 DEF vars
    <3>5. QED
      BY <1>1, <2>4, <3>1, <3>2, <3>3, <3>4 DEF Next
<1>2. IInv /\ [Next]_vars => [\A t \in Tokens : fate[t] # "open" /\ t \notin lapsed'
                                => Accepted(t)' \subseteq Accepted(t)]_vars
  BY <1>1 DEF Accepted
<1>3. QED
  BY <1>2, Invariance, PTL DEF Spec, RevokedIsRejected

-----------------------------------------------------------------------------

\* No two requests present one token at the same time: the browser waits for
\* one answer before it sends the next request.
PresentedOnce ==
    \A q, r \in Requests :
        q # r /\ request[q].token = request[r].token => request[q].token = NoToken

\* A token is exchanged for one successor, and for none after its logout.
RotationHolds ==
    \A t \in Tokens \ lapsed :
        Cardinality(Successors(t)) <= IF fate[t] = "exchanged" THEN 1 ELSE 0

NotOverlapped == overlapped = {}

\* A refresh of which there is no other is the only one that it overlaps.
LEMMA NextNotOverlapped ==
    IInv /\ PresentedOnce /\ NotOverlapped /\ [Next]_vars => NotOverlapped'
<1> SUFFICES ASSUME IInv, PresentedOnce, overlapped = {}, [Next]_vars
             PROVE  overlapped' = {}
  BY DEF NotOverlapped
<1>1. ASSUME NEW r \in Requests, NEW as, Blacklist(r, as), request[r].token \in Tokens
      PROVE  overlapped' = {}
  <2>1. Accepted(request[r].token) \subseteq {r}
    BY <1>1, TokensAssumption DEF PresentedOnce, Accepted
  <2>2. QED
    BY <1>1, <2>1 DEF Blacklist
<1>2. ASSUME NEW r \in Requests, Exchange(r) \/ Logout(r) PROVE overlapped' = {}
  <2>1. request[r].token \in Tokens
    BY <1>2 DEF Exchange, Logout, At, IInv, RequestsOK, RequestOK
  <2>2. QED
    BY <1>1, <1>2, <2>1 DEF Exchange, Logout, redis
<1>3. QED
  BY <1>2 DEF Next, vars, redis, Send, Fail, CheckEmail, InsertUser, CommitRegister,
     AnswerRegister, Login, Accept, Refuse, Answer, Tick

\* What the comment in refresh_token() promises (service.py:222-224) is true
\* for clients that present a token once at a time: no token has two
\* successors, and none has one after its logout, unless Redis failed.
THEOREM RotationAlone == Spec /\ []PresentedOnce => []RotationHolds
<1>1. Init => NotOverlapped
  BY DEF Init, NotOverlapped
<1>2. Spec /\ []PresentedOnce => []NotOverlapped
  BY <1>1, NextNotOverlapped, Invariance, PTL DEF Spec
<1>3. NotOverlapped /\ OneSuccessorUnlessOverlap => RotationHolds
  BY DEF NotOverlapped, OneSuccessorUnlessOverlap, RotationHolds
<1>4. QED
  BY <1>2, <1>3, OneSuccessorProved, PTL
=============================================================================
