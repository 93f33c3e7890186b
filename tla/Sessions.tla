------------------------------ MODULE Sessions ------------------------------
(***************************************************************************)
(* One user's account and login sessions: app/domains/auth/{service,       *)
(* repository,router}.py, the tokens of app/core/security.py and the       *)
(* blacklist that app/core/redis_client.py keeps in Redis.                 *)
(*                                                                         *)
(* A session is a chain of refresh tokens, kept in the browser's cookie.   *)
(* Each refresh checks the token against the blacklist, blacklists it and  *)
(* mints the next one; logout blacklists it too.  The check and the        *)
(* blacklisting are two Redis calls with a database read between them, so  *)
(* requests that present one token overlap.  Redis may fail at either      *)
(* call, which the handlers ignore.                                        *)
(*                                                                         *)
(* Tokens are JWTs: nothing is stored when one is minted.  Access tokens   *)
(* live 30 minutes of a refresh token's 7 days and are never revoked; the  *)
(* one that logout asks for is left out, as are suspended users: no code   *)
(* sets is_suspended.                                                      *)
(***************************************************************************)
EXTENDS Naturals, FiniteSets

CONSTANTS
    Requests,   \* the user's requests that may be in flight together
    Tokens,     \* jti claims of refresh tokens
    Lifetime,   \* REFRESH_TOKEN_EXPIRE_DAYS
    MaxTime,    \* bound on the clock
    NoToken

ASSUME TokensAssumption == NoToken \notin Tokens
ASSUME TimesAssumption == Lifetime \in Nat \ {0} /\ MaxTime \in Nat
ASSUME RequestsAssumption == IsFiniteSet(Requests)

VARIABLES
    accounts,   \* committed users rows with the user's email address
    expires,    \* the exp claim; 0 before the token is minted
    parent,     \* the token that each token was exchanged for
    blacklist,  \* when Redis drops the token's key; it is there before that
    cookie,     \* refresh_token in the user's browser
    request,    \* each request and its locals
    now,
    fate,       \* history: what the first blacklisting of a token was for
    lapsed,     \* history: tokens for which Redis failed
    overlapped, \* history: tokens blacklisted under an accepted refresh
    lost        \* history: an answer did not reach the browser

tokens  == <<expires, parent>>
redis   == <<blacklist, fate, lapsed, overlapped>>
browser == <<cookie, lost>>
vars    == <<accounts, tokens, redis, browser, request, now>>

Ops   == {"none", "register", "login", "refresh", "logout"}
Steps == {"idle", "sent", "checked", "inserted", "accepted", "answering",
          "committing"}

\* `token` is the cookie that the browser sent, `next` the token to be minted.
Request == [op : Ops, step : Steps, token : Tokens \cup {NoToken},
            next : Tokens \cup {NoToken}]

Idle == [op |-> "none", step |-> "idle", token |-> NoToken, next |-> NoToken]

TypeOK ==
    /\ accounts \in Nat
    /\ expires \in [Tokens -> 0 .. MaxTime + Lifetime]
    /\ parent \in [Tokens -> Tokens \cup {NoToken}]
    /\ blacklist \in [Tokens -> 0 .. MaxTime + Lifetime]
    /\ cookie \in Tokens \cup {NoToken}
    /\ request \in [Requests -> Request]
    /\ now \in 0 .. MaxTime
    /\ fate \in [Tokens -> {"open", "exchanged", "loggedOut"}]
    /\ lapsed \subseteq Tokens
    /\ overlapped \subseteq Tokens
    /\ lost \in BOOLEAN

Init ==
    /\ accounts = 0
    /\ expires = [t \in Tokens |-> 0]
    /\ parent = [t \in Tokens |-> NoToken]
    /\ blacklist = [t \in Tokens |-> 0]
    /\ cookie = NoToken
    /\ request = [r \in Requests |-> Idle]
    /\ now = 0
    /\ fate = [t \in Tokens |-> "open"]
    /\ lapsed = {}
    /\ overlapped = {}
    /\ lost = FALSE

(***************************************************************************)
(* Requests.                                                               *)
(***************************************************************************)

At(r, op, step) == request[r].op = op /\ request[r].step = step

Move(r, locals) == request' = [request EXCEPT ![r] = locals]

GoOn(r, step) == Move(r, [request[r] EXCEPT !.step = step])

\* The browser sends its cookie; it arrives, and is read, later.
Send(r, op) ==
    /\ request[r] = Idle
    /\ cookie # NoToken
    /\ Move(r, [Idle EXCEPT !.op = op, !.step = "sent", !.token = cookie])
    /\ UNCHANGED <<accounts, tokens, redis, browser, now>>

\* The request fails, its worker dies, or its answer gets lost.
Fail(r) ==
    /\ request[r] # Idle
    /\ Move(r, Idle)
    /\ lost' = (lost \/ request[r].step = "answering")
    /\ UNCHANGED <<accounts, tokens, redis, cookie, now>>

(***************************************************************************)
(* Tokens.                                                                 *)
(***************************************************************************)

\* The new token's uuid4 jti is nobody else's.
Fresh(t) == expires[t] = 0 /\ \A r \in Requests : request[r].next # t

\* create_refresh_token
Mint(t, from) ==
    /\ expires' = [expires EXCEPT ![t] = now + Lifetime]
    /\ parent' = [parent EXCEPT ![t] = from]

\* decode_token, of a token that this server signed.
Valid(t) == now < expires[t]

\* A token of the chain whose blacklist key is not looked for.
NotLookedUp(t) == FALSE

Blacklisted(t) == now < blacklist[t]

\* A key that lives as long as an access token, less than a day.
ShortTTL == now

\* PSETEX's milliseconds mistaken for seconds.
InMilliseconds == now + 1000 * Lifetime

\* setex with REFRESH_TOKEN_EXPIRE_DAYS.
KeyExpiry == now + Lifetime

\* The refreshes of the token that have passed their check.
Accepted(t) == {r \in Requests : At(r, "refresh", "accepted") /\ request[r].token = t}

\* setex, which may fail.
Blacklist(r, as) ==
    LET t == request[r].token IN
    \/ /\ blacklist' = [blacklist EXCEPT ![t] = KeyExpiry]
       /\ fate' = [fate EXCEPT ![t] = IF @ = "open" THEN as ELSE @]
       /\ overlapped' = IF Accepted(t) \subseteq {r} THEN overlapped
                        ELSE overlapped \cup {t}
       /\ UNCHANGED lapsed
    \/ /\ lapsed' = lapsed \cup {t}
       /\ UNCHANGED <<blacklist, fate, overlapped>>

(***************************************************************************)
(* register: the users row, its settings and its five consents are one     *)
(* transaction.                                                            *)
(***************************************************************************)

\* email_exists, an unlocked SELECT.
CheckEmail(r) ==
    /\ request[r] = Idle
    /\ accounts = 0
    /\ Move(r, [Idle EXCEPT !.op = "register", !.step = "checked"])
    /\ UNCHANGED <<accounts, tokens, redis, browser, now>>

\* The email column without its unique index.
NobodyInserting == TRUE

\* The index makes an INSERT wait for another of the same email to end.
NoneInserting ==
    \A q \in Requests : request[q].step \notin {"inserted", "committing"}

\* create_user: IntegrityError when there is an account by now.
InsertUser(r) ==
    /\ At(r, "register", "checked")
    /\ NoneInserting
    /\ IF accounts = 0 THEN GoOn(r, "inserted") ELSE Move(r, Idle)
    /\ UNCHANGED <<accounts, tokens, redis, browser, now>>

\* The tokens are minted and the answer sent before get_db() commits.
AnswerRegister(r, t) ==
    /\ At(r, "register", "inserted")
    /\ Fresh(t)
    /\ Mint(t, NoToken)
    /\ GoOn(r, "committing")
    /\ \/ cookie' = t /\ UNCHANGED lost
       \/ lost' = TRUE /\ UNCHANGED cookie
    /\ UNCHANGED <<accounts, redis, now>>

CommitRegister(r) ==
    /\ At(r, "register", "committing")
    /\ accounts' = accounts + 1
    /\ Move(r, Idle)
    /\ UNCHANGED <<tokens, redis, browser, now>>

(***************************************************************************)
(* login, refresh, logout                                                  *)
(***************************************************************************)

Login(r, t) ==
    /\ request[r] = Idle
    /\ accounts = 1
    /\ Fresh(t)
    /\ Mint(t, NoToken)
    /\ Move(r, [Idle EXCEPT !.op = "login", !.step = "answering", !.next = t])
    /\ UNCHANGED <<accounts, redis, browser, now>>

\* Expired, blacklisted, or the user is not there; the cookie stays.
Refuse(r) ==
    LET t == request[r].token IN
    /\ At(r, "refresh", "sent")
    /\ ~Valid(t) \/ Blacklisted(t) \/ accounts = 0
    /\ Move(r, Idle)
    /\ UNCHANGED <<accounts, tokens, redis, browser, now>>

\* When Redis fails, a blacklisted token passes like any other.
Accept(r, next) ==
    LET t == request[r].token IN
    /\ At(r, "refresh", "sent")
    /\ Valid(t) /\ accounts > 0
    /\ Fresh(next)
    /\ \/ ~Blacklisted(t) /\ UNCHANGED lapsed
       \/ Blacklisted(t) /\ lapsed' = lapsed \cup {t}
    /\ Move(r, [request[r] EXCEPT !.step = "accepted", !.next = next])
    /\ UNCHANGED <<accounts, tokens, blacklist, fate, overlapped, browser, now>>

\* The token is blacklisted, and its successor minted.
Exchange(r) ==
    /\ At(r, "refresh", "accepted")
    /\ Blacklist(r, "exchanged")
    /\ Mint(request[r].next, request[r].token)
    /\ GoOn(r, "answering")
    /\ UNCHANGED <<accounts, browser, now>>

\* An expired token is not blacklisted; logout succeeds all the same.
Logout(r) ==
    /\ At(r, "logout", "sent")
    /\ IF Valid(request[r].token) THEN Blacklist(r, "loggedOut")
       ELSE UNCHANGED redis
    /\ GoOn(r, "answering")
    /\ UNCHANGED <<accounts, tokens, browser, now>>

\* The answer sets the cookie to the token it was asked with.
OldCookie(r) == request[r].token

\* _set_refresh_cookie, or _clear_refresh_cookie: logout mints no token.
NewCookie(r) == request[r].next

Answer(r) ==
    /\ request[r].step = "answering"
    /\ cookie' = NewCookie(r)
    /\ Move(r, Idle)
    /\ UNCHANGED <<accounts, tokens, redis, lost, now>>

(***************************************************************************)
(* The system.                                                             *)
(***************************************************************************)

Tick ==
    /\ now < MaxTime
    /\ now' = now + 1
    /\ UNCHANGED <<accounts, tokens, redis, browser, request>>

Next ==
    \/ \E r \in Requests :
          \/ \E op \in {"refresh", "logout"} : Send(r, op)
          \/ Fail(r)
          \/ CheckEmail(r) \/ InsertUser(r) \/ CommitRegister(r)
          \/ \E t \in Tokens : AnswerRegister(r, t) \/ Login(r, t) \/ Accept(r, t)
          \/ Refuse(r) \/ Exchange(r) \/ Logout(r) \/ Answer(r)
    \/ Tick

Spec == Init /\ [][Next]_vars

-----------------------------------------------------------------------------
(***************************************************************************)
(* Properties.                                                             *)
(***************************************************************************)

\* Registrations that pass the email check together leave one account: the
\* INSERT of the second waits for the first, and fails.
AtMostOneAccount == accounts <= 1

\* A token that was exchanged or logged out is refused for the rest of its
\* life, whenever it was blacklisted: the key never expires before the token.
\* Only a failure of Redis can bring a token back.
RevokedStaysRevoked ==
    \A t \in Tokens \ lapsed : fate[t] # "open" /\ Valid(t) => Blacklisted(t)

\* "it will be found in the blacklist and rejected" (service.py:224): once a
\* token was exchanged or logged out, no request that presents it gets past the
\* check any more, whichever of them blacklisted it and however long ago;
\* those that were past it by then may go on.
RevokedIsRejected ==
    [][\A t \in Tokens : fate[t] # "open" /\ t \notin lapsed'
          => Accepted(t)' \subseteq Accepted(t)]_vars

Successors(t) == {u \in Tokens : parent[u] = t}

\* "If the same token is presented again, it will be found in the blacklist
\* and rejected" (service.py:222-224), as far as it goes: a token is exchanged
\* for one successor, and for none after its logout, unless it was blacklisted
\* while another refresh had passed the check, or Redis failed.
OneSuccessorUnlessOverlap ==
    \A t \in Tokens \ (lapsed \cup overlapped) :
        Cardinality(Successors(t)) <= IF fate[t] = "exchanged" THEN 1 ELSE 0

\* However refreshes, logins and logouts of one browser overlap and their
\* answers change places, the cookie it ends up with is never a revoked token,
\* if every answer arrived: the client can go on "transparently".
CookieWorks ==
    (~lost /\ cookie # NoToken /\ \A r \in Requests : request[r] = Idle)
        => (Valid(cookie) => ~Blacklisted(cookie))
=============================================================================
