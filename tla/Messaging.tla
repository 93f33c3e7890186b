----------------------------- MODULE Messaging -----------------------------
(***************************************************************************)
(* The conversations of a renter and an agent about one listing:           *)
(* app/domains/messaging/{service,repository,models,router}.py.            *)
(*                                                                         *)
(* Conversations of other renters or other listings share no row with      *)
(* these.  Transactions are as in Bookings: READ COMMITTED, unlocked       *)
(* SELECTs, rows that the commit makes visible; the only UPDATE sets the   *)
(* caller's own read mark to a value it brings along, so that who holds    *)
(* its row lock does not matter.  created_at is now() of PostgreSQL, the   *)
(* time at which the sender's transaction began: a message may become      *)
(* visible after messages that are newer.                                  *)
(*                                                                         *)
(* A client reads a conversation page by page, backwards, with the cursor  *)
(* of the last page; each page it opens moves its user's read mark to the  *)
(* present.  Clocks of the application and of the database are taken to    *)
(* agree.  The renter is verified and active throughout, what Access is    *)
(* about; participants never change, and nothing is ever deleted.          *)
(***************************************************************************)
EXTENDS Naturals, FiniteSets

CONSTANTS
    Requests,       \* clients that may be served, or paging, together
    Messages,       \* primary keys
    Conversations,  \* primary keys
    Limits,         \* the page sizes that clients ask for
    MaxTime,        \* bound on the clock
    NoMessage,
    NoConversation,
    NoCursor

ASSUME NamesAssumption ==
    /\ NoMessage \notin Messages
    /\ NoConversation \notin Conversations
    /\ NoCursor \notin Nat

ASSUME LimitsAssumption == Limits \subseteq Nat \ {0} /\ MaxTime \in Nat

ASSUME FiniteAssumption == IsFiniteSet(Messages)

VARIABLES
    conversations, \* committed rows, with both their participants
    row,           \* the messages' rows
    lastRead,      \* last_read_at of the participants; 0 is NULL
    client,        \* each client's request and its locals
    now,
    opened,        \* history: messages there when their recipient opened it
    raced,         \* history: messages being sent while it was being opened
    together       \* history: two first messages, neither seeing the other

history == <<opened, raced, together>>
vars    == <<conversations, row, lastRead, client, now, history>>

Users == {"renter", "agent"}

Recipient(u) == IF u = "renter" THEN "agent" ELSE "renter"

\* A row of messages, or none when it is in no conversation.
MessageRow == [conv : Conversations \cup {NoConversation}, sender : Users,
               created : Nat]

NoRow == [conv |-> NoConversation, sender |-> "renter", created |-> 0]

\* A client's request: `at` is created_at of its message, or the mark that it
\* sets.  A reader has the `page` last fetched, the messages `shown` before it,
\* and those that were `due` when it began.
Client == [op : {"none", "start", "send", "read"},
           step : {"idle", "find", "insert", "fetched", "marked", "paging",
                   "end"},
           user : Users, conv : Conversations \cup {NoConversation},
           message : Messages \cup {NoMessage}, at : Nat,
           cursor : Nat \cup {NoCursor}, page : SUBSET Messages,
           more : BOOLEAN, shown : SUBSET Messages, due : SUBSET Messages]

Idle == [op |-> "none", step |-> "idle", user |-> "renter",
         conv |-> NoConversation, message |-> NoMessage, at |-> 0,
         cursor |-> NoCursor, page |-> {}, more |-> FALSE, shown |-> {},
         due |-> {}]

TypeOK ==
    /\ conversations \subseteq Conversations
    /\ row \in [Messages -> MessageRow]
    /\ lastRead \in [Conversations -> [Users -> Nat]]
    /\ client \in [Requests -> Client]
    /\ now \in 1 .. MaxTime + 1
    /\ opened \subseteq Messages
    /\ raced \subseteq Messages
    /\ together \in BOOLEAN

Init ==
    /\ conversations = {}
    /\ row = [m \in Messages |-> NoRow]
    /\ lastRead = [c \in Conversations |-> [u \in Users |-> 0]]
    /\ client = [r \in Requests |-> Idle]
    /\ now = 1
    /\ opened = {}
    /\ raced = {}
    /\ together = FALSE

-----------------------------------------------------------------------------
(***************************************************************************)
(* Requests.                                                               *)
(***************************************************************************)

At(r, op, step) == client[r].op = op /\ client[r].step = step

Move(r, locals) == client' = [client EXCEPT ![r] = locals]

\* The request fails and is rolled back; a reader gives up.
Fail(r) ==
    /\ client[r] # Idle
    /\ Move(r, Idle)
    /\ UNCHANGED <<conversations, row, lastRead, now, history>>

Tick ==
    /\ now <= MaxTime
    /\ now' = now + 1
    /\ UNCHANGED <<conversations, row, lastRead, client, history>>

\* The messages of a conversation that have been committed.
Posted(c) == {m \in Messages : row[m].conv = c}

\* The clients that send, and those that open a conversation.
Sending(r) == client[r].op \in {"start", "send"}

Opening(r) == client[r].op = "read" /\ client[r].step \in {"fetched", "marked"}

(***************************************************************************)
(* create_message, of start_conversation and send_message.                 *)
(***************************************************************************)

\* The new row's uuid4 key is nobody else's.
FreshMessage(m) ==
    /\ row[m] = NoRow
    /\ \A r \in Requests : client[r].message # m

\* The transaction begins, and with it the message's created_at.  A message
\* that starts a conversation may turn out to be in any.
Begin(r, op, step, u, c, m) ==
    /\ client[r] = Idle
    /\ FreshMessage(m)
    /\ Move(r, [Idle EXCEPT !.op = op, !.step = step, !.user = u, !.conv = c,
                            !.message = m, !.at = now])
    /\ raced' = IF \E q \in Requests :
                      /\ Opening(q) /\ client[q].user = Recipient(u)
                      /\ c \in {NoConversation, client[q].conv}
                THEN raced \cup {m} ELSE raced
    /\ UNCHANGED <<conversations, row, lastRead, now, opened, together>>

Post(r) ==
    row' = [row EXCEPT ![client[r].message] =
               [conv |-> client[r].conv, sender |-> client[r].user,
                created |-> client[r].at]]

(***************************************************************************)
(* start_conversation and send_message                                     *)
(***************************************************************************)

FreshConversation(c) ==
    /\ c \notin conversations
    /\ \A r \in Requests : client[r].conv # c

\* The renter only: the agent cannot message itself.
StartConversation(r, m) ==
    Begin(r, "start", "find", "renter", NoConversation, m)

\* Only conversations that this request created.
OwnOnly(r) == {c \in conversations : c = client[r].conv}

\* find_existing_conversation: of both users, about the listing.
Existing(r) == conversations

\* Goes on without a conversation.
FoundOrNone(r) ==
    IF Existing(r) = {} THEN {NoConversation} ELSE Existing(r)

\* The conversation found, or a new one, create_conversation.  When there are
\* two, scalar_one_or_none() raises: the request can only Fail.
FoundOrCreated(r) ==
    {c \in Conversations :
        Existing(r) = {c} \/ (Existing(r) = {} /\ FreshConversation(c))}

\* Another request creates a conversation that this one cannot see.
Creating(r) == At(r, "start", "insert") /\ client[r].conv \notin conversations

FindConversation(r) ==
    /\ At(r, "start", "find")
    /\ \E c \in FoundOrCreated(r) :
          Move(r, [client[r] EXCEPT !.step = "insert", !.conv = c])
    /\ together' = (together \/ \E q \in Requests : Creating(q))
    /\ UNCHANGED <<conversations, row, lastRead, now, opened, raced>>

\* Either participant, in a conversation it knows of.
SendMessage(r, u, c, m) ==
    /\ c \in conversations
    /\ Begin(r, "send", "insert", u, c, m)

CommitMessage(r) ==
    /\ Sending(r) /\ client[r].step = "insert"
    /\ conversations' = conversations \cup {client[r].conv}
    /\ Post(r)
    /\ Move(r, Idle)
    /\ UNCHANGED <<lastRead, now, history>>

(***************************************************************************)
(* list_messages                                                           *)
(***************************************************************************)

\* Older than the cursor or as old.
NotNewer(c, cursor) ==
    {m \in Posted(c) : cursor = NoCursor \/ row[m].created <= cursor}

\* "strictly older than that"
Older(c, cursor) ==
    {m \in Posted(c) : cursor = NoCursor \/ row[m].created < cursor}

\* ORDER BY created_at DESC LIMIT: ties come in any order.
Pages(S, limit) ==
    {P \in SUBSET S :
       /\ Cardinality(P) <= limit
       /\ P # S => Cardinality(P) = limit
       /\ \A m \in P, n \in S \ P : row[n].created <= row[m].created}

\* The page is read.  The conversation's other rows, read before it, do not
\* depend on what others write.
Fetch(r, u, c, cursor, shown, due) ==
    /\ \E limit \in Limits : \E page \in Pages(Older(c, cursor), limit) :
          Move(r, [Idle EXCEPT
                      !.op = "read", !.step = "fetched", !.user = u,
                      !.conv = c, !.cursor = cursor, !.page = page,
                      !.more = Cardinality(page) = limit,
                      !.shown = shown, !.due = due])
    /\ opened' = opened \cup {m \in Posted(c) : row[m].sender # u}
    /\ raced' = raced \cup {client[q].message : q \in {p \in Requests :
                   /\ Sending(p) /\ client[p].user # u
                   /\ client[p].conv \in {NoConversation, c}}}
    /\ UNCHANGED <<conversations, row, lastRead, now, together>>

OpenConversation(r, u, c) ==
    /\ client[r] = Idle
    /\ c \in conversations
    /\ Fetch(r, u, c, NoCursor, {}, Posted(c))

\* mark_read: the time is taken here, and written when the request commits.
MarkRead(r) ==
    /\ At(r, "read", "fetched")
    /\ Move(r, [client[r] EXCEPT !.step = "marked", !.at = now])
    /\ UNCHANGED <<conversations, row, lastRead, now, history>>

\* created_at of the page's first message.
FirstOfPage(page) ==
    {row[m].created : m \in {n \in page :
        \A k \in page : row[k].created <= row[n].created}}

\* next_cursor: of its last message.
NextCursor(page) ==
    {row[m].created : m \in {n \in page :
        \A k \in page : row[n].created <= row[k].created}}

\* Everybody's read mark moves.
MarkedBoth(u) == Users

\* The caller's only.
Marked(u) == {u}

\* A full page tells where to go on, any other is the last.
CommitRead(r) ==
    LET a == client[r] IN
    /\ At(r, "read", "marked")
    /\ lastRead' = [lastRead EXCEPT ![a.conv] =
                       [u \in Users |-> IF u \in Marked(a.user) THEN a.at
                                        ELSE lastRead[a.conv][u]]]
    /\ \/ /\ a.more
          /\ \E cursor \in NextCursor(a.page) :
                Move(r, [a EXCEPT !.step = "paging", !.cursor = cursor,
                                  !.shown = @ \cup a.page, !.page = {},
                                  !.at = 0])
       \/ /\ ~a.more
          /\ Move(r, [a EXCEPT !.step = "end", !.shown = @ \cup a.page,
                               !.page = {}, !.at = 0])
    /\ UNCHANGED <<conversations, row, now, history>>

NextPage(r) ==
    LET a == client[r] IN
    /\ At(r, "read", "paging")
    /\ Fetch(r, a.user, a.conv, a.cursor, a.shown, a.due)

Leave(r) ==
    /\ At(r, "read", "end")
    /\ Move(r, Idle)
    /\ UNCHANGED <<conversations, row, lastRead, now, history>>

(***************************************************************************)
(* The system.                                                             *)
(***************************************************************************)

Read(r) == MarkRead(r) \/ CommitRead(r) \/ NextPage(r) \/ Leave(r)

Next ==
    \/ Tick
    \/ \E r \in Requests :
          \/ \E m \in Messages : StartConversation(r, m)
          \/ FindConversation(r)
          \/ \E u \in Users, c \in Conversations, m \in Messages :
                SendMessage(r, u, c, m)
          \/ CommitMessage(r)
          \/ \E u \in Users, c \in Conversations : OpenConversation(r, u, c)
          \/ Read(r)
          \/ Fail(r)

Spec == Init /\ [][Next]_vars

-----------------------------------------------------------------------------
(***************************************************************************)
(* Properties.                                                             *)
(***************************************************************************)

\* "re-messaging an agent about the same property reuses the thread instead of
\* creating a new one" (repository.py), unless two first messages are sent
\* together: then there may be two, and no further one can be started.
OneConversationUnlessTogether == ~together => Cardinality(conversations) <= 1

\* unread_count_for: the others' messages after the read mark.
Unread(u, c) ==
    {m \in Posted(c) : row[m].sender # u /\ row[m].created > lastRead[c][u]}

\* A message that the recipient has not opened the conversation after is
\* counted as unread, unless it was being sent while the conversation was being
\* opened; or unless the clock did not advance between mark and message.
UnopenedStaysUnread ==
    \A c \in conversations : \A m \in Posted(c) : \A u \in Users :
       /\ row[m].sender # u
       /\ m \notin opened \cup raced
       => m \in Unread(u, c) \/ row[m].created = lastRead[c][u]

\* Who scrolls to the start of a conversation has been shown all that was in it
\* when it was opened, but for messages created at the same instant as one that
\* ended a page; and no page repeats a message of an earlier one.
PagesComplete ==
    \A r \in Requests :
       /\ At(r, "read", "end") =>
             \A m \in client[r].due \ client[r].shown :
                \E n \in client[r].shown : row[n].created = row[m].created
       /\ client[r].page \cap client[r].shown = {}
=============================================================================
