-------------------------- MODULE MessagingProofs --------------------------
(***************************************************************************)
(* What TLAPS proves about Messaging, for any number of clients, messages, *)
(* conversations, any page sizes and any bound on the clock.               *)
(*                                                                         *)
(* IInv adds three things: what a reader's pages leave to be shown still,  *)
(* that the conversations being created are the committed ones unless two  *)
(* first messages met, and that a message on its way is newer than the     *)
(* read mark it will meet, or recorded as raced.                           *)
(***************************************************************************)
EXTENDS Messaging, FiniteSetTheorems, TLAPS

RowsOK ==
    \A m \in Messages : /\ row[m] # NoRow => row[m].conv \in conversations
                        /\ row[m].conv = NoConversation => row[m] = NoRow

SendOK(a) ==
    /\ a.message \in Messages /\ row[a.message] = NoRow
    /\ a.at <= now
    /\ a.page = {}
    /\ \/ a.step = "find" /\ a.conv = NoConversation /\ a.op = "start"
       \/ a.step = "insert" /\ a.conv \in Conversations
    /\ a.op = "send" => a.conv \in conversations

Covered(a, m) ==
    m \in a.shown \/ \E n \in a.shown : row[n].created = row[m].created

\* A page has been read and not been shown yet.
PageOK(a) ==
    /\ a.cursor = NoCursor => a.shown = {}
    /\ a.cursor # NoCursor =>
          /\ \A m \in a.page : row[m].created < a.cursor
          /\ \A m \in a.shown : a.cursor <= row[m].created
    /\ \A m \in a.due :
          \/ Covered(a, m)
          \/ m \in a.page
          \/ a.more /\ \A n \in a.page : row[m].created <= row[n].created

\* The reader is about to ask for the next page.
ScrollOK(a) ==
    /\ a.page = {} /\ a.cursor \in Nat
    /\ \A m \in a.shown : a.cursor <= row[m].created
    /\ \A m \in a.due : Covered(a, m) \/ row[m].created < a.cursor

ReadOK(a) ==
    /\ a.message = NoMessage
    /\ a.conv \in conversations
    /\ a.at <= now
    /\ a.page \cup a.shown \cup a.due \subseteq Posted(a.conv)
    /\ \/ a.step \in {"fetched", "marked"} /\ PageOK(a)
       \/ a.step = "paging" /\ ScrollOK(a)
       \/ a.step = "end" /\ a.page = {} /\ \A m \in a.due : Covered(a, m)

ClientOK(a) ==
    /\ a.op = "none" => a = Idle
    /\ a.op \in {"start", "send"} => SendOK(a)
    /\ a.op = "read" => ReadOK(a)

ClientsOK == \A r \in Requests : ClientOK(client[r])

MessagesApart ==
    \A q, r \in Requests :
        q # r /\ client[q].message = client[r].message
            => client[q].message = NoMessage

\* The conversations that are committed or on their way.
Involved == conversations \cup
            {client[r].conv : r \in {p \in Requests : At(p, "start", "insert")}}

ConversationsOK == ~together => \A c, d \in Involved : c = d

Concerns(a, c) == a.conv \in {NoConversation, c}

UnreadOK ==
    /\ \A c \in Conversations, u \in Users : lastRead[c][u] <= now
    /\ \A c \in Conversations : \A m \in Posted(c), u \in Users :
          row[m].sender # u /\ m \notin opened \cup raced
              => lastRead[c][u] <= row[m].created
    /\ \A r \in Requests, c \in Conversations, u \in Users :
          /\ Sending(r) /\ Concerns(client[r], c) /\ client[r].user # u
          /\ client[r].message \notin raced
          => lastRead[c][u] <= client[r].at

OpenOK ==
    \A q \in Requests : Opening(q) =>
        /\ \A m \in Posted(client[q].conv) :
              row[m].sender # client[q].user => m \in opened \cup raced
        /\ \A p \in Requests :
              /\ Sending(p) /\ client[p].user # client[q].user
              /\ Concerns(client[p], client[q].conv)
              => client[p].message \in raced

IInv ==
    /\ TypeOK
    /\ RowsOK
    /\ ClientsOK
    /\ MessagesApart
    /\ ConversationsOK
    /\ UnreadOK
    /\ OpenOK

-----------------------------------------------------------------------------

\* The fields of a client that has nothing to do.
LEMMA IdleFields ==
    /\ Idle \in Client
    /\ Idle.op = "none" /\ Idle.step = "idle" /\ Idle.conv = NoConversation
    /\ Idle.message = NoMessage
    /\ ClientOK(Idle)
BY DEF Idle, Client, Users, ClientOK

\* No row is in a conversation.
LEMMA NoRowFields ==
    /\ NoRow \in MessageRow
    /\ NoRow.conv = NoConversation
BY DEF NoRow, MessageRow, Users

\* No conversation, no message, no request.
LEMMA InitIInv == Init => IInv
<1> SUFFICES ASSUME Init PROVE IInv
  OBVIOUS
<1>1. TypeOK
  <2>1. 1 \in 1 .. MaxTime + 1
    BY LimitsAssumption
  <2>2. lastRead \in [Conversations -> [Users -> Nat]]
    BY DEF Init
  <2>3. row \in [Messages -> MessageRow] /\ client \in [Requests -> Client]
    BY IdleFields, NoRowFields DEF Init
  <2>4. QED
    BY <2>1, <2>2, <2>3 DEF Init, TypeOK
<1>2. RowsOK /\ ClientsOK /\ MessagesApart
  BY IdleFields DEF Init, RowsOK, ClientsOK, MessagesApart
<1>3. Involved = {} /\ \A c \in Conversations : Posted(c) = {}
  BY IdleFields, NoRowFields, NamesAssumption DEF Init, Involved, At, Posted
<1>4. ConversationsOK /\ OpenOK
  BY <1>3, IdleFields DEF Init, ConversationsOK, OpenOK, Opening
<1>5. UnreadOK
  BY <1>3, IdleFields DEF Init, UnreadOK, Sending
<1>6. QED
  BY <1>1, <1>2, <1>4, <1>5 DEF IInv

\* The locals of one client change.
LEMMA MoveFact ==
    ASSUME IInv, NEW r \in Requests, NEW a \in Client, Move(r, a)
    PROVE  /\ client' \in [Requests -> Client]
           /\ client'[r] = a
           /\ \A p \in Requests : p # r => client'[p] = client[p]
BY DEF Move, IInv, TypeOK

\* What is posted stays as it is.
Kept == \A m \in Messages : row[m] # NoRow => row'[m] = row[m]

\* Messages of a conversation stay in it.
LEMMA PostedKept ==
    ASSUME IInv, Kept, NEW c \in Conversations
    PROVE  /\ \A m \in Posted(c) : m \in Messages /\ row[m] # NoRow /\ row'[m] = row[m]
           /\ Posted(c) \subseteq Posted(c)'
BY NoRowFields, NamesAssumption DEF Kept, Posted

\* A reader's locals stay in order whatever the others do.
LEMMA ReadKept ==
    ASSUME IInv, Kept, conversations \subseteq conversations', now <= now',
           now' \in Nat, NEW a \in Client, ReadOK(a)
    PROVE  ReadOK(a)'
<1>1. a.conv \in Conversations /\ a.at \in Nat /\ now \in Nat
  BY LimitsAssumption DEF IInv, TypeOK, ReadOK, Client
<1>2. /\ \A m \in Posted(a.conv) : row'[m] = row[m]
      /\ Posted(a.conv) \subseteq Posted(a.conv)'
  BY <1>1, PostedKept
<1>3. \A m \in a.page \cup a.shown \cup a.due : row'[m] = row[m]
  BY <1>2 DEF ReadOK
<1>4. \A m \in a.due : Covered(a, m) => Covered(a, m)'
  BY <1>3 DEF Covered
<1>5. PageOK(a) => PageOK(a)'
  BY <1>3, <1>4 DEF PageOK
<1>6. ScrollOK(a) => ScrollOK(a)'
  BY <1>3, <1>4 DEF ScrollOK
<1>7. a.at <= now' /\ a.conv \in conversations'
  BY <1>1 DEF ReadOK
<1>8. QED
  BY <1>2, <1>4, <1>5, <1>6, <1>7 DEF ReadOK

\* Nothing but the clock and one client's locals changes.
LEMMA QuietClients ==
    ASSUME IInv, NEW r \in Requests, NEW a \in Client, Move(r, a), ClientOK(a),
           a.message \notin {NoMessage, client[r].message} =>
               \A p \in Requests : client[p].message # a.message,
           UNCHANGED <<conversations, row, now>>
    PROVE  RowsOK' /\ ClientsOK' /\ MessagesApart'
<1>1. /\ client'[r] = a
      /\ \A p \in Requests : p # r => client'[p] = client[p]
  BY MoveFact
<1>2. \A p \in Requests : ClientOK(client[p])' <=> ClientOK(client'[p])
  BY DEF ClientOK, SendOK, ReadOK, Posted, PageOK, ScrollOK, Covered
<1>3. ClientsOK'
  BY <1>1, <1>2 DEF IInv, ClientsOK
<1>4. MessagesApart'
  BY <1>1 DEF IInv, MessagesApart
<1>5. QED
  BY <1>3, <1>4 DEF IInv, RowsOK

\* A client is done, or fails.
LEMMA EndIInv ==
    ASSUME IInv, NEW r \in Requests, Move(r, Idle),
           UNCHANGED <<conversations, row, lastRead, now, history>>
    PROVE  IInv'
<1>1. /\ client' \in [Requests -> Client] /\ client'[r] = Idle
      /\ \A p \in Requests : p # r => client'[p] = client[p]
      /\ UNCHANGED <<conversations, row, lastRead, now, opened, raced, together>>
  BY MoveFact, IdleFields DEF history
<1>2. TypeOK'
  BY <1>1 DEF IInv, TypeOK
<1>3. RowsOK' /\ ClientsOK' /\ MessagesApart'
  BY <1>1, IdleFields, QuietClients
<1>4. Involved' \subseteq Involved
  BY <1>1, IdleFields DEF Involved, At
<1>5. ConversationsOK'
  BY <1>1, <1>4 DEF IInv, ConversationsOK
<1>6. UnreadOK'
  <2>1. ~Sending(r)'
    BY <1>1, IdleFields DEF Sending
  <2>2. \A p \in Requests : p # r => Sending(p)' = Sending(p)
    BY <1>1 DEF Sending
  <2>3. QED
    BY <1>1, <2>1, <2>2 DEF IInv, UnreadOK, Posted, Concerns
<1>7. OpenOK'
  BY <1>1, IdleFields DEF IInv, OpenOK, Opening, Sending, Posted, Concerns
<1>8. QED
  BY <1>2, <1>3, <1>5, <1>6, <1>7 DEF IInv

LEMMA TickIInv == ASSUME IInv, Tick PROVE IInv'
<1>1. /\ now' = now + 1 /\ now <= MaxTime /\ now \in 1 .. MaxTime + 1
      /\ UNCHANGED <<conversations, row, lastRead, client, opened, raced, together>>
  BY DEF Tick, history, IInv, TypeOK
<1>2. now' \in 1 .. MaxTime + 1 /\ now <= now' /\ now \in Nat /\ now' \in Nat
  BY <1>1, LimitsAssumption
<1>3. TypeOK'
  BY <1>1, <1>2 DEF IInv, TypeOK
<1>4. RowsOK' /\ MessagesApart'
  BY <1>1 DEF IInv, RowsOK, MessagesApart
<1>5. ClientsOK'
  <2>1. SUFFICES ASSUME NEW r \in Requests PROVE ClientOK(client[r])'
    BY DEF ClientsOK
  <2>2. PICK a \in Client : a = client[r] /\ ClientOK(a)
    BY DEF IInv, TypeOK, ClientsOK
  <2>3. ReadOK(a) => ReadOK(a)'
    BY <1>1, <1>2, ReadKept DEF Kept
  <2>4. SendOK(a) => SendOK(a)'
    BY <1>1, <1>2, <2>2 DEF SendOK, Client
  <2>5. ClientOK(a)'
    BY <2>2, <2>3, <2>4 DEF ClientOK
  <2>6. QED
    BY <1>1, <2>2, <2>5
<1>6. ConversationsOK'
  BY <1>1 DEF IInv, ConversationsOK, Involved, At
<1>7. UnreadOK'
  <2>1. \A c \in Conversations, u \in Users : lastRead[c][u] \in Nat
    BY DEF IInv, TypeOK
  <2>2. \A c \in Conversations, u \in Users : lastRead'[c][u] <= now'
    BY <1>1, <1>2, <2>1 DEF IInv, UnreadOK
  <2>3. QED
    BY <1>1, <2>2 DEF IInv, UnreadOK, Posted, Sending, Concerns
<1>8. OpenOK'
  BY <1>1 DEF IInv, OpenOK, Opening, Sending, Posted, Concerns
<1>9. QED
  BY <1>3, <1>4, <1>5, <1>6, <1>7, <1>8 DEF IInv

\* A message is under way.
LEMMA BeginIInv ==
    ASSUME IInv, NEW r \in Requests, NEW op \in {"start", "send"},
           NEW step, NEW u \in Users, NEW c, NEW m \in Messages,
           \/ op = "start" /\ step = "find" /\ c = NoConversation
           \/ op = "send" /\ step = "insert" /\ c \in conversations,
           Begin(r, op, step, u, c, m)
    PROVE  IInv'
<1> DEFINE a == [Idle EXCEPT !.op = op, !.step = step, !.user = u, !.conv = c,
                             !.message = m, !.at = now]
<1>1. now \in Nat /\ conversations \subseteq Conversations
  BY LimitsAssumption DEF IInv, TypeOK
<1>2. /\ a \in Client
      /\ a.op = op /\ a.step = step /\ a.user = u /\ a.conv = c
      /\ a.message = m /\ a.at = now /\ a.page = {}
  BY <1>1 DEF Idle, Client
<1>3. /\ Move(r, a) /\ client[r] = Idle
      /\ row[m] = NoRow /\ \A p \in Requests : client[p].message # m
      /\ UNCHANGED <<conversations, row, lastRead, now, opened, together>>
  BY DEF Begin, FreshMessage
<1> HIDE DEF a
<1>4. /\ client' \in [Requests -> Client] /\ client'[r] = a
      /\ \A p \in Requests : p # r => client'[p] = client[p]
  BY <1>2, <1>3, MoveFact
<1>5. /\ raced \subseteq raced' /\ raced' \subseteq raced \cup {m}
      /\ (\E q \in Requests : /\ Opening(q) /\ client[q].user = Recipient(u)
                              /\ c \in {NoConversation, client[q].conv})
            => m \in raced'
  BY DEF Begin
<1>6. TypeOK'
  BY <1>3, <1>4, <1>5 DEF IInv, TypeOK
<1>7. RowsOK' /\ ClientsOK' /\ MessagesApart'
  <2>1. ClientOK(a)
    BY <1>1, <1>2, <1>3 DEF ClientOK, SendOK
  <2>2. QED
    BY <1>2, <1>3, <2>1, QuietClients
<1>8. Involved' = Involved
  BY <1>2, <1>3, <1>4, IdleFields DEF Involved, At
<1>9. ConversationsOK'
  BY <1>3, <1>8 DEF IInv, ConversationsOK
<1>10. \A p \in Requests : p # r => /\ Sending(p)' = Sending(p)
                                    /\ Opening(p)' = Opening(p)
  BY <1>4 DEF Sending, Opening
<1>11. Sending(r)' /\ ~Opening(r)'
  BY <1>2, <1>4 DEF Sending, Opening
<1>12. UnreadOK'
  <2>1. \A p \in Requests : p # r /\ client[p].message \notin raced'
            => client[p].message \notin raced
    BY <1>5
  <2>2. QED
    BY <1>2, <1>3, <1>4, <1>5, <1>10, <2>1 DEF IInv, UnreadOK, Posted, Concerns
<1>13. OpenOK'
  <2>1. SUFFICES ASSUME NEW q \in Requests, Opening(q)'
                 PROVE  /\ \A n \in Posted(client[q].conv)' :
                              row'[n].sender # client'[q].user
                                 => n \in opened' \cup raced'
                        /\ \A p \in Requests :
                              /\ Sending(p)' /\ client'[p].user # client'[q].user
                              /\ Concerns(client'[p], client'[q].conv)
                              => client'[p].message \in raced'
    BY DEF OpenOK, Concerns
  <2>2. q # r /\ Opening(q) /\ client'[q] = client[q]
    BY <1>4, <1>10, <1>11, <2>1
  <2>3. client[q].user # u => client[q].user = Recipient(u)
    BY DEF IInv, TypeOK, Client, Users, Recipient
  <2>4. \A n \in Posted(client[q].conv)' :
            row'[n].sender # client'[q].user => n \in opened' \cup raced'
    BY <1>3, <1>5, <2>2 DEF IInv, OpenOK, Posted
  <2>5. ASSUME NEW p \in Requests, p # r, Sending(p)',
               client'[p].user # client'[q].user,
               Concerns(client'[p], client'[q].conv)
        PROVE  client'[p].message \in raced'
    BY <1>4, <1>5, <1>10, <2>2, <2>5 DEF IInv, OpenOK
  <2>6. ASSUME client'[r].user # client'[q].user,
               Concerns(client'[r], client'[q].conv)
        PROVE  client'[r].message \in raced'
    BY <1>2, <1>4, <1>5, <2>2, <2>3, <2>6 DEF Concerns
  <2>7. QED
    BY <2>4, <2>5, <2>6
<1>14. QED
  BY <1>6, <1>7, <1>9, <1>12, <1>13 DEF IInv

\* A first message finds its conversation, or creates one.
LEMMA FindIInv ==
    ASSUME IInv, NEW r \in Requests, FindConversation(r) PROVE IInv'
<1>1. PICK c \in FoundOrCreated(r) :
          Move(r, [client[r] EXCEPT !.step = "insert", !.conv = c])
  BY DEF FindConversation
<1>2. PICK b \in Client : b = client[r] /\ b.op = "start" /\ b.step = "find"
                          /\ ClientOK(b)
  BY DEF FindConversation, At, IInv, TypeOK, ClientsOK
<1>3. PICK a \in Client :
          /\ Move(r, a) /\ a.op = "start" /\ a.step = "insert" /\ a.conv = c
          /\ a.message = b.message /\ a.at = b.at /\ a.page = b.page
          /\ a.user = b.user
  <2>1. c \in Conversations
    BY DEF FoundOrCreated
  <2> DEFINE d == [b EXCEPT !.step = "insert", !.conv = c]
  <2>2. d \in Client
    BY <2>1, <1>2 DEF Client
  <2>3. /\ Move(r, d) /\ d.op = "start" /\ d.step = "insert" /\ d.conv = c
        /\ d.message = b.message /\ d.at = b.at /\ d.page = b.page
        /\ d.user = b.user
    BY <1>1, <1>2, <2>1 DEF Client
  <2>4. QED
    BY <2>2, <2>3
<1>4. /\ c \in Conversations
      /\ conversations = {c} \/ (conversations = {} /\ FreshConversation(c))
      /\ together' = (together \/ \E q \in Requests : Creating(q))
      /\ UNCHANGED <<conversations, row, lastRead, now, opened, raced>>
  BY DEF FoundOrCreated, Existing, FindConversation
<1>5. /\ client' \in [Requests -> Client] /\ client'[r] = a
      /\ \A p \in Requests : p # r => client'[p] = client[p]
  BY <1>3, MoveFact
<1>6. TypeOK'
  BY <1>4, <1>5 DEF IInv, TypeOK
<1>7. RowsOK' /\ ClientsOK' /\ MessagesApart'
  <2>1. ClientOK(a)
    BY <1>2, <1>3, <1>4 DEF ClientOK, SendOK
  <2>2. QED
    BY <1>2, <1>3, <1>4, <2>1, QuietClients
<1>8. ConversationsOK'
  <2>1. Involved' = Involved \cup {c}
    BY <1>2, <1>3, <1>4, <1>5 DEF Involved, At
  <2>2. SUFFICES ASSUME ~together' PROVE \A d \in Involved : d = c
    BY <2>1 DEF ConversationsOK
  <2>3. CASE conversations = {c}
    BY <1>4, <2>2, <2>3 DEF IInv, ConversationsOK, Involved
  <2>4. CASE conversations = {}
    BY <1>4, <2>2, <2>4 DEF Involved, Creating
  <2>5. QED
    BY <1>4, <2>3, <2>4
<1>9. \A p \in Requests : /\ Sending(p)' = Sending(p)
                          /\ Opening(p)' = Opening(p)
                          /\ Opening(p)' => client'[p] = client[p]
  BY <1>2, <1>3, <1>5 DEF Sending, Opening
<1>10. \A p \in Requests :
          /\ client'[p].message = client[p].message
          /\ client'[p].user = client[p].user
          /\ client'[p].at = client[p].at
          /\ \A d : Concerns(client'[p], d) => Concerns(client[p], d)
  BY <1>2, <1>3, <1>5 DEF Concerns, ClientOK, SendOK
<1>11. UnreadOK'
  BY <1>4, <1>9, <1>10 DEF IInv, UnreadOK, Posted, Concerns
<1>12. OpenOK'
  <2>1. SUFFICES ASSUME NEW q \in Requests, Opening(q)'
                 PROVE  /\ \A n \in Posted(client[q].conv)' :
                              row'[n].sender # client'[q].user
                                 => n \in opened' \cup raced'
                        /\ \A p \in Requests :
                              /\ Sending(p)' /\ client'[p].user # client'[q].user
                              /\ Concerns(client'[p], client'[q].conv)
                              => client'[p].message \in raced'
    BY DEF OpenOK, Concerns
  <2>2. Opening(q) /\ client'[q] = client[q]
    BY <1>9, <2>1
  <2>3. Posted(client[q].conv)' = Posted(client[q].conv)
    BY <1>4, <2>2 DEF Posted
  <2>4. QED
    BY <1>4, <1>9, <1>10, <2>2, <2>3 DEF IInv, OpenOK
<1>13. QED
  BY <1>6, <1>7, <1>8, <1>11, <1>12 DEF IInv

\* A message becomes visible, and with it perhaps its conversation.
LEMMA CommitMessageIInv ==
    ASSUME IInv, NEW r \in Requests, CommitMessage(r) PROVE IInv'
<1>1. PICK a \in Client : a = client[r] /\ ClientOK(a)
  BY DEF IInv, TypeOK, ClientsOK
<1> DEFINE m == a.message
           new == [conv |-> a.conv, sender |-> a.user, created |-> a.at]
<1>2. /\ Sending(r) /\ a.step = "insert" /\ a.op \in {"start", "send"}
      /\ m \in Messages /\ row[m] = NoRow
      /\ a.conv \in Conversations /\ a.at <= now /\ a.at \in Nat
      /\ a.user \in Users
  BY <1>1 DEF CommitMessage, Sending, ClientOK, SendOK, Client
<1>3. new \in MessageRow
  BY <1>2 DEF MessageRow
<1>4. /\ conversations' = conversations \cup {a.conv}
      /\ row' = [row EXCEPT ![m] = new]
      /\ Move(r, Idle)
      /\ UNCHANGED <<lastRead, now, opened, raced, together>>
  BY <1>1 DEF CommitMessage, Post, history
<1>5. /\ client' \in [Requests -> Client] /\ client'[r] = Idle
      /\ \A p \in Requests : p # r => client'[p] = client[p]
  BY <1>4, IdleFields, MoveFact
<1>6. /\ row' \in [Messages -> MessageRow] /\ row'[m] = new
      /\ \A n \in Messages : n # m => row'[n] = row[n]
  BY <1>2, <1>3, <1>4 DEF IInv, TypeOK
<1>7. Kept
  BY <1>2, <1>6 DEF Kept
<1>8. /\ new # NoRow
      /\ \A c \in Conversations :
            Posted(c)' = Posted(c) \cup (IF c = a.conv THEN {m} ELSE {})
  BY <1>2, <1>6, NoRowFields, NamesAssumption DEF Posted
<1>9. \A c \in Conversations : \A n \in Posted(c) : n # m
  BY <1>2, NoRowFields, NamesAssumption DEF Posted
<1> HIDE DEF m
<1>10. TypeOK'
  BY <1>2, <1>4, <1>5, <1>6 DEF IInv, TypeOK
<1>11. RowsOK'
  BY <1>2, <1>4, <1>6, NamesAssumption DEF IInv, RowsOK
<1>12. MessagesApart'
  BY <1>5, IdleFields DEF IInv, MessagesApart
<1>13. ClientsOK'
  <2>1. SUFFICES ASSUME NEW p \in Requests PROVE ClientOK(client[p])'
    BY DEF ClientsOK
  <2>2. CASE p = r
    <3>1. ClientOK(Idle)'
      BY IdleFields DEF ClientOK
    <3>2. QED
      BY <1>5, <2>2, <3>1
  <2>3. CASE p # r
    <3>1. PICK b \in Client : b = client[p] /\ ClientOK(b)
      BY DEF IInv, TypeOK, ClientsOK
    <3>2. now \in Nat
      BY LimitsAssumption DEF IInv, TypeOK
    <3>3. ReadOK(b) => ReadOK(b)'
      BY <1>4, <1>7, <3>2, ReadKept
    <3>4. b.op \in {"start", "send"} => b.message # m
      BY <1>1, <1>2, <2>3, <3>1, NamesAssumption
         DEF IInv, MessagesApart, ClientOK, SendOK, m
    <3>5. b.op \in {"start", "send"} => SendOK(b)'
      BY <1>4, <1>6, <3>1, <3>4 DEF ClientOK, SendOK
    <3>6. ClientOK(b)'
      BY <3>1, <3>3, <3>5 DEF ClientOK
    <3>7. QED
      BY <1>5, <2>3, <3>1, <3>6
  <2>4. QED
    BY <2>2, <2>3
<1>14. ConversationsOK'
  <2>1. a.conv \in Involved
    BY <1>1, <1>2 DEF Involved, At, ClientOK, SendOK
  <2>2. Involved' \subseteq Involved
    BY <1>4, <1>5, <2>1, IdleFields DEF Involved, At
  <2>3. QED
    BY <1>4, <2>2 DEF IInv, ConversationsOK
<1>15. /\ ~Sending(r)' /\ ~Opening(r)'
       /\ \A p \in Requests : p # r => /\ Sending(p)' = Sending(p)
                                       /\ Opening(p)' = Opening(p)
  BY <1>5, IdleFields DEF Sending, Opening
<1>16. UnreadOK'
  <2>1. \A u \in Users : a.user # u /\ m \notin raced => lastRead[a.conv][u] <= a.at
    BY <1>1, <1>2 DEF IInv, UnreadOK, Concerns, m
  <2>2. ASSUME NEW c \in Conversations, NEW n \in Posted(c)', NEW u \in Users,
               row'[n].sender # u, n \notin opened \cup raced
        PROVE  lastRead[c][u] <= row'[n].created
    <3>1. CASE n = m
      BY <1>6, <1>8, <1>9, <2>1, <2>2, <3>1
    <3>2. CASE n # m
      <4>1. n \in Posted(c) /\ row'[n] = row[n]
        BY <1>6, <1>8, <2>2, <3>2 DEF Posted
      <4>2. QED
        BY <2>2, <4>1 DEF IInv, UnreadOK
    <3>3. QED
      BY <3>1, <3>2
  <2>3. \A p \in Requests, c \in Conversations, u \in Users :
          /\ Sending(p)' /\ Concerns(client'[p], c) /\ client'[p].user # u
          /\ client'[p].message \notin raced
          => lastRead[c][u] <= client'[p].at
    BY <1>5, <1>15 DEF IInv, UnreadOK
  <2>4. QED
    BY <1>4, <2>2, <2>3 DEF IInv, UnreadOK, Concerns
<1>17. OpenOK'
  <2>1. SUFFICES ASSUME NEW q \in Requests, Opening(q)'
                 PROVE  /\ \A n \in Posted(client[q].conv)' :
                              row'[n].sender # client'[q].user
                                 => n \in opened' \cup raced'
                        /\ \A p \in Requests :
                              /\ Sending(p)' /\ client'[p].user # client'[q].user
                              /\ Concerns(client'[p], client'[q].conv)
                              => client'[p].message \in raced'
    BY DEF OpenOK, Concerns
  <2>2. PICK b \in Client : b = client[q] /\ ClientOK(b)
    BY DEF IInv, TypeOK, ClientsOK
  <2>3. q # r /\ Opening(q) /\ client'[q] = b
    BY <1>5, <1>15, <2>1, <2>2
  <2>4. b.conv \in Conversations
    BY <2>2, <2>3 DEF Opening, ClientOK, ReadOK, IInv, TypeOK
  <2>5. a.user # b.user /\ b.conv = a.conv => m \in raced
    BY <1>1, <1>2, <2>2, <2>3 DEF IInv, OpenOK, Concerns, m
  <2>6. ASSUME NEW n \in Posted(b.conv)', row'[n].sender # b.user
        PROVE  n \in opened \cup raced
    <3>1. CASE n = m
      BY <1>6, <1>8, <1>9, <2>4, <2>5, <2>6, <3>1
    <3>2. CASE n # m
      <4>1. n \in Posted(b.conv) /\ row'[n] = row[n]
        BY <1>6, <1>8, <2>4, <2>6, <3>2 DEF Posted
      <4>2. QED
        BY <2>2, <2>3, <2>6, <4>1 DEF IInv, OpenOK
    <3>3. QED
      BY <3>1, <3>2
  <2>7. \A p \in Requests :
          /\ Sending(p)' /\ client'[p].user # b.user /\ Concerns(client'[p], b.conv)
          => client'[p].message \in raced
    BY <1>5, <1>15, <2>2, <2>3 DEF IInv, OpenOK
  <2>8. Posted(client[q].conv)' = Posted(b.conv)'
    BY <2>3 DEF Posted
  <2>9. QED
    BY <1>4, <2>3, <2>6, <2>7, <2>8
<1>18. QED
  BY <1>10, <1>11, <1>12, <1>13, <1>14, <1>16, <1>17 DEF IInv

\* A step of a reader that is not a Fetch: the read marks of its conversation
\* may move, and nothing else that others see.
LEMMA ReadIInv ==
    ASSUME IInv, NEW r \in Requests, NEW a \in Client, Move(r, a),
           client[r].op = "read", Opening(r), a.op = "read", ReadOK(a),
           a.conv = client[r].conv, a.user = client[r].user,
           lastRead' \in [Conversations -> [Users -> Nat]],
           \A c \in Conversations, u \in Users :
               \/ lastRead'[c][u] = lastRead[c][u]
               \/ c = a.conv /\ u = a.user /\ lastRead'[c][u] <= now,
           UNCHANGED <<conversations, row, now, history>>
    PROVE  IInv'
<1>1. /\ client' \in [Requests -> Client] /\ client'[r] = a
      /\ \A p \in Requests : p # r => client'[p] = client[p]
      /\ UNCHANGED <<opened, raced, together>>
  BY MoveFact DEF history
<1>2. TypeOK'
  BY <1>1 DEF IInv, TypeOK
<1>3. RowsOK' /\ ClientsOK' /\ MessagesApart'
  <2>1. ClientOK(a) /\ a.message = NoMessage
    BY DEF ClientOK, ReadOK
  <2>2. QED
    BY <2>1, QuietClients
<1>4. ConversationsOK'
  <2>1. Involved' = Involved
    BY <1>1 DEF Involved, At
  <2>2. QED
    BY <1>1, <2>1 DEF IInv, ConversationsOK
<1>5. \A p \in Requests : /\ Sending(p)' = Sending(p)
                          /\ Sending(p) => client'[p] = client[p]
                          /\ Opening(p)' => Opening(p)
                          /\ client'[p].conv = client[p].conv
                          /\ client'[p].user = client[p].user
  BY <1>1 DEF Sending, Opening
<1>6. UnreadOK'
  <2>1. \A c \in Conversations, u \in Users : lastRead'[c][u] <= now
    BY DEF IInv, UnreadOK
  <2>2. \A m \in Posted(a.conv) : row[m].sender # a.user => m \in opened \cup raced
    BY DEF IInv, OpenOK
  <2>3. \A p \in Requests : Sending(p) /\ client[p].user # a.user
                               /\ Concerns(client[p], a.conv)
                               => client[p].message \in raced
    BY DEF IInv, OpenOK
  <2>4. \A c \in Conversations : \A m \in Posted(c), u \in Users :
          row[m].sender # u /\ m \notin opened \cup raced
              => lastRead'[c][u] <= row[m].created
    BY <2>2 DEF IInv, UnreadOK
  <2>5. \A p \in Requests, c \in Conversations, u \in Users :
          /\ Sending(p) /\ Concerns(client[p], c) /\ client[p].user # u
          /\ client[p].message \notin raced
          => lastRead'[c][u] <= client[p].at
    BY <2>3 DEF IInv, UnreadOK
  <2>6. QED
    BY <1>1, <1>5, <2>1, <2>4, <2>5 DEF UnreadOK, Posted, Concerns
<1>7. OpenOK'
  <2>1. SUFFICES ASSUME NEW q \in Requests, Opening(q)'
                 PROVE  /\ \A n \in Posted(client[q].conv)' :
                              row'[n].sender # client'[q].user
                                 => n \in opened' \cup raced'
                        /\ \A p \in Requests :
                              /\ Sending(p)' /\ client'[p].user # client'[q].user
                              /\ Concerns(client'[p], client'[q].conv)
                              => client'[p].message \in raced'
    BY DEF OpenOK, Concerns
  <2>2. Opening(q)
    BY <1>5, <2>1
  <2>3. Posted(client[q].conv)' = Posted(client[q].conv)
    BY <1>5 DEF Posted
  <2>4. QED
    BY <1>1, <1>5, <2>2, <2>3 DEF IInv, OpenOK
<1>8. QED
  BY <1>2, <1>3, <1>4, <1>6, <1>7 DEF IInv

LEMMA MarkReadIInv ==
    ASSUME IInv, NEW r \in Requests, MarkRead(r) PROVE IInv'
<1>1. PICK b \in Client : b = client[r] /\ ClientOK(b)
  BY DEF IInv, TypeOK, ClientsOK
<1>2. b.op = "read" /\ b.step = "fetched" /\ ReadOK(b)
  BY <1>1 DEF MarkRead, At, ClientOK
<1>3. now \in Nat
  BY LimitsAssumption DEF IInv, TypeOK
<1> DEFINE a == [b EXCEPT !.step = "marked", !.at = now]
<1>4. /\ a \in Client
      /\ a.op = b.op /\ a.step = "marked" /\ a.at = now /\ a.conv = b.conv
      /\ a.user = b.user /\ a.message = b.message /\ a.cursor = b.cursor
      /\ a.page = b.page /\ a.shown = b.shown /\ a.due = b.due /\ a.more = b.more
  BY <1>3 DEF Client
<1>5. Move(r, a) /\ UNCHANGED <<conversations, row, lastRead, now, history>>
  BY <1>1 DEF MarkRead
<1> HIDE DEF a
<1>6. ReadOK(a)
  BY <1>2, <1>3, <1>4 DEF ReadOK, PageOK, Covered
<1>7. lastRead' \in [Conversations -> [Users -> Nat]]
  BY <1>5 DEF IInv, TypeOK
<1>8. QED
  BY <1>1, <1>2, <1>4, <1>5, <1>6, <1>7, ReadIInv DEF Opening

\* The page is shown, and the reader scrolls on or is at the end.
LEMMA CommitReadIInv ==
    ASSUME IInv, NEW r \in Requests, CommitRead(r) PROVE IInv'
<1>1. PICK b \in Client : b = client[r] /\ ClientOK(b)
  BY DEF IInv, TypeOK, ClientsOK
<1>2. b.op = "read" /\ b.step = "marked" /\ ReadOK(b) /\ PageOK(b)
  BY <1>1 DEF CommitRead, At, ClientOK, ReadOK
<1>3. /\ now \in Nat /\ b.at <= now /\ b.at \in Nat
      /\ b.conv \in Conversations /\ b.user \in Users
      /\ b.page \cup b.shown \cup b.due \subseteq Posted(b.conv)
      /\ b.page \subseteq Messages /\ b.shown \subseteq Messages
      /\ b.due \subseteq Messages
  BY <1>2, LimitsAssumption DEF IInv, TypeOK, Client, ReadOK
<1>4. \A m \in Messages : row[m].created \in Nat
  BY DEF IInv, TypeOK, MessageRow
<1>5. /\ lastRead' = [lastRead EXCEPT ![b.conv] =
                        [u \in Users |-> IF u \in Marked(b.user) THEN b.at
                                         ELSE lastRead[b.conv][u]]]
      /\ UNCHANGED <<conversations, row, now, history>>
  BY <1>1 DEF CommitRead
<1>6. lastRead' \in [Conversations -> [Users -> Nat]]
  BY <1>3, <1>5 DEF IInv, TypeOK
<1>7. \A c \in Conversations, u \in Users :
         \/ lastRead'[c][u] = lastRead[c][u]
         \/ c = b.conv /\ u = b.user /\ lastRead'[c][u] <= now
  BY <1>3, <1>5 DEF IInv, TypeOK, Marked
<1>8. CASE b.more
  <2>1. PICK cursor \in NextCursor(b.page) :
            Move(r, [b EXCEPT !.step = "paging", !.cursor = cursor,
                              !.shown = @ \cup b.page, !.page = {}, !.at = 0])
    BY <1>1, <1>8 DEF CommitRead
  <2>2. PICK n \in b.page : /\ cursor = row[n].created
                            /\ \A k \in b.page : row[n].created <= row[k].created
    BY DEF NextCursor
  <2> DEFINE a == [b EXCEPT !.step = "paging", !.cursor = cursor,
                            !.shown = @ \cup b.page, !.page = {}, !.at = 0]
  <2>3. cursor \in Nat /\ n \in Messages
    BY <1>3, <1>4, <2>2
  <2>4. /\ a \in Client
        /\ a.op = b.op /\ a.step = "paging" /\ a.at = 0 /\ a.conv = b.conv
        /\ a.user = b.user /\ a.message = b.message /\ a.cursor = cursor
        /\ a.page = {} /\ a.shown = b.shown \cup b.page /\ a.due = b.due
    BY <1>3, <2>3 DEF Client
  <2>5. Move(r, a)
    BY <2>1
  <2> HIDE DEF a
  <2>6. ASSUME NEW m \in a.shown PROVE cursor <= row[m].created
    <3>1. CASE m \in b.page
      BY <2>2, <3>1
    <3>2. CASE m \in b.shown
      <4>1. b.cursor # NoCursor /\ b.cursor \in Nat
        BY <1>2, <3>2 DEF PageOK, Client
      <4>2. row[n].created < b.cursor /\ b.cursor <= row[m].created
        BY <1>2, <3>2, <4>1 DEF PageOK
      <4>3. QED
        BY <1>3, <1>4, <2>2, <2>3, <3>2, <4>1, <4>2
    <3>3. QED
      BY <2>4, <3>1, <3>2
  <2>7. ASSUME NEW m \in a.due PROVE Covered(a, m) \/ row[m].created < cursor
    <3>1. \/ Covered(b, m) \/ m \in b.page
          \/ row[m].created <= row[n].created
      BY <1>2, <2>2, <2>4 DEF PageOK
    <3>2. Covered(b, m) => Covered(a, m)
      BY <2>4 DEF Covered
    <3>3. m \in b.page => Covered(a, m)
      BY <2>4 DEF Covered
    <3>4. row[m].created = row[n].created => Covered(a, m)
      BY <2>2, <2>4 DEF Covered
    <3>5. m \in Messages
      BY <1>3, <2>4
    <3>6. QED
      BY <1>4, <2>2, <2>3, <3>1, <3>2, <3>3, <3>4, <3>5
  <2>8. ScrollOK(a)
    BY <2>3, <2>4, <2>6, <2>7 DEF ScrollOK
  <2>9. ReadOK(a)
    BY <1>2, <1>3, <2>4, <2>8 DEF ReadOK
  <2>10. QED
    BY <1>1, <1>2, <1>5, <1>6, <1>7, <2>4, <2>5, <2>9, ReadIInv DEF Opening
<1>9. CASE ~b.more
  <2> DEFINE a == [b EXCEPT !.step = "end", !.shown = @ \cup b.page,
                            !.page = {}, !.at = 0]
  <2>1. Move(r, a)
    BY <1>1, <1>9 DEF CommitRead
  <2>2. /\ a \in Client
        /\ a.op = b.op /\ a.step = "end" /\ a.at = 0 /\ a.conv = b.conv
        /\ a.user = b.user /\ a.message = b.message /\ a.page = {}
        /\ a.shown = b.shown \cup b.page /\ a.due = b.due
    BY <1>3 DEF Client
  <2> HIDE DEF a
  <2>3. \A m \in a.due : Covered(a, m)
    BY <1>2, <1>9, <2>2 DEF PageOK, Covered
  <2>4. ReadOK(a)
    BY <1>2, <1>3, <2>2, <2>3 DEF ReadOK
  <2>5. QED
    BY <1>1, <1>2, <1>5, <1>6, <1>7, <2>1, <2>2, <2>4, ReadIInv DEF Opening
<1>10. QED
  BY <1>8, <1>9

\* A page is read.
LEMMA FetchIInv ==
    ASSUME IInv, NEW r \in Requests, ~Sending(r), ~Opening(r),
           NEW u \in Users, NEW c \in conversations,
           NEW cursor \in Nat \cup {NoCursor},
           NEW shown \in SUBSET Posted(c), NEW due \in SUBSET Posted(c),
           cursor = NoCursor => shown = {},
           cursor # NoCursor =>
               /\ \A m \in shown : cursor <= row[m].created
               /\ \A m \in due : \/ m \in shown
                                 \/ \E n \in shown : row[n].created = row[m].created
                                 \/ row[m].created < cursor,
           Fetch(r, u, c, cursor, shown, due)
    PROVE  IInv'
<1> DEFINE d(page, limit) ==
               [Idle EXCEPT
                   !.op = "read", !.step = "fetched", !.user = u, !.conv = c,
                   !.cursor = cursor, !.page = page,
                   !.more = Cardinality(page) = limit,
                   !.shown = shown, !.due = due]
<1>1. PICK limit \in Limits :
          \E page \in Pages(Older(c, cursor), limit) : Move(r, d(page, limit))
  BY DEF Fetch
<1>2. PICK page \in Pages(Older(c, cursor), limit) : Move(r, d(page, limit))
  BY <1>1
<1>3. /\ c \in Conversations /\ now \in Nat
      /\ Posted(c) \subseteq Messages /\ page \subseteq Older(c, cursor)
      /\ Older(c, cursor) \subseteq Posted(c)
  BY LimitsAssumption DEF IInv, TypeOK, Posted, Pages, Older
<1>4. PICK a \in Client :
          /\ Move(r, a)
          /\ a.op = "read" /\ a.step = "fetched" /\ a.user = u /\ a.conv = c
          /\ a.message = NoMessage /\ a.at = 0 /\ a.cursor = cursor
          /\ a.page = page /\ a.more = (Cardinality(page) = limit)
          /\ a.shown = shown /\ a.due = due
  <2> DEFINE e == d(page, limit)
  <2>1. (Cardinality(page) = limit) \in BOOLEAN
    OBVIOUS
  <2>2. /\ e \in Client
        /\ e.op = "read" /\ e.step = "fetched" /\ e.user = u /\ e.conv = c
        /\ e.message = NoMessage /\ e.at = 0 /\ e.cursor = cursor
        /\ e.page = page /\ e.more = (Cardinality(page) = limit)
        /\ e.shown = shown /\ e.due = due
    BY <1>3, <2>1 DEF Client, Idle, Posted
  <2>3. QED
    BY <1>2, <2>2
<1>5. /\ client' \in [Requests -> Client] /\ client'[r] = a
      /\ \A p \in Requests : p # r => client'[p] = client[p]
  BY <1>4, MoveFact
<1>6. /\ opened' = opened \cup {m \in Posted(c) : row[m].sender # u}
      /\ raced' = raced \cup {client[q].message : q \in {p \in Requests :
                      /\ Sending(p) /\ client[p].user # u
                      /\ client[p].conv \in {NoConversation, c}}}
      /\ UNCHANGED <<conversations, row, lastRead, now, together>>
  BY DEF Fetch
<1>7. TypeOK'
  <2>1. \A p \in Requests : Sending(p) => client[p].message \in Messages
    BY DEF IInv, ClientsOK, ClientOK, SendOK, Sending
  <2>2. raced' \subseteq Messages /\ opened' \subseteq Messages
    BY <1>3, <1>6, <2>1 DEF IInv, TypeOK
  <2>3. QED
    BY <1>5, <1>6, <2>2 DEF IInv, TypeOK
<1>8. RowsOK' /\ ClientsOK' /\ MessagesApart'
  <2>1. ASSUME NEW m \in due, ~Covered(a, m), m \notin page
        PROVE  a.more /\ \A n \in page : row[m].created <= row[n].created
    <3>1. m \in Older(c, cursor)
      BY <1>4, <2>1 DEF Older, Covered
    <3>2. QED
      BY <1>4, <2>1, <3>1 DEF Pages
  <2>2. \A m \in page : cursor # NoCursor => row[m].created < cursor
    BY <1>3 DEF Older
  <2>3. PageOK(a)
    BY <1>4, <2>1, <2>2 DEF PageOK
  <2>4. ReadOK(a)
    BY <1>3, <1>4, <2>3 DEF ReadOK
  <2>5. ClientOK(a)
    BY <1>4, <2>4 DEF ClientOK
  <2>6. QED
    BY <1>4, <1>6, <2>5, QuietClients
<1>9. \A p \in Requests : /\ Sending(p)' => Sending(p)
                          /\ Sending(p) => p # r /\ client'[p] = client[p]
                          /\ p # r => Opening(p)' = Opening(p)
  BY <1>4, <1>5 DEF Sending, Opening
<1>10. ConversationsOK'
  <2>1. \A p \in Requests : At(p, "start", "insert") => Sending(p)
    BY DEF At, Sending
  <2>2. Involved' = Involved
    BY <1>4, <1>5, <1>6, <1>9, <2>1 DEF Involved, At
  <2>3. QED
    BY <1>6, <2>2 DEF IInv, ConversationsOK
<1>11. UnreadOK'
  BY <1>6, <1>9 DEF IInv, UnreadOK, Posted, Concerns
<1>12. OpenOK'
  <2>1. SUFFICES ASSUME NEW q \in Requests, Opening(q)'
                 PROVE  /\ \A n \in Posted(client[q].conv)' :
                              row'[n].sender # client'[q].user
                                 => n \in opened' \cup raced'
                        /\ \A p \in Requests :
                              /\ Sending(p)' /\ client'[p].user # client'[q].user
                              /\ Concerns(client'[p], client'[q].conv)
                              => client'[p].message \in raced'
    BY DEF OpenOK, Concerns
  <2>2. CASE q = r
    <3>1. Posted(client[q].conv)' = Posted(c)
      BY <1>4, <1>5, <1>6, <2>2 DEF Posted
    <3>2. QED
      BY <1>4, <1>5, <1>6, <1>9, <2>2, <3>1 DEF Concerns
  <2>3. CASE q # r
    <3>1. Opening(q) /\ client'[q] = client[q]
      BY <1>5, <1>9, <2>1, <2>3
    <3>2. Posted(client[q].conv)' = Posted(client[q].conv)
      BY <1>6, <3>1 DEF Posted
    <3>3. QED
      BY <1>6, <1>9, <3>1, <3>2 DEF IInv, OpenOK
  <2>4. QED
    BY <2>2, <2>3
<1>13. QED
  BY <1>7, <1>8, <1>10, <1>11, <1>12 DEF IInv

LEMMA OpenIInv ==
    ASSUME IInv, NEW r \in Requests, NEW u \in Users, NEW c \in Conversations,
           OpenConversation(r, u, c)
    PROVE  IInv'
<1>1. ~Sending(r) /\ ~Opening(r)
  BY IdleFields DEF OpenConversation, Sending, Opening
<1>2. c \in conversations /\ Fetch(r, u, c, NoCursor, {}, Posted(c))
  BY DEF OpenConversation
<1>3. {} \in SUBSET Posted(c) /\ Posted(c) \in SUBSET Posted(c)
  OBVIOUS
<1>4. NoCursor \in Nat \cup {NoCursor}
  OBVIOUS
<1>5. QED
  BY <1>1, <1>2, <1>3, <1>4, FetchIInv

LEMMA NextPageIInv ==
    ASSUME IInv, NEW r \in Requests, NextPage(r) PROVE IInv'
<1>1. PICK b \in Client : b = client[r] /\ ClientOK(b)
  BY DEF IInv, TypeOK, ClientsOK
<1>2. b.op = "read" /\ b.step = "paging" /\ ReadOK(b) /\ ScrollOK(b)
  BY <1>1 DEF NextPage, At, ClientOK, ReadOK
<1>3. ~Sending(r) /\ ~Opening(r)
  BY <1>1, <1>2 DEF Sending, Opening
<1>4. Fetch(r, b.user, b.conv, b.cursor, b.shown, b.due)
  BY <1>1 DEF NextPage
<1>5. /\ b.user \in Users /\ b.conv \in conversations
      /\ b.cursor \in Nat \cup {NoCursor} /\ b.cursor # NoCursor
      /\ b.shown \in SUBSET Posted(b.conv) /\ b.due \in SUBSET Posted(b.conv)
  BY <1>2, NamesAssumption DEF Client, ReadOK, ScrollOK
<1>6. /\ \A m \in b.shown : b.cursor <= row[m].created
      /\ \A m \in b.due : \/ m \in b.shown
                          \/ \E n \in b.shown : row[n].created = row[m].created
                          \/ row[m].created < b.cursor
  <2>1. \A m \in b.shown : b.cursor <= row[m].created
    BY <1>2 DEF ScrollOK
  <2>2. \A m \in b.due : Covered(b, m) \/ row[m].created < b.cursor
    BY <1>2 DEF ScrollOK
  <2>3. QED
    BY <2>1, <2>2 DEF Covered
<1>7. QED
  BY <1>3, <1>4, <1>5, <1>6, FetchIInv

\* Every step.
LEMMA NextIInv == IInv /\ [Next]_vars => IInv'
<1> SUFFICES ASSUME IInv, [Next]_vars PROVE IInv'
  OBVIOUS
<1>1. CASE UNCHANGED vars
  <2>1. UNCHANGED <<conversations, row, lastRead, client, now, opened, raced,
                    together>>
    BY <1>1 DEF vars, history
  <2>2. TypeOK' /\ RowsOK' /\ MessagesApart'
    BY <2>1 DEF IInv, TypeOK, RowsOK, MessagesApart
  <2>3. ClientsOK'
    BY <2>1 DEF IInv, ClientsOK, ClientOK, SendOK, ReadOK, PageOK, ScrollOK,
                Covered, Posted
  <2>4. ConversationsOK' /\ UnreadOK' /\ OpenOK'
    BY <2>1 DEF IInv, ConversationsOK, Involved, At, UnreadOK, OpenOK, Posted,
                Sending, Opening, Concerns
  <2>5. QED
    BY <2>2, <2>3, <2>4 DEF IInv
<1>2. CASE Tick
  BY <1>2, TickIInv
<1>3. ASSUME NEW r \in Requests, NEW m \in Messages, StartConversation(r, m)
      PROVE  IInv'
  BY <1>3, BeginIInv DEF StartConversation, Users
<1>4. ASSUME NEW r \in Requests, NEW u \in Users, NEW c \in Conversations,
             NEW m \in Messages, SendMessage(r, u, c, m)
      PROVE  IInv'
  BY <1>4, BeginIInv DEF SendMessage
<1>5. ASSUME NEW r \in Requests, Read(r) PROVE IInv'
  BY <1>5, MarkReadIInv, CommitReadIInv, NextPageIInv, EndIInv DEF Read, Leave
<1>6. ASSUME NEW r \in Requests, Fail(r) PROVE IInv'
  BY <1>6, EndIInv DEF Fail
<1>7. QED
  BY <1>1, <1>2, <1>3, <1>4, <1>5, <1>6, FindIInv, CommitMessageIInv, OpenIInv
     DEF Next

-----------------------------------------------------------------------------

\* Whatever is sent and read, and whichever requests fail, IInv holds.
THEOREM Invariance == Spec => []IInv
BY InitIInv, NextIInv, PTL DEF Spec

\* Every variable keeps its type.
THEOREM TypeCorrect == Spec => []TypeOK
<1>1. IInv => TypeOK
  BY DEF IInv
<1>2. QED
  BY <1>1, Invariance, PTL

\* A second conversation comes only of first messages that were sent together.
THEOREM OneConversationProved == Spec => []OneConversationUnlessTogether
<1>1. ASSUME IInv, ~together PROVE Cardinality(conversations) <= 1
  <2>1. \A c, d \in conversations : c = d
    BY <1>1 DEF IInv, ConversationsOK, Involved
  <2>2. CASE conversations = {}
    BY <2>2, FS_EmptySet
  <2>3. ASSUME NEW c \in conversations PROVE Cardinality(conversations) = 1
    <3>1. conversations = {c}
      BY <2>1, <2>3
    <3>2. QED
      BY <3>1, FS_Singleton
  <2>4. QED
    BY <2>2, <2>3
<1>2. IInv => OneConversationUnlessTogether
  BY <1>1 DEF OneConversationUnlessTogether
<1>3. QED
  BY <1>2, Invariance, PTL

\* A message that its recipient could not have seen stays unread.
THEOREM UnopenedStaysUnreadProved == Spec => []UnopenedStaysUnread
<1>1. ASSUME IInv, NEW c \in conversations, NEW m \in Posted(c), NEW u \in Users,
             row[m].sender # u, m \notin opened \cup raced
      PROVE  m \in Unread(u, c) \/ row[m].created = lastRead[c][u]
  <2>1. c \in Conversations /\ m \in Messages
    BY <1>1 DEF IInv, TypeOK, Posted
  <2>2. lastRead[c][u] \in Nat /\ row[m].created \in Nat
    BY <1>1, <2>1 DEF IInv, TypeOK, MessageRow
  <2>3. lastRead[c][u] <= row[m].created
    BY <1>1, <2>1 DEF IInv, UnreadOK
  <2>4. QED
    BY <1>1, <2>2, <2>3 DEF Unread
<1>2. IInv => UnopenedStaysUnread
  BY <1>1 DEF UnopenedStaysUnread
<1>3. QED
  BY <1>2, Invariance, PTL

\* Scrolling shows everything once, but for ties at the borders of pages.
THEOREM PagesCompleteProved == Spec => []PagesComplete
<1>1. ASSUME IInv, NEW r \in Requests, At(r, "read", "end"),
             NEW m \in client[r].due \ client[r].shown
      PROVE  \E n \in client[r].shown : row[n].created = row[m].created
  BY <1>1 DEF IInv, ClientsOK, ClientOK, ReadOK, At, Covered
<1>2. ASSUME IInv, NEW r \in Requests, NEW m \in client[r].page \cap client[r].shown
      PROVE  FALSE
  <2>1. PICK b \in Client : b = client[r] /\ ClientOK(b)
    BY <1>2 DEF IInv, TypeOK, ClientsOK
  <2>2. m \in b.page /\ m \in b.shown /\ m \in Messages
    BY <1>2, <2>1 DEF Client
  <2>3. b.op = "read"
    BY <2>1, <2>2 DEF ClientOK, SendOK, Idle, Client
  <2>4. PageOK(b)
    BY <2>1, <2>2, <2>3 DEF ClientOK, ReadOK, ScrollOK
  <2>5. b.cursor \in Nat /\ row[m].created < b.cursor /\ b.cursor <= row[m].created
    BY <2>1, <2>2, <2>4 DEF PageOK, Client
  <2>6. row[m].created \in Nat
    BY <1>2, <2>2 DEF IInv, TypeOK, MessageRow
  <2>7. QED
    BY <2>5, <2>6
<1>3. IInv => PagesComplete
  BY <1>1, <1>2 DEF PagesComplete
<1>4. QED
  BY <1>3, Invariance, PTL

-----------------------------------------------------------------------------

\* No two first messages are under way at the same time.
FirstMessagesApart ==
    \A q, r \in Requests :
        client[q].op = "start" /\ client[r].op = "start" => q = r

AtMostOneConversation == Cardinality(conversations) <= 1

NotTogether == ~together

\* Two first messages meet only while both are under way.
LEMMA NextNotTogether ==
    FirstMessagesApart /\ NotTogether /\ [Next]_vars => NotTogether'
<1> SUFFICES ASSUME FirstMessagesApart, ~together, [Next]_vars PROVE ~together'
  BY DEF NotTogether
<1>1. ASSUME NEW r \in Requests, FindConversation(r) PROVE ~together'
  <2>1. \A q \in Requests : ~Creating(q)
    BY <1>1 DEF FindConversation, Creating, At, FirstMessagesApart
  <2>2. QED
    BY <1>1, <2>1 DEF FindConversation
<1>2. QED
  BY <1>1 DEF Next, vars, history, Tick, StartConversation, SendMessage, Begin,
     CommitMessage, OpenConversation, Read, MarkRead, CommitRead, NextPage,
     Fetch, Leave, Fail

\* "reuses the thread instead of creating a new one" (repository.py) is true of
\* a renter whose first messages follow one another.
THEOREM OneConversationAlone ==
    Spec /\ []FirstMessagesApart => []AtMostOneConversation
<1>1. Init => NotTogether
  BY DEF Init, NotTogether
<1>2. Spec /\ []FirstMessagesApart => []NotTogether
  BY <1>1, NextNotTogether, PTL DEF Spec
<1>3. NotTogether /\ OneConversationUnlessTogether => AtMostOneConversation
  BY DEF NotTogether, OneConversationUnlessTogether, AtMostOneConversation
<1>4. QED
  BY <1>2, <1>3, OneConversationProved, PTL

\* No message is under way while the conversation is being opened.
SentBeforeOrAfter == \A q, r \in Requests : ~(Sending(q) /\ Opening(r))

\* What the recipient has not opened the conversation after is unread.
UnopenedIsUnread ==
    \A c \in conversations : \A m \in Posted(c) : \A u \in Users :
       row[m].sender # u /\ m \notin opened
       => m \in Unread(u, c) \/ row[m].created = lastRead[c][u]

NotRaced == raced = {}

\* A message is recorded as raced only while it is under way.
LEMMA NextNotRaced ==
    IInv /\ SentBeforeOrAfter /\ SentBeforeOrAfter' /\ NotRaced /\ [Next]_vars
        => NotRaced'
<1> SUFFICES ASSUME IInv, SentBeforeOrAfter, SentBeforeOrAfter', raced = {}, [Next]_vars
             PROVE  raced' = {}
  BY DEF NotRaced
<1>1. ASSUME NEW r \in Requests, NEW op \in {"start", "send"}, NEW step, NEW u,
             NEW c, NEW m, Begin(r, op, step, u, c, m)
      PROVE  raced' = {}
  <2>1. /\ client'[r].op = op
        /\ \A q \in Requests : q # r => client'[q] = client[q]
    BY <1>1 DEF Begin, Move, Idle, IInv, TypeOK
  <2>2. \A q \in Requests : q # r => ~Opening(q)
    BY <1>1, <2>1 DEF SentBeforeOrAfter, Sending, Opening
  <2>3. ~Opening(r)
    BY <1>1 DEF Begin, Opening, Idle
  <2>4. QED
    BY <1>1, <2>2, <2>3 DEF Begin
<1>2. ASSUME NEW r \in Requests, NEW u, NEW c, NEW cursor, NEW shown, NEW due,
             Fetch(r, u, c, cursor, shown, due), ~Sending(r)
      PROVE  raced' = {}
  <2>1. \E limit \in Limits : \E page \in Pages(Older(c, cursor), limit) :
           Move(r, [Idle EXCEPT
                      !.op = "read", !.step = "fetched", !.user = u,
                      !.conv = c, !.cursor = cursor, !.page = page,
                      !.more = Cardinality(page) = limit,
                      !.shown = shown, !.due = due])
    BY <1>2 DEF Fetch
  <2>2. /\ client'[r].op = "read" /\ client'[r].step = "fetched"
        /\ \A q \in Requests : q # r => client'[q] = client[q]
    BY <2>1 DEF Move, Idle, IInv, TypeOK
  <2>3. \A q \in Requests : ~Sending(q)
    BY <1>2, <2>2 DEF SentBeforeOrAfter, Sending, Opening
  <2>4. QED
    BY <1>2, <2>3 DEF Fetch
<1>3. ASSUME NEW r \in Requests, NEW u, NEW c, OpenConversation(r, u, c)
      PROVE  raced' = {}
  <2>1. ~Sending(r)
    BY <1>3 DEF OpenConversation, Sending, Idle
  <2>2. QED
    BY <1>2, <1>3, <2>1 DEF OpenConversation
<1>4. ASSUME NEW r \in Requests, NextPage(r) PROVE raced' = {}
  <2>1. ~Sending(r)
    BY <1>4 DEF NextPage, At, Sending
  <2>2. QED
    BY <1>2, <1>4, <2>1 DEF NextPage
<1>5. QED
  BY <1>1, <1>3, <1>4
     DEF Next, vars, history, Tick, StartConversation, FindConversation,
         SendMessage, CommitMessage, Read, MarkRead, CommitRead, Leave, Fail

\* Where no message is sent while the conversation is being opened, the unread
\* count leaves out nothing that the recipient has not had the chance to see.
THEOREM UnopenedIsUnreadAlone ==
    Spec /\ []SentBeforeOrAfter => []UnopenedIsUnread
<1>1. Init => NotRaced
  BY DEF Init, NotRaced
<1>2. Spec /\ []SentBeforeOrAfter => []NotRaced
  BY <1>1, NextNotRaced, Invariance, PTL DEF Spec
<1>3. NotRaced /\ UnopenedStaysUnread => UnopenedIsUnread
  BY DEF NotRaced, UnopenedStaysUnread, UnopenedIsUnread
<1>4. QED
  BY <1>2, <1>3, UnopenedStaysUnreadProved, PTL
=============================================================================
