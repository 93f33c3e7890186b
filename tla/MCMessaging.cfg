SPECIFICATION Spec
CONSTANTS
    Requests = {r1, r2}
    Messages = {m1, m2}
    Conversations = {c1, c2}
    Limits = {1, 2}
    MaxTime = 2
    NoMessage = NoMessage
    NoConversation = NoConversation
    NoCursor = NoCursor
SYMMETRY Interchangeable
\* Messages and time run out.
CHECK_DEADLOCK FALSE
INVARIANTS TypeOK OneConversationUnlessTogether UnopenedStaysUnread PagesComplete
