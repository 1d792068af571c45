CONSTANTS
    s1 = s1
    s2 = s2
    Sessions = {s1, s2}
    Chats = {"general"}
    Messages = {1}
    ChatOf <- MCChatOf
    Membership = {1}
    Cursors <- MCCursors
    MaxUnread = 1
    NoRevision = NoRevision
    MaxSequence = 2
    MaxFlights = 1

SPECIFICATION Spec

SYMMETRY SessionSymmetry

INVARIANTS
    CacheCoherent
    AnswersWereTrue
    AnswersComplete

PROPERTIES
    RevisionsAdvance
