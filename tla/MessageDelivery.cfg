CONSTANTS
    Messages = {1, 2, 3}
    Items = {1, 2, 3}
    Audio = {2, 3}
    Uploads = {1}
    ChannelSize = 1
    RefillLimit = 2
    Conversations <- MCConversations

SPECIFICATION Spec

INVARIANTS
    CreatesRepeat
    CreatesInTurn
    NothingForgotten

PROPERTIES
    Settles

CHECK_DEADLOCK FALSE
