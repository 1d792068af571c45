------------------------- MODULE MCMessageDelivery -------------------------
(* One message of each kind, with most disturbances; a text message with   *)
(* uploads before an audio one; two audio messages.                        *)
EXTENDS MessageDelivery

Conversation(messages, n) == [used |-> messages, budget |-> n]

MCConversations ==
    {Conversation({1}, 3), Conversation({2}, 2),
     Conversation({1, 2}, 1), Conversation({2, 3}, 0)}
=============================================================================
