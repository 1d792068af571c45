--------------------------- MODULE MCMessageStore ----------------------------
(* One member on two connections.  Each of two keys is used for a message  *)
(* of the chat and, by a request that conflicts with it, for a reply to    *)
(* message 1; the messages of the second key are audio.                    *)
EXTENDS MessageStore, TLC

Request(key, root, audio) ==
    [key |-> key, user |-> "ann", root |-> root, audio |-> audio]

MCFirstRequest == Request("k0", NoId, FALSE)
MCRequests == {Request("k1", root, FALSE) : root \in {NoId, 1}}
              \cup {Request("k2", root, TRUE) : root \in {NoId, 1}}

SessionSymmetry == Permutations(Sessions)
=============================================================================
