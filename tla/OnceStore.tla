----------------------------- MODULE OnceStore -----------------------------
(***************************************************************************)
(* What the message store promises to clients that repeat their requests   *)
(* (send_prepared_message in services/messages.rs): a request is stored at *)
(* most once, and every answer to it names the message it was stored as;   *)
(* another request with its key is neither stored nor answered.            *)
(***************************************************************************)
CONSTANTS
    Requests,   \* records with a field key
    Ids

VARIABLES
    stored,     \* messages: records [id, request]
    answered    \* what clients were told: records [id, request]

vars == <<stored, answered>>

Message(q, i) == [id |-> i, request |-> q]

Init == stored = {} /\ answered = {}

(* The first request with its key is stored under a new id, and answered.  *)
Accept(q, i) ==
    /\ \A m \in stored : m.request.key # q.key /\ m.id # i
    /\ stored' = stored \cup {Message(q, i)}
    /\ answered' = answered \cup {Message(q, i)}

(* The answer to a repeated request.                                       *)
Repeat(q, i) ==
    /\ Message(q, i) \in stored
    /\ answered' = answered \cup {Message(q, i)}
    /\ UNCHANGED stored

Next == \E q \in Requests, i \in Ids : Accept(q, i) \/ Repeat(q, i)

Spec == Init /\ [][Next]_vars
=============================================================================
