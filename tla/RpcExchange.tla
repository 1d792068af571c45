---------------------------- MODULE RpcExchange ----------------------------
(***************************************************************************)
(* What an RPC session promises its client about request ids, whatever the *)
(* order in which the work behind them completes: an id names one request  *)
(* at a time, and the requests that arrived in one frame are answered      *)
(* together, in one frame, once.  A session that ends owes nothing more.   *)
(***************************************************************************)
CONSTANTS
    Frames,     \* the frames a client sends
    Ids         \* request ids

VARIABLES
    open,       \* the session is being served
    owed,       \* per frame: the ids the server still owes an answer
    replied     \* the frames that were answered

exchangeVars == <<open, owed, replied>>

ExchangeInit ==
    /\ open = TRUE
    /\ owed = [f \in Frames |-> {}]
    /\ replied = {}

Owed == UNION {owed[f] : f \in Frames}

Take(f, id) ==
    /\ open
    /\ f \notin replied
    /\ id \notin Owed
    /\ owed' = [owed EXCEPT ![f] = @ \cup {id}]
    /\ UNCHANGED <<open, replied>>

Reply(f) ==
    /\ open
    /\ f \notin replied
    /\ owed' = [owed EXCEPT ![f] = {}]
    /\ replied' = replied \cup {f}
    /\ UNCHANGED open

End ==
    /\ open
    /\ open' = FALSE
    /\ owed' = [f \in Frames |-> {}]
    /\ replied' = {}

ExchangeNext ==
    \/ \E f \in Frames, id \in Ids : Take(f, id)
    \/ \E f \in Frames : Reply(f)
    \/ End

ExchangeSpec == ExchangeInit /\ [][ExchangeNext]_exchangeVars
=============================================================================
