---------------------------- MODULE RpcDispatch ----------------------------
(***************************************************************************)
(* The dispatching half of one RPC session (rpc/session.rs): the serve     *)
(* loop reads frames, admits their calls as supervised tasks or into the   *)
(* serial control lane, assembles batches and answers.  A call is          *)
(* identified by its position in the order the loop scheduled it; a frame, *)
(* by its position in the order the loop read it.                          *)
(*                                                                         *)
(* The order of the lane and of the result channel is left open (any       *)
(* queued call may come next): what is said here holds for every order.    *)
(* The identity of the session, its watches and its events are the subject *)
(* of RpcSession.                                                          *)
(***************************************************************************)
EXTENDS Integers, Sequences, FiniteSets

CONSTANTS
    Ids,            \* request ids
    NoId,           \* a notification
    Clients,        \* per client: the messages it may send, the bounds on its
                    \* calls and frames
    MaxBatch,       \* MAX_BATCH_ITEMS
    InFlight,       \* MAX_IN_FLIGHT
    ControlQueue,   \* CONTROL_QUEUE
    ResultQueue,    \* RESULT_QUEUE
    MaxCalls,       \* the largest of these bounds
    MaxFrames

\* "opening" is session.open and auth.createDevSession, "control" the other
\* session and control methods, "ordinary" reads and mutations; "unknown" is a
\* method nobody registered and "invalid" an item that is not a request.
Classes == {"opening", "control", "ordinary", "unknown", "invalid"}

ASSUME IdsAssumption == NoId \notin Ids
ASSUME BoundsAssumption ==
    /\ MaxBatch \in Nat \ {0} /\ InFlight \in Nat /\ ControlQueue \in Nat
    /\ ResultQueue \in Nat \ {0} /\ MaxCalls \in Nat /\ MaxFrames \in Nat

Item == {c \in [id : Ids \cup {NoId}, class : Classes] :
            c.class = "invalid" => c.id = NoId}
Frame == [batch : BOOLEAN, items : UNION {[1..k -> Item] : k \in 0..MaxBatch}]

\* Single calls, and batches of up to k of them.
Messages(items, k) ==
    {[batch |-> FALSE, items |-> <<c>>] : c \in items}
    \cup {[batch |-> TRUE, items |-> s] : s \in UNION {[1..n -> items] : n \in 1..k}}

ASSUME ClientsAssumption ==
    \A c \in Clients :
        /\ c.messages \subseteq Messages(Item, MaxBatch)
        /\ c.calls \in 0..MaxCalls /\ c.frames \in 0..MaxFrames

VARIABLES
    client,         \* ghost: which of Clients this one is
    closed,         \* the transport state
    serving,        \* serve_rpc_session has not left its loop
    first,          \* first_message
    handshaking,    \* handshake_pending
    accepting,      \* SessionState.accepting
    guard,          \* a lifecycle failure waits in guard_rx
    read,           \* number of frames read
    frame,          \* the frame being scheduled
    calls,          \* every call of the session, in order
    outstanding,    \* the ids in use
    pending         \* per batch under assembly: results still expected

sessionVars == <<closed, serving, first, handshaking, accepting, guard,
          read, frame, calls, outstanding, pending>>
vars == <<client, sessionVars>>

-----------------------------------------------------------------------------
Stages == {"running", "queued", "executing", "finished", "resulted", "held",
           "answered", "silent", "dropped", "lost"}
Outcomes == {"none", "ok", "error", "lifecycle", "refused"}
Call == [id : Ids \cup {NoId}, class : Classes, frame : 1..MaxFrames,
         batch : BOOLEAN, stage : Stages, outcome : Outcomes]
Idle == [batch |-> FALSE, items |-> <<>>]

TypeOK ==
    /\ client \in Clients
    /\ closed \in BOOLEAN /\ serving \in BOOLEAN
    /\ first \in BOOLEAN /\ handshaking \in BOOLEAN
    /\ accepting \in BOOLEAN /\ guard \in BOOLEAN
    /\ read \in 0..MaxFrames
    /\ frame \in Frame
    /\ calls \in Seq(Call) /\ Len(calls) <= MaxCalls
    /\ outstanding \subseteq Ids
    /\ DOMAIN pending \subseteq 1..MaxFrames
    /\ \A f \in DOMAIN pending : pending[f] \in 0..MaxBatch

Init ==
    /\ client \in Clients
    /\ closed = FALSE /\ serving = TRUE
    /\ first = TRUE /\ handshaking = FALSE
    /\ accepting = TRUE /\ guard = FALSE
    /\ read = 0 /\ frame = Idle
    /\ calls = <<>> /\ outstanding = {} /\ pending = <<>>

At(stages) == {n \in DOMAIN calls : calls[n].stage \in stages}
Live == At({"running", "queued", "executing", "finished", "resulted", "held"})
Of(f) == {n \in DOMAIN calls : calls[n].frame = f}
NoRequestIds(f) == {}         \* mutant: a batch forgets its request_ids
RequestIds(f) == {calls[n].id : n \in Of(f)} \ {NoId}

\* A response is owed to every call with an id, and to an invalid item.
Responds(c) == c.id # NoId \/ c.class = "invalid"
CountsTowardBatch(c) == c.id # NoId \/ c.class = "opening"

\* Permits are released when the supervised task ends: after its result was
\* accepted by the result channel.
OrdinaryPermits ==
    {n \in At({"running", "finished"}) : calls[n].class = "ordinary"}
ControlPermits ==
    {n \in At({"running", "queued", "executing", "finished"}) :
        calls[n].class \in {"opening", "control"}}

Restage(S, stage) ==
    [n \in DOMAIN calls |->
        IF n \in S THEN [calls[n] EXCEPT !.stage = stage] ELSE calls[n]]

KeptAssembly(f) == pending    \* mutant: a flushed batch stays in the table
Without(f) == [g \in DOMAIN pending \ {f} |-> pending[g]]

-----------------------------------------------------------------------------
(* Reading a frame.                                                        *)

\* The loop waits in select!.  It looked whether the transport was closed
\* before, and another arm may still win when it has been closed since.
Waiting == serving /\ frame = Idle

\* The loop sees the transport closed, or its send fails: it ends.
Leave == closed' = TRUE /\ serving' = FALSE

\* No other frame until the first identity and its answer are settled.
Ungated == TRUE               \* mutant: handshake_pending is not looked at
Gated == ~handshaking

Room(k) == read < client.frames /\ Len(calls) + k <= client.calls

\* A text that does not parse is answered with a null id and, wherever it
\* comes, leaves no trace.
ReceiveMalformed ==
    /\ Waiting /\ Gated /\ Room(0)
    /\ read' = read + 1
    /\ \/ ~closed /\ UNCHANGED <<closed, serving>>
       \/ Leave
    /\ UNCHANGED <<first, handshaking, accepting, guard,
                   frame, calls, outstanding, pending>>

\* The first message must be session.open with an id.  The class "opening"
\* does not tell the two opening methods apart: an opening call that comes
\* first stands for session.open, and auth.createDevSession in its place for
\* any other message that is refused.
OpensSession(f) ==
    /\ ~f.batch
    /\ f.items[1].class = "opening" /\ f.items[1].id # NoId

ReceiveMessage(f) ==
    /\ Waiting /\ Gated /\ Room(Len(f.items))
    /\ read' = read + 1
    /\ first' = FALSE
    /\ \/ /\ first => OpensSession(f)
          /\ handshaking' = first
          /\ frame' = f
          /\ pending' = IF f.batch
                        THEN [g \in DOMAIN pending \cup {read + 1} |->
                                IF g = read + 1 THEN 0 ELSE pending[g]]
                        ELSE pending
          /\ UNCHANGED <<closed, serving>>
       \/ /\ first /\ ~OpensSession(f)
          /\ Leave
          /\ UNCHANGED <<handshaking, frame, pending>>
    /\ UNCHANGED <<accepting, guard, calls, outstanding>>

-----------------------------------------------------------------------------
(* Scheduling the calls of the frame, one by one (schedule_call).           *)

Next1 == Head(frame.items)

\* Takes the next call out of the frame and records it.
Schedule(stage, outcome) ==
    /\ calls' = Append(calls,
            [id |-> Next1.id, class |-> Next1.class, frame |-> read,
             batch |-> frame.batch, stage |-> stage, outcome |-> outcome])
    /\ frame' = IF frame.batch THEN [frame EXCEPT !.items = Tail(@)] ELSE Idle
    /\ UNCHANGED <<first, handshaking, accepting, guard, read>>

Scheduling(class) ==
    serving /\ frame.items # <<>> /\ Next1.class \in class

Claimed == IF Next1.id = NoId THEN outstanding ELSE outstanding \cup {Next1.id}
\* mutant: a batch member gives its id back when it has finished
FreshAmongRunning ==
    \A n \in At({"running", "queued", "executing"}) : calls[n].id # Next1.id
FreshAlways == TRUE           \* mutant: ids are not compared
Fresh == Next1.id \notin outstanding

\* InvalidRequest with a null id, and the end: the duplicate is not executed.
ScheduleDuplicate ==
    /\ Scheduling(Classes) /\ ~Fresh
    /\ Schedule("dropped", "none")
    /\ Leave
    /\ UNCHANGED <<outstanding, pending>>

\* An answer known without running the call.  A single call gets it at once and
\* gives its id back; a batch member waits, id in use, for the others.
RespondAtOnce(outcome) ==
    \/ /\ frame.batch
       /\ Schedule(IF Responds(Next1) THEN "held" ELSE "silent", outcome)
       /\ outstanding' = Claimed
       /\ UNCHANGED <<closed, serving>>
    \/ /\ ~frame.batch
       /\ outstanding' = outstanding
       /\ \/ /\ ~Responds(Next1)
             /\ Schedule("silent", outcome)
             /\ UNCHANGED <<closed, serving>>
          \/ /\ Responds(Next1) /\ ~closed
             /\ Schedule("answered", outcome)
             /\ UNCHANGED <<closed, serving>>
          \/ /\ Responds(Next1)
             /\ Schedule("lost", outcome)
             /\ Leave

ScheduleInvalid ==
    /\ Scheduling({"invalid"})
    /\ RespondAtOnce("error")
    /\ UNCHANGED pending

\* The connection's permits are used up, or those of the process are: other
\* sessions hold them.
ScheduleOverloaded ==
    /\ Scheduling({"ordinary"}) /\ Fresh
    /\ RespondAtOnce("error")
    /\ UNCHANGED pending

\* More controls than the lane was sized for: no answer, the session closes.
ScheduleBeyondLane ==
    /\ Scheduling({"opening", "control"}) /\ Fresh
    /\ Cardinality(ControlPermits) = ControlQueue + 1
    /\ Schedule("dropped", "none")
    /\ outstanding' = Claimed
    /\ closed' = TRUE
    /\ UNCHANGED <<serving, pending>>

Admits ==
    CASE Next1.class = "ordinary" -> Cardinality(OrdinaryPermits) < InFlight
      [] Next1.class \in {"opening", "control"} ->
            Cardinality(ControlPermits) < ControlQueue + 1
      [] OTHER -> TRUE

\* call_context refuses: closed, or suspended by a lifecycle failure.
ScheduleUnheard ==
    /\ Scheduling(Classes \ {"invalid"}) /\ Fresh /\ Admits
    /\ closed \/ ~accepting
    /\ Schedule("dropped", "none")
    /\ UNCHANGED <<closed, serving, outstanding, pending>>

ScheduleUnknown ==
    /\ Scheduling({"unknown"}) /\ Fresh
    /\ ~closed /\ accepting
    /\ RespondAtOnce("error")
    /\ UNCHANGED pending

ScheduleAdmitted ==
    /\ Scheduling({"opening", "control", "ordinary"}) /\ Fresh /\ Admits
    /\ ~closed /\ accepting
    /\ Schedule("running", "none")
    /\ outstanding' = Claimed
    /\ pending' = IF frame.batch /\ CountsTowardBatch(Next1)
                  THEN [pending EXCEPT ![read] = @ + 1]
                  ELSE pending
    /\ UNCHANGED <<closed, serving>>

-----------------------------------------------------------------------------
(* Batches.                                                                *)

\* mutant: the failure of a batch is overwritten by a later response
FailedThroughout(S, calls2) == \A n \in S : calls2[n].outcome = "lifecycle"
Failed(S, calls2) == \E n \in S : calls2[n].outcome = "lifecycle"

\* flush_batch and what follows it, for a batch whose members are in stages
\* `calls2`: one array of every response, or nothing when there is none.
Flush(f, calls2) ==
    LET held == {n \in DOMAIN calls2 :
                    calls2[n].frame = f /\ calls2[n].stage = "held"}
        as(stage) == [n \in DOMAIN calls2 |->
                        IF n \in held THEN [calls2[n] EXCEPT !.stage = stage]
                        ELSE calls2[n]]
    IN  /\ pending' = Without(f)
        /\ \/ /\ held = {}
              /\ calls' = calls2
              /\ outstanding' = outstanding \ RequestIds(f)
              /\ UNCHANGED <<closed, serving>>
           \/ /\ held # {} /\ ~closed
              /\ calls' = as("answered")
              /\ outstanding' = outstanding \ RequestIds(f)
              /\ IF Failed(held, calls2) THEN Leave
                 ELSE UNCHANGED <<closed, serving>>
           \/ /\ held # {}
              /\ calls' = as("lost")
              /\ Leave
              /\ UNCHANGED outstanding

\* Every item of the batch is scheduled: it is stored, or flushed at once when
\* nothing is expected.
FinishBatch ==
    /\ serving /\ frame.batch /\ frame.items = <<>>
    /\ frame' = Idle
    /\ IF pending[read] = 0
       THEN Flush(read, calls)
       ELSE UNCHANGED <<closed, serving, calls, outstanding, pending>>
    /\ UNCHANGED <<first, handshaking, accepting, guard, read>>

-----------------------------------------------------------------------------
(* Results (the results_rx arm).                                            *)

Suspends(c) == Responds(c) /\ c.outcome = "lifecycle"

\* close_after_error is set on the first message, whose call is the first.
HandshakeFailed(n) == n = 1 /\ calls[n].outcome # "ok"

SettleSingle(n) ==
    LET c == calls[n] IN
    /\ Waiting /\ c.stage = "resulted" /\ ~c.batch
    /\ outstanding' = outstanding \ {c.id}
    /\ handshaking' = FALSE
    /\ accepting' = (accepting /\ ~Suspends(c))
    /\ \/ /\ ~Responds(c)
          /\ calls' = Restage({n}, "silent")
          /\ UNCHANGED <<closed, serving>>
       \/ /\ Responds(c) /\ ~closed
          /\ calls' = Restage({n}, "answered")
          /\ IF Suspends(c) \/ HandshakeFailed(n)
             THEN Leave ELSE UNCHANGED <<closed, serving>>
       \/ /\ Responds(c)
          /\ calls' = Restage({n}, "lost")
          /\ Leave
    /\ UNCHANGED <<first, guard, read, frame, pending>>

\* mutants: the first result completes a batch; only results with an id count
LeftByNone(c) == 0
LeftOfRequests(c) ==
    IF c.id # NoId /\ pending[c.frame] > 0
    THEN pending[c.frame] - 1 ELSE pending[c.frame]
Left(c) ==
    IF CountsTowardBatch(c) /\ pending[c.frame] > 0
    THEN pending[c.frame] - 1 ELSE pending[c.frame]

\* A notification that ends after its batch was flushed finds no assembly.
SettleBatch(n) ==
    LET c == calls[n]
        f == c.frame
        kept == Restage({n}, IF Responds(c) THEN "held" ELSE "silent")
    IN
    /\ Waiting /\ c.stage = "resulted" /\ c.batch
    /\ handshaking' = FALSE
    /\ accepting' = (accepting /\ ~Suspends(c))
    /\ \/ /\ f \in DOMAIN pending /\ Left(c) = 0
          /\ Flush(f, kept)
       \/ /\ f \in DOMAIN pending /\ Left(c) > 0
          /\ calls' = kept
          /\ pending' = [pending EXCEPT ![f] = Left(c)]
          /\ UNCHANGED <<closed, serving, outstanding>>
       \/ /\ f \notin DOMAIN pending
          /\ calls' = Restage({n}, "silent")
          /\ UNCHANGED <<closed, serving, outstanding, pending>>
    /\ UNCHANGED <<first, guard, read, frame>>

\* A failed generation check, of a notification or of the periodic task.
Guard ==
    /\ Waiting /\ guard
    /\ accepting' = FALSE
    /\ Leave
    /\ UNCHANGED <<first, handshaking, guard, read, frame, calls, outstanding,
                   pending>>

\* wait_closed, or the head of the loop.
Stop ==
    /\ serving /\ closed /\ frame = Idle
    /\ Leave
    /\ UNCHANGED <<first, handshaking, accepting, guard, read, frame,
                   calls, outstanding, pending>>

-----------------------------------------------------------------------------
(* The supervised tasks and the control lane.                              *)

Sessionwide == <<serving, first, handshaking, accepting, read, frame,
                 outstanding, pending>>

Ends(n, outcome) ==
    /\ calls' = [calls EXCEPT ![n].stage = "finished", ![n].outcome = outcome]
    /\ guard' = (guard \/ (outcome = "lifecycle" /\ calls[n].id = NoId))

\* An ordinary operation ends.  The first call is never one.
RunOrdinary(n) ==
    /\ calls[n].stage = "running" /\ calls[n].class = "ordinary"
    /\ \E outcome \in {"ok", "error", "lifecycle"} : Ends(n, outcome)
    /\ UNCHANGED <<closed, Sessionwide>>

Submits(n) ==
    calls[n].stage = "running" /\ calls[n].class \in {"opening", "control"}

\* The parameters are refused before the lane is reached.
RefuseParameters(n) ==
    /\ Submits(n)
    /\ Ends(n, "error")
    /\ UNCHANGED <<closed, Sessionwide>>

Submit(n) ==
    /\ Submits(n)
    /\ Cardinality(At({"queued"})) < ControlQueue
    /\ calls' = Restage({n}, "queued")
    /\ UNCHANGED <<closed, guard, Sessionwide>>

\* try_send finds the lane full: the session closes.
SubmitToFullLane(n) ==
    /\ Submits(n)
    /\ Cardinality(At({"queued"})) = ControlQueue
    /\ Ends(n, "refused")
    /\ closed' = TRUE
    /\ UNCHANGED Sessionwide

LaneTakes(n) ==
    /\ At({"executing"}) = {} /\ calls[n].stage = "queued"
    /\ calls' = Restage({n}, "executing")
    /\ UNCHANGED <<closed, guard, Sessionwide>>

\* Opening a session checks a token, not a bound session: it has no lifecycle
\* failure unless the session is bound already.
LaneReplies(n) ==
    /\ calls[n].stage = "executing"
    /\ \E outcome \in {"ok", "error", "lifecycle"} :
        /\ outcome = "lifecycle" => n # 1
        /\ Ends(n, outcome)
    /\ UNCHANGED <<closed, Sessionwide>>

\* run_controls ended: what is queued, or arrives, is answered Unavailable.
LaneGone(n) ==
    /\ closed
    /\ calls[n].stage = "queued" \/ Submits(n)
    /\ At({"executing"}) = {}
    /\ Ends(n, "error")
    /\ UNCHANGED <<closed, Sessionwide>>

\* A panic is caught; the result is not sent and the session closes.
Panic(n) ==
    /\ calls[n].stage = "running"
    /\ calls' = Restage({n}, "lost")
    /\ closed' = TRUE
    /\ UNCHANGED <<guard, Sessionwide>>

\* mutant: a task whose session is gone keeps waiting
DeliverToLoop(n) ==
    /\ calls[n].stage = "finished"
    /\ serving /\ Cardinality(At({"resulted"})) < ResultQueue
    /\ calls' = Restage({n}, "resulted")
    /\ UNCHANGED <<closed, guard, Sessionwide>>

Deliver(n) ==
    /\ calls[n].stage = "finished"
    /\ \/ /\ serving /\ Cardinality(At({"resulted"})) < ResultQueue
          /\ calls' = Restage({n}, "resulted")
       \/ /\ ~serving
          /\ calls' = Restage({n}, "lost")
    /\ UNCHANGED <<closed, guard, Sessionwide>>

\* The periodic check fails, once a session can be bound.
CheckFails ==
    /\ Len(calls) > 0 /\ ~guard /\ ~closed
    /\ calls[1].stage = "answered"
    /\ guard' = TRUE
    /\ UNCHANGED <<closed, calls, Sessionwide>>

\* The peer, a writer, an expired anonymous session or a lagging registry queue.
CloseTransport ==
    /\ ~closed
    /\ closed' = TRUE
    /\ UNCHANGED <<guard, calls, Sessionwide>>

-----------------------------------------------------------------------------
ScheduleNext ==
    \/ ScheduleDuplicate \/ ScheduleInvalid \/ ScheduleOverloaded
    \/ ScheduleBeyondLane \/ ScheduleUnheard \/ ScheduleUnknown
    \/ ScheduleAdmitted \/ FinishBatch

Settle(n) == SettleSingle(n) \/ SettleBatch(n)
Lane(n) == Submit(n) \/ SubmitToFullLane(n) \/ LaneTakes(n) \/ LaneReplies(n)
           \/ LaneGone(n)

SessionNext ==
    \/ ReceiveMalformed
    \/ \E f \in client.messages : ReceiveMessage(f)
    \/ ScheduleNext
    \/ Guard \/ Stop
    \/ \E n \in DOMAIN calls :
        Settle(n) \/ Lane(n) \/ RunOrdinary(n) \/ RefuseParameters(n)
        \/ Panic(n) \/ Deliver(n)
    \/ CheckFails \/ CloseTransport

Next == SessionNext /\ UNCHANGED client

\* The loop goes on, every admitted operation ends, the lane serves whoever
\* waits.  Nothing is assumed of the client.
Fairness ==
    /\ WF_sessionVars(ScheduleNext)
    /\ WF_sessionVars(Guard \/ Stop)
    /\ \A n \in 1..MaxCalls :
        /\ WF_sessionVars(n \in DOMAIN calls /\ Settle(n))
        /\ WF_sessionVars(n \in DOMAIN calls /\ (Lane(n) \/ RunOrdinary(n)))
        /\ WF_sessionVars(n \in DOMAIN calls /\ Deliver(n))

Spec == Init /\ [][Next]_vars
LiveSpec == Spec /\ Fairness
-----------------------------------------------------------------------------
(* Properties.                                                             *)

\* Neither closed nor suspended by a lifecycle failure.
Accountable == serving /\ ~closed /\ accepting

Uses(n) == n \in Live /\ calls[n].id # NoId

\* While the session accepts work, an id is in use exactly from the admission of
\* its request until the answer is enqueued, whichever way the answer came:
\* task, lane, overload, unknown method, with its batch (schedule_call, the two
\* result branches and flush_batch each give ids back).
OutstandingExact ==
    Accountable =>
        outstanding = {calls[n].id : n \in {m \in Live : Uses(m)}}

\* Two requests of the session never run, or wait, under one id
\* (outstanding.insert in schedule_call).
IdsExclusive ==
    Accountable =>
        \A m, n \in Live : Uses(m) /\ Uses(n) /\ m # n => calls[m].id # calls[n].id

\* Nothing is admitted before the handshake is answered (handshake_pending).
HandshakeAlone ==
    Len(calls) > 1 /\ serving => calls[1].stage = "answered"

\* What a batch still waits for is what was admitted for it and has not come
\* back: it is neither flushed early nor held forever.
PendingExact ==
    serving => \A f \in DOMAIN pending :
        /\ pending[f] = Cardinality({n \in Of(f) :
                /\ CountsTowardBatch(calls[n])
                /\ calls[n].stage \in {"running", "queued", "executing",
                                       "finished", "resulted"}})
           \/ closed
        /\ pending[f] > 0 \/ (frame.batch /\ f = read)

NewlyAnswered ==
    {n \in DOMAIN calls' : /\ calls'[n].stage = "answered"
                           /\ n \in DOMAIN calls => calls[n].stage # "answered"}

\* The answers enqueued by one step are one single answer, or all the answers
\* of one batch: none came earlier and none will come later.
AnsweredTogether ==
    [][NewlyAnswered # {} =>
        \E f \in 1..MaxFrames :
            LET of == {n \in DOMAIN calls' : calls'[n].frame = f}
            IN  NewlyAnswered = {n \in of :
                    Responds(calls'[n]) /\ calls'[n].stage # "dropped"}]_vars

\* Every request is answered unless its session ends: no order of results,
\* batches and rejections leaves one waiting in a live session.
RequestsSettle ==
    \A n \in 1..MaxCalls :
        (n \in Live /\ Responds(calls[n]))
            ~> (~serving \/ n \in At({"answered"}))

\* A session suspended by a lifecycle failure is closed (the batch that carries
\* the failure may have members to wait for).
SuspendedCloses == ~accepting ~> ~serving

\* Admitted work gives its permit back, whether its session still exists or
\* not: those permits are shared by the whole process.
PermitsReturn ==
    \A n \in 1..MaxCalls :
        (n \in OrdinaryPermits \cup ControlPermits)
            ~> (n \notin OrdinaryPermits \cup ControlPermits)

\* The session keeps the promise of RpcExchange while it is accountable.
Exchange == INSTANCE RpcExchange WITH
    Frames <- 1..MaxFrames,
    open <- Accountable,
    owed <- [f \in 1..MaxFrames |->
                IF Accountable
                THEN {calls[n].id : n \in {m \in Of(f) : Uses(m)}}
                ELSE {}],
    replied <- IF Accountable
               THEN {calls[n].frame : n \in At({"answered"})}
               ELSE {}
ImplementsExchange == Exchange!ExchangeSpec

\* The lane is sized as "One executing control and the existing bounded queue":
\* a control that got its permit finds room in the lane.
AdmittedControlFits == \A n \in DOMAIN calls : calls[n].outcome # "refused"
=============================================================================
