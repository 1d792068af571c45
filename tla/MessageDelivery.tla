-------------------------- MODULE MessageDelivery --------------------------
(***************************************************************************)
(* A client's outbox, the server that stores its messages and the worker   *)
(* that publishes the audio ones, over a connection that loses requests,   *)
(* answers and events.                                                     *)
(*                                                                         *)
(* The server's handlers are one step each (MessageStore has their         *)
(* transactions); after the one of an audio message its sender still has   *)
(* to enqueue the job.  An answer and the events of the same handler reach *)
(* the client in any order.                                                *)
(***************************************************************************)
EXTENDS AudioTranscode, MessageOutbox

CONSTANTS
    Uploads,    \* messages with uploads
    Conversations \* records [used, budget]: the messages of a behaviour, and
                  \* its number of edits, recalls, losses, refusals and failures

ASSUME DeliveryAssumption ==
    /\ Items = Messages /\ Audio \subseteq Items /\ Uploads \subseteq Items
    /\ Conversations \subseteq [used : SUBSET Items, budget : Nat]

VARIABLES
    items,      \* the outbox
    online,     \* the session is authenticated
    late,       \* requests that the client has given up and the server may still run
    events,     \* on their way to the client
    budget      \* the number of disturbances that are left

clientVars == <<items, online, late, events, budget>>
vars == <<rows, workerVars, clientVars>>

Init ==
    /\ rows = [m \in Messages |-> NoRow]
    /\ WorkerInit
    /\ \E c \in Conversations :
           /\ items = [i \in Items |-> IF i \in c.used THEN Unused ELSE Removed(Unused)]
           /\ budget = c.budget
    /\ online = TRUE /\ late = {} /\ events = {}

Disturbs == budget > 0 /\ budget' = budget - 1

Client(next) ==
    /\ items' = next
    /\ UNCHANGED <<rows, workerVars, online, late, events, budget>>

-----------------------------------------------------------------------------
(* The user.                                                               *)

Add(i) ==
    /\ items[i].stage = "unused"
    /\ \A j \in Items : j < i => items[j].stage # "unused"
    /\ Client(Added(items, i, i \notin Uploads, online))

(* Only text messages are edited.                                          *)
Edit(i) ==
    /\ IsPending(items[i]) /\ ~items[i].cancelled
    /\ i \notin Audio
    /\ Disturbs
    /\ items' = Edited(items, i, online)
    /\ UNCHANGED <<rows, workerVars, online, late, events>>

Cancel(i) ==
    /\ ~items[i].cancelled
    /\ IsPending(items[i]) \/ (items[i].stage = "removed" /\ items[i].confirmed)
    /\ Disturbs
    /\ items' = Cancelled(items, i, online)
    /\ UNCHANGED <<rows, workerVars, online, late, events>>

Retry(i) ==
    /\ IsPending(items[i]) /\ items[i].failed
    /\ Client(Retried(items, i, online))

-----------------------------------------------------------------------------
(* The client's asynchronous steps.                                        *)

FinishUploads(i) ==
    /\ items[i].operation = "prepare"
    /\ Client(UploadsEnded(items, i, online))

FailUploads(i) ==
    /\ items[i].operation = "prepare"
    /\ Disturbs
    /\ \E again \in BOOLEAN : items' = UploadsFailed(items, i, again, online)
    /\ UNCHANGED <<rows, workerVars, online, late, events>>

Underway(answer) == answer \notin {"none", "sent"}

TakeAnswer(i) ==
    /\ Underway(items[i].answer)
    /\ Client(Answered(items, i, online))

TakeDeletion(i) ==
    /\ Underway(items[i].deletion)
    /\ Client(DeletionAnswered(items, i))

TakeCheck(i) ==
    /\ Underway(items[i].checking)
    /\ Client(CheckAnswered(items, i, online))

TimerFires(i) ==
    /\ items[i].timer
    /\ Client(Retried(items, i, online))

-----------------------------------------------------------------------------
(* The server.                                                             *)

Event(i, kind) == [item |-> i, kind |-> kind, content |-> rows'[i].content]

Told(what) == IF online THEN events \cup what ELSE events

Attaches(i) == i \in Uploads \cup Audio

(* The first create of a key stores its row; another is compared with it.  *)
RunCreate(i, revision) ==
    /\ rows' = IF rows[i].status # "absent" THEN rows
               ELSE [rows EXCEPT ![i] =
                       [NoRow EXCEPT !.content = revision, !.published = i \notin Audio,
                                     !.attached = Attaches(i),
                                     !.status = IF i \in Audio THEN "pending" ELSE "none"]]
    /\ unqueued' = IF i \in Audio /\ rows[i].status = "absent"
                   THEN unqueued \cup {i} ELSE unqueued
    /\ events' = IF i \in Audio \/ rows[i].status # "absent" THEN events
                 ELSE Told({Event(i, "created")})
    /\ UNCHANGED <<scheduled, processing, channel, worker, backlog, refilled>>

(* A repeated create is compared with the row and with the attachments     *)
(* that are not deleted.                                                   *)
Accepted(i, revision) ==
    \/ rows[i].status = "absent"
    \/ rows[i].content = revision /\ rows[i].attached = Attaches(i)

RunEdit(i, revision) ==
    /\ rows' = IF rows[i].published /\ ~rows[i].deleted
               THEN [rows EXCEPT ![i].content = revision] ELSE rows
    /\ events' = IF rows[i].published /\ ~rows[i].deleted
                 THEN Told({Event(i, "updated")}) ELSE events
    /\ UNCHANGED workerVars

RunDelete(i) ==
    /\ rows' = IF rows[i].published THEN [rows EXCEPT ![i].deleted = TRUE] ELSE rows
    /\ events' = IF rows[i].published /\ ~rows[i].deleted
                 THEN Told({Event(i, "deleted")}) ELSE events
    /\ UNCHANGED workerVars

Verdict(ok) == IF ok THEN "ok" ELSE "refused"

ServeCreate(i) ==
    LET t == items[i] IN
    /\ t.operation = "create" /\ t.answer = "sent"
    /\ RunCreate(i, t.inflight)
    /\ items' = [items EXCEPT ![i].answer = Verdict(Accepted(i, t.inflight))]
    /\ UNCHANGED <<online, late, budget>>

ServeEdit(i) ==
    LET t == items[i] IN
    /\ t.operation = "edit" /\ t.answer = "sent"
    /\ RunEdit(i, t.inflight)
    /\ items' = [items EXCEPT ![i].answer = Verdict(rows[i].published /\ ~rows[i].deleted)]
    /\ UNCHANGED <<online, late, budget>>

ServeDelete(i) ==
    /\ items[i].deletion = "sent"
    /\ RunDelete(i)
    /\ items' = [items EXCEPT ![i].deletion =
                     IF rows[i].deleted THEN "gone" ELSE Verdict(rows[i].published)]
    /\ UNCHANGED <<online, late, budget>>

(* messages.get finds no message that is not published or is deleted.      *)
ServeCheck(i) ==
    /\ items[i].checking = "sent"
    /\ items' = [items EXCEPT ![i].checking = Verdict(rows[i].published /\ ~rows[i].deleted)]
    /\ UNCHANGED <<rows, workerVars, online, late, events, budget>>

(* Creates, edits and deletions fail their checks: a right the sender has  *)
(* lost, an attachment that is not there.                                  *)
Refuse(i) ==
    /\ Disturbs
    /\ \/ /\ items[i].answer = "sent"
          /\ items' = [items EXCEPT ![i].answer = "refused"]
       \/ /\ items[i].deletion = "sent"
          /\ items' = [items EXCEPT ![i].deletion = "refused"]
    /\ UNCHANGED <<rows, workerVars, online, late, events>>

(* A request that nobody waits for any more.                               *)
ServeLate ==
    \E r \in late :
        /\ late' = late \ {r}
        /\ CASE r.kind = "create" -> RunCreate(r.item, r.revision)
             [] r.kind = "edit" -> RunEdit(r.item, r.revision)
             [] r.kind = "delete" -> RunDelete(r.item)
        /\ UNCHANGED <<items, online, budget>>

(* Somebody else deletes all messages of the member, published or not, and *)
(* their attachments (RunDelete leaves the attachments).                   *)
CleanUp ==
    LET gone == {m \in Messages : rows[m].status # "absent" /\ ~rows[m].deleted} IN
    /\ gone # {}
    /\ Disturbs
    /\ rows' = [m \in Messages |-> IF m \in gone
                                   THEN [rows[m] EXCEPT !.deleted = TRUE, !.attached = FALSE]
                                   ELSE rows[m]]
    /\ events' = Told({Event(m, "deleted") : m \in gone})
    /\ UNCHANGED <<workerVars, items, online, late>>

-----------------------------------------------------------------------------
(* The connection.                                                         *)

Abandoned(i) ==
    LET t == items[i] IN
    {r \in {[item |-> i, kind |-> t.operation, revision |-> t.inflight]} : t.answer = "sent"}
    \cup {r \in {[item |-> i, kind |-> "delete", revision |-> None]} : t.deletion = "sent"}

Lost(answer) == IF answer = "none" THEN "none" ELSE "lost"
LostIfSent(answer) == IF answer = "sent" THEN "lost" ELSE answer

(* A request times out after 30 s, or is refused as overloaded; the server *)
(* may have run it, or run it later.                                       *)
Timeout(i) ==
    /\ "sent" \in {items[i].answer, items[i].deletion, items[i].checking}
    /\ Disturbs
    /\ late' = late \cup Abandoned(i)
    /\ items' = [items EXCEPT ![i].answer = LostIfSent(@), ![i].deletion = LostIfSent(@),
                              ![i].checking = LostIfSent(@)]
    /\ UNCHANGED <<rows, workerVars, online, events>>

Dropped ==
    /\ online' = FALSE
    /\ late' = late \cup UNION {Abandoned(i) : i \in Items}
    /\ items' = [i \in Items |-> [items[i] EXCEPT !.answer = Lost(@), !.deletion = Lost(@),
                                                  !.checking = Lost(@)]]
    /\ events' = {}

(* Answers and events that have not arrived are lost with the connection.  *)
Disconnect ==
    /\ online
    /\ Disturbs
    /\ Dropped
    /\ UNCHANGED <<rows, workerVars>>

Restart ==
    /\ Disturbs
    /\ Dropped
    /\ WorkerRestarts
    /\ UNCHANGED rows

Reconnect ==
    /\ ~online
    /\ online' = TRUE
    /\ items' = Resynced(items, TRUE)
    /\ UNCHANGED <<rows, workerVars, late, events, budget>>

(* The page comes to the foreground, or the browser is online again.       *)
Resync ==
    /\ online
    /\ Client(Resynced(items, online))

DeliverEvent(i) ==
    \E e \in events :
        /\ e.item = i
        /\ events' = events \ {e}
        /\ items' = CASE e.kind = "created" -> Created(items, i, TRUE, online)
                      [] e.kind = "updated" -> UpdateSeen(items, i, e.content, online)
                      [] e.kind = "deleted" -> DeletionSeen(items, i, online)
        /\ UNCHANGED <<rows, workerVars, online, late, budget>>

(* The open conversation loads a range that holds the message; a deleted   *)
(* one is among its items if it was there before.                          *)
Load(i) ==
    /\ online /\ rows[i].published
    /\ Client(Released(items, i, rows[i], online))

-----------------------------------------------------------------------------
(* The audio worker.                                                       *)

Work ==
    /\ \/ RefillLoads \/ RefillEnqueues
       \/ Receive \/ Starts \/ Skips
    /\ UNCHANGED clientVars

EnqueueJob(i) == EnqueueSent(i) /\ UNCHANGED clientVars

PublishAudio ==
    /\ \E status \in {"done", "failed"} : Publishes(status)
    /\ events' = Told({Event(processing, "created")})
    /\ UNCHANGED <<items, online, late, budget>>

(* Something fails before, in, or after the publication, whose event is    *)
(* then not sent.                                                          *)
WorkFails ==
    /\ Disturbs
    /\ \/ RefillFails \/ JobFails \/ Panics
       \/ Publishes("done")
    /\ UNCHANGED <<items, online, late, events>>

-----------------------------------------------------------------------------
ClientStep(i) ==
    \/ FinishUploads(i) \/ TakeAnswer(i) \/ TakeDeletion(i)
    \/ TimerFires(i) \/ DeliverEvent(i)

ServerStep(i) == ServeCreate(i) \/ ServeEdit(i) \/ ServeDelete(i) \/ EnqueueJob(i)

WorkerStep == Work \/ PublishAudio

Next ==
    \/ \E i \in Items :
           \/ Add(i) \/ Edit(i) \/ Cancel(i) \/ Retry(i)
           \/ ClientStep(i) \/ TakeCheck(i) \/ FailUploads(i)
           \/ ServerStep(i) \/ ServeCheck(i) \/ Refuse(i) \/ Timeout(i) \/ Load(i)
    \/ ServeLate \/ CleanUp \/ Disconnect \/ Restart \/ Reconnect \/ Resync
    \/ WorkerStep \/ WorkFails

(* Weak fairness, with ENABLED written out as a predicate: the handlers of *)
(* the outbox are long to evaluate.                                        *)
HasStep(i) ==
    \/ items[i].operation = "prepare" \/ items[i].timer
    \/ Underway(items[i].answer) \/ Underway(items[i].deletion)
    \/ \E e \in events : e.item = i

Served(i) == "sent" \in {items[i].answer, items[i].deletion} \/ i \in unqueued

Changes(i) ==
    online /\ rows[i].published /\ Released(items, i, rows[i], online) # items

Fairness ==
    /\ \A i \in Items :
           /\ []<>(~HasStep(i)) \/ []<><<ClientStep(i)>>_vars
           /\ []<>(~Served(i)) \/ []<><<ServerStep(i)>>_vars
           /\ []<>(~Changes(i)) \/ []<><<Load(i)>>_vars
    /\ []<>online \/ []<><<Reconnect>>_vars
    /\ WF_vars(WorkerStep)

Spec == Init /\ [][Next]_vars /\ Fairness

-----------------------------------------------------------------------------
(* Properties.                                                             *)

(* A create that is under way repeats what is stored under its key, however*)
(* often its message is edited and sent again (send: the request is frozen *)
(* in task.create).  A conflict therefore answers it only when somebody    *)
(* has deleted the stored message together with its attachments.           *)
CreatesRepeat ==
    \A i \in Items :
        items[i].operation = "create" /\ rows[i].status # "absent" =>
            /\ rows[i].content = items[i].inflight
            /\ Accepted(i, items[i].inflight) \/ rows[i].deleted

(* One create of a conversation is under way at a time, until its message  *)
(* is confirmed or recalled: messages that are ready do not overtake each  *)
(* other (pump).                                                           *)
CreatesInTurn ==
    \A i, j \in Items : HoldsSlot(items[i]) /\ HoldsSlot(items[j]) => i = j

Recalled(i) == IsPending(items[i]) /\ items[i].cancelled

NeedsUser(i) == items[i].failed /\ ~items[i].retryable

(* What is added is confirmed, unless it is recalled or has failed for     *)
(* good; what is recalled is deleted when it is there, unless its deletion *)
(* is refused (which an edit's answer may hide: its item is not failed any *)
(* more); an audio message is published, unless the worker waits after a   *)
(* refill that failed.                                                     *)
Settles ==
    \A i \in Items :
        /\ NeedsSend(items[i]) ~> ~NeedsSend(items[i]) \/ NeedsUser(i)
        /\ (Recalled(i) /\ rows[i].published) ~>
               (rows[i].deleted \/ ~items[i].retryable)
        /\ Pending(i) ~> (~Pending(i) \/ (worker = "wait" /\ ~refilled))
=============================================================================
