--------------------------- MODULE AudioTranscode ---------------------------
(***************************************************************************)
(* The worker that transcodes audio messages and publishes them            *)
(* (services/audio_transcode/mod.rs): jobs from senders over a bounded     *)
(* channel, the refill from the messages that are still pending, failing   *)
(* and panicking jobs, a restart of the server.  What a sender, a reader   *)
(* and a deletion do to the rows is in MessageDelivery.                    *)
(***************************************************************************)
EXTENDS Integers, Sequences, FiniteSets

CONSTANTS
    Messages,    \* ids of messages
    ChannelSize, \* CHANNEL_BUFFER
    RefillLimit  \* BACKLOG_REFILL_LIMIT

ASSUME MessagesAssumption == Messages \subseteq Nat \ {0}
ASSUME WorkerAssumption ==
    ChannelSize \in Nat \ {0} /\ RefillLimit \in Nat \ {0}

VARIABLES
    rows,        \* table messages
    scheduled, processing, channel,  \* AudioTranscodeService
    worker,      \* where run_worker is
    backlog,     \* pending ids that the refill has loaded, newest first
    refilled,    \* the refill of this turn has not failed
    unqueued     \* stored audio messages whose sender has not enqueued them yet

workerVars == <<scheduled, processing, channel, worker, backlog, refilled, unqueued>>

NoMessage == 0

(* attached: the message has attachments that are not deleted.             *)
NoRow == [status |-> "absent", content |-> 0, published |-> FALSE, attached |-> FALSE,
          deleted |-> FALSE]

Pending(m) == rows[m].status = "pending" /\ ~rows[m].deleted

WorkerInit ==
    /\ scheduled = {} /\ processing = NoMessage /\ channel = <<>>
    /\ worker = "refill" /\ backlog = <<>> /\ refilled = TRUE
    /\ unqueued = {}

-----------------------------------------------------------------------------
(* enqueue                                                                 *)

(* try_schedule                                                            *)
Schedulable(m) == m \notin scheduled /\ processing # m

Full == Len(channel) >= ChannelSize

Enqueue(m) ==
    IF Schedulable(m) /\ ~Full
    THEN /\ scheduled' = scheduled \cup {m}
         /\ channel' = Append(channel, m)
    ELSE UNCHANGED <<scheduled, channel>>

(* The sender of a message enqueues it after its transaction.              *)
EnqueueSent(m) ==
    /\ m \in unqueued
    /\ Enqueue(m)
    /\ unqueued' = unqueued \ {m}
    /\ UNCHANGED <<rows, processing, worker, backlog, refilled>>

-----------------------------------------------------------------------------
(* refill_pending_jobs, before each wait for a job.                        *)

(* An id comes after the ones that are newer.                              *)
Place(ids, m) == Cardinality({o \in ids : o >= m})

NewestFirst(ids) ==
    [k \in 1..Cardinality(ids) |-> CHOOSE m \in ids : Place(ids, m) = k]

(* What is left of the backlog, and then the wait for a job.               *)
Refills(rest) ==
    /\ backlog' = rest
    /\ worker' = IF rest = <<>> THEN "wait" ELSE "enqueue"
    /\ UNCHANGED refilled

RefillLoads ==
    LET pending == NewestFirst({m \in Messages : Pending(m)}) IN
    /\ worker = "refill"
    /\ Refills(SubSeq(pending, 1, IF Len(pending) < RefillLimit
                                  THEN Len(pending) ELSE RefillLimit))
    /\ UNCHANGED <<rows, scheduled, processing, channel, unqueued>>

(* The rest is left to a later refill when the channel is full.            *)
RefillEnqueues ==
    /\ worker = "enqueue"
    /\ Enqueue(Head(backlog))
    /\ Refills(IF Schedulable(Head(backlog)) /\ Full THEN <<>> ELSE Tail(backlog))
    /\ UNCHANGED <<rows, processing, unqueued>>

(* No connection, or a query failed.                                       *)
RefillFails ==
    /\ worker = "refill"
    /\ worker' = "wait" /\ refilled' = FALSE
    /\ UNCHANGED <<rows, scheduled, processing, channel, backlog, unqueued>>

-----------------------------------------------------------------------------
(* Jobs.                                                                   *)

Receive ==
    /\ worker = "wait" /\ channel # <<>>
    /\ processing' = Head(channel) /\ channel' = Tail(channel)
    /\ worker' = "process"
    /\ UNCHANGED <<rows, scheduled, backlog, refilled, unqueued>>

(* mutant: the worker waits for the next job without looking for others    *)
NextUnfilled == "wait"

NextTurn == "refill"

(* finish_processing; the loop goes on with a refill.                      *)
Finished ==
    /\ scheduled' = scheduled \ {processing}
    /\ processing' = NoMessage
    /\ worker' = NextTurn /\ refilled' = TRUE
    /\ UNCHANGED <<channel, backlog, unqueued>>

(* process_message looks at the row first ...                              *)
Starts ==
    /\ worker = "process" /\ Pending(processing)
    /\ worker' = "publish"
    /\ UNCHANGED <<rows, scheduled, processing, channel, backlog, refilled, unqueued>>

Skips ==
    /\ worker = "process" /\ ~Pending(processing)
    /\ Finished
    /\ UNCHANGED rows

(* ... and publishes it when it is transcoded, or could not be, whatever   *)
(* happened to it meanwhile.                                               *)
Publishes(status) ==
    /\ worker = "publish"
    /\ rows' = [rows EXCEPT ![processing].published = TRUE, ![processing].status = status]
    /\ Finished

JobFails ==
    /\ worker \in {"process", "publish"}
    /\ Finished
    /\ UNCHANGED rows

(* clear_processing_after_panic; the channel outlives the worker.          *)
Panics ==
    /\ worker \in {"process", "publish"}
    /\ scheduled' = scheduled \ {processing}
    /\ processing' = NoMessage
    /\ worker' = "refill" /\ refilled' = TRUE
    /\ UNCHANGED <<rows, channel, backlog, unqueued>>

(* The server restarts: everything but the rows is lost.                   *)
WorkerRestarts ==
    /\ scheduled' = {} /\ processing' = NoMessage /\ channel' = <<>>
    /\ worker' = "refill" /\ backlog' = <<>> /\ refilled' = TRUE
    /\ unqueued' = {}

-----------------------------------------------------------------------------
(* A pending message is not forgotten: when the worker waits with nothing  *)
(* in the channel and its last refill succeeded, a message that is pending *)
(* is still to be enqueued by its sender.  A full channel, a failed job, a *)
(* panic, or a restart between the sender's transaction and its enqueue    *)
(* leave it to the next refill (run_worker, enqueue).                      *)
NothingForgotten ==
    worker = "wait" /\ channel = <<>> /\ refilled =>
        \A m \in Messages : Pending(m) => m \in unqueued
=============================================================================
