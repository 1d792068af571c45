--------------------------- MODULE MessageOutbox ----------------------------
(***************************************************************************)
(* The client's outbox (pwa/src/app/messages/message-outbox.ts) for one    *)
(* conversation.  JavaScript runs a handler to its next await without      *)
(* interruption: every handler is an operator from the items of the outbox *)
(* to its items afterwards.  What happens between two handlers is in       *)
(* MessageDelivery.                                                        *)
(*                                                                         *)
(* A submission is the revision of the intent that it submits.  A request  *)
(* that is started while the socket is closed is rejected; what is on its  *)
(* way is "sent", and its answer becomes ok, gone, refused or lost.        *)
(***************************************************************************)
EXTENDS Integers

CONSTANTS
    Items,      \* places in the list of pending messages, in their order
    Audio       \* the ones that are audio

None == -1      \* no revision

(* OutgoingMessage and Task.                                               *)
Unused ==
    [stage |-> "unused", uploaded |-> TRUE, intent |-> 0, ready |-> None,
     create |-> None, patch |-> None, acknowledged |-> None,
     confirmed |-> FALSE, published |-> FALSE, cancelled |-> FALSE,
     deleted |-> FALSE, failed |-> FALSE, retryable |-> TRUE, timer |-> FALSE,
     operation |-> "none", inflight |-> None, answer |-> "none",
     deletion |-> "none", checking |-> "none"]

IsPending(t) == t.stage = "pending"

NeedsSend(t) == IsPending(t) /\ ~t.cancelled /\ t.acknowledged < t.intent

Begun(online) == IF online THEN "sent" ELSE "lost"

-----------------------------------------------------------------------------
(* pump                                                                    *)

Rests(t) == ~IsPending(t) \/ t.cancelled \/ t.failed

(* mutant: a create is frozen only while its request is under way          *)
FrozenUnderway(t) == ~t.confirmed /\ t.inflight # None

(* A create that was sent stays as it is until it is confirmed.            *)
Frozen(t) == ~t.confirmed /\ t.create # None

(* A new submission is made ready at once, or its uploads are waited for.  *)
Readied(t) ==
    IF Rests(t) \/ ~NeedsSend(t) \/ Frozen(t) \/ t.ready = t.intent
    THEN t
    ELSE IF t.uploaded THEN [t EXCEPT !.ready = t.intent]
    ELSE IF t.operation = "none" THEN [t EXCEPT !.operation = "prepare"]
    ELSE t

Queues(t) == ~Rests(t) /\ ~t.confirmed /\ (t.create # None \/ t.ready = t.intent)
HoldsSlot(t) == ~Rests(t) /\ ~t.confirmed /\ t.inflight # None

First(is) == CHOOSE i \in is : \A j \in is : i <= j

(* mutant: the head of the queue is the oldest message that is ready       *)
HeadOfReady(items) == {First({j \in Items : Queues(items[j])})}

(* The create that has the slot of the conversation: a request under way   *)
(* keeps it, and then the oldest message that is ready gets it.            *)
HeadOf(items) ==
    LET sending == {i \in Items : HoldsSlot(items[i])} IN
    {First(IF sending # {} THEN sending ELSE {i \in Items : Queues(items[i])})}

Submission(t) == IF Frozen(t) THEN t.create ELSE t.ready

Sent(t, online) ==
    LET submitted == Submission(t)
        begun == [t EXCEPT !.inflight = submitted, !.answer = Begun(online)]
    IN  IF t.confirmed THEN [begun EXCEPT !.operation = "edit", !.patch = submitted]
        ELSE [begun EXCEPT !.operation = "create", !.create = submitted]

Pump(all, online) ==
    LET items == [i \in Items |-> Readied(all[i])]
        Goes(i) == /\ ~Rests(items[i]) /\ NeedsSend(items[i])
                   /\ items[i].operation = "none"
                   /\ items[i].confirmed \/ (Queues(items[i]) /\ i \in HeadOf(items))
    IN  [i \in Items |-> IF Goes(i) THEN Sent(items[i], online) ELSE items[i]]

-----------------------------------------------------------------------------
(* delete, cleanUploads, remove, schedule, acknowledge                     *)

Deleting(t, online) ==
    IF /\ t.deletion = "none" /\ IsPending(t) /\ t.cancelled /\ ~t.deleted
       /\ t.retryable /\ t.confirmed /\ t.published
    THEN [t EXCEPT !.deletion = Begun(online)] ELSE t

Compacted(t) == IF t.cancelled THEN [t EXCEPT !.ready = None, !.patch = None] ELSE t

Removed(t) ==
    [t EXCEPT !.stage = "removed", !.timer = FALSE, !.operation = "none",
              !.inflight = None, !.answer = "none", !.deletion = "none",
              !.checking = "none", !.ready = None, !.patch = None]

Failing(t, again) == [t EXCEPT !.failed = TRUE, !.retryable = again, !.timer = again]

Acknowledged(t, revision, published) ==
    IF revision < t.acknowledged \/ (revision = t.acknowledged /\ t.published) THEN t
    ELSE [t EXCEPT !.confirmed = TRUE, !.acknowledged = revision, !.failed = FALSE,
                   !.published = t.published \/ published,
                   !.timer = t.timer /\ t.cancelled]

(* created: an answer, an event or a load has told the message's id.       *)
Created(items, i, published, online) ==
    IF ~IsPending(items[i]) \/ items[i].create = None THEN items
    ELSE LET t == Acknowledged(items[i], items[i].create, published)
         IN  Pump([items EXCEPT ![i] = Deleting(t, online)], online)

(* The end of an operation (run).                                          *)
Ended(items, i, online) ==
    LET t == [items[i] EXCEPT !.operation = "none", !.inflight = None, !.answer = "none"]
    IN  Pump([items EXCEPT ![i] = Deleting(Compacted(t), online)], online)

-----------------------------------------------------------------------------
(* What the user does.                                                     *)

Added(items, i, uploaded, online) ==
    Pump([items EXCEPT ![i] = [Unused EXCEPT !.stage = "pending", !.uploaded = uploaded]],
         online)

Retried(items, i, online) ==
    LET t == [items[i] EXCEPT !.timer = FALSE, !.retryable = TRUE] IN
    IF ~IsPending(t) THEN items
    ELSE IF t.cancelled THEN [items EXCEPT ![i] = Deleting(t, online)]
    ELSE IF t.operation # "none" THEN [items EXCEPT ![i] = t]
    ELSE Pump([items EXCEPT ![i] = [t EXCEPT !.failed = t.failed /\ ~NeedsSend(t)]], online)

Edited(items, i, online) ==
    Retried([items EXCEPT ![i].intent = @ + 1], i, online)

(* cancel: a message that was never sent is removed; one that was handed   *)
(* over to the timeline comes back as a tombstone.                         *)
Cancelled(items, i, online) ==
    LET t == [items[i] EXCEPT !.stage = "pending", !.cancelled = TRUE,
                              !.retryable = TRUE, !.timer = FALSE]
        hidden == IF t.create = None THEN Removed(t) ELSE Compacted(t)
        pumped == Pump([items EXCEPT ![i] = hidden], online)
    IN  [pumped EXCEPT ![i] = Deleting(@, online)]

-----------------------------------------------------------------------------
(* Ends of prepare, send and delete.                                       *)

UploadsEnded(items, i, online) ==
    LET t == items[i]
        ready == IF NeedsSend(t) THEN [t EXCEPT !.ready = t.intent, !.uploaded = TRUE]
                 ELSE [t EXCEPT !.uploaded = TRUE]
    IN  Ended([items EXCEPT ![i] = ready], i, online)

UploadsFailed(items, i, again, online) ==
    LET t == items[i] IN
    Ended([items EXCEPT ![i] = IF NeedsSend(t) THEN Failing(t, again) ELSE t], i, online)

Succeeded(items, i, online) ==
    LET told == IF items[i].operation = "create"
                THEN Created(items, i, i \notin Audio, online)
                ELSE [items EXCEPT ![i] = Acknowledged(@, items[i].inflight, TRUE)]
        again == told[i].retryable \/ ~told[i].cancelled
    IN  Ended([told EXCEPT ![i].retryable = again], i, online)

(* mutant: only a message that was refused is tried again                  *)
RetriesRefused(t, answer) == t.retryable /\ answer = "refused"

Retries(t, answer) == t.retryable /\ answer = "lost"

(* An acknowledgement that came as an event wins over a failed answer.     *)
SendFailed(items, i, online) ==
    LET t == items[i] IN
    IF ~NeedsSend(t) \/ t.acknowledged >= t.inflight THEN Ended(items, i, online)
    ELSE Ended([items EXCEPT ![i] = Failing(t, Retries(t, t.answer))], i, online)

Answered(items, i, online) ==
    IF items[i].answer = "ok" THEN Succeeded(items, i, online)
    ELSE SendFailed(items, i, online)

DeletionAnswered(items, i) ==
    LET t == [items[i] EXCEPT !.deletion = "none"] IN
    [items EXCEPT ![i] =
        IF items[i].deletion = "ok" \/ (items[i].deletion = "gone" /\ ~t.deleted)
        THEN [t EXCEPT !.deleted = TRUE, !.failed = FALSE]
        ELSE IF t.deleted THEN t
        ELSE Failing(t, items[i].deletion = "lost")]

CheckAnswered(items, i, online) ==
    LET t == [items EXCEPT ![i].checking = "none"] IN
    IF items[i].checking = "ok" /\ ~t[i].published THEN Created(t, i, TRUE, online) ELSE t

-----------------------------------------------------------------------------
(* What the connection brings.                                             *)

UpdateSeen(items, i, content, online) ==
    LET t == items[i]
        seen == IF t.patch # None /\ t.patch = content
                THEN Pump([items EXCEPT ![i] = Acknowledged(t, t.patch, TRUE)], online)
                ELSE items
    IN  IF IsPending(t) /\ t.confirmed
        THEN [seen EXCEPT ![i] = Deleting(@, online)] ELSE items

DeletionSeen(items, i, online) ==
    LET t == [items[i] EXCEPT !.cancelled = TRUE, !.deleted = TRUE] IN
    IF IsPending(t) /\ t.confirmed
    THEN Pump([items EXCEPT ![i] = Compacted(t)], online) ELSE items

(* resync$ and the browser's online event.                                 *)
Resynced(items, online) ==
    LET Checked(t) ==
            IF IsPending(t) /\ t.confirmed /\ ~t.published /\ t.checking = "none"
            THEN [t EXCEPT !.checking = Begun(online)] ELSE t
        Again(t) ==
            IF ~IsPending(t) \/ ~t.retryable THEN t
            ELSE IF t.cancelled THEN Deleting([t EXCEPT !.timer = FALSE], online)
            ELSE [t EXCEPT !.timer = FALSE,
                           !.failed = t.failed /\ (t.operation # "none" \/ ~NeedsSend(t))]
    IN  Pump([i \in Items |-> Again(Checked(items[i]))], online)

(* release: the message is in a range that was loaded.                     *)
Released(items, i, row, online) ==
    LET t == items[i]
        created == Created(items, i, TRUE, online)
    IN  IF ~IsPending(t) THEN items
        ELSE IF t.cancelled /\ row.deleted THEN [items EXCEPT ![i] = [t EXCEPT !.deleted = TRUE]]
        ELSE IF t.cancelled THEN [created EXCEPT ![i] = Deleting(@, online)]
        ELSE IF t.published /\ ~NeedsSend(t) /\ row.content = t.acknowledged /\ ~row.deleted
             THEN [items EXCEPT ![i] = Removed(t)]
        ELSE items
=============================================================================
