---------------------------- MODULE MessageStore ----------------------------
(***************************************************************************)
(* The messages of one group and the state derived from them, under        *)
(* concurrent transactions: sends and their repetition, the publication of *)
(* audio, deletions, recalls, the cleanup of a removed member, and reading *)
(* (services/messages.rs, message_deletion.rs, threads.rs, chat.rs,        *)
(* read_receipts.rs, background/mod.rs, audio_transcode/mod.rs).           *)
(*                                                                         *)
(* The database is a function from cells (rows, or columns that are locked *)
(* together) to values.  A session runs one transaction at a time.  A      *)
(* statement is one step: it reads what is committed and what its own      *)
(* transaction wrote (READ COMMITTED), and waits until no other open       *)
(* transaction has written a cell that it writes.  What a transaction      *)
(* wrote stays locked until it ends, and becomes visible when it commits.  *)
(* A transaction commits with its last statement.                          *)
(***************************************************************************)
EXTENDS Integers, FiniteSets

CONSTANTS
    Users,
    Sessions,    \* connections to the database
    Requests,    \* what clients send: records [key, user, root, audio]
    FirstRequest,\* the request that message 1 was stored for
    MaxId,       \* bound on the messages
    BatchSize,   \* BATCH_SIZE of a member cleanup
    MaxRecall    \* bound on the messages of a recall

NoId == 0
Ids == 1..MaxId

ASSUME RequestsAssumption ==
    \A q \in Requests :
        /\ q.user \in Users /\ q.root \in Ids \cup {NoId}
        /\ q.audio \in BOOLEAN /\ q.key # FirstRequest.key
ASSUME FirstRequestAssumption ==
    /\ FirstRequest.user \in Users /\ FirstRequest.root = NoId
    /\ FirstRequest.audio \in BOOLEAN
ASSUME BoundsAssumption ==
    MaxId \in Nat \ {0} /\ BatchSize \in Nat \ {0} /\ MaxRecall \in Nat \ {0}

VARIABLES
    committed,  \* the committed database
    tx,         \* the transaction of each session
    answered,   \* what senders were told: records [id, request]
    cleaned     \* a cleanup has deleted messages

vars == <<committed, tx, answered, cleaned>>

-----------------------------------------------------------------------------
(* Cells.                                                                  *)

RowOf(i) == <<"message", i>>
CountOf(i) == <<"thread_meta", i>>          \* 0: there is no such row
ReaderOf(u, scope) == <<"reader", u, scope>>\* in the chat (NoId) or a thread
LastMessage == <<"last_message_id", 0>>
Revision == <<"chat_unread_revision", 0>>   \* only its lock matters here

Scopes == Ids \cup {NoId}

Cells ==
    {RowOf(i) : i \in Ids} \cup {CountOf(i) : i \in Ids}
    \cup {ReaderOf(u, c) : u \in Users, c \in Scopes}
    \cup {LastMessage, Revision}

AnyRequest == Requests \cup {FirstRequest}

(* An audio message has an attachment, which a deletion may delete as well.*)
Row(q, published) ==
    [request |-> q, published |-> published, attached |-> q.audio, deleted |-> FALSE,
     has_thread |-> FALSE]

NoRow == Row(FirstRequest, FALSE)

Nowhere == [read |-> NoId, receipt |-> NoId]

IsReply(r) == r.request.root # NoId
Visible(r) == r.published /\ ~r.deleted
VisibleTop(r) == Visible(r) /\ ~IsReply(r)

-----------------------------------------------------------------------------
(* Transactions.                                                           *)

Nothing == [c \in {} |-> NoId]
Cell(c, v) == [x \in {c} |-> v]
Over(new, old) ==
    [c \in DOMAIN new \cup DOMAIN old |-> IF c \in DOMAIN new THEN new[c] ELSE old[c]]

Idle == [kind |-> "none", pc |-> "idle", user |-> CHOOSE u \in Users : TRUE,
         request |-> FirstRequest, id |-> NoId, targets |-> {}, roots |-> {},
         hidden |-> {}, seen |-> 0, writes |-> Nothing]

At(s, pc) == tx[s].pc = pc

View(s, c) == IF c \in DOMAIN tx[s].writes THEN tx[s].writes[c] ELSE committed[c]

RowIn(s, i) == View(s, RowOf(i))
Stored(s) == {i \in Ids : RowIn(s, i) # NoRow}

Unlocked(s, cells) == \A o \in Sessions \ {s} : cells \cap DOMAIN tx[o].writes = {}

(* The foreign key of a reply holds its root against FOR UPDATE, and waits *)
(* for it.                                                                 *)
Inserted(o) == tx[o].kind = "send" /\ RowOf(tx[o].id) \in DOMAIN tx[o].writes

Unreferenced(s, ids) ==
    \A o \in Sessions \ {s} : Inserted(o) => tx[o].request.root \notin ids

ForUpdate(o) == IF tx[o].kind = "recall" THEN tx[o].targets ELSE {}

Referable(s, i) == \A o \in Sessions \ {s} : i \notin ForUpdate(o)

(* SELECT ... FOR UPDATE of the messages ids.                              *)
Lockable(s, ids) == Unlocked(s, {RowOf(i) : i \in ids}) /\ Unreferenced(s, ids)

(* mutant: the trigger does not see deletions                              *)
BumpedWhenShown(s, new) ==
    IF \E c \in DOMAIN new : \E i \in Ids :
           c = RowOf(i) /\ VisibleTop(new[c]) /\ ~VisibleTop(View(s, c))
    THEN Cell(Revision, 0) ELSE Nothing

(* The trigger bumps the chat's unread revision when a statement changes   *)
(* what the main counters see.                                             *)
Bumped(s, new) ==
    IF \E c \in DOMAIN new : \E i \in Ids :
           c = RowOf(i) /\ VisibleTop(new[c]) # VisibleTop(View(s, c))
    THEN Cell(Revision, 0) ELSE Nothing

Open(s, t) ==
    /\ At(s, "idle")
    /\ tx' = [tx EXCEPT ![s] = t]
    /\ UNCHANGED <<committed, answered, cleaned>>

(* A statement that writes new and goes on.                                *)
Write(s, new, t) ==
    LET all == Over(new, Bumped(s, new)) IN
    /\ Unlocked(s, DOMAIN all)
    /\ tx' = [tx EXCEPT ![s] = [t EXCEPT !.writes = Over(all, tx[s].writes)]]
    /\ UNCHANGED <<committed, answered, cleaned>>

(* A statement that reads.                                                 *)
Query(s, t) ==
    /\ tx' = [tx EXCEPT ![s] = t]
    /\ UNCHANGED <<committed, answered, cleaned>>

(* The last statement of a transaction, and its commit.                    *)
Finish(s, new) ==
    LET all == Over(new, Bumped(s, new)) IN
    /\ Unlocked(s, DOMAIN all)
    /\ committed' = Over(all, Over(tx[s].writes, committed))
    /\ tx' = [tx EXCEPT ![s] = Idle]
    /\ answered' = IF tx[s].kind = "send"
                   THEN answered \cup {[id |-> tx[s].id, request |-> tx[s].request]}
                   ELSE answered
    /\ UNCHANGED cleaned

RollBack(s) ==
    /\ tx' = [tx EXCEPT ![s] = Idle]
    /\ UNCHANGED <<committed, answered, cleaned>>

Init ==
    /\ committed = [c \in Cells |->
           CASE c = RowOf(1) -> Row(FirstRequest, TRUE)
             [] c \in {RowOf(i) : i \in Ids \ {1}} -> NoRow
             [] c \in {ReaderOf(u, p) : u \in Users, p \in Scopes} -> Nowhere
             [] c = LastMessage -> 1
             [] OTHER -> 0]
    /\ tx = [s \in Sessions |-> Idle]
    /\ answered = {}
    /\ cleaned = FALSE

-----------------------------------------------------------------------------
(* Sends.                                                                  *)

(* authorize_message_send: a thread is entered at a published message of   *)
(* the chat that is not deleted, or still has a thread.                    *)
Enterable(r) == r.published /\ ~IsReply(r) /\ (~r.deleted \/ r.has_thread)

(* next_message_id: larger than every id handed out before it.  Ids that   *)
(* were not used are handed out again, to keep them within the bound.      *)
IdsInUse == {i \in Ids : committed[RowOf(i)] # NoRow} \cup {tx[s].id : s \in Sessions}
NextIds == {i \in Ids : i - 1 \in IdsInUse /\ \A j \in IdsInUse : j < i}

BeginSend(s) ==
    \E q \in Requests, i \in NextIds :
        /\ q.root # NoId => Enterable(committed[RowOf(q.root)])
        /\ Open(s, [Idle EXCEPT !.kind = "send", !.pc = "insert",
                                !.user = q.user, !.request = q, !.id = i])

KeyStored(q) == {i \in Ids : committed[RowOf(i)] # NoRow
                             /\ committed[RowOf(i)].request.key = q.key}

(* mutant: a look-up by key before the insertion instead of ON CONFLICT    *)
KeyNotYetStored(s, q) == KeyStored(q) = {}

(* The unique index on client_generated_id: an insertion waits for another *)
(* of the same key that is not yet committed.                              *)
KeyFree(s, q) ==
    /\ KeyStored(q) = {}
    /\ \A o \in Sessions \ {s} : Inserted(o) => tx[o].request.key # q.key

Publishes(q) == ~q.audio

Insert(s) ==
    LET t == tx[s]  q == t.request IN
    /\ At(s, "insert")
    /\ KeyFree(s, q)
    /\ q.root # NoId => Referable(s, q.root)
    /\ Write(s, Cell(RowOf(t.id), Row(q, Publishes(q))),
             [t EXCEPT !.pc = IF Publishes(q) /\ q.root = NoId THEN "last" ELSE "mark"])

(* mutant: the key alone makes a request a duplicate                       *)
SameKeyIsEnough(r, q) == TRUE

(* validate_idempotent_message_payload: the attachments of the request are *)
(* compared with those of the message that are not deleted.                *)
SamePayload(r, q) == r.request = q /\ r.attached = q.audio

(* ON CONFLICT DO NOTHING inserted nothing: the existing message is locked *)
(* and compared, and answers as a duplicate or with a conflict.            *)
Resend(s) ==
    LET q == tx[s].request IN
    /\ At(s, "insert")
    /\ \E i \in KeyStored(q) :
           /\ Lockable(s, {i})
           /\ answered' = IF SamePayload(committed[RowOf(i)], q)
                          THEN answered \cup {[id |-> i, request |-> q]} ELSE answered
    /\ tx' = [tx EXCEPT ![s] = Idle]
    /\ UNCHANGED <<committed, cleaned>>

SetLast(s) ==
    /\ At(s, "last")
    /\ Write(s, Cell(LastMessage, tx[s].id), [tx[s] EXCEPT !.pc = "mark"])

Later(a, b) == IF a > b THEN a ELSE b

(* mutant: a receipt is set to the message read last                       *)
ReadSetsReceipt(r, i) == [read |-> Later(r.read, i), receipt |-> i]

(* mark_chat_as_read, mark_thread_as_read and advance_*_read_receipt: each *)
(* only moves forward.                                                     *)
ReadUpTo(r, i) == [read |-> Later(r.read, i), receipt |-> Later(r.receipt, i)]

(* mutant: an audio reply counts when it is sent and when it is published  *)
CountsAlways(q) == q.root # NoId

(* record_thread_send counts a reply that is published at once.            *)
CountsNow(q) == q.root # NoId /\ Publishes(q)

Mark(s) ==
    LET t    == tx[s]
        cell == ReaderOf(t.user, t.request.root)
        new  == Cell(cell, ReadUpTo(View(s, cell), t.id))
    IN  /\ At(s, "mark")
        /\ IF CountsNow(t.request) THEN Write(s, new, [t EXCEPT !.pc = "count"])
           ELSE Finish(s, new)

(* increment_thread_meta, and then has_thread of the root.                 *)
Count(s) ==
    LET cell == CountOf(RowIn(s, tx[s].id).request.root) IN
    /\ At(s, "count")
    /\ Write(s, Cell(cell, View(s, cell) + 1), [tx[s] EXCEPT !.pc = "flag"])

Flag(s) ==
    LET root == RowIn(s, tx[s].id).request.root IN
    /\ At(s, "flag")
    /\ Finish(s, Cell(RowOf(root), [RowIn(s, root) EXCEPT !.has_thread = TRUE]))

(* mark_chat_as_read_state and its like for threads, in one row: the       *)
(* target is checked to be published, not to be there still.               *)
MarkRead(s) ==
    \E u \in Users, i \in Ids :
        LET r    == committed[RowOf(i)]
            cell == ReaderOf(u, r.request.root)
        IN  /\ At(s, "idle")
            /\ r.published
            /\ Finish(s, Cell(cell, ReadUpTo(committed[cell], i)))

-----------------------------------------------------------------------------
(* The audio worker publishes a message it found pending (process_message).*)

BeginPublish(s) ==
    \E i \in Ids :
        LET r == committed[RowOf(i)] IN
        /\ r # NoRow /\ r.request.audio /\ ~r.published /\ ~r.deleted
        /\ \A o \in Sessions : tx[o].kind # "publish"
        /\ Open(s, [Idle EXCEPT !.kind = "publish", !.pc = "publish", !.id = i])

Publish(s) ==
    LET i == tx[s].id  r == RowIn(s, i) IN
    /\ At(s, "publish")
    /\ Write(s, Cell(RowOf(i), [r EXCEPT !.published = TRUE]),
             [tx[s] EXCEPT !.pc = IF IsReply(r) THEN "count" ELSE "newest"])

-----------------------------------------------------------------------------
(* Deletions.                                                              *)

Deleted(s, ids) ==
    [c \in {RowOf(i) : i \in ids} |-> [View(s, c) EXCEPT !.deleted = TRUE]]

(* soft_delete_batch deletes the attachments as well.                      *)
SoftDeleted(s, ids) ==
    [c \in {RowOf(i) : i \in ids} |->
        [View(s, c) EXCEPT !.deleted = TRUE, !.attached = FALSE]]

RootsOf(s, ids) == {RowIn(s, i).request.root : i \in ids} \ {NoId}

(* delete_message: its checks come before its transaction.                 *)
BeginDelete(s) ==
    \E i \in Ids :
        /\ Visible(committed[RowOf(i)])
        /\ Open(s, [Idle EXCEPT !.kind = "delete", !.pc = "delete", !.targets = {i}])

Delete(s) ==
    LET ids == tx[s].targets  roots == RootsOf(s, ids) IN
    /\ At(s, "delete") /\ tx[s].kind = "delete"
    /\ Write(s, Deleted(s, ids),
             [tx[s] EXCEPT !.pc = IF roots = {} THEN "peek" ELSE "recount",
                           !.roots = roots,
                           !.hidden = {i \in ids : ~RowIn(s, i).has_thread}])

(* delete_selection: the whole selection is locked and checked before any  *)
(* of it is deleted; messages that are deleted already are accepted.       *)
Recall(s) ==
    \E ids \in SUBSET Ids :
        LET roots == RootsOf(s, ids) IN
        /\ At(s, "idle")
        /\ ids # {} /\ Cardinality(ids) <= MaxRecall
        /\ \A i \in ids : RowIn(s, i).published
        /\ Lockable(s, ids)
        /\ Write(s, SoftDeleted(s, ids),
                 [Idle EXCEPT !.kind = "recall", !.targets = ids, !.roots = roots,
                              !.pc = IF roots = {} THEN "hide" ELSE "recount"])

(* process_bulk_delete: batches of the member's messages, published or     *)
(* not, each in a transaction of its own, and one reconciliation.          *)
Left(s, u) == {i \in Stored(s) : RowIn(s, i).request.user = u /\ ~RowIn(s, i).deleted}

Batch(s, u) == {i \in Left(s, u) : Cardinality({j \in Left(s, u) : j < i}) < BatchSize}

CleanBatch(s, t) ==
    LET ids == Batch(s, t.user)
        all == Over(SoftDeleted(s, ids), Bumped(s, SoftDeleted(s, ids)))
        roots == t.roots \cup RootsOf(s, ids)
        last == Cardinality(ids) < BatchSize
    IN  /\ t.targets \cup ids # {}
        /\ Lockable(s, ids) /\ Unlocked(s, DOMAIN all)
        /\ committed' = Over(all, committed)
        /\ tx' = [tx EXCEPT ![s] =
               [t EXCEPT !.targets = @ \cup ids, !.roots = roots,
                         !.pc = IF ~last THEN "delete"
                                ELSE IF roots = {} THEN "hide" ELSE "recount"]]
        /\ cleaned' = TRUE
        /\ UNCHANGED answered

BeginCleanup(s) ==
    \E u \in Users :
        /\ At(s, "idle")
        /\ CleanBatch(s, [Idle EXCEPT !.kind = "cleanup", !.user = u])

NextBatch(s) ==
    /\ At(s, "delete") /\ tx[s].kind = "cleanup"
    /\ CleanBatch(s, tx[s])

-----------------------------------------------------------------------------
(* What follows a deletion: delete_message, and reconcile_deletions for    *)
(* recalls and cleanups, thread by thread.                                 *)

FirstRoot(s) == CHOOSE r \in tx[s].roots : \A q \in tx[s].roots : r <= q

Replies(s, root) ==
    {i \in Ids : Visible(RowIn(s, i)) /\ RowIn(s, i).request.root = root}

(* recalculate_thread_meta: what the SELECT sees is written afterwards.    *)
Recount(s) ==
    /\ At(s, "recount")
    /\ Query(s, [tx[s] EXCEPT !.pc = "store",
                              !.seen = Cardinality(Replies(s, FirstRoot(s)))])

AfterThread(t) == IF t.kind = "delete" THEN "peek" ELSE "shift"

StoreCount(s) ==
    /\ At(s, "store")
    /\ Write(s, Cell(CountOf(FirstRoot(s)), tx[s].seen),
             [tx[s] EXCEPT !.pc = IF tx[s].seen = 0 THEN "unflag" ELSE AfterThread(tx[s]),
                           !.seen = 0])

Unflag(s) ==
    LET root == FirstRoot(s) IN
    /\ At(s, "unflag")
    /\ Write(s, Cell(RowOf(root), [RowIn(s, root) EXCEPT !.has_thread = FALSE]),
             [tx[s] EXCEPT !.pc = AfterThread(tx[s])])

(* The newest of ids older than i, or none.                                *)
NewestBelow(ids, i) ==
    LET older == {j \in ids : j < i} IN
    IF older = {} THEN NoId ELSE CHOOSE j \in older : \A k \in older : k <= j

(* Where a cursor may stand: replies that are there, and the chat's        *)
(* messages that are there or still have a thread.                         *)
Addressable(s, scope) ==
    IF scope = NoId THEN {i \in Stored(s) : Enterable(RowIn(s, i))}
    ELSE Replies(s, scope)

(* mutant: the receipt follows the cursor                                  *)
MovedBoth(r, ids) == [read |-> NewestBelow(ids, r.read), receipt |-> NewestBelow(ids, r.read)]

Moved(r, ids) == [r EXCEPT !.read = NewestBelow(ids, r.read)]

(* shift_*_read_pointers_on_delete: the cursors that stand on ids move to  *)
(* the newest older message of their scope.                                *)
Shifted(s, scope, ids) ==
    [c \in {ReaderOf(u, scope) : u \in {v \in Users : View(s, ReaderOf(v, scope)).read \in ids}}
        |-> Moved(View(s, c), Addressable(s, scope))]

ShiftThread(s) ==
    LET root == FirstRoot(s)
        ids == {i \in tx[s].targets : RowIn(s, i).request.root = root}
        left == tx[s].roots \ {root}
    IN  /\ At(s, "shift")
        /\ Write(s, Shifted(s, root, ids),
                 [tx[s] EXCEPT !.roots = left,
                               !.pc = IF left = {} THEN "hide" ELSE "recount"])

(* Deleted messages of the main timeline without a thread: of the          *)
(* selection, and the roots of its replies.                                *)
Hide(s) ==
    LET ids == tx[s].targets \cup RootsOf(s, tx[s].targets) IN
    /\ At(s, "hide")
    /\ Query(s, [tx[s] EXCEPT !.pc = "move",
           !.hidden = {i \in ids : /\ ~IsReply(RowIn(s, i)) /\ ~RowIn(s, i).has_thread
                                   /\ RowIn(s, i).deleted}])

Move(s) ==
    LET t == tx[s]
        scope == IF t.kind = "delete" /\ t.roots # {} THEN FirstRoot(s) ELSE NoId
        ids == IF scope = NoId THEN t.hidden ELSE t.targets
        new == Shifted(s, scope, ids)
    IN  /\ At(s, "move")
        /\ IF t.kind = "delete" THEN Finish(s, new)
           ELSE Write(s, new, [t EXCEPT !.pc = "peek", !.hidden = {}])

(* groups.last_message_id is recalculated when it names a deleted message. *)
Peek(s) ==
    LET t == tx[s] IN
    /\ At(s, "peek")
    /\ IF View(s, LastMessage) \in t.targets THEN Query(s, [t EXCEPT !.pc = "newest"])
       ELSE IF t.kind = "delete" THEN Query(s, [t EXCEPT !.pc = "move"])
       ELSE Finish(s, Nothing)

(* recalculate_group_last_message: a SELECT and an UPDATE.                 *)
Newest(s) ==
    /\ At(s, "newest")
    /\ Query(s, [tx[s] EXCEPT !.pc = "relast",
           !.seen = NewestBelow({i \in Ids : VisibleTop(RowIn(s, i))}, MaxId + 1)])

StoreLast(s) ==
    LET new == Cell(LastMessage, tx[s].seen) IN
    /\ At(s, "relast")
    /\ IF tx[s].kind = "delete" THEN Write(s, new, [tx[s] EXCEPT !.pc = "move", !.seen = 0])
       ELSE Finish(s, new)

(* An error, a deadlock that PostgreSQL resolves, a lost connection, or a  *)
(* restart: the open transaction is rolled back and its job ends.          *)
Abort(s) ==
    /\ ~At(s, "idle")
    /\ RollBack(s)

-----------------------------------------------------------------------------
Begin(s) ==
    \/ BeginSend(s) \/ MarkRead(s) \/ BeginPublish(s)
    \/ BeginDelete(s) \/ Recall(s) \/ BeginCleanup(s)

Statement(s) ==
    \/ Insert(s) \/ Resend(s) \/ SetLast(s) \/ Mark(s) \/ Count(s) \/ Flag(s)
    \/ Publish(s) \/ Delete(s) \/ NextBatch(s)
    \/ Recount(s) \/ StoreCount(s) \/ Unflag(s) \/ ShiftThread(s)
    \/ Hide(s) \/ Move(s) \/ Peek(s) \/ Newest(s) \/ StoreLast(s)

Next == \E s \in Sessions : Begin(s) \/ Statement(s) \/ Abort(s)

Spec == Init /\ [][Next]_vars

-----------------------------------------------------------------------------
(* Properties.                                                             *)

(* groups.last_message_id names a message that is there, and names none    *)
(* only if none is there: sends, deletions, recalls and publications that  *)
(* change what it may name wait for each other at the unread revision.     *)
(* A cleanup reconciles in a later transaction, which does not wait.       *)
LastIsVisible ==
    LET last == committed[LastMessage] IN
    ~cleaned => IF last = NoId
                THEN \A i \in Ids : ~VisibleTop(committed[RowOf(i)])
                ELSE VisibleTop(committed[RowOf(last)])

InThread(root) == {i \in Ids : committed[RowOf(i)].request.root = root}

(* A thread that has lost no reply counts each published one once, and its *)
(* root has has_thread set if there is one, also when replies are sent,    *)
(* repeated and published concurrently (record_thread_send,                *)
(* increment_thread_meta, process_message).                                *)
CountsExact ==
    \A root \in Ids :
        (\A i \in InThread(root) : ~committed[RowOf(i)].deleted) =>
            LET visible == {i \in InThread(root) : Visible(committed[RowOf(i)])} IN
            /\ committed[CountOf(root)] = Cardinality(visible)
            /\ committed[RowOf(root)].has_thread <=> visible # {}

(* A read receipt is a monotonic high-water mark, whatever deletions and   *)
(* late reads do to the cursor beside it (read_receipts.rs).               *)
ReceiptsMonotonic ==
    [][\A u \in Users, c \in Scopes :
           committed'[ReaderOf(u, c)].receipt >= committed[ReaderOf(u, c)].receipt]_vars

(* A repeated request is stored once and every answer to it names the      *)
(* message it was stored as, also when its repetition runs before the      *)
(* first transaction has committed, or after it was rolled back.  (One of  *)
(* a message that was deleted with its attachments is refused.)            *)
Once == INSTANCE OnceStore WITH
    Ids <- Ids \ {1},
    stored <- {[id |-> i, request |-> committed[RowOf(i)].request] :
                   i \in {j \in Ids \ {1} : committed[RowOf(j)] # NoRow}}

ImplementsOnceStore == Once!Spec
=============================================================================
