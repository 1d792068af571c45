# Chahua: models of the chat server's concurrent core

Chahua is a chat application: a Rust server (`backend/`, axum, diesel,
PostgreSQL) and an Angular web client (`pwa/`).  This directory holds TLA+
specifications of the parts of the server and of the client where order matters,
TLC configurations that check them on small instances, and TLAPS proofs of their
main properties for every value of the constants.  Paths below are relative to
the repository's root.

To check a module: `tlc -config RpcSession.cfg MCRpcSession`; to check proofs:
`tlapm RpcSessionProofs.tla`.  `PROJECT.json` lists the runs, the source lines
behind every definition, the hazards and the theorems.

## Inventory

A client keeps one WebSocket.  Over it runs a JSON-RPC session: requests,
notifications and batches go to the server, results and events come back.  The
handlers behind the methods work on PostgreSQL through blocking tasks; committed
changes are broadcast to the connections of the users concerned (the registry)
and handed to background workers (push, audio, last seen).

| Component | State | Operations | Talks to | What is hard | What makes it correct |
|---|---|---|---|---|---|
| RPC dispatch (`rpc/session.rs`, `methods.rs`) | request ids outstanding, permits, control queue, batches, result queue | read a message, schedule a call, finish work, take a result, flush a batch, suspend, close | control lane, handlers, send task | calls finish in any order; batches share one answer; a lifecycle failure suspends while calls run | every admitted id is answered once or the session ends; ids in use are exactly those not answered; permits and ids come back |
| RPC identity and events (`rpc/session.rs`) | `SessionState`, event gate, watches, generation checks | open, bind, activate, replace a watch, publish, suspend, notify, close | registry, watch runners, token generations | four kinds of task share the state; checks and enqueueing must be one step; binding overlaps closing | no event before the greeting, none after the end; no snapshot of a replaced watch; one account per connection; revocation ends the session |
| Connection registry (`services/ws_registry`) | entries per user, bounded channel per entry, lag permit | register, remove, ping, broadcast, prune | sessions, push suppression | full channels, stale entries, removal against sweep | a lost event closes the socket; an entry of a closed socket goes away |
| Legacy socket (`handlers/ws`) | one connection | authenticate, forward, ping | registry | as the session, with one task | as the session |
| Unread cache (`services/unread/service.rs`, migration) | revisions per chat (table), cached counts, single flight per key | count, fill, invalidate by revision | database triggers, every writer of messages | counts are read in one statement and stored later, writers commit in between | a cached count is the count of the revision it is stored under |
| Unread and state watches (`services/unread/watch.rs`, `states.rs`) | last published, deadline, retry delay | subscribe, coalesce, load, publish diff, retry | registry's notifications, session | a load overlaps changes and replacement | every committed change is eventually published, never for a replaced watch |
| Presence (`services/presence.rs`, `presence/changes.rs`) | watchers, policy changes | watch, publish, invalidate | registry, social services | lagged broadcast receivers, privacy changes during a load | a viewer never sees what the policy in force hides |
| Messages (`services/messages.rs`, `message_deletion.rs`, `threads.rs`, `reactions.rs`, `chat.rs`) | messages, attachments, group's last message, thread summaries | send, edit, delete, react, recalculate | unread triggers, push, audio | retries with the same client id, concurrent sends and deletes, derived columns | one message per client id; derived columns describe the visible messages |
| Read state (`read_receipts.rs`, `chat_list.rs`, `saved_messages.rs`) | cursors, archive flags | mark read or unread | unread cache | cursors sent out of order by several devices | a cursor does not go back but by request |
| Push (`services/push`) | job channel, subscriptions, failure counts | enqueue, decide, deliver, prune | registry's activity, web push and APNs | dropped jobs, panics, counts read before delivery and written after | no push to the sender or a muted member; dead subscriptions go away |
| Audio transcoding (`services/audio_transcode`) | scheduled and processing sets, job channel, status column | enqueue, refill, process, publish | messages, media store | full channel, panic, deletion while transcoding | a pending message is eventually published, once |
| Last seen and client tracking (`services/client_tracking`) | pending observations per day | record, flush, acknowledge | sessions, presence | observations during a flush, failing days, shutdown | nothing observed is lost while the process lives |
| Background workers (`services/background`) | job channels | enqueue, run, restart | services | bounded channels, panics | jobs run or are counted as dropped |
| Identity (`auth_token.rs`, `authentication.rs`, `token_generation.rs`, `authz.rs`, `service_tokens.rs`) | token generation per user with a 30 s cache | issue, verify, revoke | sessions | stale cache | a revoked token is refused within the cache's time |
| Social (`social.rs`, `privacy_exceptions.rs`, `api/friends.rs`, `api/blocks.rs`) | friendships, requests, blocks | request, accept, decline, block | presence, messages | crossing requests, block against accept | symmetric relations stay symmetric; a block stops communication and keeps friendships and requests |
| Groups (`api/groups.rs`, `api/members.rs`, `invites.rs`, `api/pins.rs`, `speaking.rs`) | members, roles, invites, pins, speaking modes | join, leave, promote, use an invite | messages | limited invites used at once, last admin leaving | uses never exceed the limit; a group keeps an admin |
| Stickers, media, avatars, search, forwarding | packs, objects, index | upload, order, search | object store | object and row out of step | rows never name a removed object |
| PWA stores (`pwa/src/app`: `message-outbox`, `rpc-transport`, `session-store`, `conversation-store`, `chat-store`) | outbox, connection, session, timelines | send with retry, reconnect, merge pages and events | server | answers after reconnect, events crossing pages, cancelled sends | a message is shown once, sent once, in order |
| Generated clients, runspace tools, CI, Bruno | none at run time | - | - | - | not modelled |

## Modules

| Module | Models | Role |
|---|---|---|
| `RpcExchange` | what one session owes its client: requests taken, owed, answered | abstract specification |
| `RpcDispatch` | serve loop, admission, batches, control lane, work results | implements `RpcExchange` |
| `RpcSession` | opening, binding, registration, watches, event gate, generation checks, end | detailed component |
| `UnreadCache` | the revision-keyed cache of unread counts, its SQL statements and the triggers of the migration | detailed component |
| `UnreadWatch` | one unread (or state) watch from the writers' notifications to the client's store | detailed component |
| `OnceStore` | a repeated request is stored once and answered with the same message | abstract specification |
| `MessageStore` | one group's messages and what is derived from them, under concurrent transactions | implements `OnceStore` |
| `AudioTranscode` | the audio worker: bounded channel, refill, failing and panicking jobs, restarts | component of `MessageDelivery` |
| `MessageOutbox` | the client's outbox as operators on its items, one per JavaScript handler | component of `MessageDelivery` |
| `MessageDelivery` | outbox, server and worker over a connection that loses requests, answers and events | composition, end to end |
| `Speaking` | speaking modes, roles and removals of one group under the chat's advisory lock | detailed component |
| `LastSeen` | observations in memory, their flush and acknowledgement, the daily rollup | component of `Presence`, and its abstract specification |
| `Presence` | who sees when a peer was last seen: writers, broadcast channel, loads, publication | composition, implements `LastSeen` |
| `MC...` | finite values for the constants | instances for TLC |
| `RpcDispatchProofs`, `RpcSessionProofs`, `UnreadCacheProofs`, `UnreadWatchProofs`, `MessageStoreProofs`, `MessageDeliveryProofs`, `SpeakingProofs`, `PresenceProofs` (with `LastSeen`'s) | theorems | proofs |

### RpcExchange and RpcDispatch

`RpcExchange` is the promise: an id may be taken when it is not owed, what a frame
owes is answered in one reply, and the exchange may end with ids owed.
`RpcDispatch` is the code.  `ReceiveMessage` and `ReceiveMalformed` are the frame
branch of the serve loop's `select!`, the `Schedule...` actions are the exits of
`schedule_call` in their order (duplicate id, not a request, no permit, no
control permit, nobody to tell, unknown method, admitted), and `FinishBatch` is
the end of a batch's scheduling.  `RunOrdinary`, `RefuseParameters`, `Submit`,
`SubmitToFullLane` and `Panic` are what a supervised task may do, `LaneTakes`,
`LaneReplies` and `LaneGone` are `run_controls`, `Deliver` sends a result.
`SettleSingle` and `SettleBatch` are the two result branches of the loop, `Guard`
and `Stop` its other ones.  A call is a record that stays in the sequence `calls`
and moves through stages, so that what was asked can be compared with what was
answered.  A method is a member of a small set of classes; an outcome is one of
ok, error, lifecycle, refused.  Payload, parsing, byte leases and framing are
abstracted: a frame that cannot be enqueued closes the transport, as ten seconds
without room do.

Correspondence: `outstanding` is `outstanding_ids`; the permits of
`SessionAdmission` are counted from the stages (`OrdinaryPermits`,
`ControlPermits`); the lane is the calls that are queued and the one that
executes; the result channel is the calls that are "resulted"; `pending` is what
the table of batches still expects.  The orders of the lane and of the result
channel are left open, which includes those of the code.  `Clients` are the
clients that are looked at, each with the messages it may send and bounds on its
calls and frames; which of them is connected is the variable `client`, which never
changes.

### RpcSession

Admission is reduced to "a control is admitted when the lane is idle", which the
serial lane justifies: a queued control has no effect until the lane takes it.
Everything that awaits in the code is more than one step here: `bind` looks at
the transport, registers, then takes the state lock; `send_authorized_event` and
`send_current_watch_event` hold the event gate from their check to the enqueueing;
the loop suspends, answers, activates and notifies in separate steps.  Watches
carry the generation that `replace_*_watch` assigns.  The three watches differ in
their data, not in their control: one set, `Watches`, stands for them.  The registry is modelled as
far as this session's own entry goes: its channel is a counter with capacity
`Inbox`, an event that finds no room leaves the lag permit.  The ghosts `last`
(last frame enqueued) and `told` (what the client knows) exist for the properties.

### UnreadCache

The database is the committed rows, a revision per chat, the revision sequence and
one open transaction per session.  `Write` changes a message and, as the triggers
of the migration do when the visible content changes, moves the chat to the next
value of the sequence in the same transaction, holding both rows until its end.  A
count is `Ask`, then, for a single cursor outside a transaction, the single-flight
lock (`EnterFlight`), the statement that reads revisions, the look-up, one
statement per kind of cursor that counts and reads the revision in one snapshot
(`CountMisses`), `Publish` into the cache and `Return`.  `Fail`, `EvictCount` and
`EvictFlight` are a failed statement and the evictions of the two moka tables; a
session inside its transaction neither reads nor writes the cache.  The ghost
`history` records the content each revision stood for, `possible` the counts that
were true during a call.

### UnreadWatch

`run_with` is a loop around a biased `select!`.  `SeeSubscription`, `SeeChange` and
`StartLoad` are its branches; a load is `ReadExpiry`, then a `Read` per statement,
and ends in `LoadEnds` or `LoadFails`, where `has_changed` decides whether the
result is kept; `Publish`, `Excuse` and `Send` are what follows, with an await
between them in which the watch may be replaced.  Around the loop stand the
writers (`Commit`, later `Notify`, which leaves at most one permit), the clock
(`Tick`, at which mutes end without any event), the session (`Install`, and the
forwarder's `Take` and `Forward`, which drops events of another generation) and the
client's store (`Applied`).  An item's content is a version, and for the badge the
mutes in force.  Deadlines are moments at which mutes end, so the delays of 150 ms
and of 1 s to 30 s only say that a timer is set.  A summary that two statements
produce is two items.  `states.rs` runs the same loop over items that no
clock changes; the initial states without mutes include it.  There is one clock: the badge's
query reads the clock of the database, the query for the next end of a mute the
one of the server, and with two clocks that differ a mute's end may be missed
(listed as a hazard).

### OnceStore and MessageStore

`OnceStore` promises what a client that repeats its requests relies on.
`MessageStore` has the transactions that change a group's messages: `BeginSend`
to `Flag` is `send_prepared_message` statement by statement, `Resend` its branch
when `ON CONFLICT` inserted nothing, `BeginPublish` and `Publish` the publication of
an audio message, `BeginDelete`, `Recall` and `BeginCleanup` the three ways to
delete, and `Recount` to `StoreLast` what follows them (`recalculate_thread_meta`,
the shifts of cursors, `recalculate_group_last_message`); `MarkRead` is a reader.
The database is a function from cells to values.  A statement reads what is
committed and what its own transaction wrote, waits for cells that another open
transaction wrote, and holds what it writes until its transaction ends: READ
COMMITTED, as the connection pool uses it.  The trigger of the migration takes part as
`Bumped`: a statement that changes what the main counters see locks the chat's
revision, which is what orders sends and deletions.  The unique index on the key
makes an insertion wait for another of the same key, and the foreign key of a reply
holds its root.  A row is `attached` while its attachments are not deleted: a recall or
cleanup deletes them (`SoftDeleted`), the deletion of one message leaves them (`Deleted`),
and a repeated request is the stored one only if they agree as well (`SamePayload`).  `Over` and `Cell` write one function over another.  `Abort` is an error, a deadlock resolved by PostgreSQL, a lost
connection or a restart, at any statement.

### MessageOutbox, AudioTranscode and MessageDelivery

`MessageOutbox` is `message-outbox.ts`.  JavaScript runs a handler to its next await,
so each handler is an operator from the items to the items: `Pump` is `pump`
(readiness, the slot of the conversation, the request that starts), `Created`,
`Acknowledged`, `Answered`, `DeletionAnswered`, `CheckAnswered`, `UpdateSeen`,
`DeletionSeen`, `Resynced` and `Released` are the methods of those or similar names.
A submission is the number of the revision of the intent it carries.
`AudioTranscode` is `run_worker` with the sender's `enqueue`: a turn is a refill that
loads pending ids and enqueues them one by one, then one job.  A restart forgets
everything but the rows.  `MessageDelivery` puts an outbox, a server and this worker
together.  The server's handlers are one step each, since `MessageStore` has
their transactions; a repeated create is accepted if it has the content of the row and the
row still has its attachments (`Accepted`), so after somebody else's `CleanUp` the
repetition of a message with uploads or audio is a conflict.  Their answer and their events reach the client in any
order, or not at all when the connection is lost; a request that timed out may
still run later (`late`).  `Disturbs` counts everything that goes wrong or that the user
does besides adding messages: edits, recalls, refused creates, edits and deletions, timeouts
(of checks too), disconnections,
restarts, failing uploads and jobs, the deletion of all messages by somebody else.

### Speaking

`Queue`, `Grant` and `Release` are `lock_chat`: PostgreSQL's advisory lock, shared or
exclusive, granted behind earlier requests that conflict.  `Check` and `Reject` are what a
send (`authorize_message_send`) or a change (`update_group_mode`,
`update_member_mode`, `update_member_role`, `delete_remove_member`) reads and requires
under the lock, `Store` and `Commit` what it writes, `Announce`, `Read` and `Tell` the
announcement, a transaction of its own.  `Join` inserts without the lock, as
`post_add_member` does.

### LastSeen and Presence

`LastSeen` has `record`, and `flush` in its steps: the snapshot (`FlushBegins`), a
transaction per day (`FlushDay`), its acknowledgement (`Acknowledge`), and the errors
after which the rest stays for the next flush, with a transaction that was rolled back or
whose answer was lost (`FlushFails`).  `latest`, which presence uses, is the relation
`IsLatest`.  `Presence` composes it with the presence watch of one session on one
peer.  Writers commit a change of a friendship, block, override or visibility
(`Write`) and announce it later (`pair_policy_changed`) on a bounded broadcast
channel, whose reader learns that something was lost, not what.  `SeeWatch`,
`ReceiveChange` and `Tick` are the branches of `run_presence_watch`; each begins a load,
which is the statements of `peer_relationships` and `load_visible_users`
(`ReadFriendship`, `ReadBlocks` twice, `ReadMembers`, `Observe`, `ReadPolicies`, `Compute`), not
in one transaction; `CheckAgain` and `CheckDone` are the loop of
`snapshot_after_pending_changes`; `Publish` drops the snapshot of a replaced watch.
Group membership changes unannounced (`GroupChanges`).

## Runs

| Run | Shows |
|---|---|
| `message_store` | whatever transactions overlap, fail or repeat: the group's last message is there, a thread counts its replies, receipts do not go back, a request is stored and answered once |
| `message_delivery` | the outbox never contradicts what is stored, keeps its order, and what is added is confirmed, what is recalled is deleted, what is pending is published |
| `speaking` | no message is stored against a committed restriction, an admin remains, announcements never go back and are made |
| `presence` | no observation is lost, days count users once, the shown time never goes back, what is hidden disappears |
| `unread_cache_filters` | counts are coherent, true and complete for two filters over one chat while messages are written by two sessions; revisions grow |
| `unread_watch` | partial payloads fit, no change is forgotten, the client converges |
| `rpc_dispatch` | ids and batches are exact, the exchange is implemented, requests settle, suspended sessions close, permits return |
| `rpc_session` | safety of identity and events |
| `rpc_session_ends` | liveness of the end |
| `rpc_control_lane` | violation: an admitted control may find the queue full |
| `rpc_session_late_bind` | violation: an ended session may leave its registration |
| `rpc_session_identity` | violation: an identity may be activated before its answer |

The configuration and the properties of each run are in `PROJECT.json`.  Type
invariants are proved (`SessionTypeCorrect`, `TypeCorrect`, `WatchTypeCorrect`,
`PresenceTypeCorrect`) rather than run; that of `RpcDispatch` documents its variables.

### Bounds

`MessageStore`: one member on two connections, two keys, each used for two
requests that conflict (a message of the chat, a reply), one of them for audio; three
messages of which one is there at the start, cleanups in batches of one, recalls
of two.  Two open transactions are enough for every pair of
handlers to overlap at every statement, and three messages for a thread with
two replies, a root that loses its last reply, and a last message that must be found
again among others.  A second user would only add cursors.
`MessageDelivery`: one text message with uploads and three disturbances, one audio
message with two, both with one, two audio messages with none; a channel of one job, a
refill of two.  Three disturbances are an edit, a lost answer and a
recall, or a timeout, a restart and a late execution; the order of messages and the
worker's channel need two messages but hardly a disturbance.
`Speaking`: two users, two connections, the group's creator, two modes that restrict
or not.  Two transactions are what a lock is about; the proofs cover any number.
`Presence`: a start with two policy changes, one with a change, a change of others, a
second watch and a failed load, both for a pair of friends and for two members of one
group, with the clock standing still; a start without changes in which time passes, over
two days of two moments with one failed flush.  A channel of one change
overflows with the second.
`UnreadCache`: two sessions on one chat, with one message and two cursors that
differ in what they hide, so that a batch needs two statements; two
revisions, so that a fill can straddle a commit and come after a newer fill; a lock
evicted once.  That a revision orders writers of several messages is
covered by the proof only.
`UnreadWatch`: a summary and a badge, one change of each and one mute that ends, two
installations (watch, replacement or end), two failed loads: a change can come
before, during and after a load, a retry can fail again, and the output, which
holds one event in the channel and one in the forwarder, fills up.
`RpcDispatch`: two clients, one with three frames of at most two calls of every
class, three calls in all, and one that opens the session and sends three
controls in a batch; one ordinary permit, a queue of one control and of one result; the code's
limits (16 permits, 8 controls, 16 results) are scaled so that each is
reached, and the interesting cases (an id reused while its batch waits, a result
queue that is full, a lifecycle failure inside a batch) need no more.  The
process-wide limit of 128 is used by other sessions as well: an ordinary call may
be refused as overloaded at any time.  `RpcSession`: one watch, three controls (two for liveness), one
event in the channel.  One watch is enough because watches share only the gate
and the generation counter, and the proofs cover any number.  Three controls let a
session open, be bound, replace its watch, or open anonymously, bind late and
repeat the request.  `Generations` is bounded by the number of controls.
`CHECK_DEADLOCK FALSE` appears where a session really stops (an ended session
does nothing more) and where what may still happen is bounded: a conversation
that has settled, a database whose ids are used up, a clock at the horizon.

### Fairness

Liveness assumes what the runtime gives.  Tasks that can run do run (weak
fairness of the loop, of the lane, of forwarders in the middle of a publication
and of the tasks that finish work: every wait inside them is bounded by a
timeout or ends with the transport).  The event gate is a tokio mutex, which is
first come first served, so whoever waits for it gets it although others take it
again and again: strong fairness of the three actions that wait for it.  A
generation check comes every five seconds, hence weak fairness of a failing
check once the token is revoked (the 30 s cache only delays it).  Nobody pings the
entry of an ended session and `main.rs` sweeps the registry every minute: weak
fairness of `Prune` for an ended session only.  In `UnreadWatch`
the runner, the forwarder, a writer that committed and the clock go on; loads fail
finitely often (`MaxFailures`), as `Converges` asks for a database that comes back.  In `Speaking` a transaction that holds the lock goes on
and ends, and a request that can be granted is (weak fairness of each session's
steps); nobody has to ask for anything.  In `MessageDelivery` timers fire, handlers
of the client and the server run, the client reconnects, the worker works, and the
user keeps the conversation open that shows the message (`Load`), since it is the
loaded range that releases a pending message; disturbances are finite.  Its
weak fairness is written with predicates in place of `ENABLED`, which say when a handler has
something to do: the handlers are long to evaluate.  `Presence` and
`MessageStore` are checked for safety only.  No fairness is assumed of the
client's requests, of revocation, of broadcasts or of the transport's failure.

## Proofs

All from the modules' named assumptions on constants only, checked by `tlapm`
without trusted steps.  The assumptions bound nothing the code does not: bounds of
the instances are natural numbers, `MaxBatch` (`MAX_BATCH_ITEMS`) is not 0, and in
`MessageStore` requests are by users, to the chat or to one of its messages, and
message 1 was stored for a request to the chat.

`RpcDispatchProofs`, for every client and every bound on calls, frames, batches and
permits.  `PendingExact` is not inductive: that a batch is flushed when its entry
reaches zero depends on nothing of it being put aside without an entry.  The
invariant `IInv` adds `StageInv` (in an open session whatever counts towards a batch, or
is held for one, has its batch in the table, and no batch of the table is answered
in part), `CallsInv` (the calls of a frame are one single call, or one batch) and
`HandshakeInv` (before the first message, between it and its answer, after it).  The
actions of the serve loop, tasks and lane are reduced to a few kinds of step
(`Reads`, `Appends`, `Answers`, `Collects`...), which say what becomes of calls, ids and table, and each part of the invariant is
shown for those.  Gives `IdsAreExact`, `IdsAreExclusive`, `HandshakeIsAlone`,
`PendingIsExact`, `AnswersComeTogether` and, step by step, `DispatchImplementsExchange`.

`MessageStoreProofs`, for every number of users, sessions, requests and messages.
Its properties are about committed rows, and none is inductive: a commit makes
visible what several statements wrote while others committed.  The invariant
`StoreInv` therefore says of each open transaction, over the committed database,
what it has written and that what it found still holds (`TxInv`): rows keep their
request, are published and deleted only by who may (`RowsInv`, `DeletedInv`), a count
is one more than the committed one or belongs to a thread that has lost a reply
(`CountInv`), receipts are no older (`ReadersInv`), a reply's root and a free key stay
so (`SendInv`), and who changes what the main timeline shows holds the revision, so
that the last message it has found stays right (`RevisionInv`, `LastInv`).  `Frame` is what a
commit of another may change, and `FrameTx` shows that it leaves all of this true;
`Apart` says that the writes of two transactions are disjoint.  Each
statement is a lemma about one transaction, each commit one about the database.
Gives `LastMessageIsThere`, `ThreadsAreCounted`, `ReceiptsOnlyGrow` and
`StoreImplementsOnce`.  TLC has checked `StoreInv` on the instance of
`message_store`.

`MessageDeliveryProofs`, for every set of messages, size of the channel, limit of the
refill and number of disturbances.  The invariant `DeliveryInv` has three parts.
`OutboxOK`: a create under way is the frozen one, only confirmed messages are edited,
only recalled ones deleted, a create under way has not failed (`Underways`, `Unfailed`),
and one message holds the slot.  `StoreOK`: a row or a late create has the content
that was frozen, a row that is not deleted has its attachments (so that a create under way is
accepted, or meets a deleted message: `CreatesRepeat`), and what a late edit may change is `Settled`: confirmed, and no create of
it begins any more.  `WorkerOK`: what is scheduled is in the channel or in work, and
nothing is in work unless the worker is at it.  `Keeps` is what every handler of the
outbox does to the items: it keeps `OutboxOK`, never changes a frozen create, and never takes
back a confirmation (`Evolves`).  There is one lemma per handler; each reduces it to
changes of one item that do not take the slot (`Fits`), and to `Pump`, which gives it away
only when nobody has it (`PumpKeeps`).  Rows and late requests survive whatever
evolves (`StoreStep`).  For the worker, `EnqueueLeavesJob` says that whoever finds a message
scheduled or the channel full leaves the worker a job, after which it looks for others, and
`NewestFirstHasAll` that the refill loads each pending id.  Gives `CreatesAreRepeated`,
`CreatesTakeTurns` and `NoAudioForgotten`.  TLC has checked `DeliveryInv` on the
instance of `message_delivery`.

`UnreadCacheProofs`, for every set of sessions, chats, messages and cursors.
`CacheCoherent` is not inductive: a fill writes what a statement fetched several
steps ago.  The invariant adds that the history is a function of chat and
revision, that the committed content is in it under the current revision, that an
open transaction which touched a chat owns its row and a revision nobody else has, and that
what a call carries names a content of the history.  From it follow
`CacheIsCoherent`, `AnswersAreTrue` and `RevisionsGrow`.  `CollectedInv` says that a
call that counts has answered, once, every cursor that is not missing, that what it
has fetched is for the batch it is about to publish, and that the cache is a map.  It
gives `AnswersAreComplete`.

`RpcSessionProofs`, for every set of watches, number of controls and channel
capacity.  One inductive invariant per concern, all relative to `TypeInv`, which
adds to `TypeOK` that generations are no more than controls (an idle lane has
accounted for its control, a busy one has not) and that the loop has a result
whenever it is dealing with one:

- `AckInv`: generations told or to be told are no newer than the watch, and a
  watch that is held is no older; the holder of the gate publishes the current
  generation.  Gives `NoStaleSnapshot`.
- `GreetInv`: only the first control may run before the greeting; a session is
  activated after it; who publishes is activated.  Gives `EventsFollowGreeting`.
- `BindInv`: while a control is between verification and commit nobody is bound;
  an activated session that is not bound is closed.  Gives `AccountsNeverChange`.
- `QuietInv`: a session stops accepting before it says why; who publishes has
  an accepting session.  Gives `SilenceAfterFailure`.
- `CheckInv`: an activated session has a check or its failure under way.  Gives
  `ChecksNeverLapse`.

`UnreadWatchProofs`, for every set of items, every number of changes, replacements
and failures, and any horizon.  `StaleIsScheduled` is not inductive: that the end
of a mute is covered depends on the timer having been set from a query made before
the content was read.  `ArmedInv` says so (a timer no later than every mute in
force, unless a reload is due anyway), `ReadInv` that a finished load has read
everything; from them follows `NoChangeForgotten`.  `DiffsFit` is inductive with
`HeldInv` (an event waits only while it is sent): it gives `PartialPayloadsFit`.

`SpeakingProofs`, for every set of users and connections.  `LockInv` (who holds the
lock exclusively holds it alone), `ReadyInv` (what a transaction has checked or read
under the lock still holds when it writes) and `ChangedInv` (what follows a commit is an
announcement) give `AdminAlwaysRemains`, `StoredSendsAreAllowed` and
`AnnouncementsAreCurrent`.  Members join without the lock, but that invalidates no check.

`PresenceProofs` on `LastSeen`, for every set of users, length of day and horizon.
`ObservationsKept` needs `ClockInv` (nobody was seen in the future), `BatchInv` (a
batch holds nothing newer than what is pending) and `WrittenInv` (the day to be
acknowledged is written).  Gives `NoObservationLost`.  `CountedInv` adds that what is pending for a day,
or in a row, was observed on that day (`ObservedInv`), that who was seen today is pending or in
a row (`TodayInv`), and that before the last day of a batch nothing was recorded since
its snapshot (`SnapshotInv`): what leaves `pending` was counted, once.  Gives
`EachUserCountedOnce`.

`PresenceProofs` on `Presence`, for every capacity of the channel and every start.
`PresenceRefinesLastSeen` carries `NoObservationLost` over.  `PolicyInv` says that,
as long as no change is under way to the runner (unannounced, in the channel, lost
from it, or excused), everything the load has read so far equals what is
committed, and so does what it computed and what is shown.  It gives
`HiddenIsAlwaysScheduled`.  `TimeInv` says that what a load has read, or still has to read,
is no older than what is shown: the pending observations are read before the rows,
and an observation moves only from the former to the latter.  Gives
`ShownTimeAdvances`.

Only model-checked: every liveness property (liveness and `ENABLED` are beyond the
prover).  Every safety property of a passing run is a theorem.

## Disagreements between code and comments

The first three are findings, each shown by a run.

- *Control lane.*  `CONTROL_QUEUE + 1` permits are meant as "one executing
  control and the existing bounded queue", but a permit is taken at admission and
  the lane takes its command later: until it does, the queue has to hold
  `CONTROL_QUEUE + 1` commands, the last `try_send` finds it full and the session
  closes as overloaded (`rpc_control_lane`).
- *Late bind.*  `bind` looks at the transport, registers, then waits for the
  state lock and looks only at `accepting` and `bound`.  A loop that ended
  meanwhile has already removed what was bound, so the registration stays until
  the sweep (`rpc_session_late_bind`; `RegistryForgets` shows that the sweep
  removes it).
- *Activation by a notification.*  A notification of an opening method has no
  answer, and the loop activates without looking at its outcome.  It may thereby
  activate the identity another control has just bound, before that control's
  answer was sent, and start a second series of generation checks
  (`rpc_session_identity`).
- *Joining without the lock.*  The comment of `lock_chat` says that "membership changes
  take exclusive locks until commit" (`services/speaking.rs:42-44`); adding a member takes
  none (`post_add_member`).  `Join` follows the code.  No property breaks:
  `SpeakingProofs` shows that a member who joins invalidates no check.

## What the code does not promise

Behaviours met while modelling that no property excludes, because nothing in the
repository relies on their absence or because they heal by themselves, unless said
otherwise.

- *Thread recount.*  `recalculate_thread_meta` reads the replies of a thread and then
  writes what it read.  A reply that is inserted and counted in between is lost from the
  count, and if it is the only one left its root loses `has_thread` (the
  backend's README and the comment of the function describe the result as the
  count of visible replies).  `CountsExact` is therefore stated for threads that have
  lost no reply.
- *Cleanup of a member.*  Its reconciliation is a later transaction that does not wait at
  the revision and may write a last message that was deleted meanwhile
  (`LastIsVisible` excludes chats that were cleaned up).
- *Audio reply deleted during its publication.*  The publication counts it.
- *Cursors.*  Reading checks its target before it writes: a cursor can be set to a
  message that was deleted in between, and a shift skips a cursor that is not yet committed.
- *Deadlock.*  The send and the deletion of replies take root and counter in
  different orders; PostgreSQL aborts one, which its caller sees as an error.
- *Late edits.*  An edit that timed out and runs late may overwrite a newer one.
- *Repeated create of a deleted message.*  A cleanup or recall deletes the attachments with
  the message (`message_deletion.rs:99-105`), and a repeated create is compared with those
  that are not deleted (`messages.rs:2086-2102`): the retry of a message with attachments
  whose answer was lost is then a conflict rather than the stored message.
  `CreatesRepeat` says that this is the only such case.
- *Hidden failure of a recall.*  If a deletion is refused while an edit of the same message
  is under way, the edit's answer sets the item back to `Sent` (`acknowledge`), although
  such failures "require intervention" (comment in `delete`).  `Settles` therefore ends a recall
  at an item that is not retried, shown as failed or not.
- *Policy change with a lost answer.*  A writer whose commit answer is lost does not announce
  its change; watches notice at the tick of 15 s.  `Presence` has no such writer.
- *Lost publication event.*  An audio message whose publication event is lost while
  its create is repeated stays unpublished for its sender until the next resync.
- *Mixed snapshots.*  A load reads statement by statement and may show a time that no single
  policy allowed, until the second change is announced; who leaves a group is
  noticed at the tick of 15 s, and so is a load that failed.
- *Final flush.*  What is observed after the last flush of a shutdown is lost.

## Not modelled

Serialization, limits in bytes and the 64 MiB lease budget (a frame is enqueued or
the transport closes); the content of methods; HTTP handlers; search, media and
avatars (object stores); generated code; development tools.  Within modelled
components:

- *RPC*: the legacy socket, the session-wide limit of 128 calls (any call may be
  refused), the three watches' data, items that are responses and ids that are null.
- *Messages*: forwarding, reactions, pins, saved messages, edits in `MessageStore`.
- *Outbox*: forwarding and its dialog, edits of messages that were handed over
  to the timeline, removal of uploads, waiting for a recall of several messages,
  logout, the hint of a speaking restriction.
- *Audio*: rows from before the status column, metrics, the object store.
- *Speaking*: direct chats, limits of invitations, the slow paths of joining.
- *Last seen*: the first row of a new user, clients and their purge, the other rollups; reading
  the clock and recording are one step.
- *Presence*: counts of groups and their cache, whether the peer is connected, the bucket
  shown instead of a hidden time, watches of groups.

Push notifications, token generations, friend requests and invitations are left for
lack of modules rather than out of reach; the hazards found there are listed in
`PROJECT.json` with a note.

## Plan

1. `JobWorkers`: push (dropped jobs, panics, failure counts read before and written
   after a delivery).
2. `TokenGenerations`: the cache against a bump.
3. `Social` and `Invites`: crossing requests, blocks, limited invites.

Theorems to add: those of these modules; that the messages of `MessageDelivery` are
stored once, as an implementation of an abstract specification of its own.
