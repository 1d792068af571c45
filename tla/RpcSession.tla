----------------------------- MODULE RpcSession -----------------------------
(***************************************************************************)
(* The identity half of one RPC session (rpc/session.rs): opening and      *)
(* binding, registration for events, watches, the event gate, generation   *)
(* checks and the lifecycle notification.  Four kinds of task share one    *)
(* SessionState: the serve loop, the serial control lane, the forwarders   *)
(* of registry and watch events, and the generation checks.                *)
(*                                                                         *)
(* Admission, batches and request ids are the subject of RpcDispatch: here *)
(* a control is admitted when the lane is idle, and its result waits to be *)
(* taken by the loop while the lane may serve the next one.  The registry  *)
(* (services/ws_registry) is modelled as far as this session's entry goes. *)
(***************************************************************************)
EXTENDS Integers

CONSTANTS
    Watches,        \* the watches a client may hold: presence, unread, states
    NoWatch,
    MaxControls,    \* bound on the controls of the session
    Inbox           \* capacity of the registry entry's event channel

ASSUME WatchesAssumption ==
    /\ NoWatch \notin Watches
    /\ Watches \cap {"free", "registry", "loop"} = {}
ASSUME BoundsAssumption == MaxControls \in Nat /\ Inbox \in Nat

VARIABLES
    closed,         \* the transport state
    loop,           \* where the serve loop is
    lane,           \* the control the lane works on
    results,        \* results of controls the loop has not taken
    issued,         \* number of controls admitted
    state,          \* SessionState
    current,        \* per watch: the generation its sender holds; 0 is none
    gate,           \* the holder of event_gate
    snapshot,       \* per watch: the generation of the snapshot to publish
    registered,     \* this session's entry is in the registry
    inbox,          \* events in the entry's channel
    lagged,         \* the entry's lagged permit
    valid,          \* the token generation of the bound identity is current
    checks,         \* number of generation_checks tasks
    guard,          \* failures in guard_rx
    last,           \* ghost: the last frame enqueued
    told            \* ghost: what the client has been told

vars == <<closed, loop, lane, results, issued, state, current, gate, snapshot,
          registered, inbox, lagged, valid, checks, guard, last, told>>

-----------------------------------------------------------------------------
Kinds == {"anonymous", "open", "dev", "ping", "watch", "unwatch"}
Outcomes == {"ok", "error", "lifecycle"}
Generations == 0..MaxControls

\* `asks` tells a request from a notification.
Control == [kind : Kinds, watch : Watches \cup {NoWatch}, asks : BOOLEAN,
            no : 1..MaxControls]
Result == [kind : Kinds, watch : Watches \cup {NoWatch}, asks : BOOLEAN,
           no : 1..MaxControls, outcome : Outcomes, generation : Generations]
NoResult == [kind |-> "none"]

LaneSteps == {"queued", "record", "bind", "register", "commit", "replace"}
LaneIdle == [step |-> "idle"]

\* The loop suspends, answers, activates and notifies for the result it took.
LoopSteps == {"select", "suspend", "answer", "activate", "notify", "leaving",
              "ended"}

Frames ==
    [kind : {"none", "notice", "event", "answer"}]
    \cup [kind : {"snapshot"}, watch : Watches, generation : Generations]

Holders == {"free", "registry", "loop"} \cup Watches

TypeOK ==
    /\ closed \in BOOLEAN
    /\ loop \in [step : LoopSteps, result : Result \cup {NoResult}]
    /\ \/ lane = LaneIdle
       \/ lane \in [step : LaneSteps, control : Control]
    /\ results \subseteq Result
    /\ issued \in 0..MaxControls
    /\ state \in [opened : BOOLEAN, accepting : BOOLEAN, notified : BOOLEAN,
                  anonymous : BOOLEAN, bound : BOOLEAN, activated : BOOLEAN,
                  generation : Generations]
    /\ current \in [Watches -> Generations]
    /\ gate \in Holders
    /\ snapshot \in [Watches -> Generations]
    /\ registered \in BOOLEAN /\ inbox \in 0..Inbox /\ lagged \in BOOLEAN
    /\ valid \in BOOLEAN /\ checks \in Nat /\ guard \in BOOLEAN
    /\ last \in Frames
    /\ told \in [greeted : BOOLEAN, identified : BOOLEAN, refused : BOOLEAN,
                 acked : [Watches -> Generations]]

Init ==
    /\ closed = FALSE
    /\ loop = [step |-> "select", result |-> NoResult]
    /\ lane = LaneIdle /\ results = {} /\ issued = 0
    /\ state = [opened |-> FALSE, accepting |-> TRUE, notified |-> FALSE,
                anonymous |-> FALSE, bound |-> FALSE, activated |-> FALSE,
                generation |-> 0]
    /\ current = [w \in Watches |-> 0]
    /\ gate = "free"
    /\ snapshot = [w \in Watches |-> 0]
    /\ registered = FALSE /\ inbox = 0 /\ lagged = FALSE
    /\ valid = TRUE /\ checks = 0 /\ guard = FALSE
    /\ last = [kind |-> "none"]
    /\ told = [greeted |-> FALSE, identified |-> FALSE, refused |-> FALSE,
               acked |-> [w \in Watches |-> 0]]

Registry == <<registered, inbox, lagged>>
Publishing == <<gate, snapshot, last, told>>

-----------------------------------------------------------------------------
(* Admission of a control by the loop (serve_rpc_session, schedule_call).   *)

\* The first message is session.open with an id, and nothing is read until its
\* answer was settled.  Later, what is not session.open or auth.createDevSession
\* is refused before the lane unless the session is activated.
Admit ==
    \E kind \in Kinds, w \in Watches \cup {NoWatch}, asks \in BOOLEAN :
        /\ loop.step = "select" /\ ~closed /\ state.accepting
        /\ lane = LaneIdle /\ issued < MaxControls
        /\ (w # NoWatch) <=> (kind \in {"watch", "unwatch"})
        /\ issued = 0 => kind \in {"open", "anonymous"} /\ asks
        /\ issued > 0 => told.greeted
        /\ kind \in {"ping", "watch", "unwatch"} => state.activated
        /\ issued' = issued + 1
        /\ lane' = [step |-> "queued",
                    control |-> [kind |-> kind, watch |-> w, asks |-> asks,
                                 no |-> issued + 1]]
        /\ UNCHANGED <<closed, loop, results, state, current, Registry, valid,
                       checks, guard, Publishing>>

-----------------------------------------------------------------------------
(* The control lane (handle_control).  It finishes the control it works on   *)
(* even when the transport closes meanwhile.                                 *)

\* The reply goes back through the dispatching task; a notification reports its
\* lifecycle failure to the guard channel instead of answering it.
Replies(outcome, generation) ==
    LET c == lane.control IN
    /\ lane' = LaneIdle
    /\ results' = IF loop.step = "ended" THEN results ELSE results \cup
            {[kind |-> c.kind, watch |-> c.watch, asks |-> c.asks, no |-> c.no,
              outcome |-> outcome, generation |-> generation]}
    /\ guard' = (guard \/ (outcome = "lifecycle" /\ ~c.asks))

Continues(step) ==
    /\ lane' = [lane EXCEPT !.step = step]
    /\ UNCHANGED <<results, guard>>

LaneAt(step, kinds) ==
    lane # LaneIdle /\ lane.step = step /\ lane.control.kind \in kinds

\* check_session_generation_cause: a lookup may fail, and a revocation may be
\* hidden by the cache for a while.
CheckOutcomes == {"ok", "lifecycle"}

\* session.open on a session already opened, auth.createDevSession on one
\* already bound: a conflict, after the guard of the bound identity.
RefuseRepeatedOpen ==
    /\ \/ LaneAt("queued", {"open", "anonymous"}) /\ state.opened
       \/ LaneAt("queued", {"dev"}) /\ (state.bound \/ ~state.opened)
    /\ \E checked \in CheckOutcomes :
        Replies(IF state.bound /\ checked = "lifecycle" THEN "lifecycle"
                ELSE "error", 0)
    /\ UNCHANGED <<closed, loop, issued, state, current, Registry, valid,
                   checks, Publishing>>

\* mark_anonymous.
OpenAnonymous ==
    /\ LaneAt("queued", {"anonymous"}) /\ ~state.opened
    /\ state' = [state EXCEPT !.opened = TRUE, !.anonymous = TRUE]
    /\ Replies("ok", 0)
    /\ UNCHANGED <<closed, loop, issued, current, Registry, valid, checks,
                   Publishing>>

\* verify_open, or the issuing of a development session.
Verify ==
    /\ \/ LaneAt("queued", {"open"}) /\ ~state.opened
       \/ LaneAt("queued", {"dev"}) /\ state.opened /\ ~state.bound
    /\ \/ valid /\ Continues("record")
       \/ Replies("error", 0)
    /\ UNCHANGED <<closed, loop, issued, state, current, Registry, valid,
                   checks, Publishing>>

\* record_bind_activity.
RecordActivity ==
    /\ LaneAt("record", {"open", "dev"})
    /\ Continues("bind") \/ Replies("error", 0)
    /\ UNCHANGED <<closed, loop, issued, state, current, Registry, valid,
                   checks, Publishing>>

TransportUnchecked == TRUE    \* mutant: bind does not look at the transport
TransportOpen == ~closed

\* bind, in three steps: is the transport closed, register, take the state lock.
BindLooks ==
    /\ LaneAt("bind", {"open", "dev"})
    /\ IF TransportOpen THEN Continues("register") ELSE Replies("error", 0)
    /\ UNCHANGED <<closed, loop, issued, state, current, Registry, valid,
                   checks, Publishing>>

BindRegisters ==
    /\ LaneAt("register", {"open", "dev"})
    /\ Continues("commit")
    /\ registered' = TRUE /\ inbox' = 0 /\ lagged' = FALSE
    /\ UNCHANGED <<closed, loop, issued, state, current, valid, checks,
                   Publishing>>

\* mutant: binding activates, before the answer
BoundAndActivated ==
    [state EXCEPT !.opened = TRUE, !.anonymous = FALSE, !.bound = TRUE,
                  !.activated = TRUE]
Bound ==
    [state EXCEPT !.opened = TRUE, !.anonymous = FALSE, !.bound = TRUE]

BindCommits ==
    /\ LaneAt("commit", {"open", "dev"})
    /\ \/ /\ ~state.accepting \/ state.bound
          /\ Replies("error", 0)
          /\ registered' = FALSE
          /\ UNCHANGED <<state, inbox, lagged>>
       \/ /\ state.accepting /\ ~state.bound
          /\ Replies("ok", 0)
          /\ state' = Bound
          /\ UNCHANGED Registry
    /\ UNCHANGED <<closed, loop, issued, current, valid, checks, Publishing>>

\* guard_bound, which every other control starts with.
GuardBound ==
    /\ LaneAt("queued", {"ping", "watch", "unwatch"})
    /\ \/ ~state.bound /\ Replies("error", 0)
       \/ state.bound /\ Replies("lifecycle", 0)
       \/ /\ state.bound
          /\ IF lane.control.kind = "ping"
             THEN Replies("ok", 0) ELSE Continues("replace")
    /\ UNCHANGED <<closed, loop, issued, state, current, Registry, valid,
                   checks, Publishing>>

NextGeneration == state.generation + 1

ReplacerUngated == TRUE       \* mutant: replacement does not take the gate
ReplacerHasGate == gate = "free"

\* replace_*_watch: under the gate, one generation for all watches.
ReplaceWatch ==
    /\ LaneAt("replace", {"watch", "unwatch"})
    /\ ReplacerHasGate
    /\ LET w == lane.control.watch
           g == NextGeneration
       IN  IF ~state.accepting
           THEN Replies("error", 0) /\ UNCHANGED <<state, current>>
           ELSE /\ state' = [state EXCEPT !.generation = g]
                /\ IF state.bound
                   THEN /\ current' = [current EXCEPT ![w] =
                                IF lane.control.kind = "watch" THEN g ELSE 0]
                        /\ Replies("ok", g)
                   ELSE Replies("error", 0) /\ UNCHANGED current
    /\ UNCHANGED <<closed, loop, issued, Registry, valid, checks, Publishing>>

\* The parameters of a watch are invalid.
RefuseWatch ==
    /\ LaneAt("replace", {"watch", "unwatch"})
    /\ Replies("error", 0)
    /\ UNCHANGED <<closed, loop, issued, state, current, Registry, valid,
                   checks, Publishing>>

Lane ==
    \/ RefuseRepeatedOpen \/ OpenAnonymous \/ Verify \/ RecordActivity
    \/ BindLooks \/ BindRegisters \/ BindCommits
    \/ GuardBound \/ ReplaceWatch \/ RefuseWatch

-----------------------------------------------------------------------------
(* The serve loop.                                                          *)

Goto(step) == loop' = [loop EXCEPT !.step = step]
Breaks == loop' = [step |-> "leaving", result |-> NoResult]
Idling == loop' = [step |-> "select", result |-> NoResult]

\* send_prepared enqueues the frame, or fails: a closed transport, or ten
\* seconds without room, which close it.
Enqueues(f) == ~closed /\ last' = f /\ UNCHANGED closed
FailsToEnqueue == closed' = TRUE /\ UNCHANGED last

TakeResult ==
    /\ loop.step = "select"
    /\ \E r \in results :
        /\ results' = results \ {r}
        /\ loop' = [result |-> r,
                    step |-> IF ~r.asks THEN "activate"
                             ELSE IF r.outcome = "lifecycle" THEN "suspend"
                             ELSE "answer"]
    /\ UNCHANGED <<closed, lane, issued, state, current, Registry, valid,
                   checks, guard, Publishing>>

\* suspend_authorized_work.
Suspend ==
    /\ loop.step = "suspend" /\ gate = "free"
    /\ state' = [state EXCEPT !.accepting = FALSE]
    /\ Goto("answer")
    /\ UNCHANGED <<closed, lane, results, issued, current, Registry, valid,
                   checks, guard, Publishing>>

Told(r) ==
    [greeted |-> told.greeted \/ (r.no = 1 /\ r.outcome = "ok"),
     identified |-> told.identified,
     refused |-> told.refused \/ r.outcome = "lifecycle",
     acked |-> [w \in Watches |->
        IF w = r.watch /\ r.generation > told.acked[w]
        THEN r.generation ELSE told.acked[w]]]

\* A failed handshake closes; a lifecycle failure is followed by its notice.
Answer ==
    /\ loop.step = "answer"
    /\ LET r == loop.result IN
        \/ /\ Enqueues([kind |-> "answer"])
           /\ told' = Told(r)
           /\ IF r.no = 1 /\ r.outcome = "error"
              THEN Breaks
              ELSE Goto(IF r.outcome = "lifecycle" THEN "notify"
                        ELSE "activate")
        \/ /\ FailsToEnqueue
           /\ Breaks
           /\ UNCHANGED told
    /\ UNCHANGED <<lane, results, issued, state, current, gate, snapshot,
                   Registry, valid, checks, guard>>

\* activate, and the periodic check, after a successful answer; a notification
\* of auth.createDevSession gets here whatever its outcome.
Activates(r) ==
    r.kind \in {"open", "anonymous", "dev"} /\ (r.outcome = "ok" \/ ~r.asks)

\* mutant: only session.open starts the periodic check
SpawnsCheckOnOpen(r) == r.kind = "open" /\ r.outcome = "ok"
SpawnsCheck(r) == Activates(r) /\ state.bound

Activate ==
    /\ loop.step = "activate"
    /\ state' = [state EXCEPT !.activated =
            @ \/ (Activates(loop.result) /\ state.accepting /\ state.bound)]
    /\ checks' = IF SpawnsCheck(loop.result) THEN checks + 1 ELSE checks
    /\ told' = [told EXCEPT !.identified =
            @ \/ (Activates(loop.result) /\ loop.result.outcome = "ok"
                  /\ loop.result.kind # "anonymous")]
    /\ Idling
    /\ UNCHANGED <<closed, lane, results, issued, current, gate, snapshot,
                   Registry, valid, guard, last>>

TakeGuard ==
    /\ loop.step = "select" /\ guard
    /\ Goto("notify")
    /\ guard' = FALSE
    /\ UNCHANGED <<closed, lane, results, issued, state, current, Registry,
                   valid, checks, Publishing>>

\* handle_lifecycle_failure takes the gate, and keeps it through the notice.
BeginNotice ==
    /\ loop.step = "notify" /\ gate = "free"
    /\ gate' = "loop"
    /\ state' = [state EXCEPT !.accepting = FALSE, !.notified = TRUE]
    /\ UNCHANGED <<closed, loop, lane, results, issued, current, snapshot,
                   Registry, valid, checks, guard, last, told>>

Notify ==
    /\ loop.step = "notify" /\ gate = "loop"
    /\ gate' = "free"
    /\ \/ ~closed /\ last' = [kind |-> "notice"]
       \/ UNCHANGED last
    /\ closed' = TRUE
    /\ Breaks
    /\ UNCHANGED <<lane, results, issued, state, current, snapshot, Registry,
                   valid, checks, guard, told>>

\* An anonymous session has thirty seconds.
ExpireAnonymous ==
    /\ loop.step = "select" /\ state.anonymous
    /\ closed' = TRUE
    /\ Breaks
    /\ UNCHANGED <<lane, results, issued, state, current, Registry, valid,
                   checks, guard, Publishing>>

SeeClosed ==
    /\ loop.step = "select" /\ closed
    /\ Breaks
    /\ UNCHANGED <<closed, lane, results, issued, state, current, Registry,
                   valid, checks, guard, Publishing>>

\* remove_registration.
Leave ==
    /\ loop.step = "leaving"
    /\ closed' = TRUE
    /\ Goto("ended")
    /\ state' = [state EXCEPT !.bound = FALSE]
    /\ IF state.bound
       THEN registered' = FALSE
       ELSE UNCHANGED registered
    /\ results' = {}
    /\ UNCHANGED <<lane, issued, current, inbox, lagged, valid, checks, guard,
                   Publishing>>

Loop ==
    \/ TakeResult \/ Suspend \/ Answer \/ Activate \/ BeginNotice \/ Notify
    \/ SeeClosed \/ Leave

-----------------------------------------------------------------------------
(* Events, watches and generation checks.                                   *)

\* broadcast_to_uids.
Broadcast ==
    /\ registered
    /\ IF inbox < Inbox
       THEN inbox' = inbox + 1 /\ UNCHANGED lagged
       ELSE lagged' = TRUE /\ UNCHANGED inbox
    /\ UNCHANGED <<closed, loop, lane, results, issued, state, current,
                   registered, valid, checks, guard, Publishing>>

EventUnchecked == TRUE        \* mutant: only the transport is looked at
EventAllowed == state.accepting

\* send_authorized_event: the check and the enqueueing hold the gate.
BeginEvent ==
    /\ state.activated /\ ~closed /\ inbox > 0
    /\ gate = "free"
    /\ inbox' = inbox - 1
    /\ gate' = IF EventAllowed THEN "registry" ELSE "free"
    /\ UNCHANGED <<closed, loop, lane, results, issued, state, current, snapshot,
                   registered, lagged, valid, checks, guard, last, told>>

EndEvent ==
    /\ gate = "registry"
    /\ gate' = "free"
    /\ Enqueues([kind |-> "event"]) \/ FailsToEnqueue
    /\ UNCHANGED <<loop, lane, results, issued, state, current, snapshot,
                   Registry, valid, checks, guard, told>>

\* mutant: the lagged permit is consumed and the session goes on
SeeLagQuietly ==
    /\ state.activated /\ ~closed /\ lagged
    /\ lagged' = FALSE
    /\ UNCHANGED <<closed, loop, lane, results, issued, state, current,
                   registered, inbox, valid, checks, guard, Publishing>>

SeeLag ==
    /\ state.activated /\ ~closed /\ lagged
    /\ lagged' = FALSE
    /\ closed' = TRUE
    /\ UNCHANGED <<loop, lane, results, issued, state, current, registered,
                   inbox, valid, checks, guard, Publishing>>

\* A watch runner computed a snapshot for the watch it holds.
Snapshot(w) ==
    /\ state.activated /\ ~closed
    /\ snapshot[w] = 0 /\ current[w] # 0
    /\ snapshot' = [snapshot EXCEPT ![w] = current[w]]
    /\ UNCHANGED <<closed, loop, lane, results, issued, state, current, gate,
                   Registry, valid, checks, guard, last, told>>

\* send_current_watch_event.
BeginSnapshot(w) ==
    /\ snapshot[w] # 0 /\ gate = "free"
    /\ IF /\ ~closed /\ state.accepting /\ state.activated /\ state.bound
          /\ current[w] = snapshot[w]
       THEN gate' = w /\ UNCHANGED snapshot
       ELSE gate' = "free" /\ snapshot' = [snapshot EXCEPT ![w] = 0]
    /\ UNCHANGED <<closed, loop, lane, results, issued, state, current,
                   Registry, valid, checks, guard, last, told>>

EndSnapshot(w) ==
    /\ gate = w
    /\ gate' = "free"
    /\ snapshot' = [snapshot EXCEPT ![w] = 0]
    /\ \/ Enqueues([kind |-> "snapshot", watch |-> w,
                    generation |-> snapshot[w]])
       \/ FailsToEnqueue
    /\ UNCHANGED <<loop, lane, results, issued, state, current, Registry, valid,
                   checks, guard, told>>

\* generation_checks: it sends the first failure it sees and ends.
\* mutant: the failure is dropped with the task
CheckFailsQuietly ==
    /\ checks > 0 /\ ~closed /\ ~guard
    /\ checks' = checks - 1
    /\ UNCHANGED <<closed, loop, lane, results, issued, state, current, Registry,
                   valid, guard, Publishing>>

CheckFails ==
    /\ checks > 0 /\ ~closed /\ ~guard
    /\ checks' = checks - 1
    /\ guard' = TRUE
    /\ UNCHANGED <<closed, loop, lane, results, issued, state, current, Registry,
                   valid, Publishing>>

Revoke ==
    /\ valid /\ valid' = FALSE
    /\ UNCHANGED <<closed, loop, lane, results, issued, state, current, Registry,
                   checks, guard, Publishing>>

CloseTransport ==
    /\ ~closed /\ closed' = TRUE
    /\ UNCHANGED <<loop, lane, results, issued, state, current, Registry, valid,
                   checks, guard, Publishing>>

\* prune_stale removes an entry that was not pinged for long.  The session
\* keeps the entry it holds, with the events in its channel.
PruneNothing == FALSE         \* mutant: the sweep is not scheduled
Prune ==
    /\ registered /\ (lane # LaneIdle => lane.step # "commit")
    /\ registered' = FALSE
    /\ UNCHANGED <<closed, loop, lane, results, issued, state, current, inbox,
                   lagged, valid, checks, guard, Publishing>>

-----------------------------------------------------------------------------
Next ==
    \/ Admit \/ Lane
    \/ Loop \/ TakeGuard \/ ExpireAnonymous
    \/ Broadcast \/ BeginEvent \/ EndEvent \/ SeeLag
    \/ \E w \in Watches : Snapshot(w) \/ BeginSnapshot(w) \/ EndSnapshot(w)
    \/ CheckFails \/ Revoke \/ CloseTransport \/ Prune

\* The tasks run; the tokio mutex behind the gate is first come, first served;
\* the check comes again every five seconds; nobody pings the entry of a session
\* that ended, and the registry is swept every minute.
Fairness ==
    /\ WF_vars(Loop) /\ WF_vars(TakeGuard) /\ WF_vars(Lane)
    /\ SF_vars(Suspend) /\ SF_vars(BeginNotice) /\ SF_vars(ReplaceWatch)
    /\ WF_vars(EndEvent) /\ WF_vars(SeeLag)
    /\ \A w \in Watches : WF_vars(EndSnapshot(w))
    /\ WF_vars(~valid /\ CheckFails)
    /\ WF_vars(loop.step = "ended" /\ Prune)

Spec == Init /\ [][Next]_vars
LiveSpec == Spec /\ Fairness

-----------------------------------------------------------------------------
(* Properties.                                                             *)

Publishes == last' # last /\ last'.kind \in {"event", "snapshot"}

\* No event precedes the answer to session.open (activate follows the answer).
GreetingFirst == last.kind \in {"event", "snapshot"} => told.greeted

\* Once the client was told that a watch was replaced or given up, it is never
\* sent a snapshot of an earlier one: the check in send_current_watch_event and
\* its enqueueing are one step for replace_*_watch, because of the gate.
NoSnapshotAfterAck ==
    [][last' # last /\ last'.kind = "snapshot"
        => last'.generation >= told.acked[last'.watch]]_vars

\* After the answer that carries a lifecycle failure no event is published, and
\* after the lifecycle notification nothing is sent at all
\* (suspend_authorized_work, handle_lifecycle_failure).
QuietAtEnd ==
    [][/\ told.refused => ~Publishes
       /\ last.kind = "notice" => last' = last]_vars

\* Changing accounts requires a new connection: a session that was activated is
\* never bound again, not even by a control that outlives it (bind).
NeverRebinds == [][state'.bound /\ ~state.bound => ~state.activated]_vars

\* An activated session always has a generation check, or its failure on the
\* way to the loop.
ActivatedIsChecked ==
    state.activated /\ ~closed /\ loop.step = "select" => checks > 0 \/ guard

\* A revoked identity loses its session, even if the client does nothing.
RevokedEnds == (state.activated /\ ~valid) ~> closed

\* A session that missed an event is disconnected, so that the client fetches
\* anew ("A full buffer signals the socket to disconnect").
LagCloses == lagged ~> closed

\* The registry does not keep the entry of a closed session for ever, although
\* a bind that overlaps the close may leave it behind.
RegistryForgets == closed ~> []~registered

\* "Do not admit authenticated operations until the successful handshake reply
\* has been queued ahead of registry events" (call_context).  The control that
\* bound the identity was answered, or asked for no answer.
EventsFollowIdentity ==
    last.kind \in {"event", "snapshot"} => told.identified

\* "Caller must call remove_connection(uid, conn_id) when the socket closes"
\* (register): an ended session whose lane is done has no registration left.
EndedIsUnregistered == loop.step = "ended" /\ lane = LaneIdle => ~registered
=============================================================================
