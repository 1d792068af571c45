---------------------------- MODULE UnreadWatch ----------------------------
(***************************************************************************)
(* One unread watch of a session: run_with in services/unread/watch.rs,    *)
(* which loads a snapshot when something may have changed and publishes    *)
(* what differs, its output up to the client's store                       *)
(* (pwa/src/app/chats/conversation-unread.ts), and the writers that commit *)
(* first and notify afterwards.  The state watch (unread/states.rs) is the *)
(* same loop over items that no clock changes: Timed = {}, or nothing      *)
(* muted.                                                                  *)
(*                                                                         *)
(* An item is what one statement of a load reads and one key of a payload  *)
(* carries.  Its content is a version, and for an item that depends on     *)
(* temporary mutes (the app badge) the mutes in force.  Time is counted in *)
(* the moments at which mutes end; delays in between (150 ms to coalesce,  *)
(* 1 s to 30 s to retry) only say that a timer is set.                     *)
(***************************************************************************)
EXTENDS Integers

CONSTANTS
    Items,          \* summaries and badge of the watched views
    Timed,          \* the items whose content depends on mutes
    MaxVersion,     \* bound on the changes of each item
    MaxGeneration,  \* bound on the watches a client installs
    MaxFailures,    \* bound on the loads that fail
    Horizon         \* the last moment

ASSUME ItemsAssumption == Timed \subseteq Items
ASSUME BoundsAssumption ==
    /\ MaxVersion \in Nat /\ MaxGeneration \in Nat
    /\ MaxFailures \in Nat /\ Horizon \in Nat

VARIABLES
    version,    \* per item: the committed version
    muted,      \* when the temporary mutes end
    now,
    owed,       \* commits whose notification was not yet given
    permit,     \* the permit of the entry's Notify
    open,       \* the transport is open
    installed,  \* the subscription's value: a generation, or NoWatch
    unseen,     \* the runner has not seen that value
    issued,     \* the session's generation counter
    runner,     \* the locals of run_with
    failures,   \* loads that have failed
    held,       \* the event the runner sends
    channel,    \* the event in the watch's output channel
    taken,      \* the event the forwarder has received
    client      \* the client's store

vars == <<version, muted, now, owed, permit, open, installed, unseen, issued,
          runner, failures, held, channel, taken, client>>

World == <<version, muted, now>>
Signal == <<owed, permit>>
Subscription == <<installed, unseen, issued>>
Output == <<held, channel, taken>>

-----------------------------------------------------------------------------
NoWatch == 0
Generations == 0..MaxGeneration
Moments == 0..Horizon
Never == Horizon + 1
Ends == 1..Horizon

Live == {m \in muted : m > now}
Content(i) == [version |-> version[i],
               live |-> IF i \in Timed THEN Live ELSE {}]
Contents == [version : 0..MaxVersion, live : SUBSET Ends]

\* ConversationUnread, full or not, and ConversationUnreadError.  `items` are
\* the keys the payload carries.
NoEvent == [kind |-> "none"]
Events ==
    [kind : {"full", "diff", "error"}, generation : Generations \ {NoWatch},
     items : SUBSET Items, values : [Items -> Contents]]

\* run_with between two awaits; `full` tells that a base was published.
Locals ==
    [pc : {"select", "expiry", "loading", "checked", "sending", "stopped"},
     current : Generations, full : BOOLEAN, published : [Items -> Contents],
     deadline : Moments \cup {Never}, expiry : Moments \cup {Never},
     toRead : SUBSET Items, result : [Items -> Contents], failed : BOOLEAN]

\* The client's store: a full payload of this request was applied, the last
\* word was an error, and the counters on display.
Store == [based : BOOLEAN, error : BOOLEAN, shown : [Items -> Contents]]

Zero == [i \in Items |-> [version |-> 0, live |-> {}]]

TypeOK ==
    /\ version \in [Items -> 0..MaxVersion]
    /\ muted \subseteq Ends /\ now \in Moments
    /\ owed \in Nat /\ permit \in BOOLEAN /\ open \in BOOLEAN
    /\ installed \in Generations /\ unseen \in BOOLEAN /\ issued \in Generations
    /\ runner \in Locals
    /\ failures \in 0..MaxFailures
    /\ held \in Events \cup {NoEvent} /\ channel \in Events \cup {NoEvent}
    /\ taken \in Events \cup {NoEvent}
    /\ client \in Store

Init ==
    /\ version = [i \in Items |-> 0]
    /\ muted \in SUBSET Ends /\ now = 0
    /\ owed = 0 /\ permit = FALSE /\ open = TRUE
    /\ installed = NoWatch /\ unseen = FALSE /\ issued = 0
    /\ runner = [pc |-> "select", current |-> NoWatch, full |-> FALSE,
                 published |-> Zero, deadline |-> Never, expiry |-> Never,
                 toRead |-> {}, result |-> Zero, failed |-> FALSE]
    /\ failures = 0
    /\ held = NoEvent /\ channel = NoEvent /\ taken = NoEvent
    /\ client = [based |-> FALSE, error |-> FALSE, shown |-> Zero]

-----------------------------------------------------------------------------
(* The writers: every service commits, then broadcasts or calls             *)
(* invalidate_unread.                                                       *)

Commit(i) ==
    /\ version[i] < MaxVersion
    /\ version' = [version EXCEPT ![i] = @ + 1]
    /\ muted' \in IF i \in Timed THEN SUBSET Ends ELSE {muted}
    /\ owed' = owed + 1
    /\ UNCHANGED <<now, permit, open, Subscription, runner, failures, Output,
                   client>>

\* invalidate_unread: notify_one stores at most one permit.
Notify ==
    /\ owed > 0
    /\ owed' = owed - 1
    /\ permit' = TRUE
    /\ UNCHANGED <<World, open, Subscription, runner, failures, Output, client>>

\* A mute ends without anybody's doing.
Tick ==
    /\ now < Horizon
    /\ now' = now + 1
    /\ UNCHANGED <<version, muted, Signal, open, Subscription, runner, failures,
                   Output, client>>

-----------------------------------------------------------------------------
(* The client and its session.                                              *)

\* The result of a load is a local of one turn of the loop.
Idle(pc, r) ==
    [r EXCEPT !.pc = pc, !.toRead = {}, !.result = Zero, !.expiry = Never,
              !.failed = FALSE]

\* The client picks a new request id and forgets that it has a base, then
\* replace_unread_watch installs the watch under the event gate.  One step: what
\* arrives in between carries an id the client already ignores.
Install ==
    \E watch \in BOOLEAN :
        /\ open /\ issued < MaxGeneration
        /\ issued' = issued + 1
        /\ installed' = IF watch THEN issued + 1 ELSE NoWatch
        /\ unseen' = TRUE
        /\ client' = [client EXCEPT !.based = FALSE, !.error = FALSE]
        /\ UNCHANGED <<World, Signal, open, runner, failures, Output>>

\* What the store makes of an event: an error only sets the flag, a partial
\* payload without a base is ignored, a full one replaces what is shown.
Applied(c, e) ==
    IF e.kind = "none" THEN c
    ELSE IF e.kind = "error" THEN [c EXCEPT !.error = TRUE]
    ELSE IF e.kind = "diff" /\ ~c.based THEN c
    ELSE [based |-> TRUE, error |-> FALSE,
          shown |-> [i \in Items |-> IF i \in e.items THEN e.values[i]
                                                      ELSE c.shown[i]]]

\* forward_owned_events receives one event at a time ...
Take ==
    /\ open /\ taken = NoEvent /\ channel # NoEvent
    /\ taken' = channel /\ channel' = NoEvent
    /\ UNCHANGED <<World, Signal, open, Subscription, runner, failures, held,
                   client>>

IsCurrent(e) == e.generation = installed

\* ... and under the gate drops it unless the watch that made it is installed.
Forward ==
    /\ open /\ taken # NoEvent
    /\ taken' = NoEvent
    /\ client' = IF IsCurrent(taken) THEN Applied(client, taken) ELSE client
    /\ UNCHANGED <<World, Signal, open, Subscription, runner, failures, held,
                   channel>>

\* Closing the transport drops the runner wherever it waits, and the forwarder.
Close ==
    /\ open
    /\ open' = FALSE
    /\ runner' = Idle("stopped", [runner EXCEPT !.current = NoWatch])
    /\ held' = NoEvent /\ channel' = NoEvent /\ taken' = NoEvent
    /\ UNCHANGED <<World, Signal, Subscription, failures, client>>

-----------------------------------------------------------------------------
(* run_with.  Its select! is biased: a new subscription comes first.        *)

Watching == runner.current # NoWatch

SeeSubscription ==
    /\ runner.pc = "select" /\ unseen
    /\ unseen' = FALSE
    /\ runner' = [runner EXCEPT !.current = installed, !.full = FALSE,
                                !.published = Zero,
                                !.deadline = IF installed = NoWatch THEN Never
                                             ELSE now]
    /\ UNCHANGED <<World, Signal, open, installed, issued, failures, Output,
                   client>>

\* changed.notified(), enabled while there is a watch.  `now` is also the
\* moment 150 ms from here.
SeeChange ==
    /\ runner.pc = "select" /\ ~unseen
    /\ Watching /\ permit
    /\ permit' = FALSE
    /\ runner' = [runner EXCEPT !.deadline = IF @ <= now THEN @ ELSE now]
    /\ UNCHANGED <<World, owed, open, Subscription, failures, Output, client>>

\* The timer fires; the deadline stays what it was until a result is used.
StartLoad ==
    /\ runner.pc = "select" /\ ~unseen
    /\ Watching /\ runner.deadline <= now
    /\ runner' = [runner EXCEPT !.pc = "expiry", !.toRead = Items]
    /\ UNCHANGED <<World, Signal, open, Subscription, failures, Output, client>>

\* The smallest muted_until ahead; a watch of untimed items sets no timer.
Earliest ==
    IF Timed = {} \/ Live = {} THEN {Never}
    ELSE {m \in Live : \A n \in Live : m <= n}

\* load_snapshot: the next end of a mute is read before the content ...
ReadExpiry ==
    /\ runner.pc = "expiry"
    /\ \E end \in Earliest :
        runner' = [runner EXCEPT !.pc = "loading", !.expiry = end]
    /\ UNCHANGED <<World, Signal, open, Subscription, failures, Output, client>>

\* ... which several statements read one after the other.
Read(i) ==
    /\ runner.pc = "loading" /\ i \in runner.toRead
    /\ runner' = [runner EXCEPT !.toRead = @ \ {i},
                                !.result = [@ EXCEPT ![i] = Content(i)]]
    /\ UNCHANGED <<World, Signal, open, Subscription, failures, Output, client>>

LoadFails ==
    /\ runner.pc \in {"expiry", "loading"} /\ failures < MaxFailures
    /\ failures' = failures + 1
    /\ runner' = IF unseen THEN Idle("select", runner)
                 ELSE [Idle("checked", runner) EXCEPT !.failed = TRUE]
    /\ UNCHANGED <<World, Signal, open, Subscription, Output, client>>

\* subscription.has_changed() after the load: a replaced watch's result is
\* dropped.  The replacement may still come before the event is sent.
LoadEnds ==
    /\ runner.pc = "loading" /\ runner.toRead = {}
    /\ runner' = IF unseen THEN Idle("select", runner)
                 ELSE [runner EXCEPT !.pc = "checked"]
    /\ UNCHANGED <<World, Signal, open, Subscription, failures, Output, client>>

\* mutant: the next end is looked up after the content was read
NextEndAfterwards == CHOOSE end \in Earliest : TRUE
NextEnd == runner.expiry

\* Published::update: after a failure, or for a new watch, the payload is full.
Carried ==
    {i \in Items : runner.full => runner.result[i] # runner.published[i]}

Publish ==
    /\ runner.pc = "checked" /\ ~runner.failed
    /\ LET silent == runner.full /\ Carried = {} IN
       /\ runner' = [Idle(IF silent THEN "select" ELSE "sending", runner)
                        EXCEPT !.deadline = NextEnd, !.full = TRUE,
                               !.published = runner.result]
       /\ held' = IF silent THEN NoEvent
                  ELSE [kind |-> IF runner.full THEN "diff" ELSE "full",
                        generation |-> runner.current,
                        items |-> Carried,
                        values |-> [i \in Items |->
                                      IF i \in Carried THEN runner.result[i]
                                      ELSE Zero[i]]]
    /\ UNCHANGED <<World, Signal, open, Subscription, failures, channel, taken,
                   client>>

NoRetry == {Never}            \* mutant: the next change is waited for
Retries == now..Horizon

\* A failed load is tried again after a while, and owes a full payload.
Excuse ==
    \E retry \in Retries :
        /\ runner.pc = "checked" /\ runner.failed
        /\ runner' = [Idle("sending", runner) EXCEPT !.deadline = retry,
                                                     !.full = FALSE]
        /\ held' = [kind |-> "error", generation |-> runner.current,
                    items |-> {}, values |-> Zero]
        /\ UNCHANGED <<World, Signal, open, Subscription, failures, channel,
                       taken, client>>

RoomAlways == TRUE            \* mutant: what does not fit replaces
\* The output channel has room for one event, and the send waits for it.
HasRoom == channel = NoEvent

Send ==
    /\ runner.pc = "sending" /\ HasRoom
    /\ channel' = held /\ held' = NoEvent
    /\ runner' = [runner EXCEPT !.pc = "select"]
    /\ UNCHANGED <<World, Signal, open, Subscription, failures, taken, client>>

-----------------------------------------------------------------------------
\* The turns of the loop, the same in unread/watch.rs and unread/states.rs.
Run ==
    \/ SeeSubscription \/ SeeChange \/ StartLoad \/ ReadExpiry
    \/ (\E i \in Items : Read(i))
    \/ LoadEnds \/ Publish \/ Excuse \/ Send

Next ==
    \/ \E i \in Items : Commit(i)
    \/ Notify \/ Tick
    \/ Install \/ Take \/ Forward \/ Close
    \/ SeeSubscription \/ SeeChange \/ StartLoad \/ ReadExpiry
    \/ \E i \in Items : Read(i)
    \/ LoadFails \/ LoadEnds \/ Publish \/ Excuse \/ Send

Spec == Init /\ [][Next]_vars

\* The runner and the forwarder are tasks that wait only for what is named in
\* their guards; a writer that committed goes on to notify; time passes.
Fairness ==
    /\ WF_vars(Run) /\ WF_vars(Take) /\ WF_vars(Forward)
    /\ WF_vars(Notify) /\ WF_vars(Tick)

LiveSpec == Spec /\ Fairness

-----------------------------------------------------------------------------
\* The client's store once all that is under way for its watch has reached it.
Relevant(e) == IF e # NoEvent /\ e.generation = installed THEN e ELSE NoEvent
Arrived ==
    Applied(Applied(Applied(client, Relevant(taken)), Relevant(channel)),
            Relevant(held))

\* The runner serves the watch that is installed.
InForce == open /\ ~unseen /\ installed # NoWatch /\ runner.current = installed

\* What the client will show is what the runner believes it published, so that
\* a difference to it fits; and when the runner owes a full payload after a
\* failure, the client is told of an error.  Published::update and `full`,
\* watch.rs 60-90 and 196, against the store of the client.
DiffsFit ==
    InForce /\ runner.full =>
        Arrived = [based |-> TRUE, error |-> FALSE,
                          shown |-> runner.published]

\* A change that a load can have missed has a load to come: its notification is
\* owed or stored, or the timer is about to fire (at its retry, after a failed
\* load).  The select! of run_with, watch.rs 160-240: signals during a load or
\* a send, loads that read several statements, and mutes that end meanwhile.
Scheduled(deadline) ==
    \/ owed > 0 \/ permit
    \/ deadline <= now

StaleIsScheduled ==
    InForce =>
        /\ runner.pc \in {"select", "sending"} /\ runner.full =>
            \A i \in Items :
                runner.published[i] # Content(i) => Scheduled(runner.deadline)
        /\ runner.pc \in {"select", "sending"} /\ ~runner.full =>
            runner.deadline # Never
        /\ runner.pc = "loading" \/ (runner.pc = "checked" /\ ~runner.failed) =>
            \A i \in Items \ runner.toRead :
                runner.result[i] # Content(i) => Scheduled(runner.expiry)

\* Once changes stop, a client that watches ends up with the counters of the
\* database and without an error (watch.rs 1-2: "commits and mute expiry
\* schedule snapshots").
UpToDate == client.shown = [i \in Items |-> Content(i)] /\ ~client.error

Converges == <>[](open /\ installed # NoWatch => UpToDate)
=============================================================================
