------------------------------ MODULE Presence ------------------------------
(***************************************************************************)
(* What one user, the viewer, is shown of the presence of another, the     *)
(* peer, over the presence watch of a session (services/presence.rs,       *)
(* run_presence_watch of rpc/session.rs): writers commit a change of who   *)
(* may see what and announce it afterwards, and the runner of the watch    *)
(* loads snapshots, one statement after another without a transaction,     *)
(* again when a change was announced meanwhile.  When the peer was last    *)
(* seen is the subject of LastSeen, whose flushes go on while a snapshot   *)
(* is loaded.                                                              *)
(*                                                                         *)
(* A watch names the peer; its groups and their counts, whether the peer   *)
(* is connected, and the bucket of a hidden last-seen time are left out.   *)
(* The session's end and the gate of its events are in RpcSession.         *)
(***************************************************************************)
EXTENDS LastSeen, Sequences, Functions

CONSTANTS
    Peer,           \* the user the watch names
    Starts,         \* how the system may begin: the policies, the time, and the
                    \* bounds on what may still happen
    Capacity        \* of the broadcast channel of changes

ASSUME PeerAssumption == Peer \in Users
ASSUME CapacityAssumption == Capacity \in Nat \ {0}

VARIABLES
    social,         \* the rows that decide what the viewer may see
    budget,         \* what may still happen: changes that concern the pair and
                    \* others, new watches, snapshots that cannot be loaded
    unannounced,    \* committed changes of the pair that await their send
    changes,        \* the runner's Receiver: does each change concern the pair
    lagged,         \* the Receiver has lost changes
    subscription,   \* the watch channel: its generation (0: none; they are
                    \* counted down with the budget), seen or not
    runner,         \* where run_presence_watch is
    facts,          \* what the statements of the load have read
    result,         \* the peer's entry of the snapshot
    shown,          \* the peer's entry that the client holds
    excused         \* ghost: a load failed, or a shared group went unnoticed

presenceVars == <<social, budget, unannounced, changes, lagged, subscription,
                  runner, facts, result, shown, excused>>
vars == <<lastSeenVars, presenceVars>>

-----------------------------------------------------------------------------
Visibilities == {"everyone", "friends", "nobody"}
Overrides == {"inherit", "share", "hide"}
Sides == {"viewer", "peer"}

\* overrides and visibility of each side; `blocks` names the sides that block.
Social == [friends : BOOLEAN, shared : BOOLEAN, blocks : SUBSET Sides,
           override : [Sides -> Overrides], visibility : [Sides -> Visibilities]]

Budget == [changes : Nat, others : Nat, watches : Nat, failures : Nat]

ASSUME StartsAssumption ==
    \A s \in Starts : s.social \in Social /\ s.budget \in Budget

Levels == {"absent", "blocked", "bucket", "exact"}
Entry == [level : Levels, at : Moments]
Absent == [level |-> "absent", at |-> Past]

Inherited == [s \in Sides |-> "inherit"]
Unread == [friends |-> FALSE, shared |-> FALSE, blocks |-> {}, override |-> Inherited,
           visibility |-> [s \in Sides |-> "everyone"], early |-> Past, stored |-> Past]

Facts == [friends : BOOLEAN, shared : BOOLEAN, blocks : SUBSET Sides,
          override : [Sides -> Overrides], visibility : [Sides -> Visibilities],
          early : Moments, stored : Moments]

LoadSteps == {"friendship", "blocking", "blockedBy", "members", "observe",
              "policies", "compute"}

PresenceInit ==
    /\ LastSeenInit
    /\ \E s \in Starts : social = s.social /\ now = s.now /\ budget = s.budget
    /\ unannounced = 0
    /\ changes = <<>> /\ lagged = FALSE
    /\ subscription = [generation |-> 0, seen |-> TRUE]
    /\ runner = [pc |-> "select", generation |-> 0]
    /\ facts = Unread /\ result = Absent
    /\ shown = Absent
    /\ excused = FALSE

-----------------------------------------------------------------------------
(* Who may see what.                                                       *)

shares_presence(f, side) ==
    \/ f.override[side] = "share"
    \/ /\ f.override[side] = "inherit"
       /\ f.visibility[side] = "everyone" \/ (f.visibility[side] = "friends" /\ f.friends)

presence_is_visible(f) == \A side \in Sides : shares_presence(f, side)

IsCandidate(f) == f.friends \/ f.shared

Level(f) ==
    IF ~IsCandidate(f) THEN "absent"
    ELSE IF f.blocks # {} THEN "blocked"
    ELSE IF presence_is_visible(f) THEN "exact" ELSE "bucket"

-----------------------------------------------------------------------------
(* Writers: a transaction, then the send to the channel.                   *)

Spend(kind) == budget[kind] > 0 /\ budget' = [budget EXCEPT ![kind] = @ - 1]

Reading == <<changes, lagged, subscription, runner, facts, result, shown>>

Commit(new) ==
    /\ Spend("changes")
    /\ social' = new
    /\ unannounced' = unannounced + 1
    /\ UNCHANGED <<lastSeenVars, Reading, excused>>

block_user(side) == Commit([social EXCEPT !.blocks = @ \cup {side}])
unblock_user(side) == side \in social.blocks
                      /\ Commit([social EXCEPT !.blocks = @ \ {side}])

\* The friendship takes its overrides with it, and begins without any.
remove_friendship == social.friends
    /\ Commit([social EXCEPT !.friends = FALSE, !.override = Inherited])
insert_friendship == Commit([social EXCEPT !.friends = TRUE])

update_friend_presence_settings(side, value) == social.friends
    /\ Commit([social EXCEPT !.override[side] = value])
clear_privacy_exceptions(side) == social.override[side] # "inherit"
    /\ Commit([social EXCEPT !.override[side] = "inherit"])
update_presence_settings(side, value) ==
    Commit([social EXCEPT !.visibility[side] = value])

\* Nobody announces who joins or leaves a group.
GroupChanges ==
    /\ Spend("changes")
    /\ social' = [social EXCEPT !.shared = ~@]
    /\ excused' = TRUE
    /\ UNCHANGED <<lastSeenVars, unannounced, Reading>>

Write ==
    \/ \E side \in Sides :
        \/ block_user(side) \/ unblock_user(side) \/ clear_privacy_exceptions(side)
        \/ \E v \in Overrides : update_friend_presence_settings(side, v)
        \/ \E v \in Visibilities : update_presence_settings(side, v)
    \/ remove_friendship \/ insert_friendship \/ GroupChanges

\* A full channel drops its oldest change, and its reader learns of that.
Send(concerns) ==
    IF Len(changes) < Capacity
    THEN changes' = Append(changes, concerns) /\ UNCHANGED lagged
    ELSE changes' = Append(Tail(changes), concerns) /\ lagged' = TRUE

pair_policy_changed ==
    /\ unannounced > 0
    /\ unannounced' = unannounced - 1
    /\ Send(TRUE)
    /\ UNCHANGED <<lastSeenVars, social, budget, subscription, runner, facts,
                   result, shown, excused>>

\* Of other users.
OthersChange ==
    /\ Spend("others")
    /\ Send(FALSE)
    /\ UNCHANGED <<lastSeenVars, social, unannounced, subscription, runner, facts,
                   result, shown, excused>>

-----------------------------------------------------------------------------
(* The watch: replaced by the client, read by the runner.                  *)

Unpublished == <<lastSeenVars, social, unannounced, facts, result>>

replace_presence_watch(on) ==
    /\ Spend("watches")
    /\ subscription' = [generation |-> IF on THEN budget.watches ELSE 0, seen |-> FALSE]
    /\ shown' = IF on THEN shown ELSE Absent
    /\ UNCHANGED <<Unpublished, changes, lagged, runner, excused>>

take_pending_changes == changes' = <<>> /\ lagged' = FALSE

LaggedIsIdle == TRUE \in Range(changes)    \* mutant: what was lost is ignored
Concerned == lagged \/ TRUE \in Range(changes)

\* snapshot_after_pending_changes begins to load.
LoadFor(generation) ==
    /\ take_pending_changes
    /\ runner' = [pc |-> "friendship", generation |-> generation]
    /\ excused' = FALSE

SeeWatch ==
    /\ runner.pc = "select" /\ ~subscription.seen
    /\ subscription' = [subscription EXCEPT !.seen = TRUE]
    /\ IF subscription.generation # 0 THEN LoadFor(subscription.generation)
       ELSE /\ runner' = [runner EXCEPT !.generation = 0]
            /\ UNCHANGED <<changes, lagged, excused>>
    /\ UNCHANGED <<Unpublished, budget, shown>>

Waits == runner.pc = "select" /\ runner.generation # 0

\* A change, or the news that some were lost.
ReceiveChange ==
    /\ Waits /\ (lagged \/ changes # <<>>)
    /\ IF lagged \/ Head(changes) THEN LoadFor(runner.generation)
       ELSE changes' = Tail(changes) /\ UNCHANGED <<lagged, runner, excused>>
    /\ UNCHANGED <<Unpublished, budget, subscription, shown>>

Tick ==
    /\ Waits /\ LoadFor(runner.generation)
    /\ UNCHANGED <<Unpublished, budget, subscription, shown>>

-----------------------------------------------------------------------------
(* The load: peer_relationships and load_visible_users.                    *)

Loading == <<lastSeenVars, social, budget, unannounced, changes, lagged,
             subscription, shown, excused>>

Step(from, to) == runner.pc = from /\ runner' = [runner EXCEPT !.pc = to]

ReadFriendship ==
    /\ Step("friendship", "blocking")
    /\ facts' = [facts EXCEPT !.friends = social.friends, !.override = social.override]
    /\ UNCHANGED <<Loading, result>>

ReadBlocks(step, next, side) ==
    /\ Step(step, next)
    /\ facts' = [facts EXCEPT !.blocks = @ \cup (social.blocks \cap {side})]
    /\ UNCHANGED <<Loading, result>>

\* The viewer's groups and the peer's membership of them.
ReadMembers ==
    /\ LET f == [facts EXCEPT !.shared = social.shared] IN
        IF IsCandidate(f) THEN Step("members", "observe") /\ facts' = f
        ELSE Step("members", "check") /\ facts' = Unread
    /\ result' = Absent
    /\ UNCHANGED Loading

IsNothing(t) == t = Past   \* mutant: the pending observations are not read first
IsObserved(t) == IsLatest(Peer, Past, t)

Observe ==
    /\ Step("observe", "policies")
    /\ \E t \in Moments : IsObserved(t) /\ facts' = [facts EXCEPT !.early = t]
    /\ UNCHANGED <<Loading, result>>

ReadPolicies ==
    /\ Step("policies", "compute")
    /\ facts' = [facts EXCEPT !.visibility = social.visibility,
                                !.stored = persisted[Peer]]
    /\ UNCHANGED <<Loading, result>>

Compute ==
    /\ Step("compute", "check")
    /\ \E t \in Moments :
        /\ IsLatest(Peer, Later(facts.stored, facts.early), t)
        /\ result' = [level |-> Level(facts),
                      at |-> IF Level(facts) = "exact" THEN t ELSE Past]
    /\ facts' = Unread
    /\ UNCHANGED Loading

\* An error is the load's result, which the changes of the meantime replace too.
LoadFails ==
    /\ runner.pc \in LoadSteps \ {"compute"}
    /\ Spend("failures")
    /\ runner' = [runner EXCEPT !.pc = "failed"]
    /\ facts' = Unread
    /\ excused' = TRUE
    /\ UNCHANGED <<lastSeenVars, social, unannounced, changes, lagged, subscription,
                   result, shown>>

CheckAgain ==
    /\ runner.pc \in {"check", "failed"} /\ Concerned
    /\ LoadFor(runner.generation)
    /\ UNCHANGED <<Unpublished, budget, subscription, shown>>

CheckDone ==
    /\ runner.pc \in {"check", "failed"} /\ ~Concerned
    /\ take_pending_changes
    /\ runner' = [runner EXCEPT !.pc = IF runner.pc = "check" THEN "send" ELSE "select"]
    /\ UNCHANGED <<Unpublished, budget, subscription, shown, excused>>

\* send_current_watch_event: what belongs to an older watch is dropped.
Publish ==
    /\ Step("send", "select")
    /\ shown' = IF runner.generation = subscription.generation THEN result ELSE shown
    /\ result' = Absent
    /\ UNCHANGED <<lastSeenVars, social, budget, unannounced, changes, lagged,
                   subscription, facts, excused>>

-----------------------------------------------------------------------------
Next ==
    \/ LastSeenNext /\ UNCHANGED presenceVars
    \/ Write \/ pair_policy_changed \/ OthersChange
    \/ \E on \in BOOLEAN : replace_presence_watch(on)
    \/ SeeWatch \/ ReceiveChange \/ Tick
    \/ ReadFriendship \/ ReadMembers \/ Observe \/ ReadPolicies \/ Compute
    \/ ReadBlocks("blocking", "blockedBy", "viewer")
    \/ ReadBlocks("blockedBy", "members", "peer")
    \/ LoadFails \/ CheckAgain \/ CheckDone \/ Publish

Spec == PresenceInit /\ [][Next]_vars

-----------------------------------------------------------------------------
(* Properties.                                                             *)

(* Every variable has its type.                                            *)
TypeOK ==
    /\ LastSeenTypeOK
    /\ social \in Social /\ budget \in Budget
    /\ unannounced \in Nat /\ changes \in Seq(BOOLEAN) /\ lagged \in BOOLEAN
    /\ subscription \in [generation : Nat, seen : BOOLEAN]
    /\ runner \in [pc : LoadSteps \cup {"select", "check", "failed", "send"},
                   generation : Nat]
    /\ facts \in Facts /\ result \in Entry /\ shown \in Entry
    /\ excused \in BOOLEAN

(* A client that is shown when the peer was last seen, which the committed *)
(* rows do not allow any more, is going to be told: the change is not yet  *)
(* announced, or waits in the channel or in what the channel has lost, or  *)
(* a load is running, or the new watch is not loaded yet.  Excused are a   *)
(* load that failed and a group that the two stopped sharing, which wait   *)
(* for the tick (snapshot_after_pending_changes, run_presence_watch).      *)
Scheduled ==
    \/ unannounced > 0
    \/ lagged \/ \E i \in DOMAIN changes : changes[i]
    \/ runner.pc # "select" \/ ~subscription.seen
    \/ excused

HiddenIsScheduled ==
    shown.level = "exact" => Level(social) = "exact" \/ Scheduled

(* The time a client is shown never goes back while it holds the watch,    *)
(* although what it is taken from moves from the pending observations to   *)
(* the row while the snapshot is loaded (load_visible_users).              *)
SeenNeverGoesBack ==
    [][shown.level = "exact" /\ shown'.level = "exact" => shown'.at >= shown.at]_vars
=============================================================================
