------------------------------ MODULE Speaking ------------------------------
(***************************************************************************)
(* Speaking restrictions of one group: who may send what, who may change   *)
(* that, and the advisory lock of the chat that keeps the two apart        *)
(* (services/speaking.rs, authorize_message_send in services/messages.rs,  *)
(* delete_remove_member in services/api/members.rs).                       *)
(*                                                                         *)
(* A session runs one transaction at a time.  Senders and announcers hold  *)
(* the chat's lock shared, moderation and removals hold it exclusively,    *)
(* until their transaction ends.  Statements are READ COMMITTED: each sees *)
(* what is committed when it runs, and what a transaction writes is seen   *)
(* when it commits.  New members are inserted without the lock.            *)
(* PostgreSQL grants the lock in the order of the requests that conflict.  *)
(***************************************************************************)
EXTENDS Integers, FiniteSets

CONSTANTS
    Users,
    Sessions,     \* connections to the database
    FirstAdmin,   \* the user who created the group
    ModeChoices   \* the modes that moderators choose

Unrestricted == 0
ThreadsOnly == 1
RepliesOnly == 2
ReadOnly == 3
Modes == Unrestricted..ReadOnly

ASSUME UsersAssumption == FirstAdmin \in Users
ASSUME ModesAssumption == ModeChoices \subseteq Modes

VARIABLES
    groupMode,  \* groups.speaking_mode
    members,    \* group_membership: role and personal mode of each user
    tx,         \* the transaction of each session
    ahead,      \* per session that waits: the sessions that waited before it
    told,       \* the last group mode put in the members' event queues
    lost        \* an announcement of a committed change has failed

vars == <<groupMode, members, tx, ahead, told, lost>>

-----------------------------------------------------------------------------
(* Members, modes and what they allow.                                     *)

Roles == {"none", "member", "admin"}
Member == [role : Roles, mode : Modes]
Outsider == [role |-> "none", mode |-> Unrestricted]

Joined(role) == [role |-> role, mode |-> Unrestricted]

IsMember(u) == members[u].role # "none"
IsAdmin(u) == members[u].role = "admin"

Actions == {"chat", "create", "reply"}

Stricter(a, b) == IF a >= b THEN a ELSE b

effective_mode(role, group, personal) ==
    IF role = "admin" THEN Unrestricted ELSE Stricter(group, personal)

allows(mode, action) ==
    \/ mode = Unrestricted
    \/ mode = ThreadsOnly /\ action # "chat"
    \/ mode = RepliesOnly /\ action = "reply"

MaySpeak(u, action) ==
    /\ IsMember(u)
    /\ allows(effective_mode(members[u].role, groupMode, members[u].mode), action)

-----------------------------------------------------------------------------
(* Requests, and the rows an announcement reads.                           *)

SharedOps == {"send", "tellGroup", "tellMember"}
ExclusiveOps == {"group", "limit", "role", "remove"}

Job == [op : SharedOps \cup ExclusiveOps, uid : Users, target : Users,
        mode : Modes, role : Roles, action : Actions]

NoJob == [op |-> "send", uid |-> FirstAdmin, target |-> FirstAdmin,
          mode |-> Unrestricted, role |-> "member", action |-> "chat"]

(* What a job does not use has the value of NoJob.                         *)
Requests ==
    {job \in Job :
        /\ job.op \in {"send"} \cup ExclusiveOps
        /\ job.op \in {"send", "group"} => job.target = NoJob.target
        /\ IF job.op \in {"group", "limit"} THEN job.mode \in ModeChoices
           ELSE job.mode = NoJob.mode
        /\ IF job.op = "role" THEN job.role # "none" ELSE job.role = NoJob.role
        /\ job.op # "send" => job.action = NoJob.action}

(* The announcement that follows the commit of a change.                   *)
TellJob(job) ==
    [NoJob EXCEPT !.op = IF job.op = "group" THEN "tellGroup" ELSE "tellMember",
                  !.target = job.target]

Seen == [role : Roles, group : Modes, mode : Modes]
NothingSeen == [role |-> "none", group |-> Unrestricted, mode |-> Unrestricted]

Current(v) ==
    [role |-> members[v].role, group |-> groupMode, mode |-> members[v].mode]

Phases == {"idle", "waits", "holds", "ready", "changed"}
Tx == [pc : Phases, job : Job, seen : Seen]
NoTx == [pc |-> "idle", job |-> NoJob, seen |-> NothingSeen]

-----------------------------------------------------------------------------
(* The lock.                                                               *)

(* mutant: update_member_mode takes the lock shared                        *)
SharesLimits(job) == job.op \in SharedOps \cup {"limit"}

(* mutant: delete_remove_member takes the lock shared                      *)
SharesRemovals(job) == job.op \in SharedOps \cup {"remove"}

Shares(job) == job.op \in SharedOps

Holding(t) == t.pc \in {"holds", "ready"}

Compatible(a, b) == Shares(a) /\ Shares(b)

(* A request that conflicts with an earlier one waits behind it.           *)
Grantable(s) ==
    \A o \in Sessions \ {s} :
        (Holding(tx[o]) \/ o \in ahead[s]) => Compatible(tx[s].job, tx[o].job)

Waits(t) == t.pc = "waits"
Waiting == {s \in Sessions : Waits(tx[s])}

(* lock_chat: session s asks for the lock that its job needs.              *)
Queue(s, job) ==
    /\ tx' = [tx EXCEPT ![s] = [NoTx EXCEPT !.pc = "waits", !.job = job]]
    /\ ahead' = [ahead EXCEPT ![s] = Waiting \ {s}]

(* The transaction of s ends and its locks are released.                   *)
Release(s) == tx' = [tx EXCEPT ![s] = NoTx]

(* mutant: the transaction of a rejected request is not rolled back        *)
ReleaseNot(s) == tx' = [tx EXCEPT ![s].seen = NothingSeen]

RollBack(s) == Release(s)

-----------------------------------------------------------------------------
Init ==
    /\ groupMode = Unrestricted
    /\ members = [u \in Users |-> IF u = FirstAdmin THEN Joined("admin") ELSE Outsider]
    /\ tx = [s \in Sessions |-> NoTx]
    /\ ahead = [s \in Sessions |-> {}]
    /\ told = Unrestricted
    /\ lost = FALSE

(* A request arrives: its transaction begins and asks for the lock.        *)
Ask(s) ==
    /\ tx[s].pc = "idle"
    /\ \E job \in Requests : Queue(s, job)
    /\ UNCHANGED <<groupMode, members, told, lost>>

Grant(s) ==
    /\ tx[s].pc = "waits"
    /\ Grantable(s)
    /\ tx' = [tx EXCEPT ![s].pc = "holds"]
    /\ ahead' = [o \in Sessions |-> IF o = s THEN {} ELSE ahead[o] \ {s}]
    /\ UNCHANGED <<groupMode, members, told, lost>>

(* post_add_member inserts without the lock and without a transaction: who *)
(* added the user may have lost the role since it was checked.             *)
Join(u, role) ==
    /\ ~IsMember(u)
    /\ members' = [members EXCEPT ![u] = Joined(role)]
    /\ UNCHANGED <<groupMode, tx, ahead, told, lost>>

-----------------------------------------------------------------------------
(* Requests that hold the lock.                                            *)

(* What authorize_message_send, require_edit, the update functions and     *)
(* delete_remove_member read and require before they write.                *)
Accepts(job) ==
    \/ job.op = "send" /\ MaySpeak(job.uid, job.action)
    \/ job.op = "group" /\ IsAdmin(job.uid)
    \/ /\ job.op = "limit"
       /\ IsAdmin(job.uid)
       /\ IsMember(job.target)
       /\ ~IsAdmin(job.target)
    \/ /\ job.op = "role"
       /\ IsAdmin(job.uid)
       /\ job.uid # job.target
       /\ IsMember(job.target)
    \/ /\ job.op = "remove"
       /\ IF job.uid = job.target THEN IsMember(job.uid) ELSE IsAdmin(job.uid)
       /\ IsMember(job.target)
       /\ IsAdmin(job.target) => \E u \in Users \ {job.target} : IsAdmin(u)

Tells(job) == job.op \in {"tellGroup", "tellMember"}

Check(s) ==
    /\ tx[s].pc = "holds"
    /\ ~Tells(tx[s].job)
    /\ Accepts(tx[s].job)
    /\ tx' = [tx EXCEPT ![s].pc = "ready"]
    /\ UNCHANGED <<groupMode, members, ahead, told, lost>>

Reject(s) ==
    /\ tx[s].pc = "holds"
    /\ ~Tells(tx[s].job)
    /\ ~Accepts(tx[s].job)
    /\ RollBack(s)
    /\ UNCHANGED <<groupMode, members, ahead, told, lost>>

(* The message is stored, or edited.                                       *)
Store(s) ==
    /\ tx[s].pc = "ready"
    /\ tx[s].job.op = "send"
    /\ Release(s)
    /\ UNCHANGED <<groupMode, members, ahead, told, lost>>

(* Promotion clears the personal limit.                                    *)
WithRole(m, role) ==
    [role |-> role, mode |-> IF role = "admin" THEN Unrestricted ELSE m.mode]

Changed(m, job) ==
    CASE job.op = "limit" -> [m EXCEPT !.mode = job.mode]
      [] job.op = "role" -> WithRole(m, job.role)
      [] OTHER -> Outsider

Commit(s) ==
    LET job == tx[s].job IN
    /\ tx[s].pc = "ready"
    /\ job.op \in ExclusiveOps
    /\ IF job.op = "group"
       THEN groupMode' = job.mode /\ UNCHANGED members
       ELSE /\ members' = [members EXCEPT ![job.target] = Changed(@, job)]
            /\ UNCHANGED groupMode
    /\ IF job.op = "remove"
       THEN Release(s)
       ELSE tx' = [tx EXCEPT ![s] = [NoTx EXCEPT !.pc = "changed", !.job = TellJob(job)]]
    /\ UNCHANGED <<ahead, told, lost>>

-----------------------------------------------------------------------------
(* Announcements: a transaction of their own after the commit.             *)

(* mutant: the announcement reads before it has the lock                   *)
AnnounceUnlocked(s) ==
    /\ tx[s].pc = "changed"
    /\ tx' = [tx EXCEPT ![s].pc = "ready", ![s].seen = Current(tx[s].job.target)]
    /\ UNCHANGED <<groupMode, members, ahead, told, lost>>

Announce(s) ==
    /\ tx[s].pc = "changed"
    /\ Queue(s, tx[s].job)
    /\ UNCHANGED <<groupMode, members, told, lost>>

Read(s) ==
    /\ tx[s].pc = "holds"
    /\ Tells(tx[s].job)
    /\ tx' = [tx EXCEPT ![s].pc = "ready", ![s].seen = Current(tx[s].job.target)]
    /\ UNCHANGED <<groupMode, members, ahead, told, lost>>

(* The event enters the queues while the lock is held; for a member who is *)
(* gone there is no event.                                                 *)
Tell(s) ==
    /\ tx[s].pc = "ready"
    /\ Tells(tx[s].job)
    /\ IF tx[s].job.op = "tellGroup"
       THEN told' = tx[s].seen.group /\ lost' = FALSE
       ELSE UNCHANGED <<told, lost>>
    /\ Release(s)
    /\ UNCHANGED <<groupMode, members, ahead>>

(* A statement fails, or the connection: the transaction is rolled back.   *)
(* What an earlier transaction has committed stays, unannounced.           *)
Fail(s) ==
    /\ tx[s].pc # "idle"
    /\ Release(s)
    /\ ahead' = [o \in Sessions |-> IF o = s THEN {} ELSE ahead[o] \ {s}]
    /\ lost' = (lost \/ tx[s].job.op = "tellGroup")
    /\ UNCHANGED <<groupMode, members, told>>

-----------------------------------------------------------------------------
Step(s) ==
    \/ Grant(s) \/ Check(s) \/ Reject(s) \/ Store(s) \/ Commit(s)
    \/ Announce(s) \/ Read(s) \/ Tell(s)

Next ==
    \/ \E s \in Sessions : Ask(s) \/ Step(s) \/ Fail(s)
    \/ \E u \in Users, role \in {"member", "admin"} : Join(u, role)

(* A transaction that holds a lock goes on and ends, and a request that    *)
(* can be granted is.                                                      *)
Fairness == \A s \in Sessions : WF_vars(Step(s))

Spec == Init /\ [][Next]_vars /\ Fairness

-----------------------------------------------------------------------------
(* Properties.                                                             *)

(* Every variable has its type: rows of members, a phase and a job for     *)
(* each session; an admin has no personal limit (update_member_role and    *)
(* the table's admin_speaking_mode_unrestricted).                          *)
TypeOK ==
    /\ groupMode \in Modes
    /\ members \in [Users -> Member]
    /\ tx \in [Sessions -> Tx]
    /\ ahead \in [Sessions -> SUBSET Sessions]
    /\ told \in Modes
    /\ lost \in BOOLEAN
    /\ \A u \in Users : IsAdmin(u) => members[u].mode = Unrestricted

(* A message is stored only if its sender is a member at that moment and   *)
(* may send it under the modes committed at that moment: no restriction,   *)
(* demotion or removal commits between the authorization of a send and the *)
(* end of its transaction (authorize_message_send and lock_chat).          *)
SendsAreAllowed ==
    [][\A s \in Sessions :
           Store(s) => MaySpeak(tx[s].job.uid, tx[s].job.action)]_vars

(* The group keeps an admin: the last one cannot be removed, and nobody    *)
(* changes their own role, whatever several admins do at the same time     *)
(* (delete_remove_member, update_member_role).                             *)
AdminRemains == \E u \in Users : IsAdmin(u)

(* An event about a mode is put in the queues only with the state that is  *)
(* committed at that moment, so that events never go back to an older      *)
(* state (broadcast_group_mode, broadcast_member_mode).                    *)
AnnouncesCurrent ==
    [][\A s \in Sessions :
           Tell(s) => IF tx[s].job.op = "tellGroup"
                      THEN tx[s].seen.group = groupMode
                      ELSE tx[s].seen.role = "none"
                           \/ tx[s].seen = Current(tx[s].job.target)]_vars

(* Again and again the last announced group mode is the committed one, or  *)
(* an announcement has failed: every change waits for the lock, commits    *)
(* and is announced, also when its announcement has to wait for others.    *)
ChangesAnnounced == []<>(told = groupMode \/ lost)
=============================================================================
