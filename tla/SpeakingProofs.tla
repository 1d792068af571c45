--------------------------- MODULE SpeakingProofs ---------------------------
(***************************************************************************)
(* Theorems about Speaking, for every set of users and connections.  The   *)
(* argument: who holds the chat's lock exclusively holds it alone, so what *)
(* a transaction has checked or read under the lock is still so when it    *)
(* writes, except for members who join, which invalidates no check.        *)
(***************************************************************************)
EXTENDS Speaking, TLAPS

USE DEF Unrestricted, ThreadsOnly, RepliesOnly, ReadOnly, Modes, Roles

-----------------------------------------------------------------------------
(* Types.                                                                  *)

\* The values that no transaction starts from have their types.
LEMMA EmptyTypes ==
    NoJob \in Job /\ NoTx \in Tx /\ NothingSeen \in Seen /\ Outsider \in Member
BY UsersAssumption DEF NoJob, NoTx, NothingSeen, Outsider, Job, Tx, Seen, Member,
    SharedOps, ExclusiveOps, Actions, Phases

\* The announcement of a change is a job.
LEMMA TellTypes == ASSUME NEW job \in Job PROVE TellJob(job) \in Job
BY EmptyTypes DEF TellJob, NoJob, Job, SharedOps, ExclusiveOps, Actions

\* What an announcement reads has its type.
LEMMA CurrentType ==
    ASSUME TypeOK, NEW v \in Users PROVE Current(v) \in Seen
BY DEF TypeOK, Current, Seen, Member

\* A change of a member's row leaves a row of a member.
LEMMA ChangedType ==
    ASSUME NEW m \in Member, NEW job \in Job PROVE Changed(m, job) \in Member
<1>1. [m EXCEPT !.mode = job.mode] \in Member
  BY DEF Member, Job
<1>2. WithRole(m, job.role) \in Member
  BY DEF WithRole, Member, Job
<1> QED
  BY <1>1, <1>2, EmptyTypes DEF Changed

\* The updates of a transaction leave a transaction.
LEMMA TxTypes ==
    ASSUME NEW t \in Tx
    PROVE  /\ \A pc \in Phases : [t EXCEPT !.pc = pc] \in Tx
           /\ \A pc \in Phases, v \in Seen : [t EXCEPT !.pc = pc, !.seen = v] \in Tx
           /\ \A pc \in Phases, job \in Job : [NoTx EXCEPT !.pc = pc, !.job = job] \in Tx
           /\ t.job \in Job /\ t.seen \in Seen /\ t.pc \in Phases
BY EmptyTypes DEF Tx, NoTx

\* An admin has no personal limit.
AdminsUnlimited == \A u \in Users : IsAdmin(u) => members[u].mode = Unrestricted

-----------------------------------------------------------------------------
(* The invariant.                                                          *)

\* Two transactions that hold the lock both share it.
LockInv ==
    \A s, o \in Sessions :
        s # o /\ Holding(tx[s]) /\ Holding(tx[o]) => Compatible(tx[s].job, tx[o].job)

\* What an announcement has read is what is committed, but for a member who
\* was gone when it was read.
Fresh(job, seen) ==
    IF job.op = "tellGroup" THEN seen.group = groupMode
    ELSE seen.role = "none" \/ seen = Current(job.target)

\* What a transaction that is ready has checked or read still holds.
ReadyInv ==
    \A s \in Sessions :
        tx[s].pc = "ready" =>
            IF Tells(tx[s].job) THEN Fresh(tx[s].job, tx[s].seen) ELSE Accepts(tx[s].job)

\* A transaction between a commit and its announcement has only that to do.
ChangedInv == \A s \in Sessions : tx[s].pc = "changed" => Tells(tx[s].job)

SpeakingInv == TypeOK /\ LockInv /\ ReadyInv /\ ChangedInv /\ AdminRemains

-----------------------------------------------------------------------------
(* What a change by one session means for the others.                      *)

\* The steps of one session that leave its jobs' rows alone: the other
\* transactions and all rows are as they were.
LEMMA OthersFrame ==
    ASSUME TypeOK, NEW s \in Sessions, NEW t, tx' = [tx EXCEPT ![s] = t]
    PROVE  tx'[s] = t /\ \A o \in Sessions \ {s} : tx'[o] = tx[o]
BY DEF TypeOK

\* A job that was accepted is still accepted when somebody joins.
LEMMA JoinKeepsChecks ==
    ASSUME TypeOK, NEW u \in Users, NEW role \in {"member", "admin"}, Join(u, role),
           NEW job \in Job, ~Tells(job), Accepts(job)
    PROVE  Accepts(job)'
<1>1. /\ groupMode' = groupMode
      /\ \A v \in Users \ {u} : members'[v] = members[v]
      /\ members[u].role = "none"
  BY DEF Join, TypeOK, IsMember
<1>2. \A v \in Users : IsMember(v) => members'[v] = members[v]
  BY <1>1 DEF IsMember
<1>3. \A v \in Users : IsMember(v) => (IsMember(v))' /\ (IsAdmin(v)' <=> IsAdmin(v))
  BY <1>2 DEF IsMember, IsAdmin
<1>4. \A v \in Users : IsAdmin(v) => IsMember(v)
  BY DEF IsMember, IsAdmin
<1>5. job.uid \in Users /\ job.target \in Users
  BY DEF Job
<1>6. CASE job.op = "send"
  BY <1>1, <1>2, <1>3, <1>5, <1>6 DEF Accepts, MaySpeak
<1>7. CASE job.op = "group"
  BY <1>3, <1>4, <1>5, <1>7 DEF Accepts
<1>8. CASE job.op = "limit"
  BY <1>3, <1>4, <1>5, <1>8 DEF Accepts
<1>9. CASE job.op = "role"
  BY <1>3, <1>4, <1>5, <1>9 DEF Accepts
<1>10. CASE job.op = "remove"
  BY <1>3, <1>4, <1>5, <1>10 DEF Accepts
<1> QED
  BY <1>6, <1>7, <1>8, <1>9, <1>10 DEF Accepts

\* While the rows and modes stay, so do checks and what was read.
LEMMA RowsFrame ==
    ASSUME UNCHANGED <<groupMode, members>>
    PROVE  /\ \A job : Accepts(job)' <=> Accepts(job)
           /\ \A job, seen : Fresh(job, seen)' <=> Fresh(job, seen)
           /\ AdminRemains' <=> AdminRemains
           /\ \A v : Current(v)' = Current(v)
BY DEF Accepts, Fresh, AdminRemains, Current, MaySpeak, IsMember, IsAdmin

-----------------------------------------------------------------------------
(* Steps that write no rows.                                               *)

\* A session that only moves to a transaction of which the invariant holds
\* keeps the invariant.
LEMMA OneSessionMoves ==
    ASSUME SpeakingInv, UNCHANGED <<groupMode, members>>,
           NEW s \in Sessions, NEW t \in Tx, tx' = [tx EXCEPT ![s] = t],
           ahead' \in [Sessions -> SUBSET Sessions], told' \in Modes, lost' \in BOOLEAN,
           Holding(t) => \A o \in Sessions \ {s} :
                             Holding(tx[o]) => Compatible(t.job, tx[o].job),
           t.pc = "ready" => IF Tells(t.job) THEN Fresh(t.job, t.seen) ELSE Accepts(t.job),
           t.pc = "changed" => Tells(t.job)
    PROVE  SpeakingInv'
<1>1. tx'[s] = t /\ \A o \in Sessions \ {s} : tx'[o] = tx[o]
  BY OthersFrame DEF SpeakingInv
<1>2. TypeOK'
  BY DEF SpeakingInv, TypeOK, IsAdmin
<1>3. LockInv'
  BY <1>1 DEF SpeakingInv, LockInv, Compatible
<1>4. ReadyInv'
  BY <1>1, RowsFrame DEF SpeakingInv, ReadyInv
<1>5. ChangedInv'
  BY <1>1 DEF SpeakingInv, ChangedInv
<1>6. AdminRemains'
  BY RowsFrame DEF SpeakingInv
<1> QED
  BY <1>2, <1>3, <1>4, <1>5, <1>6 DEF SpeakingInv

\* Sessions that stop waiting leave the order of the others.
LEMMA AheadTypes ==
    ASSUME TypeOK, NEW s \in Sessions
    PROVE  /\ [o \in Sessions |-> IF o = s THEN {} ELSE ahead[o] \ {s}]
                 \in [Sessions -> SUBSET Sessions]
           /\ [ahead EXCEPT ![s] = Waiting \ {s}] \in [Sessions -> SUBSET Sessions]
BY DEF TypeOK, Waiting

\* A request, or an announcement that asks for the lock, waits.
LEMMA QueueStep ==
    ASSUME SpeakingInv, NEW s \in Sessions, NEW job \in Job, Queue(s, job),
           UNCHANGED <<groupMode, members, told, lost>>
    PROVE  SpeakingInv'
<1> DEFINE t == [NoTx EXCEPT !.pc = "waits", !.job = job]
<1>1. t \in Tx /\ t.pc = "waits"
  <2>1. NoTx \in Tx /\ "waits" \in Phases
    BY EmptyTypes DEF Phases
  <2>2. t \in Tx
    BY <2>1, TxTypes
  <2> QED
    BY <2>2 DEF NoTx, Tx
<1>2. tx' = [tx EXCEPT ![s] = t]
  BY DEF Queue
<1>3. ahead' \in [Sessions -> SUBSET Sessions]
  BY AheadTypes DEF Queue, SpeakingInv
<1>4. ~Holding(t)
  BY <1>1 DEF Holding
<1>5. told' \in Modes /\ lost' \in BOOLEAN
  BY DEF SpeakingInv, TypeOK
<1> HIDE DEF t
<1> QED
  BY <1>1, <1>2, <1>3, <1>4, <1>5, OneSessionMoves

\* A transaction that ends without writing.
LEMMA ReleaseStep ==
    ASSUME SpeakingInv, NEW s \in Sessions, Release(s),
           UNCHANGED <<groupMode, members>>,
           ahead' \in [Sessions -> SUBSET Sessions], told' \in Modes, lost' \in BOOLEAN
    PROVE  SpeakingInv'
<1>1. NoTx \in Tx /\ NoTx.pc = "idle"
  BY EmptyTypes DEF NoTx
<1>2. ~Holding(NoTx)
  BY <1>1 DEF Holding
<1>3. tx' = [tx EXCEPT ![s] = NoTx]
  BY DEF Release
<1> HIDE DEF NoTx
<1> QED
  BY <1>1, <1>2, <1>3, OneSessionMoves

\* A transaction that holds the lock and becomes ready.
LEMMA ReadyStep ==
    ASSUME SpeakingInv, NEW s \in Sessions, NEW t \in Tx,
           tx' = [tx EXCEPT ![s] = t],
           tx[s].pc = "holds", t.pc = "ready", t.job = tx[s].job,
           IF Tells(t.job) THEN Fresh(t.job, t.seen) ELSE Accepts(t.job),
           UNCHANGED <<groupMode, members, ahead, told, lost>>
    PROVE  SpeakingInv'
<1>1. \A o \in Sessions \ {s} : Holding(tx[o]) => Compatible(t.job, tx[o].job)
  BY DEF SpeakingInv, LockInv, Holding
<1>2. ahead' \in [Sessions -> SUBSET Sessions] /\ told' \in Modes /\ lost' \in BOOLEAN
  BY DEF SpeakingInv, TypeOK
<1> QED
  BY <1>1, <1>2, OneSessionMoves

-----------------------------------------------------------------------------
(* Steps that write rows.                                                  *)

\* Nobody else is ready, or has the lock, while a change is committed.
LEMMA ChangesAreAlone ==
    ASSUME SpeakingInv, NEW s \in Sessions, tx[s].pc = "ready",
           tx[s].job.op \in ExclusiveOps
    PROVE  /\ Accepts(tx[s].job)
           /\ \A o \in Sessions \ {s} : ~Holding(tx[o])
<1>1. ~Shares(tx[s].job) /\ ~Tells(tx[s].job)
  BY DEF Shares, SharedOps, ExclusiveOps, Tells
<1>2. Holding(tx[s])
  BY DEF Holding
<1> QED
  BY <1>1, <1>2 DEF SpeakingInv, LockInv, ReadyInv, Compatible

\* The transaction after a change is over, or has an announcement to make.
LEMMA AfterCommit ==
    ASSUME SpeakingInv, NEW s \in Sessions, Commit(s)
    PROVE  \E t \in Tx : /\ tx' = [tx EXCEPT ![s] = t]
                         /\ ~Holding(t) /\ (t.pc = "changed" => Tells(t.job))
<1>1. tx[s].job \in Job
  BY TxTypes DEF SpeakingInv, TypeOK
<1>2. CASE tx[s].job.op = "remove"
  <2>1. tx' = [tx EXCEPT ![s] = NoTx]
    BY <1>2 DEF Commit, Release
  <2>2. NoTx \in Tx /\ ~Holding(NoTx) /\ NoTx.pc # "changed"
    BY EmptyTypes DEF Holding, NoTx
  <2> QED
    BY <2>1, <2>2
<1>3. CASE tx[s].job.op # "remove"
  <2> DEFINE job == TellJob(tx[s].job)
  <2> DEFINE t == [NoTx EXCEPT !.pc = "changed", !.job = job]
  <2>1. tx' = [tx EXCEPT ![s] = t]
    BY <1>3 DEF Commit
  <2>2. job \in Job /\ Tells(job)
    <3>1. job \in Job
      BY <1>1, TellTypes
    <3>2. Tells(job)
      BY EmptyTypes DEF TellJob, Tells, Job, NoJob
    <3> QED
      BY <3>1, <3>2
  <2>3. t \in Tx /\ t.pc = "changed" /\ t.job = job
    <3> HIDE DEF job
    <3> QED
      BY <2>2, EmptyTypes DEF Tx, Phases, NoTx
  <2> HIDE DEF t, job
  <2>4. ~Holding(t)
    BY <2>3 DEF Holding
  <2> QED
    BY <2>1, <2>2, <2>3, <2>4
<1> QED
  BY <1>2, <1>3

\* A change leaves members, their types, and an admin.
LEMMA CommitRows ==
    ASSUME SpeakingInv, NEW s \in Sessions, Commit(s)
    PROVE  /\ groupMode' \in Modes /\ members' \in [Users -> Member]
           /\ AdminsUnlimited' /\ AdminRemains'
<1> DEFINE job == tx[s].job
<1>1. job \in Job /\ job.target \in Users /\ job.uid \in Users /\ job.mode \in Modes
  BY TxTypes DEF SpeakingInv, TypeOK, Job
<1>2. Accepts(job) /\ job.op \in ExclusiveOps
  BY ChangesAreAlone DEF Commit
<1>3. PICK admin \in Users : IsAdmin(admin)
  BY DEF SpeakingInv, AdminRemains
<1>4. AdminsUnlimited /\ groupMode \in Modes /\ members \in [Users -> Member]
  BY DEF SpeakingInv, TypeOK, AdminsUnlimited
<1>5. CASE job.op = "group"
  <2>1. groupMode' = job.mode /\ members' = members
    BY <1>5 DEF Commit
  <2> QED
    BY <1>1, <1>3, <1>4, <2>1 DEF AdminsUnlimited, AdminRemains, IsAdmin
<1>6. CASE job.op # "group"
  <2>1. /\ groupMode' = groupMode
        /\ members' = [members EXCEPT ![job.target] = Changed(members[job.target], job)]
    BY <1>6 DEF Commit
  <2>2. members' \in [Users -> Member]
    BY <1>1, <1>4, <2>1, ChangedType
  <2>3. /\ members'[job.target] = Changed(members[job.target], job)
        /\ \A u \in Users \ {job.target} : members'[u] = members[u]
    BY <1>1, <1>4, <2>1
  <2>4. CASE job.op = "limit"
    <3>1. ~IsAdmin(job.target) /\ members[job.target] \in Member
      BY <1>1, <1>2, <1>4, <2>4 DEF Accepts
    <3>2. members'[job.target].role = members[job.target].role
      BY <2>3, <2>4, <3>1 DEF Changed, Member
    <3>3. \A u \in Users : IsAdmin(u)' <=> IsAdmin(u)
      BY <2>3, <3>2 DEF IsAdmin
    <3> QED
      BY <1>3, <1>4, <2>1, <2>2, <2>3, <3>1, <3>3 DEF AdminsUnlimited, AdminRemains
  <2>5. CASE job.op = "role"
    <3>1. IsAdmin(job.uid) /\ job.uid # job.target
      BY <1>2, <2>5 DEF Accepts
    <3>2. members'[job.target].role = "admin" =>
              members'[job.target].mode = Unrestricted
      BY <2>3, <2>5 DEF Changed, WithRole
    <3>3. members'[job.uid].role = "admin"
      BY <1>1, <2>3, <3>1 DEF IsAdmin
    <3> QED
      BY <1>1, <1>4, <2>1, <2>2, <2>3, <3>2, <3>3 DEF AdminsUnlimited, AdminRemains, IsAdmin
  <2>6. CASE job.op = "remove"
    <3>1. \E u \in Users \ {job.target} : IsAdmin(u)
      BY <1>2, <1>3, <2>6 DEF Accepts
    <3>2. members'[job.target].role # "admin"
      BY <2>3, <2>6 DEF Changed, Outsider
    <3> QED
      BY <1>4, <2>1, <2>2, <2>3, <3>1, <3>2 DEF AdminsUnlimited, AdminRemains, IsAdmin
  <2> QED
    BY <1>2, <1>6, <2>4, <2>5, <2>6 DEF ExclusiveOps
<1> QED
  BY <1>5, <1>6

\* A change keeps the invariant.
LEMMA CommitStep ==
    ASSUME SpeakingInv, NEW s \in Sessions, Commit(s) PROVE SpeakingInv'
<1>1. PICK t \in Tx : /\ tx' = [tx EXCEPT ![s] = t]
                      /\ ~Holding(t) /\ (t.pc = "changed" => Tells(t.job))
  BY AfterCommit
<1>2. tx'[s] = t /\ \A o \in Sessions \ {s} : tx'[o] = tx[o]
  BY <1>1, OthersFrame DEF SpeakingInv
<1>3. \A o \in Sessions : ~Holding(tx'[o])
  BY <1>1, <1>2, ChangesAreAlone DEF Commit
<1>4. TypeOK'
  BY <1>1, CommitRows DEF SpeakingInv, TypeOK, Commit, AdminsUnlimited
<1>5. LockInv' /\ ReadyInv'
  BY <1>3 DEF LockInv, ReadyInv, Holding
<1>6. ChangedInv'
  BY <1>1, <1>2 DEF SpeakingInv, ChangedInv
<1> QED
  BY <1>4, <1>5, <1>6, CommitRows DEF SpeakingInv

\* A user who joins keeps the invariant.
LEMMA JoinStep ==
    ASSUME SpeakingInv, NEW u \in Users, NEW role \in {"member", "admin"}, Join(u, role)
    PROVE  SpeakingInv'
<1>1. /\ groupMode' = groupMode /\ tx' = tx
      /\ members' = [members EXCEPT ![u] = Joined(role)]
      /\ members[u].role = "none" /\ members \in [Users -> Member]
  BY DEF Join, IsMember, SpeakingInv, TypeOK
<1>2. TypeOK'
  <2>1. Joined(role) \in Member /\ Joined(role).mode = Unrestricted
    BY DEF Joined, Member
  <2>2. members' \in [Users -> Member]
    BY <1>1, <2>1
  <2>3. AdminsUnlimited'
    BY <1>1, <2>1 DEF AdminsUnlimited, IsAdmin, SpeakingInv, TypeOK
  <2> QED
    BY <2>2, <2>3 DEF SpeakingInv, TypeOK, AdminsUnlimited, Join
<1>3. LockInv' /\ ChangedInv'
  BY <1>1 DEF SpeakingInv, LockInv, ChangedInv, Compatible
<1>4. AdminRemains'
  BY <1>1 DEF SpeakingInv, AdminRemains, IsAdmin
<1>5. ASSUME NEW s \in Sessions, tx[s].pc = "ready"
      PROVE  IF Tells(tx[s].job) THEN Fresh(tx[s].job, tx[s].seen)'
             ELSE Accepts(tx[s].job)'
  <2>1. tx[s].job \in Job
    BY TxTypes DEF SpeakingInv, TypeOK
  <2>2. CASE ~Tells(tx[s].job)
    <3>1. Accepts(tx[s].job)
      BY <1>5, <2>2 DEF SpeakingInv, ReadyInv
    <3>2. \A job \in Job : ~Tells(job) /\ Accepts(job) => Accepts(job)'
      BY JoinKeepsChecks DEF SpeakingInv
    <3> QED
      BY <1>1, <2>1, <2>2, <3>1, <3>2
  <2>3. CASE Tells(tx[s].job)
    <3>1. Fresh(tx[s].job, tx[s].seen)
      BY <1>5, <2>3 DEF SpeakingInv, ReadyInv
    <3>2. \A v \in Users : Current(v)' = Current(v) \/ Current(v).role = "none"
      BY <1>1 DEF Current
    <3>3. tx[s].job.target \in Users
      BY <2>1 DEF Job
    <3> QED
      BY <1>1, <2>3, <3>1, <3>2, <3>3 DEF Fresh
  <2> QED
    BY <2>2, <2>3
<1>6. ReadyInv'
  BY <1>1, <1>5 DEF ReadyInv
<1> QED
  BY <1>2, <1>3, <1>4, <1>6 DEF SpeakingInv

-----------------------------------------------------------------------------
(* The theorems.                                                           *)

\* The invariant holds initially.
LEMMA SpeakingInit == Init => SpeakingInv
<1> SUFFICES ASSUME Init PROVE SpeakingInv
  OBVIOUS
<1>1. NoTx \in Tx /\ NoTx.pc = "idle"
  BY EmptyTypes DEF NoTx
<1>2. /\ Joined("admin") \in Member /\ Joined("admin").mode = Unrestricted
      /\ Outsider \in Member /\ Outsider.mode = Unrestricted
  BY DEF Joined, Outsider, Member
<1>3. TypeOK
  <2> HIDE DEF Member
  <2>1. members \in [Users -> Member] /\ \A u \in Users : members[u].mode = Unrestricted
    BY <1>2 DEF Init
  <2>2. tx \in [Sessions -> Tx] /\ ahead \in [Sessions -> SUBSET Sessions]
    BY <1>1 DEF Init
  <2>3. groupMode = Unrestricted /\ told = Unrestricted /\ lost = FALSE
    BY Zenon DEF Init
  <2>4. groupMode \in Modes /\ told \in Modes
    BY <2>3
  <2> QED
    BY <2>1, <2>2, <2>3, <2>4 DEF TypeOK
<1>4. \A s \in Sessions : tx[s].pc = "idle"
  BY <1>1 DEF Init
<1>5. AdminRemains
  BY UsersAssumption DEF Init, AdminRemains, IsAdmin, Joined
<1> QED
  BY <1>3, <1>4, <1>5 DEF SpeakingInv, LockInv, ReadyInv, ChangedInv, Holding

\* Every step keeps it.
LEMMA SpeakingNext == SpeakingInv /\ [Next]_vars => SpeakingInv'
<1> SUFFICES ASSUME SpeakingInv, [Next]_vars PROVE SpeakingInv'
  OBVIOUS
<1>1. CASE UNCHANGED vars
  BY <1>1 DEF vars, SpeakingInv, TypeOK, LockInv, ReadyInv, ChangedInv, AdminRemains,
              Compatible, Fresh, Accepts, Current, MaySpeak, IsMember, IsAdmin
<1>2. ASSUME NEW u \in Users, NEW role \in {"member", "admin"}, Join(u, role)
      PROVE  SpeakingInv'
  BY <1>2, JoinStep
<1>3. ASSUME NEW s \in Sessions, Ask(s) PROVE SpeakingInv'
  <2>1. PICK job \in Requests : Queue(s, job)
    BY <1>3 DEF Ask
  <2>2. job \in Job
    BY DEF Requests
  <2> QED
    BY <1>3, <2>1, <2>2, QueueStep DEF Ask
<1>4. ASSUME NEW s \in Sessions, Fail(s) PROVE SpeakingInv'
  <2>1. ahead' \in [Sessions -> SUBSET Sessions]
    BY <1>4, AheadTypes DEF Fail, SpeakingInv
  <2>2. told' \in Modes /\ lost' \in BOOLEAN
    BY <1>4 DEF Fail, SpeakingInv, TypeOK
  <2> QED
    BY <1>4, <2>1, <2>2, ReleaseStep DEF Fail
<1>5. ASSUME NEW s \in Sessions, Grant(s) PROVE SpeakingInv'
  <2> DEFINE t == [tx[s] EXCEPT !.pc = "holds"]
  <2>1. tx[s] \in Tx /\ "holds" \in Phases
    BY DEF SpeakingInv, TypeOK, Phases
  <2>2. t \in Tx
    BY <2>1, TxTypes
  <2>3. t.pc = "holds" /\ t.job = tx[s].job
    BY <2>1 DEF Tx
  <2>4. \A o \in Sessions \ {s} : Holding(tx[o]) => Compatible(t.job, tx[o].job)
    BY <1>5, <2>3 DEF Grant, Grantable
  <2>5. ahead' \in [Sessions -> SUBSET Sessions]
    BY <1>5, AheadTypes DEF Grant, SpeakingInv
  <2>6. told' \in Modes /\ lost' \in BOOLEAN
    BY <1>5 DEF Grant, SpeakingInv, TypeOK
  <2>7. tx' = [tx EXCEPT ![s] = t]
    BY <1>5 DEF Grant, SpeakingInv, TypeOK
  <2>8. UNCHANGED <<groupMode, members>>
    BY <1>5 DEF Grant
  <2> HIDE DEF t
  <2> QED
    BY <2>2, <2>3, <2>4, <2>5, <2>6, <2>7, <2>8, OneSessionMoves
<1>6. ASSUME NEW s \in Sessions, Check(s) PROVE SpeakingInv'
  <2> DEFINE t == [tx[s] EXCEPT !.pc = "ready"]
  <2>1. tx[s] \in Tx /\ "ready" \in Phases
    BY DEF SpeakingInv, TypeOK, Phases
  <2>2. t \in Tx
    BY <2>1, TxTypes
  <2>3. t.pc = "ready" /\ t.job = tx[s].job
    BY <2>1 DEF Tx
  <2>4. tx' = [tx EXCEPT ![s] = t]
    BY <1>6 DEF Check, SpeakingInv, TypeOK
  <2> HIDE DEF t
  <2> QED
    BY <1>6, <2>2, <2>3, <2>4, ReadyStep DEF Check
<1>7. ASSUME NEW s \in Sessions, Read(s) PROVE SpeakingInv'
  <2> DEFINE seen == Current(tx[s].job.target)
  <2> DEFINE t == [tx[s] EXCEPT !.pc = "ready", !.seen = seen]
  <2>1. tx[s] \in Tx /\ "ready" \in Phases
    BY DEF SpeakingInv, TypeOK, Phases
  <2>2. seen \in Seen
    <3>1. tx[s].job.target \in Users
      BY <2>1, TxTypes DEF Job
    <3> QED
      BY <3>1, CurrentType DEF SpeakingInv
  <2>3. Fresh(tx[s].job, seen)
    BY DEF Fresh, Current
  <2>4. tx' = [tx EXCEPT ![s] = t]
    BY <1>7 DEF Read, SpeakingInv, TypeOK
  <2> HIDE DEF seen
  <2>5. t \in Tx
    BY <2>1, <2>2, TxTypes
  <2>6. t.pc = "ready" /\ t.job = tx[s].job /\ t.seen = seen
    BY <2>1 DEF Tx
  <2> HIDE DEF t
  <2> QED
    BY <1>7, <2>3, <2>4, <2>5, <2>6, ReadyStep DEF Read
<1>8. ASSUME NEW s \in Sessions, Reject(s) \/ Store(s) \/ Tell(s) PROVE SpeakingInv'
  <2>1. tx[s].seen.group \in Modes
    BY TxTypes DEF SpeakingInv, TypeOK, Seen
  <2>2. Release(s) /\ UNCHANGED <<groupMode, members, ahead>>
    BY <1>8 DEF Reject, Store, Tell, RollBack
  <2>3. told' \in Modes /\ lost' \in BOOLEAN
    BY <1>8, <2>1 DEF Reject, Store, Tell, SpeakingInv, TypeOK
  <2>4. ahead' \in [Sessions -> SUBSET Sessions]
    BY <2>2 DEF SpeakingInv, TypeOK
  <2> QED
    BY <2>2, <2>3, <2>4, ReleaseStep
<1>9. ASSUME NEW s \in Sessions, Announce(s) PROVE SpeakingInv'
  <2>1. tx[s].job \in Job
    BY TxTypes DEF SpeakingInv, TypeOK
  <2> QED
    BY <1>9, <2>1, QueueStep DEF Announce
<1> QED
  BY <1>1, <1>2, <1>3, <1>4, <1>5, <1>6, <1>7, <1>8, <1>9, CommitStep DEF Next, Step

\* It always holds.
THEOREM SpeakingInvariant == Spec => []SpeakingInv
BY SpeakingInit, SpeakingNext, PTL DEF Spec

\* Every variable keeps its type, and an admin has no personal limit.
THEOREM TypeCorrect == Spec => []TypeOK
<1>1. SpeakingInv => TypeOK
  BY DEF SpeakingInv
<1> QED
  BY <1>1, SpeakingInvariant, PTL

\* The group always has an admin (delete_remove_member, update_member_role).
THEOREM AdminAlwaysRemains == Spec => []AdminRemains
<1>1. SpeakingInv => AdminRemains
  BY DEF SpeakingInv
<1> QED
  BY <1>1, SpeakingInvariant, PTL

\* No message is stored that the committed modes and roles forbid
\* (authorize_message_send under lock_chat).
THEOREM StoredSendsAreAllowed == Spec => SendsAreAllowed
<1>1. SpeakingInv =>
          \A s \in Sessions : Store(s) => MaySpeak(tx[s].job.uid, tx[s].job.action)
  BY DEF SpeakingInv, ReadyInv, Store, Tells, Accepts
<1> QED
  BY <1>1, SpeakingInvariant, PTL DEF SendsAreAllowed

\* No event about a mode is older than what is committed when it is put in the
\* queues (broadcast_group_mode, broadcast_member_mode).
THEOREM AnnouncementsAreCurrent == Spec => AnnouncesCurrent
<1>1. SpeakingInv =>
          \A s \in Sessions :
              Tell(s) => IF tx[s].job.op = "tellGroup"
                         THEN tx[s].seen.group = groupMode
                         ELSE tx[s].seen.role = "none"
                              \/ tx[s].seen = Current(tx[s].job.target)
  BY DEF SpeakingInv, ReadyInv, Tell, Fresh
<1> QED
  BY <1>1, SpeakingInvariant, PTL DEF AnnouncesCurrent

=============================================================================
