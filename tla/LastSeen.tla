------------------------------ MODULE LastSeen ------------------------------
(***************************************************************************)
(* When users were last seen (services/client_tracking/last_seen.rs):      *)
(* observations are recorded in memory per day and written in batches by   *)
(* one worker (run_last_seen_worker), which acknowledges a day after its   *)
(* transaction.  Each transaction also counts the users it saw for the     *)
(* first time that day.                                                    *)
(*                                                                         *)
(* Time is counted in moments, DayLength of them in a day; the first day   *)
(* is the past.  The clock is read and the observation recorded in one     *)
(* step.  Every user has a row in user_extra: the row of a new user, which *)
(* record_client_activity inserts, is left out, as is the end of the       *)
(* process, which loses what is pending.                                   *)
(***************************************************************************)
EXTENDS Integers, FiniteSets

CONSTANTS
    Users,
    DayLength,
    Horizon,    \* the last moment
    MaxErrors   \* bound on the flushes that end in an error

ASSUME UsersAssumption == IsFiniteSet(Users)
ASSUME TimeAssumption ==
    /\ DayLength \in Nat \ {0} /\ Horizon \in Nat /\ MaxErrors \in Nat
    /\ DayLength <= Horizon

VARIABLES
    now,
    pending,    \* LastSeen.pending: per day and user
    persisted,  \* user_extra.last_seen_at
    activeUsers,\* daily rollup: active users of each day
    flush,      \* where LastSeen::flush is
    errors,
    observed,   \* ghost: the newest observation of each user
    seenOn      \* ghost: the users observed on each day

lastSeenVars ==
    <<now, pending, persisted, activeUsers, flush, errors, observed, seenOn>>

-----------------------------------------------------------------------------
Past == 0
Moments == 0..Horizon
Day(t) == t \div DayLength
Days == 0..Horizon

Nothing == [u \in Users |-> Past]
NoPending == [d \in Days |-> Nothing]
Batch == [Days -> [Users -> Moments]]

NoFlush == [pc |-> "idle", batch |-> NoPending]

Later(a, b) == IF a > b THEN a ELSE b

LastSeenInit ==
    /\ now \in DayLength..Horizon
    /\ pending = NoPending
    /\ persisted = Nothing
    /\ activeUsers = [d \in Days |-> 0]
    /\ flush = NoFlush
    /\ errors = 0
    /\ observed = Nothing
    /\ seenOn = [d \in Days |-> {}]

Advance ==
    /\ now < Horizon
    /\ now' = now + 1
    /\ UNCHANGED <<pending, persisted, activeUsers, flush, errors, observed, seenOn>>

record(u) ==
    /\ pending' = [pending EXCEPT ![Day(now)][u] = Later(@, now)]
    /\ observed' = [observed EXCEPT ![u] = now]
    /\ seenOn' = [seenOn EXCEPT ![Day(now)] = @ \cup {u}]
    /\ UNCHANGED <<now, persisted, activeUsers, flush, errors>>

(* latest: what the process knows of u besides `at`.                       *)
IsLatest(u, at, t) ==
    /\ t = at \/ \E d \in Days : t = pending[d][u]
    /\ t >= at /\ \A d \in Days : t >= pending[d][u]

-----------------------------------------------------------------------------
(* flush, with the lock that lets one run at a time.                       *)

(* The days of a batch are written in their order.                         *)
Holds(batch, d) == batch[d] # Nothing
IsFirst(batch, d) == Holds(batch, d) /\ \A e \in Days : Holds(batch, e) => d <= e

FlushBegins ==
    /\ flush.pc = "idle"
    /\ pending # NoPending
    /\ flush' = [pc |-> "write", batch |-> pending]
    /\ UNCHANGED <<now, pending, persisted, activeUsers, errors, observed, seenOn>>

(* flush_day's statement: rows that are older are updated, and those that  *)
(* were last seen on another day are counted.                              *)
Updated(d) == {u \in Users : persisted[u] < flush.batch[d][u]}
FirstSeenAgain(d) == Updated(d)    \* mutant: every update counts
FirstSeen(d) == {u \in Updated(d) : Day(persisted[u]) # d}

WriteDay(d) ==
    /\ flush.pc = "write" /\ IsFirst(flush.batch, d)
    /\ persisted' = [u \in Users |-> IF u \in Updated(d) THEN flush.batch[d][u]
                                     ELSE persisted[u]]
    /\ activeUsers' = [activeUsers EXCEPT ![d] = @ + Cardinality(FirstSeen(d))]

FlushDay(d) ==
    /\ WriteDay(d)
    /\ flush' = [flush EXCEPT !.pc = "acknowledge"]
    /\ UNCHANGED <<now, pending, errors, observed, seenOn>>

(* The day and all later ones stay for the next flush; a commit whose      *)
(* answer is lost has taken place.                                         *)
FlushFails ==
    /\ flush.pc = "write" /\ errors < MaxErrors
    /\ UNCHANGED <<persisted, activeUsers>> \/ \E d \in Days : WriteDay(d)
    /\ flush' = NoFlush
    /\ errors' = errors + 1
    /\ UNCHANGED <<now, pending, observed, seenOn>>

(* acknowledge: what was observed since the snapshot stays.                *)
AcknowledgedAll(d, u) == TRUE      \* mutant: the day is forgotten
Acknowledged(d, u) == pending[d][u] <= flush.batch[d][u]

Unwritten(d) == [flush.batch EXCEPT ![d] = Nothing]

Acknowledge(d) ==
    /\ flush.pc = "acknowledge" /\ IsFirst(flush.batch, d)
    /\ pending' = [pending EXCEPT ![d] = [u \in Users |->
                      IF Acknowledged(d, u) THEN Past ELSE pending[d][u]]]
    /\ flush' = IF Unwritten(d) = NoPending THEN NoFlush
                ELSE [pc |-> "write", batch |-> Unwritten(d)]
    /\ UNCHANGED <<now, persisted, activeUsers, errors, observed, seenOn>>

-----------------------------------------------------------------------------
LastSeenNext ==
    \/ Advance
    \/ \E u \in Users : record(u)
    \/ FlushBegins
    \/ \E d \in Days : FlushDay(d) \/ Acknowledge(d)
    \/ FlushFails

LastSeenSpec == LastSeenInit /\ [][LastSeenNext]_lastSeenVars

-----------------------------------------------------------------------------
(* Properties.                                                             *)

(* Every variable has its type.                                            *)
LastSeenTypeOK ==
    /\ now \in Moments
    /\ pending \in Batch
    /\ persisted \in [Users -> Moments]
    /\ activeUsers \in [Days -> Nat]
    /\ flush \in [pc : {"idle", "write", "acknowledge"}, batch : Batch]
    /\ errors \in 0..MaxErrors
    /\ observed \in [Users -> Moments]
    /\ seenOn \in [Days -> SUBSET Users]

(* What was observed of a user is pending or persisted at every moment,    *)
(* also while a flush runs, when a day fails, and when the user is seen    *)
(* again between a transaction and its acknowledgement (flush,             *)
(* acknowledge): the newer of the two is the newest observation.           *)
ObservationsKept ==
    \A u \in Users : IsLatest(u, persisted[u], observed[u])

(* The rollup of a day counts each user who was seen that day once: those  *)
(* seen are those counted and those who are pending and will be, whatever  *)
(* order of failures, lost answers and repetitions brought them there      *)
(* (flush, flush_day).                                                     *)
DaysAreCounted ==
    \A d \in Days :
        Cardinality(seenOn[d]) =
            activeUsers[d]
            + Cardinality({u \in Users : pending[d][u] # Past /\ Day(persisted[u]) # d})
=============================================================================
