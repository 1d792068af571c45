--------------------------- MODULE PresenceProofs ---------------------------
(***************************************************************************)
(* Theorems about Presence, for every set of users, every length of the    *)
(* day, every channel and every bound.                                     *)
(*                                                                         *)
(* LastSeen: a batch never holds more than what is pending, and what is    *)
(* acknowledged has just been written.  For the rollup: what is pending    *)
(* for a day or in a row was observed on that day, rows never show a later *)
(* day than what is pending, and who was seen today is in one of the two.  *)
(*                                                                         *)
(* The watch: as long as no change is under way to the runner, everything  *)
(* the load has read so far is still what is committed; a change under way *)
(* stays so until a load begins after it.  What is known of the peer's     *)
(* last activity moves from memory to the row while it is read, in the     *)
(* order in which the load reads them.                                     *)
(***************************************************************************)
EXTENDS Presence, FiniteSetTheorems, TLAPS

-----------------------------------------------------------------------------
(* Types.                                                                  *)

\* A moment belongs to a day.
LEMMA DayType == \A t \in Moments : Day(t) \in Days
BY TimeAssumption, Z3 DEF Moments, Day, Days

\* The values flushes begin with have their types.
LEMMA EmptyTypes ==
    /\ Past \in Moments /\ Nothing \in [Users -> Moments] /\ NoPending \in Batch
    /\ NoFlush \in [pc : {"idle", "write", "acknowledge"}, batch : Batch]
BY TimeAssumption DEF Past, Moments, Nothing, NoPending, Batch, NoFlush

\* Of two moments the later is a moment, and at least either.
LEMMA LaterIsMax ==
    \A a, b \in Moments :
        Later(a, b) \in Moments /\ Later(a, b) >= a /\ Later(a, b) >= b
        /\ (Later(a, b) = a \/ Later(a, b) = b)
BY TimeAssumption DEF Moments, Later

\* Writing a day: the rows are the later of what they were and the batch.
LEMMA WriteDayRows ==
    ASSUME LastSeenTypeOK, NEW d \in Days, WriteDay(d)
    PROVE  /\ persisted' \in [Users -> Moments]
           /\ \A u \in Users : persisted'[u] = Later(persisted[u], flush.batch[d][u])
           /\ activeUsers' \in [Days -> Nat]
<1>1. flush.batch[d] \in [Users -> Moments]
  BY DEF LastSeenTypeOK, Batch
<1>2. Cardinality(FirstSeen(d)) \in Nat
  BY FS_CardinalityType, FS_Subset, UsersAssumption DEF FirstSeen, Updated
<1>3. activeUsers' \in [Days -> Nat]
  BY <1>2 DEF WriteDay, LastSeenTypeOK
<1> DEFINE Row(u) == IF u \in Updated(d) THEN flush.batch[d][u] ELSE persisted[u]
<1>4. \A u \in Users : Row(u) \in Moments /\ Row(u) = Later(persisted[u], flush.batch[d][u])
  BY <1>1 DEF LastSeenTypeOK, Updated, Later, Moments
<1>5. persisted' = [u \in Users |-> Row(u)]
  BY DEF WriteDay
<1> QED
  BY <1>3, <1>4, <1>5

\* Every step keeps the types.
LEMMA LastSeenTypes ==
    ASSUME LastSeenTypeOK, [LastSeenNext]_lastSeenVars PROVE LastSeenTypeOK'
<1> USE DEF LastSeenTypeOK
<1>1. CASE Advance
  BY <1>1, TimeAssumption DEF Advance, Moments
<1>2. CASE \E u \in Users : record(u)
  <2>1. PICK u \in Users : record(u)
    BY <1>2
  <2>2. DEFINE row == [pending[Day(now)] EXCEPT ![u] = Later(@, now)]
  <2>3. pending' = [pending EXCEPT ![Day(now)] = row]
    BY <2>1 DEF record
  <2>4. row \in [Users -> Moments]
    BY DayType, LaterIsMax DEF Batch
  <2>5. pending' \in Batch
    BY <2>3, <2>4, DayType DEF Batch
  <2>6. observed' \in [Users -> Moments] /\ seenOn' \in [Days -> SUBSET Users]
    BY <2>1 DEF record
  <2> QED
    BY <2>1, <2>5, <2>6 DEF record
<1>3. CASE FlushBegins
  BY <1>3 DEF FlushBegins
<1>4. CASE \E d \in Days : FlushDay(d)
  <2>1. PICK d \in Days : FlushDay(d)
    BY <1>4
  <2> QED
    BY <2>1, WriteDayRows DEF FlushDay
<1>5. CASE \E d \in Days : Acknowledge(d)
  <2>1. PICK d \in Days : Acknowledge(d)
    BY <1>5
  <2>2. Unwritten(d) \in Batch
    BY EmptyTypes DEF Unwritten, Batch
  <2>3. flush' \in [pc : {"idle", "write", "acknowledge"}, batch : Batch]
    BY <2>1, <2>2, EmptyTypes DEF Acknowledge
  <2>4. [u \in Users |-> IF Acknowledged(d, u) THEN Past ELSE pending[d][u]]
            \in [Users -> Moments]
    BY EmptyTypes DEF Batch
  <2>5. pending' \in Batch
    BY <2>1, <2>4 DEF Acknowledge, Batch
  <2> QED
    BY <2>1, <2>3, <2>5 DEF Acknowledge
<1>6. CASE FlushFails
  <2>1. errors' \in 0..MaxErrors /\ flush' \in [pc : {"idle", "write", "acknowledge"}, batch : Batch]
    BY <1>6, EmptyTypes, TimeAssumption DEF FlushFails
  <2>2. persisted' \in [Users -> Moments] /\ activeUsers' \in [Days -> Nat]
    BY <1>6, WriteDayRows DEF FlushFails
  <2> QED
    BY <1>6, <2>1, <2>2 DEF FlushFails
<1>7. CASE UNCHANGED lastSeenVars
  BY <1>7 DEF lastSeenVars
<1> QED
  BY <1>1, <1>2, <1>3, <1>4, <1>5, <1>6, <1>7 DEF LastSeenNext

\* The initial values have their types.
LEMMA LastSeenInitTypes == LastSeenInit => LastSeenTypeOK
BY EmptyTypes, TimeAssumption DEF LastSeenInit, LastSeenTypeOK, Moments, Days

(* Every variable has its type (services/client_tracking/last_seen.rs).    *)
THEOREM LastSeenTypeCorrect == LastSeenSpec => []LastSeenTypeOK
BY LastSeenInitTypes, LastSeenTypes, PTL DEF LastSeenSpec

-----------------------------------------------------------------------------
(* The invariant.                                                          *)

\* Nobody was seen in the future.
ClockInv == \A u \in Users : observed[u] <= now

\* What a flush holds is still pending, or was replaced by something newer.
BatchInv ==
    flush.pc # "idle" =>
        \A d \in Days, u \in Users : flush.batch[d][u] <= pending[d][u]

\* The day that is to be acknowledged is written.
WrittenInv ==
    flush.pc = "acknowledge" =>
        \A d \in Days : IsFirst(flush.batch, d) =>
            \A u \in Users : flush.batch[d][u] <= persisted[u]

KeptInv == ObservationsKept /\ ClockInv /\ BatchInv /\ WrittenInv

\* What ObservationsKept says, in the words of the proof: nothing is newer
\* than the newest observation, which is in the row or pending.
LEMMA KeptMeans ==
    ASSUME LastSeenTypeOK
    PROVE  ObservationsKept <=>
              \A u \in Users :
                /\ persisted[u] <= observed[u]
                /\ \A d \in Days : pending[d][u] <= observed[u]
                /\ persisted[u] = observed[u] \/ \E d \in Days : pending[d][u] = observed[u]
BY DEF ObservationsKept, IsLatest, LastSeenTypeOK, Batch, Moments

\* A day that is written never holds anything newer than the observations,
\* and the rows keep theirs.
LEMMA WriteDayKeeps ==
    ASSUME LastSeenTypeOK, KeptInv, NEW d \in Days, WriteDay(d),
           UNCHANGED <<now, pending, observed>>, LastSeenTypeOK'
    PROVE  ObservationsKept' /\ \A u \in Users : flush.batch[d][u] <= persisted'[u]
<1>1. flush.batch \in Batch /\ flush.pc = "write"
  BY DEF LastSeenTypeOK, WriteDay
<1>2. \A u \in Users : flush.batch[d][u] <= pending[d][u]
  BY <1>1 DEF KeptInv, BatchInv
<1>3. \A u \in Users : persisted'[u] = Later(persisted[u], flush.batch[d][u])
  BY WriteDayRows
<1>4. ASSUME NEW u \in Users
      PROVE  /\ persisted'[u] <= observed'[u]
             /\ \A e \in Days : pending'[e][u] <= observed'[u]
             /\ persisted'[u] = observed'[u] \/ \E e \in Days : pending'[e][u] = observed'[u]
             /\ flush.batch[d][u] <= persisted'[u]
  <2>1. /\ persisted[u] \in Moments /\ flush.batch[d][u] \in Moments
        /\ observed[u] \in Moments /\ pending[d][u] \in Moments
    BY <1>1 DEF LastSeenTypeOK, Batch
  <2>2. /\ persisted[u] <= observed[u]
        /\ \A e \in Days : pending[e][u] <= observed[u]
        /\ persisted[u] = observed[u] \/ \E e \in Days : pending[e][u] = observed[u]
    BY KeptMeans DEF KeptInv
  <2>3. flush.batch[d][u] <= observed[u]
    BY <1>2, <2>1, <2>2 DEF Moments
  <2> QED
    BY <1>3, <2>1, <2>2, <2>3 DEF Later, Moments
<1>5. ObservationsKept'
  BY <1>4 DEF ObservationsKept, IsLatest, LastSeenTypeOK, Batch, Moments
<1> QED
  BY <1>4, <1>5

\* Every step keeps the invariant.
LEMMA KeptInvStep ==
    ASSUME LastSeenTypeOK, KeptInv, [LastSeenNext]_lastSeenVars, LastSeenTypeOK'
    PROVE  KeptInv'
<1> USE DEF KeptInv
<1>1. CASE Advance
  BY <1>1 DEF Advance, LastSeenTypeOK, Moments, ObservationsKept, IsLatest, ClockInv,
      BatchInv, WrittenInv, IsFirst, Holds
<1>2. CASE \E u \in Users : record(u)
  <2>1. PICK u \in Users : record(u)
    BY <1>2
  <2>2. Day(now) \in Days
    BY DayType DEF LastSeenTypeOK
  <2>3. \A d \in Days, v \in Users :
            pending'[d][v] = IF d = Day(now) /\ v = u THEN Later(pending[d][v], now)
                             ELSE pending[d][v]
    BY <2>1, <2>2 DEF record, LastSeenTypeOK, Batch
  <2>4. \A v \in Users : observed'[v] = IF v = u THEN now ELSE observed[v]
    BY <2>1 DEF record, LastSeenTypeOK
  <2>5. UNCHANGED <<now, persisted, flush>>
    BY <2>1 DEF record
  <2>6. ASSUME NEW v \in Users
        PROVE  /\ persisted'[v] <= observed'[v] /\ observed'[v] <= now
               /\ \A d \in Days : pending[d][v] <= pending'[d][v]
               /\ \A d \in Days : pending'[d][v] <= observed'[v]
               /\ persisted'[v] = observed'[v] \/ \E d \in Days : pending'[d][v] = observed'[v]
    <3>1. /\ persisted[v] <= observed[v] /\ observed[v] <= now
          /\ \A d \in Days : pending[d][v] <= observed[v]
          /\ persisted[v] = observed[v] \/ \E d \in Days : pending[d][v] = observed[v]
      BY KeptMeans DEF ClockInv
    <3>2. /\ persisted[v] \in Moments /\ observed[v] \in Moments /\ now \in Moments
          /\ \A d \in Days : pending[d][v] \in Moments
      BY DEF LastSeenTypeOK, Batch
    <3>3. CASE v # u
      BY <2>3, <2>4, <2>5, <3>1, <3>2, <3>3 DEF Moments
    <3>4. CASE v = u
      <4>1. pending'[Day(now)][v] = now
        BY <2>2, <2>3, <3>1, <3>2, <3>4 DEF Later, Moments
      <4> QED
        BY <2>2, <2>3, <2>4, <2>5, <3>1, <3>2, <3>4, <4>1 DEF Later, Moments
    <3> QED
      BY <3>3, <3>4
  <2>7. ObservationsKept'
    BY <2>6 DEF ObservationsKept, IsLatest, LastSeenTypeOK, Batch, Moments
  <2>8. BatchInv'
    <3>1. \A d \in Days, v \in Users :
              /\ flush.batch[d][v] \in Moments /\ pending[d][v] \in Moments
              /\ pending'[d][v] \in Moments
      BY DEF LastSeenTypeOK, Batch
    <3> QED
      BY <2>5, <2>6, <3>1 DEF BatchInv, Moments
  <2> QED
    BY <2>5, <2>6, <2>7, <2>8 DEF ClockInv, WrittenInv, IsFirst, Holds
<1>3. CASE FlushBegins
  BY <1>3 DEF FlushBegins, LastSeenTypeOK, Batch, Moments, ObservationsKept, IsLatest,
      ClockInv, BatchInv, WrittenInv
<1>4. CASE \E d \in Days : FlushDay(d)
  <2>1. PICK d \in Days : FlushDay(d)
    BY <1>4
  <2>2. WriteDay(d) /\ flush.pc = "write" /\ IsFirst(flush.batch, d)
        /\ flush'.batch = flush.batch /\ flush'.pc = "acknowledge"
        /\ UNCHANGED <<now, pending, observed>>
    BY <2>1 DEF FlushDay, WriteDay, LastSeenTypeOK
  <2>3. ObservationsKept' /\ \A u \in Users : flush.batch[d][u] <= persisted'[u]
    BY <2>2, WriteDayKeeps
  <2>4. \A e \in Days : IsFirst(flush.batch, e) => e = d
    BY <2>2 DEF IsFirst, Days
  <2> QED
    BY <2>2, <2>3, <2>4 DEF ClockInv, BatchInv, WrittenInv, IsFirst, Holds
<1>5. CASE \E d \in Days : Acknowledge(d)
  <2>1. PICK d \in Days : Acknowledge(d)
    BY <1>5
  <2>2. /\ IsFirst(flush.batch, d) /\ flush.pc = "acknowledge" /\ flush.batch \in Batch
        /\ UNCHANGED <<now, persisted, observed>>
    BY <2>1 DEF Acknowledge, LastSeenTypeOK
  <2>3. \A e \in Days, u \in Users :
            pending'[e][u] = IF e = d /\ Acknowledged(d, u) THEN Past ELSE pending[e][u]
    BY <2>1 DEF Acknowledge, LastSeenTypeOK, Batch
  <2>4. flush'.pc # "acknowledge"
    BY <2>1 DEF Acknowledge, NoFlush
  <2>5. flush'.pc # "idle" =>
            \A e \in Days, u \in Users :
                flush'.batch[e][u] = IF e = d THEN Past ELSE flush.batch[e][u]
    BY <2>1, <2>2 DEF Acknowledge, NoFlush, Unwritten, Nothing, Batch
  <2>6. ASSUME NEW u \in Users
        PROVE  /\ persisted'[u] <= observed'[u]
               /\ \A e \in Days : pending'[e][u] <= observed'[u]
               /\ persisted'[u] = observed'[u] \/ \E e \in Days : pending'[e][u] = observed'[u]
    <3>1. /\ persisted[u] <= observed[u]
          /\ \A e \in Days : pending[e][u] <= observed[u]
          /\ persisted[u] = observed[u] \/ \E e \in Days : pending[e][u] = observed[u]
      BY KeptMeans
    <3>2. /\ persisted[u] \in Moments /\ observed[u] \in Moments
          /\ \A e \in Days : pending[e][u] \in Moments
          /\ flush.batch[d][u] \in Moments
      BY <2>2 DEF LastSeenTypeOK, Batch
    <3>3. flush.batch[d][u] <= persisted[u]
      BY <2>2 DEF WrittenInv
    <3>4. pending[d][u] <= flush.batch[d][u] => pending[d][u] <= persisted[u]
      BY <3>2, <3>3 DEF Moments
    <3> QED
      BY <2>2, <2>3, <3>1, <3>2, <3>4 DEF Acknowledged, Moments, Past
  <2>7. ObservationsKept'
    BY <2>6 DEF ObservationsKept, IsLatest, LastSeenTypeOK, Batch, Moments
  <2>8. BatchInv'
    <3>1. \A e \in Days, u \in Users :
              flush.batch[e][u] <= pending[e][u] /\ pending'[e][u] \in Moments
      BY <2>2 DEF BatchInv, LastSeenTypeOK, Batch
    <3> QED
      BY <2>3, <2>5, <3>1 DEF BatchInv, Moments, Past
  <2> QED
    BY <2>2, <2>4, <2>7, <2>8 DEF ClockInv, WrittenInv
<1>6. CASE FlushFails
  <2>1. flush'.pc = "idle" /\ UNCHANGED <<now, pending, observed>>
    BY <1>6 DEF FlushFails, NoFlush
  <2>2. ObservationsKept'
    <3>1. CASE UNCHANGED persisted
      BY <2>1, <3>1 DEF ObservationsKept, IsLatest
    <3>2. CASE \E d \in Days : WriteDay(d)
      BY <2>1, <3>2, WriteDayKeeps
    <3> QED
      BY <1>6, <3>1, <3>2 DEF FlushFails
  <2> QED
    BY <2>1, <2>2 DEF ClockInv, BatchInv, WrittenInv
<1>7. CASE UNCHANGED lastSeenVars
  BY <1>7 DEF lastSeenVars, ObservationsKept, IsLatest, ClockInv, BatchInv, WrittenInv,
      IsFirst, Holds
<1> QED
  BY <1>1, <1>2, <1>3, <1>4, <1>5, <1>6, <1>7 DEF LastSeenNext

\* It holds at the start.
LEMMA KeptInvInit == LastSeenInit => KeptInv
<1> SUFFICES ASSUME LastSeenInit PROVE KeptInv
  OBVIOUS
<1>1. \A u \in Users : persisted[u] = 0 /\ observed[u] = 0 /\ \A d \in Days : pending[d][u] = 0
  BY DEF LastSeenInit, Nothing, NoPending, Past
<1>2. flush.pc = "idle"
  BY DEF LastSeenInit, NoFlush
<1>3. now >= 0
  BY TimeAssumption DEF LastSeenInit
<1> QED
  BY <1>1, <1>2, <1>3 DEF KeptInv, ObservationsKept, IsLatest, ClockInv, BatchInv, WrittenInv

\* The invariant of the specification.
THEOREM KeptInvariant == LastSeenSpec => [](LastSeenTypeOK /\ KeptInv)
<1>1. LastSeenInit => LastSeenTypeOK /\ KeptInv
  BY LastSeenInitTypes, KeptInvInit
<1>2. LastSeenTypeOK /\ KeptInv /\ [LastSeenNext]_lastSeenVars => (LastSeenTypeOK /\ KeptInv)'
  BY LastSeenTypes, KeptInvStep
<1> QED
  BY <1>1, <1>2, PTL DEF LastSeenSpec

(* No observation is lost between the memory and the rows, whatever fails  *)
(* or overlaps (LastSeen::flush and acknowledge).                          *)
THEOREM NoObservationLost == LastSeenSpec => []ObservationsKept
BY KeptInvariant, PTL DEF KeptInv

-----------------------------------------------------------------------------
(* Counting the users of a day.                                            *)

Today == Day(now)

\* Those of a day who are to be counted.
Uncounted(d) == {u \in Users : pending[d][u] # Past /\ Day(persisted[u]) # d}

\* What is pending for a day, or in the rows, was observed on its day; a row
\* never shows a later day than what is pending.
ObservedInv ==
    /\ now >= DayLength
    /\ \A d \in Days, u \in Users : pending[d][u] # Past =>
            /\ Day(pending[d][u]) = d /\ u \in seenOn[d]
            /\ Day(persisted[u]) <= d
    /\ \A u \in Users : persisted[u] # Past => u \in seenOn[Day(persisted[u])]
    /\ \A d \in Days : d > Today => seenOn[d] = {}

\* Who was seen today is pending, or in a row.
TodayInv ==
    \A u \in seenOn[Today] : pending[Today][u] # Past \/ Day(persisted[u]) = Today

\* The days of a batch are of their day; before the last of them, nothing has
\* been recorded since the snapshot.
SnapshotInv ==
    flush.pc # "idle" =>
        /\ \A d \in Days, u \in Users :
                flush.batch[d][u] # Past => Day(flush.batch[d][u]) = d
        /\ \A d, e \in Days : Holds(flush.batch, d) /\ e < d => pending[e] = flush.batch[e]

CountedInv == ObservedInv /\ TodayInv /\ SnapshotInv /\ DaysAreCounted

\* Days follow each other as moments do; the past is before the first day.
LEMMA DayOrder ==
    /\ \A a, b \in Moments : a <= b => Day(a) <= Day(b)
    /\ Day(Past) = 0
    /\ \A t \in Moments : t >= DayLength => Day(t) >= 1
<1>1. \A a, b \in Moments : a <= b => Day(a) <= Day(b)
  BY TimeAssumption, Z3 DEF Moments, Day
<1>2. Day(Past) = 0 /\ \A t \in Moments : t >= DayLength => Day(t) >= 1
  BY TimeAssumption, Z3 DEF Moments, Day, Past
<1> QED
  BY <1>1, <1>2

\* The users are finitely many, and so are those of a day.
LEMMA FinitelyMany ==
    /\ \A S \in SUBSET Users : IsFiniteSet(S) /\ Cardinality(S) \in Nat
    /\ \A d : Uncounted(d) \in SUBSET Users
<1>1. \A S \in SUBSET Users : IsFiniteSet(S) /\ Cardinality(S) \in Nat
  BY UsersAssumption, FS_Subset, FS_CardinalityType
<1> QED
  BY <1>1 DEF Uncounted

\* The types of the proof's terms.
LEMMA Typed ==
    ASSUME LastSeenTypeOK
    PROVE  /\ now \in Moments /\ Today \in Days /\ Past \in Moments
           /\ \A d \in Days, u \in Users :
                /\ pending[d][u] \in Moments /\ flush.batch[d][u] \in Moments
                /\ persisted[u] \in Moments /\ Day(persisted[u]) \in Days
           /\ \A d \in Days : seenOn[d] \in SUBSET Users /\ activeUsers[d] \in Nat
BY DayType, EmptyTypes DEF LastSeenTypeOK, Batch, Today

\* DaysAreCounted in the words of the proof.
LEMMA CountedMeans ==
    DaysAreCounted <=>
        \A d \in Days :
            Cardinality(seenOn[d]) = activeUsers[d] + Cardinality(Uncounted(d))
BY DEF DaysAreCounted, Uncounted

\* Of a part of the users, those who are left after some of it are taken away.
LEMMA TakenAway ==
    ASSUME NEW S \in SUBSET Users, NEW T \in SUBSET S
    PROVE  Cardinality(S) = Cardinality(T) + Cardinality(S \ T)
<1>1. IsFiniteSet(S) /\ IsFiniteSet(T) /\ IsFiniteSet(S \ T) /\ S \cap T = T
  BY FinitelyMany
<1>2. Cardinality(S \ T) = Cardinality(S) - Cardinality(T)
  BY <1>1, FS_Difference
<1> QED
  BY <1>1, <1>2, FS_CardinalityType

-----------------------------------------------------------------------------
(* An observation.                                                         *)

\* A user who is seen on a day on which he has been seen: nobody else is to
\* be counted.  One who is seen for the first time will be.
LEMMA RecordCounts ==
    ASSUME LastSeenTypeOK, KeptInv, CountedInv, NEW u \in Users, record(u)
    PROVE  CountedInv'
<1>1. /\ now \in Moments /\ Today \in Days /\ Past = 0
      /\ \A d \in Days, v \in Users : pending[d][v] \in Moments /\ persisted[v] \in Moments
                                      /\ flush.batch[d][v] \in Moments
      /\ \A d \in Days : seenOn[d] \in SUBSET Users /\ activeUsers[d] \in Nat
  BY Typed DEF Past
<1>2. /\ \A d \in Days, v \in Users :
            pending'[d][v] = IF d = Today /\ v = u THEN Later(pending[d][v], now)
                             ELSE pending[d][v]
      /\ \A d \in Days : d # Today => pending'[d] = pending[d]
  BY <1>1 DEF record, Today, LastSeenTypeOK, Batch
<1>3. \A d \in Days : seenOn'[d] = IF d = Today THEN seenOn[d] \cup {u} ELSE seenOn[d]
  BY <1>1 DEF record, Today, LastSeenTypeOK
<1>4. UNCHANGED <<now, persisted, activeUsers, flush, Today>>
  BY DEF record, Today
<1>5. pending'[Today][u] # Past /\ Day(pending'[Today][u]) = Today
  <2>1. observed[u] <= now /\ pending[Today][u] <= observed[u] /\ now >= DayLength
    BY <1>1, KeptMeans DEF KeptInv, ClockInv, CountedInv, ObservedInv
  <2>2. pending'[Today][u] = now /\ now >= 1
    BY <1>1, <1>2, <2>1, TimeAssumption DEF Later, Moments, LastSeenTypeOK
  <2> QED
    BY <1>1, <2>2 DEF Today
<1>6. ObservedInv'
  <2>1. Day(persisted[u]) <= Today
    <3>1. persisted[u] <= observed[u] /\ observed[u] <= now
      BY KeptMeans DEF KeptInv, ClockInv
    <3>2. persisted[u] <= now
      BY <1>1, <3>1 DEF Moments, LastSeenTypeOK
    <3>3. persisted[u] \in Moments
      BY <1>1, Typed
    <3> QED
      BY <1>1, <3>2, <3>3, DayOrder DEF Today
  <2>2. \A d \in Days, v \in Users : pending'[d][v] # Past =>
            /\ Day(pending'[d][v]) = d /\ v \in seenOn'[d] /\ Day(persisted[v]) <= d
    <3> SUFFICES ASSUME NEW d \in Days, NEW v \in Users, pending'[d][v] # Past
                 PROVE  /\ Day(pending'[d][v]) = d /\ v \in seenOn'[d]
                        /\ Day(persisted[v]) <= d
      OBVIOUS
    <3>1. CASE d = Today /\ v = u
      BY <1>3, <1>5, <2>1, <3>1
    <3>2. CASE ~(d = Today /\ v = u)
      <4>1. pending'[d][v] = pending[d][v]
        BY <1>2, <3>2
      <4>2. Day(pending[d][v]) = d /\ v \in seenOn[d] /\ Day(persisted[v]) <= d
        BY <4>1 DEF CountedInv, ObservedInv
      <4> QED
        BY <1>3, <4>1, <4>2
    <3> QED
      BY <3>1, <3>2
  <2>3. \A v \in Users : persisted[v] # Past => v \in seenOn'[Day(persisted[v])]
    BY <1>3, Typed DEF CountedInv, ObservedInv
  <2>4. \A d \in Days : d > Today => seenOn'[d] = {}
    <3>1. \A d \in Days : d > Today => seenOn[d] = {} /\ d # Today
      BY <1>1 DEF CountedInv, ObservedInv, Days
    <3> QED
      BY <1>3, <3>1
  <2> QED
    BY <1>4, <2>2, <2>3, <2>4 DEF CountedInv, ObservedInv
<1>7. TodayInv'
  BY <1>1, <1>2, <1>3, <1>4, <1>5 DEF CountedInv, TodayInv
<1>8. SnapshotInv'
  <2>1. SUFFICES ASSUME flush.pc # "idle"
                 PROVE  \A d, e \in Days :
                            Holds(flush.batch, d) /\ e < d => pending'[e] = flush.batch[e]
    BY <1>4 DEF CountedInv, SnapshotInv
  <2>2. SUFFICES ASSUME NEW d \in Days, NEW e \in Days, Holds(flush.batch, d), e < d
                 PROVE  pending'[e] = flush.batch[e]
    OBVIOUS
  <2>3. PICK v \in Users : flush.batch[d][v] # Past
    BY <2>2 DEF Holds, Nothing, LastSeenTypeOK, Batch
  <2>4. pending[d][v] # Past
    BY <1>1, <2>1, <2>3 DEF KeptInv, BatchInv, Moments
  <2>5. d <= Today
    BY <1>1, <2>4 DEF CountedInv, ObservedInv, Days
  <2>6. e # Today
    BY <1>1, <2>2, <2>5 DEF Days
  <2> QED
    BY <1>2, <2>1, <2>2, <2>6 DEF CountedInv, SnapshotInv
<1>9. \A d \in Days : d # Today => Uncounted(d)' = Uncounted(d)
  BY <1>2, <1>4 DEF Uncounted
<1>10. Cardinality(seenOn'[Today]) = activeUsers[Today] + Cardinality(Uncounted(Today)')
  <2>1. Cardinality(seenOn[Today]) = activeUsers[Today] + Cardinality(Uncounted(Today))
    BY <1>1, CountedMeans DEF CountedInv
  <2>2. CASE u \in seenOn[Today]
    <3>1. pending[Today][u] # Past \/ Day(persisted[u]) = Today
      BY <2>2 DEF CountedInv, TodayInv
    <3>2. \A v \in Users : v \in Uncounted(Today)' <=> v \in Uncounted(Today)
      BY <1>1, <1>2, <1>4, <1>5, <3>1 DEF Uncounted
    <3>3. Uncounted(Today)' = Uncounted(Today)
      BY <3>2, <1>4 DEF Uncounted
    <3>4. seenOn'[Today] = seenOn[Today]
      BY <1>1, <1>3, <2>2
    <3> QED
      BY <2>1, <3>3, <3>4
  <2>3. CASE u \notin seenOn[Today]
    <3>1. pending[Today][u] = Past /\ Day(persisted[u]) # Today
      <4>1. pending[Today][u] = Past
        BY <1>1, <2>3 DEF CountedInv, ObservedInv
      <4>2. ASSUME Day(persisted[u]) = Today PROVE persisted[u] # Past
        <5>1. Today >= 1
          BY <1>1, DayOrder DEF CountedInv, ObservedInv, Today
        <5> QED
          BY <4>2, <5>1, DayOrder
      <4> QED
        BY <2>3, <4>1, <4>2 DEF CountedInv, ObservedInv
    <3>2. u \notin Uncounted(Today)
      BY <3>1 DEF Uncounted
    <3>3. \A v \in Users : v \in Uncounted(Today)' <=> v \in Uncounted(Today) \cup {u}
      BY <1>1, <1>2, <1>4, <1>5, <3>1 DEF Uncounted
    <3>4. Uncounted(Today)' = Uncounted(Today) \cup {u}
      BY <3>3, <1>4 DEF Uncounted
    <3>5. Cardinality(Uncounted(Today)') = Cardinality(Uncounted(Today)) + 1
      BY <3>2, <3>4, FinitelyMany, FS_AddElement
    <3>6. seenOn'[Today] = seenOn[Today] \cup {u}
      BY <1>1, <1>3
    <3>7. Cardinality(seenOn'[Today]) = Cardinality(seenOn[Today]) + 1
      BY <1>1, <2>3, <3>6, FinitelyMany, FS_AddElement
    <3>8. Cardinality(Uncounted(Today)) \in Nat /\ activeUsers[Today] \in Nat
      BY <1>1, FinitelyMany
    <3> QED
      BY <2>1, <3>5, <3>7, <3>8
  <2> QED
    BY <2>2, <2>3
<1>11. DaysAreCounted'
  <2>1. \A d \in Days :
            Cardinality(seenOn'[d]) = activeUsers'[d] + Cardinality(Uncounted(d)')
    BY <1>3, <1>4, <1>9, <1>10, CountedMeans DEF CountedInv
  <2> QED
    BY <2>1 DEF DaysAreCounted, Uncounted
<1> QED
  BY <1>6, <1>7, <1>8, <1>11 DEF CountedInv

-----------------------------------------------------------------------------
(* A transaction of a flush.                                               *)

\* What a day's batch holds is of the day, pending, and not of a later day
\* than the rows; nothing is pending for an earlier day.
LEMMA BatchOfDay ==
    ASSUME LastSeenTypeOK, KeptInv, CountedInv, NEW d \in Days,
           flush.pc # "idle", IsFirst(flush.batch, d)
    PROVE  /\ \A u \in Users : flush.batch[d][u] # Past =>
                    /\ Day(flush.batch[d][u]) = d /\ pending[d][u] # Past
                    /\ flush.batch[d][u] <= pending[d][u]
                    /\ u \in seenOn[d] /\ Day(persisted[u]) <= d
           /\ \A e \in Days, u \in Users : e < d => pending[e][u] = Past
           /\ d <= Today
<1>1. \A e \in Days, v \in Users :
        /\ pending[e][v] \in Moments /\ flush.batch[e][v] \in Moments
        /\ flush.batch[e][v] <= pending[e][v]
  BY Typed DEF KeptInv, BatchInv
<1>2. \A u \in Users : flush.batch[d][u] # Past =>
        /\ Day(flush.batch[d][u]) = d /\ pending[d][u] # Past
        /\ flush.batch[d][u] <= pending[d][u]
        /\ u \in seenOn[d] /\ Day(persisted[u]) <= d
  BY <1>1 DEF CountedInv, SnapshotInv, ObservedInv, Moments, Past
<1>3. \A e \in Days, u \in Users : e < d => pending[e][u] = Past
  <2>1. \A e \in Days : e < d => flush.batch[e] = Nothing
    BY DEF IsFirst, Holds, Days
  <2>2. \A e \in Days : e < d => pending[e] = flush.batch[e]
    BY DEF IsFirst, CountedInv, SnapshotInv
  <2> QED
    BY <2>1, <2>2 DEF Nothing
<1>4. d <= Today
  <2>1. PICK v \in Users : flush.batch[d][v] # Past
    BY DEF IsFirst, Holds, Nothing, LastSeenTypeOK, Batch
  <2> QED
    BY <1>2, <2>1, Typed DEF CountedInv, ObservedInv, Days
<1> QED
  BY <1>2, <1>3, <1>4

\* A day that is written counts those who were to be counted and leaves those
\* of other days; the flush may end with it.
LEMMA WriteDayCounts ==
    ASSUME LastSeenTypeOK, KeptInv, CountedInv, NEW d \in Days, WriteDay(d),
           UNCHANGED <<now, pending, seenOn>>
    PROVE  ObservedInv' /\ TodayInv' /\ DaysAreCounted'
<1>1. /\ now \in Moments /\ Today \in Days /\ Past = 0
      /\ \A e \in Days, v \in Users : pending[e][v] \in Moments /\ persisted[v] \in Moments
                                      /\ flush.batch[e][v] \in Moments
                                      /\ Day(persisted[v]) \in Days
      /\ \A e \in Days : seenOn[e] \in SUBSET Users /\ activeUsers[e] \in Nat
  BY Typed DEF Past
<1>2. /\ \A u \in Users : flush.batch[d][u] # Past =>
                    /\ Day(flush.batch[d][u]) = d /\ pending[d][u] # Past
                    /\ u \in seenOn[d] /\ Day(persisted[u]) <= d
      /\ \A e \in Days, u \in Users : e < d => pending[e][u] = Past
      /\ d <= Today
  BY BatchOfDay DEF WriteDay
<1>3. \A u \in Users : persisted'[u] = IF u \in Updated(d) THEN flush.batch[d][u]
                                       ELSE persisted[u]
  BY DEF WriteDay
<1>4. \A u \in Updated(d) : u \in Users /\ flush.batch[d][u] # Past
  BY <1>1 DEF Updated, Moments
<1>5. Today' = Today
  BY DEF Today
<1>6. ObservedInv'
  <2>1. \A e \in Days, u \in Users : pending[e][u] # Past => Day(persisted'[u]) <= e
    <3> SUFFICES ASSUME NEW e \in Days, NEW u \in Users, pending[e][u] # Past
                 PROVE  Day(persisted'[u]) <= e
      OBVIOUS
    <3>1. CASE u \in Updated(d)
      <4>1. persisted'[u] = flush.batch[d][u] /\ Day(flush.batch[d][u]) = d
        BY <1>2, <1>3, <1>4, <3>1
      <4>2. ~(e < d)
        BY <1>2
      <4> QED
        BY <4>1, <4>2 DEF Days
    <3>2. CASE u \notin Updated(d)
      BY <1>3, <3>2 DEF CountedInv, ObservedInv
    <3> QED
      BY <3>1, <3>2
  <2>2. \A u \in Users : persisted'[u] # Past => u \in seenOn[Day(persisted'[u])]
    BY <1>2, <1>3, <1>4 DEF CountedInv, ObservedInv
  <2> QED
    BY <1>5, <2>1, <2>2 DEF CountedInv, ObservedInv
<1>7. TodayInv'
  <2> SUFFICES ASSUME NEW u \in seenOn[Today], pending[Today][u] = Past
               PROVE  Day(persisted'[u]) = Today
    BY <1>5 DEF TodayInv
  <2>1. u \in Users /\ Day(persisted[u]) = Today
    BY <1>1 DEF CountedInv, TodayInv
  <2>2. CASE u \in Updated(d)
    <3>1. persisted'[u] = flush.batch[d][u] /\ Day(flush.batch[d][u]) = d
          /\ Day(persisted[u]) <= d
      BY <1>2, <1>3, <1>4, <2>2, <2>1
    <3> QED
      BY <1>1, <1>2, <2>1, <3>1 DEF Days
  <2>3. CASE u \notin Updated(d)
    BY <1>3, <2>1, <2>3
  <2> QED
    BY <2>2, <2>3
<1>8. \A e \in Days : e # d => Uncounted(e)' = Uncounted(e)
  <2> SUFFICES ASSUME NEW e \in Days, e # d PROVE Uncounted(e)' = Uncounted(e)
    OBVIOUS
  <2>1. ASSUME NEW u \in Users, u \in Updated(d)
        PROVE  u \in Uncounted(e)' <=> u \in Uncounted(e)
    <3>1. persisted'[u] = flush.batch[d][u] /\ Day(flush.batch[d][u]) = d
          /\ Day(persisted[u]) <= d
      BY <1>2, <1>3, <1>4, <2>1
    <3>2. CASE e < d
      BY <1>2, <3>2 DEF Uncounted
    <3>3. CASE e > d
      BY <1>1, <3>1, <3>3 DEF Uncounted, Days
    <3> QED
      BY <3>2, <3>3 DEF Days
  <2>2. ASSUME NEW u \in Users, u \notin Updated(d)
        PROVE  u \in Uncounted(e)' <=> u \in Uncounted(e)
    BY <1>3, <2>2 DEF Uncounted
  <2>3. \A u \in Users : u \in Uncounted(e)' <=> u \in Uncounted(e)
    BY <2>1, <2>2
  <2> QED
    BY <2>3 DEF Uncounted
<1>9. FirstSeen(d) \in SUBSET Uncounted(d)
  BY <1>2, <1>4 DEF FirstSeen, Uncounted
<1>10. Uncounted(d)' = Uncounted(d) \ FirstSeen(d)
  <2>1. \A u \in Users : u \in Uncounted(d)' <=> u \in Uncounted(d) \ FirstSeen(d)
    BY <1>2, <1>3, <1>4 DEF Uncounted, FirstSeen
  <2> QED
    BY <2>1 DEF Uncounted
<1>11. activeUsers' = [activeUsers EXCEPT ![d] = @ + Cardinality(FirstSeen(d))]
  BY DEF WriteDay
<1>12. Cardinality(Uncounted(d)) = Cardinality(FirstSeen(d)) + Cardinality(Uncounted(d)')
  BY <1>9, <1>10, TakenAway, FinitelyMany
<1>13. \A e \in Days :
          Cardinality(seenOn[e]) = activeUsers'[e] + Cardinality(Uncounted(e)')
  <2> SUFFICES ASSUME NEW e \in Days
               PROVE  Cardinality(seenOn[e]) = activeUsers'[e] + Cardinality(Uncounted(e)')
    OBVIOUS
  <2>1. Cardinality(seenOn[e]) = activeUsers[e] + Cardinality(Uncounted(e))
    BY CountedMeans DEF CountedInv
  <2>2. CASE e # d
    BY <1>8, <1>11, <2>1, <2>2 DEF LastSeenTypeOK
  <2>3. CASE e = d
    <3>1. activeUsers'[d] = activeUsers[d] + Cardinality(FirstSeen(d))
      BY <1>11 DEF LastSeenTypeOK
    <3>2. Cardinality(FirstSeen(d)) \in Nat /\ Cardinality(Uncounted(d)') \in Nat
          /\ activeUsers[d] \in Nat
      BY <1>1, <1>9, <1>10, FinitelyMany
    <3> QED
      BY <1>12, <2>1, <2>3, <3>1, <3>2
  <2> QED
    BY <2>2, <2>3
<1>14. DaysAreCounted'
  BY <1>13 DEF DaysAreCounted, Uncounted
<1> QED
  BY <1>6, <1>7, <1>14

\* An acknowledged day: those who are no longer pending are in a row of the day.
LEMMA AcknowledgeCounts ==
    ASSUME LastSeenTypeOK, KeptInv, CountedInv, NEW d \in Days, Acknowledge(d)
    PROVE  CountedInv'
<1>1. /\ now \in Moments /\ Today \in Days /\ Past = 0
      /\ \A e \in Days, v \in Users : pending[e][v] \in Moments /\ persisted[v] \in Moments
                                      /\ flush.batch[e][v] \in Moments
                                      /\ Day(persisted[v]) \in Days
  BY Typed DEF Past
<1>2. flush.pc = "acknowledge" /\ IsFirst(flush.batch, d) /\ flush.batch \in Batch
  BY DEF Acknowledge, LastSeenTypeOK
<1>3. /\ \A u \in Users : flush.batch[d][u] # Past =>
                    Day(flush.batch[d][u]) = d /\ Day(persisted[u]) <= d
      /\ \A u \in Users : flush.batch[d][u] <= persisted[u]
  BY <1>2, BatchOfDay DEF KeptInv, WrittenInv
<1>4. /\ \A e \in Days, u \in Users :
            pending'[e][u] = IF e = d /\ Acknowledged(d, u) THEN Past ELSE pending[e][u]
      /\ \A e \in Days : e # d => pending'[e] = pending[e]
  BY DEF Acknowledge, LastSeenTypeOK, Batch
<1>5. UNCHANGED <<now, persisted, activeUsers, seenOn, Today>>
  BY DEF Acknowledge, Today
<1>6. \A u \in Users : Acknowledged(d, u) /\ pending[d][u] # Past => Day(persisted[u]) = d
  <2> SUFFICES ASSUME NEW u \in Users, Acknowledged(d, u), pending[d][u] # Past
               PROVE  Day(persisted[u]) = d
    OBVIOUS
  <2>1. flush.batch[d][u] # Past
    BY <1>1 DEF Acknowledged, Moments
  <2>2. d <= Day(persisted[u])
    BY <1>1, <1>3, <2>1, DayOrder
  <2> QED
    BY <1>1, <1>3, <2>1, <2>2 DEF Days
<1>7. ObservedInv'
  BY <1>4, <1>5 DEF CountedInv, ObservedInv
<1>8. TodayInv'
  BY <1>1, <1>4, <1>5, <1>6, Typed DEF CountedInv, TodayInv
<1>9. DaysAreCounted'
  <2>1. \A e \in Days, u \in Users : u \in Uncounted(e)' <=> u \in Uncounted(e)
    BY <1>4, <1>5, <1>6 DEF Uncounted
  <2>2. \A e \in Days : Uncounted(e)' = Uncounted(e)
    BY <2>1 DEF Uncounted
  <2>3. \A e \in Days :
          Cardinality(seenOn'[e]) = activeUsers'[e] + Cardinality(Uncounted(e)')
    BY <1>5, <2>2, CountedMeans DEF CountedInv
  <2> QED
    BY <2>3 DEF DaysAreCounted, Uncounted
<1>10. SnapshotInv'
  <2>1. CASE flush' = NoFlush
    BY <2>1 DEF SnapshotInv, NoFlush
  <2>2. CASE flush' = [pc |-> "write", batch |-> Unwritten(d)]
    <3>1. flush'.batch = [flush.batch EXCEPT ![d] = Nothing]
      BY <2>2 DEF Unwritten
    <3>2. \A e \in Days : flush'.batch[e] = IF e = d THEN Nothing ELSE flush.batch[e]
      BY <1>2, <3>1 DEF Batch
    <3>3. \A e \in Days, u \in Users :
            flush'.batch[e][u] # Past => Day(flush'.batch[e][u]) = e
      BY <1>2, <3>2 DEF Nothing, CountedInv, SnapshotInv
    <3>4. ASSUME NEW c \in Days, NEW e \in Days, Holds(flush'.batch, c), e < c
          PROVE  pending'[e] = flush'.batch[e]
      <4>1. c # d /\ Holds(flush.batch, c)
        BY <3>2, <3>4 DEF Holds
      <4>2. pending[e] = flush.batch[e]
        BY <1>2, <3>4, <4>1 DEF CountedInv, SnapshotInv
      <4>3. CASE e # d
        BY <1>4, <3>2, <4>2, <4>3
      <4>4. CASE e = d
        <5>1. \A u \in Users : Acknowledged(d, u)
          BY <1>1, <4>2, <4>4 DEF Acknowledged, Moments
        <5>2. pending'[d] = [u \in Users |-> IF Acknowledged(d, u) THEN Past
                                             ELSE pending[d][u]]
          BY DEF Acknowledge, LastSeenTypeOK, Batch
        <5>3. pending'[d] = Nothing
          BY <5>1, <5>2 DEF Nothing
        <5> QED
          BY <3>2, <4>4, <5>3
      <4> QED
        BY <4>3, <4>4
    <3> QED
      BY <3>3, <3>4 DEF SnapshotInv
  <2> QED
    BY <2>1, <2>2 DEF Acknowledge
<1> QED
  BY <1>7, <1>8, <1>9, <1>10 DEF CountedInv

-----------------------------------------------------------------------------
(* The theorem.                                                            *)

\* Every step keeps the invariant.
LEMMA CountedStep ==
    ASSUME LastSeenTypeOK, KeptInv, CountedInv, [LastSeenNext]_lastSeenVars
    PROVE  CountedInv'
<1>1. CASE Advance
  <2>1. now' \in Moments /\ now' = now + 1 /\ now \in Moments
    BY <1>1, TimeAssumption DEF Advance, LastSeenTypeOK, Moments
  <2>2. Today \in Days /\ Today' \in Days /\ Today <= Today' /\ now' >= DayLength
    BY <2>1, DayOrder, DayType, TimeAssumption
    DEF Today, Moments, CountedInv, ObservedInv
  <2>3. UNCHANGED <<pending, persisted, activeUsers, flush, seenOn>>
    BY <1>1 DEF Advance
  <2>4. ObservedInv'
    BY <2>2, <2>3 DEF CountedInv, ObservedInv, Days
  <2>5. TodayInv'
    <3>1. CASE Today' = Today
      BY <2>3, <3>1 DEF CountedInv, TodayInv
    <3>2. CASE Today' # Today
      <4>1. seenOn[Today'] = {}
        BY <2>2, <3>2 DEF CountedInv, ObservedInv, Days
      <4> QED
        BY <2>3, <4>1 DEF TodayInv
    <3> QED
      BY <3>1, <3>2
  <2>6. SnapshotInv' /\ DaysAreCounted'
    BY <2>3 DEF CountedInv, SnapshotInv, DaysAreCounted
  <2> QED
    BY <2>4, <2>5, <2>6 DEF CountedInv
<1>2. CASE \E u \in Users : record(u)
  BY <1>2, RecordCounts
<1>3. CASE FlushBegins
  <2>1. UNCHANGED <<now, pending, persisted, activeUsers, seenOn, Today>>
        /\ flush'.batch = pending
    BY <1>3 DEF FlushBegins, Today
  <2>2. SnapshotInv'
    BY <2>1 DEF CountedInv, ObservedInv, SnapshotInv
  <2> QED
    BY <2>1, <2>2 DEF CountedInv, ObservedInv, TodayInv, DaysAreCounted
<1>4. CASE \E d \in Days : FlushDay(d)
  <2>1. PICK d \in Days : FlushDay(d)
    BY <1>4
  <2>2. WriteDay(d) /\ flush.pc = "write" /\ flush'.batch = flush.batch
        /\ UNCHANGED <<now, pending, seenOn>>
    BY <2>1 DEF FlushDay, WriteDay, LastSeenTypeOK
  <2>3. SnapshotInv'
    BY <2>2 DEF CountedInv, SnapshotInv
  <2> QED
    BY <2>2, <2>3, WriteDayCounts DEF CountedInv
<1>5. CASE \E d \in Days : Acknowledge(d)
  BY <1>5, AcknowledgeCounts
<1>6. CASE FlushFails
  <2>1. SnapshotInv' /\ UNCHANGED <<now, pending, seenOn, Today>>
    BY <1>6 DEF FlushFails, NoFlush, SnapshotInv, Today
  <2>2. CASE UNCHANGED <<persisted, activeUsers>>
    BY <2>1, <2>2 DEF CountedInv, ObservedInv, TodayInv, DaysAreCounted
  <2>3. CASE \E d \in Days : WriteDay(d)
    BY <2>1, <2>3, WriteDayCounts DEF CountedInv
  <2> QED
    BY <1>6, <2>2, <2>3 DEF FlushFails
<1>7. CASE UNCHANGED lastSeenVars
  <2>1. UNCHANGED <<now, pending, persisted, activeUsers, flush, seenOn, Today>>
    BY <1>7 DEF lastSeenVars, Today
  <2> QED
    BY <2>1 DEF CountedInv, ObservedInv, TodayInv, SnapshotInv, DaysAreCounted
<1> QED
  BY <1>1, <1>2, <1>3, <1>4, <1>5, <1>6, <1>7 DEF LastSeenNext

\* It holds at the start, when nobody has been seen.
LEMMA CountedInit == LastSeenInit => CountedInv
<1> SUFFICES ASSUME LastSeenInit PROVE CountedInv
  OBVIOUS
<1>1. /\ \A d \in Days : seenOn[d] = {} /\ activeUsers[d] = 0
      /\ \A d \in Days, u \in Users : pending[d][u] = Past
      /\ \A u \in Users : persisted[u] = Past
      /\ flush.pc = "idle" /\ now >= DayLength
  BY TimeAssumption DEF LastSeenInit, Nothing, NoPending, NoFlush
<1>2. Today \in Days
  BY LastSeenInitTypes, Typed
<1>3. \A d \in Days : Uncounted(d) = {}
  BY <1>1 DEF Uncounted
<1>4. DaysAreCounted
  BY <1>1, <1>3, CountedMeans, FS_EmptySet
<1> QED
  BY <1>1, <1>2, <1>4 DEF CountedInv, ObservedInv, TodayInv, SnapshotInv

(* Each user who is seen on a day is counted in its rollup once, in        *)
(* whatever order flushes fail, lose their answers and are repeated        *)
(* (flush, flush_day, acknowledge).                                        *)
THEOREM EachUserCountedOnce == LastSeenSpec => []DaysAreCounted
<1>1. LastSeenInit => CountedInv
  BY CountedInit
<1>2. LastSeenTypeOK /\ KeptInv /\ CountedInv /\ [LastSeenNext]_lastSeenVars => CountedInv'
  BY CountedStep
<1>3. CountedInv => DaysAreCounted
  BY DEF CountedInv
<1> QED
  BY <1>1, <1>2, <1>3, KeptInvariant, PTL DEF LastSeenSpec

-----------------------------------------------------------------------------
(* The watch leaves the observations to LastSeen.                          *)

\* The steps of the watch and of the writers.
PresenceNext ==
    \/ Write \/ pair_policy_changed \/ OthersChange
    \/ \E on \in BOOLEAN : replace_presence_watch(on)
    \/ SeeWatch \/ ReceiveChange \/ Tick
    \/ ReadFriendship \/ ReadMembers \/ Observe \/ ReadPolicies \/ Compute
    \/ ReadBlocks("blocking", "blockedBy", "viewer")
    \/ ReadBlocks("blockedBy", "members", "peer")
    \/ LoadFails \/ CheckAgain \/ CheckDone \/ Publish

\* Every step is one of LastSeen or one of these.
LEMMA NextSplits == Next => (LastSeenNext /\ UNCHANGED presenceVars) \/ PresenceNext
BY DEF Next, PresenceNext

\* None of these changes what LastSeen keeps.
LEMMA WatchObservesOnly == PresenceNext => UNCHANGED lastSeenVars
<1> SUFFICES ASSUME PresenceNext PROVE UNCHANGED lastSeenVars
  OBVIOUS
<1> USE DEF Unpublished, Loading
<1>1. CASE Write
  BY <1>1 DEF Write, Commit, block_user, unblock_user, clear_privacy_exceptions,
      update_friend_presence_settings, update_presence_settings, remove_friendship,
      insert_friendship, GroupChanges
<1>2. CASE pair_policy_changed \/ OthersChange \/ \E on \in BOOLEAN : replace_presence_watch(on)
  BY <1>2 DEF pair_policy_changed, OthersChange, replace_presence_watch
<1>3. CASE SeeWatch \/ ReceiveChange \/ Tick
  BY <1>3 DEF SeeWatch, ReceiveChange, Tick
<1>4. CASE \/ ReadFriendship \/ ReadMembers \/ Observe \/ ReadPolicies \/ Compute
           \/ ReadBlocks("blocking", "blockedBy", "viewer")
           \/ ReadBlocks("blockedBy", "members", "peer")
  BY <1>4 DEF ReadFriendship, ReadMembers, Observe, ReadPolicies, Compute, ReadBlocks
<1>5. CASE LoadFails \/ CheckAgain \/ CheckDone \/ Publish
  BY <1>5 DEF LoadFails, CheckAgain, CheckDone, Publish
<1> QED
  BY <1>1, <1>2, <1>3, <1>4, <1>5 DEF PresenceNext

(* Presence implements LastSeen: a load reads the observations while they  *)
(* are flushed and never changes them (load_visible_users).                *)
THEOREM PresenceRefinesLastSeen == Spec => LastSeenSpec
<1>1. PresenceInit => LastSeenInit
  BY DEF PresenceInit
<1>2. [Next]_vars => [LastSeenNext]_lastSeenVars
  BY NextSplits, WatchObservesOnly DEF vars
<1> QED
  BY <1>1, <1>2, PTL DEF Spec, LastSeenSpec

(* No observation is lost while snapshots are loaded and flushes fail      *)
(* (LastSeen::flush, acknowledge).                                         *)
THEOREM ObservationsSurvive == Spec => []ObservationsKept
BY PresenceRefinesLastSeen, NoObservationLost, PTL

-----------------------------------------------------------------------------
(* Types.                                                                  *)

\* The values loads begin with have their types.
LEMMA PresenceEmptyTypes == Absent \in Entry /\ Unread \in Facts /\ Inherited \in [Sides -> Overrides]
BY EmptyTypes DEF Absent, Entry, Levels, Unread, Facts, Inherited, Sides, Overrides, Visibilities

\* What is shown is one of the levels.
LEMMA LevelType == \A f : Level(f) \in Levels
BY DEF Level, Levels

\* Spending keeps a budget.
LEMMA SpendType ==
    ASSUME budget \in Budget, NEW kind \in {"changes", "others", "watches", "failures"},
           Spend(kind)
    PROVE  budget' \in Budget
BY DEF Spend, Budget

\* The channel holds changes.
LEMMA SendType ==
    ASSUME changes \in Seq(BOOLEAN), lagged \in BOOLEAN, NEW b \in BOOLEAN, Send(b)
    PROVE  changes' \in Seq(BOOLEAN) /\ lagged' \in BOOLEAN
<1>1. CASE Len(changes) < Capacity
  BY <1>1 DEF Send
<1>2. CASE ~(Len(changes) < Capacity)
  <2>1. changes # <<>>
    BY <1>2, CapacityAssumption
  <2>2. Tail(changes) \in Seq(BOOLEAN)
    BY <2>1
  <2> QED
    BY <1>2, <2>2 DEF Send
<1> QED
  BY <1>1, <1>2

\* What every write commits.
LEMMA WriteTypes ==
    ASSUME TypeOK, Write
    PROVE  /\ social' \in Social /\ budget' \in Budget
           /\ UNCHANGED <<lastSeenVars, changes, lagged, subscription, runner, facts, result, shown>>
           /\ unannounced' \in Nat /\ excused' \in BOOLEAN
           /\ unannounced' > 0 \/ excused'
<1> USE DEF TypeOK
<1>1. ASSUME NEW new \in Social, Commit(new)
      PROVE  /\ social' \in Social /\ budget' \in Budget
             /\ UNCHANGED <<lastSeenVars, changes, lagged, subscription, runner, facts, result, shown>>
             /\ unannounced' \in Nat /\ unannounced' > 0 /\ excused' \in BOOLEAN
  BY <1>1, SpendType DEF Commit, Reading
<1>2. ASSUME NEW side \in Sides
      PROVE  /\ [social EXCEPT !.blocks = @ \cup {side}] \in Social
             /\ [social EXCEPT !.blocks = @ \ {side}] \in Social
             /\ \A v \in Overrides : [social EXCEPT !.override[side] = v] \in Social
             /\ \A v \in Visibilities : [social EXCEPT !.visibility[side] = v] \in Social
  BY <1>2 DEF Social
<1>3. ASSUME NEW side \in Sides,
             \/ block_user(side) \/ unblock_user(side) \/ clear_privacy_exceptions(side)
             \/ \E v \in Overrides : update_friend_presence_settings(side, v)
             \/ \E v \in Visibilities : update_presence_settings(side, v)
      PROVE  \E new \in Social : Commit(new)
  BY <1>2, <1>3 DEF block_user, unblock_user, clear_privacy_exceptions,
      update_friend_presence_settings, update_presence_settings, Overrides
<1>4. ASSUME remove_friendship \/ insert_friendship
      PROVE  \E new \in Social : Commit(new)
  <2>1. /\ [social EXCEPT !.friends = FALSE, !.override = Inherited] \in Social
        /\ [social EXCEPT !.friends = TRUE] \in Social
    BY PresenceEmptyTypes DEF Social
  <2> QED
    BY <1>4, <2>1 DEF remove_friendship, insert_friendship
<1>5. ASSUME GroupChanges
      PROVE  /\ social' \in Social /\ budget' \in Budget
             /\ UNCHANGED <<lastSeenVars, changes, lagged, subscription, runner, facts, result, shown>>
             /\ excused' /\ excused' \in BOOLEAN /\ unannounced' \in Nat
  <2>1. [social EXCEPT !.shared = ~@] \in Social
    BY DEF Social
  <2> QED
    BY <1>5, <2>1, SpendType DEF GroupChanges, Reading
<1> QED
  BY <1>1, <1>3, <1>4, <1>5 DEF Write

\* The beginning of a load.
LEMMA LoadForTypes ==
    ASSUME NEW g \in Nat, LoadFor(g)
    PROVE  /\ changes' = <<>> /\ ~lagged' /\ ~excused'
           /\ changes' \in Seq(BOOLEAN) /\ lagged' \in BOOLEAN /\ excused' \in BOOLEAN
           /\ runner' = [pc |-> "friendship", generation |-> g]
           /\ runner' \in [pc : LoadSteps \cup {"select", "check", "failed", "send"},
                           generation : Nat]
<1>1. changes' = <<>> /\ lagged' = FALSE /\ excused' = FALSE
      /\ runner' = [pc |-> "friendship", generation |-> g]
  BY DEF LoadFor, take_pending_changes
<1>2. ~lagged' /\ ~excused' /\ lagged' \in BOOLEAN /\ excused' \in BOOLEAN
  BY <1>1, Zenon
<1>3. changes' \in Seq(BOOLEAN)
  BY <1>1
<1>4. runner' \in [pc : LoadSteps \cup {"select", "check", "failed", "send"},
                   generation : Nat]
  BY <1>1 DEF LoadSteps
<1> QED
  BY <1>1, <1>2, <1>3, <1>4, Zenon

\* Every step keeps the types.
LEMMA PresenceTypes == ASSUME TypeOK, [Next]_vars, LastSeenTypeOK' PROVE TypeOK'
<1> USE DEF TypeOK
<1>1. CASE LastSeenNext /\ UNCHANGED presenceVars
  BY <1>1 DEF presenceVars
<1>2. CASE Write
  BY <1>2, WriteTypes
<1>3. CASE pair_policy_changed
  <2>1. changes' \in Seq(BOOLEAN) /\ lagged' \in BOOLEAN
    BY <1>3, SendType, TRUE \in BOOLEAN DEF pair_policy_changed
  <2> QED
    BY <1>3, <2>1 DEF pair_policy_changed
<1>4. CASE OthersChange
  BY <1>4, SendType, SpendType DEF OthersChange
<1>5. ASSUME NEW on \in BOOLEAN, replace_presence_watch(on) PROVE TypeOK'
  BY <1>5, SpendType, PresenceEmptyTypes DEF replace_presence_watch, Unpublished, Budget
<1>6. CASE SeeWatch
  <2>1. subscription.generation \in Nat /\ subscription'.generation = subscription.generation
        /\ subscription' \in [generation : Nat, seen : BOOLEAN]
    BY <1>6 DEF SeeWatch
  <2>2. CASE subscription.generation # 0
    BY <1>6, <2>1, <2>2, LoadForTypes DEF SeeWatch, Unpublished
  <2>3. CASE subscription.generation = 0
    BY <1>6, <2>1, <2>3 DEF SeeWatch, Unpublished
  <2> QED
    BY <2>2, <2>3
<1>7. CASE ReceiveChange
  <2>1. runner.generation \in Nat
    OBVIOUS
  <2>2. CASE lagged \/ Head(changes)
    BY <1>7, <2>1, <2>2, LoadForTypes DEF ReceiveChange, Unpublished
  <2>3. CASE ~(lagged \/ Head(changes))
    <3>1. changes # <<>> /\ changes' = Tail(changes) /\ UNCHANGED <<lagged, runner, excused>>
          /\ UNCHANGED <<Unpublished, budget, subscription, shown>>
      BY <1>7, <2>3, Zenon DEF ReceiveChange
    <3>2. changes' \in Seq(BOOLEAN)
      BY <3>1
    <3> QED
      BY <3>1, <3>2 DEF Unpublished
  <2> QED
    BY <2>2, <2>3
<1>8. CASE Tick \/ CheckAgain
  <2>1. runner.generation \in Nat
    OBVIOUS
  <2> QED
    BY <1>8, <2>1, LoadForTypes DEF Tick, CheckAgain, Unpublished
<1>9. CASE ReadFriendship
  BY <1>9 DEF ReadFriendship, Step, Loading, Facts, Social, LoadSteps
<1>10. CASE ReadBlocks("blocking", "blockedBy", "viewer")
  BY <1>10 DEF ReadBlocks, Step, Loading, Facts, Social, LoadSteps
<1>11. CASE ReadBlocks("blockedBy", "members", "peer")
  BY <1>11 DEF ReadBlocks, Step, Loading, Facts, Social, LoadSteps
<1>12. CASE ReadMembers
  <2>1. [facts EXCEPT !.shared = social.shared] \in Facts
    BY DEF Facts, Social
  <2>2. facts' \in Facts /\ result' \in Entry
    BY <1>12, <2>1, PresenceEmptyTypes DEF ReadMembers
  <2>3. runner' \in [pc : LoadSteps \cup {"select", "check", "failed", "send"},
                     generation : Nat]
    BY <1>12 DEF ReadMembers, Step, LoadSteps
  <2>4. UNCHANGED Loading
    BY <1>12 DEF ReadMembers
  <2> QED
    BY <2>2, <2>3, <2>4 DEF Loading
<1>13. CASE Observe
  BY <1>13 DEF Observe, Step, Loading, Facts, LoadSteps
<1>14. CASE ReadPolicies
  <2>1. persisted[Peer] \in Moments
    BY PeerAssumption DEF LastSeenTypeOK
  <2> QED
    BY <1>14, <2>1 DEF ReadPolicies, Step, Loading, Facts, Social, LoadSteps
<1>15. CASE Compute
  <2>1. result' \in Entry
    BY <1>15, LevelType, EmptyTypes DEF Compute, Entry
  <2> QED
    BY <1>15, <2>1, PresenceEmptyTypes DEF Compute, Step, Loading, LoadSteps
<1>16. CASE LoadFails
  BY <1>16, PresenceEmptyTypes, SpendType DEF LoadFails, LoadSteps
<1>17. CASE CheckDone
  <2>1. changes' \in Seq(BOOLEAN) /\ lagged' = FALSE
    BY <1>17 DEF CheckDone, take_pending_changes
  <2>2. lagged' \in BOOLEAN
    BY <2>1, Zenon
  <2>3. runner' \in [pc : LoadSteps \cup {"select", "check", "failed", "send"},
                     generation : Nat]
    BY <1>17 DEF CheckDone
  <2> QED
    BY <1>17, <2>1, <2>2, <2>3 DEF CheckDone, Unpublished
<1>18. CASE Publish
  BY <1>18, PresenceEmptyTypes DEF Publish, Step, LoadSteps
<1>19. CASE UNCHANGED vars
  BY <1>19 DEF vars, presenceVars
<1> QED
  BY <1>1, <1>2, <1>3, <1>4, <1>5, <1>6, <1>7, <1>8, <1>9, <1>10, <1>11, <1>12, <1>13,
     <1>14, <1>15, <1>16, <1>17, <1>18, <1>19 DEF Next

\* The initial values have their types.
LEMMA PresenceInitTypes == PresenceInit => TypeOK
<1> SUFFICES ASSUME PresenceInit PROVE TypeOK
  OBVIOUS
<1>1. LastSeenTypeOK
  BY LastSeenInitTypes DEF PresenceInit
<1>2. social \in Social /\ budget \in Budget
  BY StartsAssumption DEF PresenceInit
<1>3. unannounced \in Nat /\ changes \in Seq(BOOLEAN)
      /\ subscription \in [generation : Nat, seen : BOOLEAN]
      /\ runner \in [pc : LoadSteps \cup {"select", "check", "failed", "send"},
                     generation : Nat]
  BY DEF PresenceInit
<1>4. lagged \in BOOLEAN /\ excused \in BOOLEAN
  BY Zenon DEF PresenceInit
<1>5. facts \in Facts /\ result \in Entry /\ shown \in Entry
  BY PresenceEmptyTypes DEF PresenceInit
<1> QED
  BY <1>1, <1>2, <1>3, <1>4, <1>5, Zenon DEF TypeOK

(* Every variable has its type (presence.rs, run_presence_watch).          *)
THEOREM PresenceTypeCorrect == Spec => []TypeOK
<1>1. TypeOK /\ [Next]_vars => TypeOK'
  <2>1. [Next]_vars => [LastSeenNext]_lastSeenVars
    BY NextSplits, WatchObservesOnly DEF vars
  <2> QED
    BY <2>1, LastSeenTypes, PresenceTypes DEF TypeOK
<1> QED
  BY <1>1, PresenceInitTypes, PTL DEF Spec

-----------------------------------------------------------------------------
(* What is shown and no longer allowed.                                    *)

\* A change is under way to the runner, or excused.
Coming == unannounced > 0 \/ lagged \/ (\E i \in DOMAIN changes : changes[i]) \/ excused

AfterFriendship == {"blocking", "blockedBy", "members", "observe", "policies", "compute"}
AfterBlocks == {"members", "observe", "policies", "compute"}
AfterMembers == {"observe", "policies", "compute"}

\* While no change is under way, what was read is what is committed.
FriendsInv == runner.pc \in AfterFriendship =>
                facts.friends = social.friends /\ facts.override = social.override
BlocksInv == /\ runner.pc = "blockedBy" => facts.blocks = social.blocks \cap {"viewer"}
             /\ runner.pc \in AfterBlocks => facts.blocks = social.blocks
GroupsInv == runner.pc \in AfterMembers => facts.shared = social.shared
PoliciesInv == runner.pc = "compute" => facts.visibility = social.visibility
ResultInv == runner.pc \in {"check", "send"} => result.level = Level(social)
ShownInv == runner.pc = "select" /\ subscription.seen =>
                (shown.level = "exact" => Level(social) = "exact")

CurrentInv == FriendsInv /\ BlocksInv /\ GroupsInv /\ PoliciesInv /\ ResultInv /\ ShownInv

\* Loads begin with nothing read; the runner serves the watch it has seen, and
\* without a watch nothing is shown.
RunnerInv ==
    /\ runner.pc \in {"select", "friendship", "check", "failed", "send"} => facts = Unread
    /\ runner.pc = "blocking" => facts.blocks = {}
    /\ runner.pc = "failed" => excused
    /\ runner.pc # "select" => runner.generation # 0
    /\ subscription.seen => runner.generation = subscription.generation
    /\ subscription.generation = 0 => shown = Absent

PolicyInv == RunnerInv /\ (~Coming => CurrentInv)

\* The level depends on what the statements read.
LEMMA SameLevel ==
    ASSUME NEW f, NEW g, f.friends = g.friends, f.shared = g.shared, f.blocks = g.blocks,
           f.override = g.override, f.visibility = g.visibility
    PROVE  Level(f) = Level(g)
<1>1. \A side : shares_presence(f, side) = shares_presence(g, side)
  BY DEF shares_presence
<1>2. presence_is_visible(f) <=> presence_is_visible(g)
  BY <1>1 DEF presence_is_visible
<1>3. IsCandidate(f) <=> IsCandidate(g)
  BY DEF IsCandidate
<1> QED
  BY <1>2, <1>3 DEF Level

\* Nothing is shown of a user who is no candidate.
LEMMA NotCandidate == ASSUME NEW f, ~IsCandidate(f) PROVE Level(f) = "absent"
BY DEF Level

\* A change that is announced, or that fell out of the channel, is under way.
LEMMA AnnouncedIsComing ==
    ASSUME changes \in Seq(BOOLEAN), Send(TRUE) PROVE Coming'
<1>1. CASE Len(changes) < Capacity
  <2>1. changes' = Append(changes, TRUE)
    BY <1>1 DEF Send
  <2>2. Len(changes) + 1 \in DOMAIN changes' /\ changes'[Len(changes) + 1] = TRUE
    BY <2>1
  <2>3. \E i \in DOMAIN changes' : changes'[i]
    BY <2>2, Zenon
  <2> QED
    BY <2>3, Zenon DEF Coming
<1>2. CASE ~(Len(changes) < Capacity)
  BY <1>2, Zenon DEF Send, Coming
<1> QED
  BY <1>1, <1>2

\* What is appended to a sequence leaves its elements where they are.
LEMMA AppendKeeps ==
    ASSUME NEW S, NEW s \in Seq(S), NEW e \in S
    PROVE  \A i \in DOMAIN s : i \in DOMAIN Append(s, e) /\ Append(s, e)[i] = s[i]
OBVIOUS

\* Changes of others push nothing out unnoticed.
LEMMA OthersHideNothing ==
    ASSUME changes \in Seq(BOOLEAN), Send(FALSE), ~Coming',
           UNCHANGED <<unannounced, excused>>
    PROVE  ~Coming
<1>1. Len(changes) < Capacity
  BY Zenon DEF Send, Coming
<1>2. changes' = Append(changes, FALSE) /\ lagged' = lagged
  BY <1>1, Zenon DEF Send
<1>3. \A i \in DOMAIN changes : i \in DOMAIN changes' /\ changes'[i] = changes[i]
  <2>1. changes' = Append(changes, FALSE)
    BY <1>2, Zenon
  <2>2. \A i \in DOMAIN changes : /\ i \in DOMAIN Append(changes, FALSE)
                                 /\ Append(changes, FALSE)[i] = changes[i]
    <3>1. FALSE \in BOOLEAN
      OBVIOUS
    <3> QED
      BY <3>1, AppendKeeps, Zenon
  <2> QED
    BY <2>1, <2>2, Zenon
<1> QED
  BY <1>2, <1>3, Zenon DEF Coming

\* A load that begins has read nothing.
LEMMA LoadBegins ==
    ASSUME TypeOK, PolicyInv, runner.pc \in {"select", "check", "failed"},
           NEW g \in Nat \ {0}, LoadFor(g),
           UNCHANGED <<facts, shown, social>>,
           subscription'.generation = subscription.generation,
           subscription'.seen => g = subscription.generation
    PROVE  PolicyInv'
<1>1. runner' = [pc |-> "friendship", generation |-> g]
  BY DEF LoadFor
<1>2. CurrentInv'
  BY <1>1 DEF CurrentInv, FriendsInv, BlocksInv, GroupsInv, PoliciesInv, ResultInv, ShownInv,
      AfterFriendship, AfterBlocks, AfterMembers
<1>3. RunnerInv'
  BY <1>1 DEF PolicyInv, RunnerInv
<1> QED
  BY <1>2, <1>3 DEF PolicyInv

\* The steps that move the runner on by one statement.
LEMMA StatementStep ==
    ASSUME TypeOK, TypeOK', PolicyInv, UNCHANGED Loading,
           runner'.generation = runner.generation,
           runner'.pc # "select", runner'.pc # "failed", runner.pc # "select",
           runner'.pc \in {"select", "friendship", "check", "failed", "send"} => facts' = Unread,
           runner'.pc = "blocking" => facts'.blocks = {},
           ~Coming => (FriendsInv /\ BlocksInv /\ GroupsInv /\ PoliciesInv /\ ResultInv)'
    PROVE  PolicyInv'
<1>1. Coming' <=> Coming
  BY DEF Loading, Coming
<1>2. RunnerInv'
  BY DEF PolicyInv, RunnerInv, Loading
<1>3. ShownInv'
  BY DEF ShownInv
<1> QED
  BY <1>1, <1>2, <1>3 DEF PolicyInv, CurrentInv

\* Every step keeps the invariant.
LEMMA PolicyStep == ASSUME TypeOK, TypeOK', PolicyInv, [Next]_vars PROVE PolicyInv'
<1> USE DEF AfterFriendship, AfterBlocks, AfterMembers
<1>1. CASE UNCHANGED presenceVars
  BY <1>1 DEF presenceVars, PolicyInv, RunnerInv, Coming, CurrentInv, FriendsInv, BlocksInv,
      GroupsInv, PoliciesInv, ResultInv, ShownInv
<1>2. CASE Write
  <2>1. Coming'
    BY <1>2, WriteTypes, Zenon DEF Coming
  <2>2. UNCHANGED <<subscription, runner, facts, shown>>
    BY <1>2, WriteTypes
  <2>3. runner.pc # "failed" \/ excused'
    <3>1. excused => excused'
      BY <1>2 DEF Write, Commit, block_user, unblock_user, clear_privacy_exceptions,
          update_friend_presence_settings, update_presence_settings, remove_friendship,
          insert_friendship, GroupChanges
    <3> QED
      BY <3>1 DEF PolicyInv, RunnerInv
  <2> QED
    BY <2>1, <2>2, <2>3 DEF PolicyInv, RunnerInv
<1>3. CASE pair_policy_changed
  <2>1. Coming'
    BY <1>3, AnnouncedIsComing DEF pair_policy_changed, TypeOK
  <2> QED
    BY <1>3, <2>1 DEF pair_policy_changed, PolicyInv, RunnerInv
<1>4. CASE OthersChange
  <2>1. ~Coming' => ~Coming
    BY <1>4, OthersHideNothing DEF OthersChange, TypeOK
  <2>2. UNCHANGED <<social, subscription, runner, facts, result, shown, excused>>
    BY <1>4 DEF OthersChange
  <2> QED
    BY <2>1, <2>2 DEF PolicyInv, RunnerInv, CurrentInv, FriendsInv, BlocksInv,
        GroupsInv, PoliciesInv, ResultInv, ShownInv
<1>5. ASSUME NEW on \in BOOLEAN, replace_presence_watch(on) PROVE PolicyInv'
  <2>1. /\ UNCHANGED <<social, unannounced, changes, lagged, runner, facts, result, excused>>
        /\ subscription'.seen = FALSE
        /\ subscription'.generation = 0 => shown' = Absent
    BY <1>5 DEF replace_presence_watch, Unpublished, Spend, TypeOK, Budget
  <2>2. ~subscription'.seen
    BY <2>1, Zenon
  <2>3. Coming' <=> Coming
    BY <2>1 DEF Coming
  <2> QED
    BY <2>1, <2>2, <2>3 DEF PolicyInv, RunnerInv, CurrentInv, FriendsInv, BlocksInv,
        GroupsInv, PoliciesInv, ResultInv, ShownInv
<1>6. CASE SeeWatch
  <2>1. /\ runner.pc = "select" /\ UNCHANGED <<social, unannounced, facts, result, shown>>
        /\ subscription'.generation = subscription.generation
        /\ subscription.generation \in Nat
    BY <1>6 DEF SeeWatch, Unpublished, TypeOK
  <2>2. CASE subscription.generation # 0
    <3>1. LoadFor(subscription.generation)
      BY <1>6, <2>2 DEF SeeWatch
    <3> QED
      BY <2>1, <2>2, <3>1, LoadBegins
  <2>3. CASE subscription.generation = 0
    <3>1. /\ runner'.pc = "select" /\ runner'.generation = 0
          /\ UNCHANGED <<changes, lagged, excused>>
      BY <1>6, <2>1, <2>3 DEF SeeWatch, TypeOK
    <3>2. shown' = Absent /\ facts' = Unread
      BY <2>1, <2>3 DEF PolicyInv, RunnerInv
    <3>3. RunnerInv'
      BY <2>1, <2>3, <3>1, <3>2 DEF RunnerInv
    <3>4. CurrentInv'
      BY <3>1, <3>2 DEF CurrentInv, FriendsInv, BlocksInv, GroupsInv, PoliciesInv, ResultInv,
          ShownInv, Absent
    <3> QED
      BY <3>3, <3>4 DEF PolicyInv
  <2> QED
    BY <2>2, <2>3
<1>7. CASE ReceiveChange
  <2>1. /\ runner.pc = "select" /\ runner.generation \in Nat \ {0} /\ changes \in Seq(BOOLEAN)
        /\ UNCHANGED <<social, unannounced, facts, result, shown, subscription>>
    BY <1>7 DEF ReceiveChange, Waits, Unpublished, TypeOK
  <2>2. CASE lagged \/ Head(changes)
    <3>1. LoadFor(runner.generation)
      BY <1>7, <2>2, Zenon DEF ReceiveChange
    <3>2. subscription'.seen => runner.generation = subscription.generation
      BY <2>1 DEF PolicyInv, RunnerInv
    <3> QED
      BY <2>1, <3>1, <3>2, LoadBegins
  <2>3. CASE ~(lagged \/ Head(changes))
    <3>1. changes # <<>> /\ changes' = Tail(changes) /\ UNCHANGED <<lagged, runner, excused>>
      BY <1>7, <2>3, Zenon DEF ReceiveChange
    <3>2. ~changes[1]
      <4>1. Head(changes) = changes[1]
        BY <2>1, <3>1
      <4> QED
        BY <2>3, <4>1, Zenon
    <3>3. \A i \in DOMAIN changes : i = 1 \/ (i - 1 \in DOMAIN changes' /\ changes'[i - 1] = changes[i])
      BY <2>1, <3>1
    <3>4. ~Coming' => ~Coming
      BY <2>1, <3>1, <3>2, <3>3, Zenon DEF Coming
    <3> QED
      BY <2>1, <3>1, <3>4 DEF PolicyInv, RunnerInv, CurrentInv, FriendsInv, BlocksInv,
          GroupsInv, PoliciesInv, ResultInv, ShownInv
  <2> QED
    BY <2>2, <2>3
<1>8. CASE Tick
  <2>1. /\ runner.pc = "select" /\ runner.generation \in Nat \ {0} /\ LoadFor(runner.generation)
        /\ UNCHANGED <<social, unannounced, facts, result, shown, subscription>>
    BY <1>8 DEF Tick, Waits, Unpublished, TypeOK
  <2>2. subscription'.seen => runner.generation = subscription.generation
    BY <2>1 DEF PolicyInv, RunnerInv
  <2> QED
    BY <2>1, <2>2, LoadBegins
<1>9. CASE CheckAgain
  <2>1. /\ runner.pc \in {"check", "failed"} /\ LoadFor(runner.generation)
        /\ UNCHANGED <<social, unannounced, facts, result, shown, subscription>>
    BY <1>9 DEF CheckAgain, Unpublished
  <2>2. /\ subscription'.seen => runner.generation = subscription.generation
        /\ runner.generation \in Nat \ {0}
    BY <2>1 DEF PolicyInv, RunnerInv, TypeOK
  <2> QED
    BY <2>1, <2>2, LoadBegins
<1>10. CASE ReadFriendship
  <2>1. /\ runner.pc = "friendship" /\ runner'.pc = "blocking"
        /\ runner'.generation = runner.generation /\ UNCHANGED <<Loading, result>>
        /\ facts'.friends = social.friends /\ facts'.override = social.override
        /\ facts'.blocks = facts.blocks
    BY <1>10 DEF ReadFriendship, Step, TypeOK, Facts
  <2>2. facts'.blocks = {}
    BY <2>1 DEF PolicyInv, RunnerInv, Unread
  <2>3. (FriendsInv /\ BlocksInv /\ GroupsInv /\ PoliciesInv /\ ResultInv)'
    BY <2>1 DEF FriendsInv, BlocksInv, GroupsInv, PoliciesInv, ResultInv, Loading
  <2> QED
    BY <2>1, <2>2, <2>3, StatementStep
<1>11. CASE ReadBlocks("blocking", "blockedBy", "viewer")
  <2>1. /\ runner.pc = "blocking" /\ runner'.pc = "blockedBy"
        /\ runner'.generation = runner.generation /\ UNCHANGED <<Loading, result>>
        /\ facts'.friends = facts.friends /\ facts'.override = facts.override
        /\ facts'.blocks = facts.blocks \cup (social.blocks \cap {"viewer"})
    BY <1>11 DEF ReadBlocks, Step, TypeOK, Facts
  <2>2. facts.blocks = {}
    BY <2>1 DEF PolicyInv, RunnerInv
  <2>3. ~Coming => (FriendsInv /\ BlocksInv /\ GroupsInv /\ PoliciesInv /\ ResultInv)'
    BY <2>1, <2>2 DEF PolicyInv, CurrentInv, FriendsInv, BlocksInv, GroupsInv, PoliciesInv,
        ResultInv, Loading
  <2> QED
    BY <2>1, <2>3, StatementStep
<1>12. CASE ReadBlocks("blockedBy", "members", "peer")
  <2>1. /\ runner.pc = "blockedBy" /\ runner'.pc = "members"
        /\ runner'.generation = runner.generation /\ UNCHANGED <<Loading, result>>
        /\ facts'.friends = facts.friends /\ facts'.override = facts.override
        /\ facts'.blocks = facts.blocks \cup (social.blocks \cap {"peer"})
    BY <1>12 DEF ReadBlocks, Step, TypeOK, Facts
  <2>2. social.blocks \subseteq {"viewer", "peer"}
    BY DEF TypeOK, Social, Sides
  <2>3. ~Coming => (FriendsInv /\ BlocksInv /\ GroupsInv /\ PoliciesInv /\ ResultInv)'
    BY <2>1, <2>2 DEF PolicyInv, CurrentInv, FriendsInv, BlocksInv, GroupsInv, PoliciesInv,
        ResultInv, Loading
  <2> QED
    BY <2>1, <2>3, StatementStep
<1>13. CASE ReadMembers
  <2> DEFINE f == [facts EXCEPT !.shared = social.shared]
  <2>1. runner.pc = "members" /\ UNCHANGED Loading /\ result' = Absent
        /\ runner'.generation = runner.generation
    BY <1>13 DEF ReadMembers, Step, TypeOK
  <2>2. f.friends = facts.friends /\ f.shared = social.shared
    BY DEF TypeOK, Facts
  <2>3. CASE IsCandidate(f)
    <3>1. /\ runner'.pc = "observe" /\ facts'.shared = social.shared
          /\ facts'.friends = facts.friends /\ facts'.override = facts.override
          /\ facts'.blocks = facts.blocks
      BY <1>13, <2>3 DEF ReadMembers, Step, TypeOK, Facts
    <3>2. ~Coming => (FriendsInv /\ BlocksInv /\ GroupsInv /\ PoliciesInv /\ ResultInv)'
      BY <2>1, <3>1 DEF PolicyInv, CurrentInv, FriendsInv, BlocksInv, GroupsInv, PoliciesInv,
          ResultInv, Loading
    <3> QED
      BY <2>1, <3>1, <3>2, StatementStep
  <2>4. CASE ~IsCandidate(f)
    <3>1. runner'.pc = "check" /\ facts' = Unread
      BY <1>13, <2>4 DEF ReadMembers, Step, TypeOK
    <3>2. ~Coming => Level(social) = "absent"
      <4>1. ~Coming => facts.friends = social.friends
        BY <2>1 DEF PolicyInv, CurrentInv, FriendsInv
      <4>2. ~Coming => ~IsCandidate(social)
        BY <2>2, <2>4, <4>1 DEF IsCandidate
      <4> QED
        BY <4>2, NotCandidate
    <3>3. ~Coming => (FriendsInv /\ BlocksInv /\ GroupsInv /\ PoliciesInv /\ ResultInv)'
      BY <2>1, <3>1, <3>2 DEF FriendsInv, BlocksInv, GroupsInv, PoliciesInv,
          ResultInv, Loading, Absent
    <3> QED
      BY <2>1, <3>1, <3>3, StatementStep
  <2> QED
    BY <2>3, <2>4
<1>14. CASE Observe
  <2>1. /\ runner.pc = "observe" /\ runner'.pc = "policies" /\ UNCHANGED <<Loading, result>>
        /\ runner'.generation = runner.generation /\ facts'.shared = facts.shared
        /\ facts'.friends = facts.friends /\ facts'.override = facts.override
        /\ facts'.blocks = facts.blocks
    BY <1>14 DEF Observe, Step, TypeOK, Facts
  <2>2. ~Coming => (FriendsInv /\ BlocksInv /\ GroupsInv /\ PoliciesInv /\ ResultInv)'
    BY <2>1 DEF PolicyInv, CurrentInv, FriendsInv, BlocksInv, GroupsInv, PoliciesInv,
        ResultInv, Loading
  <2> QED
    BY <2>1, <2>2, StatementStep
<1>15. CASE ReadPolicies
  <2>1. /\ runner.pc = "policies" /\ runner'.pc = "compute" /\ UNCHANGED <<Loading, result>>
        /\ runner'.generation = runner.generation /\ facts'.shared = facts.shared
        /\ facts'.friends = facts.friends /\ facts'.override = facts.override
        /\ facts'.blocks = facts.blocks /\ facts'.visibility = social.visibility
    BY <1>15 DEF ReadPolicies, Step, TypeOK, Facts
  <2>2. ~Coming => (FriendsInv /\ BlocksInv /\ GroupsInv /\ PoliciesInv /\ ResultInv)'
    BY <2>1 DEF PolicyInv, CurrentInv, FriendsInv, BlocksInv, GroupsInv, PoliciesInv,
        ResultInv, Loading
  <2> QED
    BY <2>1, <2>2, StatementStep
<1>16. CASE Compute
  <2>1. /\ runner.pc = "compute" /\ runner'.pc = "check" /\ UNCHANGED Loading
        /\ runner'.generation = runner.generation /\ facts' = Unread
        /\ result'.level = Level(facts)
    BY <1>16 DEF Compute, Step, TypeOK
  <2>2. ~Coming => Level(facts) = Level(social)
    BY <2>1, SameLevel DEF PolicyInv, CurrentInv, FriendsInv, BlocksInv, GroupsInv, PoliciesInv
  <2>3. ~Coming => (FriendsInv /\ BlocksInv /\ GroupsInv /\ PoliciesInv /\ ResultInv)'
    BY <2>1, <2>2 DEF FriendsInv, BlocksInv, GroupsInv, PoliciesInv, ResultInv, Loading
  <2> QED
    BY <2>1, <2>3, StatementStep
<1>17. CASE LoadFails
  <2>1. runner.pc # "select" /\ runner'.pc = "failed" /\ runner'.generation = runner.generation
        /\ facts' = Unread /\ UNCHANGED <<subscription, shown>>
    BY <1>17 DEF LoadFails, LoadSteps, TypeOK
  <2>2. excused'
    BY <1>17, Zenon DEF LoadFails
  <2> QED
    BY <2>1, <2>2 DEF PolicyInv, RunnerInv, Coming
<1>18. CASE CheckDone
  <2>1. /\ runner.pc \in {"check", "failed"} /\ runner'.generation = runner.generation
        /\ runner'.pc = IF runner.pc = "check" THEN "send" ELSE "select"
        /\ UNCHANGED <<social, unannounced, facts, result, shown, subscription, excused>>
        /\ changes \in Seq(BOOLEAN)
    BY <1>18 DEF CheckDone, Unpublished, TypeOK
  <2>2. ~lagged /\ ~ \E i \in DOMAIN changes : changes[i]
    <3>1. ~lagged /\ TRUE \notin Range(changes)
      BY <1>18 DEF CheckDone, Concerned
    <3>2. \A i \in DOMAIN changes : changes[i] \in BOOLEAN
      BY <2>1
    <3>3. \A i \in DOMAIN changes : changes[i] # TRUE
      BY <3>1, Zenon DEF Range
    <3> QED
      BY <3>1, <3>2, <3>3, Zenon
  <2>3. ~Coming' => ~Coming
    BY <2>1, <2>2 DEF Coming
  <2>4. runner'.pc = "select" => Coming'
    BY <2>1 DEF PolicyInv, RunnerInv, Coming
  <2>5. RunnerInv'
    BY <2>1 DEF PolicyInv, RunnerInv
  <2>6. ~Coming' => CurrentInv'
    BY <2>1, <2>3, <2>4 DEF PolicyInv, CurrentInv, FriendsInv, BlocksInv, GroupsInv,
        PoliciesInv, ResultInv, ShownInv
  <2> QED
    BY <2>5, <2>6 DEF PolicyInv
<1>19. CASE Publish
  <2>1. /\ runner.pc = "send" /\ runner'.pc = "select" /\ runner'.generation = runner.generation
        /\ UNCHANGED <<social, unannounced, changes, lagged, facts, subscription, excused>>
        /\ shown' = IF runner.generation = subscription.generation THEN result ELSE shown
    BY <1>19 DEF Publish, Step, TypeOK
  <2>2. Coming' <=> Coming
    BY <2>1 DEF Coming
  <2>3. RunnerInv'
    BY <2>1 DEF PolicyInv, RunnerInv
  <2>4. ~Coming => ShownInv'
    BY <2>1 DEF PolicyInv, RunnerInv, CurrentInv, ResultInv, ShownInv
  <2>5. (FriendsInv /\ BlocksInv /\ GroupsInv /\ PoliciesInv /\ ResultInv)'
    BY <2>1 DEF FriendsInv, BlocksInv, GroupsInv, PoliciesInv, ResultInv
  <2> QED
    BY <2>2, <2>3, <2>4, <2>5 DEF PolicyInv, CurrentInv
<1>20. CASE UNCHANGED vars
  BY <1>1, <1>20 DEF vars
<1> QED
  BY <1>1, <1>2, <1>3, <1>4, <1>5, <1>6, <1>7, <1>8, <1>9, <1>10, <1>11, <1>12, <1>13,
     <1>14, <1>15, <1>16, <1>17, <1>18, <1>19, <1>20 DEF Next

\* It holds at the start.
LEMMA PolicyInit == PresenceInit => PolicyInv
BY DEF PresenceInit, PolicyInv, RunnerInv, CurrentInv, FriendsInv, BlocksInv, GroupsInv,
    PoliciesInv, ResultInv, ShownInv, Absent, AfterFriendship, AfterBlocks, AfterMembers

\* The invariant of the specification.
THEOREM PolicyInvariant == Spec => []PolicyInv
<1>1. TypeOK /\ TypeOK' /\ PolicyInv /\ [Next]_vars => PolicyInv'
  BY PolicyStep
<1> QED
  BY <1>1, PolicyInit, PresenceTypeCorrect, PTL DEF Spec

(* Whatever the client is shown and may not see any more is going to be    *)
(* replaced, for a channel of any capacity and any number of changes       *)
(* (snapshot_after_pending_changes, take_pending_changes).                 *)
THEOREM HiddenIsAlwaysScheduled == Spec => []HiddenIsScheduled
<1>1. PolicyInv => HiddenIsScheduled
  BY DEF PolicyInv, Coming, CurrentInv, ShownInv, HiddenIsScheduled, Scheduled
<1> QED
  BY <1>1, PolicyInvariant, PTL

-----------------------------------------------------------------------------
(* The time that is shown.                                                 *)

\* Rows and newest observations only grow.
LEMMA ObservationsGrow ==
    ASSUME LastSeenTypeOK, KeptInv, [LastSeenNext]_lastSeenVars
    PROVE  \A u \in Users : persisted'[u] >= persisted[u] /\ observed'[u] >= observed[u]
<1> SUFFICES ASSUME NEW u \in Users
             PROVE  persisted'[u] >= persisted[u] /\ observed'[u] >= observed[u]
  OBVIOUS
<1>1. /\ persisted[u] \in Moments /\ observed[u] \in Moments /\ now \in Moments
      /\ observed[u] <= now
  BY DEF LastSeenTypeOK, KeptInv, ClockInv
<1>2. CASE UNCHANGED <<persisted, observed>>
  BY <1>1, <1>2 DEF Moments
<1>3. ASSUME NEW d \in Days, WriteDay(d), UNCHANGED observed
      PROVE  persisted'[u] >= persisted[u] /\ observed'[u] >= observed[u]
  <2>1. persisted'[u] = Later(persisted[u], flush.batch[d][u])
    BY <1>3, WriteDayRows
  <2>2. flush.batch[d][u] \in Moments
    BY DEF LastSeenTypeOK, Batch
  <2> QED
    BY <1>1, <1>3, <2>1, <2>2 DEF Moments, Later
<1>4. ASSUME NEW v \in Users, record(v)
      PROVE  persisted'[u] >= persisted[u] /\ observed'[u] >= observed[u]
  BY <1>1, <1>4 DEF record, LastSeenTypeOK, Moments
<1> QED
  BY <1>2, <1>3, <1>4 DEF LastSeenNext, Advance, FlushBegins, FlushDay, Acknowledge, FlushFails,
      lastSeenVars

\* Nothing shown, or about to be, is newer than the newest observation; what a
\* load has read, or still has to read, is no older than what is shown.
BoundInv ==
    /\ shown.at <= observed[Peer] /\ result.at <= observed[Peer]
    /\ facts.early <= observed[Peer] /\ facts.stored <= observed[Peer]
ForwardInv ==
    /\ runner.pc = "policies" => facts.early >= shown.at \/ persisted[Peer] >= shown.at
    /\ runner.pc = "compute" => facts.early >= shown.at \/ facts.stored >= shown.at
    /\ runner.pc \in {"check", "send"} /\ result.level = "exact" => result.at >= shown.at
TimeInv == BoundInv /\ ForwardInv

\* The moments of the peer are numbers.
LEMMA PeerMoments ==
    ASSUME TypeOK
    PROVE  /\ observed[Peer] \in Nat /\ persisted[Peer] \in Nat /\ shown.at \in Nat
           /\ result.at \in Nat /\ facts.early \in Nat /\ facts.stored \in Nat
           /\ \A d \in Days : pending[d][Peer] \in Nat
BY PeerAssumption DEF TypeOK, LastSeenTypeOK, Batch, Moments, Entry, Facts

\* What the newest observation of the peer is.
LEMMA PeerObserved ==
    ASSUME TypeOK, KeptInv
    PROVE  /\ persisted[Peer] <= observed[Peer]
           /\ \A d \in Days : pending[d][Peer] <= observed[Peer]
           /\ persisted[Peer] = observed[Peer] \/ \E d \in Days : pending[d][Peer] = observed[Peer]
BY KeptMeans, PeerAssumption DEF TypeOK, KeptInv

\* The steps that leave the times alone, or forget them.
LEMMA TimeKept ==
    ASSUME TypeOK, TypeOK', TimeInv, UNCHANGED <<lastSeenVars, result>>,
           shown' = shown \/ shown' = Absent,
           (facts'.early = facts.early /\ facts'.stored = facts.stored) \/ facts' = Unread,
           runner'.pc \in {"policies", "compute", "check", "send"} =>
              /\ facts' = facts
              /\ runner'.pc = runner.pc \/ (runner.pc = "check" /\ runner'.pc = "send")
    PROVE  TimeInv'
<1>1. UNCHANGED <<observed, persisted>>
  BY DEF lastSeenVars
<1> QED
  BY <1>1, PeerMoments DEF TimeInv, BoundInv, ForwardInv, Absent, Unread, Past

\* Every step keeps the invariant.
LEMMA TimeStep == ASSUME TypeOK, TypeOK', KeptInv, TimeInv, [Next]_vars PROVE TimeInv'
<1>1. CASE LastSeenNext /\ UNCHANGED presenceVars
  <2>1. persisted'[Peer] >= persisted[Peer] /\ observed'[Peer] >= observed[Peer]
    BY <1>1, ObservationsGrow, PeerAssumption DEF TypeOK
  <2>2. observed'[Peer] \in Nat /\ persisted'[Peer] \in Nat
    BY PeerAssumption DEF TypeOK, LastSeenTypeOK, Moments
  <2> QED
    BY <1>1, <2>1, <2>2, PeerMoments DEF presenceVars, TimeInv, BoundInv, ForwardInv
<1>2. CASE Write
  BY <1>2, WriteTypes, TimeKept
<1>3. CASE pair_policy_changed \/ OthersChange
  BY <1>3, TimeKept DEF pair_policy_changed, OthersChange
<1>4. ASSUME NEW on \in BOOLEAN, replace_presence_watch(on) PROVE TimeInv'
  BY <1>4, TimeKept DEF replace_presence_watch, Unpublished
<1>5. ASSUME NEW g, LoadFor(g), UNCHANGED <<Unpublished, shown>> PROVE TimeInv'
  <2>1. runner'.pc = "friendship"
    BY <1>5 DEF LoadFor
  <2> QED
    BY <1>5, <2>1, TimeKept DEF Unpublished
<1>6. CASE SeeWatch
  <2>1. UNCHANGED <<Unpublished, shown>> /\ runner.pc = "select"
    BY <1>6 DEF SeeWatch
  <2>2. LoadFor(subscription.generation) \/ runner' = [runner EXCEPT !.generation = 0]
    BY <1>6 DEF SeeWatch
  <2>3. CASE runner' = [runner EXCEPT !.generation = 0]
    <3>1. runner'.pc = "select"
      BY <2>1, <2>3 DEF TypeOK
    <3> QED
      BY <2>1, <3>1, TimeKept DEF Unpublished
  <2> QED
    BY <1>5, <2>1, <2>2, <2>3
<1>7. CASE ReceiveChange
  <2>1. UNCHANGED <<Unpublished, shown>> /\ runner.pc = "select"
    BY <1>7 DEF ReceiveChange, Waits
  <2>2. LoadFor(runner.generation) \/ runner' = runner
    BY <1>7, Zenon DEF ReceiveChange
  <2>3. CASE runner' = runner
    BY <2>1, <2>3, TimeKept DEF Unpublished
  <2> QED
    BY <1>5, <2>1, <2>2, <2>3
<1>8. CASE Tick \/ CheckAgain
  <2>1. UNCHANGED <<Unpublished, shown>> /\ LoadFor(runner.generation)
    BY <1>8 DEF Tick, CheckAgain
  <2> QED
    BY <1>5, <2>1
<1>9. CASE ReadFriendship
  <2>1. /\ runner'.pc = "blocking" /\ UNCHANGED <<Loading, result>>
        /\ facts'.early = facts.early /\ facts'.stored = facts.stored
    BY <1>9 DEF ReadFriendship, Step, TypeOK, Facts
  <2> QED
    BY <2>1, TimeKept DEF Loading
<1>10. ASSUME NEW from, NEW to \in {"blockedBy", "members"}, NEW side, ReadBlocks(from, to, side)
       PROVE  TimeInv'
  <2>1. /\ runner'.pc = to /\ UNCHANGED <<Loading, result>>
        /\ facts'.early = facts.early /\ facts'.stored = facts.stored
    BY <1>10 DEF ReadBlocks, Step, TypeOK, Facts
  <2> QED
    BY <2>1, TimeKept DEF Loading
<1>11. CASE ReadMembers
  <2>1. /\ UNCHANGED Loading /\ result' = Absent
        /\ \/ facts'.early = facts.early /\ facts'.stored = facts.stored
           \/ facts' = Unread
        /\ runner'.pc \in {"observe", "check"}
    BY <1>11 DEF ReadMembers, Step, TypeOK, Facts
  <2> QED
    BY <2>1, PeerMoments DEF Loading, lastSeenVars, TimeInv, BoundInv, ForwardInv, Absent,
        Unread, Past
<1>12. CASE Observe
  <2>1. PICK t \in Moments : IsObserved(t) /\ facts' = [facts EXCEPT !.early = t]
    BY <1>12 DEF Observe
  <2>2. /\ runner'.pc = "policies" /\ UNCHANGED <<Loading, result>>
        /\ facts'.early = t /\ facts'.stored = facts.stored
    BY <1>12, <2>1 DEF Observe, Step, TypeOK, Facts
  <2>3. /\ t \in Nat /\ \A d \in Days : t >= pending[d][Peer]
        /\ t = 0 \/ \E d \in Days : t = pending[d][Peer]
    BY <2>1 DEF IsObserved, IsLatest, Past, Moments
  <2>4. t <= observed[Peer] /\ (t >= shown.at \/ persisted[Peer] >= shown.at)
    <3>1. t <= observed[Peer]
      BY <2>3, PeerMoments, PeerObserved
    <3>2. t >= observed[Peer] \/ persisted[Peer] = observed[Peer]
      BY <2>3, PeerMoments, PeerObserved
    <3> QED
      BY <2>3, <3>1, <3>2, PeerMoments DEF TimeInv, BoundInv
  <2> QED
    BY <2>2, <2>4, PeerMoments DEF Loading, lastSeenVars, TimeInv, BoundInv, ForwardInv
<1>13. CASE ReadPolicies
  <2>1. /\ runner.pc = "policies" /\ runner'.pc = "compute" /\ UNCHANGED <<Loading, result>>
        /\ facts'.early = facts.early /\ facts'.stored = persisted[Peer]
    BY <1>13 DEF ReadPolicies, Step, TypeOK, Facts
  <2> QED
    BY <2>1, PeerMoments, PeerObserved DEF Loading, lastSeenVars, TimeInv, BoundInv, ForwardInv
<1>14. CASE Compute
  <2>1. PICK t \in Moments :
            /\ IsLatest(Peer, Later(facts.stored, facts.early), t)
            /\ result' = [level |-> Level(facts), at |-> IF Level(facts) = "exact" THEN t ELSE Past]
    BY <1>14 DEF Compute
  <2>2. /\ runner.pc = "compute" /\ runner'.pc = "check" /\ UNCHANGED Loading /\ facts' = Unread
        /\ result'.level = "exact" => result'.at = t
        /\ result'.at = t \/ result'.at = 0
    BY <1>14, <2>1 DEF Compute, Step, TypeOK, Past
  <2>3. /\ t \in Nat /\ t >= Later(facts.stored, facts.early)
        /\ t = Later(facts.stored, facts.early) \/ \E d \in Days : t = pending[d][Peer]
    BY <2>1 DEF IsLatest, Moments
  <2>4. t >= facts.stored /\ t >= facts.early
    BY <2>3, PeerMoments DEF Later
  <2>5. t <= observed[Peer]
    BY <2>3, PeerMoments, PeerObserved DEF Later, TimeInv, BoundInv
  <2>6. t >= shown.at
    BY <2>2, <2>3, <2>4, PeerMoments DEF TimeInv, ForwardInv
  <2> QED
    BY <2>2, <2>3, <2>5, <2>6, PeerMoments DEF Loading, lastSeenVars, TimeInv, BoundInv,
        ForwardInv, Unread, Past
<1>15. CASE LoadFails
  <2>1. runner'.pc = "failed" /\ facts' = Unread /\ UNCHANGED <<lastSeenVars, result, shown>>
    BY <1>15 DEF LoadFails, LoadSteps, TypeOK
  <2> QED
    BY <2>1, TimeKept
<1>16. CASE CheckDone
  <2>1. /\ runner'.pc = IF runner.pc = "check" THEN "send" ELSE "select"
        /\ UNCHANGED <<Unpublished, shown>>
    BY <1>16 DEF CheckDone, TypeOK
  <2> QED
    BY <2>1, TimeKept DEF Unpublished
<1>17. CASE Publish
  <2>1. /\ runner'.pc = "select" /\ UNCHANGED <<lastSeenVars, facts>> /\ result' = Absent
        /\ shown' = result \/ shown' = shown
    BY <1>17 DEF Publish, Step, TypeOK
  <2> QED
    BY <2>1, PeerMoments DEF lastSeenVars, TimeInv, BoundInv, ForwardInv, Absent, Past
<1>18. CASE UNCHANGED vars
  BY <1>18 DEF vars, presenceVars, lastSeenVars, TimeInv, BoundInv, ForwardInv
<1> QED
  BY <1>1, <1>2, <1>3, <1>4, <1>6, <1>7, <1>8, <1>9, <1>10, <1>11, <1>12, <1>13, <1>14,
     <1>15, <1>16, <1>17, <1>18 DEF Next

\* It holds at the start.
LEMMA TimeInit == PresenceInit => TimeInv
<1> SUFFICES ASSUME PresenceInit PROVE TimeInv
  OBVIOUS
<1>1. observed[Peer] = 0
  BY PeerAssumption DEF PresenceInit, LastSeenInit, Nothing, Past
<1> QED
  BY <1>1 DEF PresenceInit, TimeInv, BoundInv, ForwardInv, Absent, Unread, Past

\* A publication never brings an older time.
LEMMA TimeForward ==
    ASSUME TypeOK, TimeInv, [Next]_vars, shown.level = "exact", shown'.level = "exact"
    PROVE  shown'.at >= shown.at
<1>1. CASE shown' = shown
  BY <1>1, PeerMoments
<1>2. CASE shown' # shown
  <2>1. Publish
    <3>1. ~ \E on \in BOOLEAN : replace_presence_watch(on)
      BY <1>2 DEF replace_presence_watch, Absent
    <3>2. ~Write
      BY <1>2, WriteTypes
    <3> QED
      BY <1>2, <3>1, <3>2 DEF Next, vars, presenceVars, pair_policy_changed, OthersChange,
          SeeWatch, ReceiveChange, Tick, ReadFriendship, ReadMembers, Observe, ReadPolicies,
          Compute, ReadBlocks, LoadFails, CheckAgain, CheckDone, Loading, Unpublished
  <2> QED
    BY <1>2, <2>1 DEF Publish, Step, TimeInv, ForwardInv
<1> QED
  BY <1>1, <1>2

(* The time a client is shown never goes back, for any number of flushes,  *)
(* failures, and loads between them (load_visible_users, flush).           *)
THEOREM ShownTimeAdvances == Spec => SeenNeverGoesBack
<1>1. Spec => [](TypeOK /\ KeptInv)
  BY PresenceTypeCorrect, PresenceRefinesLastSeen, KeptInvariant, PTL
<1>2. TypeOK /\ TypeOK' /\ KeptInv /\ TimeInv /\ [Next]_vars => TimeInv'
  BY TimeStep
<1>3. TypeOK /\ TimeInv /\ [Next]_vars =>
        [shown.level = "exact" /\ shown'.level = "exact" => shown'.at >= shown.at]_vars
  BY TimeForward
<1> QED
  BY <1>1, <1>2, <1>3, TimeInit, PTL DEF Spec, SeenNeverGoesBack
=============================================================================
