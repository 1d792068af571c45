------------------------ MODULE MessageDeliveryProofs ------------------------
(***************************************************************************)
(* Theorems about MessageDelivery, for every set of messages, every size   *)
(* of the channel and limit of the refill, and every number of             *)
(* disturbances.                                                           *)
(*                                                                         *)
(* The outbox: a create that was sent never changes, a message that is     *)
(* confirmed stays so and creates no more, and only Pump gives the slot of *)
(* the conversation to a message.  So every create under way or late is    *)
(* the item's, and rows hold it as long as an edit cannot have run.  The   *)
(* worker: while it has no job, what is scheduled is in the channel, so    *)
(* that whoever finds a message scheduled, or the channel full, leaves it  *)
(* a job to take and with it another refill.                               *)
(***************************************************************************)
EXTENDS MessageDelivery, FiniteSetTheorems, SequenceTheorems,
        WellFoundedInduction, TLAPS

-----------------------------------------------------------------------------
(* The invariant.                                                          *)

Revisions == Nat \cup {None}
Answers == {"none", "sent", "ok", "gone", "refused", "lost"}

ItemType ==
    [stage : {"unused", "pending", "removed"}, uploaded : BOOLEAN, intent : Nat,
     ready : Revisions, create : Revisions, patch : Revisions,
     acknowledged : Revisions, confirmed : BOOLEAN, published : BOOLEAN,
     cancelled : BOOLEAN, deleted : BOOLEAN, failed : BOOLEAN,
     retryable : BOOLEAN, timer : BOOLEAN,
     operation : {"none", "prepare", "create", "edit"}, inflight : Revisions,
     answer : Answers, deletion : Answers, checking : Answers]

\* What is under way of an item: only a create of what was frozen before the
\* item is confirmed, only edits begin after it, deletions of what is recalled.
Underways(t) ==
    /\ t.stage = "unused" => t.create = None
    /\ t.operation \notin {"create", "edit"} => t.inflight = None /\ t.answer = "none"
    /\ t.operation = "create" => t.inflight = t.create /\ t.create # None
    /\ t.operation = "edit" => t.confirmed
    /\ t.confirmed => t.create # None
    /\ t.deletion # "none" => t.cancelled

\* A create under way has not failed.
Unfailed(t) ==
    IsPending(t) /\ t.failed /\ t.inflight # None => t.confirmed \/ t.cancelled

ItemOK(t) == t \in ItemType /\ Underways(t) /\ Unfailed(t)

InTurn(all) ==
    \A i, j \in Items : HoldsSlot(all[i]) /\ HoldsSlot(all[j]) => i = j

OutboxOK(all) ==
    /\ all \in [Items -> ItemType]
    /\ \A i \in Items : ItemOK(all[i])
    /\ InTurn(all)

RowType ==
    [status : {"absent", "pending", "none", "done", "failed"}, content : Revisions,
     published : BOOLEAN, attached : BOOLEAN, deleted : BOOLEAN]

\* No create of the item begins any more.
Settled(t) == t.confirmed /\ t.operation # "create"

\* A row holds the create of its item, as long as one can be under way.
RowOK(row, t) ==
    row.status # "absent" =>
        t.create # None /\ (row.content = t.create \/ Settled(t))

\* A message that is there has its attachments.
Whole(i, row) == row.status # "absent" => row.deleted \/ row.attached = Attaches(i)

LateOK(r, t) ==
    /\ r.kind \in {"create", "edit", "delete"}
    /\ r.kind = "create" => r.revision = t.create /\ t.create # None
    /\ r.kind = "edit" => Settled(t) /\ r.revision \in Revisions

StoreOK ==
    /\ rows \in [Messages -> RowType]
    /\ \A i \in Items : RowOK(rows[i], items[i]) /\ Whole(i, rows[i])
    /\ \A r \in late : r.item \in Items /\ LateOK(r, items[r.item])

Stored == {m \in Messages : rows[m].status # "absent"}

WorkerOK ==
    /\ worker \in {"refill", "enqueue", "wait", "process", "publish"}
    /\ channel \in Seq(Messages) /\ backlog \in Seq(Messages)
    /\ scheduled \subseteq Messages /\ unqueued \subseteq Messages
    /\ processing = NoMessage \/ processing \in Messages
    /\ worker \in {"process", "publish"} <=> processing # NoMessage
    /\ worker = "enqueue" => backlog # <<>>
    /\ worker = "publish" => rows[processing].status # "absent"
    /\ \A m \in scheduled :
           m = processing \/ \E k \in 1..Len(channel) : channel[k] = m

EventsOK == \A e \in events : e.kind \in {"created", "updated", "deleted"}

DeliveryInv ==
    /\ online \in BOOLEAN
    /\ EventsOK
    /\ OutboxOK(items)
    /\ StoreOK
    /\ IsFiniteSet(Stored)
    /\ WorkerOK
    /\ NothingForgotten

-----------------------------------------------------------------------------
(* How an item may change.                                                 *)

Evolves(t, u) ==
    /\ t.create # None => u.create = t.create
    /\ t.confirmed => u.confirmed
    /\ Settled(t) => Settled(u)

\* A change of one item that does not give it the slot.
Fits(t, u) ==
    ItemOK(u) /\ Evolves(t, u) /\ (HoldsSlot(u) => HoldsSlot(t))

\* Changes of an item one after the other.
LEMMA FitsTrans ==
    \A t, u, v : Fits(t, u) /\ Fits(u, v) => Fits(t, v)
BY DEF Fits, Evolves, Settled

\* An item that stays as it is.
LEMMA FitsSame == \A t : ItemOK(t) => Fits(t, t)
BY DEF Fits, Evolves

\* The deletion that is sent is of a message that was recalled.
LEMMA DeletingFits ==
    ASSUME NEW t, ItemOK(t), NEW on PROVE Fits(t, Deleting(t, on))
BY DEF Deleting, Begun, Fits, Evolves, Settled, ItemOK, ItemType, Answers, Underways,
       Unfailed, IsPending, HoldsSlot, Rests

\* What the clauses about an item speak of.
LEMMA SameClauses ==
    ASSUME NEW t, ItemOK(t), NEW u \in ItemType,
           u.stage = t.stage \/ u.stage = "removed",
           u.create = t.create, u.cancelled = t.cancelled, u.operation = t.operation,
           u.inflight = t.inflight, u.answer = t.answer, u.deletion = t.deletion,
           u.confirmed = t.confirmed \/ (u.confirmed /\ t.create # None),
           u.failed = t.failed \/ ~u.failed \/ t.inflight = None \/ t.cancelled
               \/ t.confirmed,
           u.failed \/ ~t.failed \/ u.confirmed \/ t.cancelled \/ t.inflight = None
    PROVE  Fits(t, u)
BY DEF Fits, Evolves, Settled, ItemOK, Underways, Unfailed, IsPending, HoldsSlot, Rests

\* A recalled message forgets what it would have sent.
LEMMA CompactedFits ==
    ASSUME NEW t, ItemOK(t) PROVE Fits(t, Compacted(t))
<1> DEFINE u == [t EXCEPT !.ready = None, !.patch = None]
<1>1. u \in ItemType
  BY DEF ItemOK, ItemType, Revisions
<1>2. /\ u.stage = t.stage /\ u.create = t.create /\ u.cancelled = t.cancelled
      /\ u.operation = t.operation /\ u.inflight = t.inflight /\ u.answer = t.answer
      /\ u.deletion = t.deletion /\ u.confirmed = t.confirmed /\ u.failed = t.failed
  BY DEF ItemOK, ItemType
<1>3. Fits(t, u)
  <2> HIDE DEF u
  <2> QED
    BY <1>1, <1>2, SameClauses DEF ItemOK
<1> QED
  BY <1>3, FitsSame DEF Compacted

\* A message that leaves the list has nothing under way.
LEMMA RemovedFits ==
    ASSUME NEW t, ItemOK(t) PROVE Fits(t, Removed(t))
<1> DEFINE u == Removed(t)
<1>1. u \in ItemType
  BY DEF Removed, ItemOK, ItemType, Revisions, Answers
<1>2. /\ u.stage = "removed" /\ u.operation = "none" /\ u.inflight = None
      /\ u.answer = "none" /\ u.deletion = "none"
      /\ u.create = t.create /\ u.confirmed = t.confirmed
  BY DEF Removed, ItemOK, ItemType
<1> HIDE DEF u
<1>3. Fits(t, u)
  BY <1>1, <1>2 DEF Fits, Evolves, Settled, ItemOK, Underways, Unfailed, IsPending,
                    HoldsSlot, Rests
<1> QED
  BY <1>3 DEF u

\* An acknowledgement of a create that was sent.
LEMMA AcknowledgedFits ==
    ASSUME NEW t, ItemOK(t), t.create # None, NEW r \in Revisions, NEW p \in BOOLEAN
    PROVE  Fits(t, Acknowledged(t, r, p))
<1> DEFINE u == [t EXCEPT !.confirmed = TRUE, !.acknowledged = r, !.failed = FALSE,
                          !.published = t.published \/ p,
                          !.timer = t.timer /\ t.cancelled]
<1>1. u \in ItemType
  BY DEF ItemOK, ItemType
<1>2. /\ u.stage = t.stage /\ u.create = t.create /\ u.cancelled = t.cancelled
      /\ u.operation = t.operation /\ u.inflight = t.inflight /\ u.answer = t.answer
      /\ u.deletion = t.deletion /\ u.confirmed /\ ~u.failed
  BY DEF ItemOK, ItemType
<1>3. Fits(t, u)
  <2> HIDE DEF u
  <2> QED
    BY <1>1, <1>2, SameClauses
<1> QED
  BY <1>3, FitsSame DEF Acknowledged

Reset(u) == [u EXCEPT !.operation = "none", !.inflight = None, !.answer = "none"]

\* The end of what was under way, whatever became of it.
LEMMA ResetFits ==
    ASSUME NEW t, NEW u, u \in ItemType, Underways(u), Evolves(t, u)
    PROVE  Fits(t, Reset(u))
<1> DEFINE v == Reset(u)
<1>1. v \in ItemType
  BY DEF Reset, ItemType, Revisions, Answers
<1>2. /\ v.operation = "none" /\ v.inflight = None /\ v.answer = "none"
      /\ v.stage = u.stage /\ v.create = u.create /\ v.cancelled = u.cancelled
      /\ v.deletion = u.deletion /\ v.confirmed = u.confirmed
  BY DEF Reset, ItemType
<1> HIDE DEF v
<1>3. Fits(t, v)
  BY <1>1, <1>2 DEF Fits, Evolves, Settled, ItemOK, Underways, Unfailed, IsPending,
                    HoldsSlot, Rests
<1> QED
  BY <1>3 DEF v

\* A failure changes nothing but what is tried again.
LEMMA FailingKeeps ==
    ASSUME NEW t, ItemOK(t), NEW again \in BOOLEAN
    PROVE  LET u == Failing(t, again)
           IN  u \in ItemType /\ Underways(u) /\ Evolves(t, u)
BY DEF Failing, ItemOK, ItemType, Underways, Evolves, Settled

-----------------------------------------------------------------------------
(* The outbox as a whole.                                                  *)

Keeps(all, next) ==
    OutboxOK(next) /\ \A i \in Items : Evolves(all[i], next[i])

\* Changes one after the other.
LEMMA KeepsTrans ==
    ASSUME NEW f, NEW g, NEW h, Keeps(f, g), Keeps(g, h)
    PROVE  Keeps(f, h)
BY DEF Keeps, Evolves, Settled

\* An outbox that stays as it is.
LEMMA KeepsSame == ASSUME NEW f, OutboxOK(f) PROVE Keeps(f, f)
BY DEF Keeps, Evolves

\* Changes of items that do not take the slot.
LEMMA ChangesKeep ==
    ASSUME NEW f, OutboxOK(f), NEW g, DOMAIN g = Items, g = [i \in Items |-> g[i]],
           \A i \in Items : Fits(f[i], g[i])
    PROVE  Keeps(f, g)
<1>1. g \in [Items -> ItemType]
  BY DEF Fits, ItemOK
<1>2. InTurn(g)
  BY DEF OutboxOK, InTurn, Fits
<1> QED
  BY <1>1, <1>2 DEF Keeps, OutboxOK, Fits

\* A change of one item that does not take the slot.
LEMMA ChangeKeeps ==
    ASSUME NEW f, OutboxOK(f), NEW i \in Items, NEW u, Fits(f[i], u)
    PROVE  Keeps(f, [f EXCEPT ![i] = u])
<1> DEFINE g == [f EXCEPT ![i] = u]
<1>1. f \in [Items -> ItemType]
  BY DEF OutboxOK
<1>2. DOMAIN g = Items /\ g = [j \in Items |-> g[j]]
      /\ \A j \in Items : g[j] = IF j = i THEN u ELSE f[j]
  BY <1>1
<1>3. \A j \in Items : Fits(f[j], g[j])
  BY <1>2, FitsSame DEF OutboxOK
<1> HIDE DEF g
<1>4. Keeps(f, g)
  BY <1>2, <1>3, ChangesKeep
<1> QED
  BY <1>4 DEF g

\* A set of items has a first one.
LEMMA FirstIsThere == \A is \in SUBSET Items : is # {} => First(is) \in is
<1> SUFFICES ASSUME NEW is \in SUBSET Items, is # {}
             PROVE  \E i \in is : \A j \in is : i <= j
  BY DEF First
<1> DEFINE R == OpToRel(<, Nat)
<1>1. IsWellFoundedOn(R, Nat)
  BY NatLessThanWellFounded
<1>2. \A x, y \in Nat : x < y => <<x, y>> \in R
  BY Zenon DEF OpToRel
<1>3. is \subseteq Nat
  BY MessagesAssumption, DeliveryAssumption
<1> HIDE DEF R
<1>4. PICK i \in is : \A j \in is : ~(<<j, i>> \in R)
  BY <1>1, <1>3, WFMin, Zenon
<1>5. \A j \in is : ~(j < i)
  BY <1>2, <1>3, <1>4
<1>6. \A j \in is : i <= j
  BY <1>3, <1>5
<1> QED
  BY <1>6

\* An item that is made ready, or begins to prepare, keeps its requests.
LEMMA ReadiedFits ==
    ASSUME NEW t, ItemOK(t) PROVE Fits(t, Readied(t))
<1> DEFINE u == [t EXCEPT !.ready = t.intent]
           v == [t EXCEPT !.operation = "prepare"]
<1>1. u \in ItemType /\ v \in ItemType
  BY DEF ItemOK, ItemType, Revisions
<1>2. /\ u.stage = t.stage /\ u.create = t.create /\ u.cancelled = t.cancelled
      /\ u.operation = t.operation /\ u.inflight = t.inflight /\ u.answer = t.answer
      /\ u.deletion = t.deletion /\ u.confirmed = t.confirmed /\ u.failed = t.failed
  BY DEF ItemOK, ItemType
<1>3. /\ v.stage = t.stage /\ v.create = t.create /\ v.cancelled = t.cancelled
      /\ v.operation = "prepare" /\ v.inflight = t.inflight /\ v.answer = t.answer
      /\ v.deletion = t.deletion /\ v.confirmed = t.confirmed /\ v.failed = t.failed
  BY DEF ItemOK, ItemType
<1> HIDE DEF u, v
<1>4. Fits(t, u)
  BY <1>1, <1>2, SameClauses
<1>5. t.operation = "none" => Fits(t, v)
  BY <1>1, <1>3 DEF Fits, Evolves, Settled, ItemOK, Underways, Unfailed, IsPending,
                    HoldsSlot, Rests
<1>6. Readied(t) \in {t, u} \/ (t.operation = "none" /\ Readied(t) = v)
  BY DEF Readied, u, v
<1> QED
  BY <1>4, <1>5, <1>6, FitsSame

\* Once it is made ready an item that could send is, or is being prepared.
LEMMA ReadyToSend ==
    ASSUME NEW t, ItemOK(t), ~Rests(Readied(t)), NeedsSend(Readied(t)),
           Readied(t).operation = "none"
    PROVE  Submission(Readied(t)) # None
<1> USE DEF ItemOK, ItemType
<1>1. t.intent # None
  BY DEF None
<1>2. CASE Readied(t) = t
  <2>1. Frozen(t) \/ t.ready = t.intent
    BY <1>2 DEF Readied, Rests, NeedsSend, IsPending
  <2> QED
    BY <1>1, <1>2, <2>1 DEF Submission, Frozen
<1>3. CASE Readied(t) = [t EXCEPT !.ready = t.intent]
  BY <1>1, <1>3 DEF Submission, Frozen
<1>4. CASE Readied(t) = [t EXCEPT !.operation = "prepare"]
  BY <1>4
<1> QED
  BY <1>2, <1>3, <1>4 DEF Readied

\* A request that begins: a create of what is frozen from now on, or an edit.
LEMMA SentFits ==
    ASSUME NEW t, ItemOK(t), t.operation = "none", ~Rests(t), Submission(t) # None,
           NEW on \in BOOLEAN
    PROVE  ItemOK(Sent(t, on)) /\ Evolves(t, Sent(t, on))
           /\ (t.confirmed => ~HoldsSlot(Sent(t, on)))
<1> DEFINE u == Sent(t, on)
<1>1. Submission(t) \in Revisions /\ (Frozen(t) => Submission(t) = t.create)
      /\ Begun(on) \in Answers
  BY DEF Submission, ItemOK, ItemType, Begun, Answers
<1> HIDE DEF u
<1>2. CASE t.confirmed
  <2>1. u = [[t EXCEPT !.inflight = Submission(t), !.answer = Begun(on)]
                EXCEPT !.operation = "edit", !.patch = Submission(t)]
    BY <1>2 DEF Sent, u
  <2>2. u \in ItemType
    BY <1>1, <2>1 DEF ItemOK, ItemType
  <2>3. /\ u.stage = t.stage /\ u.create = t.create /\ u.cancelled = t.cancelled
        /\ u.operation = "edit" /\ u.deletion = t.deletion /\ u.confirmed
        /\ u.failed = t.failed
    BY <1>1, <1>2, <2>1 DEF ItemOK, ItemType
  <2>4. ItemOK(u) /\ Evolves(t, u) /\ ~HoldsSlot(u)
    BY <1>2, <2>2, <2>3 DEF Evolves, Settled, ItemOK, Underways, Unfailed, HoldsSlot
  <2> QED
    BY <2>4 DEF u
<1>3. CASE ~t.confirmed
  <2>1. u = [[t EXCEPT !.inflight = Submission(t), !.answer = Begun(on)]
                EXCEPT !.operation = "create", !.create = Submission(t)]
    BY <1>3 DEF Sent, u
  <2>2. u \in ItemType
    BY <1>1, <2>1 DEF ItemOK, ItemType
  <2>3. /\ u.stage = t.stage /\ u.create = Submission(t) /\ u.cancelled = t.cancelled
        /\ u.operation = "create" /\ u.inflight = Submission(t)
        /\ u.deletion = t.deletion /\ u.confirmed = t.confirmed /\ u.failed = t.failed
    BY <1>1, <2>1 DEF ItemOK, ItemType
  <2>4. t.create # None => u.create = t.create
    BY <1>1, <1>3, <2>3 DEF Frozen
  <2>5. ItemOK(u) /\ Evolves(t, u)
    BY <1>3, <2>2, <2>3, <2>4
    DEF Evolves, Settled, ItemOK, Underways, Unfailed, IsPending, Rests
  <2> QED
    BY <1>3, <2>5 DEF u
<1> QED
  BY <1>2, <1>3

\* The slot goes to one item at most, and only when nobody has it.
LEMMA PumpKeeps ==
    ASSUME NEW f, OutboxOK(f), NEW on \in BOOLEAN
    PROVE  Keeps(f, Pump(f, on))
<1> DEFINE g == [i \in Items |-> Readied(f[i])]
           Goes(i) == /\ ~Rests(g[i]) /\ NeedsSend(g[i])
                      /\ g[i].operation = "none"
                      /\ g[i].confirmed \/ (Queues(g[i]) /\ i \in HeadOf(g))
           h == [i \in Items |-> IF Goes(i) THEN Sent(g[i], on) ELSE g[i]]
<1>1. Pump(f, on) = h
  BY DEF Pump
<1>2. \A i \in Items : ItemOK(f[i])
  BY DEF OutboxOK
<1>3. Keeps(f, g)
  <2>1. \A i \in Items : Fits(f[i], g[i])
    BY <1>2, ReadiedFits
  <2>2. DOMAIN g = Items /\ g = [i \in Items |-> g[i]]
    OBVIOUS
  <2> HIDE DEF g
  <2> QED
    BY <2>1, <2>2, ChangesKeep
<1>4. \A i \in Items : ItemOK(g[i])
  BY <1>3 DEF Keeps, OutboxOK
<1>5. \A i \in Items : Goes(i) => Submission(g[i]) # None
  BY <1>2, ReadyToSend
<1> DEFINE sending == {i \in Items : HoldsSlot(g[i])}
<1>6. HeadOf(g) = {First(IF sending # {} THEN sending ELSE {i \in Items : Queues(g[i])})}
  BY DEF HeadOf
<1>7. sending # {} => First(sending) \in sending
  BY FirstIsThere
<1> HIDE DEF g
<1>8. \A i \in Items : /\ ItemOK(h[i]) /\ Evolves(g[i], h[i])
                       /\ HoldsSlot(h[i]) => HoldsSlot(g[i]) \/ (Goes(i) /\ ~g[i].confirmed)
  <2> SUFFICES ASSUME NEW i \in Items
               PROVE  /\ ItemOK(h[i]) /\ Evolves(g[i], h[i])
                      /\ HoldsSlot(h[i]) => HoldsSlot(g[i]) \/ (Goes(i) /\ ~g[i].confirmed)
    OBVIOUS
  <2>1. CASE Goes(i)
    <3>1. h[i] = Sent(g[i], on)
      BY <2>1
    <3>2. g[i].operation = "none" /\ ~Rests(g[i]) /\ Submission(g[i]) # None
      BY <1>5, <2>1
    <3>3. /\ ItemOK(Sent(g[i], on)) /\ Evolves(g[i], Sent(g[i], on))
          /\ g[i].confirmed => ~HoldsSlot(Sent(g[i], on))
      BY <1>4, <3>2, SentFits
    <3> HIDE DEF h
    <3> QED
      BY <2>1, <3>1, <3>3
  <2>2. CASE ~Goes(i)
    <3>1. h[i] = g[i]
      BY <2>2
    <3> HIDE DEF h
    <3> QED
      BY <1>4, <3>1, FitsSame DEF Fits
  <2> QED
    BY <2>1, <2>2
<1>9. h \in [Items -> ItemType]
  <2>1. \A i \in Items : h[i] \in ItemType
    BY <1>8 DEF ItemOK
  <2> QED
    BY <2>1
<1>10. InTurn(h)
  <2>1. \A i \in Items : HoldsSlot(g[i]) => g[i].operation # "none"
    BY <1>4 DEF HoldsSlot, ItemOK, Underways
  <2>2. \A i \in Items : Goes(i) /\ ~g[i].confirmed =>
            sending = {} /\ i \in HeadOf(g)
    BY <1>6, <1>7, <2>1
  <2>3. \A i, j \in Items : i \in HeadOf(g) /\ j \in HeadOf(g) => i = j
    BY <1>6
  <2>4. InTurn(g)
    BY <1>3 DEF Keeps, OutboxOK
  <2>5. \A i \in Items : HoldsSlot(g[i]) => i \in sending
    OBVIOUS
  <2> HIDE DEF h, sending, Goes
  <2> QED
    BY <1>8, <2>2, <2>3, <2>4, <2>5 DEF InTurn
<1>11. Keeps(g, h)
  <2> HIDE DEF h
  <2> QED
    BY <1>8, <1>9, <1>10 DEF Keeps, OutboxOK
<1> HIDE DEF h
<1> QED
  BY <1>1, <1>3, <1>11, KeepsTrans

\* A change of one item and what the pump makes of it.
LEMMA PumpedKeeps ==
    ASSUME NEW f, OutboxOK(f), NEW i \in Items, NEW u, Fits(f[i], u), NEW on \in BOOLEAN
    PROVE  Keeps(f, Pump([f EXCEPT ![i] = u], on))
<1>1. Keeps(f, [f EXCEPT ![i] = u])
  BY ChangeKeeps
<1>2. Keeps([f EXCEPT ![i] = u], Pump([f EXCEPT ![i] = u], on))
  BY <1>1, PumpKeeps DEF Keeps
<1> QED
  BY <1>1, <1>2, KeepsTrans

\* A deletion that is sent after a change.
LEMMA DeletingKeeps ==
    ASSUME NEW f, NEW g, Keeps(f, g), NEW i \in Items, NEW on \in BOOLEAN
    PROVE  Keeps(f, [g EXCEPT ![i] = Deleting(@, on)])
<1>1. OutboxOK(g) /\ g \in [Items -> ItemType] /\ ItemOK(g[i])
  BY DEF Keeps, OutboxOK
<1>2. [g EXCEPT ![i] = Deleting(@, on)] = [g EXCEPT ![i] = Deleting(g[i], on)]
  BY <1>1
<1>3. Keeps(g, [g EXCEPT ![i] = Deleting(g[i], on)])
  BY <1>1, DeletingFits, ChangeKeeps
<1> QED
  BY <1>2, <1>3, KeepsTrans

-----------------------------------------------------------------------------
(* The handlers of the outbox keep it.                                     *)

\* What OutboxOK says of an item.
LEMMA OfItem ==
    ASSUME NEW f, OutboxOK(f), NEW i \in Items
    PROVE  /\ f \in [Items -> ItemType] /\ ItemOK(f[i]) /\ f[i] \in ItemType
           /\ Underways(f[i]) /\ Fits(f[i], f[i])
BY FitsSame DEF OutboxOK, ItemOK

\* An item changed twice.
LEMMA Twice ==
    \A f, i, u, v : [[f EXCEPT ![i] = u] EXCEPT ![i] = v] = [f EXCEPT ![i] = v]
OBVIOUS

\* The id of a message is known.
LEMMA CreatedKeeps ==
    ASSUME NEW f, OutboxOK(f), NEW i \in Items, NEW p \in BOOLEAN, NEW on \in BOOLEAN
    PROVE  Keeps(f, Created(f, i, p, on))
<1>1. CASE ~IsPending(f[i]) \/ f[i].create = None
  BY <1>1, KeepsSame DEF Created
<1>2. CASE ~(~IsPending(f[i]) \/ f[i].create = None)
  <2> DEFINE t == Acknowledged(f[i], f[i].create, p)
  <2>1. f[i].create \in Revisions
    BY OfItem DEF ItemType
  <2>2. Fits(f[i], t)
    BY <1>2, <2>1, OfItem, AcknowledgedFits
  <2>3. Created(f, i, p, on) = Pump([f EXCEPT ![i] = Deleting(t, on)], on)
    BY <1>2 DEF Created
  <2> HIDE DEF t
  <2>4. Fits(f[i], Deleting(t, on))
    BY <2>2, DeletingFits, FitsTrans DEF Fits
  <2> QED
    BY <2>3, <2>4, PumpedKeeps
<1> QED
  BY <1>1, <1>2

\* An operation ends, and what its item is meanwhile is not yet pumped.
LEMMA EndedKeeps ==
    ASSUME NEW f, OutboxOK(f), NEW i \in Items, NEW u, u \in ItemType, Underways(u),
           Evolves(f[i], u), NEW on \in BOOLEAN
    PROVE  Keeps(f, Ended([f EXCEPT ![i] = u], i, on))
<1> DEFINE v == Deleting(Compacted(Reset(u)), on)
<1>1. [f EXCEPT ![i] = u][i] = u
  BY OfItem
<1>2. Ended([f EXCEPT ![i] = u], i, on) = Pump([f EXCEPT ![i] = v], on)
  BY <1>1, Twice DEF Ended, Reset
<1>3. Fits(f[i], Reset(u))
  BY ResetFits
<1>4. Fits(f[i], Compacted(Reset(u)))
  BY <1>3, CompactedFits, FitsTrans DEF Fits
<1>5. Fits(f[i], v)
  BY <1>4, DeletingFits, FitsTrans DEF Fits
<1> HIDE DEF v
<1> QED
  BY <1>2, <1>5, PumpedKeeps

\* An operation ends, and its item is as it was.
LEMMA EndedSameKeeps ==
    ASSUME NEW f, OutboxOK(f), NEW i \in Items, NEW on \in BOOLEAN
    PROVE  Keeps(f, Ended(f, i, on))
<1>1. f = [f EXCEPT ![i] = f[i]]
  BY OfItem
<1>2. f[i] \in ItemType /\ Underways(f[i]) /\ Evolves(f[i], f[i])
  BY OfItem DEF Fits
<1>3. Keeps(f, Ended([f EXCEPT ![i] = f[i]], i, on))
  BY <1>2, EndedKeeps
<1> QED
  BY <1>1, <1>3

\* A message is written: its place was not used.
LEMMA AddedKeeps ==
    ASSUME NEW f, OutboxOK(f), NEW i \in Items, f[i].stage = "unused",
           NEW up \in BOOLEAN, NEW on \in BOOLEAN
    PROVE  Keeps(f, Added(f, i, up, on))
<1> DEFINE u == [Unused EXCEPT !.stage = "pending", !.uploaded = up]
<1>1. u \in ItemType
  BY DEF Unused, ItemType, Revisions, Answers
<1>2. /\ u.create = None /\ ~u.confirmed /\ u.operation = "none" /\ u.inflight = None
      /\ u.answer = "none" /\ u.deletion = "none" /\ u.stage = "pending"
  BY DEF Unused
<1>3. Underways(f[i]) /\ f[i].create = None /\ ~f[i].confirmed
  BY OfItem DEF Underways
<1>4. Added(f, i, up, on) = Pump([f EXCEPT ![i] = u], on)
  BY DEF Added
<1> HIDE DEF u
<1>5. Fits(f[i], u)
  BY <1>1, <1>2, <1>3
  DEF Fits, Evolves, Settled, ItemOK, Underways, Unfailed, HoldsSlot
<1> QED
  BY <1>4, <1>5, PumpedKeeps

\* A message is tried again.
LEMMA RetriedKeeps ==
    ASSUME NEW f, OutboxOK(f), NEW i \in Items, NEW on \in BOOLEAN
    PROVE  Keeps(f, Retried(f, i, on))
<1> DEFINE t == [f[i] EXCEPT !.timer = FALSE, !.retryable = TRUE]
           u == [t EXCEPT !.failed = t.failed /\ ~NeedsSend(t)]
<1>1. f[i] \in ItemType /\ ItemOK(f[i])
  BY OfItem
<1>2. t \in ItemType
  BY <1>1 DEF ItemType
<1>3. /\ t.stage = f[i].stage /\ t.create = f[i].create /\ t.cancelled = f[i].cancelled
      /\ t.operation = f[i].operation /\ t.inflight = f[i].inflight
      /\ t.answer = f[i].answer /\ t.deletion = f[i].deletion
      /\ t.confirmed = f[i].confirmed /\ t.failed = f[i].failed
  BY <1>1 DEF ItemType
<1>4. Retried(f, i, on) =
        IF ~IsPending(t) THEN f
        ELSE IF t.cancelled THEN [f EXCEPT ![i] = Deleting(t, on)]
        ELSE IF t.operation # "none" THEN [f EXCEPT ![i] = t]
        ELSE Pump([f EXCEPT ![i] = u], on)
  BY Zenon DEF Retried
<1> HIDE DEF t
<1>5. Fits(f[i], t)
  BY <1>1, <1>2, <1>3, SameClauses
<1>6. Fits(f[i], Deleting(t, on))
  BY <1>5, DeletingFits, FitsTrans DEF Fits
<1>7. t.operation = "none" => Fits(f[i], u)
  <2>1. u \in ItemType
    BY <1>2 DEF ItemType
  <2>2. /\ u.stage = t.stage /\ u.create = t.create /\ u.cancelled = t.cancelled
        /\ u.operation = t.operation /\ u.inflight = t.inflight
        /\ u.answer = t.answer /\ u.deletion = t.deletion /\ u.confirmed = t.confirmed
    BY <1>2 DEF ItemType
  <2> HIDE DEF u
  <2>3. t.operation = "none" => t.inflight = None
    BY <1>5 DEF Fits, ItemOK, Underways
  <2>4. t.operation = "none" => Fits(t, u)
    BY <1>5, <2>1, <2>2, <2>3, SameClauses DEF Fits
  <2> QED
    BY <1>5, <2>4, FitsTrans
<1> HIDE DEF u
<1>8. Keeps(f, f) /\ Keeps(f, [f EXCEPT ![i] = Deleting(t, on)]) /\ Keeps(f, [f EXCEPT ![i] = t])
  BY <1>5, <1>6, KeepsSame, ChangeKeeps
<1>9. t.operation = "none" => Keeps(f, Pump([f EXCEPT ![i] = u], on))
  BY <1>7, PumpedKeeps
<1> QED
  BY <1>4, <1>8, <1>9

\* A message is edited.
LEMMA EditedKeeps ==
    ASSUME NEW f, OutboxOK(f), NEW i \in Items, NEW on \in BOOLEAN
    PROVE  Keeps(f, Edited(f, i, on))
<1> DEFINE u == [f[i] EXCEPT !.intent = @ + 1]
<1>1. f[i] \in ItemType /\ ItemOK(f[i]) /\ f \in [Items -> ItemType]
  BY OfItem
<1>2. u \in ItemType
  BY <1>1 DEF ItemType
<1>3. /\ u.stage = f[i].stage /\ u.create = f[i].create /\ u.cancelled = f[i].cancelled
      /\ u.operation = f[i].operation /\ u.inflight = f[i].inflight
      /\ u.answer = f[i].answer /\ u.deletion = f[i].deletion
      /\ u.confirmed = f[i].confirmed /\ u.failed = f[i].failed
  BY <1>1 DEF ItemType
<1>4. Edited(f, i, on) = Retried([f EXCEPT ![i] = u], i, on)
  BY <1>1 DEF Edited
<1> HIDE DEF u
<1>5. Keeps(f, [f EXCEPT ![i] = u])
  BY <1>1, <1>2, <1>3, SameClauses, ChangeKeeps
<1>6. Keeps([f EXCEPT ![i] = u], Edited(f, i, on))
  BY <1>4, <1>5, RetriedKeeps DEF Keeps
<1> QED
  BY <1>5, <1>6, KeepsTrans

\* A message is recalled: one that was handed over to the timeline comes back.
LEMMA CancelledKeeps ==
    ASSUME NEW f, OutboxOK(f), NEW i \in Items,
           IsPending(f[i]) \/ f[i].confirmed, NEW on \in BOOLEAN
    PROVE  Keeps(f, Cancelled(f, i, on))
<1> DEFINE t == [f[i] EXCEPT !.stage = "pending", !.cancelled = TRUE,
                             !.retryable = TRUE, !.timer = FALSE]
           hidden == IF t.create = None THEN Removed(t) ELSE Compacted(t)
           pumped == Pump([f EXCEPT ![i] = hidden], on)
<1>1. f[i] \in ItemType /\ ItemOK(f[i])
  BY OfItem
<1>2. t \in ItemType
  BY <1>1 DEF ItemType
<1>3. /\ t.stage = "pending" /\ t.create = f[i].create /\ t.cancelled
      /\ t.operation = f[i].operation /\ t.inflight = f[i].inflight
      /\ t.answer = f[i].answer /\ t.deletion = f[i].deletion
      /\ t.confirmed = f[i].confirmed
  BY <1>1 DEF ItemType
<1>4. Cancelled(f, i, on) = [pumped EXCEPT ![i] = Deleting(@, on)]
  BY Zenon DEF Cancelled
<1> HIDE DEF t
<1>5. Fits(f[i], t)
  BY <1>1, <1>2, <1>3 DEF Fits, Evolves, Settled, ItemOK, Underways, Unfailed, IsPending,
                          HoldsSlot, Rests
<1>6. Fits(f[i], hidden)
  BY <1>5, RemovedFits, CompactedFits, FitsTrans DEF Fits
<1> HIDE DEF hidden
<1>7. Keeps(f, pumped)
  BY <1>6, PumpedKeeps
<1> HIDE DEF pumped
<1>8. Keeps(f, [pumped EXCEPT ![i] = Deleting(@, on)])
  BY <1>7, DeletingKeeps
<1> QED
  BY <1>4, <1>8

\* Uploads end: the submission is ready.
LEMMA UploadsEndedKeeps ==
    ASSUME NEW f, OutboxOK(f), NEW i \in Items, NEW on \in BOOLEAN
    PROVE  Keeps(f, UploadsEnded(f, i, on))
<1> DEFINE t == f[i]
           u == IF NeedsSend(t) THEN [t EXCEPT !.ready = t.intent, !.uploaded = TRUE]
                ELSE [t EXCEPT !.uploaded = TRUE]
<1>1. t \in ItemType /\ ItemOK(t)
  BY OfItem
<1>2. UploadsEnded(f, i, on) = Ended([f EXCEPT ![i] = u], i, on)
  BY Zenon DEF UploadsEnded
<1> HIDE DEF t
<1>3. u \in ItemType
  BY <1>1 DEF ItemType, Revisions
<1>4. /\ u.stage = t.stage /\ u.create = t.create /\ u.cancelled = t.cancelled
      /\ u.operation = t.operation /\ u.inflight = t.inflight /\ u.answer = t.answer
      /\ u.deletion = t.deletion /\ u.confirmed = t.confirmed /\ u.failed = t.failed
  BY <1>1 DEF ItemType
<1> HIDE DEF u
<1>5. Fits(t, u)
  BY <1>1, <1>3, <1>4, SameClauses
<1>6. Underways(u) /\ Evolves(f[i], u)
  BY <1>5 DEF Fits, ItemOK, t
<1> QED
  BY <1>2, <1>3, <1>6, EndedKeeps

\* Uploads fail.
LEMMA UploadsFailedKeeps ==
    ASSUME NEW f, OutboxOK(f), NEW i \in Items, NEW again \in BOOLEAN, NEW on \in BOOLEAN
    PROVE  Keeps(f, UploadsFailed(f, i, again, on))
<1> DEFINE u == IF NeedsSend(f[i]) THEN Failing(f[i], again) ELSE f[i]
<1>1. UploadsFailed(f, i, again, on) = Ended([f EXCEPT ![i] = u], i, on)
  BY DEF UploadsFailed
<1>2. u \in ItemType /\ Underways(u) /\ Evolves(f[i], u)
  BY OfItem, FailingKeeps DEF Fits
<1> HIDE DEF u
<1> QED
  BY <1>1, <1>2, EndedKeeps

\* A create or an edit has been accepted.
LEMMA SucceededKeeps ==
    ASSUME NEW f, OutboxOK(f), NEW i \in Items, NEW on \in BOOLEAN,
           f[i].operation \in {"create", "edit"}
    PROVE  Keeps(f, Succeeded(f, i, on))
<1> DEFINE told == IF f[i].operation = "create" THEN Created(f, i, i \notin Audio, on)
                   ELSE [f EXCEPT ![i] = Acknowledged(@, f[i].inflight, TRUE)]
           again == told[i].retryable \/ ~told[i].cancelled
           u == [told[i] EXCEPT !.retryable = again]
<1>1. Keeps(f, told)
  <2>1. CASE f[i].operation = "create"
    BY <2>1, CreatedKeeps
  <2>2. CASE f[i].operation = "edit"
    <3>1. f[i].inflight \in Revisions /\ f[i].create # None
      BY <2>2, OfItem DEF ItemType, Underways
    <3>2. Fits(f[i], Acknowledged(f[i], f[i].inflight, TRUE))
      BY <3>1, OfItem, AcknowledgedFits
    <3>3. told = [f EXCEPT ![i] = Acknowledged(f[i], f[i].inflight, TRUE)]
      BY <2>2
    <3> HIDE DEF told
    <3> QED
      BY <3>2, <3>3, ChangeKeeps
  <2> HIDE DEF told
  <2> QED
    BY <2>1, <2>2
<1>2. Succeeded(f, i, on) = Ended([told EXCEPT ![i].retryable = again], i, on)
  BY Zenon DEF Succeeded
<1> HIDE DEF told
<1>3. OutboxOK(told) /\ told \in [Items -> ItemType] /\ told[i] \in ItemType /\ ItemOK(told[i])
  BY <1>1, OfItem DEF Keeps
<1>4. [told EXCEPT ![i].retryable = again] = [told EXCEPT ![i] = u]
  BY <1>3
<1>5. u \in ItemType
  BY <1>3 DEF ItemType
<1>6. /\ u.stage = told[i].stage /\ u.create = told[i].create
      /\ u.cancelled = told[i].cancelled /\ u.operation = told[i].operation
      /\ u.inflight = told[i].inflight /\ u.answer = told[i].answer
      /\ u.deletion = told[i].deletion /\ u.confirmed = told[i].confirmed
      /\ u.failed = told[i].failed
  BY <1>3 DEF ItemType
<1> HIDE DEF u
<1>7. Fits(told[i], u)
  BY <1>3, <1>5, <1>6, SameClauses
<1>8. Keeps(told, Ended([told EXCEPT ![i] = u], i, on))
  BY <1>3, <1>5, <1>7, EndedKeeps DEF Fits, ItemOK
<1> QED
  BY <1>1, <1>2, <1>4, <1>8, KeepsTrans

\* An answer has come, or will not come.
LEMMA AnsweredKeeps ==
    ASSUME NEW f, OutboxOK(f), NEW i \in Items, NEW on \in BOOLEAN, f[i].answer # "none"
    PROVE  Keeps(f, Answered(f, i, on))
<1>1. f[i].operation \in {"create", "edit"}
  BY OfItem DEF Underways
<1>2. CASE f[i].answer = "ok"
  BY <1>1, <1>2, SucceededKeeps DEF Answered
<1>3. CASE f[i].answer # "ok"
  <2> DEFINE again == Retries(f[i], f[i].answer)
             u == Failing(f[i], again)
  <2>1. again \in BOOLEAN
    BY OfItem DEF Retries, ItemType
  <2>2. Answered(f, i, on) = Ended(f, i, on)
        \/ Answered(f, i, on) = Ended([f EXCEPT ![i] = u], i, on)
    BY <1>3 DEF Answered, SendFailed
  <2> HIDE DEF again
  <2>3. u \in ItemType /\ Underways(u) /\ Evolves(f[i], u)
    BY <2>1, OfItem, FailingKeeps
  <2> HIDE DEF u
  <2>4. Keeps(f, Ended(f, i, on)) /\ Keeps(f, Ended([f EXCEPT ![i] = u], i, on))
    BY <2>3, EndedKeeps, EndedSameKeeps
  <2> QED
    BY <2>2, <2>4
<1> QED
  BY <1>2, <1>3

\* The deletion of a recalled message has been answered.
LEMMA DeletionAnsweredKeeps ==
    ASSUME NEW f, OutboxOK(f), NEW i \in Items, f[i].deletion # "none"
    PROVE  Keeps(f, DeletionAnswered(f, i))
<1> DEFINE t == [f[i] EXCEPT !.deletion = "none"]
           u == [t EXCEPT !.deleted = TRUE, !.failed = FALSE]
           v == Failing(t, f[i].deletion = "lost")
<1>1. f[i] \in ItemType /\ ItemOK(f[i])
  BY OfItem
<1>2. f[i].cancelled
  BY OfItem DEF Underways
<1>3. t \in ItemType
  BY <1>1 DEF ItemType, Answers
<1>4. /\ t.stage = f[i].stage /\ t.create = f[i].create /\ t.cancelled = f[i].cancelled
      /\ t.operation = f[i].operation /\ t.inflight = f[i].inflight
      /\ t.answer = f[i].answer /\ t.deletion = "none"
      /\ t.confirmed = f[i].confirmed /\ t.failed = f[i].failed
  BY <1>1 DEF ItemType
<1>5. DeletionAnswered(f, i) =
        [f EXCEPT ![i] =
            IF f[i].deletion = "ok" \/ (f[i].deletion = "gone" /\ ~t.deleted) THEN u
            ELSE IF t.deleted THEN t ELSE v]
  BY Zenon DEF DeletionAnswered
<1> HIDE DEF t
<1>6. Fits(f[i], t)
  BY <1>1, <1>2, <1>3, <1>4
  DEF Fits, Evolves, Settled, ItemOK, Underways, Unfailed, HoldsSlot, Rests
<1>7. ItemOK(t) /\ t.cancelled
  BY <1>2, <1>4, <1>6 DEF Fits
<1>8. Fits(t, u)
  <2>1. u \in ItemType
    BY <1>3 DEF ItemType
  <2>2. /\ u.stage = t.stage /\ u.create = t.create /\ u.cancelled = t.cancelled
        /\ u.operation = t.operation /\ u.inflight = t.inflight /\ u.answer = t.answer
        /\ u.deletion = t.deletion /\ u.confirmed = t.confirmed
    BY <1>3 DEF ItemType
  <2> HIDE DEF u
  <2> QED
    BY <1>7, <2>1, <2>2, SameClauses
<1>9. Fits(t, v)
  <2>1. v \in ItemType
    BY <1>7, FailingKeeps
  <2>2. /\ v.stage = t.stage /\ v.create = t.create /\ v.cancelled = t.cancelled
        /\ v.operation = t.operation /\ v.inflight = t.inflight /\ v.answer = t.answer
        /\ v.deletion = t.deletion /\ v.confirmed = t.confirmed
    BY <1>3 DEF Failing, ItemType
  <2> HIDE DEF v
  <2> QED
    BY <1>7, <2>1, <2>2, SameClauses
<1> HIDE DEF u, v
<1>10. Fits(f[i], u) /\ Fits(f[i], v)
  BY <1>6, <1>8, <1>9, FitsTrans
<1> DEFINE w == IF f[i].deletion = "ok" \/ (f[i].deletion = "gone" /\ ~t.deleted) THEN u
                ELSE IF t.deleted THEN t ELSE v
<1>11. Fits(f[i], w)
  BY <1>6, <1>10
<1>12. DeletionAnswered(f, i) = [f EXCEPT ![i] = w]
  BY <1>5
<1> HIDE DEF w
<1>13. Keeps(f, [f EXCEPT ![i] = w])
  BY <1>11, ChangeKeeps
<1> QED
  BY <1>12, <1>13

\* A message that the server was asked for is there.
LEMMA CheckAnsweredKeeps ==
    ASSUME NEW f, OutboxOK(f), NEW i \in Items, NEW on \in BOOLEAN
    PROVE  Keeps(f, CheckAnswered(f, i, on))
<1> DEFINE u == [f[i] EXCEPT !.checking = "none"]
           t == [f EXCEPT ![i].checking = "none"]
<1>1. f[i] \in ItemType /\ ItemOK(f[i]) /\ f \in [Items -> ItemType]
  BY OfItem
<1>2. t = [f EXCEPT ![i] = u]
  BY <1>1
<1>3. u \in ItemType
  BY <1>1 DEF ItemType, Answers
<1>4. /\ u.stage = f[i].stage /\ u.create = f[i].create /\ u.cancelled = f[i].cancelled
      /\ u.operation = f[i].operation /\ u.inflight = f[i].inflight
      /\ u.answer = f[i].answer /\ u.deletion = f[i].deletion
      /\ u.confirmed = f[i].confirmed /\ u.failed = f[i].failed
  BY <1>1 DEF ItemType
<1> HIDE DEF u
<1>5. Fits(f[i], u)
  BY <1>1, <1>3, <1>4, SameClauses
<1>6. Keeps(f, [f EXCEPT ![i] = u])
  BY <1>5, ChangeKeeps
<1>7. CheckAnswered(f, i, on) \in {t, Created(t, i, TRUE, on)}
  BY DEF CheckAnswered
<1> HIDE DEF t
<1>8. Keeps(f, t) /\ Keeps(f, Created(t, i, TRUE, on))
  BY <1>2, <1>6, CreatedKeeps, KeepsTrans DEF Keeps
<1> QED
  BY <1>7, <1>8

\* An edit is seen: it acknowledges the one that was sent.
LEMMA UpdateSeenKeeps ==
    ASSUME NEW f, OutboxOK(f), NEW i \in Items, NEW content, NEW on \in BOOLEAN
    PROVE  Keeps(f, UpdateSeen(f, i, content, on))
<1> DEFINE t == f[i]
           u == Acknowledged(t, t.patch, TRUE)
           seen == IF t.patch # None /\ t.patch = content
                   THEN Pump([f EXCEPT ![i] = u], on) ELSE f
<1>1. UpdateSeen(f, i, content, on) =
        IF IsPending(t) /\ t.confirmed THEN [seen EXCEPT ![i] = Deleting(@, on)] ELSE f
  BY Zenon DEF UpdateSeen
<1>2. CASE IsPending(t) /\ t.confirmed
  <2>1. t.patch \in Revisions /\ t.create # None /\ ItemOK(t)
    BY <1>2, OfItem DEF ItemType, Underways
  <2>2. Fits(f[i], u)
    BY <2>1, AcknowledgedFits
  <2> HIDE DEF u
  <2>3. Keeps(f, seen)
    BY <2>2, PumpedKeeps, KeepsSame
  <2> HIDE DEF seen
  <2>4. Keeps(f, [seen EXCEPT ![i] = Deleting(@, on)])
    BY <2>3, DeletingKeeps
  <2> QED
    BY <1>1, <1>2, <2>4
<1>3. CASE ~(IsPending(t) /\ t.confirmed)
  BY <1>1, <1>3, KeepsSame
<1> QED
  BY <1>2, <1>3

\* A deletion is seen, of a message that the user may not have recalled.
LEMMA DeletionSeenKeeps ==
    ASSUME NEW f, OutboxOK(f), NEW i \in Items, NEW on \in BOOLEAN
    PROVE  Keeps(f, DeletionSeen(f, i, on))
<1> DEFINE t == [f[i] EXCEPT !.cancelled = TRUE, !.deleted = TRUE]
<1>1. f[i] \in ItemType /\ ItemOK(f[i])
  BY OfItem
<1>2. t \in ItemType
  BY <1>1 DEF ItemType
<1>3. /\ t.stage = f[i].stage /\ t.create = f[i].create /\ t.cancelled
      /\ t.operation = f[i].operation /\ t.inflight = f[i].inflight
      /\ t.answer = f[i].answer /\ t.deletion = f[i].deletion
      /\ t.confirmed = f[i].confirmed /\ t.failed = f[i].failed
  BY <1>1 DEF ItemType
<1>4. DeletionSeen(f, i, on) = f
      \/ DeletionSeen(f, i, on) = Pump([f EXCEPT ![i] = Compacted(t)], on)
  BY DEF DeletionSeen
<1> HIDE DEF t
<1>5. Fits(f[i], t)
  BY <1>1, <1>2, <1>3
  DEF Fits, Evolves, Settled, ItemOK, Underways, Unfailed, HoldsSlot, Rests
<1>6. Fits(f[i], Compacted(t))
  BY <1>5, CompactedFits, FitsTrans DEF Fits
<1> QED
  BY <1>4, <1>6, PumpedKeeps, KeepsSame

\* The session is there again: what is not published is asked for, what has
\* failed is tried again.
LEMMA ResyncedKeeps ==
    ASSUME NEW f, OutboxOK(f), NEW on \in BOOLEAN
    PROVE  Keeps(f, Resynced(f, on))
<1> DEFINE Checked(t) ==
             IF IsPending(t) /\ t.confirmed /\ ~t.published /\ t.checking = "none"
             THEN [t EXCEPT !.checking = Begun(on)] ELSE t
           Recalling(t) == [t EXCEPT !.timer = FALSE]
           Rested(t) == [t EXCEPT !.timer = FALSE,
                           !.failed = t.failed /\ (t.operation # "none" \/ ~NeedsSend(t))]
           Again(t) ==
             IF ~IsPending(t) \/ ~t.retryable THEN t
             ELSE IF t.cancelled THEN Deleting(Recalling(t), on) ELSE Rested(t)
           g == [i \in Items |-> Again(Checked(f[i]))]
<1>1. Resynced(f, on) = Pump(g, on)
  BY Zenon DEF Resynced
<1>2. ASSUME NEW t, ItemOK(t) PROVE Fits(t, Checked(t))
  <2> DEFINE u == [t EXCEPT !.checking = Begun(on)]
  <2>1. u \in ItemType
    BY <1>2 DEF ItemOK, ItemType, Begun, Answers
  <2>2. /\ u.stage = t.stage /\ u.create = t.create /\ u.cancelled = t.cancelled
        /\ u.operation = t.operation /\ u.inflight = t.inflight /\ u.answer = t.answer
        /\ u.deletion = t.deletion /\ u.confirmed = t.confirmed /\ u.failed = t.failed
    BY <1>2 DEF ItemOK, ItemType
  <2>3. Checked(t) = t \/ Checked(t) = u
    OBVIOUS
  <2> HIDE DEF u, Checked
  <2> QED
    BY <1>2, <2>1, <2>2, <2>3, SameClauses, FitsSame
<1>3. ASSUME NEW t, ItemOK(t) PROVE Fits(t, Deleting(Recalling(t), on))
  <2> DEFINE u == Recalling(t)
  <2>1. u \in ItemType
    BY <1>3 DEF ItemOK, ItemType
  <2>2. /\ u.stage = t.stage /\ u.create = t.create /\ u.cancelled = t.cancelled
        /\ u.operation = t.operation /\ u.inflight = t.inflight /\ u.answer = t.answer
        /\ u.deletion = t.deletion /\ u.confirmed = t.confirmed /\ u.failed = t.failed
    BY <1>3 DEF ItemOK, ItemType
  <2> HIDE DEF u
  <2>3. Fits(t, u)
    BY <1>3, <2>1, <2>2, SameClauses
  <2>4. Fits(t, Deleting(u, on))
    BY <2>3, DeletingFits, FitsTrans DEF Fits
  <2> QED
    BY <2>4 DEF u
<1>4. ASSUME NEW t, ItemOK(t) PROVE Fits(t, Rested(t))
  <2> DEFINE u == Rested(t)
  <2>1. u \in ItemType
    BY <1>4 DEF ItemOK, ItemType
  <2>2. /\ u.stage = t.stage /\ u.create = t.create /\ u.cancelled = t.cancelled
        /\ u.operation = t.operation /\ u.inflight = t.inflight /\ u.answer = t.answer
        /\ u.deletion = t.deletion /\ u.confirmed = t.confirmed
        /\ u.failed = (t.failed /\ (t.operation # "none" \/ ~NeedsSend(t)))
    BY <1>4 DEF ItemOK, ItemType
  <2>3. t.operation = "none" => t.inflight = None
    BY <1>4 DEF ItemOK, Underways
  <2> HIDE DEF u
  <2>4. Fits(t, u)
    BY <1>4, <2>1, <2>2, <2>3, SameClauses
  <2> QED
    BY <2>4 DEF u
<1>5. ASSUME NEW t, ItemOK(t) PROVE Fits(t, Again(t))
  <2>1. Fits(t, t) /\ Fits(t, Deleting(Recalling(t), on)) /\ Fits(t, Rested(t))
    BY <1>3, <1>4, <1>5, FitsSame
  <2> HIDE DEF Recalling, Rested
  <2> QED
    BY <2>1
<1>6. \A i \in Items : g[i] = Again(Checked(f[i]))
  OBVIOUS
<1>7. DOMAIN g = Items /\ g = [i \in Items |-> g[i]]
  OBVIOUS
<1> HIDE DEF g, Again, Checked
<1>8. \A i \in Items : Fits(f[i], g[i])
  BY <1>2, <1>5, <1>6, OfItem, FitsTrans DEF Fits
<1>9. Keeps(f, g)
  BY <1>7, <1>8, ChangesKeep
<1>10. Keeps(g, Pump(g, on))
  BY <1>9, PumpKeeps DEF Keeps
<1> QED
  BY <1>1, <1>9, <1>10, KeepsTrans

\* The message is in a range that was loaded.
LEMMA ReleasedKeeps ==
    ASSUME NEW f, OutboxOK(f), NEW i \in Items, NEW row, NEW on \in BOOLEAN
    PROVE  Keeps(f, Released(f, i, row, on))
<1> DEFINE t == f[i]
           u == [t EXCEPT !.deleted = TRUE]
           created == Created(f, i, TRUE, on)
<1>1. t \in ItemType /\ ItemOK(t)
  BY OfItem
<1>2. Keeps(f, created)
  BY CreatedKeeps
<1>3. \/ Released(f, i, row, on) = f
      \/ Released(f, i, row, on) = [f EXCEPT ![i] = u]
      \/ Released(f, i, row, on) = [created EXCEPT ![i] = Deleting(@, on)]
      \/ Released(f, i, row, on) = [f EXCEPT ![i] = Removed(t)]
  BY Zenon DEF Released
<1> HIDE DEF created
<1>4. Keeps(f, [created EXCEPT ![i] = Deleting(@, on)])
  BY <1>2, DeletingKeeps
<1>5. u \in ItemType
  BY <1>1 DEF ItemType
<1>6. /\ u.stage = t.stage /\ u.create = t.create /\ u.cancelled = t.cancelled
      /\ u.operation = t.operation /\ u.inflight = t.inflight /\ u.answer = t.answer
      /\ u.deletion = t.deletion /\ u.confirmed = t.confirmed /\ u.failed = t.failed
  BY <1>1 DEF ItemType
<1> HIDE DEF u
<1>7. Fits(f[i], u)
  BY <1>1, <1>5, <1>6, SameClauses
<1>8. Keeps(f, [f EXCEPT ![i] = u]) /\ Keeps(f, [f EXCEPT ![i] = Removed(t)])
  BY <1>1, <1>7, RemovedFits, ChangeKeeps
<1>9. Keeps(f, f)
  BY KeepsSame
<1> QED
  BY <1>3, <1>4, <1>8, <1>9

-----------------------------------------------------------------------------
(* The worker.                                                             *)

\* The ids of a finite set, each at its place.
LEMMA NewestFirstHasAll ==
    ASSUME NEW ids \in SUBSET Messages, IsFiniteSet(ids)
    PROVE  NewestFirst(ids) \in Seq(ids) /\ Len(NewestFirst(ids)) = Cardinality(ids)
<1> DEFINE n == Cardinality(ids)
           newer(m) == {o \in ids : o >= m}
           place == [m \in ids |-> Place(ids, m)]
<1>1. n \in Nat
  BY FS_CardinalityType
<1>2. \A m \in ids : newer(m) \in SUBSET ids /\ m \in newer(m)
  BY MessagesAssumption
<1>3. \A m \in ids : IsFiniteSet(newer(m)) /\ Place(ids, m) \in 1..n
  <2> SUFFICES ASSUME NEW m \in ids
               PROVE  IsFiniteSet(newer(m)) /\ Place(ids, m) \in 1..n
    OBVIOUS
  <2>1. IsFiniteSet(newer(m)) /\ Cardinality(newer(m)) <= n
    BY <1>2, FS_Subset
  <2>2. Cardinality(newer(m)) \in Nat /\ Cardinality(newer(m)) # 0
    BY <1>2, <2>1, FS_CardinalityType, FS_EmptySet
  <2>3. Place(ids, m) = Cardinality(newer(m))
    BY DEF Place
  <2> HIDE DEF newer, n
  <2> QED
    BY <1>1, <2>1, <2>2, <2>3
<1>4. \A m, o \in ids : m < o => Place(ids, m) # Place(ids, o)
  <2> SUFFICES ASSUME NEW m \in ids, NEW o \in ids, m < o, Place(ids, m) = Place(ids, o)
               PROVE  FALSE
    OBVIOUS
  <2>1. m \in Nat /\ o \in Nat /\ ids \subseteq Nat
    BY MessagesAssumption
  <2>2. newer(o) \in SUBSET newer(m) /\ m \notin newer(o) /\ m \in newer(m)
    <3>1. \A x \in ids : x >= o => x >= m
      BY <2>1
    <3>2. ~(m >= o) /\ m >= m
      BY <2>1
    <3> QED
      BY <3>1, <3>2, Zenon
  <2>3. Place(ids, m) = Cardinality(newer(m)) /\ Place(ids, o) = Cardinality(newer(o))
    BY Zenon DEF Place
  <2> HIDE DEF newer
  <2>4. newer(o) = newer(m)
    BY <1>3, <2>2, <2>3, FS_Subset
  <2> QED
    BY <2>2, <2>4
<1>5. place \in Injection(ids, 1..n)
  <2>1. place \in [ids -> 1..n]
    BY <1>3
  <2>2. \A m, o \in ids : m < o \/ m = o \/ o < m
    BY MessagesAssumption
  <2>3. \A m, o \in ids : place[m] = place[o] => m = o
    BY <1>4, <2>2
  <2> HIDE DEF place
  <2> QED
    BY <2>1, <2>3 DEF Injection, IsInjective
<1>6. IsFiniteSet(1..n) /\ Cardinality(1..n) = n
  BY <1>1, FS_Interval
<1>7. place \in Surjection(ids, 1..n)
  <2> HIDE DEF place
  <2> QED
    BY <1>5, <1>6, FS_Injection
<1>8. \A k \in 1..n : \E m \in ids : Place(ids, m) = k
  BY <1>7 DEF Surjection
<1>9. \A k \in 1..n : (CHOOSE m \in ids : Place(ids, m) = k) \in ids
  BY <1>8
<1>10. NewestFirst(ids) \in [1..n -> ids]
  BY <1>9 DEF NewestFirst
<1> HIDE DEF n
<1> QED
  BY <1>1, <1>10 DEF n

Queued(m) == \E k \in 1..Len(channel) : channel[k] = m

\* Whoever enqueues a message leaves the worker a job.
LEMMA EnqueueLeavesJob ==
    ASSUME WorkerOK, NEW m \in Messages, Enqueue(m)
    PROVE  /\ channel' \in Seq(Messages) /\ scheduled' \subseteq Messages
           /\ \A o \in scheduled' :
                  o = processing \/ \E k \in 1..Len(channel') : channel'[k] = o
           /\ processing = NoMessage => channel' # <<>>
<1>1. channel \in Seq(Messages) /\ scheduled \subseteq Messages
      /\ \A o \in scheduled : o = processing \/ Queued(o)
  BY DEF WorkerOK, Queued
<1>2. m # NoMessage
  BY MessagesAssumption DEF NoMessage
<1>3. CASE Schedulable(m) /\ ~Full
  <2>1. scheduled' = scheduled \cup {m} /\ channel' = Append(channel, m)
    BY <1>3 DEF Enqueue
  <2>2. /\ channel' \in Seq(Messages) /\ Len(channel') = Len(channel) + 1
        /\ \A k \in 1..Len(channel) : channel'[k] = channel[k]
        /\ channel'[Len(channel) + 1] = m
    BY <1>1, <2>1, AppendProperties
  <2>3. Len(channel) \in Nat
    BY <1>1, LenProperties
  <2>4. channel' # <<>>
    BY <2>2, <2>3, EmptySeq
  <2>5. \A o \in scheduled' : o = processing \/ \E k \in 1..Len(channel') : channel'[k] = o
    <3> SUFFICES ASSUME NEW o \in scheduled'
                 PROVE  o = processing \/ \E k \in 1..Len(channel') : channel'[k] = o
      OBVIOUS
    <3>1. CASE o = m
      <4>1. Len(channel) + 1 \in 1..Len(channel')
        BY <2>2, <2>3
      <4> QED
        BY <2>2, <3>1, <4>1
    <3>2. CASE o # m
      <4>1. o = processing \/ Queued(o)
        BY <1>1, <2>1, <3>2
      <4> QED
        BY <2>2, <2>3, <4>1 DEF Queued
    <3> QED
      BY <3>1, <3>2
  <2> QED
    BY <1>1, <2>1, <2>2, <2>4, <2>5
<1>4. CASE ~(Schedulable(m) /\ ~Full)
  <2>1. UNCHANGED <<scheduled, channel>>
    BY <1>4 DEF Enqueue
  <2>2. processing = NoMessage => channel # <<>>
    <3> SUFFICES ASSUME processing = NoMessage, channel = <<>> PROVE FALSE
      OBVIOUS
    <3>1. Len(channel) = 0
      BY EmptySeq
    <3>2. ~Full
      BY <3>1, WorkerAssumption DEF Full
    <3>3. m \in scheduled
      BY <1>2, <1>4, <3>2 DEF Schedulable
    <3>4. Queued(m)
      BY <1>1, <1>2, <3>3
    <3> QED
      BY <3>1, <3>4 DEF Queued
  <2> QED
    BY <1>1, <2>1, <2>2 DEF Queued
<1> QED
  BY <1>3, <1>4

\* The sender of a message enqueues it.
LEMMA EnqueueSentKeeps ==
    ASSUME WorkerOK, NothingForgotten, NEW m \in Messages, EnqueueSent(m)
    PROVE  WorkerOK' /\ NothingForgotten'
<1>1. UNCHANGED <<rows, processing, worker, backlog, refilled>> /\ Enqueue(m)
      /\ unqueued' = unqueued \ {m}
  BY DEF EnqueueSent
<1>2. WorkerOK'
  BY <1>1, EnqueueLeavesJob DEF WorkerOK
<1>3. worker = "wait" => processing = NoMessage
  BY DEF WorkerOK
<1> QED
  BY <1>1, <1>2, <1>3, EnqueueLeavesJob DEF NothingForgotten

\* Each step of the refill keeps the worker's.
LEMMA RefillKeeps ==
    ASSUME WorkerOK, NothingForgotten, IsFiniteSet(Stored),
           RefillLoads \/ RefillEnqueues \/ RefillFails
    PROVE  WorkerOK' /\ NothingForgotten'
<1>1. CASE RefillLoads
  <2> DEFINE ids == {m \in Messages : Pending(m)}
             pending == NewestFirst(ids)
             n == IF Len(pending) < RefillLimit THEN Len(pending) ELSE RefillLimit
  <2>1. /\ worker = "refill" /\ Refills(SubSeq(pending, 1, n))
        /\ UNCHANGED <<rows, scheduled, processing, channel, unqueued>>
    BY <1>1 DEF RefillLoads
  <2>2. IsFiniteSet(ids)
    <3>1. ids \in SUBSET Stored
      BY DEF Pending, Stored
    <3> QED
      BY <3>1, FS_Subset
  <2>3. pending \in Seq(ids) /\ Len(pending) = Cardinality(ids)
    BY <2>2, NewestFirstHasAll
  <2>4. Cardinality(ids) \in Nat /\ (Cardinality(ids) = 0 <=> ids = {})
    BY <2>2, FS_CardinalityType, FS_EmptySet
  <2>5. n \in 0..Len(pending) /\ (n = 0 => ids = {})
    BY <2>3, <2>4, WorkerAssumption
  <2> DEFINE rest == SubSeq(pending, 1, n)
  <2>6. rest \in Seq(Messages) /\ Len(rest) = n
    <3>1. pending \in Seq(Messages)
      BY <2>3, SeqMonotonic
    <3>2. Len(pending) \in Nat /\ n \in 0..Len(pending)
      BY <2>3, <2>4, <2>5
    <3> HIDE DEF pending, n
    <3>3. \A k \in 1..n : pending[k] \in Messages
      BY <3>1, <3>2, ElementOfSeq
    <3>4. rest \in Seq(Messages) /\ Len(rest) = IF 1 <= n THEN n - 1 + 1 ELSE 0
      BY <3>2, <3>3, SubSeqProperties
    <3> QED
      BY <3>2, <3>4
  <2>7. rest = <<>> => ids = {}
    BY <2>5, <2>6, EmptySeq
  <2>8. backlog' = rest /\ worker' = (IF rest = <<>> THEN "wait" ELSE "enqueue")
    BY <2>1 DEF Refills
  <2> HIDE DEF rest
  <2>9. WorkerOK'
    BY <2>1, <2>6, <2>8 DEF WorkerOK
  <2>10. worker' = "wait" => \A m \in Messages : ~Pending(m)'
    BY <2>1, <2>7, <2>8 DEF Pending
  <2> QED
    BY <2>9, <2>10 DEF NothingForgotten
<1>2. CASE RefillEnqueues
  <2>1. backlog # <<>> /\ backlog \in Seq(Messages) /\ processing = NoMessage
    BY <1>2 DEF RefillEnqueues, WorkerOK
  <2>2. Head(backlog) \in Messages /\ Tail(backlog) \in Seq(Messages)
    BY <2>1, HeadTailProperties
  <2>3. Enqueue(Head(backlog)) /\ UNCHANGED <<rows, processing, unqueued>>
    BY <1>2 DEF RefillEnqueues
  <2>4. PICK rest \in {<<>>, Tail(backlog)} : Refills(rest)
    BY <1>2 DEF RefillEnqueues
  <2>5. rest \in Seq(Messages)
    BY <2>2, EmptySeq
  <2>6. backlog' = rest /\ worker' = (IF rest = <<>> THEN "wait" ELSE "enqueue")
    BY <2>4 DEF Refills
  <2>7. /\ channel' \in Seq(Messages) /\ scheduled' \subseteq Messages
        /\ \A o \in scheduled' :
               o = processing \/ \E k \in 1..Len(channel') : channel'[k] = o
        /\ channel' # <<>>
    BY <2>1, <2>2, <2>3, EnqueueLeavesJob
  <2>8. WorkerOK'
    BY <2>1, <2>3, <2>5, <2>6, <2>7 DEF WorkerOK
  <2> QED
    BY <2>7, <2>8 DEF NothingForgotten
<1>3. CASE RefillFails
  BY <1>3 DEF RefillFails, WorkerOK, NothingForgotten
<1> QED
  BY <1>1, <1>2, <1>3

\* A job ends, whatever becomes of it: the worker looks for others next.
LEMMA JobEnds ==
    ASSUME WorkerOK, worker \in {"process", "publish"},
           scheduled' = scheduled \ {processing}, processing' = NoMessage,
           worker' = "refill", UNCHANGED <<channel, backlog, unqueued>>
    PROVE  WorkerOK' /\ NothingForgotten'
BY DEF WorkerOK, NothingForgotten

\* Each step of a job keeps the worker's.
LEMMA JobKeeps ==
    ASSUME WorkerOK, NothingForgotten,
           Receive \/ Starts \/ Skips \/ JobFails \/ Panics
           \/ \E status \in {"done", "failed"} : Publishes(status)
    PROVE  WorkerOK' /\ NothingForgotten'
<1>1. CASE Receive
  <2>1. channel # <<>> /\ channel \in Seq(Messages) /\ processing = NoMessage
    BY <1>1 DEF Receive, WorkerOK
  <2>2. /\ Head(channel) \in Messages /\ Tail(channel) \in Seq(Messages)
        /\ Len(Tail(channel)) = Len(channel) - 1
        /\ \A k \in 1..Len(Tail(channel)) : Tail(channel)[k] = channel[k + 1]
    BY <2>1, HeadTailProperties
  <2>3. Head(channel) = channel[1] /\ Len(channel) \in Nat
    BY <2>1, LenProperties
  <2>4. /\ processing' = Head(channel) /\ channel' = Tail(channel) /\ worker' = "process"
        /\ UNCHANGED <<rows, scheduled, backlog, unqueued>>
    BY <1>1 DEF Receive
  <2>5. \A m \in scheduled : m = processing' \/ \E k \in 1..Len(channel') : channel'[k] = m
    <3> SUFFICES ASSUME NEW m \in scheduled, m # processing'
                 PROVE  \E k \in 1..Len(channel') : channel'[k] = m
      OBVIOUS
    <3>1. m # NoMessage
      BY MessagesAssumption DEF WorkerOK, NoMessage
    <3>2. PICK k \in 1..Len(channel) : channel[k] = m
      BY <2>1, <3>1 DEF WorkerOK
    <3>3. k # 1
      BY <2>3, <2>4, <3>2
    <3>4. k - 1 \in 1..Len(channel') /\ channel'[k - 1] = m
      BY <2>2, <2>3, <2>4, <3>2, <3>3
    <3> QED
      BY <3>4
  <2>6. processing' # NoMessage
    BY <2>2, <2>4, MessagesAssumption DEF NoMessage
  <2>7. WorkerOK'
    BY <2>2, <2>4, <2>5, <2>6 DEF WorkerOK
  <2> QED
    BY <2>4, <2>7 DEF NothingForgotten
<1>2. CASE Starts
  BY <1>2 DEF Starts, Pending, WorkerOK, NothingForgotten
<1>3. CASE Skips
  BY <1>3, JobEnds DEF Skips, Finished, NextTurn
<1>4. CASE JobFails
  BY <1>4, JobEnds DEF JobFails, Finished, NextTurn
<1>5. CASE Panics
  BY <1>5, JobEnds DEF Panics
<1>6. CASE \E status \in {"done", "failed"} : Publishes(status)
  BY <1>6, JobEnds DEF Publishes, Finished, NextTurn
<1> QED
  BY <1>1, <1>2, <1>3, <1>4, <1>5, <1>6

\* After a restart the worker has everything to look for.
LEMMA RestartKeeps ==
    ASSUME WorkerOK, WorkerRestarts
    PROVE  WorkerOK' /\ NothingForgotten'
BY EmptySeq DEF WorkerOK, WorkerRestarts, NothingForgotten

\* What others do to rows: nothing becomes pending that nobody will enqueue.
LEMMA RowsKeepWorker ==
    ASSUME WorkerOK, NothingForgotten,
           UNCHANGED <<scheduled, processing, channel, worker, backlog, refilled>>,
           unqueued \subseteq unqueued', unqueued' \subseteq Messages,
           \A m \in Messages : Pending(m)' => Pending(m) \/ m \in unqueued',
           \A m \in Messages : rows'[m].status = "absent" => rows[m].status = "absent"
    PROVE  WorkerOK' /\ NothingForgotten'
<1>1. WorkerOK'
  BY DEF WorkerOK
<1>2. NothingForgotten'
  BY DEF NothingForgotten
<1> QED
  BY <1>1, <1>2

-----------------------------------------------------------------------------
(* The server.                                                             *)

\* A row and a late request stay in order when their item changes.
LEMMA ItemEvolves ==
    ASSUME NEW t, NEW u, Evolves(t, u)
    PROVE  /\ \A row : RowOK(row, t) => RowOK(row, u)
           /\ \A r : LateOK(r, t) => LateOK(r, u)
BY DEF Evolves, Settled, RowOK, LateOK

\* It is enough to look at rows and late requests before the items change.
LEMMA StoreStep ==
    ASSUME Keeps(items, items'), rows' \in [Messages -> RowType],
           \A i \in Items : RowOK(rows'[i], items[i]) /\ Whole(i, rows'[i]),
           \A r \in late' : r.item \in Items /\ LateOK(r, items[r.item])
    PROVE  StoreOK'
<1>1. \A i \in Items : RowOK(rows'[i], items'[i])
  BY ItemEvolves DEF Keeps
<1>2. \A r \in late' : LateOK(r, items'[r.item])
  BY ItemEvolves DEF Keeps
<1>3. \A i \in Items : Whole(i, rows[i])'
  BY DEF Whole, Attaches
<1> QED
  BY <1>1, <1>2, <1>3 DEF StoreOK

\* What a step of the server leaves: rows in order with the items before it.
RowsKept ==
    /\ rows' \in [Messages -> RowType]
    /\ \A j \in Items : RowOK(rows'[j], items[j]) /\ Whole(j, rows'[j])
    /\ IsFiniteSet(Stored')
    /\ WorkerOK' /\ NothingForgotten'
    /\ EventsOK'

\* Events of a handler, if there is a session to tell.
LEMMA ToldKinds ==
    ASSUME EventsOK, NEW what, events' = Told(what),
           \A e \in what : e.kind \in {"created", "updated", "deleted"}
    PROVE  EventsOK'
BY DEF EventsOK, Told

\* The event of a handler has its kind.
LEMMA EventKind == \A i, kind : Event(i, kind).kind = kind
BY DEF Event

\* Rows of the same messages.
LEMMA SameStored ==
    ASSUME IsFiniteSet(Stored),
           \A m \in Messages : rows'[m].status # "absent" => rows[m].status # "absent"
    PROVE  IsFiniteSet(Stored')
<1>1. Stored' \in SUBSET Stored
  BY DEF Stored
<1> QED
  BY <1>1, FS_Subset

\* A create stores a row, or leaves the one that is there.
LEMMA CreateRuns ==
    ASSUME DeliveryInv, NEW i \in Items, NEW rev, rev = items[i].create, rev # None,
           RunCreate(i, rev)
    PROVE  RowsKept
<1>1. i \in Messages /\ rev \in Revisions /\ rows \in [Messages -> RowType]
  BY OfItem, DeliveryAssumption DEF DeliveryInv, StoreOK, ItemType
<1> PICK p \in BOOLEAN : p = (i \notin Audio)
  OBVIOUS
<1> PICK a \in BOOLEAN : a = Attaches(i)
  <2>1. Attaches(i) \in BOOLEAN
    BY DEF Attaches
  <2> QED
    BY <2>1
<1> PICK st \in {"pending", "none"} : st = IF i \in Audio THEN "pending" ELSE "none"
  OBVIOUS
<1> DEFINE row == [NoRow EXCEPT !.content = rev, !.published = p, !.attached = a,
                                !.status = st]
<1>2. /\ row \in RowType /\ row.content = rev /\ row.status # "absent"
      /\ row.attached = Attaches(i) /\ (row.status = "pending" => i \in Audio)
  <2> PICK r : r = row
    OBVIOUS
  <2>1. r = [NoRow EXCEPT !.content = rev, !.published = p, !.attached = a, !.status = st]
    OBVIOUS
  <2> HIDE DEF row
  <2>2. r \in RowType /\ r.content = rev /\ r.attached = a /\ r.status = st
    BY <1>1, <2>1 DEF NoRow, RowType
  <2> QED
    BY <2>2
<1>3. rows' = IF rows[i].status # "absent" THEN rows ELSE [rows EXCEPT ![i] = row]
  BY Zenon DEF RunCreate
<1>4. unqueued' = (IF i \in Audio /\ rows[i].status = "absent" THEN unqueued \cup {i}
                   ELSE unqueued)
      /\ UNCHANGED <<scheduled, processing, channel, worker, backlog, refilled>>
  BY DEF RunCreate
<1> HIDE DEF row
<1>5. \A m \in Messages : rows'[m] = rows[m]
                          \/ (m = i /\ rows[i].status = "absent" /\ rows'[m] = row)
  BY <1>1, <1>3
<1>6. rows' \in [Messages -> RowType]
  BY <1>1, <1>2, <1>3
<1>7. \A j \in Items : RowOK(rows'[j], items[j]) /\ Whole(j, rows'[j])
  <2>1. \A j \in Items : RowOK(rows'[j], items[j])
    BY <1>2, <1>5, DeliveryAssumption DEF DeliveryInv, StoreOK, RowOK
  <2>2. \A j \in Items : Whole(j, rows'[j])
    BY <1>2, <1>5, DeliveryAssumption DEF DeliveryInv, StoreOK, Whole
  <2> QED
    BY <2>1, <2>2
<1>8. IsFiniteSet(Stored')
  <2>1. Stored' \in SUBSET (Stored \cup {i})
    BY <1>5 DEF Stored
  <2>2. IsFiniteSet(Stored \cup {i})
    BY FS_AddElement DEF DeliveryInv
  <2> QED
    BY <2>1, <2>2, FS_Subset
<1>9. WorkerOK' /\ NothingForgotten'
  <2>1. \A m \in Messages : Pending(m)' => Pending(m) \/ m \in unqueued'
    BY <1>2, <1>4, <1>5 DEF Pending
  <2>2. unqueued \subseteq unqueued' /\ unqueued' \subseteq Messages
    BY <1>1, <1>4 DEF DeliveryInv, WorkerOK
  <2>3. \A m \in Messages : rows'[m].status = "absent" => rows[m].status = "absent"
    BY <1>2, <1>5
  <2> QED
    BY <1>4, <2>1, <2>2, <2>3, RowsKeepWorker DEF DeliveryInv
<1>10. EventsOK'
  <2>1. events' = events \/ events' = Told({Event(i, "created")})
    BY DEF RunCreate
  <2>2. CASE events' = events
    BY <2>2 DEF DeliveryInv, EventsOK
  <2>3. CASE events' = Told({Event(i, "created")})
    BY <2>3, ToldKinds, EventKind DEF DeliveryInv
  <2> QED
    BY <2>1, <2>2, <2>3
<1> QED
  BY <1>6, <1>7, <1>8, <1>9, <1>10 DEF RowsKept

\* Rows that change in their content, once the create is settled, or are deleted,
\* perhaps with their attachments.
LEMMA OthersKeepRows ==
    ASSUME DeliveryInv, UNCHANGED workerVars, rows' \in [Messages -> RowType], EventsOK',
           \A m \in Messages :
               /\ rows'[m].status = rows[m].status
               /\ rows[m].deleted => rows'[m].deleted
               /\ rows'[m].content = rows[m].content \/ Settled(items[m])
               /\ rows'[m].attached = rows[m].attached \/ rows'[m].deleted
    PROVE  RowsKept
<1>1. \A j \in Items : RowOK(rows'[j], items[j]) /\ Whole(j, rows'[j])
  <2>1. \A j \in Items : RowOK(rows'[j], items[j])
    BY DeliveryAssumption DEF DeliveryInv, StoreOK, RowOK
  <2>2. \A j \in Items : Whole(j, rows'[j])
    BY DeliveryAssumption DEF DeliveryInv, StoreOK, Whole
  <2> QED
    BY <2>1, <2>2
<1>2. IsFiniteSet(Stored')
  BY SameStored DEF DeliveryInv
<1>3. WorkerOK' /\ NothingForgotten'
  <2>1. \A m \in Messages : Pending(m)' => Pending(m)
    BY DEF Pending
  <2>2. UNCHANGED <<scheduled, processing, channel, worker, backlog, refilled, unqueued>>
    BY DEF workerVars
  <2>3. unqueued \subseteq unqueued' /\ unqueued' \subseteq Messages
    BY <2>2 DEF DeliveryInv, WorkerOK
  <2> QED
    BY <2>1, <2>2, <2>3, RowsKeepWorker DEF DeliveryInv
<1> QED
  BY <1>1, <1>2, <1>3 DEF RowsKept

\* An edit changes the content of a message whose create is settled.
LEMMA EditRuns ==
    ASSUME DeliveryInv, NEW i \in Items, NEW rev \in Revisions, Settled(items[i]),
           RunEdit(i, rev)
    PROVE  RowsKept
<1>1. i \in Messages /\ rows \in [Messages -> RowType]
  BY DeliveryAssumption DEF DeliveryInv, StoreOK
<1> DEFINE row == [rows[i] EXCEPT !.content = rev]
<1>2. /\ row \in RowType /\ row.status = rows[i].status /\ row.deleted = rows[i].deleted
      /\ row.attached = rows[i].attached
  BY <1>1 DEF RowType
<1>3. rows' = rows \/ rows' = [rows EXCEPT ![i] = row]
  BY <1>1 DEF RunEdit
<1>4. UNCHANGED workerVars
  BY DEF RunEdit
<1> HIDE DEF row
<1>5. rows' \in [Messages -> RowType]
  BY <1>1, <1>2, <1>3
<1>6. \A m \in Messages : /\ rows'[m].status = rows[m].status
                          /\ rows[m].deleted => rows'[m].deleted
                          /\ rows'[m].content = rows[m].content \/ Settled(items[m])
                          /\ rows'[m].attached = rows[m].attached \/ rows'[m].deleted
  BY <1>1, <1>2, <1>3
<1>7. EventsOK'
  <2>1. events' = events \/ events' = Told({Event(i, "updated")})
    BY DEF RunEdit
  <2>2. CASE events' = events
    BY <2>2 DEF DeliveryInv, EventsOK
  <2>3. CASE events' = Told({Event(i, "updated")})
    BY <2>3, ToldKinds, EventKind DEF DeliveryInv
  <2> QED
    BY <2>1, <2>2, <2>3
<1> QED
  BY <1>4, <1>5, <1>6, <1>7, OthersKeepRows

\* A deletion marks a published message.
LEMMA DeleteRuns ==
    ASSUME DeliveryInv, NEW i \in Items, RunDelete(i)
    PROVE  RowsKept
<1>1. i \in Messages /\ rows \in [Messages -> RowType]
  BY DeliveryAssumption DEF DeliveryInv, StoreOK
<1> DEFINE row == [rows[i] EXCEPT !.deleted = TRUE]
<1>2. row \in RowType /\ row.status = rows[i].status /\ row.deleted
      /\ row.content = rows[i].content
  BY <1>1 DEF RowType
<1>3. rows' = rows \/ rows' = [rows EXCEPT ![i] = row]
  BY <1>1 DEF RunDelete
<1>4. UNCHANGED workerVars
  BY DEF RunDelete
<1> HIDE DEF row
<1>5. rows' \in [Messages -> RowType]
  BY <1>1, <1>2, <1>3
<1>6. \A m \in Messages : /\ rows'[m].status = rows[m].status
                          /\ rows[m].deleted => rows'[m].deleted
                          /\ rows'[m].content = rows[m].content \/ Settled(items[m])
                          /\ rows'[m].attached = rows[m].attached \/ rows'[m].deleted
  BY <1>1, <1>2, <1>3
<1>7. EventsOK'
  <2>1. events' = events \/ events' = Told({Event(i, "deleted")})
    BY DEF RunDelete
  <2>2. CASE events' = events
    BY <2>2 DEF DeliveryInv, EventsOK
  <2>3. CASE events' = Told({Event(i, "deleted")})
    BY <2>3, ToldKinds, EventKind DEF DeliveryInv
  <2> QED
    BY <2>1, <2>2, <2>3
<1> QED
  BY <1>4, <1>5, <1>6, <1>7, OthersKeepRows

-----------------------------------------------------------------------------
(* The steps.                                                              *)

\* A step that leaves the items in order, the rows and what is late.
LEMMA InvStep ==
    ASSUME DeliveryInv, online' \in BOOLEAN, Keeps(items, items'), RowsKept,
           \A r \in late' : r.item \in Items /\ LateOK(r, items[r.item])
    PROVE  DeliveryInv'
<1>1. StoreOK'
  BY StoreStep DEF RowsKept
<1> QED
  BY <1>1 DEF DeliveryInv, Keeps, RowsKept

\* A step of the client alone, and of the connection.
LEMMA ClientStays ==
    ASSUME DeliveryInv, online' \in BOOLEAN, Keeps(items, items'),
           UNCHANGED <<rows, workerVars>>, events' \subseteq events,
           \A r \in late' : r.item \in Items /\ LateOK(r, items[r.item])
    PROVE  DeliveryInv'
<1>1. EventsOK'
  BY DEF DeliveryInv, EventsOK
<1>2. /\ rows' \in [Messages -> RowType]
      /\ \A m \in Messages : /\ rows'[m].status = rows[m].status
                             /\ rows[m].deleted => rows'[m].deleted
                             /\ rows'[m].content = rows[m].content \/ Settled(items[m])
                             /\ rows'[m].attached = rows[m].attached \/ rows'[m].deleted
  BY DEF DeliveryInv, StoreOK
<1>3. RowsKept
  BY <1>1, <1>2, OthersKeepRows
<1> QED
  BY <1>3, InvStep

\* A step of the outbox.
LEMMA OutboxStep ==
    ASSUME DeliveryInv, NEW next, Keeps(items, next), Client(next)
    PROVE  DeliveryInv'
<1>1. \A r \in late' : r.item \in Items /\ LateOK(r, items[r.item])
  BY DEF Client, DeliveryInv, StoreOK
<1> QED
  BY <1>1, ClientStays DEF Client, DeliveryInv

\* The same, of the disturbances that are left.
LEMMA DisturbedStep ==
    ASSUME DeliveryInv, Keeps(items, items'),
           UNCHANGED <<rows, workerVars, online, late, events>>
    PROVE  DeliveryInv'
<1>1. \A r \in late' : r.item \in Items /\ LateOK(r, items[r.item])
  BY DEF DeliveryInv, StoreOK
<1> QED
  BY <1>1, ClientStays DEF DeliveryInv

\* What comes, or does not come, of requests that are under way.
LEMMA RepliesFit ==
    ASSUME NEW t, ItemOK(t), NEW u \in ItemType,
           u.stage = t.stage, u.create = t.create, u.cancelled = t.cancelled,
           u.operation = t.operation, u.inflight = t.inflight,
           u.confirmed = t.confirmed, u.failed = t.failed,
           u.answer # "none" => t.answer # "none",
           u.deletion # "none" => t.deletion # "none"
    PROVE  Fits(t, u)
BY DEF Fits, Evolves, Settled, ItemOK, Underways, Unfailed, IsPending, HoldsSlot, Rests

\* The answer to a request that is under way.
LEMMA AnswerKeeps ==
    ASSUME NEW f, OutboxOK(f), NEW i \in Items, f[i].answer = "sent", NEW a \in Answers
    PROVE  Keeps(f, [f EXCEPT ![i].answer = a])
<1> DEFINE u == [f[i] EXCEPT !.answer = a]
<1>1. [f EXCEPT ![i].answer = a] = [f EXCEPT ![i] = u] /\ f[i] \in ItemType
  BY OfItem
<1>2. u \in ItemType
  BY <1>1 DEF ItemType
<1>3. /\ u.stage = f[i].stage /\ u.create = f[i].create /\ u.cancelled = f[i].cancelled
      /\ u.operation = f[i].operation /\ u.inflight = f[i].inflight
      /\ u.confirmed = f[i].confirmed /\ u.failed = f[i].failed
      /\ u.deletion = f[i].deletion
  BY <1>1 DEF ItemType
<1> HIDE DEF u
<1>4. Fits(f[i], u)
  BY <1>2, <1>3, OfItem, RepliesFit
<1>5. Keeps(f, [f EXCEPT ![i] = u])
  BY <1>4, ChangeKeeps
<1> QED
  BY <1>1, <1>5

\* The answer to a deletion that is under way.
LEMMA DeletionKeeps ==
    ASSUME NEW f, OutboxOK(f), NEW i \in Items, f[i].deletion = "sent", NEW a \in Answers
    PROVE  Keeps(f, [f EXCEPT ![i].deletion = a])
<1> DEFINE u == [f[i] EXCEPT !.deletion = a]
<1>1. [f EXCEPT ![i].deletion = a] = [f EXCEPT ![i] = u] /\ f[i] \in ItemType
  BY OfItem
<1>2. u \in ItemType
  BY <1>1 DEF ItemType
<1>3. /\ u.stage = f[i].stage /\ u.create = f[i].create /\ u.cancelled = f[i].cancelled
      /\ u.operation = f[i].operation /\ u.inflight = f[i].inflight
      /\ u.confirmed = f[i].confirmed /\ u.failed = f[i].failed
      /\ u.answer = f[i].answer
  BY <1>1 DEF ItemType
<1> HIDE DEF u
<1>4. Fits(f[i], u)
  BY <1>2, <1>3, OfItem, RepliesFit
<1>5. Keeps(f, [f EXCEPT ![i] = u])
  BY <1>4, ChangeKeeps
<1> QED
  BY <1>1, <1>5

\* The answer to a check that is under way.
LEMMA CheckKeeps ==
    ASSUME NEW f, OutboxOK(f), NEW i \in Items, NEW a \in Answers
    PROVE  Keeps(f, [f EXCEPT ![i].checking = a])
<1> DEFINE u == [f[i] EXCEPT !.checking = a]
<1>1. [f EXCEPT ![i].checking = a] = [f EXCEPT ![i] = u] /\ f[i] \in ItemType
  BY OfItem
<1>2. u \in ItemType
  BY <1>1 DEF ItemType
<1>3. /\ u.stage = f[i].stage /\ u.create = f[i].create /\ u.cancelled = f[i].cancelled
      /\ u.operation = f[i].operation /\ u.inflight = f[i].inflight
      /\ u.confirmed = f[i].confirmed /\ u.failed = f[i].failed
      /\ u.answer = f[i].answer /\ u.deletion = f[i].deletion
  BY <1>1 DEF ItemType
<1> HIDE DEF u
<1>4. Fits(f[i], u)
  BY <1>2, <1>3, OfItem, RepliesFit
<1>5. Keeps(f, [f EXCEPT ![i] = u])
  BY <1>4, ChangeKeeps
<1> QED
  BY <1>1, <1>5

\* A request that the client gives up may still run as it was sent.
LEMMA AbandonedLate ==
    ASSUME DeliveryInv, NEW i \in Items, NEW r \in Abandoned(i)
    PROVE  r.item = i /\ LateOK(r, items[i])
<1>1. Underways(items[i]) /\ items[i] \in ItemType
  BY OfItem DEF DeliveryInv
<1>2. CASE r = [item |-> i, kind |-> items[i].operation, revision |-> items[i].inflight]
           /\ items[i].answer = "sent"
  <2>1. items[i].operation \in {"create", "edit"} /\ items[i].inflight \in Revisions
    BY <1>1, <1>2 DEF Underways, ItemType
  <2>2. r.item = i /\ r.kind = items[i].operation /\ r.revision = items[i].inflight
    BY <1>2
  <2> QED
    BY <1>1, <2>1, <2>2 DEF LateOK, Underways, Settled
<1>3. CASE r = [item |-> i, kind |-> "delete", revision |-> None]
  BY <1>3 DEF LateOK
<1> QED
  BY <1>2, <1>3 DEF Abandoned

\* What the user does.
LEMMA UserKeeps ==
    ASSUME DeliveryInv, NEW i \in Items, Add(i) \/ Edit(i) \/ Cancel(i) \/ Retry(i)
    PROVE  DeliveryInv'
<1>1. OutboxOK(items) /\ online \in BOOLEAN
  BY DEF DeliveryInv
<1>2. CASE Add(i)
  <2>1. items[i].stage = "unused" /\ Client(Added(items, i, i \notin Uploads, online))
    BY <1>2 DEF Add
  <2>2. Keeps(items, Added(items, i, i \notin Uploads, online))
    BY <1>1, <2>1, AddedKeeps
  <2> QED
    BY <2>1, <2>2, OutboxStep
<1>3. CASE Edit(i)
  <2>1. items' = Edited(items, i, online) /\ UNCHANGED <<rows, workerVars, online, late, events>>
    BY <1>3 DEF Edit
  <2>2. Keeps(items, items')
    BY <1>1, <2>1, EditedKeeps
  <2> QED
    BY <2>1, <2>2, DisturbedStep
<1>4. CASE Cancel(i)
  <2>1. /\ items' = Cancelled(items, i, online)
        /\ UNCHANGED <<rows, workerVars, online, late, events>>
        /\ IsPending(items[i]) \/ items[i].confirmed
    BY <1>4 DEF Cancel
  <2>2. Keeps(items, items')
    BY <1>1, <2>1, CancelledKeeps
  <2> QED
    BY <2>1, <2>2, DisturbedStep
<1>5. CASE Retry(i)
  BY <1>1, <1>5, RetriedKeeps, OutboxStep DEF Retry
<1> QED
  BY <1>2, <1>3, <1>4, <1>5

\* An event, or a range that was loaded.
LEMMA SeenKeeps ==
    ASSUME DeliveryInv, NEW i \in Items, DeliverEvent(i) \/ Load(i)
    PROVE  DeliveryInv'
<1>1. OutboxOK(items) /\ online \in BOOLEAN
  BY DEF DeliveryInv
<1>2. CASE DeliverEvent(i)
  <2>1. PICK e \in events :
          /\ events' = events \ {e}
          /\ items' = CASE e.kind = "created" -> Created(items, i, TRUE, online)
                        [] e.kind = "updated" -> UpdateSeen(items, i, e.content, online)
                        [] e.kind = "deleted" -> DeletionSeen(items, i, online)
          /\ UNCHANGED <<rows, workerVars, online, late, budget>>
    BY <1>2 DEF DeliverEvent
  <2>2. e.kind \in {"created", "updated", "deleted"}
    BY DEF DeliveryInv, EventsOK
  <2>3. items' \in {Created(items, i, TRUE, online), UpdateSeen(items, i, e.content, online),
                    DeletionSeen(items, i, online)}
    BY <2>1, <2>2
  <2>4. Keeps(items, items')
    BY <1>1, <2>3, CreatedKeeps, UpdateSeenKeeps, DeletionSeenKeeps
  <2>5. \A r \in late' : r.item \in Items /\ LateOK(r, items[r.item])
    BY <2>1 DEF DeliveryInv, StoreOK
  <2> QED
    BY <1>1, <2>1, <2>4, <2>5, ClientStays
<1>3. CASE Load(i)
  BY <1>1, <1>3, ReleasedKeeps, OutboxStep DEF Load
<1> QED
  BY <1>2, <1>3

\* The client's own steps.
LEMMA ClientKeeps ==
    ASSUME DeliveryInv, NEW i \in Items,
           \/ FinishUploads(i) \/ FailUploads(i) \/ TakeAnswer(i) \/ TakeDeletion(i)
           \/ TakeCheck(i) \/ TimerFires(i)
    PROVE  DeliveryInv'
<1>1. OutboxOK(items) /\ online \in BOOLEAN
  BY DEF DeliveryInv
<1>2. CASE FinishUploads(i)
  BY <1>1, <1>2, UploadsEndedKeeps, OutboxStep DEF FinishUploads
<1>3. CASE FailUploads(i)
  <2>1. PICK again \in BOOLEAN : items' = UploadsFailed(items, i, again, online)
    BY <1>3 DEF FailUploads
  <2>2. Keeps(items, items')
    BY <1>1, <2>1, UploadsFailedKeeps
  <2> QED
    BY <1>3, <2>2, DisturbedStep DEF FailUploads
<1>4. CASE TakeAnswer(i)
  BY <1>1, <1>4, AnsweredKeeps, OutboxStep DEF TakeAnswer, Underway
<1>5. CASE TakeDeletion(i)
  BY <1>1, <1>5, DeletionAnsweredKeeps, OutboxStep DEF TakeDeletion, Underway
<1>6. CASE TakeCheck(i)
  BY <1>1, <1>6, CheckAnsweredKeeps, OutboxStep DEF TakeCheck
<1>7. CASE TimerFires(i)
  BY <1>1, <1>7, RetriedKeeps, OutboxStep DEF TimerFires
<1> QED
  BY <1>2, <1>3, <1>4, <1>5, <1>6, <1>7

\* What the server answers with.
LEMMA VerdictKind == \A ok : Verdict(ok) \in Answers
BY DEF Verdict, Answers

\* The server's handlers.
LEMMA ServerKeeps ==
    ASSUME DeliveryInv, NEW i \in Items,
           \/ ServeCreate(i) \/ ServeEdit(i) \/ ServeDelete(i) \/ ServeCheck(i) \/ Refuse(i)
    PROVE  DeliveryInv'
<1>1. OutboxOK(items) /\ online \in BOOLEAN
      /\ \A r \in late : r.item \in Items /\ LateOK(r, items[r.item])
  BY DEF DeliveryInv, StoreOK
<1>2. Underways(items[i]) /\ items[i].inflight \in Revisions
  BY <1>1, OfItem DEF ItemType
<1>3. CASE ServeCreate(i)
  <2>1. /\ items[i].operation = "create" /\ items[i].answer = "sent"
        /\ RunCreate(i, items[i].inflight)
        /\ items' = [items EXCEPT ![i].answer = Verdict(Accepted(i, items[i].inflight))]
        /\ UNCHANGED <<online, late, budget>>
    BY <1>3 DEF ServeCreate
  <2>2. items[i].inflight = items[i].create /\ items[i].create # None
    BY <1>2, <2>1 DEF Underways
  <2>3. RowsKept
    BY <2>1, <2>2, CreateRuns
  <2>4. Keeps(items, items')
    BY <1>1, <2>1, AnswerKeeps, VerdictKind
  <2> QED
    BY <1>1, <2>1, <2>3, <2>4, InvStep
<1>4. CASE ServeEdit(i)
  <2>1. /\ items[i].operation = "edit" /\ items[i].answer = "sent"
        /\ RunEdit(i, items[i].inflight)
        /\ items' = [items EXCEPT ![i].answer =
                         Verdict(rows[i].published /\ ~rows[i].deleted)]
        /\ UNCHANGED <<online, late, budget>>
    BY <1>4 DEF ServeEdit
  <2>2. Settled(items[i])
    BY <1>2, <2>1 DEF Underways, Settled
  <2>3. RowsKept
    BY <1>2, <2>1, <2>2, EditRuns
  <2>4. Keeps(items, items')
    BY <1>1, <2>1, AnswerKeeps, VerdictKind
  <2> QED
    BY <1>1, <2>1, <2>3, <2>4, InvStep
<1>5. CASE ServeDelete(i)
  <2> DEFINE a == IF rows[i].deleted THEN "gone" ELSE Verdict(rows[i].published)
  <2>1. /\ items[i].deletion = "sent" /\ RunDelete(i)
        /\ items' = [items EXCEPT ![i].deletion = a]
        /\ UNCHANGED <<online, late, budget>>
    BY <1>5 DEF ServeDelete
  <2>2. a \in Answers
    BY VerdictKind DEF Answers
  <2> HIDE DEF a
  <2>3. RowsKept
    BY <2>1, DeleteRuns
  <2>4. Keeps(items, items')
    BY <1>1, <2>1, <2>2, DeletionKeeps
  <2> QED
    BY <1>1, <2>1, <2>3, <2>4, InvStep
<1>6. CASE ServeCheck(i)
  <2>1. items' = [items EXCEPT ![i].checking =
                      Verdict(rows[i].published /\ ~rows[i].deleted)]
        /\ UNCHANGED <<rows, workerVars, online, late, events>>
    BY <1>6 DEF ServeCheck
  <2>2. Keeps(items, items')
    BY <1>1, <2>1, CheckKeeps, VerdictKind
  <2> QED
    BY <2>1, <2>2, DisturbedStep
<1>7. CASE Refuse(i)
  <2>1. /\ \/ /\ items[i].answer = "sent"
              /\ items' = [items EXCEPT ![i].answer = "refused"]
           \/ /\ items[i].deletion = "sent"
              /\ items' = [items EXCEPT ![i].deletion = "refused"]
        /\ UNCHANGED <<rows, workerVars, online, late, events>>
    BY <1>7 DEF Refuse
  <2>2. "refused" \in Answers
    BY DEF Answers
  <2>3. Keeps(items, items')
    <3>1. CASE /\ items[i].answer = "sent"
               /\ items' = [items EXCEPT ![i].answer = "refused"]
      BY <1>1, <2>2, <3>1, AnswerKeeps
    <3>2. CASE /\ items[i].deletion = "sent"
               /\ items' = [items EXCEPT ![i].deletion = "refused"]
      BY <1>1, <2>2, <3>2, DeletionKeeps
    <3> QED
      BY <2>1, <3>1, <3>2
  <2> QED
    BY <2>1, <2>3, DisturbedStep
<1> QED
  BY <1>3, <1>4, <1>5, <1>6, <1>7

\* A request that runs when nobody waits for it.
LEMMA LateKeeps ==
    ASSUME DeliveryInv, ServeLate PROVE DeliveryInv'
<1>1. PICK r \in late :
        /\ late' = late \ {r}
        /\ CASE r.kind = "create" -> RunCreate(r.item, r.revision)
             [] r.kind = "edit" -> RunEdit(r.item, r.revision)
             [] r.kind = "delete" -> RunDelete(r.item)
        /\ UNCHANGED <<items, online, budget>>
  BY DEF ServeLate
<1>2. r.item \in Items /\ LateOK(r, items[r.item])
  BY DEF DeliveryInv, StoreOK
<1>3. RowsKept
  <2>1. CASE r.kind = "create"
    BY <1>1, <1>2, <2>1, CreateRuns DEF LateOK
  <2>2. CASE r.kind = "edit"
    BY <1>1, <1>2, <2>2, EditRuns DEF LateOK
  <2>3. CASE r.kind = "delete"
    BY <1>1, <1>2, <2>3, DeleteRuns
  <2> QED
    BY <1>2, <2>1, <2>2, <2>3 DEF LateOK
<1>4. Keeps(items, items') /\ online' \in BOOLEAN
  BY <1>1, KeepsSame DEF DeliveryInv
<1>5. \A o \in late' : o.item \in Items /\ LateOK(o, items[o.item])
  BY <1>1 DEF DeliveryInv, StoreOK
<1> QED
  BY <1>3, <1>4, <1>5, InvStep

\* Somebody else deletes the messages.
LEMMA CleanUpKeeps ==
    ASSUME DeliveryInv, CleanUp PROVE DeliveryInv'
<1> DEFINE gone == {m \in Messages : rows[m].status # "absent" /\ ~rows[m].deleted}
           row(m) == IF m \in gone
                     THEN [rows[m] EXCEPT !.deleted = TRUE, !.attached = FALSE]
                     ELSE rows[m]
<1>1. /\ rows' = [m \in Messages |-> row(m)]
      /\ events' = Told({Event(m, "deleted") : m \in gone})
      /\ UNCHANGED <<workerVars, items, online, late>>
  BY DEF CleanUp
<1>2. \A m \in Messages :
        /\ row(m) \in RowType /\ row(m).status = rows[m].status
        /\ rows[m].deleted => row(m).deleted
        /\ row(m).content = rows[m].content
        /\ row(m).attached = rows[m].attached \/ row(m).deleted
  BY DEF DeliveryInv, StoreOK, RowType
<1> HIDE DEF row, gone
<1>3. EventsOK'
  <2>1. \A e \in {Event(m, "deleted") : m \in gone} : e.kind = "deleted"
    BY EventKind
  <2> QED
    BY <1>1, <2>1, ToldKinds DEF DeliveryInv
<1>4. RowsKept
  BY <1>1, <1>2, <1>3, OthersKeepRows
<1>5. Keeps(items, items') /\ online' \in BOOLEAN
      /\ \A r \in late' : r.item \in Items /\ LateOK(r, items[r.item])
  BY <1>1, KeepsSame DEF DeliveryInv, StoreOK
<1> QED
  BY <1>4, <1>5, InvStep

\* A request is given up.
LEMMA TimeoutKeeps ==
    ASSUME DeliveryInv, NEW i \in Items, Timeout(i) PROVE DeliveryInv'
<1> DEFINE t == items[i]
           u == [t EXCEPT !.answer = LostIfSent(t.answer),
                          !.deletion = LostIfSent(t.deletion),
                          !.checking = LostIfSent(t.checking)]
<1>1. OutboxOK(items) /\ items \in [Items -> ItemType] /\ t \in ItemType /\ ItemOK(t)
  BY OfItem DEF DeliveryInv
<1>2. items' = [items EXCEPT ![i] = u] /\ late' = late \cup Abandoned(i)
      /\ UNCHANGED <<rows, workerVars, online, events>>
  BY <1>1 DEF Timeout
<1>3. /\ LostIfSent(t.answer) \in Answers /\ LostIfSent(t.deletion) \in Answers
      /\ LostIfSent(t.checking) \in Answers
      /\ (LostIfSent(t.answer) # "none" => t.answer # "none")
      /\ (LostIfSent(t.deletion) # "none" => t.deletion # "none")
  BY <1>1 DEF LostIfSent, ItemType, Answers
<1>4. u \in ItemType
  BY <1>1, <1>3 DEF ItemType
<1>5. /\ u.stage = t.stage /\ u.create = t.create /\ u.cancelled = t.cancelled
      /\ u.operation = t.operation /\ u.inflight = t.inflight
      /\ u.confirmed = t.confirmed /\ u.failed = t.failed
      /\ u.answer = LostIfSent(t.answer) /\ u.deletion = LostIfSent(t.deletion)
  BY <1>1 DEF ItemType
<1> HIDE DEF u
<1>6. Fits(t, u)
  BY <1>1, <1>3, <1>4, <1>5, RepliesFit
<1>7. Keeps(items, items')
  BY <1>1, <1>2, <1>6, ChangeKeeps
<1>8. \A r \in late' : r.item \in Items /\ LateOK(r, items[r.item])
  BY <1>2, AbandonedLate DEF DeliveryInv, StoreOK
<1> QED
  BY <1>2, <1>7, <1>8, ClientStays DEF DeliveryInv

\* The connection is lost: so are answers, and requests may run late.
LEMMA DroppedKeeps ==
    ASSUME DeliveryInv, Dropped
    PROVE  /\ Keeps(items, items') /\ online' \in BOOLEAN /\ EventsOK'
           /\ \A r \in late' : r.item \in Items /\ LateOK(r, items[r.item])
<1> DEFINE u(i) == [items[i] EXCEPT !.answer = Lost(@), !.deletion = Lost(@),
                                    !.checking = Lost(@)]
<1>1. OutboxOK(items)
  BY DEF DeliveryInv
<1>2. items' = [i \in Items |-> u(i)] /\ online' = FALSE /\ events' = {}
      /\ late' = late \cup UNION {Abandoned(i) : i \in Items}
  BY DEF Dropped
<1>3. ASSUME NEW i \in Items PROVE Fits(items[i], u(i))
  <2> DEFINE t == items[i]
             v == [t EXCEPT !.answer = Lost(t.answer), !.deletion = Lost(t.deletion),
                            !.checking = Lost(t.checking)]
  <2>1. t \in ItemType /\ ItemOK(t)
    BY <1>1, OfItem
  <2>2. u(i) = v
    BY <2>1 DEF ItemType
  <2>3. /\ Lost(t.answer) \in Answers /\ Lost(t.deletion) \in Answers
        /\ Lost(t.checking) \in Answers
        /\ Lost(t.answer) # "none" => t.answer # "none"
        /\ Lost(t.deletion) # "none" => t.deletion # "none"
    BY DEF Lost, Answers
  <2>4. v \in ItemType
    BY <2>1, <2>3 DEF ItemType
  <2>5. /\ v.stage = t.stage /\ v.create = t.create /\ v.cancelled = t.cancelled
        /\ v.operation = t.operation /\ v.inflight = t.inflight
        /\ v.confirmed = t.confirmed /\ v.failed = t.failed
        /\ v.answer = Lost(t.answer) /\ v.deletion = Lost(t.deletion)
    BY <2>1 DEF ItemType
  <2> HIDE DEF v, u
  <2>6. Fits(t, v)
    BY <2>1, <2>3, <2>4, <2>5, RepliesFit
  <2> QED
    BY <2>2, <2>6
<1> HIDE DEF u
<1>4. DOMAIN items' = Items /\ items' = [i \in Items |-> items'[i]]
      /\ \A i \in Items : items'[i] = u(i)
  BY <1>2
<1>5. Keeps(items, items')
  BY <1>1, <1>3, <1>4, ChangesKeep
<1>6. \A r \in late' : r.item \in Items /\ LateOK(r, items[r.item])
  BY <1>2, AbandonedLate DEF DeliveryInv, StoreOK
<1> QED
  BY <1>2, <1>5, <1>6 DEF EventsOK

\* The connection and the server come and go.
LEMMA ConnectionKeeps ==
    ASSUME DeliveryInv, Disconnect \/ Restart \/ Reconnect \/ Resync
    PROVE  DeliveryInv'
<1>1. OutboxOK(items) /\ online \in BOOLEAN
      /\ \A r \in late : r.item \in Items /\ LateOK(r, items[r.item])
  BY DEF DeliveryInv, StoreOK
<1>2. CASE Disconnect
  <2>1. Dropped /\ UNCHANGED <<rows, workerVars>> /\ events' \subseteq events
    BY <1>2 DEF Disconnect, Dropped
  <2> QED
    BY <2>1, DroppedKeeps, ClientStays
<1>3. CASE Restart
  <2>1. Dropped /\ WorkerRestarts /\ rows' = rows
    BY <1>3 DEF Restart
  <2>2. WorkerOK' /\ NothingForgotten'
    BY <2>1, RestartKeeps DEF DeliveryInv
  <2>3. IsFiniteSet(Stored')
    BY <2>1, SameStored DEF DeliveryInv
  <2>4. RowsKept
    BY <2>1, <2>2, <2>3, DroppedKeeps DEF RowsKept, DeliveryInv, StoreOK
  <2> QED
    BY <2>1, <2>4, DroppedKeeps, InvStep
<1>4. CASE Reconnect
  <2>1. items' = Resynced(items, TRUE) /\ online' = TRUE
        /\ UNCHANGED <<rows, workerVars, late, events, budget>>
    BY <1>4 DEF Reconnect
  <2>2. Keeps(items, items')
    BY <1>1, <2>1, ResyncedKeeps
  <2> QED
    BY <1>1, <2>1, <2>2, ClientStays
<1>5. CASE Resync
  BY <1>1, <1>5, ResyncedKeeps, OutboxStep DEF Resync
<1> QED
  BY <1>2, <1>3, <1>4, <1>5

\* A step of the worker that leaves the rows.
LEMMA WorkerStays ==
    ASSUME DeliveryInv, rows' = rows, WorkerOK', NothingForgotten',
           UNCHANGED <<items, online, late, events>>
    PROVE  DeliveryInv'
<1>1. IsFiniteSet(Stored')
  BY SameStored DEF DeliveryInv
<1>2. RowsKept
  BY <1>1 DEF RowsKept, DeliveryInv, StoreOK, EventsOK
<1>3. Keeps(items, items') /\ online' \in BOOLEAN
      /\ \A r \in late' : r.item \in Items /\ LateOK(r, items[r.item])
  BY KeepsSame DEF DeliveryInv, StoreOK
<1> QED
  BY <1>2, <1>3, InvStep

\* A message that is published keeps what it holds.
LEMMA PublishesKeeps ==
    ASSUME DeliveryInv, NEW status \in {"done", "failed"}, Publishes(status), EventsOK',
           UNCHANGED <<items, online, late>>
    PROVE  DeliveryInv'
<1>1. processing \in Messages /\ rows \in [Messages -> RowType]
  BY DEF DeliveryInv, StoreOK, WorkerOK, Publishes
<1> DEFINE row == [rows[processing] EXCEPT !.published = TRUE, !.status = status]
<1>2. rows' = [rows EXCEPT ![processing] = row]
  BY <1>1 DEF Publishes
<1>3. /\ row \in RowType /\ row.content = rows[processing].content
      /\ row.attached = rows[processing].attached /\ row.deleted = rows[processing].deleted
  BY <1>1 DEF RowType
<1> HIDE DEF row
<1>4. rows' \in [Messages -> RowType]
  BY <1>1, <1>2, <1>3
<1>5. WorkerOK' /\ NothingForgotten'
  BY JobKeeps DEF DeliveryInv
<1>6. rows[processing].status # "absent"
  BY DEF DeliveryInv, WorkerOK, Publishes
<1>7. \A m \in Messages : /\ rows'[m].content = rows[m].content
                          /\ rows'[m].attached = rows[m].attached
                          /\ rows'[m].deleted = rows[m].deleted
                          /\ (rows'[m].status # "absent" => rows[m].status # "absent")
  BY <1>1, <1>2, <1>3, <1>6
<1>8. IsFiniteSet(Stored')
  BY <1>7, SameStored DEF DeliveryInv
<1>9. \A j \in Items : RowOK(rows'[j], items[j]) /\ Whole(j, rows'[j])
  BY <1>7, DeliveryAssumption DEF DeliveryInv, StoreOK, RowOK, Whole
<1>10. RowsKept
  BY <1>4, <1>5, <1>8, <1>9 DEF RowsKept
<1>11. Keeps(items, items') /\ online' \in BOOLEAN
      /\ \A r \in late' : r.item \in Items /\ LateOK(r, items[r.item])
  BY KeepsSame DEF DeliveryInv, StoreOK
<1> QED
  BY <1>10, <1>11, InvStep

\* The worker's steps, and the sender's that leaves it a job.
LEMMA WorkKeeps ==
    ASSUME DeliveryInv,
           Work \/ PublishAudio \/ WorkFails \/ \E i \in Items : EnqueueJob(i)
    PROVE  DeliveryInv'
<1>1. WorkerOK /\ NothingForgotten /\ IsFiniteSet(Stored)
  BY DEF DeliveryInv
<1>2. CASE Work
  <2>1. rows' = rows /\ UNCHANGED <<items, online, late, events>>
    BY <1>2 DEF Work, RefillLoads, RefillEnqueues, Receive, Starts, Skips, clientVars
  <2>2. WorkerOK' /\ NothingForgotten'
    BY <1>1, <1>2, RefillKeeps, JobKeeps DEF Work
  <2> QED
    BY <2>1, <2>2, WorkerStays
<1>3. CASE PublishAudio
  <2>1. EventsOK'
    BY <1>3, ToldKinds, EventKind DEF PublishAudio, DeliveryInv
  <2> QED
    BY <1>3, <2>1, PublishesKeeps DEF PublishAudio
<1>4. CASE WorkFails
  <2>1. UNCHANGED <<items, online, late, events>> /\ EventsOK'
    BY <1>4 DEF WorkFails, DeliveryInv, EventsOK
  <2>2. CASE RefillFails \/ JobFails \/ Panics
    <3>1. rows' = rows
      BY <2>2 DEF RefillFails, JobFails, Panics
    <3>2. WorkerOK' /\ NothingForgotten'
      BY <1>1, <2>2, RefillKeeps, JobKeeps
    <3> QED
      BY <2>1, <3>1, <3>2, WorkerStays
  <2>3. CASE Publishes("done")
    BY <2>1, <2>3, PublishesKeeps
  <2> QED
    BY <1>4, <2>2, <2>3 DEF WorkFails
<1>5. CASE \E i \in Items : EnqueueJob(i)
  <2>1. PICK i \in Items : EnqueueSent(i) /\ UNCHANGED clientVars
    BY <1>5 DEF EnqueueJob
  <2>2. rows' = rows /\ UNCHANGED <<items, online, late, events>> /\ i \in Messages
    BY <2>1, DeliveryAssumption DEF EnqueueSent, clientVars
  <2>3. WorkerOK' /\ NothingForgotten'
    BY <1>1, <2>1, <2>2, EnqueueSentKeeps
  <2> QED
    BY <2>2, <2>3, WorkerStays
<1> QED
  BY <1>2, <1>3, <1>4, <1>5

\* Every step keeps the invariant.
LEMMA NextKeeps ==
    ASSUME DeliveryInv, [Next]_vars PROVE DeliveryInv'
<1>1. CASE UNCHANGED vars
  <2>1. rows' = rows /\ UNCHANGED <<items, online, late, events>> /\ UNCHANGED workerVars
    BY <1>1 DEF vars, clientVars
  <2>2. WorkerOK' /\ NothingForgotten'
    BY <2>1 DEF DeliveryInv, WorkerOK, NothingForgotten, Pending, workerVars
  <2> QED
    BY <2>1, <2>2, WorkerStays
<1>2. ASSUME NEW i \in Items,
             \/ Add(i) \/ Edit(i) \/ Cancel(i) \/ Retry(i)
             \/ ClientStep(i) \/ TakeCheck(i) \/ FailUploads(i)
             \/ ServerStep(i) \/ ServeCheck(i) \/ Refuse(i) \/ Timeout(i) \/ Load(i)
      PROVE  DeliveryInv'
  BY <1>2, UserKeeps, ClientKeeps, SeenKeeps, ServerKeeps, TimeoutKeeps, WorkKeeps
  DEF ClientStep, ServerStep
<1>3. CASE \/ ServeLate \/ CleanUp \/ Disconnect \/ Restart \/ Reconnect \/ Resync
           \/ WorkerStep \/ WorkFails
  BY <1>3, LateKeeps, CleanUpKeeps, ConnectionKeeps, WorkKeeps DEF WorkerStep
<1> QED
  BY <1>1, <1>2, <1>3 DEF Next

-----------------------------------------------------------------------------
(* The theorems.                                                           *)

\* The invariant holds of an outbox that is empty and a server without messages.
LEMMA InitInv == Init => DeliveryInv
<1> SUFFICES ASSUME Init PROVE DeliveryInv
  OBVIOUS
<1>1. PICK c \in Conversations :
        items = [i \in Items |-> IF i \in c.used THEN Unused ELSE Removed(Unused)]
  BY DEF Init
<1>2. ItemOK(Unused) /\ ~HoldsSlot(Unused)
  <2>1. Unused \in ItemType
    BY DEF Unused, ItemType, Revisions, Answers
  <2>2. /\ Unused.stage = "unused" /\ Unused.create = None /\ ~Unused.confirmed
        /\ Unused.operation = "none" /\ Unused.inflight = None
        /\ Unused.answer = "none" /\ Unused.deletion = "none"
    BY DEF Unused
  <2> QED
    BY <2>1, <2>2 DEF ItemOK, Underways, Unfailed, HoldsSlot
<1>3. ItemOK(Removed(Unused)) /\ ~HoldsSlot(Removed(Unused))
  BY <1>2, RemovedFits DEF Fits
<1>4. OutboxOK(items)
  <2>1. \A i \in Items : items[i] \in {Unused, Removed(Unused)}
    BY <1>1
  <2>2. items \in [Items -> ItemType]
    BY <1>1, <1>2, <1>3 DEF ItemOK
  <2> QED
    BY <1>2, <1>3, <2>1, <2>2 DEF OutboxOK, InTurn
<1>5. StoreOK /\ EventsOK /\ online \in BOOLEAN
  BY DeliveryAssumption
  DEF Init, StoreOK, EventsOK, RowOK, Whole, NoRow, RowType, Revisions
<1>6. IsFiniteSet(Stored)
  <2>1. Stored = {}
    BY DEF Stored, Init, NoRow
  <2> QED
    BY <2>1, FS_EmptySet
<1>7. WorkerOK /\ NothingForgotten
  BY EmptySeq DEF Init, WorkerInit, WorkerOK, NothingForgotten
<1> QED
  BY <1>4, <1>5, <1>6, <1>7 DEF DeliveryInv

(* The invariant: what is under way of each message, what the server has   *)
(* of it and what the worker has to do agree, in every behaviour.          *)
THEOREM InductiveInvariant == Spec => []DeliveryInv
<1>1. Init => DeliveryInv
  BY InitInv
<1>2. DeliveryInv /\ [Next]_vars => DeliveryInv'
  BY NextKeeps
<1> QED
  BY <1>1, <1>2, PTL DEF Spec

(* A create that is repeated says what the server has stored under its     *)
(* key, whatever is edited, lost, given up and run late meanwhile (send),  *)
(* and is accepted unless the stored message was deleted.                  *)
THEOREM CreatesAreRepeated == Spec => []CreatesRepeat
<1>1. DeliveryInv => CreatesRepeat
  <2> SUFFICES ASSUME DeliveryInv, NEW i \in Items,
                      items[i].operation = "create", rows[i].status # "absent"
               PROVE  /\ rows[i].content = items[i].inflight
                      /\ Accepted(i, items[i].inflight) \/ rows[i].deleted
    BY DEF CreatesRepeat
  <2>1. Underways(items[i]) /\ RowOK(rows[i], items[i]) /\ Whole(i, rows[i])
    BY OfItem DEF DeliveryInv, StoreOK
  <2> QED
    BY <2>1 DEF Underways, RowOK, Settled, Whole, Accepted
<1> QED
  BY <1>1, InductiveInvariant, PTL

(* One create of a conversation at a time is under way: messages that are  *)
(* ready do not overtake each other (pump).                                *)
THEOREM CreatesTakeTurns == Spec => []CreatesInTurn
<1>1. DeliveryInv => CreatesInTurn
  BY DEF DeliveryInv, OutboxOK, InTurn, CreatesInTurn
<1> QED
  BY <1>1, InductiveInvariant, PTL

(* A message that is pending is never left to nobody: while the worker     *)
(* waits with nothing in the channel, its sender has still to enqueue it   *)
(* (run_worker, enqueue).                                                  *)
THEOREM NoAudioForgotten == Spec => []NothingForgotten
<1>1. DeliveryInv => NothingForgotten
  BY DEF DeliveryInv
<1> QED
  BY <1>1, InductiveInvariant, PTL
=============================================================================
