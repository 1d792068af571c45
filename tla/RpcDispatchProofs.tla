------------------------- MODULE RpcDispatchProofs -------------------------
(***************************************************************************)
(* Theorems about RpcDispatch, for every client and every bound.  The      *)
(* argument: while the session is open, every call that waits for a result *)
(* and counts towards a batch is counted by its entry in the table of      *)
(* batches, and nothing that is put aside for a batch has lost its entry.  *)
(* A flush therefore finds all that its batch owes, and the ids that it    *)
(* gives back are those of the requests it answers.                        *)
(*                                                                         *)
(* The actions are reduced to a few kinds of step (Reads, Appends,         *)
(* Finishes, Answers, Collects, Moves, Quiet), which say what becomes of   *)
(* the calls, the ids and the table; the invariants are shown for those.   *)
(***************************************************************************)
EXTENDS RpcDispatch, FiniteSetTheorems, SequenceTheorems, TLAPS

-----------------------------------------------------------------------------
(* The inductive invariant.                                                *)

\* A result is still to come.
Flying == {"running", "queued", "executing", "finished", "resulted"}

\* What a batch waits for.
Awaited(f) == {n \in Of(f) : CountsTowardBatch(calls[n]) /\ calls[n].stage \in Flying}

\* Before the first message, between it and its answer, after the answer.
HandshakeInv ==
    /\ first => calls = <<>> /\ frame = Idle
    /\ serving /\ ~first =>
        \/ /\ handshaking /\ calls = <<>>
           /\ ~frame.batch /\ frame.items # <<>> /\ Next1.id # NoId
        \/ /\ handshaking /\ Len(calls) = 1 /\ frame = Idle
           /\ calls[1].id # NoId /\ ~calls[1].batch
        \/ /\ ~handshaking /\ Len(calls) > 0 /\ calls[1].stage = "answered"

\* The frame being scheduled: what is left of it fits into the bounds.
FrameInv ==
    /\ frame # Idle => read > 0
    /\ ~frame.batch => frame = Idle \/ Len(frame.items) = 1
    /\ frame.batch =>
        read \in DOMAIN pending /\ pending[read] + Len(frame.items) <= MaxBatch
    /\ Len(calls) + Len(frame.items) <= client.calls
    /\ read <= client.frames
    /\ DOMAIN pending \subseteq 1..read

\* The calls of a frame: one single call, or the members of one batch.
CallsInv ==
    /\ \A n \in DOMAIN calls : calls[n].frame <= read
    /\ \A m, n \in DOMAIN calls : calls[m].frame = calls[n].frame =>
          /\ calls[m].batch = calls[n].batch
          /\ m # n => calls[n].batch
    /\ frame # Idle => \A n \in Of(read) : frame.batch /\ calls[n].batch
    /\ frame # Idle /\ ~frame.batch => read \notin DOMAIN pending
    /\ \A f \in DOMAIN pending : \A n \in Of(f) : calls[n].batch
    /\ \A n \in DOMAIN calls : calls[n].class = "invalid" => calls[n].stage \notin Flying

\* In an open session, what is put aside or counts has its batch in the table,
\* and no batch of the table has been answered in part.
StageInv ==
    ~closed =>
      /\ serving
      /\ \A n \in DOMAIN calls :
          /\ calls[n].stage # "lost"
          /\ calls[n].stage = "silent" => ~Responds(calls[n])
          /\ calls[n].stage = "dropped" => ~accepting
          /\ calls[n].stage = "held" =>
                Responds(calls[n]) /\ calls[n].frame \in DOMAIN pending
          /\ calls[n].stage \in Flying /\ calls[n].batch /\ CountsTowardBatch(calls[n])
                => calls[n].frame \in DOMAIN pending
          /\ calls[n].frame \in DOMAIN pending => calls[n].stage # "answered"

\* The two halves of PendingExact.
CountInv == ~closed => \A f \in DOMAIN pending : pending[f] = Cardinality(Awaited(f))
ExpectInv ==
    serving => \A f \in DOMAIN pending : pending[f] > 0 \/ (frame.batch /\ f = read)

IInv ==
    /\ TypeOK /\ HandshakeInv /\ FrameInv /\ CallsInv /\ StageInv
    /\ CountInv /\ ExpectInv /\ OutstandingExact /\ IdsExclusive

-----------------------------------------------------------------------------
(* What the steps do to the calls.                                          *)

\* The calls stay what they are; only those of S change their stage or outcome.
Kept(old, new, S) ==
    /\ new \in Seq(Call) /\ Len(new) = Len(old) /\ DOMAIN new = DOMAIN old
    /\ \A m \in DOMAIN old :
        /\ new[m].id = old[m].id /\ new[m].class = old[m].class
        /\ new[m].frame = old[m].frame /\ new[m].batch = old[m].batch
    /\ \A m \in DOMAIN old \ S : new[m] = old[m]

\* The fields of a call.
LEMMA CallFields ==
    ASSUME NEW c \in Call
    PROVE  /\ c.id \in Ids \cup {NoId} /\ c.class \in Classes
           /\ c.frame \in 1..MaxFrames /\ c.batch \in BOOLEAN
           /\ c.stage \in Stages /\ c.outcome \in Outcomes
BY DEF Call

\* A sequence given element by element.
LEMMA SeqByElements ==
    ASSUME NEW S, NEW n \in Nat, NEW s, s = [i \in 1..n |-> s[i]],
           \A i \in 1..n : s[i] \in S
    PROVE  s \in Seq(S) /\ Len(s) = n /\ DOMAIN s = 1..n
<1>1. s \in [1..n -> S]
  OBVIOUS
<1> QED
  BY <1>1, SeqDef

\* Calls of which those of S get another stage (Restage, flush_batch).
Staged(old, S, stage) ==
    [n \in DOMAIN old |-> IF n \in S THEN [old[n] EXCEPT !.stage = stage] ELSE old[n]]

\* Only the stage of those calls changes.
LEMMA StageChanges ==
    ASSUME NEW old \in Seq(Call), NEW S \in SUBSET DOMAIN old, NEW stage \in Stages,
           NEW new, new = Staged(old, S, stage)
    PROVE  /\ Kept(old, new, S)
           /\ \A n \in S : new[n].stage = stage /\ new[n].outcome = old[n].outcome
<1> USE DEF Staged
<1>0. DOMAIN old = 1..Len(old) /\ Len(old) \in Nat
  BY LenProperties
<1>1. \A n \in 1..Len(old) : old[n] \in Call
  BY ElementOfSeq
<1>2. ASSUME NEW n \in 1..Len(old)
      PROVE  /\ new[n] \in Call
             /\ new[n].id = old[n].id /\ new[n].class = old[n].class
             /\ new[n].frame = old[n].frame /\ new[n].batch = old[n].batch
             /\ n \notin S => new[n] = old[n]
             /\ n \in S => new[n].stage = stage /\ new[n].outcome = old[n].outcome
  <2>1. CASE n \in S
    <3>1. new[n] = [old[n] EXCEPT !.stage = stage]
      BY <1>0, <2>1
    <3> QED
      BY <1>1, <2>1, <3>1 DEF Call
  <2>2. CASE n \notin S
    BY <1>0, <1>1, <2>2
  <2> QED
    BY <2>1, <2>2
<1>3. new = [n \in 1..Len(old) |-> new[n]]
  BY <1>0
<1>4. new \in Seq(Call) /\ Len(new) = Len(old) /\ DOMAIN new = 1..Len(old)
  <2> HIDE DEF Call
  <2>1. \A n \in 1..Len(old) : new[n] \in Call
    BY <1>2
  <2> QED
    BY <1>0, <1>3, <2>1, SeqByElements
<1> QED
  BY <1>0, <1>2, <1>4 DEF Kept

\* A call ends with an outcome (the supervised task).
LEMMA EndsKeeps ==
    ASSUME NEW n \in DOMAIN calls, calls \in Seq(Call), NEW outcome \in Outcomes,
           Ends(n, outcome)
    PROVE  /\ Kept(calls, calls', {n})
           /\ calls'[n].stage = "finished" /\ calls'[n].outcome = outcome
<1>0. DOMAIN calls = 1..Len(calls) /\ Len(calls) \in Nat
  BY LenProperties
<1>1. \A m \in 1..Len(calls) : calls[m] \in Call
  BY ElementOfSeq
<1>2. calls' = [calls EXCEPT ![n].stage = "finished", ![n].outcome = outcome]
  BY DEF Ends
<1>3. calls' = [calls EXCEPT ![n] = [calls[n] EXCEPT !.stage = "finished", !.outcome = outcome]]
  BY <1>2
<1>4. calls'[n] = [calls[n] EXCEPT !.stage = "finished", !.outcome = outcome]
  BY <1>0, <1>3
<1>5. /\ calls'[n] \in Call
      /\ calls'[n].id = calls[n].id /\ calls'[n].class = calls[n].class
      /\ calls'[n].frame = calls[n].frame /\ calls'[n].batch = calls[n].batch
      /\ calls'[n].stage = "finished" /\ calls'[n].outcome = outcome
  BY <1>0, <1>1, <1>4 DEF Call, Stages
<1>6. \A m \in DOMAIN calls \ {n} : calls'[m] = calls[m]
  BY <1>0, <1>3
<1>7. calls' \in Seq(Call) /\ Len(calls') = Len(calls) /\ DOMAIN calls' = 1..Len(calls)
  BY <1>0, <1>1, <1>3, <1>5, ExceptSeq
<1> QED
  BY <1>0, <1>5, <1>6, <1>7 DEF Kept

-----------------------------------------------------------------------------
(* What the steps do: the tasks and the lane.                              *)

\* A task, or the lane, takes call n one stage further, or loses it: then the
\* session closes, or is over.
Moves(n) ==
    /\ n \in DOMAIN calls
    /\ calls[n].stage \in Flying
    /\ Kept(calls, calls', {n})
    /\ \/ calls'[n].stage \in Flying
       \/ calls'[n].stage = "lost" /\ (closed' = TRUE \/ ~serving)
    /\ closed' \in BOOLEAN /\ guard' \in BOOLEAN
    /\ closed => closed'
    /\ UNCHANGED Sessionwide

Task(n) ==
    \/ Lane(n) \/ RunOrdinary(n) \/ RefuseParameters(n) \/ Panic(n) \/ Deliver(n)

\* A task that ends moves its call on.
LEMMA EndsMoves ==
    ASSUME TypeOK, NEW n \in DOMAIN calls, NEW outcome \in Outcomes,
           Ends(n, outcome), calls[n].stage \in Flying,
           closed' \in BOOLEAN, closed => closed', UNCHANGED Sessionwide
    PROVE  Moves(n)
<1>1. Kept(calls, calls', {n}) /\ calls'[n].stage = "finished"
  BY EndsKeeps DEF TypeOK
<1>2. guard' \in BOOLEAN
  BY DEF TypeOK, Ends
<1>3. "finished" \in Flying
  BY DEF Flying
<1> QED
  BY <1>1, <1>2, <1>3 DEF Moves

\* A task that goes to another stage moves its call on.
LEMMA RestageMoves ==
    ASSUME TypeOK, NEW n \in DOMAIN calls, NEW stage \in Stages,
           calls' = Restage({n}, stage), calls[n].stage \in Flying,
           stage \in Flying \/ (stage = "lost" /\ (closed' = TRUE \/ ~serving)),
           closed' \in BOOLEAN, closed => closed', UNCHANGED <<guard, Sessionwide>>
    PROVE  Moves(n)
<1>0. calls \in Seq(Call) /\ {n} \in SUBSET DOMAIN calls
  BY DEF TypeOK
<1>a. calls' = Staged(calls, {n}, stage)
  BY DEF Restage, Staged
<1>1. Kept(calls, calls', {n}) /\ calls'[n].stage = stage
  BY ONLY <1>0, <1>a, stage \in Stages, StageChanges
<1>2. guard' \in BOOLEAN
  BY DEF TypeOK
<1> QED
  BY <1>1, <1>2 DEF Moves

\* Every step of a task or of the lane is such a move.
LEMMA TaskMoves ==
    ASSUME TypeOK, NEW n \in DOMAIN calls, Task(n)
    PROVE  Moves(n)
<1>0. /\ closed \in BOOLEAN
      /\ {"ok", "error", "lifecycle", "refused"} \subseteq Outcomes
      /\ Flying \subseteq Stages /\ "lost" \in Stages
      /\ {"running", "queued", "executing", "finished", "resulted"} \subseteq Flying
  BY DEF TypeOK, Outcomes, Stages, Flying
<1>1. CASE Submit(n)
  BY <1>0, <1>1, RestageMoves DEF Submit, Submits
<1>2. CASE SubmitToFullLane(n)
  BY <1>0, <1>2, EndsMoves DEF SubmitToFullLane, Submits
<1>3. CASE LaneTakes(n)
  BY <1>0, <1>3, RestageMoves DEF LaneTakes
<1>4. CASE LaneReplies(n)
  BY <1>0, <1>4, EndsMoves DEF LaneReplies
<1>5. CASE LaneGone(n)
  BY <1>0, <1>5, EndsMoves DEF LaneGone, Submits
<1>6. CASE RunOrdinary(n)
  BY <1>0, <1>6, EndsMoves DEF RunOrdinary
<1>7. CASE RefuseParameters(n)
  BY <1>0, <1>7, EndsMoves DEF RefuseParameters, Submits
<1>8. CASE Panic(n)
  BY <1>0, <1>8, RestageMoves DEF Panic
<1>9. CASE Deliver(n)
  BY <1>0, <1>9, RestageMoves DEF Deliver
<1> QED
  BY <1>1, <1>2, <1>3, <1>4, <1>5, <1>6, <1>7, <1>8, <1>9 DEF Task, Lane

-----------------------------------------------------------------------------
(* What the steps do: the transport and the guard.                         *)

\* The session is disturbed, its calls are not.
Quiet ==
    /\ UNCHANGED <<first, handshaking, read, frame, calls, outstanding, pending>>
    /\ closed' \in BOOLEAN /\ serving' \in BOOLEAN
    /\ accepting' \in BOOLEAN /\ guard' \in BOOLEAN
    /\ closed => closed'
    /\ serving' => serving
    /\ ~closed' => (serving' <=> serving) /\ (accepting' <=> accepting)

Disturbance == Guard \/ Stop \/ CheckFails \/ CloseTransport

\* A failed check, a closed transport and the end of the loop leave the calls alone.
LEMMA DisturbanceQuiet ==
    ASSUME TypeOK, Disturbance
    PROVE  Quiet
<1>1. closed \in BOOLEAN /\ serving \in BOOLEAN /\ accepting \in BOOLEAN /\ guard \in BOOLEAN
  BY DEF TypeOK
<1>2. CASE Guard
  BY <1>1, <1>2 DEF Guard, Leave, Quiet
<1>3. CASE Stop
  BY <1>1, <1>3 DEF Stop, Leave, Quiet
<1>4. CASE CheckFails
  BY <1>1, <1>4 DEF CheckFails, Sessionwide, Quiet
<1>5. CASE CloseTransport
  BY <1>1, <1>5 DEF CloseTransport, Sessionwide, Quiet
<1> QED
  BY <1>2, <1>3, <1>4, <1>5 DEF Disturbance

-----------------------------------------------------------------------------
(* What the steps do: scheduling.                                          *)

\* The items of a frame, one after the other.
LEMMA FrameFields ==
    ASSUME NEW f
    PROVE  f \in Frame <=>
             /\ f = [batch |-> f.batch, items |-> f.items]
             /\ f.batch \in BOOLEAN
             /\ f.items \in Seq(Item) /\ Len(f.items) <= MaxBatch
<1> HIDE DEF Item
<1>0. MaxBatch \in Nat
  BY BoundsAssumption
<1>1. ASSUME f \in Frame
      PROVE  /\ f = [batch |-> f.batch, items |-> f.items]
             /\ f.batch \in BOOLEAN
             /\ f.items \in Seq(Item) /\ Len(f.items) <= MaxBatch
  <2>1. /\ f = [batch |-> f.batch, items |-> f.items]
        /\ f.batch \in BOOLEAN
        /\ f.items \in UNION {[1..k -> Item] : k \in 0..MaxBatch}
    BY <1>1 DEF Frame
  <2>2. PICK k \in 0..MaxBatch : f.items \in [1..k -> Item]
    BY <2>1
  <2>3. f.items \in Seq(Item) /\ Len(f.items) = k
    BY <1>0, <2>2
  <2> QED
    BY <1>0, <2>1, <2>3
<1>2. ASSUME f = [batch |-> f.batch, items |-> f.items],
             f.batch \in BOOLEAN,
             f.items \in Seq(Item), Len(f.items) <= MaxBatch
      PROVE  f \in Frame
  <2>1. Len(f.items) \in 0..MaxBatch /\ f.items \in [1..Len(f.items) -> Item]
    BY <1>0, <1>2, LenProperties
  <2>2. f.items \in UNION {[1..k -> Item] : k \in 0..MaxBatch}
    BY <2>1
  <2> QED
    BY <1>2, <2>2 DEF Frame
<1> QED
  BY <1>1, <1>2

\* The first element of a sequence and the others.
LEMMA HeadAndTail ==
    ASSUME NEW S, NEW s \in Seq(S), s # <<>>
    PROVE  /\ Head(s) = s[1] /\ Head(s) \in S
           /\ Tail(s) \in Seq(S) /\ Len(Tail(s)) = Len(s) - 1
           /\ Len(s) \in Nat \ {0}
OBVIOUS

\* A sequence and one more element.
LEMMA AppendKeeps ==
    ASSUME NEW S, NEW s \in Seq(S), NEW e \in S, NEW t, t = Append(s, e)
    PROVE  /\ t \in Seq(S)
           /\ Len(s) \in Nat /\ Len(t) = Len(s) + 1
           /\ DOMAIN s = 1..Len(s) /\ DOMAIN t = 1..(Len(s) + 1)
           /\ \A m \in DOMAIN s : t[m] = s[m]
           /\ t[Len(s) + 1] = e
OBVIOUS

N1 == Len(calls) + 1

\* The next call is recorded, as N1.
Grows ==
    /\ calls' \in Seq(Call) /\ Len(calls') = Len(calls) + 1
    /\ Len(calls) \in Nat
    /\ DOMAIN calls = 1..Len(calls) /\ DOMAIN calls' = 1..(Len(calls) + 1)
    /\ \A m \in DOMAIN calls : calls'[m] = calls[m]
    /\ calls'[N1].id = Next1.id /\ calls'[N1].class = Next1.class
    /\ calls'[N1].frame = read /\ calls'[N1].batch = frame.batch
    /\ frame' \in Frame
    /\ frame.batch =>
        frame'.batch /\ Len(frame'.items) = Len(frame.items) - 1
    /\ ~frame.batch => frame' = Idle

\* Between two frames there is nothing to schedule.
LEMMA IdleIsFrame == Idle \in Frame /\ Idle.items = <<>> /\ ~Idle.batch
<1>1. Idle = [batch |-> FALSE, items |-> <<>>]
  BY DEF Idle
<1>2. Idle.batch = FALSE /\ Idle.items = <<>>
  BY <1>1
<1>3. FALSE \in BOOLEAN
  OBVIOUS
<1>4. <<>> \in Seq(Item) /\ Len(<<>>) <= MaxBatch
  BY BoundsAssumption
<1> QED
  BY <1>1, <1>2, <1>3, <1>4, FrameFields

\* What Schedule records is a call of this frame, the item it was leaves the frame.
LEMMA ScheduleGrows ==
    ASSUME TypeOK, FrameInv, frame.items # <<>>,
           NEW stage \in Stages, NEW outcome \in Outcomes, Schedule(stage, outcome)
    PROVE  /\ Grows
           /\ calls'[N1].stage = stage /\ calls'[N1].outcome = outcome
           /\ UNCHANGED <<first, handshaking, accepting, guard, read>>
<1> DEFINE c == [id |-> Next1.id, class |-> Next1.class, frame |-> read,
                 batch |-> frame.batch, stage |-> stage, outcome |-> outcome]
<1>1. /\ frame = [batch |-> frame.batch, items |-> frame.items]
      /\ frame.batch \in BOOLEAN
      /\ frame.items \in Seq(Item) /\ Len(frame.items) <= MaxBatch
  BY FrameFields DEF TypeOK
<1>2. Next1 \in Item /\ Tail(frame.items) \in Seq(Item)
      /\ Len(Tail(frame.items)) = Len(frame.items) - 1 /\ Len(frame.items) \in Nat \ {0}
  BY <1>1, HeadAndTail DEF Next1
<1>3. Next1.id \in Ids \cup {NoId} /\ Next1.class \in Classes
  BY <1>2 DEF Item
<1>4. read \in 1..MaxFrames
  BY IdleIsFrame, BoundsAssumption DEF TypeOK, FrameInv
<1>5. c \in Call
  BY <1>1, <1>3, <1>4 DEF Call
<1>6. calls' = Append(calls, c)
  BY DEF Schedule
<1>7. /\ calls' \in Seq(Call)
      /\ Len(calls) \in Nat /\ Len(calls') = Len(calls) + 1
      /\ DOMAIN calls = 1..Len(calls) /\ DOMAIN calls' = 1..(Len(calls) + 1)
      /\ \A m \in DOMAIN calls : calls'[m] = calls[m]
      /\ calls'[N1] = c
  <2>1. calls \in Seq(Call)
    BY DEF TypeOK
  <2> HIDE DEF c, Call
  <2> QED
    BY <1>5, <1>6, <2>1, AppendKeeps DEF N1
<1>8. /\ calls'[N1].id = Next1.id /\ calls'[N1].class = Next1.class
      /\ calls'[N1].frame = read /\ calls'[N1].batch = frame.batch
      /\ calls'[N1].stage = stage /\ calls'[N1].outcome = outcome
  BY <1>7
<1>9. CASE frame.batch
  <2>1. frame' = [frame EXCEPT !.items = Tail(frame.items)]
    BY <1>9 DEF Schedule
  <2>2. frame' = [batch |-> frame.batch, items |-> Tail(frame.items)]
    BY <1>1, <2>1
  <2>3. frame'.batch = frame.batch /\ frame'.items = Tail(frame.items)
    BY <2>2
  <2>4. frame' \in Frame
    <3>1. frame' = [batch |-> frame'.batch, items |-> frame'.items]
      BY <2>2, <2>3
    <3>2. frame'.batch \in BOOLEAN
      BY <1>1, <2>3
    <3>3. frame'.items \in Seq(Item) /\ Len(frame'.items) <= MaxBatch
      BY <1>1, <1>2, <2>3, BoundsAssumption
    <3> QED
      BY <3>1, <3>2, <3>3, FrameFields
  <2>5. frame.batch = TRUE
    BY <1>1, <1>9
  <2> QED
    BY <1>2, <1>7, <1>8, <1>9, <2>3, <2>4, <2>5 DEF Grows, Schedule
<1>10. CASE ~frame.batch
  <2>1. frame' = Idle
    BY <1>10 DEF Schedule
  <2> QED
    BY <1>7, <1>8, <1>10, <2>1, IdleIsFrame DEF Grows, Schedule
<1> QED
  BY <1>9, <1>10

\* The item at the head of the frame.
LEMMA NextItem ==
    ASSUME TypeOK, frame.items # <<>>
    PROVE  /\ Next1.id \in Ids \cup {NoId} /\ Next1.class \in Classes
           /\ Next1.class = "invalid" => Next1.id = NoId
           /\ Len(frame.items) \in Nat \ {0}
           /\ frame # Idle
<1>1. frame.items \in Seq(Item)
  BY FrameFields DEF TypeOK
<1>2. Next1 \in Item /\ Len(frame.items) \in Nat \ {0}
  BY <1>1, HeadAndTail DEF Next1
<1> QED
  BY <1>2, IdleIsFrame DEF Item

\* The session takes call N1 up, puts its answer aside, answers it, or neither.
Appends ==
    /\ serving /\ frame.items # <<>>
    /\ Grows
    /\ UNCHANGED <<first, handshaking, accepting, guard, read>>
    /\ closed' \in BOOLEAN /\ serving' \in BOOLEAN
    /\ closed => closed'
    /\ ~closed' => serving'
    /\ \/ /\ calls'[N1].stage = "dropped"
          /\ closed' \/ ~accepting
          /\ outstanding' \in {outstanding, Claimed}
          /\ UNCHANGED pending
       \/ /\ calls'[N1].stage = "held" /\ Responds(Next1) /\ frame.batch /\ Fresh
          /\ outstanding' = Claimed
          /\ UNCHANGED pending
       \/ /\ calls'[N1].stage = "silent" /\ ~Responds(Next1)
          /\ outstanding' = outstanding
          /\ UNCHANGED pending
       \/ /\ calls'[N1].stage = "answered" /\ Responds(Next1) /\ ~frame.batch
          /\ outstanding' = outstanding
          /\ UNCHANGED pending
       \/ /\ calls'[N1].stage = "lost" /\ closed'
          /\ outstanding' = outstanding
          /\ UNCHANGED pending
       \/ /\ calls'[N1].stage = "running" /\ Next1.class # "invalid" /\ Fresh
          /\ outstanding' = Claimed
          /\ pending' = IF frame.batch /\ CountsTowardBatch(Next1)
                        THEN [pending EXCEPT ![read] = @ + 1]
                        ELSE pending

\* An answer known at once.
LEMMA RespondAppends ==
    ASSUME TypeOK, FrameInv, serving, frame.items # <<>>, Fresh, UNCHANGED pending,
           NEW outcome \in Outcomes, RespondAtOnce(outcome)
    PROVE  Appends
<1>0. closed \in BOOLEAN /\ serving \in BOOLEAN /\ serving = TRUE
  BY DEF TypeOK
<1>1. CASE /\ frame.batch /\ Responds(Next1)
           /\ Schedule("held", outcome)
           /\ outstanding' = Claimed
           /\ UNCHANGED <<closed, serving>>
  <2>1. Grows /\ calls'[N1].stage = "held"
        /\ UNCHANGED <<first, handshaking, accepting, guard, read>>
    BY <1>1, ScheduleGrows DEF Stages
  <2> QED
    BY <1>0, <1>1, <2>1 DEF Appends
<1>2. CASE /\ ~Responds(Next1)
           /\ Schedule("silent", outcome)
           /\ outstanding' = outstanding
           /\ UNCHANGED <<closed, serving>>
  <2>1. Grows /\ calls'[N1].stage = "silent"
        /\ UNCHANGED <<first, handshaking, accepting, guard, read>>
    BY <1>2, ScheduleGrows DEF Stages
  <2> QED
    BY <1>0, <1>2, <2>1 DEF Appends
<1>3. CASE /\ ~frame.batch /\ Responds(Next1) /\ ~closed
           /\ Schedule("answered", outcome)
           /\ outstanding' = outstanding
           /\ UNCHANGED <<closed, serving>>
  <2>1. Grows /\ calls'[N1].stage = "answered"
        /\ UNCHANGED <<first, handshaking, accepting, guard, read>>
    BY <1>3, ScheduleGrows DEF Stages
  <2> QED
    BY <1>0, <1>3, <2>1 DEF Appends
<1>4. CASE /\ ~frame.batch /\ Responds(Next1)
           /\ Schedule("lost", outcome)
           /\ outstanding' = outstanding
           /\ Leave
  <2>1. Grows /\ calls'[N1].stage = "lost"
        /\ UNCHANGED <<first, handshaking, accepting, guard, read>>
    BY <1>4, ScheduleGrows DEF Stages
  <2> QED
    BY <1>0, <1>4, <2>1 DEF Appends, Leave
<1>5. ~Responds(Next1) => outstanding = Claimed
  BY DEF Responds, Claimed
<1> QED
  BY <1>1, <1>2, <1>3, <1>4, <1>5 DEF RespondAtOnce

Scheduled ==
    \/ ScheduleDuplicate \/ ScheduleInvalid \/ ScheduleOverloaded
    \/ ScheduleBeyondLane \/ ScheduleUnheard \/ ScheduleUnknown
    \/ ScheduleAdmitted

\* Every outcome of schedule_call is one of these.
LEMMA ScheduledAppends ==
    ASSUME TypeOK, FrameInv, Scheduled
    PROVE  Appends
<1>0. closed \in BOOLEAN /\ serving \in BOOLEAN
      /\ {"none", "error"} \subseteq Outcomes /\ {"dropped", "running"} \subseteq Stages
  BY DEF TypeOK, Outcomes, Stages
<1>1. CASE ScheduleDuplicate
  <2>1. serving /\ frame.items # <<>> /\ Schedule("dropped", "none")
        /\ Leave /\ UNCHANGED <<outstanding, pending>>
    BY <1>1 DEF ScheduleDuplicate, Scheduling
  <2>2. Grows /\ calls'[N1].stage = "dropped"
        /\ UNCHANGED <<first, handshaking, accepting, guard, read>>
    BY <1>0, <2>1, ScheduleGrows
  <2> QED
    BY <1>0, <2>1, <2>2 DEF Leave, Appends
<1>2. CASE ScheduleInvalid
  <2>1. serving /\ frame.items # <<>> /\ RespondAtOnce("error") /\ UNCHANGED pending
        /\ Next1.class = "invalid"
    BY <1>2 DEF ScheduleInvalid, Scheduling
  <2>2. Fresh
    BY <2>1, NextItem, IdsAssumption DEF TypeOK, Fresh
  <2> QED
    BY <1>0, <2>1, <2>2, RespondAppends
<1>3. CASE ScheduleOverloaded \/ ScheduleUnknown
  <2>1. serving /\ frame.items # <<>> /\ RespondAtOnce("error") /\ UNCHANGED pending /\ Fresh
    BY <1>3 DEF ScheduleOverloaded, ScheduleUnknown, Scheduling
  <2> QED
    BY <1>0, <2>1, RespondAppends
<1>4. CASE ScheduleBeyondLane
  <2>1. serving /\ frame.items # <<>> /\ Schedule("dropped", "none")
        /\ closed' = TRUE /\ outstanding' = Claimed /\ UNCHANGED <<serving, pending>>
    BY <1>4 DEF ScheduleBeyondLane, Scheduling
  <2>2. Grows /\ calls'[N1].stage = "dropped"
        /\ UNCHANGED <<first, handshaking, accepting, guard, read>>
    BY <1>0, <2>1, ScheduleGrows
  <2> QED
    BY <1>0, <2>1, <2>2 DEF Appends
<1>5. CASE ScheduleUnheard
  <2>1. /\ serving /\ frame.items # <<>> /\ Schedule("dropped", "none")
        /\ closed \/ ~accepting
        /\ UNCHANGED <<closed, serving, outstanding, pending>>
    BY <1>5 DEF ScheduleUnheard, Scheduling
  <2>2. Grows /\ calls'[N1].stage = "dropped"
        /\ UNCHANGED <<first, handshaking, accepting, guard, read>>
    BY <1>0, <2>1, ScheduleGrows
  <2> QED
    BY <1>0, <2>1, <2>2 DEF Appends
<1>6. CASE ScheduleAdmitted
  <2>1. /\ serving /\ frame.items # <<>> /\ Schedule("running", "none")
        /\ Next1.class # "invalid" /\ Fresh /\ outstanding' = Claimed
        /\ pending' = IF frame.batch /\ CountsTowardBatch(Next1)
                      THEN [pending EXCEPT ![read] = @ + 1]
                      ELSE pending
        /\ UNCHANGED <<closed, serving>>
    BY <1>6 DEF ScheduleAdmitted, Scheduling
  <2>2. Grows /\ calls'[N1].stage = "running"
        /\ UNCHANGED <<first, handshaking, accepting, guard, read>>
    BY <1>0, <2>1, ScheduleGrows
  <2> QED
    BY <1>0, <2>1, <2>2 DEF Appends
<1> QED
  BY <1>1, <1>2, <1>3, <1>4, <1>5, <1>6 DEF Scheduled

-----------------------------------------------------------------------------
(* What the steps do: batches and results.                                 *)

HeldOf(f, old) == {n \in DOMAIN old : old[n].frame = f /\ old[n].stage = "held"}

\* The session goes on as it was, or closes.
Onward ==
    /\ closed' \in BOOLEAN /\ serving' \in BOOLEAN
    /\ closed => closed'
    /\ serving' => serving
    /\ ~closed' => (serving' <=> serving)

\* The batch f leaves the table; what was put aside for it is sent in one
\* frame, and its ids are free again, unless the session closes.
Flushes(f, old) ==
    /\ Onward
    /\ pending' = Without(f)
    /\ Kept(old, calls', HeldOf(f, old))
    /\ \/ /\ \A n \in HeldOf(f, old) : calls'[n].stage = "answered"
          /\ HeldOf(f, old) # {} => ~closed
          /\ outstanding' = outstanding \ RequestIds(f)
       \/ /\ \A n \in HeldOf(f, old) : calls'[n].stage = "lost"
          /\ closed' /\ ~serving'
          /\ outstanding' = outstanding

\* The three ways flush_batch ends, seen from the calls.
LEMMA FlushEffect ==
    ASSUME TypeOK, NEW f, NEW old \in Seq(Call), Flush(f, old)
    PROVE  Flushes(f, old)
<1> DEFINE held == HeldOf(f, old)
<1>0. closed \in BOOLEAN /\ serving \in BOOLEAN
      /\ "answered" \in Stages /\ "lost" \in Stages
      /\ held \in SUBSET DOMAIN old
  BY DEF TypeOK, Stages, HeldOf
<1>1. pending' = Without(f)
  BY DEF Flush
<1>2. CASE /\ held = {}
           /\ calls' = old
           /\ outstanding' = outstanding \ RequestIds(f)
           /\ UNCHANGED <<closed, serving>>
  <2>1. Kept(old, calls', held)
    BY <1>2 DEF Kept
  <2> QED
    BY <1>0, <1>1, <1>2, <2>1 DEF Flushes, Onward
<1>3. CASE /\ held # {} /\ ~closed
           /\ calls' = Staged(old, held, "answered")
           /\ outstanding' = outstanding \ RequestIds(f)
           /\ Leave \/ UNCHANGED <<closed, serving>>
  <2>1. Kept(old, calls', held) /\ \A n \in held : calls'[n].stage = "answered"
    <3>1. old \in Seq(Call) /\ held \in SUBSET DOMAIN old /\ "answered" \in Stages
          /\ calls' = Staged(old, held, "answered")
      BY <1>0, <1>3
    <3> HIDE DEF held
    <3> QED
      BY ONLY <3>1, StageChanges
  <2>2. Onward
    <3>1. CASE Leave
      BY <1>0, <3>1 DEF Leave, Onward
    <3>2. CASE UNCHANGED <<closed, serving>>
      BY <1>0, <3>2 DEF Onward
    <3> QED
      BY <1>3, <3>1, <3>2
  <2> QED
    BY <1>1, <1>3, <2>1, <2>2 DEF Flushes
<1>4. CASE /\ calls' = Staged(old, held, "lost")
           /\ Leave
           /\ outstanding' = outstanding
  <2>1. Kept(old, calls', held) /\ \A n \in held : calls'[n].stage = "lost"
    <3>1. old \in Seq(Call) /\ held \in SUBSET DOMAIN old /\ "lost" \in Stages
          /\ calls' = Staged(old, held, "lost")
      BY <1>0, <1>4
    <3> HIDE DEF held
    <3> QED
      BY ONLY <3>1, StageChanges
  <2>2. Onward
    BY <1>0, <1>4 DEF Leave, Onward
  <2> QED
    BY <1>1, <1>4, <2>1, <2>2 DEF Flushes, Leave
<1>5. \/ /\ held = {}
         /\ calls' = old
         /\ outstanding' = outstanding \ RequestIds(f)
         /\ UNCHANGED <<closed, serving>>
      \/ /\ held # {} /\ ~closed
         /\ calls' = Staged(old, held, "answered")
         /\ outstanding' = outstanding \ RequestIds(f)
         /\ Leave \/ UNCHANGED <<closed, serving>>
      \/ /\ calls' = Staged(old, held, "lost")
         /\ Leave
         /\ outstanding' = outstanding
  BY Zenon DEF Flush, Staged, HeldOf
<1> QED
  BY <1>2, <1>3, <1>4, <1>5

\* A batch is complete at its last item.
Finishes ==
    /\ serving /\ frame.batch /\ frame.items = <<>>
    /\ frame' = Idle
    /\ UNCHANGED <<first, handshaking, accepting, guard, read>>
    /\ \/ pending[read] = 0 /\ Flushes(read, calls)
       \/ pending[read] # 0 /\ UNCHANGED <<closed, serving, calls, outstanding, pending>>

\* The end of schedule_batch.
LEMMA FinishFinishes ==
    ASSUME TypeOK, FinishBatch
    PROVE  Finishes
<1>1. calls \in Seq(Call)
  BY DEF TypeOK
<1>2. pending[read] = 0 => Flushes(read, calls)
  BY <1>1, FlushEffect DEF FinishBatch
<1> QED
  BY <1>2 DEF FinishBatch, Finishes

\* A result is taken from the channel.
Takes(n) ==
    /\ n \in DOMAIN calls
    /\ serving /\ frame = Idle /\ calls[n].stage = "resulted"
    /\ handshaking' = FALSE
    /\ accepting' \in BOOLEAN /\ (accepting' => accepting)
    /\ UNCHANGED <<first, guard, read, frame>>
    /\ Onward

\* The result of a single call is sent, or there is nothing to send.
Answers(n) ==
    /\ Takes(n)
    /\ ~calls[n].batch
    /\ Kept(calls, calls', {n})
    /\ outstanding' = outstanding \ {calls[n].id}
    /\ UNCHANGED pending
    /\ \/ calls'[n].stage = "silent" /\ ~Responds(calls[n])
       \/ calls'[n].stage = "answered" /\ Responds(calls[n]) /\ ~closed
       \/ calls'[n].stage = "lost" /\ closed' /\ ~serving'

\* The branch of results_rx for a single call.
LEMMA SettleSingleAnswers ==
    ASSUME TypeOK, NEW n \in DOMAIN calls, SettleSingle(n)
    PROVE  Answers(n)
<1>0. /\ closed \in BOOLEAN /\ serving \in BOOLEAN /\ accepting \in BOOLEAN
      /\ calls \in Seq(Call) /\ {n} \in SUBSET DOMAIN calls
      /\ {"silent", "answered", "lost"} \subseteq Stages
  BY DEF TypeOK, Stages
<1>1. ASSUME NEW s \in {"silent", "answered", "lost"}, calls' = Restage({n}, s)
      PROVE  Kept(calls, calls', {n}) /\ calls'[n].stage = s
  <2>1. calls' = Staged(calls, {n}, s)
    BY <1>1 DEF Restage, Staged
  <2> QED
    BY <1>0, <2>1, StageChanges
<1>2. /\ serving /\ frame = Idle /\ calls[n].stage = "resulted" /\ ~calls[n].batch
      /\ handshaking' = FALSE
      /\ accepting' \in BOOLEAN /\ (accepting' => accepting)
      /\ UNCHANGED <<first, guard, read, frame, pending>>
      /\ outstanding' = outstanding \ {calls[n].id}
  BY <1>0 DEF SettleSingle, Waiting
<1>3. CASE /\ ~Responds(calls[n])
           /\ calls' = Restage({n}, "silent")
           /\ UNCHANGED <<closed, serving>>
  BY <1>0, <1>1, <1>2, <1>3 DEF Answers, Takes, Onward
<1>4. CASE /\ Responds(calls[n]) /\ ~closed
           /\ calls' = Restage({n}, "answered")
           /\ Leave \/ UNCHANGED <<closed, serving>>
  BY <1>0, <1>1, <1>2, <1>4 DEF Answers, Takes, Leave, Onward
<1>5. CASE calls' = Restage({n}, "lost") /\ Leave
  BY <1>0, <1>1, <1>2, <1>5 DEF Answers, Takes, Leave, Onward
<1> QED
  BY <1>3, <1>4, <1>5 DEF SettleSingle

\* The calls when the result of call n has been put aside for its batch.
AsideOf(n) == Staged(calls, {n}, IF Responds(calls[n]) THEN "held" ELSE "silent")

\* The result of a batch member is put aside; with the last one, the batch is
\* flushed.  A batch that was flushed before has no use for it.
Collects(n) ==
    LET f == calls[n].frame IN
    /\ Takes(n)
    /\ calls[n].batch
    /\ \/ /\ f \in DOMAIN pending /\ Left(calls[n]) = 0
          /\ Flushes(f, AsideOf(n))
       \/ /\ f \in DOMAIN pending /\ Left(calls[n]) > 0
          /\ calls' = AsideOf(n)
          /\ pending' = [pending EXCEPT ![f] = Left(calls[n])]
          /\ UNCHANGED <<closed, serving, outstanding>>
       \/ /\ f \notin DOMAIN pending
          /\ calls' = Staged(calls, {n}, "silent")
          /\ UNCHANGED <<closed, serving, outstanding, pending>>

\* What AsideOf changes.
LEMMA AsideKeeps ==
    ASSUME TypeOK, NEW n \in DOMAIN calls
    PROVE  /\ AsideOf(n) \in Seq(Call)
           /\ Kept(calls, AsideOf(n), {n})
           /\ AsideOf(n)[n].stage = IF Responds(calls[n]) THEN "held" ELSE "silent"
<1>1. calls \in Seq(Call) /\ {n} \in SUBSET DOMAIN calls
      /\ (IF Responds(calls[n]) THEN "held" ELSE "silent") \in Stages
  BY DEF TypeOK, Stages
<1>2. Kept(calls, AsideOf(n), {n})
      /\ AsideOf(n)[n].stage = IF Responds(calls[n]) THEN "held" ELSE "silent"
  BY <1>1, StageChanges DEF AsideOf
<1> QED
  BY <1>2 DEF Kept

\* The branch of results_rx for a member of a batch.
LEMMA SettleBatchCollects ==
    ASSUME TypeOK, NEW n \in DOMAIN calls, SettleBatch(n)
    PROVE  Collects(n)
<1> DEFINE c == calls[n]
           f == calls[n].frame
<1>0. /\ closed \in BOOLEAN /\ serving \in BOOLEAN /\ accepting \in BOOLEAN
      /\ AsideOf(n) \in Seq(Call)
  BY AsideKeeps DEF TypeOK
<1>1. /\ Restage({n}, IF Responds(c) THEN "held" ELSE "silent") = AsideOf(n)
      /\ Restage({n}, "silent") = Staged(calls, {n}, "silent")
  BY DEF Restage, Staged, AsideOf
<1>2. /\ serving /\ frame = Idle /\ c.stage = "resulted" /\ c.batch
      /\ handshaking' = FALSE
      /\ accepting' \in BOOLEAN /\ (accepting' => accepting)
      /\ UNCHANGED <<first, guard, read, frame>>
  BY <1>0 DEF SettleBatch, Waiting
<1>3. \/ /\ f \in DOMAIN pending /\ Left(c) = 0
         /\ Flush(f, AsideOf(n))
      \/ /\ f \in DOMAIN pending /\ Left(c) > 0
         /\ calls' = AsideOf(n)
         /\ pending' = [pending EXCEPT ![f] = Left(c)]
         /\ UNCHANGED <<closed, serving, outstanding>>
      \/ /\ f \notin DOMAIN pending
         /\ calls' = Staged(calls, {n}, "silent")
         /\ UNCHANGED <<closed, serving, outstanding, pending>>
  BY <1>1 DEF SettleBatch
<1>4. CASE f \in DOMAIN pending /\ Left(c) = 0 /\ Flush(f, AsideOf(n))
  <2>1. Flushes(f, AsideOf(n))
    BY <1>0, <1>4, FlushEffect
  <2> QED
    BY <1>2, <1>4, <2>1 DEF Collects, Takes, Flushes
<1>5. CASE UNCHANGED <<closed, serving>>
  BY <1>0, <1>2, <1>3, <1>4, <1>5 DEF Collects, Takes, Onward
<1> QED
  BY <1>3, <1>4, <1>5

-----------------------------------------------------------------------------
(* What the steps do: reading.                                             *)

\* A frame of a client is a call or a batch of calls.
LEMMA MessageFrame ==
    ASSUME TypeOK, NEW f \in client.messages
    PROVE  /\ f \in Frame
           /\ Len(f.items) \in Nat \ {0} /\ Len(f.items) <= MaxBatch
           /\ ~f.batch => Len(f.items) = 1
<1> HIDE DEF Item
<1>0. MaxBatch \in Nat \ {0}
  BY BoundsAssumption
<1>1. f \in Messages(Item, MaxBatch)
  BY ClientsAssumption DEF TypeOK
<1>2. CASE \E c \in Item : f = [batch |-> FALSE, items |-> <<c>>]
  <2>1. PICK c \in Item : f = [batch |-> FALSE, items |-> <<c>>]
    BY <1>2
  <2>2. f.batch = FALSE /\ f.items = <<c>>
    BY <2>1
  <2>3. <<c>> \in Seq(Item) /\ Len(<<c>>) = 1
    OBVIOUS
  <2>4. f.batch \in BOOLEAN
    BY <2>2
  <2>5. f = [batch |-> f.batch, items |-> f.items]
    BY <2>1
  <2>6. Len(f.items) <= MaxBatch /\ f.items \in Seq(Item)
    BY <1>0, <2>2, <2>3
  <2>7. f \in Frame
    BY <2>4, <2>5, <2>6, FrameFields
  <2>8. Len(f.items) = 1
    BY <2>2, <2>3
  <2> QED
    BY <1>0, <2>7, <2>8
<1>3. CASE \E s \in UNION {[1..n -> Item] : n \in 1..MaxBatch} : f = [batch |-> TRUE, items |-> s]
  <2>1. PICK n \in 1..MaxBatch : \E s \in [1..n -> Item] : f = [batch |-> TRUE, items |-> s]
    BY <1>3
  <2>2. PICK s \in [1..n -> Item] : f = [batch |-> TRUE, items |-> s]
    BY <2>1
  <2>3. f.batch = TRUE /\ f.items = s
    BY <2>2
  <2>4. s \in Seq(Item) /\ Len(s) = n
    BY <1>0
  <2>5. f.batch \in BOOLEAN
    BY <2>3
  <2>6. f = [batch |-> f.batch, items |-> f.items]
    BY <2>2
  <2>7. Len(f.items) <= MaxBatch /\ Len(f.items) \in Nat \ {0} /\ f.items \in Seq(Item)
    BY <1>0, <2>3, <2>4
  <2> QED
    BY <2>3, <2>5, <2>6, <2>7, FrameFields
<1> QED
  BY <1>1, <1>2, <1>3 DEF Messages

\* A frame is read: it leaves no trace, it ends the session, or it is taken up.
Reads ==
    /\ serving /\ frame = Idle /\ ~handshaking
    /\ read' = read + 1 /\ read' <= client.frames
    /\ UNCHANGED <<accepting, guard, calls, outstanding>>
    /\ Onward
    /\ \/ UNCHANGED <<first, handshaking, frame, pending>>
       \/ /\ first' = FALSE /\ ~serving'
          /\ UNCHANGED <<handshaking, frame, pending>>
       \/ /\ first' = FALSE /\ handshaking' = first
          /\ frame' \in Frame
          /\ Len(frame'.items) \in Nat \ {0} /\ Len(frame'.items) <= MaxBatch
          /\ Len(calls) + Len(frame'.items) <= client.calls
          /\ ~frame'.batch => Len(frame'.items) = 1
          /\ first => ~frame'.batch /\ frame'.items[1].id # NoId
          /\ pending' = IF frame'.batch
                        THEN [g \in DOMAIN pending \cup {read + 1} |->
                                IF g = read + 1 THEN 0 ELSE pending[g]]
                        ELSE pending

Receive == ReceiveMalformed \/ \E f \in client.messages : ReceiveMessage(f)

\* Every frame is read in one of these ways.
LEMMA ReceiveReads ==
    ASSUME TypeOK, Receive
    PROVE  Reads
<1>0. closed \in BOOLEAN /\ serving \in BOOLEAN /\ read \in Nat /\ MaxBatch \in Nat
      /\ client.frames \in Nat /\ client.calls \in Nat /\ Len(calls) \in Nat
  BY BoundsAssumption, ClientsAssumption, LenProperties DEF TypeOK
<1>1. CASE ReceiveMalformed
  <2>1. /\ serving /\ frame = Idle /\ ~handshaking
        /\ read' = read + 1 /\ read' <= client.frames
        /\ UNCHANGED <<accepting, guard, calls, outstanding>>
        /\ UNCHANGED <<first, handshaking, frame, pending>>
    BY <1>0, <1>1 DEF ReceiveMalformed, Waiting, Gated, Room
  <2>2. CASE UNCHANGED <<closed, serving>>
    BY <1>0, <2>1, <2>2 DEF Reads, Onward
  <2>3. CASE Leave
    BY <1>0, <2>1, <2>3 DEF Reads, Onward, Leave
  <2> QED
    BY <1>1, <2>2, <2>3 DEF ReceiveMalformed
<1>2. ASSUME NEW f \in client.messages, ReceiveMessage(f)
      PROVE  Reads
  <2>0. /\ f \in Frame
        /\ Len(f.items) \in Nat \ {0} /\ Len(f.items) <= MaxBatch
        /\ ~f.batch => Len(f.items) = 1
    BY MessageFrame
  <2>1. /\ serving /\ frame = Idle /\ ~handshaking
        /\ read' = read + 1 /\ read' <= client.frames
        /\ Len(calls) + Len(f.items) <= client.calls
        /\ first' = FALSE
        /\ UNCHANGED <<accepting, guard, calls, outstanding>>
    BY <1>0, <1>2, <2>0 DEF ReceiveMessage, Waiting, Gated, Room
  <2>2. CASE /\ first => OpensSession(f)
             /\ handshaking' = first
             /\ frame' = f
             /\ pending' = IF f.batch
                        THEN [g \in DOMAIN pending \cup {read + 1} |->
                                IF g = read + 1 THEN 0 ELSE pending[g]]
                        ELSE pending
             /\ UNCHANGED <<closed, serving>>
    <3>1. Onward
      BY <1>0, <2>2 DEF Onward
    <3>2. first => ~f.batch /\ f.items[1].id # NoId
      BY <2>2 DEF OpensSession
    <3>3. frame' = f /\ handshaking' = first
          /\ pending' = IF f.batch
                        THEN [g \in DOMAIN pending \cup {read + 1} |->
                                IF g = read + 1 THEN 0 ELSE pending[g]]
                        ELSE pending
      BY <2>2
    <3> QED
      BY <2>0, <2>1, <3>1, <3>2, <3>3 DEF Reads
  <2>3. CASE Leave /\ UNCHANGED <<handshaking, frame, pending>>
    BY <1>0, <2>1, <2>3 DEF Reads, Onward, Leave
  <2> QED
    BY <1>2, <2>2, <2>3 DEF ReceiveMessage
<1> QED
  BY <1>1, <1>2 DEF Receive

\* Every step is one of these.
Steps ==
    \/ Reads \/ Appends \/ Finishes
    \/ \E n \in DOMAIN calls : Answers(n) \/ Collects(n) \/ Moves(n)
    \/ Quiet

\* Nothing else happens to a session.
LEMMA NextSteps ==
    ASSUME TypeOK, FrameInv, Next
    PROVE  Steps /\ UNCHANGED client
<1>1. Receive => Steps
  BY ReceiveReads DEF Steps
<1>2. ScheduleNext => Steps
  BY ScheduledAppends, FinishFinishes DEF ScheduleNext, Scheduled, Steps
<1>3. Disturbance => Steps
  BY DisturbanceQuiet DEF Steps
<1>4. ASSUME NEW n \in DOMAIN calls, Settle(n) \/ Task(n)
      PROVE  Steps
  BY <1>4, SettleSingleAnswers, SettleBatchCollects, TaskMoves DEF Settle, Steps
<1>5. \/ Receive \/ ScheduleNext \/ Disturbance
      \/ \E n \in DOMAIN calls : Settle(n) \/ Task(n)
  BY DEF Next, SessionNext, Receive, Disturbance, Task
<1> QED
  BY <1>1, <1>2, <1>3, <1>4, <1>5 DEF Next

-----------------------------------------------------------------------------
(* Type correctness, and the bounds it rests on.                           *)

\* What the bounds are made of.
LEMMA Bounds ==
    ASSUME TypeOK
    PROVE  /\ client.calls \in 0..MaxCalls /\ client.frames \in 0..MaxFrames
           /\ MaxCalls \in Nat /\ MaxFrames \in Nat /\ MaxBatch \in Nat \ {0}
           /\ read \in Nat /\ Len(calls) \in Nat /\ DOMAIN calls = 1..Len(calls)
           /\ frame.items \in Seq(Item) /\ Len(frame.items) \in Nat
           /\ closed \in BOOLEAN /\ serving \in BOOLEAN /\ first \in BOOLEAN
           /\ handshaking \in BOOLEAN /\ accepting \in BOOLEAN /\ guard \in BOOLEAN
<1>1. /\ client.calls \in 0..MaxCalls /\ client.frames \in 0..MaxFrames
      /\ MaxCalls \in Nat /\ MaxFrames \in Nat /\ MaxBatch \in Nat \ {0}
      /\ read \in Nat
  BY BoundsAssumption, ClientsAssumption DEF TypeOK
<1>2. Len(calls) \in Nat /\ DOMAIN calls = 1..Len(calls)
  BY LenProperties DEF TypeOK
<1>3. frame.items \in Seq(Item)
  BY FrameFields DEF TypeOK
<1>4. Len(frame.items) \in Nat
  BY <1>3, LenProperties
<1>5. closed \in BOOLEAN /\ serving \in BOOLEAN /\ first \in BOOLEAN
      /\ handshaking \in BOOLEAN /\ accepting \in BOOLEAN /\ guard \in BOOLEAN
  BY DEF TypeOK
<1> QED
  BY <1>1, <1>2, <1>3, <1>4, <1>5

\* The calls, the ids and the table of batches, apart from the flags.
TypeRest ==
    /\ read \in 0..MaxFrames
    /\ frame \in Frame
    /\ calls \in Seq(Call) /\ Len(calls) <= MaxCalls
    /\ outstanding \subseteq Ids
    /\ DOMAIN pending \subseteq 1..MaxFrames
    /\ \A f \in DOMAIN pending : pending[f] \in 0..MaxBatch

\* The table without one batch.
LEMMA WithoutFits ==
    ASSUME TypeOK, FrameInv, NEW f, pending' = Without(f)
    PROVE  /\ DOMAIN pending' = DOMAIN pending \ {f}
           /\ \A g \in DOMAIN pending' : pending'[g] = pending[g]
BY DEF Without

\* Reading keeps the types: a frame is taken up within the bounds of its client.
LEMMA ReadsTypes ==
    ASSUME TypeOK, FrameInv, Reads, UNCHANGED client
    PROVE  TypeRest' /\ FrameInv'
<1>0. /\ client.calls \in 0..MaxCalls /\ client.frames \in 0..MaxFrames
      /\ MaxCalls \in Nat /\ MaxFrames \in Nat /\ MaxBatch \in Nat \ {0}
      /\ read \in Nat /\ Len(calls) \in Nat /\ Len(frame.items) \in Nat
  BY Bounds
<1>1. frame = Idle /\ ~frame.batch /\ Len(frame.items) = 0
      /\ read' = read + 1 /\ read' <= client.frames /\ UNCHANGED <<calls, outstanding>>
  BY IdleIsFrame DEF Reads
<1>2. /\ read' \in 0..MaxFrames /\ DOMAIN pending \subseteq 1..read
      /\ \A f \in DOMAIN pending : pending[f] \in 0..MaxBatch
      /\ frame \in Frame /\ calls \in Seq(Call) /\ Len(calls) <= MaxCalls
      /\ outstanding \subseteq Ids
      /\ Len(calls) <= client.calls
  BY <1>0, <1>1 DEF TypeOK, FrameInv
<1>3. CASE UNCHANGED <<frame, pending>>
  BY <1>0, <1>1, <1>2, <1>3 DEF TypeRest, FrameInv
<1>4. CASE /\ frame' \in Frame
           /\ Len(frame'.items) \in Nat \ {0} /\ Len(frame'.items) <= MaxBatch
           /\ Len(calls) + Len(frame'.items) <= client.calls
           /\ ~frame'.batch => Len(frame'.items) = 1
           /\ pending' = IF frame'.batch
                         THEN [g \in DOMAIN pending \cup {read + 1} |->
                                IF g = read + 1 THEN 0 ELSE pending[g]]
                         ELSE pending
  <2>1. CASE frame'.batch
    <3>1. /\ DOMAIN pending' = DOMAIN pending \cup {read + 1}
          /\ pending'[read + 1] = 0
          /\ \A g \in DOMAIN pending : g # read + 1 /\ pending'[g] = pending[g]
      BY <1>0, <1>2, <1>4, <2>1
    <3>2. DOMAIN pending' \subseteq 1..read' /\ DOMAIN pending' \subseteq 1..MaxFrames
      BY <1>0, <1>1, <1>2, <3>1
    <3>3. \A f \in DOMAIN pending' : pending'[f] \in 0..MaxBatch
      BY <1>0, <1>2, <3>1
    <3>4. read' \in DOMAIN pending' /\ pending'[read'] + Len(frame'.items) <= MaxBatch
      BY <1>0, <1>1, <1>4, <3>1
    <3> QED
      BY <1>0, <1>1, <1>2, <1>4, <2>1, <3>2, <3>3, <3>4 DEF TypeRest, FrameInv
  <2>2. CASE ~frame'.batch
    BY <1>0, <1>1, <1>2, <1>4, <2>2 DEF TypeRest, FrameInv
  <2> QED
    BY <2>1, <2>2
<1> QED
  BY <1>3, <1>4 DEF Reads

\* Scheduling keeps the types: a batch expects no more than it had items.
LEMMA AppendsTypes ==
    ASSUME TypeOK, FrameInv, Appends, UNCHANGED client
    PROVE  TypeRest' /\ FrameInv'
<1>0. /\ client.calls \in 0..MaxCalls /\ client.frames \in 0..MaxFrames
      /\ MaxCalls \in Nat /\ MaxFrames \in Nat /\ MaxBatch \in Nat \ {0}
      /\ read \in Nat /\ Len(calls) \in Nat /\ Len(frame.items) \in Nat \ {0}
      /\ Next1.id \in Ids \cup {NoId} /\ frame # Idle
  BY Bounds, NextItem DEF Appends
<1>1. /\ frame' \in Frame /\ read' = read
      /\ calls' \in Seq(Call) /\ Len(calls') = Len(calls) + 1
      /\ Len(calls) + Len(frame.items) <= client.calls
      /\ read <= client.frames /\ read > 0
  BY <1>0 DEF Appends, Grows, FrameInv
<1>2. outstanding' \subseteq Ids
  <2>1. Claimed \subseteq Ids
    BY <1>0 DEF Claimed, TypeOK
  <2> QED
    BY <2>1 DEF Appends, TypeOK
<1>3. /\ \A f \in DOMAIN pending : pending[f] \in 0..MaxBatch
      /\ DOMAIN pending \subseteq 1..read /\ DOMAIN pending \subseteq 1..MaxFrames
      /\ read \in 0..MaxFrames
  BY DEF TypeOK, FrameInv
<1>4. CASE ~frame.batch
  <2>1. frame' = Idle /\ ~frame'.batch /\ Len(frame'.items) = 0
    BY <1>4, IdleIsFrame DEF Appends, Grows
  <2>2. pending' = pending
    BY <1>4 DEF Appends
  <2> QED
    BY <1>0, <1>1, <1>2, <1>3, <2>1, <2>2 DEF TypeRest, FrameInv
<1>5. CASE frame.batch
  <2>1. frame'.batch /\ Len(frame'.items) = Len(frame.items) - 1
        /\ read \in DOMAIN pending /\ pending[read] + Len(frame.items) <= MaxBatch
    BY <1>5 DEF Appends, Grows, FrameInv
  <2>2. /\ DOMAIN pending' = DOMAIN pending
        /\ \A f \in DOMAIN pending : f # read => pending'[f] = pending[f]
        /\ pending'[read] \in {pending[read], pending[read] + 1}
    <3>1. pending' = pending \/ pending' = [pending EXCEPT ![read] = @ + 1]
      BY DEF Appends
    <3> QED
      BY <2>1, <3>1
  <2>3. pending'[read] \in 0..MaxBatch /\ pending'[read] + Len(frame'.items) <= MaxBatch
    BY <1>0, <1>3, <2>1, <2>2
  <2>4. \A f \in DOMAIN pending' : pending'[f] \in 0..MaxBatch
    BY <1>3, <2>2, <2>3
  <2>5. Len(frame'.items) \in Nat /\ Len(calls') + Len(frame'.items) <= client.calls
    <3> DEFINE a == Len(calls)
               b == Len(frame.items)
               k == client.calls
    <3>1. a \in Nat /\ b \in Nat \ {0} /\ k \in 0..MaxCalls /\ MaxCalls \in Nat
      BY <1>0
    <3>2. Len(calls') = a + 1 /\ Len(frame'.items) = b - 1 /\ a + b <= k
      BY <1>1, <2>1
    <3> HIDE DEF a, b, k
    <3>3. Len(frame'.items) \in Nat /\ Len(calls') + Len(frame'.items) <= k
      BY <3>1, <3>2
    <3> QED
      BY <3>3 DEF k
  <2>6. TypeRest'
    BY <1>0, <1>1, <1>2, <1>3, <2>2, <2>4 DEF TypeRest
  <2>7. FrameInv'
    BY <1>1, <1>3, <2>1, <2>2, <2>3, <2>5 DEF FrameInv
  <2> QED
    BY <2>6, <2>7
<1> QED
  BY <1>4, <1>5

\* Steps that neither read nor schedule.
LEMMA SettledTypes ==
    ASSUME TypeOK, FrameInv, UNCHANGED <<client, read>>,
           frame' = frame \/ frame' = Idle,
           calls' \in Seq(Call), Len(calls') = Len(calls),
           outstanding' \subseteq outstanding,
           DOMAIN pending' \subseteq DOMAIN pending,
           \A f \in DOMAIN pending' : pending'[f] \in 0..pending[f],
           frame' = Idle \/ UNCHANGED pending
    PROVE  TypeRest' /\ FrameInv'
<1>0. /\ client.calls \in 0..MaxCalls /\ client.frames \in 0..MaxFrames
      /\ MaxCalls \in Nat /\ MaxFrames \in Nat /\ MaxBatch \in Nat \ {0}
      /\ read \in Nat /\ Len(calls) \in Nat /\ Len(frame.items) \in Nat
  BY Bounds
<1>1. \A f \in DOMAIN pending' : pending'[f] \in 0..MaxBatch
  <2>1. \A f \in DOMAIN pending : pending[f] \in 0..MaxBatch
    BY DEF TypeOK
  <2> QED
    BY <1>0, <2>1
<1>2. frame' \in Frame
  BY IdleIsFrame DEF TypeOK
<1>3. TypeRest'
  <2>1. read' \in 0..MaxFrames /\ Len(calls') <= MaxCalls /\ outstanding' \subseteq Ids
        /\ DOMAIN pending' \subseteq 1..MaxFrames
    BY DEF TypeOK
  <2> QED
    BY <1>1, <1>2, <2>1 DEF TypeRest
<1>4. CASE frame' = Idle
  <2>1. ~frame'.batch /\ Len(frame'.items) = 0
    BY <1>4, IdleIsFrame
  <2>2. Len(calls') + Len(frame'.items) <= client'.calls /\ read' <= client'.frames
    BY <1>0, <2>1 DEF FrameInv
  <2>3. DOMAIN pending' \subseteq 1..read'
    BY DEF FrameInv
  <2> QED
    BY <1>3, <1>4, <2>1, <2>2, <2>3 DEF FrameInv
<1>5. CASE frame' = frame /\ UNCHANGED pending
  BY <1>3, <1>5 DEF FrameInv
<1> QED
  BY <1>4, <1>5

\* Left of a batch: what is expected, or one less.
LEMMA LeftBetween ==
    ASSUME TypeOK, NEW n \in DOMAIN calls, calls[n].frame \in DOMAIN pending
    PROVE  Left(calls[n]) \in 0..pending[calls[n].frame]
<1>1. pending[calls[n].frame] \in Nat
  BY DEF TypeOK
<1> QED
  BY <1>1 DEF Left

\* Kept twice.
LEMMA KeptTwice ==
    ASSUME NEW old, NEW mid, NEW new, NEW S, NEW T, Kept(old, mid, S), Kept(mid, new, T)
    PROVE  Kept(old, new, S \cup T)
BY DEF Kept

\* Every step keeps them.
LEMMA StepsTypes ==
    ASSUME TypeOK, FrameInv, Steps, UNCHANGED client
    PROVE  TypeRest' /\ FrameInv'
<1>0. calls \in Seq(Call) /\ outstanding \subseteq Ids
      /\ \A f \in DOMAIN pending : pending[f] \in Nat
  BY DEF TypeOK
<1>1. CASE Finishes
  <2>1. CASE Flushes(read, calls)
    <3>1. Kept(calls, calls', HeldOf(read, calls)) /\ outstanding' \subseteq outstanding
          /\ pending' = Without(read)
      BY <2>1 DEF Flushes
    <3>2. calls' \in Seq(Call) /\ Len(calls') = Len(calls)
      BY <3>1 DEF Kept
    <3>a. /\ DOMAIN pending' = DOMAIN pending \ {read}
          /\ \A g \in DOMAIN pending' : pending'[g] = pending[g]
      BY <3>1, WithoutFits
    <3>3. DOMAIN pending' \subseteq DOMAIN pending
          /\ \A g \in DOMAIN pending' : pending'[g] \in 0..pending[g]
      BY <1>0, <3>a
    <3> QED
      BY <1>1, <3>1, <3>2, <3>3, SettledTypes DEF Finishes
  <2>2. CASE UNCHANGED <<calls, outstanding, pending>>
    <3>1. \A f \in DOMAIN pending' : pending'[f] \in 0..pending[f]
      BY <1>0, <2>2
    <3> QED
      BY <1>0, <1>1, <2>2, <3>1, SettledTypes DEF Finishes
  <2> QED
    BY <1>1, <2>1, <2>2 DEF Finishes
<1>2. ASSUME NEW n \in DOMAIN calls, Answers(n)
      PROVE  TypeRest' /\ FrameInv'
  <2>1. calls' \in Seq(Call) /\ Len(calls') = Len(calls)
    BY <1>2 DEF Answers, Kept
  <2>2. \A f \in DOMAIN pending' : pending'[f] \in 0..pending[f]
    BY <1>0, <1>2 DEF Answers
  <2> QED
    BY <1>2, <2>1, <2>2, SettledTypes DEF Answers, Takes
<1>3. ASSUME NEW n \in DOMAIN calls, Collects(n)
      PROVE  TypeRest' /\ FrameInv'
  <2> DEFINE f == calls[n].frame
  <2>0. UNCHANGED <<read, frame>> /\ frame = Idle
    BY <1>3 DEF Collects, Takes
  <2>1. CASE Flushes(f, AsideOf(n))
    <3>1. Kept(AsideOf(n), calls', HeldOf(f, AsideOf(n))) /\ outstanding' \subseteq outstanding
          /\ pending' = Without(f)
      BY <2>1 DEF Flushes
    <3>2. calls' \in Seq(Call) /\ Len(calls') = Len(calls)
      BY <3>1, AsideKeeps DEF Kept
    <3>a. /\ DOMAIN pending' = DOMAIN pending \ {f}
          /\ \A g \in DOMAIN pending' : pending'[g] = pending[g]
      BY <3>1, WithoutFits
    <3>3. DOMAIN pending' \subseteq DOMAIN pending
          /\ \A g \in DOMAIN pending' : pending'[g] \in 0..pending[g]
      BY <1>0, <3>a
    <3> QED
      BY <2>0, <3>1, <3>2, <3>3, SettledTypes
  <2>2. CASE /\ f \in DOMAIN pending
             /\ calls' = AsideOf(n)
             /\ pending' = [pending EXCEPT ![f] = Left(calls[n])]
             /\ UNCHANGED <<closed, serving, outstanding>>
    <3>1. calls' \in Seq(Call) /\ Len(calls') = Len(calls)
      BY <2>2, AsideKeeps DEF Kept
    <3>2. DOMAIN pending' \subseteq DOMAIN pending
          /\ \A g \in DOMAIN pending' : pending'[g] \in 0..pending[g]
      BY <1>0, <2>2, LeftBetween
    <3> QED
      BY <2>0, <2>2, <3>1, <3>2, SettledTypes
  <2>3. CASE /\ calls' = Staged(calls, {n}, "silent")
             /\ UNCHANGED <<closed, serving, outstanding, pending>>
    <3>1. Kept(calls, calls', {n})
      BY <1>0, <2>3, StageChanges DEF Stages
    <3>2. calls' \in Seq(Call) /\ Len(calls') = Len(calls)
      BY <3>1 DEF Kept
    <3>3. \A g \in DOMAIN pending' : pending'[g] \in 0..pending[g]
      BY <1>0, <2>3
    <3> QED
      BY <2>0, <2>3, <3>2, <3>3, SettledTypes
  <2> QED
    BY <1>3, <2>1, <2>2, <2>3 DEF Collects
<1>4. ASSUME NEW n \in DOMAIN calls, Moves(n)
      PROVE  TypeRest' /\ FrameInv'
  <2>1. calls' \in Seq(Call) /\ Len(calls') = Len(calls)
        /\ UNCHANGED <<frame, read, outstanding, pending>>
    BY <1>4 DEF Moves, Kept, Sessionwide
  <2>2. \A f \in DOMAIN pending' : pending'[f] \in 0..pending[f]
    BY <1>0, <2>1
  <2> QED
    BY <2>1, <2>2, SettledTypes
<1>5. CASE Quiet
  <2>1. \A f \in DOMAIN pending' : pending'[f] \in 0..pending[f]
    BY <1>0, <1>5 DEF Quiet
  <2> QED
    BY <1>0, <1>5, <2>1, SettledTypes DEF Quiet
<1> QED
  BY <1>1, <1>2, <1>3, <1>4, <1>5, ReadsTypes, AppendsTypes DEF Steps

\* The flags stay booleans, and what is closed stays closed.
LEMMA StepsFlags ==
    ASSUME TypeOK, Steps
    PROVE  /\ closed' \in BOOLEAN /\ serving' \in BOOLEAN
           /\ first' \in BOOLEAN /\ handshaking' \in BOOLEAN
           /\ accepting' \in BOOLEAN /\ guard' \in BOOLEAN
           /\ closed => closed'
<1>0. /\ closed \in BOOLEAN /\ serving \in BOOLEAN /\ first \in BOOLEAN
      /\ handshaking \in BOOLEAN /\ accepting \in BOOLEAN /\ guard \in BOOLEAN
  BY Bounds
<1>1. CASE Reads
  BY <1>0, <1>1 DEF Reads, Onward
<1>2. CASE Appends
  BY <1>0, <1>2 DEF Appends
<1>3. CASE Finishes
  <2>1. Onward
    <3>1. CASE Flushes(read, calls)
      BY <3>1 DEF Flushes
    <3>2. CASE UNCHANGED <<closed, serving>>
      BY <1>0, <3>2 DEF Onward
    <3> QED
      BY <1>3, <3>1, <3>2 DEF Finishes
  <2> QED
    BY <1>0, <1>3, <2>1 DEF Finishes, Onward
<1>4. ASSUME NEW n \in DOMAIN calls, Takes(n)
      PROVE  /\ closed' \in BOOLEAN /\ serving' \in BOOLEAN
             /\ first' \in BOOLEAN /\ handshaking' \in BOOLEAN
             /\ accepting' \in BOOLEAN /\ guard' \in BOOLEAN
             /\ closed => closed'
  BY <1>0, <1>4 DEF Takes, Onward
<1>5. ASSUME NEW n \in DOMAIN calls, Moves(n)
      PROVE  /\ closed' \in BOOLEAN /\ serving' \in BOOLEAN
             /\ first' \in BOOLEAN /\ handshaking' \in BOOLEAN
             /\ accepting' \in BOOLEAN /\ guard' \in BOOLEAN
             /\ closed => closed'
  BY <1>0, <1>5 DEF Moves, Sessionwide
<1>6. CASE Quiet
  BY <1>0, <1>6 DEF Quiet
<1> QED
  BY <1>1, <1>2, <1>3, <1>4, <1>5, <1>6 DEF Steps, Answers, Collects

\* The type invariant is inductive together with FrameInv.
LEMMA TypesKept ==
    ASSUME TypeOK, FrameInv, Next
    PROVE  TypeOK' /\ FrameInv'
<1>1. Steps /\ UNCHANGED client
  BY NextSteps
<1>2. TypeRest' /\ FrameInv'
  BY <1>1, StepsTypes
<1> QED
  BY <1>1, <1>2, StepsFlags DEF TypeOK, TypeRest

-----------------------------------------------------------------------------
(* The handshake, and the order of the frames.                             *)

\* The first call stays alone until it is answered (handshake_pending).
LEMMA HandshakeKept ==
    ASSUME TypeOK, FrameInv, HandshakeInv, Steps, UNCHANGED client
    PROVE  HandshakeInv'
<1>0. /\ Len(calls) \in Nat /\ DOMAIN calls = 1..Len(calls)
      /\ calls \in Seq(Call) /\ ~Idle.batch /\ Idle.items = <<>>
      /\ first \in BOOLEAN /\ handshaking \in BOOLEAN
  BY Bounds, IdleIsFrame DEF TypeOK
<1>a. calls = <<>> <=> Len(calls) = 0
  BY <1>0
<1>1. CASE Reads
  <2>1. CASE UNCHANGED <<first, handshaking, frame, pending>>
    BY <1>1, <2>1 DEF Reads, Onward, HandshakeInv, Next1
  <2>2. CASE first' = FALSE /\ ~serving'
    BY <2>2 DEF HandshakeInv
  <2>3. CASE /\ first' = FALSE /\ handshaking' = first
             /\ frame' \in Frame /\ Len(frame'.items) \in Nat \ {0}
             /\ first => ~frame'.batch /\ frame'.items[1].id # NoId
    <3>1. frame'.items \in Seq(Item)
      BY <2>3, FrameFields
    <3>2. frame'.items # <<>> /\ Head(frame'.items) = frame'.items[1]
      BY <2>3, <3>1
    <3>3. CASE first
      BY <1>1, <2>3, <3>2, <3>3 DEF HandshakeInv, Next1, Reads
    <3>4. CASE ~first
      <4>1. ~handshaking' /\ ~handshaking /\ calls' = calls /\ serving
        BY <1>1, <2>3, <3>4 DEF Reads
      <4> QED
        BY <2>3, <3>4, <4>1 DEF HandshakeInv
    <3> QED
      BY <1>0, <3>3, <3>4
  <2> QED
    BY <1>1, <2>1, <2>2, <2>3 DEF Reads
<1>2. CASE Appends
  <2>1. /\ ~first /\ ~first' /\ serving /\ handshaking' = handshaking /\ frame # Idle
        /\ Len(calls') = Len(calls) + 1
        /\ \A m \in DOMAIN calls : calls'[m] = calls[m]
        /\ calls'[N1].id = Next1.id /\ calls'[N1].batch = frame.batch
        /\ ~frame.batch => frame' = Idle
    BY <1>0, <1>2 DEF Appends, Grows, HandshakeInv
  <2>2. CASE handshaking /\ calls = <<>> /\ ~frame.batch /\ Next1.id # NoId
    <3>1. N1 = 1
      BY <1>0, <1>a, <2>2 DEF N1
    <3> QED
      BY <1>0, <1>a, <2>1, <2>2, <3>1 DEF HandshakeInv
  <2>3. CASE ~handshaking /\ Len(calls) > 0 /\ calls[1].stage = "answered"
    BY <1>0, <2>1, <2>3 DEF HandshakeInv
  <2> QED
    BY <2>1, <2>2, <2>3 DEF HandshakeInv
<1>3. ASSUME ~first, ~first', serving' => serving, NEW S, Kept(calls, calls', S),
             ~handshaking', ~handshaking, 1 \notin S
      PROVE  HandshakeInv'
  BY <1>0, <1>3 DEF HandshakeInv, Kept
<1>4. CASE Finishes
  <2>1. ~first /\ ~first' /\ (serving' => serving) /\ serving /\ handshaking' = handshaking
        /\ frame.batch
    BY <1>0, <1>4 DEF Finishes, Flushes, Onward, HandshakeInv
  <2>2. ~handshaking /\ Len(calls) > 0 /\ calls[1].stage = "answered"
    BY <1>0, <2>1 DEF HandshakeInv
  <2>3. CASE Flushes(read, calls)
    BY <1>3, <2>1, <2>2, <2>3 DEF Flushes, HeldOf
  <2>4. CASE calls' = calls
    BY <2>1, <2>2, <2>4 DEF HandshakeInv
  <2> QED
    BY <1>4, <2>3, <2>4 DEF Finishes
<1>5. ASSUME NEW n \in DOMAIN calls, Answers(n)
      PROVE  HandshakeInv'
  <2>1. ~first /\ ~first' /\ serving /\ (serving' => serving) /\ ~handshaking'
        /\ frame' = frame /\ ~calls[n].batch
        /\ calls[n].stage = "resulted" /\ Kept(calls, calls', {n}) /\ calls # <<>>
    BY <1>0, <1>a, <1>5 DEF Answers, Takes, Onward, HandshakeInv
  <2>2. CASE Len(calls) = 1 /\ calls[1].id # NoId
    <3>1. n = 1
      BY <1>0, <2>2
    <3>2. Len(calls') > 0 /\ (serving' => calls'[1].stage = "answered")
      BY <1>5, <2>1, <2>2, <3>1 DEF Answers, Responds, Kept
    <3> QED
      BY <2>1, <3>2 DEF HandshakeInv
  <2>3. CASE ~handshaking /\ Len(calls) > 0 /\ calls[1].stage = "answered"
    BY <1>3, <2>1, <2>3
  <2> QED
    BY <2>1, <2>2, <2>3 DEF HandshakeInv
<1>6. ASSUME NEW n \in DOMAIN calls, Collects(n)
      PROVE  HandshakeInv'
  <2> DEFINE f == calls[n].frame
  <2>1. ~first /\ ~first' /\ serving /\ (serving' => serving) /\ ~handshaking'
        /\ frame' = frame /\ calls[n].batch /\ calls[n].stage = "resulted" /\ calls # <<>>
    BY <1>0, <1>a, <1>6 DEF Collects, Takes, Onward, HandshakeInv
  <2>2. ~handshaking /\ Len(calls) > 0 /\ calls[1].stage = "answered" /\ n # 1
    BY <1>0, <2>1 DEF HandshakeInv
  <2>3. CASE Flushes(f, AsideOf(n))
    <3>1. Kept(calls, calls', {n} \cup HeldOf(f, AsideOf(n)))
      BY <2>3, AsideKeeps, KeptTwice DEF Flushes
    <3>2. AsideOf(n)[1] = calls[1]
      BY <1>0, <2>2, AsideKeeps DEF Kept
    <3>3. 1 \notin {n} \cup HeldOf(f, AsideOf(n))
      BY <2>2, <3>2 DEF HeldOf
    <3> QED
      BY <1>3, <2>1, <2>2, <3>1, <3>3
  <2>4. CASE calls' = AsideOf(n) \/ calls' = Staged(calls, {n}, "silent")
    <3>1. Kept(calls, calls', {n})
      BY <1>0, <2>4, AsideKeeps, StageChanges DEF Stages
    <3> QED
      BY <1>3, <2>1, <2>2, <3>1
  <2> QED
    BY <1>6, <2>3, <2>4 DEF Collects
<1>7. ASSUME NEW n \in DOMAIN calls, Moves(n)
      PROVE  HandshakeInv'
  <2>1. ~first /\ ~first' /\ serving' = serving /\ handshaking' = handshaking
        /\ frame' = frame /\ Kept(calls, calls', {n}) /\ calls # <<>>
        /\ calls[n].stage # "answered"
    BY <1>0, <1>a, <1>7 DEF Moves, Sessionwide, HandshakeInv, Flying
  <2>2. CASE handshaking /\ Len(calls) = 1 /\ frame = Idle
             /\ calls[1].id # NoId /\ ~calls[1].batch
    BY <1>0, <2>1, <2>2 DEF HandshakeInv, Kept
  <2>3. CASE ~handshaking /\ Len(calls) > 0 /\ calls[1].stage = "answered"
    BY <1>3, <2>1, <2>3
  <2> QED
    BY <2>1, <2>2, <2>3 DEF HandshakeInv
<1>8. CASE Quiet
  BY <1>8 DEF Quiet, HandshakeInv, Next1
<1> QED
  BY <1>1, <1>2, <1>4, <1>5, <1>6, <1>7, <1>8 DEF Steps

\* The steps that neither read a frame nor schedule a call.
LEMMA CallsStay ==
    ASSUME CallsInv, NEW S, Kept(calls, calls', S), UNCHANGED read,
           frame' = frame \/ frame' = Idle,
           DOMAIN pending' \subseteq DOMAIN pending,
           \A n \in DOMAIN calls : calls'[n].stage \in Flying => calls[n].stage \in Flying
    PROVE  CallsInv'
BY DEF CallsInv, Kept, Of

\* Every step keeps the calls of a frame together.
LEMMA CallsKept ==
    ASSUME TypeOK, FrameInv, CallsInv, Steps
    PROVE  CallsInv'
<1>0. /\ Len(calls) \in Nat /\ DOMAIN calls = 1..Len(calls)
      /\ calls \in Seq(Call) /\ ~Idle.batch /\ Idle.items = <<>>
      /\ read \in Nat /\ DOMAIN pending \subseteq 1..read
      /\ \A n \in DOMAIN calls : calls[n].frame \in 1..MaxFrames
      /\ MaxFrames \in Nat
  <2>1. \A n \in DOMAIN calls : calls[n] \in Call
    BY ElementOfSeq DEF TypeOK
  <2>2. \A n \in DOMAIN calls : calls[n].frame \in 1..MaxFrames
    BY <2>1, CallFields
  <2> QED
    BY <2>2, Bounds, IdleIsFrame DEF TypeOK, FrameInv
<1>1. CASE Reads
  <2>1. frame = Idle /\ read' = read + 1 /\ calls' = calls
    BY <1>1 DEF Reads
  <2>2. \A n \in DOMAIN calls : calls[n].frame <= read /\ calls[n].frame # read + 1
    BY <1>0 DEF CallsInv
  <2>3. \A n \in DOMAIN calls : calls[n].frame <= read'
    BY <1>0, <2>1, <2>2
  <2>4. Of(read + 1) = {} /\ read + 1 \notin DOMAIN pending
    BY <1>0, <2>2 DEF Of
  <2>5. \/ DOMAIN pending' = DOMAIN pending
        \/ frame'.batch /\ DOMAIN pending' = DOMAIN pending \cup {read + 1}
    BY <1>1 DEF Reads
  <2> QED
    BY <1>0, <2>1, <2>3, <2>4, <2>5 DEF CallsInv, Of
<1>2. CASE Appends
  <2>1. /\ frame # Idle /\ read' = read
        /\ DOMAIN calls' = DOMAIN calls \cup {N1} /\ N1 \notin DOMAIN calls
        /\ \A m \in DOMAIN calls : calls'[m] = calls[m]
        /\ calls'[N1].class = Next1.class
        /\ calls'[N1].frame = read /\ calls'[N1].batch = frame.batch
        /\ frame.batch => frame'.batch
        /\ ~frame.batch => frame' = Idle
    BY <1>0, <1>2 DEF Appends, Grows, N1
  <2>2. DOMAIN pending' = DOMAIN pending
    BY <1>2 DEF Appends
  <2>3. calls'[N1].class = "invalid" => calls'[N1].stage \notin Flying
    BY <1>2, <2>1 DEF Appends, Flying
  <2>4. \A n \in Of(read) : frame.batch /\ calls[n].batch
    BY <2>1 DEF CallsInv
  <2>5. \A n \in DOMAIN calls' : calls'[n].frame <= read'
    BY <1>0, <2>1 DEF CallsInv
  <2>6. \A m, n \in DOMAIN calls' : calls'[m].frame = calls'[n].frame =>
          /\ calls'[m].batch = calls'[n].batch
          /\ m # n => calls'[n].batch
    <3> SUFFICES ASSUME NEW m \in DOMAIN calls', NEW n \in DOMAIN calls',
                        calls'[m].frame = calls'[n].frame
                 PROVE  /\ calls'[m].batch = calls'[n].batch
                        /\ m # n => calls'[n].batch
      OBVIOUS
    <3>0. frame.batch = TRUE \/ frame.batch = FALSE
      BY FrameFields DEF TypeOK
    <3>00. \A k \in Of(read) : calls[k].batch = TRUE /\ frame.batch = TRUE
      <4>1. \A k \in Of(read) : calls[k].batch \in BOOLEAN
        BY <1>0, ElementOfSeq, CallFields DEF Of
      <4> QED
        BY <2>4, <3>0, <4>1
    <3>1. CASE m = N1 /\ n = N1
      BY <3>1
    <3>2. CASE m = N1 /\ n # N1
      <4>1. n \in Of(read)
        BY <2>1, <3>2 DEF Of
      <4> QED
        BY <2>1, <3>00, <3>2, <4>1
    <3>3. CASE m # N1 /\ n = N1
      <4>1. m \in Of(read)
        BY <2>1, <3>3 DEF Of
      <4> QED
        BY <2>1, <3>00, <3>3, <4>1
    <3>4. CASE m # N1 /\ n # N1
      BY <2>1, <3>4 DEF CallsInv
    <3> QED
      BY <3>1, <3>2, <3>3, <3>4
  <2>7. frame' # Idle => \A n \in Of(read)' : frame'.batch /\ calls'[n].batch
    BY <2>1, <2>4 DEF Of
  <2>8. \A f \in DOMAIN pending' : \A n \in Of(f)' : calls'[n].batch
    BY <2>1, <2>2 DEF Of, CallsInv
  <2>9. \A n \in DOMAIN calls' : calls'[n].class = "invalid" => calls'[n].stage \notin Flying
    BY <2>1, <2>3 DEF CallsInv
  <2> QED
    BY <2>1, <2>2, <2>5, <2>6, <2>7, <2>8, <2>9 DEF CallsInv
<1>3. CASE Finishes
  <2>1. frame' = Idle /\ read' = read
    BY <1>3 DEF Finishes
  <2>2. CASE Flushes(read, calls)
    <3>1. /\ Kept(calls, calls', HeldOf(read, calls))
          /\ DOMAIN pending' \subseteq DOMAIN pending
      BY <2>2, WithoutFits DEF Flushes
    <3>2. \A n \in DOMAIN calls : calls'[n].stage \in Flying => calls[n].stage \in Flying
      BY <2>2 DEF Flushes, Kept, Flying
    <3> QED
      BY <2>1, <3>1, <3>2, CallsStay
  <2>3. CASE UNCHANGED <<calls, pending>>
    BY <1>0, <2>1, <2>3, CallsStay DEF Kept
  <2> QED
    BY <1>3, <2>2, <2>3 DEF Finishes
<1>4. ASSUME NEW n \in DOMAIN calls, Answers(n)
      PROVE  CallsInv'
  <2>1. /\ Kept(calls, calls', {n}) /\ UNCHANGED <<read, frame, pending>>
        /\ calls[n].stage \in Flying
    BY <1>4 DEF Answers, Takes, Flying
  <2>2. \A m \in DOMAIN calls : calls'[m].stage \in Flying => calls[m].stage \in Flying
    BY <2>1 DEF Kept
  <2> QED
    BY <2>1, <2>2, CallsStay
<1>5. ASSUME NEW n \in DOMAIN calls, Collects(n)
      PROVE  CallsInv'
  <2> DEFINE f == calls[n].frame
  <2>1. UNCHANGED <<read, frame>> /\ calls[n].stage \in Flying
    BY <1>5 DEF Collects, Takes, Flying
  <2>2. CASE Flushes(f, AsideOf(n))
    <3>1. Kept(calls, calls', {n} \cup HeldOf(f, AsideOf(n)))
          /\ DOMAIN pending' \subseteq DOMAIN pending
      BY <2>2, AsideKeeps, KeptTwice, WithoutFits DEF Flushes
    <3>2. \A m \in HeldOf(f, AsideOf(n)) : calls'[m].stage \notin Flying
      BY <2>2 DEF Flushes, Flying
    <3>3. \A m \in DOMAIN calls : calls'[m].stage \in Flying => calls[m].stage \in Flying
      BY <2>1, <3>1, <3>2 DEF Kept
    <3> QED
      BY <2>1, <3>1, <3>3, CallsStay
  <2>3. CASE /\ calls' = AsideOf(n) \/ calls' = Staged(calls, {n}, "silent")
             /\ DOMAIN pending' = DOMAIN pending
    <3>1. Kept(calls, calls', {n})
      BY <1>0, <2>3, AsideKeeps, StageChanges DEF Stages
    <3>2. \A m \in DOMAIN calls : calls'[m].stage \in Flying => calls[m].stage \in Flying
      BY <2>1, <3>1 DEF Kept
    <3> QED
      BY <2>1, <2>3, <3>1, <3>2, CallsStay
  <2> QED
    BY <1>5, <2>2, <2>3 DEF Collects
<1>6. ASSUME NEW n \in DOMAIN calls, Moves(n)
      PROVE  CallsInv'
  <2>1. UNCHANGED <<read, frame, pending>> /\ Kept(calls, calls', {n})
        /\ calls[n].stage \in Flying
    BY <1>6 DEF Moves, Sessionwide
  <2>2. \A m \in DOMAIN calls : calls'[m].stage \in Flying => calls[m].stage \in Flying
    BY <2>1 DEF Kept
  <2> QED
    BY <2>1, <2>2, CallsStay
<1>7. CASE Quiet
  BY <1>0, <1>7, CallsStay DEF Quiet, Kept
<1> QED
  BY <1>1, <1>2, <1>3, <1>4, <1>5, <1>6, <1>7 DEF Steps

-----------------------------------------------------------------------------
(* Batches that are awaited.                                                *)

\* A batch of which nothing is expected leaves the table in the step that finds it.
LEMMA ExpectKept ==
    ASSUME TypeOK, FrameInv, CallsInv, ExpectInv, Steps
    PROVE  ExpectInv'
<1>0. /\ ~Idle.batch /\ read \in Nat
      /\ \A f \in DOMAIN pending : pending[f] \in Nat
      /\ serving \in BOOLEAN /\ DOMAIN pending \subseteq 1..read
  BY IdleIsFrame, Bounds DEF TypeOK, FrameInv
<1>1. CASE Reads
  <2>1. frame = Idle /\ read' = read + 1 /\ serving
    BY <1>1 DEF Reads
  <2>2. \A f \in DOMAIN pending : pending[f] > 0
    BY <1>0, <2>1 DEF ExpectInv
  <2>3. \/ pending' = pending
        \/ /\ frame'.batch
           /\ pending' = [g \in DOMAIN pending \cup {read + 1} |->
                                IF g = read + 1 THEN 0 ELSE pending[g]]
    BY <1>1 DEF Reads
  <2> QED
    BY <2>1, <2>2, <2>3 DEF ExpectInv
<1>2. CASE Appends
  <2>1. serving /\ read' = read /\ (frame.batch => frame'.batch)
    BY <1>2 DEF Appends, Grows
  <2>2. /\ DOMAIN pending' = DOMAIN pending
        /\ \A f \in DOMAIN pending : pending'[f] = pending[f] \/ pending'[f] = pending[f] + 1
    BY <1>2 DEF Appends
  <2>3. \A f \in DOMAIN pending : pending[f] > 0 => pending'[f] > 0
    BY <1>0, <2>2
  <2> QED
    BY <2>1, <2>2, <2>3 DEF ExpectInv
<1>3. CASE Finishes
  <2>1. serving /\ read' = read
    BY <1>3 DEF Finishes
  <2>2. CASE Flushes(read, calls)
    <3>1. /\ DOMAIN pending' = DOMAIN pending \ {read}
          /\ \A g \in DOMAIN pending' : pending'[g] = pending[g]
      BY <2>2, WithoutFits DEF Flushes
    <3> QED
      BY <2>1, <3>1 DEF ExpectInv
  <2>3. CASE pending[read] # 0 /\ UNCHANGED pending
    BY <1>0, <2>1, <2>3 DEF ExpectInv
  <2> QED
    BY <1>3, <2>2, <2>3 DEF Finishes
<1>4. ASSUME NEW n \in DOMAIN calls, Answers(n)
      PROVE  ExpectInv'
  BY <1>4 DEF Answers, Takes, ExpectInv
<1>5. ASSUME NEW n \in DOMAIN calls, Collects(n)
      PROVE  ExpectInv'
  <2> DEFINE f == calls[n].frame
  <2>1. serving /\ UNCHANGED <<read, frame>>
    BY <1>5 DEF Collects, Takes
  <2>2. CASE Flushes(f, AsideOf(n))
    <3>1. /\ DOMAIN pending' = DOMAIN pending \ {f}
          /\ \A g \in DOMAIN pending' : pending'[g] = pending[g]
      BY <2>2, WithoutFits DEF Flushes
    <3> QED
      BY <2>1, <3>1 DEF ExpectInv
  <2>3. CASE Left(calls[n]) > 0 /\ pending' = [pending EXCEPT ![f] = Left(calls[n])]
    BY <2>1, <2>3 DEF ExpectInv
  <2>4. CASE UNCHANGED pending
    BY <2>1, <2>4 DEF ExpectInv
  <2> QED
    BY <1>5, <2>2, <2>3, <2>4 DEF Collects
<1>6. ASSUME NEW n \in DOMAIN calls, Moves(n)
      PROVE  ExpectInv'
  BY <1>6 DEF Moves, Sessionwide, ExpectInv
<1>7. CASE Quiet
  BY <1>7 DEF Quiet, ExpectInv
<1> QED
  BY <1>1, <1>2, <1>3, <1>4, <1>5, <1>6, <1>7 DEF Steps

-----------------------------------------------------------------------------
(* The flush of a batch in a session that stays open.                      *)

\* The batch f leaves the table: every answer it owes is sent, none was sent
\* before, nothing it waits for is left, and its ids are free again.
Flushed(f) ==
    /\ f \in DOMAIN pending
    /\ Kept(calls, calls', Of(f))
    /\ pending' = Without(f)
    /\ outstanding' = outstanding \ RequestIds(f)
    /\ \A m \in Of(f) :
        /\ Responds(calls[m]) /\ calls[m].stage # "dropped" =>
            calls[m].stage # "answered" /\ calls'[m].stage = "answered"
        /\ Responds(calls[m]) /\ calls[m].stage = "dropped" =>
            calls'[m].stage = "dropped"
        /\ ~Responds(calls[m]) =>
            /\ calls[m].stage \in Flying \cup {"silent", "dropped"}
            /\ calls'[m].stage \in {calls[m].stage, "silent"}
            /\ calls'[m].stage \in Flying => ~CountsTowardBatch(calls[m])

\* The stage a call is in, by the fields it has.
LEMMA CallTypes ==
    ASSUME TypeOK
    PROVE  /\ DOMAIN calls = 1..Len(calls) /\ Len(calls) \in Nat
           /\ \A n \in DOMAIN calls :
                /\ calls[n].id \in Ids \cup {NoId} /\ calls[n].class \in Classes
                /\ calls[n].frame \in 1..MaxFrames /\ calls[n].batch \in BOOLEAN
                /\ calls[n].stage \in Flying
                    \cup {"held", "answered", "silent", "dropped", "lost"}
<1>1. DOMAIN calls = 1..Len(calls) /\ Len(calls) \in Nat
  BY LenProperties DEF TypeOK
<1>2. \A n \in DOMAIN calls : calls[n] \in Call
  BY ElementOfSeq, <1>1 DEF TypeOK
<1> QED
  BY <1>1, <1>2, CallFields DEF Stages, Flying

\* A flush of which the session survives, or by which a call is answered, sends
\* what was put aside and frees the ids.
LEMMA FlushAnswers ==
    ASSUME NEW f, NEW S, NEW old, Kept(calls, old, S),
           \A m \in S : old[m].stage # "answered",
           Flushes(f, old), ~closed' \/ NewlyAnswered # {}
    PROVE  /\ \A m \in HeldOf(f, old) : calls'[m].stage = "answered"
           /\ outstanding' = outstanding \ RequestIds(f)
           /\ NewlyAnswered # {} => ~closed
<1>1. ASSUME NEW m \in NewlyAnswered
      PROVE  m \in HeldOf(f, old) /\ calls'[m].stage = "answered"
  <2>1. /\ m \in DOMAIN calls' /\ calls'[m].stage = "answered"
        /\ m \in DOMAIN calls => calls[m].stage # "answered"
    BY DEF NewlyAnswered
  <2>2. m \in DOMAIN old /\ m \in DOMAIN calls
    BY <2>1 DEF Flushes, Kept
  <2>3. old[m].stage # "answered"
    BY <2>1, <2>2 DEF Kept
  <2> QED
    BY <2>1, <2>2, <2>3 DEF Flushes, Kept
<1>2. CASE /\ \A m \in HeldOf(f, old) : calls'[m].stage = "lost"
           /\ closed' /\ ~serving'
  <2>1. PICK m \in NewlyAnswered : TRUE
    BY <1>2
  <2> QED
    BY <1>1, <1>2, <2>1
<1>3. NewlyAnswered # {} => HeldOf(f, old) # {}
  BY <1>1
<1> QED
  BY <1>2, <1>3 DEF Flushes

\* In an open session a flush is whole: all that is owed is among what is sent.
LEMMA FlushedWhole ==
    ASSUME TypeOK, CallsInv, StageInv, ~closed, ~closed' \/ NewlyAnswered # {},
           NEW f \in DOMAIN pending, NEW S \in SUBSET Of(f), NEW old, Kept(calls, old, S),
           \A m \in S : /\ calls[m].stage \in Flying
                        /\ old[m].stage = IF Responds(calls[m]) THEN "held" ELSE "silent",
           \A m \in Of(f) : old[m].stage \in Flying => ~CountsTowardBatch(calls[m]),
           Flushes(f, old)
    PROVE  Flushed(f)
<1>1. /\ Kept(old, calls', HeldOf(f, old)) /\ pending' = Without(f)
      /\ outstanding' = outstanding \ RequestIds(f)
      /\ \A m \in HeldOf(f, old) : calls'[m].stage = "answered"
  <2>1. \A m \in S : old[m].stage # "answered"
    OBVIOUS
  <2> QED
    BY <2>1, FlushAnswers DEF Flushes
<1>2. HeldOf(f, old) \subseteq Of(f)
  BY DEF HeldOf, Of, Kept
<1>3. Kept(calls, calls', Of(f))
  <2>1. Kept(calls, calls', S \cup HeldOf(f, old))
    BY <1>1, KeptTwice
  <2> QED
    BY <1>2, <2>1 DEF Kept
<1>4. ASSUME NEW m \in Of(f)
      PROVE  /\ Responds(calls[m]) /\ calls[m].stage # "dropped" =>
                calls[m].stage # "answered" /\ calls'[m].stage = "answered"
             /\ Responds(calls[m]) /\ calls[m].stage = "dropped" =>
                calls'[m].stage = "dropped"
             /\ ~Responds(calls[m]) =>
                /\ calls[m].stage \in Flying \cup {"silent", "dropped"}
                /\ calls'[m].stage \in {calls[m].stage, "silent"}
                /\ calls'[m].stage \in Flying => ~CountsTowardBatch(calls[m])
  <2>1. /\ m \in DOMAIN calls /\ calls[m].frame = f /\ m \in DOMAIN old /\ old[m].frame = f
        /\ m \notin S => old[m] = calls[m]
    BY DEF Of, Kept
  <2>2. /\ calls[m].stage \in Flying \cup {"held", "silent", "dropped"}
        /\ calls[m].stage = "silent" => ~Responds(calls[m])
        /\ calls[m].stage = "held" => Responds(calls[m])
        /\ calls[m].class = "invalid" => calls[m].stage \notin Flying
    BY <2>1, CallTypes DEF StageInv, CallsInv
  <2>3. m \notin HeldOf(f, old) => calls'[m] = old[m]
    BY <1>1, <2>1 DEF Kept
  <2>4. old[m].stage = "held" => calls'[m].stage = "answered"
    BY <1>1, <2>1 DEF HeldOf
  <2>5. CASE Responds(calls[m]) /\ calls[m].stage # "dropped"
    <3>1. calls[m].stage \in Flying => CountsTowardBatch(calls[m])
      BY <2>2, <2>5 DEF Responds, CountsTowardBatch
    <3>2. old[m].stage = "held"
      BY <2>1, <2>2, <2>5, <3>1
    <3> QED
      BY <2>2, <2>4, <2>5, <3>2 DEF Flying
  <2>6. CASE Responds(calls[m]) /\ calls[m].stage = "dropped"
    <3>1. m \notin S /\ m \notin HeldOf(f, old)
      BY <2>1, <2>6 DEF HeldOf, Flying
    <3> QED
      BY <2>1, <2>3, <2>6, <3>1
  <2>7. CASE ~Responds(calls[m])
    <3>1. /\ calls[m].stage \in Flying \cup {"silent", "dropped"}
          /\ old[m].stage \in {calls[m].stage, "silent"}
      BY <2>1, <2>2, <2>7
    <3>2. m \notin HeldOf(f, old)
      BY <3>1 DEF HeldOf, Flying
    <3> QED
      BY <2>3, <2>7, <3>1, <3>2
  <2> QED
    BY <2>5, <2>6, <2>7
<1> QED
  BY <1>1, <1>3, <1>4 DEF Flushed

-----------------------------------------------------------------------------
(* What is awaited, counted.                                               *)

\* What is awaited can be counted.
LEMMA AwaitedFinite ==
    ASSUME TypeOK, NEW f
    PROVE  /\ IsFiniteSet(Awaited(f)) /\ Cardinality(Awaited(f)) \in Nat
           /\ Cardinality(Awaited(f)) = 0 <=> Awaited(f) = {}
<1>1. DOMAIN calls = 1..Len(calls) /\ Len(calls) \in Nat
  BY CallTypes
<1>2. IsFiniteSet(1..Len(calls))
  BY <1>1, FS_Interval
<1>3. Awaited(f) \in SUBSET (1..Len(calls))
  BY <1>1 DEF Awaited, Of
<1>4. IsFiniteSet(Awaited(f))
  BY <1>2, <1>3, FS_Subset
<1> QED
  BY <1>4, FS_CardinalityType, FS_EmptySet

\* The count and what it counts after the result of call n.
LEMMA LeftCounts ==
    ASSUME TypeOK, FrameInv, CountInv, ~closed, NEW n \in DOMAIN calls,
           calls[n].stage \in Flying, calls[n].frame \in DOMAIN pending
    PROVE  /\ Left(calls[n]) = Cardinality(Awaited(calls[n].frame) \ {n})
           /\ Left(calls[n]) = 0 <=> Awaited(calls[n].frame) \ {n} = {}
<1> DEFINE f == calls[n].frame
<1>1. /\ IsFiniteSet(Awaited(f)) /\ Cardinality(Awaited(f)) \in Nat
      /\ Cardinality(Awaited(f)) = 0 <=> Awaited(f) = {}
  BY AwaitedFinite
<1>2. pending[f] = Cardinality(Awaited(f))
  BY DEF CountInv
<1>3. /\ IsFiniteSet(Awaited(f) \ {n})
      /\ Cardinality(Awaited(f) \ {n}) =
            IF n \in Awaited(f) THEN Cardinality(Awaited(f)) - 1 ELSE Cardinality(Awaited(f))
  BY <1>1, FS_RemoveElement
<1>4. n \in Awaited(f) <=> CountsTowardBatch(calls[n])
  BY DEF Awaited, Of
<1>5. n \in Awaited(f) => Cardinality(Awaited(f)) > 0
  BY <1>1
<1>6. Left(calls[n]) = Cardinality(Awaited(f) \ {n})
  BY <1>1, <1>2, <1>3, <1>4, <1>5 DEF Left
<1>7. Cardinality(Awaited(f) \ {n}) = 0 <=> Awaited(f) \ {n} = {}
  BY <1>3, FS_EmptySet
<1> QED
  BY <1>6, <1>7

\* The last item of a batch of which nothing is awaited.
LEMMA FinishFlushed ==
    ASSUME TypeOK, FrameInv, CallsInv, StageInv, CountInv, ~closed, ~closed' \/ NewlyAnswered # {},
           Finishes, Flushes(read, calls), pending[read] = 0
    PROVE  Flushed(read)
<1>1. read \in DOMAIN pending
  BY DEF FrameInv, Finishes
<1>2. Awaited(read) = {}
  BY <1>1, AwaitedFinite DEF CountInv
<1>3. \A m \in Of(read) : calls[m].stage \in Flying => ~CountsTowardBatch(calls[m])
  BY <1>2 DEF Awaited
<1>4. Kept(calls, calls, {})
  BY DEF Kept, TypeOK
<1> QED
  BY <1>1, <1>3, <1>4, FlushedWhole

\* The last result of a batch.
LEMMA CollectFlushed ==
    ASSUME TypeOK, FrameInv, CallsInv, StageInv, CountInv, ~closed, ~closed' \/ NewlyAnswered # {},
           NEW n \in DOMAIN calls, Collects(n), calls[n].frame \in DOMAIN pending,
           Left(calls[n]) = 0, Flushes(calls[n].frame, AsideOf(n))
    PROVE  Flushed(calls[n].frame)
<1> DEFINE f == calls[n].frame
<1>1. calls[n].stage \in Flying /\ {n} \in SUBSET Of(f)
  BY DEF Collects, Takes, Flying, Of
<1>2. Awaited(f) \ {n} = {}
  BY <1>1, LeftCounts
<1>3. /\ Kept(calls, AsideOf(n), {n})
      /\ AsideOf(n)[n].stage = IF Responds(calls[n]) THEN "held" ELSE "silent"
  BY AsideKeeps
<1>4. \A m \in Of(f) : AsideOf(n)[m].stage \in Flying => ~CountsTowardBatch(calls[m])
  <2>1. AsideOf(n)[n].stage \notin Flying
    BY <1>3 DEF Flying
  <2>2. \A m \in Of(f) \ {n} : AsideOf(n)[m] = calls[m]
    BY <1>3 DEF Kept, Of
  <2> QED
    BY <1>2, <2>1, <2>2 DEF Awaited
<1> QED
  BY <1>1, <1>3, <1>4, FlushedWhole

-----------------------------------------------------------------------------
(* The stages of the calls while the session is open.                      *)

\* Every step keeps the stages in order.
LEMMA StageKept ==
    ASSUME TypeOK, FrameInv, CallsInv, StageInv, CountInv, Steps
    PROVE  StageInv'
<1> SUFFICES ASSUME ~closed'
             PROVE  /\ serving'
                    /\ \A n \in DOMAIN calls' :
                        /\ calls'[n].stage # "lost"
                        /\ calls'[n].stage = "silent" => ~Responds(calls'[n])
                        /\ calls'[n].stage = "dropped" => ~accepting'
                        /\ calls'[n].stage = "held" =>
                              Responds(calls'[n]) /\ calls'[n].frame \in DOMAIN pending'
                        /\ calls'[n].stage \in Flying /\ calls'[n].batch
                           /\ CountsTowardBatch(calls'[n])
                              => calls'[n].frame \in DOMAIN pending'
                        /\ calls'[n].frame \in DOMAIN pending' => calls'[n].stage # "answered"
  BY Zenon DEF StageInv
<1> USE DEF Responds, CountsTowardBatch
<1>0. /\ ~closed /\ serving /\ serving \in BOOLEAN
  BY StepsFlags, Bounds DEF StageInv
<1>a. calls \in Seq(Call) /\ Kept(calls, calls, {})
  BY DEF TypeOK, Kept
\* What is known of a call that a step leaves alone.
<1>b. ASSUME NEW m \in DOMAIN calls,
             calls'[m] = calls[m], accepting' => accepting,
             calls[m].frame \in DOMAIN pending' <=> calls[m].frame \in DOMAIN pending
      PROVE  /\ calls'[m].stage # "lost"
             /\ calls'[m].stage = "silent" => ~Responds(calls'[m])
             /\ calls'[m].stage = "dropped" => ~accepting'
             /\ calls'[m].stage = "held" =>
                   Responds(calls'[m]) /\ calls'[m].frame \in DOMAIN pending'
             /\ calls'[m].stage \in Flying /\ calls'[m].batch /\ CountsTowardBatch(calls'[m])
                   => calls'[m].frame \in DOMAIN pending'
             /\ calls'[m].frame \in DOMAIN pending' => calls'[m].stage # "answered"
  BY <1>0, <1>b DEF StageInv
<1>1. CASE Reads
  <2>1. serving' /\ calls' = calls /\ accepting' = accepting
    BY <1>0, <1>1 DEF Reads, Onward
  <2>2. DOMAIN pending' = DOMAIN pending \/ DOMAIN pending' = DOMAIN pending \cup {read + 1}
    BY <1>1 DEF Reads
  <2>3. \A m \in DOMAIN calls : calls[m].frame # read + 1
    <3>1. read \in Nat
      BY Bounds
    <3>2. \A m \in DOMAIN calls : calls[m].frame \in 1..MaxFrames /\ calls[m].frame <= read
      BY CallTypes DEF CallsInv
    <3> QED
      BY <3>1, <3>2, BoundsAssumption
  <2> QED
    BY <1>b, <2>1, <2>2, <2>3
<1>2. CASE Appends
  <2>1. /\ serving' /\ accepting' = accepting /\ frame # Idle
        /\ DOMAIN calls' = DOMAIN calls \cup {N1}
        /\ \A m \in DOMAIN calls : calls'[m] = calls[m]
        /\ calls'[N1].id = Next1.id /\ calls'[N1].class = Next1.class
        /\ calls'[N1].frame = read /\ calls'[N1].batch = frame.batch
        /\ DOMAIN pending' = DOMAIN pending
    BY <1>0, <1>2, NextItem, CallTypes DEF Appends, Grows, N1
  <2>2. frame.batch <=> read \in DOMAIN pending
    BY <2>1 DEF FrameInv, CallsInv
  <2>3. /\ calls'[N1].stage # "lost"
        /\ calls'[N1].stage = "silent" => ~Responds(calls'[N1])
        /\ calls'[N1].stage = "dropped" => ~accepting'
        /\ calls'[N1].stage = "held" =>
              Responds(calls'[N1]) /\ calls'[N1].frame \in DOMAIN pending'
        /\ calls'[N1].stage \in Flying /\ calls'[N1].batch /\ CountsTowardBatch(calls'[N1])
              => calls'[N1].frame \in DOMAIN pending'
        /\ calls'[N1].frame \in DOMAIN pending' => calls'[N1].stage # "answered"
    BY <1>2, <2>1, <2>2 DEF Appends, Flying
  <2> QED
    BY <1>b, <2>1, <2>3
\* A flush.
<1>3. ASSUME NEW f, Flushed(f), serving', accepting' => accepting
      PROVE  StageInv'
  <2>1. /\ Kept(calls, calls', Of(f)) /\ DOMAIN pending' = DOMAIN pending \ {f}
    BY <1>3, WithoutFits DEF Flushed
  <2>2. ASSUME NEW m \in Of(f)
        PROVE  /\ calls'[m].stage # "lost"
               /\ calls'[m].stage = "silent" => ~Responds(calls'[m])
               /\ calls'[m].stage = "dropped" => ~accepting'
               /\ calls'[m].stage = "held" =>
                    Responds(calls'[m]) /\ calls'[m].frame \in DOMAIN pending'
               /\ calls'[m].stage \in Flying /\ calls'[m].batch /\ CountsTowardBatch(calls'[m])
                    => calls'[m].frame \in DOMAIN pending'
               /\ calls'[m].frame \in DOMAIN pending' => calls'[m].stage # "answered"
    <3>1. /\ m \in DOMAIN calls /\ calls'[m].frame = f
          /\ calls'[m].id = calls[m].id /\ calls'[m].class = calls[m].class
      BY <2>1 DEF Of, Kept
    <3>2. calls'[m].frame \notin DOMAIN pending'
      BY <2>1, <3>1
    <3>3. CASE Responds(calls[m]) /\ calls[m].stage # "dropped"
      <4>1. calls'[m].stage = "answered"
        BY <1>3, <3>3 DEF Flushed
      <4> QED
        BY <3>2, <4>1 DEF Flying
    <3>4. CASE Responds(calls[m]) /\ calls[m].stage = "dropped"
      <4>1. calls'[m].stage = "dropped" /\ ~accepting
        BY <1>0, <1>3, <3>1, <3>4 DEF Flushed, StageInv
      <4> QED
        BY <1>3, <3>2, <4>1 DEF Flying
    <3>5. CASE ~Responds(calls[m])
      <4>1. /\ calls[m].stage \in Flying \cup {"silent", "dropped"}
            /\ calls'[m].stage \in {calls[m].stage, "silent"}
            /\ calls'[m].stage \in Flying => ~CountsTowardBatch(calls[m])
        BY <1>3, <3>5 DEF Flushed
      <4>2. calls[m].stage = "dropped" => ~accepting
        BY <1>0, <3>1 DEF StageInv
      <4> QED
        BY <1>3, <3>1, <3>2, <3>5, <4>1, <4>2 DEF Flying
    <3> QED
      BY <3>3, <3>4, <3>5
  <2>3. ASSUME NEW m \in DOMAIN calls \ Of(f)
        PROVE  /\ calls'[m] = calls[m]
               /\ calls[m].frame \in DOMAIN pending' <=> calls[m].frame \in DOMAIN pending
    BY <2>1 DEF Kept, Of
  <2> QED
    BY <1>3, <1>b, <2>1, <2>2, <2>3 DEF Kept, StageInv

<1>4. CASE Finishes
  <2>1. serving' /\ accepting' = accepting
    <3>1. CASE Flushes(read, calls)
      BY <1>0, <1>4, <3>1 DEF Finishes, Flushes, Onward
    <3>2. CASE UNCHANGED <<closed, serving>>
      BY <1>0, <1>4, <3>2 DEF Finishes
    <3> QED
      BY <1>4, <3>1, <3>2 DEF Finishes
  <2>2. CASE pending[read] = 0 /\ Flushes(read, calls)
    <3>1. Flushed(read)
      BY <1>0, <1>4, <2>2, FinishFlushed
    <3>2. StageInv'
      BY <1>3, <2>1, <3>1
    <3> QED
      BY <3>2 DEF StageInv
  <2>3. CASE UNCHANGED <<calls, pending>>
    BY <1>b, <2>1, <2>3
  <2> QED
    BY <1>4, <2>2, <2>3 DEF Finishes
<1>5. ASSUME NEW n \in DOMAIN calls, Answers(n)
      PROVE  StageInv'
  <2>1. /\ serving' /\ (accepting' => accepting) /\ pending' = pending
        /\ Kept(calls, calls', {n}) /\ ~calls[n].batch
    BY <1>0, <1>5 DEF Answers, Takes, Onward
  <2>2. \/ calls'[n].stage = "silent" /\ ~Responds(calls[n])
        \/ calls'[n].stage = "answered"
    BY <1>5 DEF Answers
  <2>3. calls'[n].frame \notin DOMAIN pending
    BY <2>1 DEF CallsInv, Of, Kept
  <2>4. ~Responds(calls[n]) => ~Responds(calls'[n])
    BY <2>1 DEF Kept
  <2>5. \A m \in DOMAIN calls : m # n => calls'[m] = calls[m]
    BY <2>1 DEF Kept
  <2>6. DOMAIN calls' = DOMAIN calls
    BY <2>1 DEF Kept
  <2> QED
    BY <1>b, <2>1, <2>2, <2>3, <2>4, <2>5, <2>6 DEF StageInv, Flying
<1>6. ASSUME NEW n \in DOMAIN calls, Collects(n)
      PROVE  StageInv'
  <2> DEFINE f == calls[n].frame
  <2>1. serving' /\ (accepting' => accepting) /\ calls[n].stage = "resulted" /\ calls[n].batch
    BY <1>0, <1>6 DEF Collects, Takes, Onward
  <2>2. CASE f \in DOMAIN pending /\ Left(calls[n]) = 0 /\ Flushes(f, AsideOf(n))
    <3>1. Flushed(f)
      BY <1>0, <1>6, <2>2, CollectFlushed
    <3> QED
      BY <1>3, <2>1, <3>1
  <2>3. CASE f \in DOMAIN pending /\ calls' = AsideOf(n) /\ DOMAIN pending' = DOMAIN pending
    <3>1. /\ Kept(calls, calls', {n})
          /\ calls'[n].stage = IF Responds(calls[n]) THEN "held" ELSE "silent"
      BY <2>3, AsideKeeps
    <3>2. calls'[n].frame = f /\ (Responds(calls'[n]) <=> Responds(calls[n]))
      BY <3>1 DEF Kept
    <3>3. DOMAIN calls' = DOMAIN calls /\ \A m \in DOMAIN calls : m # n => calls'[m] = calls[m]
      BY <3>1 DEF Kept
    <3> QED
      BY <1>b, <2>1, <2>3, <3>1, <3>2, <3>3 DEF StageInv, Flying
  <2>4. CASE f \notin DOMAIN pending /\ calls' = Staged(calls, {n}, "silent") /\ pending' = pending
    <3>1. Kept(calls, calls', {n}) /\ calls'[n].stage = "silent"
      BY <1>a, <2>4, StageChanges DEF Stages
    <3>2. calls[n].stage \in Flying
      BY <2>1 DEF Flying
    <3>3. ~CountsTowardBatch(calls[n]) /\ calls[n].class # "invalid"
      BY <1>0, <2>1, <2>4, <3>2 DEF StageInv, CallsInv
    <3>4. ~Responds(calls'[n]) /\ calls'[n].frame = f
      BY <3>1, <3>3 DEF Kept
    <3>5. DOMAIN calls' = DOMAIN calls /\ \A m \in DOMAIN calls : m # n => calls'[m] = calls[m]
      BY <3>1 DEF Kept
    <3> QED
      BY <1>b, <2>1, <2>4, <3>1, <3>4, <3>5 DEF StageInv, Flying
  <2> QED
    BY <1>6, <2>2, <2>3, <2>4 DEF Collects
<1>7. ASSUME NEW n \in DOMAIN calls, Moves(n)
      PROVE  StageInv'
  <2>1. /\ serving' /\ accepting' = accepting /\ pending' = pending
        /\ Kept(calls, calls', {n}) /\ calls[n].stage \in Flying
        /\ calls'[n].stage \in Flying
    BY <1>0, <1>7 DEF Moves, Sessionwide
  <2>2. /\ calls'[n].frame = calls[n].frame /\ calls'[n].batch = calls[n].batch
        /\ CountsTowardBatch(calls'[n]) <=> CountsTowardBatch(calls[n])
    BY <2>1 DEF Kept
  <2>3. DOMAIN calls' = DOMAIN calls /\ \A m \in DOMAIN calls : m # n => calls'[m] = calls[m]
    BY <2>1 DEF Kept
  <2>4. calls[n].batch /\ CountsTowardBatch(calls[n]) => calls[n].frame \in DOMAIN pending
    BY <1>0, <2>1 DEF StageInv
  <2> QED
    BY <1>b, <2>1, <2>2, <2>3, <2>4 DEF StageInv, Flying
<1>8. CASE Quiet
  BY <1>0, <1>b, <1>8 DEF Quiet
<1> QED
  BY <1>1, <1>2, <1>4, <1>5, <1>6, <1>7, <1>8 DEF Steps, StageInv

-----------------------------------------------------------------------------
(* The counts of the batches.                                              *)

\* What is awaited of a batch depends on its own calls only.
LEMMA SameAwaited ==
    ASSUME NEW f, NEW S, Kept(calls, calls', S),
           \A m \in S : calls[m].frame = f /\ CountsTowardBatch(calls[m]) =>
                (calls[m].stage \in Flying <=> calls'[m].stage \in Flying)
    PROVE  Awaited(f)' = Awaited(f)
<1>1. \A m \in DOMAIN calls :
        m \in Awaited(f)' <=> m \in Awaited(f)
  BY DEF Awaited, Of, Kept, CountsTowardBatch
<1>2. DOMAIN calls' = DOMAIN calls
  BY DEF Kept
<1>3. Awaited(f)' \subseteq DOMAIN calls /\ Awaited(f) \subseteq DOMAIN calls
  BY <1>2 DEF Awaited, Of
<1> QED
  BY <1>1, <1>3

\* Every step keeps the counts: one more for a task admitted, one less for its result.
LEMMA CountKept ==
    ASSUME TypeOK, FrameInv, CallsInv, StageInv, CountInv, Steps
    PROVE  CountInv'
<1> SUFFICES ASSUME ~closed', NEW f \in DOMAIN pending'
             PROVE  pending'[f] = Cardinality(Awaited(f)')
  BY Zenon DEF CountInv
<1>0. ~closed /\ serving
  BY StepsFlags DEF StageInv
<1>a. calls \in Seq(Call) /\ Kept(calls, calls, {}) /\ DOMAIN calls = 1..Len(calls)
      /\ \A g \in DOMAIN pending : pending[g] = Cardinality(Awaited(g))
  BY <1>0, LenProperties DEF TypeOK, Kept, CountInv
<1>1. CASE Reads
  <2>1. calls' = calls
    BY <1>1 DEF Reads
  <2>2. Awaited(f)' = Awaited(f)
    BY <2>1 DEF Awaited, Of
  <2>3. CASE f \in DOMAIN pending /\ pending'[f] = pending[f]
    BY <1>a, <2>2, <2>3
  <2>4. CASE f = read + 1 /\ pending'[f] = 0
    <3>1. read \in Nat
      BY Bounds
    <3>2. \A m \in DOMAIN calls : calls[m].frame \in 1..MaxFrames /\ calls[m].frame <= read
      BY CallTypes DEF CallsInv
    <3>3. Awaited(f) = {}
      BY <2>4, <3>1, <3>2, BoundsAssumption DEF Awaited, Of
    <3> QED
      BY <2>2, <2>4, <3>3, FS_EmptySet
  <2>5. \/ pending' = pending
        \/ pending' = [g \in DOMAIN pending \cup {read + 1} |->
                                IF g = read + 1 THEN 0 ELSE pending[g]]
    BY <1>1 DEF Reads
  <2> QED
    BY <2>3, <2>4, <2>5
<1>2. CASE Appends
  <2>1. /\ frame # Idle
        /\ DOMAIN calls' = DOMAIN calls \cup {N1} /\ N1 \notin DOMAIN calls
        /\ \A m \in DOMAIN calls : calls'[m] = calls[m]
        /\ calls'[N1].id = Next1.id /\ calls'[N1].class = Next1.class
        /\ calls'[N1].frame = read
        /\ DOMAIN pending' = DOMAIN pending
    BY <1>2, NextItem, CallTypes DEF Appends, Grows, N1
  <2>2. f = read => frame.batch
    BY <2>1 DEF FrameInv, CallsInv
  <2>3. CountsTowardBatch(calls'[N1]) <=> CountsTowardBatch(Next1)
    BY <2>1 DEF CountsTowardBatch
  <2>4. CASE calls'[N1].stage = "running" /\ CountsTowardBatch(Next1) /\ f = read
    <3>1. Awaited(f)' = Awaited(f) \cup {N1} /\ N1 \notin Awaited(f)
      BY <2>1, <2>3, <2>4 DEF Awaited, Of, Flying
    <3>2. pending'[f] = pending[f] + 1
      BY <1>2, <2>1, <2>2, <2>4 DEF Appends
    <3>3. IsFiniteSet(Awaited(f))
      BY AwaitedFinite
    <3> QED
      BY <1>a, <2>1, <3>1, <3>2, <3>3, FS_AddElement
  <2>5. CASE ~(calls'[N1].stage = "running" /\ CountsTowardBatch(Next1) /\ f = read)
    <3>1. N1 \notin Awaited(f)'
      BY <1>2, <2>1, <2>3, <2>5 DEF Awaited, Of, Flying, Appends
    <3>2. Awaited(f)' = Awaited(f)
      BY <2>1, <3>1 DEF Awaited, Of
    <3>3. pending'[f] = pending[f]
      BY <1>2, <2>1, <2>5 DEF Appends
    <3> QED
      BY <1>a, <2>1, <3>2, <3>3
  <2> QED
    BY <2>4, <2>5
<1>3. ASSUME NEW g, Flushed(g)
      PROVE  pending'[f] = Cardinality(Awaited(f)')
  <2>1. /\ Kept(calls, calls', Of(g)) /\ DOMAIN pending' = DOMAIN pending \ {g}
        /\ \A h \in DOMAIN pending' : pending'[h] = pending[h]
    BY <1>3, WithoutFits DEF Flushed
  <2>2. \A m \in Of(g) : calls[m].frame # f
    BY <2>1 DEF Of
  <2>3. Awaited(f)' = Awaited(f)
    BY <2>1, <2>2, SameAwaited
  <2> QED
    BY <1>a, <2>1, <2>3
<1>4. CASE Finishes
  <2>1. CASE pending[read] = 0 /\ Flushes(read, calls)
    BY <1>0, <1>3, <1>4, <2>1, FinishFlushed
  <2>2. CASE UNCHANGED <<calls, pending>>
    <3>1. Awaited(f)' = Awaited(f)
      BY <2>2 DEF Awaited, Of
    <3> QED
      BY <1>a, <2>2, <3>1
  <2> QED
    BY <1>4, <2>1, <2>2 DEF Finishes
<1>5. ASSUME NEW n \in DOMAIN calls, Answers(n)
      PROVE  pending'[f] = Cardinality(Awaited(f)')
  <2>1. pending' = pending /\ Kept(calls, calls', {n}) /\ ~calls[n].batch
    BY <1>5 DEF Answers
  <2>2. calls[n].frame # f
    BY <2>1 DEF CallsInv, Of
  <2>3. Awaited(f)' = Awaited(f)
    BY <2>1, <2>2, SameAwaited
  <2> QED
    BY <1>a, <2>1, <2>3
<1>6. ASSUME NEW n \in DOMAIN calls, Collects(n)
      PROVE  pending'[f] = Cardinality(Awaited(f)')
  <2> DEFINE g == calls[n].frame
  <2>1. calls[n].stage \in Flying
    BY <1>6 DEF Collects, Takes, Flying
  <2>2. CASE g \in DOMAIN pending /\ Left(calls[n]) = 0 /\ Flushes(g, AsideOf(n))
    BY <1>0, <1>3, <1>6, <2>2, CollectFlushed
  <2>3. CASE /\ g \in DOMAIN pending /\ calls' = AsideOf(n)
             /\ pending' = [pending EXCEPT ![g] = Left(calls[n])]
    <3>1. /\ Kept(calls, calls', {n})
          /\ calls'[n].stage = IF Responds(calls[n]) THEN "held" ELSE "silent"
      BY <2>3, AsideKeeps
    <3>2. CASE f = g
      <4>1. calls'[n].stage \notin Flying
        BY <3>1 DEF Flying
      <4>2. Awaited(f)' = Awaited(f) \ {n}
        <5>1. \A m \in DOMAIN calls : m \in Awaited(f)' <=> m \in Awaited(f) /\ m # n
          BY <3>1, <4>1 DEF Awaited, Of, Kept, CountsTowardBatch
        <5>2. Awaited(f)' \subseteq DOMAIN calls /\ Awaited(f) \subseteq DOMAIN calls
          BY <3>1 DEF Awaited, Of, Kept
        <5> QED
          BY <5>1, <5>2
      <4>3. pending'[f] = Left(calls[n])
        BY <2>3, <3>2
      <4> QED
        BY <1>0, <2>1, <2>3, <3>2, <4>2, <4>3, LeftCounts
    <3>3. CASE f # g
      <4>1. Awaited(f)' = Awaited(f)
        BY <3>1, <3>3, SameAwaited
      <4> QED
        BY <1>a, <2>3, <3>3, <4>1
    <3> QED
      BY <3>2, <3>3
  <2>4. CASE g \notin DOMAIN pending /\ calls' = Staged(calls, {n}, "silent") /\ pending' = pending
    <3>1. Kept(calls, calls', {n})
      BY <1>a, <2>4, StageChanges DEF Stages
    <3>2. Awaited(f)' = Awaited(f)
      BY <2>4, <3>1, SameAwaited
    <3> QED
      BY <1>a, <2>4, <3>2
  <2> QED
    BY <1>6, <2>2, <2>3, <2>4 DEF Collects
<1>7. ASSUME NEW n \in DOMAIN calls, Moves(n)
      PROVE  pending'[f] = Cardinality(Awaited(f)')
  <2>1. /\ pending' = pending /\ Kept(calls, calls', {n})
        /\ calls[n].stage \in Flying /\ calls'[n].stage \in Flying
    BY <1>0, <1>7 DEF Moves, Sessionwide
  <2>2. Awaited(f)' = Awaited(f)
    BY <2>1, SameAwaited
  <2> QED
    BY <1>a, <2>1, <2>2
<1>8. CASE Quiet
  <2>1. Awaited(f)' = Awaited(f) /\ pending' = pending
    BY <1>8 DEF Quiet, Awaited, Of
  <2> QED
    BY <1>a, <2>1
<1> QED
  BY <1>1, <1>2, <1>4, <1>5, <1>6, <1>7, <1>8 DEF Steps

-----------------------------------------------------------------------------
(* The ids in use.                                                         *)

Exact == OutstandingExact /\ IdsExclusive

\* Requests that are admitted and not answered.
Using == {n \in DOMAIN calls : calls[n].stage \in Flying \cup {"held"} /\ calls[n].id # NoId}

\* Using is what OutstandingExact and IdsExclusive speak of.
LEMMA UsingUses ==
    /\ \A n : n \in Using <=> Uses(n)
    /\ Using = {m \in Live : Uses(m)}
BY DEF Using, Uses, Live, At, Flying

\* The two properties in terms of Using.
LEMMA ExactUsing ==
    Exact <=>
        (Accountable =>
            /\ outstanding = {calls[n].id : n \in Using}
            /\ \A m, n \in Using : m # n => calls[m].id # calls[n].id)
<1>1. {calls[n].id : n \in Using} = {calls[n].id : n \in {m \in Live : Uses(m)}}
  BY UsingUses
<1>2. (\A m, n \in Using : m # n => calls[m].id # calls[n].id) <=>
        \A m, n \in Live : Uses(m) /\ Uses(n) /\ m # n => calls[m].id # calls[n].id
  BY UsingUses
<1> QED
  BY <1>1, <1>2 DEF Exact, OutstandingExact, IdsExclusive

\* The same, after a step.
LEMMA ExactUsingNext ==
    Exact' <=>
        (Accountable' =>
            /\ outstanding' = {calls'[n].id : n \in Using'}
            /\ \A m, n \in Using' : m # n => calls'[m].id # calls'[n].id)
<1>1. {calls'[n].id : n \in Using'} = {calls'[n].id : n \in {m \in Live' : Uses(m)'}}
  BY DEF Using, Uses, Live, At, Flying
<1>2. (\A m, n \in Using' : m # n => calls'[m].id # calls'[n].id) <=>
        \A m, n \in Live' : Uses(m)' /\ Uses(n)' /\ m # n => calls'[m].id # calls'[n].id
  BY DEF Using, Uses, Live, At, Flying
<1> QED
  BY <1>1, <1>2 DEF Exact, OutstandingExact, IdsExclusive

\* A session that accounts for its ids did so before the step.
LEMMA AccountableBefore ==
    ASSUME TypeOK, StageInv, Steps, Accountable'
    PROVE  Accountable /\ ~closed /\ ~closed'
<1>0. /\ accepting \in BOOLEAN /\ accepting' \in BOOLEAN /\ ~closed /\ ~closed' /\ serving
  BY StepsFlags, Bounds DEF Accountable, StageInv
<1>1. accepting' => accepting
  <2>1. CASE Reads
    BY <2>1 DEF Reads
  <2>2. CASE Appends
    BY <2>2 DEF Appends
  <2>3. CASE Finishes
    BY <2>3 DEF Finishes
  <2>4. ASSUME NEW n \in DOMAIN calls, Takes(n)
        PROVE  accepting' => accepting
    BY <2>4 DEF Takes
  <2>5. ASSUME NEW n \in DOMAIN calls, Moves(n)
        PROVE  accepting' => accepting
    BY <2>5 DEF Moves, Sessionwide
  <2>6. CASE Quiet
    BY <1>0, <2>6 DEF Quiet
  <2> QED
    BY <2>1, <2>2, <2>3, <2>4, <2>5, <2>6 DEF Steps, Answers, Collects
<1> QED
  BY <1>0, <1>1 DEF Accountable

\* No request is taken up, and the ids given back are those of the requests
\* that are done.
LEMMA ExactShrinks ==
    ASSUME Exact, Accountable, NEW S, Kept(calls, calls', S), NEW D,
           outstanding' = outstanding \ D,
           \A n \in Using' : n \in Using /\ calls[n].id \notin D,
           \A n \in Using : n \in Using' \/ calls[n].id \in D
    PROVE  Exact'
<1>1. /\ outstanding = {calls[n].id : n \in Using}
      /\ \A m, n \in Using : m # n => calls[m].id # calls[n].id
  BY ExactUsing
<1>2. \A n \in DOMAIN calls : calls'[n].id = calls[n].id
  BY DEF Kept
<1>3. Using \subseteq DOMAIN calls
  BY DEF Using
<1>4. outstanding' = {calls'[n].id : n \in Using'}
  BY <1>1, <1>2, <1>3
<1>5. \A m, n \in Using' : m # n => calls'[m].id # calls'[n].id
  BY <1>1, <1>2, <1>3
<1> QED
  BY <1>4, <1>5, ExactUsingNext

\* A flush frees the ids of its batch, no other request has one of them.
LEMMA ExactFlushed ==
    ASSUME TypeOK, CallsInv, StageInv, Exact, Accountable, NEW f, Flushed(f)
    PROVE  Exact'
<1>0. calls \in Seq(Call) /\ ~closed /\ accepting /\ f \in DOMAIN pending
  BY DEF TypeOK, Accountable, Flushed
<1>1. /\ Kept(calls, calls', Of(f)) /\ outstanding' = outstanding \ RequestIds(f)
  BY DEF Flushed
<1>2. \A m, n \in Using : m # n => calls[m].id # calls[n].id
  BY ExactUsing
<1>3. ASSUME NEW m \in Of(f), calls[m].id # NoId
      PROVE  m \in Using /\ m \notin Using' /\ calls[m].id \in RequestIds(f)
  <2>1. m \in DOMAIN calls /\ Responds(calls[m])
    BY <1>3 DEF Of, Responds
  <2>2. calls[m].stage # "dropped" /\ calls[m].stage # "lost" /\ calls[m].stage # "silent"
    BY <1>0, <2>1 DEF StageInv
  <2>3. calls[m].stage # "answered" /\ calls'[m].stage = "answered"
    BY <2>1, <2>2 DEF Flushed
  <2>4. calls[m].stage \in Flying \cup {"held"}
    BY <2>1, <2>2, <2>3, CallTypes
  <2> QED
    BY <1>3, <2>1, <2>3, <2>4 DEF Using, RequestIds, Flying
<1>4. ASSUME NEW m \in DOMAIN calls \ Of(f)
      PROVE  m \in Using <=> m \in Using'
  BY <1>1 DEF Using, Kept
<1>5. ASSUME NEW m \in Using'
      PROVE  m \in Using /\ calls[m].id \notin RequestIds(f)
  <2>1. m \in DOMAIN calls /\ calls[m].id # NoId
    BY <1>1, <1>5 DEF Using, Kept
  <2>2. m \notin Of(f)
    BY <1>3, <1>5, <2>1
  <2>3. m \in Using
    BY <1>4, <1>5, <2>1, <2>2
  <2>4. \A k \in Of(f) : calls[k].id # NoId => calls[k].id # calls[m].id
    BY <1>2, <1>3, <2>2, <2>3
  <2> QED
    BY <2>1, <2>3, <2>4 DEF RequestIds
<1>6. ASSUME NEW m \in Using
      PROVE  m \in Using' \/ calls[m].id \in RequestIds(f)
  <2>1. m \in DOMAIN calls /\ calls[m].id # NoId
    BY <1>6 DEF Using
  <2> QED
    BY <1>3, <1>4, <1>6, <2>1
<1> QED
  BY <1>1, <1>5, <1>6, ExactShrinks

\* Every step keeps the ids exact: claimed on admission, given back with the answer.
LEMMA ExactKept ==
    ASSUME TypeOK, FrameInv, CallsInv, StageInv, CountInv, Exact, Steps
    PROVE  Exact'
<1> SUFFICES ASSUME Accountable'
             PROVE  Exact'
  BY ExactUsingNext
<1>0. Accountable /\ ~closed /\ ~closed'
  BY AccountableBefore
<1>a. calls \in Seq(Call) /\ Kept(calls, calls, {})
      /\ outstanding \subseteq Ids
  BY DEF TypeOK, Kept
<1>b. /\ outstanding = {calls[n].id : n \in Using}
      /\ \A m, n \in Using : m # n => calls[m].id # calls[n].id
  BY <1>0, ExactUsing
\* A step that leaves the calls and the ids alone.
<1>c. ASSUME UNCHANGED <<calls, outstanding>>
      PROVE  Exact'
  <2>1. Using' = Using
    BY <1>c DEF Using
  <2> QED
    BY <1>b, <1>c, <2>1, ExactUsingNext
\* A step that changes no more than the stage of a call from one in which it
\* uses its id to another.
<1>d. ASSUME NEW n \in DOMAIN calls, Kept(calls, calls', {n}), outstanding' = outstanding,
             calls[n].id # NoId =>
                (calls[n].stage \in Flying \cup {"held"}
                    <=> calls'[n].stage \in Flying \cup {"held"})
      PROVE  Exact'
  <2>1. \A m \in DOMAIN calls : m \in Using' <=> m \in Using
    BY <1>d DEF Using, Kept
  <2>2. Using \subseteq DOMAIN calls /\ Using' \subseteq DOMAIN calls
    BY <1>d DEF Using, Kept
  <2>3. Using' = Using
    BY <2>1, <2>2
  <2>4. {calls'[m].id : m \in Using} = {calls[m].id : m \in Using}
    BY <1>d, <2>2 DEF Kept
  <2>5. \A k, m \in Using : k # m => calls'[k].id # calls'[m].id
    BY <1>b, <1>d, <2>2 DEF Kept
  <2> QED
    BY <1>b, <1>d, <2>3, <2>4, <2>5, ExactUsingNext
<1>1. CASE Reads
  BY <1>1, <1>c DEF Reads
<1>2. CASE Appends
  <2>1. /\ DOMAIN calls' = DOMAIN calls \cup {N1} /\ N1 \notin DOMAIN calls
        /\ \A m \in DOMAIN calls : calls'[m] = calls[m]
        /\ calls'[N1].id = Next1.id
    BY <1>2, CallTypes DEF Appends, Grows, N1
  <2>2. CASE /\ outstanding' = Claimed /\ Fresh
             /\ calls'[N1].stage \in {"held", "running"}
    <3>1. CASE Next1.id = NoId
      <4>1. Using' = Using
        BY <2>1, <3>1 DEF Using
      <4>2. outstanding' = outstanding
        BY <2>2, <3>1 DEF Claimed
      <4>3. Using \subseteq DOMAIN calls
        BY DEF Using
      <4>4. {calls'[n].id : n \in Using} = {calls[n].id : n \in Using}
        BY <2>1, <4>3
      <4>5. \A m, n \in Using : m # n => calls'[m].id # calls'[n].id
        BY <1>b, <2>1, <4>3
      <4> QED
        BY <1>b, <4>1, <4>2, <4>4, <4>5, ExactUsingNext
    <3>2. CASE Next1.id # NoId
      <4>1. Using' = Using \cup {N1}
        BY <2>1, <2>2, <3>2 DEF Using, Flying
      <4>2. outstanding' = outstanding \cup {Next1.id} /\ Next1.id \notin outstanding
        BY <2>2, <3>2 DEF Claimed, Fresh
      <4>3. Using \subseteq DOMAIN calls
        BY DEF Using
      <4>4. {calls'[n].id : n \in Using \cup {N1}} = {calls[n].id : n \in Using} \cup {Next1.id}
        BY <2>1, <4>3
      <4>5. \A m, n \in Using \cup {N1} : m # n => calls'[m].id # calls'[n].id
        BY <1>b, <2>1, <4>2, <4>3
      <4> QED
        BY <1>b, <4>1, <4>2, <4>4, <4>5, ExactUsingNext
    <3> QED
      BY <3>1, <3>2
  <2>3. CASE outstanding' = outstanding /\ calls'[N1].stage \in {"silent", "answered"}
    <3>1. Using' = Using
      BY <2>1, <2>3 DEF Using, Flying
    <3>3. Using \subseteq DOMAIN calls
      BY DEF Using
    <3>4. {calls'[n].id : n \in Using} = {calls[n].id : n \in Using}
      BY <2>1, <3>3
    <3>5. \A m, n \in Using : m # n => calls'[m].id # calls'[n].id
      BY <1>b, <2>1, <3>3
    <3> QED
      BY <1>b, <2>3, <3>1, <3>4, <3>5, ExactUsingNext
  <2>4. accepting
    BY <1>0 DEF Accountable
  <2> QED
    BY <1>0, <1>2, <2>2, <2>3, <2>4 DEF Appends
<1>3. CASE Finishes
  <2>1. CASE pending[read] = 0 /\ Flushes(read, calls)
    <3>1. Flushed(read)
      BY <1>0, <1>3, <2>1, FinishFlushed
    <3> QED
      BY <1>0, <3>1, ExactFlushed
  <2>2. CASE UNCHANGED <<calls, outstanding>>
    BY <1>c, <2>2
  <2> QED
    BY <1>3, <2>1, <2>2 DEF Finishes
<1>4. ASSUME NEW n \in DOMAIN calls, Answers(n)
      PROVE  Exact'
  <2>1. Kept(calls, calls', {n}) /\ outstanding' = outstanding \ {calls[n].id}
        /\ calls[n].stage \in Flying
    BY <1>4 DEF Answers, Takes, Flying
  <2>2. calls'[n].stage \notin Flying \cup {"held"}
    BY <1>4 DEF Answers, Flying
  <2>3. \A m \in DOMAIN calls : m \in Using' <=> m \in Using /\ m # n
    BY <2>1, <2>2 DEF Using, Kept
  <2>4. Using \subseteq DOMAIN calls /\ Using' \subseteq DOMAIN calls
    BY <2>1 DEF Using, Kept
  <2>5. ASSUME NEW m \in Using' PROVE m \in Using /\ calls[m].id \notin {calls[n].id}
    <3>1. m \in Using /\ m # n
      BY <2>3, <2>4
    <3>2. calls[m].id # NoId
      BY <3>1 DEF Using
    <3>3. calls[m].id # calls[n].id
      BY <1>b, <2>1, <3>1, <3>2 DEF Using
    <3> QED
      BY <3>1, <3>3
  <2>6. \A m \in Using : m \in Using' \/ calls[m].id \in {calls[n].id}
    BY <2>3, <2>4
  <2> QED
    BY <1>0, <2>1, <2>5, <2>6, ExactShrinks
<1>5. ASSUME NEW n \in DOMAIN calls, Collects(n)
      PROVE  Exact'
  <2> DEFINE g == calls[n].frame
  <2>1. calls[n].stage \in Flying /\ calls[n].batch
    BY <1>5 DEF Collects, Takes, Flying
  <2>2. CASE g \in DOMAIN pending /\ Left(calls[n]) = 0 /\ Flushes(g, AsideOf(n))
    <3>1. Flushed(g)
      BY <1>0, <1>5, <2>2, CollectFlushed
    <3> QED
      BY <1>0, <3>1, ExactFlushed
  <2>3. CASE calls' = AsideOf(n) /\ outstanding' = outstanding
    <3>1. /\ Kept(calls, calls', {n})
          /\ calls'[n].stage = IF Responds(calls[n]) THEN "held" ELSE "silent"
      BY <2>3, AsideKeeps
    <3>2. calls[n].id # NoId => calls'[n].stage = "held"
      BY <3>1 DEF Responds
    <3> QED
      BY <1>d, <2>1, <2>3, <3>1, <3>2
  <2>4. CASE /\ g \notin DOMAIN pending /\ calls' = Staged(calls, {n}, "silent")
             /\ outstanding' = outstanding
    <3>1. Kept(calls, calls', {n})
      BY <1>a, <2>4, StageChanges DEF Stages
    <3>2. calls[n].id = NoId
      BY <1>0, <2>1, <2>4 DEF StageInv, CountsTowardBatch
    <3> QED
      BY <1>d, <2>4, <3>1, <3>2
  <2> QED
    BY <1>5, <2>2, <2>3, <2>4 DEF Collects
<1>6. ASSUME NEW n \in DOMAIN calls, Moves(n)
      PROVE  Exact'
  <2>1. /\ outstanding' = outstanding /\ Kept(calls, calls', {n})
        /\ calls[n].stage \in Flying /\ calls'[n].stage \in Flying
    BY <1>0, <1>6 DEF Moves, Sessionwide, Accountable
  <2> QED
    BY <1>d, <2>1
<1>7. CASE Quiet
  BY <1>7, <1>c DEF Quiet
<1> QED
  BY <1>1, <1>2, <1>3, <1>4, <1>5, <1>6, <1>7 DEF Steps

-----------------------------------------------------------------------------
(* The theorems.                                                           *)

\* The invariant holds of a new session.
LEMMA InitIInv == Init => IInv
<1> SUFFICES ASSUME Init PROVE IInv
  OBVIOUS
<1>1. /\ client \in Clients /\ closed = FALSE /\ serving = TRUE
      /\ first = TRUE /\ handshaking = FALSE /\ accepting = TRUE /\ guard = FALSE
      /\ read = 0 /\ frame = Idle /\ calls = <<>> /\ outstanding = {} /\ pending = <<>>
  BY DEF Init
<1>2. /\ client.calls \in 0..MaxCalls /\ client.frames \in 0..MaxFrames
      /\ MaxCalls \in Nat /\ MaxFrames \in Nat
  BY <1>1, BoundsAssumption, ClientsAssumption
<1>3. DOMAIN calls = {} /\ Len(calls) = 0 /\ calls \in Seq(Call) /\ DOMAIN pending = {}
  BY <1>1
<1>4. TypeOK
  <2>1. read \in 0..MaxFrames /\ frame \in Frame
    BY <1>1, <1>2, IdleIsFrame
  <2>2. calls \in Seq(Call) /\ Len(calls) <= MaxCalls /\ outstanding \subseteq Ids
    BY <1>1, <1>2, <1>3
  <2>3. /\ DOMAIN pending \subseteq 1..MaxFrames
        /\ \A f \in DOMAIN pending : pending[f] \in 0..MaxBatch
    BY <1>3
  <2> QED
    BY <1>1, <2>1, <2>2, <2>3 DEF TypeOK
<1>5. HandshakeInv /\ FrameInv
  <2>1. Len(frame.items) = 0 /\ ~frame.batch
    BY <1>1, IdleIsFrame
  <2> QED
    BY <1>1, <1>2, <1>3, <2>1 DEF HandshakeInv, FrameInv
<1>6. CallsInv /\ StageInv /\ CountInv /\ ExpectInv
  BY <1>1, <1>3 DEF CallsInv, StageInv, CountInv, ExpectInv, Of
<1>7. Exact
  BY <1>1, <1>3, ExactUsing DEF Using
<1> QED
  BY <1>4, <1>5, <1>6, <1>7 DEF IInv, Exact

\* Every step keeps it.
LEMMA NextIInv == IInv /\ [Next]_vars => IInv'
<1> SUFFICES ASSUME IInv, [Next]_vars PROVE IInv'
  OBVIOUS
<1>0. /\ TypeOK /\ HandshakeInv /\ FrameInv /\ CallsInv /\ StageInv /\ CountInv
      /\ ExpectInv /\ Exact
  BY DEF IInv, Exact
<1>1. CASE Next
  <2>1. Steps /\ UNCHANGED client
    BY <1>0, <1>1, NextSteps
  <2>2. TypeOK' /\ FrameInv'
    BY <1>0, <1>1, TypesKept
  <2>3. HandshakeInv'
    BY <1>0, <2>1, HandshakeKept
  <2>4. CallsInv'
    BY <1>0, <2>1, CallsKept
  <2>5. StageInv'
    BY <1>0, <2>1, StageKept
  <2>6. CountInv'
    BY <1>0, <2>1, CountKept
  <2>7. ExpectInv'
    BY <1>0, <2>1, ExpectKept
  <2>8. Exact'
    BY <1>0, <2>1, ExactKept
  <2> QED
    BY <2>2, <2>3, <2>4, <2>5, <2>6, <2>7, <2>8 DEF IInv, Exact
<1>2. CASE UNCHANGED vars
  <2>1. UNCHANGED <<client, closed, serving, first, handshaking, accepting, guard,
                    read, frame, calls, outstanding, pending>>
    BY <1>2 DEF vars, sessionVars
  <2>2. TypeOK' /\ FrameInv'
    BY <1>0, <2>1 DEF TypeOK, FrameInv
  <2>5. HandshakeInv'
    BY <1>0, <2>1 DEF HandshakeInv, Next1
  <2>3. CallsInv' /\ StageInv' /\ CountInv' /\ ExpectInv'
    <3>1. \A f : Awaited(f)' = Awaited(f)
      BY <2>1 DEF Awaited, Of
    <3> QED
      BY <1>0, <2>1, <3>1 DEF CallsInv, StageInv, CountInv, ExpectInv, Of
  <2>4. Exact'
    <3>1. Using' = Using /\ (Accountable' <=> Accountable)
      BY <2>1 DEF Using, Accountable
    <3> QED
      BY <1>0, <2>1, <3>1, ExactUsing, ExactUsingNext
  <2> QED
    BY <2>2, <2>3, <2>4, <2>5 DEF IInv, Exact
<1> QED
  BY <1>1, <1>2

(* The state of a session is always in this shape.                         *)
THEOREM InductiveInvariant == Spec => []IInv
<1> QED
  BY InitIInv, NextIInv, PTL DEF Spec

\* Every variable of a session stays in its type, the counters of a batch
\* within MAX_BATCH_ITEMS among them.
THEOREM TypeCorrect == Spec => []TypeOK
<1>1. IInv => TypeOK
  BY DEF IInv
<1> QED
  BY <1>1, InductiveInvariant, PTL

\* While a session accepts work, the ids in use are those of the requests that
\* were admitted and not answered (schedule_call, flush_batch and both result
\* branches).
THEOREM IdsAreExact == Spec => []OutstandingExact
<1>1. IInv => OutstandingExact
  BY DEF IInv
<1> QED
  BY <1>1, InductiveInvariant, PTL

\* Two requests of a session are never under way with one id (the duplicate
\* check of schedule_call).
THEOREM IdsAreExclusive == Spec => []IdsExclusive
<1>1. IInv => IdsExclusive
  BY DEF IInv
<1> QED
  BY <1>1, InductiveInvariant, PTL

\* No call is scheduled before the answer of the first one is out
\* (handshake_pending in serve_rpc_session).
THEOREM HandshakeIsAlone == Spec => []HandshakeAlone
<1>1. IInv => HandshakeAlone
  <2> SUFFICES ASSUME IInv, Len(calls) > 1, serving
               PROVE  calls[1].stage = "answered"
    BY DEF HandshakeAlone
  <2>1. calls # <<>> /\ Len(calls) # 1
    OBVIOUS
  <2> QED
    BY <2>1 DEF IInv, HandshakeInv
<1> QED
  BY <1>1, InductiveInvariant, PTL

\* What a batch still expects is what was admitted for it and is not back: it is
\* neither flushed early nor kept for ever (pending, handle_result).
THEOREM PendingIsExact == Spec => []PendingExact
<1>1. IInv => PendingExact
  <2> SUFFICES ASSUME IInv, serving, NEW f \in DOMAIN pending
               PROVE  /\ pending[f] = Cardinality(Awaited(f)) \/ closed
                      /\ pending[f] > 0 \/ (frame.batch /\ f = read)
    BY DEF PendingExact, Awaited, Flying
  <2> QED
    BY DEF IInv, CountInv, ExpectInv
<1> QED
  BY <1>1, InductiveInvariant, PTL

-----------------------------------------------------------------------------
(* What is answered in one step.                                           *)

\* The step that sends an answer sends one single answer, all those of a batch,
\* or one that was known without running the call.
AnswersFrame(f) ==
    /\ f \in 1..MaxFrames
    /\ NewlyAnswered = {n \in DOMAIN calls' :
            /\ calls'[n].frame = f
            /\ Responds(calls'[n]) /\ calls'[n].stage # "dropped"}

\* A flush sends all that is owed to its batch.
LEMMA FlushAnswersFrame ==
    ASSUME TypeOK, FrameInv, NEW f, Flushed(f)
    PROVE  AnswersFrame(f)
<1>1. /\ Kept(calls, calls', Of(f)) /\ f \in 1..MaxFrames
      /\ DOMAIN calls' = DOMAIN calls
  BY DEF Flushed, Kept, TypeOK
<1>2. ASSUME NEW n \in DOMAIN calls
      PROVE  n \in NewlyAnswered <=>
                /\ calls'[n].frame = f
                /\ Responds(calls'[n]) /\ calls'[n].stage # "dropped"
  <2>1. /\ calls'[n].frame = calls[n].frame
        /\ Responds(calls'[n]) <=> Responds(calls[n])
    BY <1>1 DEF Kept, Responds
  <2>2. CASE n \notin Of(f)
    <3>1. calls[n].frame # f /\ calls'[n] = calls[n]
      BY <1>1, <2>2 DEF Kept, Of
    <3> QED
      BY <2>1, <3>1 DEF NewlyAnswered
  <2>3. CASE n \in Of(f)
    <3>1. calls[n].frame = f
      BY <2>3 DEF Of
    <3>2. CASE Responds(calls[n]) /\ calls[n].stage # "dropped"
      <4>1. calls[n].stage # "answered" /\ calls'[n].stage = "answered"
        BY <2>3, <3>2 DEF Flushed
      <4> QED
        BY <1>1, <2>1, <3>1, <3>2, <4>1 DEF NewlyAnswered
    <3>3. CASE Responds(calls[n]) /\ calls[n].stage = "dropped"
      <4>1. calls'[n].stage = "dropped"
        BY <2>3, <3>3 DEF Flushed
      <4> QED
        BY <4>1 DEF NewlyAnswered
    <3>4. CASE ~Responds(calls[n])
      <4>1. calls'[n].stage # "answered"
        BY <2>3, <3>4 DEF Flushed, Flying
      <4> QED
        BY <2>1, <3>4, <4>1 DEF NewlyAnswered
    <3> QED
      BY <3>2, <3>3, <3>4
  <2> QED
    BY <2>2, <2>3
<1>3. NewlyAnswered \subseteq DOMAIN calls
  BY <1>1 DEF NewlyAnswered
<1> QED
  BY <1>1, <1>2, <1>3 DEF AnswersFrame

\* The calls of S alone change, none of them is answered: nothing is.
LEMMA NothingAnswered ==
    ASSUME NEW S, Kept(calls, calls', S), \A n \in S : calls'[n].stage # "answered"
    PROVE  NewlyAnswered = {}
BY DEF Kept, NewlyAnswered

\* The answers of one step belong together.
LEMMA AnswersBelongTogether ==
    ASSUME TypeOK, FrameInv, CallsInv, StageInv, CountInv, Steps, NewlyAnswered # {}
    PROVE  \E f \in 1..MaxFrames : AnswersFrame(f)
<1>0. /\ calls \in Seq(Call) /\ Kept(calls, calls, {})
      /\ closed \in BOOLEAN
      /\ DOMAIN calls = 1..Len(calls) /\ Len(calls) \in Nat
      /\ \A n \in DOMAIN calls : calls[n].frame \in 1..MaxFrames
  BY CallTypes DEF TypeOK, Kept
<1>1. CASE Reads \/ Quiet
  <2>1. calls' = calls
    BY <1>1 DEF Reads, Quiet
  <2> QED
    BY <1>0, <2>1, NothingAnswered
<1>2. CASE Appends
  <2>1. /\ frame # Idle /\ read \in 1..MaxFrames
        /\ DOMAIN calls' = DOMAIN calls \cup {N1} /\ N1 \notin DOMAIN calls
        /\ \A m \in DOMAIN calls : calls'[m] = calls[m]
        /\ calls'[N1].id = Next1.id /\ calls'[N1].class = Next1.class
        /\ calls'[N1].frame = read
    BY <1>0, <1>2, NextItem, BoundsAssumption DEF Appends, Grows, N1, FrameInv, TypeOK
  <2>2. NewlyAnswered \subseteq {N1}
    BY <2>1 DEF NewlyAnswered
  <2>3. calls'[N1].stage = "answered"
    BY <2>2 DEF NewlyAnswered
  <2>4. Responds(Next1) /\ ~frame.batch
    BY <1>2, <2>3 DEF Appends
  <2>5. Of(read) = {}
    BY <2>1, <2>4 DEF CallsInv
  <2>6. \A n \in DOMAIN calls : calls'[n].frame # read
    BY <2>1, <2>5 DEF Of
  <2>7. Responds(calls'[N1])
    BY <2>1, <2>4 DEF Responds
  <2>8. NewlyAnswered = {N1}
    BY <2>1, <2>2, <2>3 DEF NewlyAnswered
  <2> QED
    BY <2>1, <2>3, <2>6, <2>7, <2>8 DEF AnswersFrame
<1>3. CASE Finishes
  <2>1. CASE UNCHANGED calls
    BY <1>0, <2>1, NothingAnswered
  <2>2. CASE pending[read] = 0 /\ Flushes(read, calls)
    <3>1. ~closed
      BY <1>0, <2>2, FlushAnswers
    <3>2. Flushed(read)
      BY <1>3, <2>2, <3>1, FinishFlushed
    <3> QED
      BY <3>2, FlushAnswersFrame DEF AnswersFrame
  <2> QED
    BY <1>3, <2>1, <2>2 DEF Finishes
<1>4. ASSUME NEW n \in DOMAIN calls, Answers(n)
      PROVE  \E f \in 1..MaxFrames : AnswersFrame(f)
  <2> DEFINE f == calls[n].frame
  <2>1. /\ Kept(calls, calls', {n}) /\ ~calls[n].batch /\ calls[n].stage = "resulted"
        /\ DOMAIN calls' = DOMAIN calls
    BY <1>4 DEF Answers, Takes, Kept
  <2>2. calls'[n].stage = "answered"
    BY <2>1, NothingAnswered
  <2>3. Responds(calls[n])
    BY <1>4, <2>2 DEF Answers
  <2>4. calls'[n].frame = f /\ Responds(calls'[n])
    BY <2>1, <2>3 DEF Kept, Responds
  <2>5. \A m \in DOMAIN calls : m # n => calls'[m].frame # f /\ calls'[m] = calls[m]
    BY <2>1 DEF CallsInv, Kept
  <2>6. NewlyAnswered = {n}
    BY <2>1, <2>2, <2>5 DEF NewlyAnswered
  <2>7. {m \in DOMAIN calls' : calls'[m].frame = f /\ Responds(calls'[m])
                /\ calls'[m].stage # "dropped"} = {n}
    BY <2>1, <2>2, <2>4, <2>5
  <2> QED
    BY <1>0, <2>6, <2>7 DEF AnswersFrame
<1>5. ASSUME NEW n \in DOMAIN calls, Collects(n)
      PROVE  \E f \in 1..MaxFrames : AnswersFrame(f)
  <2> DEFINE f == calls[n].frame
  <2>1. CASE f \in DOMAIN pending /\ Left(calls[n]) = 0 /\ Flushes(f, AsideOf(n))
    <3>1. /\ Kept(calls, AsideOf(n), {n})
          /\ AsideOf(n)[n].stage # "answered"
      BY AsideKeeps
    <3>2. \A m \in {n} : AsideOf(n)[m].stage # "answered"
      BY <3>1
    <3>3. ~closed
      BY <2>1, <3>1, <3>2, FlushAnswers
    <3>4. Flushed(f)
      BY <1>5, <2>1, <3>3, CollectFlushed
    <3> QED
      BY <3>4, FlushAnswersFrame DEF AnswersFrame
  <2>2. CASE calls' = AsideOf(n)
    <3>1. /\ Kept(calls, calls', {n})
          /\ calls'[n].stage # "answered"
      BY <2>2, AsideKeeps
    <3> QED
      BY <3>1, NothingAnswered
  <2>3. CASE calls' = Staged(calls, {n}, "silent")
    <3>1. Kept(calls, calls', {n}) /\ calls'[n].stage = "silent"
      BY <1>0, <2>3, StageChanges DEF Stages
    <3> QED
      BY <3>1, NothingAnswered
  <2> QED
    BY <1>5, <2>1, <2>2, <2>3 DEF Collects
<1>6. ASSUME NEW n \in DOMAIN calls, Moves(n)
      PROVE  FALSE
  <2>1. Kept(calls, calls', {n}) /\ calls'[n].stage # "answered"
    BY <1>6 DEF Moves, Flying
  <2> QED
    BY <2>1, NothingAnswered
<1> QED
  BY <1>1, <1>2, <1>3, <1>4, <1>5, <1>6 DEF Steps

\* The answers of one step are one single answer or all the answers of one
\* batch (schedule_call, the two result branches, flush_batch).
THEOREM AnswersComeTogether == Spec => AnsweredTogether
<1> DEFINE A == NewlyAnswered # {} =>
        \E f \in 1..MaxFrames :
            LET of == {n \in DOMAIN calls' : calls'[n].frame = f}
            IN  NewlyAnswered = {n \in of :
                    Responds(calls'[n]) /\ calls'[n].stage # "dropped"}
<1>1. IInv /\ [Next]_vars => [A]_vars
  <2> SUFFICES ASSUME IInv, Next, NewlyAnswered # {}
               PROVE  A
    OBVIOUS
  <2>1. Steps
    BY NextSteps DEF IInv
  <2>2. PICK f \in 1..MaxFrames : AnswersFrame(f)
    BY <2>1, AnswersBelongTogether DEF IInv
  <2>3. NewlyAnswered = {n \in {m \in DOMAIN calls' : calls'[m].frame = f} :
                    Responds(calls'[n]) /\ calls'[n].stage # "dropped"}
    BY <2>2 DEF AnswersFrame
  <2> QED
    BY <2>3
<1>2. [][A]_vars <=> AnsweredTogether
  BY DEF AnsweredTogether
<1> QED
  BY <1>1, <1>2, InductiveInvariant, PTL DEF Spec

-----------------------------------------------------------------------------
(* The session implements RpcExchange.                                     *)

\* What a session owes a frame, and the frames it answered.
OwedTo(f) == {calls[n].id : n \in {m \in Of(f) : Uses(m)}}
Replied == {calls[n].frame : n \in At({"answered"})}

\* The three kinds of step of a session that goes on.
SameExchange ==
    /\ \A f \in 1..MaxFrames : OwedTo(f)' = OwedTo(f)
    /\ Replied' = Replied
TakesUp(f, id) ==
    /\ f \in 1..MaxFrames /\ id \in Ids
    /\ f \notin Replied
    /\ \A g \in 1..MaxFrames : id \notin OwedTo(g)
    /\ OwedTo(f)' = OwedTo(f) \cup {id}
    /\ \A g \in 1..MaxFrames \ {f} : OwedTo(g)' = OwedTo(g)
    /\ Replied' = Replied
RepliesTo(f) ==
    /\ f \in 1..MaxFrames
    /\ f \notin Replied
    /\ OwedTo(f)' = {}
    /\ \A g \in 1..MaxFrames \ {f} : OwedTo(g)' = OwedTo(g)
    /\ Replied' = Replied \cup {f}

\* The two in terms of the calls, before and after a step.
LEMMA OwedUsing ==
    /\ \A f, id : id \in OwedTo(f) <=>
            \E n \in Using : calls[n].frame = f /\ calls[n].id = id
    /\ \A f, id : id \in OwedTo(f)' <=>
            \E n \in Using' : calls'[n].frame = f /\ calls'[n].id = id
    /\ \A f : f \in Replied <=>
            \E n \in DOMAIN calls : calls[n].stage = "answered" /\ calls[n].frame = f
    /\ \A f : f \in Replied' <=>
            \E n \in DOMAIN calls' : calls'[n].stage = "answered" /\ calls'[n].frame = f
<1>1. ASSUME NEW f
      PROVE  {m \in Of(f) : Uses(m)} = {m \in Using : calls[m].frame = f}
  BY DEF Of, Uses, Using, Live, At, Flying
<1>2. ASSUME NEW f
      PROVE  {m \in Of(f)' : Uses(m)'} = {m \in Using' : calls'[m].frame = f}
  BY DEF Of, Uses, Using, Live, At, Flying
<1>3. \A f, id : id \in OwedTo(f) <=>
            \E n \in Using : calls[n].frame = f /\ calls[n].id = id
  BY <1>1 DEF OwedTo
<1>4. \A f, id : id \in OwedTo(f)' <=>
            \E n \in Using' : calls'[n].frame = f /\ calls'[n].id = id
  BY <1>2 DEF OwedTo
<1>5. \A f : f \in Replied <=>
            \E n \in DOMAIN calls : calls[n].stage = "answered" /\ calls[n].frame = f
  BY DEF Replied, At
<1>6. \A f : f \in Replied' <=>
            \E n \in DOMAIN calls' : calls'[n].stage = "answered" /\ calls'[n].frame = f
  BY DEF Replied, At
<1> QED
  BY <1>3, <1>4, <1>5, <1>6

\* Nothing is owed or answered that was not.
LEMMA ExchangeStays ==
    ASSUME NEW S, Kept(calls, calls', S),
           \A n \in S : n \in DOMAIN calls =>
                /\ n \in Using' <=> n \in Using
                /\ calls'[n].stage = "answered" <=> calls[n].stage = "answered"
    PROVE  SameExchange
<1>1. /\ DOMAIN calls' = DOMAIN calls
      /\ \A m \in DOMAIN calls :
            calls'[m].id = calls[m].id /\ calls'[m].frame = calls[m].frame
      /\ \A m \in DOMAIN calls \ S : calls'[m] = calls[m]
  BY DEF Kept
<1>2. \A m \in DOMAIN calls : m \in Using' <=> m \in Using
  BY <1>1 DEF Using
<1>3. Using \subseteq DOMAIN calls /\ Using' \subseteq DOMAIN calls
  BY <1>1 DEF Using
<1>4. Using' = Using
  BY <1>2, <1>3
<1>5. ASSUME NEW f PROVE OwedTo(f)' = OwedTo(f)
  <2>1. \A id : id \in OwedTo(f)' <=> id \in OwedTo(f)
    BY <1>1, <1>3, <1>4, OwedUsing
  <2> QED
    BY <2>1 DEF OwedTo
<1>6. \A m \in DOMAIN calls :
        calls'[m].stage = "answered" <=> calls[m].stage = "answered"
  BY <1>1
<1>7. \A f : f \in Replied' <=> f \in Replied
  BY <1>1, <1>6, OwedUsing
<1>8. Replied' = Replied
  BY <1>7 DEF Replied
<1> QED
  BY <1>5, <1>8 DEF SameExchange

\* A frame that is answered for, no call of it waits any longer.
LEMMA ExchangeReplies ==
    ASSUME NEW f \in 1..MaxFrames, NEW S, Kept(calls, calls', S),
           \A n \in S : calls[n].frame = f,
           \A n \in Of(f) : n \notin Using',
           \A n \in Of(f) : calls[n].stage # "answered",
           \E n \in Of(f) : calls'[n].stage = "answered"
    PROVE  RepliesTo(f)
<1>1. /\ DOMAIN calls' = DOMAIN calls
      /\ \A m \in DOMAIN calls :
            calls'[m].id = calls[m].id /\ calls'[m].frame = calls[m].frame
      /\ \A m \in DOMAIN calls : m \notin Of(f) => calls'[m] = calls[m]
  BY DEF Kept, Of
<1>2. f \notin Replied
  BY OwedUsing DEF Of
<1>3. OwedTo(f)' = {}
  <2>1. \A m \in Using' : calls'[m].frame # f
    BY <1>1 DEF Of, Using
  <2>2. \A id : id \notin OwedTo(f)'
    BY <2>1, OwedUsing
  <2> QED
    BY <2>2 DEF OwedTo
<1>4. ASSUME NEW g \in 1..MaxFrames \ {f} PROVE OwedTo(g)' = OwedTo(g)
  <2>1. \A m \in DOMAIN calls : calls[m].frame = g => (m \in Using' <=> m \in Using)
    BY <1>1 DEF Of, Using
  <2>2. Using \subseteq DOMAIN calls /\ Using' \subseteq DOMAIN calls
    BY <1>1 DEF Using
  <2>3. \A id : id \in OwedTo(g)' <=> id \in OwedTo(g)
    BY <1>1, <2>1, <2>2, OwedUsing
  <2> QED
    BY <2>3 DEF OwedTo
<1>5. \A g : g \in Replied' <=> g \in Replied \/ g = f
  BY <1>1, OwedUsing DEF Of
<1>6. Replied' = Replied \cup {f}
  BY <1>5 DEF Replied
<1> QED
  BY <1>2, <1>3, <1>4, <1>6 DEF RepliesTo

\* A flush replies to its batch, or had nothing to reply.
LEMMA ExchangeFlushed ==
    ASSUME TypeOK, CallsInv, StageInv, Accountable, NEW f, Flushed(f)
    PROVE  SameExchange \/ RepliesTo(f)
<1>0. ~closed /\ accepting /\ f \in DOMAIN pending /\ f \in 1..MaxFrames
      /\ Kept(calls, calls', Of(f))
  BY DEF TypeOK, Accountable, Flushed
<1>1. ASSUME NEW m \in Of(f)
      PROVE  /\ m \in DOMAIN calls /\ calls[m].frame = f
             /\ calls[m].stage # "answered"
             /\ calls[m].stage # "dropped"
             /\ Responds(calls[m]) => calls'[m].stage = "answered"
             /\ ~Responds(calls[m]) => calls'[m].stage # "answered"
             /\ m \notin Using'
             /\ ~Responds(calls[m]) => m \notin Using
  <2>1. m \in DOMAIN calls /\ calls[m].frame = f /\ calls'[m].id = calls[m].id
    BY <1>0 DEF Of, Kept
  <2>2. calls[m].stage # "answered" /\ calls[m].stage # "dropped"
    BY <1>0, <2>1 DEF StageInv
  <2>3. Responds(calls[m]) => calls'[m].stage = "answered"
    BY <2>2 DEF Flushed
  <2>4. ~Responds(calls[m]) => calls'[m].stage # "answered"
    BY DEF Flushed, Flying
  <2> QED
    BY <2>1, <2>2, <2>3, <2>4 DEF Using, Flying, Responds
<1>2. CASE \E m \in Of(f) : Responds(calls[m])
  <2>1. \E m \in Of(f) : calls'[m].stage = "answered"
    BY <1>1, <1>2
  <2> QED
    BY <1>0, <1>1, <2>1, ExchangeReplies
<1>3. CASE \A m \in Of(f) : ~Responds(calls[m])
  BY <1>0, <1>1, <1>3, ExchangeStays
<1> QED
  BY <1>2, <1>3

\* A call that is recorded is owed an answer, has got it, or is owed none.
LEMMA ExchangeAppends ==
    ASSUME TypeOK, FrameInv, CallsInv, StageInv, Exact, Accountable, ~closed', Appends
    PROVE  \/ SameExchange
           \/ \E f \in 1..MaxFrames : RepliesTo(f) \/ \E id \in Ids : TakesUp(f, id)
<1>0. ~closed /\ accepting /\ serving
  BY DEF Accountable
<1>1. /\ frame # Idle /\ read \in 1..MaxFrames
      /\ Next1.id \in Ids \cup {NoId}
      /\ DOMAIN calls' = DOMAIN calls \cup {N1} /\ N1 \notin DOMAIN calls
      /\ \A m \in DOMAIN calls : calls'[m] = calls[m]
      /\ calls'[N1].id = Next1.id /\ calls'[N1].class = Next1.class
      /\ calls'[N1].frame = read
  BY CallTypes, NextItem, BoundsAssumption DEF Appends, Grows, N1, FrameInv, TypeOK
<1>r. PICK r \in 1..MaxFrames : r = read
  BY <1>1
<1>i. PICK i \in Ids \cup {NoId} : i = Next1.id
  BY <1>1
<1>2. r \notin Replied
  <2>1. \A n \in Of(r) : calls[n].stage # "answered"
    BY <1>0, <1>1, <1>r, <1>i DEF CallsInv, FrameInv, StageInv, Of
  <2> QED
    BY <2>1, OwedUsing DEF Of
<1>3. Using \subseteq DOMAIN calls
  BY DEF Using
<1>4. \A m \in DOMAIN calls : m \in Using' <=> m \in Using
  BY <1>1, <1>r, <1>i DEF Using
<1>5. Using' \subseteq DOMAIN calls \cup {N1}
  BY <1>1, <1>r, <1>i DEF Using
<1>6. CASE N1 \notin Using'
  <2>1. Using' = Using
    BY <1>3, <1>4, <1>5, <1>6
  <2>2. ASSUME NEW f PROVE OwedTo(f)' = OwedTo(f)
    <3>1. \A id : id \in OwedTo(f)' <=> id \in OwedTo(f)
      BY <1>1, <1>r, <1>i, <1>3, <2>1, OwedUsing
    <3> QED
      BY <3>1 DEF OwedTo
  <2>3. CASE calls'[N1].stage = "answered"
    <3>1. Of(r) = {}
      BY <1>1, <1>r, <1>i, <1>2, <2>3 DEF Appends, CallsInv
    <3>2. \A id : id \notin OwedTo(r)
      BY <1>3, <3>1, OwedUsing DEF Of
    <3>a. OwedTo(r) = {}
      BY <3>2 DEF OwedTo
    <3>3. OwedTo(r)' = {}
      BY <2>2, <3>a
    <3>4. \A g : g \in Replied' <=> g \in Replied \/ g = r
      BY <1>1, <1>r, <1>i, <2>3, OwedUsing
    <3>5. Replied' = Replied \cup {r}
      BY <3>4 DEF Replied
    <3>6. RepliesTo(r)
      BY <1>1, <1>2, <2>2, <3>3, <3>5 DEF RepliesTo
    <3> QED
      BY <3>6
  <2>4. CASE calls'[N1].stage # "answered"
    <3>1. \A g : g \in Replied' <=> g \in Replied
      BY <1>1, <1>r, <1>i, <2>4, OwedUsing
    <3>2. Replied' = Replied
      BY <3>1 DEF Replied
    <3> QED
      BY <2>2, <3>2 DEF SameExchange
  <2> QED
    BY <2>3, <2>4
<1>7. CASE N1 \in Using'
  <2>1. /\ i # NoId /\ calls'[N1].stage # "answered"
        /\ i \notin outstanding
    BY <1>0, <1>1, <1>r, <1>i, <1>7 DEF Using, Flying, Appends, Fresh, Responds
  <2>2. Using' = Using \cup {N1}
    BY <1>3, <1>4, <1>5, <1>7
  <2>3. outstanding = {calls[n].id : n \in Using}
    BY ExactUsing
  <2>4. \A g : i \notin OwedTo(g)
    BY <2>1, <2>3, OwedUsing
  <2>5. \A f, id : id \in OwedTo(f)' <=>
            id \in OwedTo(f) \/ (f = r /\ id = i)
    BY <1>1, <1>r, <1>i, <1>3, <2>2, OwedUsing
  <2>6. \A g : g \in Replied' <=> g \in Replied
    BY <1>1, <1>r, <1>i, <2>1, OwedUsing
  <2>7. Replied' = Replied
    BY <2>6 DEF Replied
  <2>8. OwedTo(r)' = OwedTo(r) \cup {i}
        /\ \A g \in 1..MaxFrames \ {r} : OwedTo(g)' = OwedTo(g)
    <3>1. \A id : id \in OwedTo(r)' <=> id \in OwedTo(r) \cup {i}
      BY <2>5
    <3>2. ASSUME NEW g \in 1..MaxFrames \ {r}
          PROVE  OwedTo(g)' = OwedTo(g)
      <4>1. \A id : id \in OwedTo(g)' <=> id \in OwedTo(g)
        BY <2>5
      <4> QED
        BY <4>1 DEF OwedTo
    <3>3. OwedTo(r)' = OwedTo(r) \cup {i}
      BY <3>1 DEF OwedTo
    <3> QED
      BY <3>2, <3>3
  <2>9. i \in Ids /\ TakesUp(r, i)
    BY <1>1, <1>r, <1>i, <1>2, <2>1, <2>4, <2>7, <2>8 DEF TakesUp
  <2> QED
    BY <2>9
<1> QED
  BY <1>6, <1>7

\* Every step of a session that goes on is one of the three.
LEMMA ExchangeSteps ==
    ASSUME TypeOK, FrameInv, CallsInv, StageInv, CountInv, Exact, Steps, Accountable'
    PROVE  \/ SameExchange
           \/ \E f \in 1..MaxFrames : RepliesTo(f) \/ \E id \in Ids : TakesUp(f, id)
<1>0. Accountable /\ ~closed /\ ~closed' /\ accepting
  BY AccountableBefore DEF Accountable
<1>a. /\ calls \in Seq(Call) /\ Kept(calls, calls, {})
      /\ \A n \in DOMAIN calls : calls[n].frame \in 1..MaxFrames
  BY CallTypes DEF TypeOK, Kept
<1>b. ASSUME UNCHANGED calls PROVE SameExchange
  BY <1>a, <1>b, ExchangeStays
\* The stage of one call changes, it is owed an answer before and after.
<1>c. ASSUME NEW n \in DOMAIN calls, Kept(calls, calls', {n}),
             calls[n].stage \in Flying, calls'[n].stage # "answered",
             calls[n].id # NoId => calls'[n].stage \in Flying \cup {"held"}
      PROVE  SameExchange
  <2>1. /\ DOMAIN calls' = DOMAIN calls /\ calls'[n].id = calls[n].id
        /\ calls[n].stage # "answered"
    BY <1>c DEF Kept, Flying
  <2>2. n \in Using' <=> n \in Using
    BY <1>c, <2>1 DEF Using
  <2> QED
    BY <1>c, <2>1, <2>2, ExchangeStays
<1>1. CASE Reads
  BY <1>1, <1>b DEF Reads
<1>2. CASE Appends
  BY <1>0, <1>2, ExchangeAppends
<1>3. CASE Finishes
  <2>1. CASE UNCHANGED calls
    BY <1>b, <2>1
  <2>2. CASE pending[read] = 0 /\ Flushes(read, calls)
    <3>1. Flushed(read) /\ read \in 1..MaxFrames
      BY <1>0, <1>3, <2>2, FinishFlushed DEF TypeOK, Flushed
    <3>2. PICK f \in 1..MaxFrames : f = read
      BY <3>1
    <3>3. Flushed(f)
      BY <3>1, <3>2
    <3> QED
      BY <1>0, <3>3, ExchangeFlushed
  <2> QED
    BY <1>3, <2>1, <2>2 DEF Finishes
<1>4. ASSUME NEW n \in DOMAIN calls, Answers(n)
      PROVE  SameExchange \/ \E f \in 1..MaxFrames : RepliesTo(f)
  <2>1. /\ Kept(calls, calls', {n}) /\ ~calls[n].batch /\ calls[n].stage = "resulted"
        /\ calls[n].stage \in Flying
    BY <1>4 DEF Answers, Takes, Flying
  <2>2. CASE calls'[n].stage = "silent" /\ ~Responds(calls[n])
    BY <1>c, <2>1, <2>2 DEF Responds
  <2>3. CASE calls'[n].stage = "answered"
    <3>1. PICK f \in 1..MaxFrames : f = calls[n].frame
      BY <1>a
    <3>2. Of(f) = {n}
      BY <2>1, <3>1 DEF Of, CallsInv
    <3>3. n \notin Using'
      BY <2>3 DEF Using, Flying
    <3>4. \A m \in {n} : calls[m].frame = f
      BY <3>1
    <3>5. RepliesTo(f)
      BY <2>1, <2>3, <3>2, <3>3, <3>4, ExchangeReplies
    <3> QED
      BY <3>5
  <2> QED
    BY <1>0, <1>4, <2>2, <2>3 DEF Answers
<1>5. ASSUME NEW n \in DOMAIN calls, Collects(n)
      PROVE  SameExchange \/ \E f \in 1..MaxFrames : RepliesTo(f)
  <2> DEFINE f == calls[n].frame
  <2>1. calls[n].stage \in Flying /\ calls[n].batch
    BY <1>5 DEF Collects, Takes, Flying
  <2>2. CASE f \in DOMAIN pending /\ Left(calls[n]) = 0 /\ Flushes(f, AsideOf(n))
    <3>1. Flushed(f)
      BY <1>0, <1>5, <2>2, CollectFlushed
    <3>2. PICK g \in 1..MaxFrames : g = f
      BY <1>a
    <3>3. Flushed(g)
      BY <3>1, <3>2
    <3>4. SameExchange \/ RepliesTo(g)
      BY <1>0, <3>3, ExchangeFlushed
    <3> QED
      BY <3>4
  <2>3. CASE calls' = AsideOf(n)
    <3>1. /\ Kept(calls, calls', {n})
          /\ calls'[n].stage = IF Responds(calls[n]) THEN "held" ELSE "silent"
      BY <2>3, AsideKeeps
    <3> QED
      BY <1>c, <2>1, <3>1 DEF Responds
  <2>4. CASE f \notin DOMAIN pending /\ calls' = Staged(calls, {n}, "silent")
    <3>1. Kept(calls, calls', {n}) /\ calls'[n].stage = "silent"
      BY <1>a, <2>4, StageChanges DEF Stages
    <3>2. calls[n].id = NoId
      BY <1>0, <2>1, <2>4 DEF StageInv, CountsTowardBatch
    <3> QED
      BY <1>c, <2>1, <3>1, <3>2
  <2> QED
    BY <1>5, <2>2, <2>3, <2>4 DEF Collects
<1>6. ASSUME NEW n \in DOMAIN calls, Moves(n)
      PROVE  SameExchange
  <2>1. /\ Kept(calls, calls', {n})
        /\ calls[n].stage \in Flying /\ calls'[n].stage \in Flying
    BY <1>0, <1>6 DEF Moves, Sessionwide, Accountable
  <2> QED
    BY <1>c, <2>1 DEF Flying
<1>7. CASE Quiet
  BY <1>7, <1>b DEF Quiet
<1> QED
  BY <1>1, <1>2, <1>3, <1>4, <1>5, <1>6, <1>7 DEF Steps

\* What stands for owed and replied in RpcExchange.
OwedNow ==
    [f \in 1..MaxFrames |->
        IF Accountable THEN {calls[n].id : n \in {m \in Of(f) : Uses(m)}} ELSE {}]
RepliedNow ==
    IF Accountable THEN {calls[n].frame : n \in At({"answered"})} ELSE {}

\* The same, before and after a step.
LEMMA ExchangeNow ==
    /\ Accountable => OwedNow = [f \in 1..MaxFrames |-> OwedTo(f)] /\ RepliedNow = Replied
    /\ Accountable' => OwedNow' = [f \in 1..MaxFrames |-> OwedTo(f)'] /\ RepliedNow' = Replied'
    /\ ~Accountable => OwedNow = [f \in 1..MaxFrames |-> {}] /\ RepliedNow = {}
    /\ ~Accountable' => OwedNow' = [f \in 1..MaxFrames |-> {}] /\ RepliedNow' = {}
BY Zenon DEF OwedNow, RepliedNow, OwedTo, Replied

\* Each step of the session is a step of RpcExchange, or leaves its state alone.
LEMMA ExchangeStep ==
    ASSUME IInv, [Next]_vars
    PROVE  \/ \E f \in 1..MaxFrames, id \in Ids :
                /\ Accountable /\ f \notin RepliedNow
                /\ id \notin UNION {OwedNow[g] : g \in 1..MaxFrames}
                /\ OwedNow' = [OwedNow EXCEPT ![f] = @ \cup {id}]
                /\ (Accountable' <=> Accountable) /\ RepliedNow' = RepliedNow
           \/ \E f \in 1..MaxFrames :
                /\ Accountable /\ f \notin RepliedNow
                /\ OwedNow' = [OwedNow EXCEPT ![f] = {}]
                /\ RepliedNow' = RepliedNow \cup {f}
                /\ (Accountable' <=> Accountable)
           \/ /\ Accountable /\ ~Accountable'
              /\ OwedNow' = [f \in 1..MaxFrames |-> {}]
              /\ RepliedNow' = {}
           \/ /\ (Accountable' <=> Accountable)
              /\ OwedNow' = OwedNow /\ RepliedNow' = RepliedNow
<1>0. /\ TypeOK /\ FrameInv /\ CallsInv /\ StageInv /\ CountInv /\ Exact
  BY DEF IInv, Exact
<1>1. CASE UNCHANGED vars
  <2>1. (Accountable' <=> Accountable)
    BY <1>1 DEF vars, sessionVars, Accountable
  <2>2. OwedNow' = OwedNow /\ RepliedNow' = RepliedNow
    BY <1>1 DEF vars, sessionVars, Accountable, OwedNow, RepliedNow, Of, At, Uses, Live
  <2> QED
    BY <2>1, <2>2
<1>2. CASE Next /\ Accountable'
  <2>1. Steps
    BY <1>0, <1>2, NextSteps
  <2>2. Accountable
    BY <1>0, <1>2, <2>1, AccountableBefore
  <2>3. /\ OwedNow = [f \in 1..MaxFrames |-> OwedTo(f)] /\ RepliedNow = Replied
        /\ OwedNow' = [f \in 1..MaxFrames |-> OwedTo(f)'] /\ RepliedNow' = Replied'
    BY <1>2, <2>2, ExchangeNow
  <2>4. CASE SameExchange
    BY <1>2, <2>2, <2>3, <2>4 DEF SameExchange
  <2>5. ASSUME NEW f \in 1..MaxFrames, RepliesTo(f)
        PROVE  /\ f \notin RepliedNow
               /\ OwedNow' = [OwedNow EXCEPT ![f] = {}]
               /\ RepliedNow' = RepliedNow \cup {f}
    BY <2>3, <2>5 DEF RepliesTo
  <2>6. ASSUME NEW f \in 1..MaxFrames, NEW id \in Ids, TakesUp(f, id)
        PROVE  /\ f \notin RepliedNow
               /\ id \notin UNION {OwedNow[g] : g \in 1..MaxFrames}
               /\ OwedNow' = [OwedNow EXCEPT ![f] = @ \cup {id}]
               /\ RepliedNow' = RepliedNow
    BY <2>3, <2>6 DEF TakesUp
  <2>7. SameExchange
        \/ \E f \in 1..MaxFrames : RepliesTo(f) \/ \E id \in Ids : TakesUp(f, id)
    BY <1>0, <1>2, <2>1, ExchangeSteps
  <2>8. Accountable' <=> Accountable
    BY <1>2, <2>2
  <2> QED
    BY <2>2, <2>4, <2>5, <2>6, <2>7, <2>8
<1>3. CASE ~Accountable'
  BY <1>3, ExchangeNow
<1> QED
  BY <1>1, <1>2, <1>3

(* RpcDispatch implements RpcExchange: while a session serves its client,   *)
(* an id names one request at a time and the requests of one frame are      *)
(* answered together, once (schedule_call, handle_result, flush_batch).     *)
THEOREM DispatchImplementsExchange == Spec => ImplementsExchange
<1>1. Init => Exchange!ExchangeInit
  <2> SUFFICES ASSUME Init PROVE Exchange!ExchangeInit
    OBVIOUS
  <2>1. calls = <<>> /\ Accountable = TRUE
    BY DEF Init, Accountable
  <2>2. OwedNow = [f \in 1..MaxFrames |-> {}] /\ RepliedNow = {}
    <3>1. \A f \in 1..MaxFrames : Of(f) = {}
      BY <2>1 DEF Of
    <3>2. At({"answered"}) = {}
      BY <2>1 DEF At
    <3> QED
      BY <2>1, <3>1, <3>2 DEF OwedNow, RepliedNow
  <2> QED
    BY <2>1, <2>2 DEF Exchange!ExchangeInit, OwedNow, RepliedNow
<1>2. IInv /\ [Next]_vars => [Exchange!ExchangeNext]_(Exchange!exchangeVars)
  <2> SUFFICES ASSUME IInv, [Next]_vars
               PROVE  [Exchange!ExchangeNext]_(Exchange!exchangeVars)
    OBVIOUS
  <2>0. Accountable \in BOOLEAN /\ Accountable' \in BOOLEAN
    BY DEF Accountable
  <2> QED
    BY <2>0, ExchangeStep DEF Exchange!ExchangeNext, Exchange!Take, Exchange!Reply,
       Exchange!End, Exchange!Owed, Exchange!exchangeVars, OwedNow, RepliedNow
<1> QED
  BY <1>1, <1>2, InductiveInvariant, PTL
     DEF Spec, ImplementsExchange, Exchange!ExchangeSpec
=============================================================================
