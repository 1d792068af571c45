--------------------------- MODULE RpcSessionProofs ---------------------------
(***************************************************************************)
(* Proofs about RpcSession, for every set of watches, every number of      *)
(* controls and every capacity of the event channel.                       *)
(*                                                                         *)
(* One inductive invariant per concern, each relative to the typing one:   *)
(* TypeInv (what the variables hold), AckInv (generations of watches),     *)
(* GreetInv (what precedes the first event), BindInv (who may bind),       *)
(* QuietInv (what follows a lifecycle failure), CheckInv (the generation   *)
(* checks).                                                                *)
(***************************************************************************)
EXTENDS RpcSession, TLAPS

-----------------------------------------------------------------------------
(* The invariants.                                                          *)

Busy == [step : LaneSteps, control : Control]

\* Each control accounts for at most one generation.
GenerationsCounted ==
    IF lane = LaneIdle THEN state.generation <= issued
                       ELSE state.generation < issued

LoopHasResult ==
    loop.step \in {"suspend", "answer", "activate"} => loop.result \in Result

TypeInv == TypeOK /\ GenerationsCounted /\ LoopHasResult

\* The results the loop has still to answer, or is answering.
Reported == results \cup ({loop.result} \cap Result)

\* Who publishes a snapshot publishes the one of the current watch.
GateMatches ==
    \A w \in Watches : gate = w => snapshot[w] # 0 /\ snapshot[w] = current[w]

\* What a client is or will be told of a watch is no newer than the watch.
AckInv ==
    /\ \A w \in Watches : told.acked[w] <= state.generation
    /\ \A r \in Reported : r.generation <= state.generation
    /\ \A w \in Watches : current[w] # 0 =>
            /\ current[w] >= told.acked[w]
            /\ \A r \in Reported : r.watch = w => current[w] >= r.generation
    /\ GateMatches

Publishers == {"registry"} \cup Watches

\* Only the first control may be served before the client was greeted.
Earned(c) == IF c.no = 1 THEN c.asks ELSE told.greeted

GreetInv ==
    /\ lane # LaneIdle => Earned(lane.control)
    /\ \A r \in Reported : Earned(r)
    /\ loop.step = "activate" => told.greeted
    /\ state.activated => told.greeted
    /\ gate \in Publishers => state.activated
    /\ GreetingFirst

BindInv ==
    /\ state.bound => state.opened
    /\ state.activated /\ ~state.bound => closed
    /\ lane.step \in {"record", "bind", "register", "commit"} => ~state.bound
    /\ lane.step \in {"register", "commit"} => ~state.activated

QuietInv ==
    /\ told.refused => ~state.accepting
    /\ loop.step = "answer" /\ loop.result.outcome = "lifecycle"
            => ~state.accepting
    /\ gate \in Publishers => state.accepting
    /\ last.kind = "notice" => closed

CheckInv ==
    /\ state.activated /\ ~closed
       /\ loop.step \in {"select", "suspend", "answer", "activate"}
            => checks > 0 \/ guard

-----------------------------------------------------------------------------
(* Types.                                                                   *)

Session == [opened : BOOLEAN, accepting : BOOLEAN, notified : BOOLEAN,
            anonymous : BOOLEAN, bound : BOOLEAN, activated : BOOLEAN,
            generation : Generations]

\* A control the lane works on is a control, and the lane is not idle.
LEMMA LaneHasControl ==
    ASSUME TypeOK, lane # LaneIdle
    PROVE  lane \in Busy /\ lane.control \in Control
BY DEF TypeOK, Busy

\* What a reply leaves behind: an idle lane and one more result.
LEMMA ReplyTypes ==
    ASSUME TypeOK, lane # LaneIdle, NEW outcome \in Outcomes,
           NEW generation \in Generations, Replies(outcome, generation)
    PROVE  /\ lane' = LaneIdle /\ results' \subseteq Result /\ guard' \in BOOLEAN
<1> DEFINE c == lane.control
           r == [kind |-> c.kind, watch |-> c.watch, asks |-> c.asks, no |-> c.no,
                 outcome |-> outcome, generation |-> generation]
<1>1. r \in Result
  BY LaneHasControl DEF Control, Result
<1> HIDE DEF r
<1>2. results' = IF loop.step = "ended" THEN results ELSE results \cup {r}
  BY DEF Replies, r
<1>3. guard' \in BOOLEAN /\ lane' = LaneIdle
  BY DEF Replies, TypeOK
<1> QED
  BY <1>1, <1>2, <1>3 DEF TypeOK

\* Moving to the next step of a control keeps the lane busy with it.
LEMMA ContinueTypes ==
    ASSUME TypeOK, lane # LaneIdle, NEW step \in LaneSteps, Continues(step)
    PROVE  /\ lane' \in Busy /\ lane' # LaneIdle /\ lane'.step = step
           /\ lane'.control = lane.control
           /\ results' = results /\ guard' = guard
<1>1. lane \in Busy
  BY LaneHasControl
<1>2. lane' = [step |-> step, control |-> lane.control]
  BY <1>1 DEF Continues, Busy
<1>3. lane' \in Busy /\ lane'.step = step /\ lane'.control = lane.control
  BY <1>1, <1>2 DEF Busy
<1>4. step # "idle"
  BY DEF LaneSteps
<1> QED
  BY <1>2, <1>3, <1>4 DEF Continues, LaneIdle

\* The types of the part a step of the lane writes, when it replies or goes on
\* without a new generation.
LaneTyped ==
    /\ lane' \in Busy \cup {LaneIdle}
    /\ results' \subseteq Result /\ guard' \in BOOLEAN

\* A step of the lane that keeps the loop, the generation and the number of
\* controls keeps the typing invariant.
LEMMA LaneFrame ==
    ASSUME TypeInv, lane # LaneIdle, LaneTyped,
           UNCHANGED <<closed, loop, issued, current, Publishing, valid, checks>>,
           state' \in Session, state'.generation = state.generation,
           registered' \in BOOLEAN, inbox' \in 0..Inbox, lagged' \in BOOLEAN
    PROVE  TypeInv'
<1>1. TypeOK'
  BY DEF TypeInv, TypeOK, LaneTyped, Session, Busy, Publishing
<1>2. GenerationsCounted'
  <2>1. state.generation < issued
    BY DEF TypeInv, GenerationsCounted
  <2>2. state.generation \in Int /\ issued \in Int
    BY BoundsAssumption DEF TypeInv, TypeOK, Generations
  <2> QED
    BY <2>1, <2>2 DEF GenerationsCounted
<1>3. LoopHasResult'
  BY DEF TypeInv, LoopHasResult
<1> QED
  BY <1>1, <1>2, <1>3 DEF TypeInv

\* Every step of the lane keeps the typing invariant.
LEMMA TypeLane == TypeInv /\ Lane => TypeInv'
<1> SUFFICES ASSUME TypeInv, Lane PROVE TypeInv'
  OBVIOUS
<1>t. TypeOK
  BY DEF TypeInv
<1>g. 0 \in Generations
  BY BoundsAssumption DEF Generations
<1>b. lane # LaneIdle
  BY DEF Lane, RefuseRepeatedOpen, OpenAnonymous, Verify, RecordActivity,
         BindLooks, BindRegisters, BindCommits, GuardBound, ReplaceWatch,
         RefuseWatch, LaneAt
<1>s. state \in Session /\ registered \in BOOLEAN /\ inbox \in 0..Inbox /\ lagged \in BOOLEAN
  BY <1>t DEF TypeOK, Session
<1>r. ASSUME NEW outcome \in Outcomes, Replies(outcome, 0) PROVE LaneTyped
  BY <1>r, <1>t, <1>g, <1>b, ReplyTypes DEF LaneTyped
<1>c. ASSUME NEW step \in LaneSteps, Continues(step) PROVE LaneTyped
  BY <1>c, <1>t, <1>b, ContinueTypes DEF LaneTyped, TypeOK
<1>1. CASE RefuseRepeatedOpen
  <2>1. LaneTyped
    BY <1>1, <1>r DEF RefuseRepeatedOpen, Outcomes
  <2> QED
    BY <1>1, <2>1, <1>b, <1>s, LaneFrame DEF RefuseRepeatedOpen, Registry
<1>2. CASE OpenAnonymous
  <2>1. LaneTyped
    BY <1>2, <1>r DEF OpenAnonymous, Outcomes
  <2>2. state' \in Session /\ state'.generation = state.generation
    BY <1>2, <1>s DEF OpenAnonymous, Session
  <2> QED
    BY <1>2, <2>1, <2>2, <1>b, <1>s, LaneFrame DEF OpenAnonymous, Registry
<1>3. CASE Verify
  <2>1. LaneTyped
    BY <1>3, <1>r, <1>c DEF Verify, Outcomes, LaneSteps
  <2> QED
    BY <1>3, <2>1, <1>b, <1>s, LaneFrame DEF Verify, Registry
<1>4. CASE RecordActivity
  <2>1. LaneTyped
    BY <1>4, <1>r, <1>c DEF RecordActivity, Outcomes, LaneSteps
  <2> QED
    BY <1>4, <2>1, <1>b, <1>s, LaneFrame DEF RecordActivity, Registry
<1>5. CASE BindLooks
  <2>1. LaneTyped
    BY <1>5, <1>r, <1>c DEF BindLooks, Outcomes, LaneSteps
  <2> QED
    BY <1>5, <2>1, <1>b, <1>s, LaneFrame DEF BindLooks, Registry
<1>6. CASE BindRegisters
  <2>1. LaneTyped
    BY <1>6, <1>c DEF BindRegisters, LaneSteps
  <2>2. registered' = TRUE /\ inbox' = 0 /\ lagged' = FALSE
    BY <1>6 DEF BindRegisters
  <2>3. registered' \in BOOLEAN /\ inbox' \in 0..Inbox /\ lagged' \in BOOLEAN
    <3>1. inbox' \in 0..Inbox
      BY <2>2, BoundsAssumption
    <3> QED
      BY <2>2, <3>1
  <2> QED
    BY <1>6, <2>1, <2>3, <1>b, <1>s, LaneFrame DEF BindRegisters
<1>7. CASE BindCommits
  <2>1. LaneTyped
    BY <1>7, <1>r DEF BindCommits, Outcomes
  <2>2. state' \in Session /\ state'.generation = state.generation
    BY <1>7, <1>s DEF BindCommits, Bound, Session
  <2>3. registered' \in BOOLEAN /\ inbox' \in 0..Inbox /\ lagged' \in BOOLEAN
    BY <1>7, <1>s DEF BindCommits, Registry
  <2> QED
    BY <1>7, <2>1, <2>2, <2>3, <1>b, LaneFrame DEF BindCommits
<1>8. CASE GuardBound
  <2>1. LaneTyped
    BY <1>8, <1>r, <1>c DEF GuardBound, Outcomes, LaneSteps
  <2> QED
    BY <1>8, <2>1, <1>b, <1>s, LaneFrame DEF GuardBound, Registry
<1>9. CASE RefuseWatch
  <2>1. LaneTyped
    BY <1>9, <1>r DEF RefuseWatch, Outcomes
  <2> QED
    BY <1>9, <2>1, <1>b, <1>s, LaneFrame DEF RefuseWatch, Registry
<1>10. CASE ReplaceWatch
  <2> DEFINE g == state.generation + 1
  <2>1. g \in Generations /\ state.generation < g /\ g <= issued
    BY <1>b, <1>t, BoundsAssumption DEF TypeInv, GenerationsCounted, TypeOK, Generations
  <2> HIDE DEF g
  <2>2. lane' = LaneIdle /\ results' \subseteq Result /\ guard' \in BOOLEAN
    BY <1>10, <2>1, <1>t, <1>g, <1>b, ReplyTypes
       DEF ReplaceWatch, Outcomes, NextGeneration, g
  <2>3. state' \in Session /\ state'.generation \in {state.generation, g}
    BY <1>10, <2>1, <1>s DEF ReplaceWatch, NextGeneration, Session, g
  <2>4. current' \in [Watches -> Generations]
    BY <1>10, <2>1, <1>t, <1>g DEF ReplaceWatch, NextGeneration, TypeOK, g
  <2>5. UNCHANGED <<closed, loop, issued, Registry, valid, checks, Publishing>>
    BY <1>10 DEF ReplaceWatch
  <2>6. TypeOK'
    BY <1>t, <2>2, <2>3, <2>4, <2>5 DEF TypeOK, Session, Registry, Publishing
  <2>7. GenerationsCounted'
    BY <2>1, <2>2, <2>3, <2>5, <1>b, <1>t, BoundsAssumption
       DEF GenerationsCounted, TypeInv, TypeOK, Generations
  <2> QED
    BY <2>5, <2>6, <2>7 DEF TypeInv, LoopHasResult
<1> QED
  BY <1>1, <1>2, <1>3, <1>4, <1>5, <1>6, <1>7, <1>8, <1>9, <1>10 DEF Lane

\* A step that keeps the lane, the count of controls and the generation.
LEMMA OtherFrame ==
    ASSUME TypeInv, UNCHANGED <<lane, issued, current>>,
           loop' \in [step : LoopSteps, result : Result \cup {NoResult}],
           LoopHasResult', results' \subseteq Result,
           state' \in Session, state'.generation = state.generation,
           closed' \in BOOLEAN, gate' \in Holders,
           snapshot' \in [Watches -> Generations],
           registered' \in BOOLEAN, inbox' \in 0..Inbox, lagged' \in BOOLEAN,
           valid' \in BOOLEAN, checks' \in Nat, guard' \in BOOLEAN,
           last' \in Frames,
           told' \in [greeted : BOOLEAN, identified : BOOLEAN, refused : BOOLEAN,
                      acked : [Watches -> Generations]]
    PROVE  TypeInv'
<1>1. TypeOK'
  BY DEF TypeInv, TypeOK, Session
<1>2. GenerationsCounted'
  BY DEF TypeInv, GenerationsCounted
<1> QED
  BY <1>1, <1>2 DEF TypeInv

\* The parts of TypeOK, with the names of this module.
LEMMA Typed ==
    ASSUME TypeInv
    PROVE  /\ TypeOK /\ LoopHasResult
           /\ closed \in BOOLEAN
           /\ loop \in [step : LoopSteps, result : Result \cup {NoResult}]
           /\ results \subseteq Result /\ state \in Session
           /\ gate \in Holders /\ snapshot \in [Watches -> Generations]
           /\ registered \in BOOLEAN /\ inbox \in 0..Inbox /\ lagged \in BOOLEAN
           /\ valid \in BOOLEAN /\ checks \in Nat /\ guard \in BOOLEAN
           /\ last \in Frames
           /\ told \in [greeted : BOOLEAN, identified : BOOLEAN,
                        refused : BOOLEAN, acked : [Watches -> Generations]]
BY DEF TypeInv, TypeOK, Session

\* Leaving the select, or another step of the loop, keeps its type.
LEMMA LoopTypes ==
    ASSUME TypeInv
    PROVE  /\ \A step \in LoopSteps : Goto(step) =>
                /\ loop' \in [step : LoopSteps, result : Result \cup {NoResult}]
                /\ loop'.step = step /\ loop'.result = loop.result
           /\ Breaks \/ Idling =>
                /\ loop' \in [step : LoopSteps, result : Result \cup {NoResult}]
                /\ LoopHasResult'
BY Typed DEF Goto, Breaks, Idling, LoopSteps, LoopHasResult

\* A frame is enqueued on an open transport, or the transport closes.
LEMMA EnqueueTypes ==
    ASSUME TypeInv, NEW f \in Frames, Enqueues(f) \/ FailsToEnqueue
    PROVE  closed' \in BOOLEAN /\ last' \in Frames
BY Typed DEF Enqueues, FailsToEnqueue

\* What the client is told of a result is of the right type.
LEMMA ToldTypes ==
    ASSUME TypeInv, NEW r \in Result
    PROVE  Told(r) \in [greeted : BOOLEAN, identified : BOOLEAN,
                        refused : BOOLEAN, acked : [Watches -> Generations]]
<1>1. r.generation \in Generations
  BY DEF Result
<1>2. told.acked \in [Watches -> Generations] /\ told.identified \in BOOLEAN
      /\ told.greeted \in BOOLEAN /\ told.refused \in BOOLEAN
  BY Typed
<1>3. [w \in Watches |-> IF w = r.watch /\ r.generation > told.acked[w]
                         THEN r.generation ELSE told.acked[w]]
         \in [Watches -> Generations]
  BY <1>1, <1>2
<1>4. (told.greeted \/ (r.no = 1 /\ r.outcome = "ok")) \in BOOLEAN
      /\ (told.refused \/ r.outcome = "lifecycle") \in BOOLEAN
  OBVIOUS
<1> QED
  BY <1>2, <1>3, <1>4 DEF Told

\* Every step of the serve loop keeps the typing invariant.
LEMMA TypeLoop ==
    TypeInv /\ (Loop \/ TakeGuard \/ ExpireAnonymous) => TypeInv'
<1> SUFFICES ASSUME TypeInv, Loop \/ TakeGuard \/ ExpireAnonymous PROVE TypeInv'
  OBVIOUS
<1> USE Typed
<1>1. CASE TakeResult
  <2>1. PICK r \in results :
            /\ results' = results \ {r}
            /\ loop' = [result |-> r,
                        step |-> IF ~r.asks THEN "activate"
                                 ELSE IF r.outcome = "lifecycle" THEN "suspend"
                                 ELSE "answer"]
    BY <1>1 DEF TakeResult
  <2>2. r \in Result
    OBVIOUS
  <2>3. loop' \in [step : LoopSteps, result : Result \cup {NoResult}]
        /\ LoopHasResult'
    BY <2>1, <2>2 DEF LoopSteps, LoopHasResult
  <2>4. results' \subseteq Result
    BY <2>1
  <2>5. UNCHANGED <<closed, lane, issued, state, current, Registry, valid,
                    checks, guard, Publishing>>
    BY <1>1 DEF TakeResult
  <2> HIDE <1>1
  <2> QED
    BY <2>3, <2>4, <2>5, OtherFrame DEF Registry, Publishing
<1>2. CASE Suspend
  <2>1. loop' \in [step : LoopSteps, result : Result \cup {NoResult}]
        /\ LoopHasResult'
    BY <1>2, LoopTypes DEF Suspend, LoopSteps, LoopHasResult
  <2>2. state' \in Session /\ state'.generation = state.generation
    BY <1>2 DEF Suspend, Session
  <2>3. UNCHANGED <<closed, lane, results, issued, current, Registry, valid,
                    checks, guard, Publishing>>
    BY <1>2 DEF Suspend
  <2> QED
    BY <2>1, <2>2, <2>3, OtherFrame DEF Registry, Publishing
<1>3. CASE Answer
  <2>1. loop.result \in Result
    BY <1>3 DEF Answer, LoopHasResult
  <2>2. loop' \in [step : LoopSteps, result : Result \cup {NoResult}]
        /\ LoopHasResult'
    BY <1>3, <2>1, LoopTypes DEF Answer, LoopSteps, LoopHasResult
  <2>3. closed' \in BOOLEAN /\ last' \in Frames
    <3>1. Enqueues([kind |-> "answer"]) \/ FailsToEnqueue
      BY <1>3 DEF Answer
    <3>2. [kind |-> "answer"] \in Frames
      BY DEF Frames
    <3> QED
      BY <3>1, <3>2, EnqueueTypes
  <2>4. told' \in [greeted : BOOLEAN, identified : BOOLEAN, refused : BOOLEAN,
                   acked : [Watches -> Generations]]
    BY <1>3, <2>1, ToldTypes DEF Answer
  <2>5. UNCHANGED <<lane, results, issued, state, current, gate, snapshot,
                    Registry, valid, checks, guard>>
    BY <1>3 DEF Answer
  <2> QED
    BY <2>2, <2>3, <2>4, <2>5, OtherFrame DEF Registry
<1>4. CASE Activate
  <2>1. loop' \in [step : LoopSteps, result : Result \cup {NoResult}]
        /\ LoopHasResult'
    BY <1>4, LoopTypes DEF Activate
  <2>2. state' \in Session /\ state'.generation = state.generation
    BY <1>4 DEF Activate, Session
  <2>3. checks' \in Nat
    BY <1>4 DEF Activate
  <2>4. told' \in [greeted : BOOLEAN, identified : BOOLEAN, refused : BOOLEAN,
                   acked : [Watches -> Generations]]
    BY <1>4 DEF Activate
  <2>5. UNCHANGED <<closed, lane, results, issued, current, gate, snapshot,
                    Registry, valid, guard, last>>
    BY <1>4 DEF Activate
  <2> QED
    BY <2>1, <2>2, <2>3, <2>4, <2>5, OtherFrame DEF Registry
<1>5. CASE BeginNotice
  <2>1. state' \in Session /\ state'.generation = state.generation
    BY <1>5 DEF BeginNotice, Session
  <2>2. gate' \in Holders
    BY <1>5 DEF BeginNotice, Holders
  <2>3. UNCHANGED <<closed, loop, lane, results, issued, current, snapshot,
                    Registry, valid, checks, guard, last, told>>
    BY <1>5 DEF BeginNotice
  <2> QED
    BY <2>1, <2>2, <2>3, OtherFrame DEF Registry, LoopHasResult
<1>6. CASE Notify
  <2>1. loop' \in [step : LoopSteps, result : Result \cup {NoResult}]
        /\ LoopHasResult'
    BY <1>6, LoopTypes DEF Notify
  <2>2. gate' \in Holders /\ closed' \in BOOLEAN /\ last' \in Frames
    BY <1>6 DEF Notify, Holders, Frames
  <2>3. UNCHANGED <<lane, results, issued, state, current, snapshot, Registry,
                    valid, checks, guard, told>>
    BY <1>6 DEF Notify
  <2> QED
    BY <2>1, <2>2, <2>3, OtherFrame DEF Registry
<1>7. CASE SeeClosed \/ ExpireAnonymous
  <2>1. loop' \in [step : LoopSteps, result : Result \cup {NoResult}]
        /\ LoopHasResult' /\ closed' \in BOOLEAN
    BY <1>7, LoopTypes DEF SeeClosed, ExpireAnonymous
  <2>2. UNCHANGED <<lane, results, issued, state, current, Registry, valid,
                    checks, guard, Publishing>>
    BY <1>7 DEF SeeClosed, ExpireAnonymous
  <2> QED
    BY <2>1, <2>2, OtherFrame DEF Registry, Publishing
<1>8. CASE TakeGuard
  <2>1. loop' \in [step : LoopSteps, result : Result \cup {NoResult}]
        /\ LoopHasResult' /\ guard' \in BOOLEAN
    BY <1>8, LoopTypes DEF TakeGuard, LoopSteps, LoopHasResult
  <2>2. UNCHANGED <<closed, lane, results, issued, state, current, Registry,
                    valid, checks, Publishing>>
    BY <1>8 DEF TakeGuard
  <2> QED
    BY <2>1, <2>2, OtherFrame DEF Registry, Publishing
<1>9. CASE Leave
  <2>1. loop' \in [step : LoopSteps, result : Result \cup {NoResult}]
        /\ LoopHasResult' /\ closed' \in BOOLEAN
    BY <1>9, LoopTypes DEF Leave, LoopSteps, LoopHasResult
  <2>2. state' \in Session /\ state'.generation = state.generation
    BY <1>9 DEF Leave, Session
  <2>3. registered' \in BOOLEAN /\ results' \subseteq Result
    BY <1>9 DEF Leave
  <2>4. UNCHANGED <<lane, issued, current, inbox, lagged, valid, checks, guard,
                    Publishing>>
    BY <1>9 DEF Leave
  <2> QED
    BY <2>1, <2>2, <2>3, <2>4, OtherFrame DEF Publishing
<1> QED
  BY <1>1, <1>2, <1>3, <1>4, <1>5, <1>6, <1>7, <1>8, <1>9 DEF Loop

\* The steps of the forwarders, the checks, the registry and the environment.
Outside ==
    \/ Broadcast \/ BeginEvent \/ EndEvent \/ SeeLag
    \/ \E w \in Watches : Snapshot(w) \/ BeginSnapshot(w) \/ EndSnapshot(w)
    \/ CheckFails \/ Revoke \/ CloseTransport \/ Prune

\* Every such step keeps the typing invariant.
LEMMA TypeOutside == TypeInv /\ Outside => TypeInv'
<1> SUFFICES ASSUME TypeInv, Outside PROVE TypeInv'
  OBVIOUS
<1> USE Typed
<1>l. UNCHANGED loop => LoopHasResult'
  BY DEF LoopHasResult
<1>1. CASE Broadcast
  <2>1. inbox' \in 0..Inbox /\ lagged' \in BOOLEAN
    <3>1. inbox' = inbox \/ (inbox < Inbox /\ inbox' = inbox + 1)
      BY <1>1 DEF Broadcast
    <3>2. lagged' \in BOOLEAN
      BY <1>1 DEF Broadcast
    <3>3. inbox' \in 0..Inbox
      BY <3>1, BoundsAssumption
    <3> QED
      BY <3>2, <3>3
  <2>2. UNCHANGED <<closed, loop, lane, results, issued, state, current,
                    registered, valid, checks, guard, Publishing>>
    BY <1>1 DEF Broadcast
  <2> QED
    BY <2>1, <2>2, <1>l, OtherFrame DEF Publishing
<1>2. CASE BeginEvent
  <2>1. inbox' \in 0..Inbox
    BY <1>2, BoundsAssumption DEF BeginEvent
  <2>2. gate' \in Holders
    BY <1>2 DEF BeginEvent, Holders
  <2>3. UNCHANGED <<closed, loop, lane, results, issued, state, current,
                    snapshot, registered, lagged, valid, checks, guard, last,
                    told>>
    BY <1>2 DEF BeginEvent
  <2> QED
    BY <2>1, <2>2, <2>3, <1>l, OtherFrame
<1>3. CASE EndEvent
  <2>1. closed' \in BOOLEAN /\ last' \in Frames
    <3>1. Enqueues([kind |-> "event"]) \/ FailsToEnqueue
      BY <1>3 DEF EndEvent
    <3>2. [kind |-> "event"] \in Frames
      BY DEF Frames
    <3> QED
      BY <3>1, <3>2, EnqueueTypes
  <2>2. gate' \in Holders
    BY <1>3 DEF EndEvent, Holders
  <2>3. UNCHANGED <<loop, lane, results, issued, state, current, snapshot,
                    Registry, valid, checks, guard, told>>
    BY <1>3 DEF EndEvent
  <2> QED
    BY <2>1, <2>2, <2>3, <1>l, OtherFrame DEF Registry
<1>4. CASE SeeLag
  <2>1. closed' \in BOOLEAN /\ lagged' \in BOOLEAN
    BY <1>4 DEF SeeLag
  <2>2. UNCHANGED <<loop, lane, results, issued, state, current, registered,
                    inbox, valid, checks, guard, Publishing>>
    BY <1>4 DEF SeeLag
  <2> QED
    BY <2>1, <2>2, <1>l, OtherFrame DEF Publishing
<1>5. ASSUME NEW w \in Watches, Snapshot(w) PROVE TypeInv'
  <2>1. snapshot' \in [Watches -> Generations]
    BY <1>5 DEF Snapshot, TypeOK
  <2>2. UNCHANGED <<closed, loop, lane, results, issued, state, current, gate,
                    Registry, valid, checks, guard, last, told>>
    BY <1>5 DEF Snapshot
  <2> QED
    BY <2>1, <2>2, <1>l, OtherFrame DEF Registry
<1>g. 0 \in Generations
  BY BoundsAssumption DEF Generations
<1>6. ASSUME NEW w \in Watches, BeginSnapshot(w) PROVE TypeInv'
  <2>1. snapshot' \in [Watches -> Generations] /\ gate' \in Holders
    BY <1>6, <1>g DEF BeginSnapshot, Holders
  <2>2. UNCHANGED <<closed, loop, lane, results, issued, state, current,
                    Registry, valid, checks, guard, last, told>>
    BY <1>6 DEF BeginSnapshot
  <2> QED
    BY <2>1, <2>2, <1>l, OtherFrame DEF Registry
<1>7. ASSUME NEW w \in Watches, EndSnapshot(w) PROVE TypeInv'
  <2>1. closed' \in BOOLEAN /\ last' \in Frames
    <3> DEFINE f == [kind |-> "snapshot", watch |-> w, generation |-> snapshot[w]]
    <3>1. Enqueues(f) \/ FailsToEnqueue
      BY <1>7 DEF EndSnapshot
    <3>2. f \in Frames
      BY DEF Frames
    <3> QED
      BY <3>1, <3>2, EnqueueTypes
  <2>2. snapshot' \in [Watches -> Generations] /\ gate' \in Holders
    BY <1>7, <1>g DEF EndSnapshot, Holders
  <2>3. UNCHANGED <<loop, lane, results, issued, state, current, Registry,
                    valid, checks, guard, told>>
    BY <1>7 DEF EndSnapshot
  <2> QED
    BY <2>1, <2>2, <2>3, <1>l, OtherFrame DEF Registry
<1>8. CASE CheckFails
  <2>1. checks' \in Nat /\ guard' \in BOOLEAN
    BY <1>8 DEF CheckFails
  <2>2. UNCHANGED <<closed, loop, lane, results, issued, state, current,
                    Registry, valid, Publishing>>
    BY <1>8 DEF CheckFails
  <2> QED
    BY <2>1, <2>2, <1>l, OtherFrame DEF Registry, Publishing
<1>9. CASE Revoke \/ CloseTransport
  <2>1. valid' \in BOOLEAN /\ closed' \in BOOLEAN
    BY <1>9 DEF Revoke, CloseTransport
  <2>2. UNCHANGED <<loop, lane, results, issued, state, current, Registry,
                    checks, guard, Publishing>>
    BY <1>9 DEF Revoke, CloseTransport
  <2> QED
    BY <2>1, <2>2, <1>l, OtherFrame DEF Registry, Publishing
<1>10. CASE Prune
  <2>1. registered' \in BOOLEAN
    BY <1>10 DEF Prune
  <2>2. UNCHANGED <<closed, loop, lane, results, issued, state, current, inbox,
                    lagged, valid, checks, guard, Publishing>>
    BY <1>10 DEF Prune
  <2> QED
    BY <2>1, <2>2, <1>l, OtherFrame DEF Publishing
<1> QED
  BY <1>1, <1>2, <1>3, <1>4, <1>5, <1>6, <1>7, <1>8, <1>9, <1>10 DEF Outside

\* Admission makes the idle lane busy with a new control.
LEMMA TypeAdmit == TypeInv /\ Admit => TypeInv'
<1> SUFFICES ASSUME TypeInv, Admit PROVE TypeInv'
  OBVIOUS
<1>1. PICK kind \in Kinds, w \in Watches \cup {NoWatch}, asks \in BOOLEAN :
        lane' = [step |-> "queued",
                 control |-> [kind |-> kind, watch |-> w, asks |-> asks,
                              no |-> issued + 1]]
  BY DEF Admit
<1>2. lane = LaneIdle /\ issued' = issued + 1 /\ issued < MaxControls
  BY DEF Admit
<1>3. issued \in Nat /\ issued' \in 1..MaxControls
  BY <1>2, BoundsAssumption DEF TypeInv, TypeOK
<1>4. lane' \in Busy
  BY <1>1, <1>2, <1>3 DEF Busy, LaneSteps, Control
<1>5. UNCHANGED <<closed, loop, results, state, current, Registry, valid,
                  checks, guard, Publishing>>
  BY DEF Admit
<1>6. issued' \in 0..MaxControls
  BY <1>3
<1>7. TypeOK'
  BY <1>4, <1>5, <1>6 DEF TypeInv, TypeOK, Busy, Registry, Publishing
<1>8. GenerationsCounted'
  <2>1. state.generation <= issued /\ state.generation \in Int
    BY <1>2 DEF TypeInv, GenerationsCounted, TypeOK, Generations
  <2> QED
    BY <2>1, <1>2, <1>3, <1>5 DEF GenerationsCounted
<1> QED
  BY <1>5, <1>7, <1>8 DEF TypeInv, LoopHasResult

\* A stuttering step changes nothing the invariant speaks of.
LEMMA TypeStutter == TypeInv /\ UNCHANGED vars => TypeInv'
BY DEF TypeInv, TypeOK, GenerationsCounted, LoopHasResult, vars

\* The five kinds of step.
LEMMA Steps == Next => Admit \/ Lane \/ (Loop \/ TakeGuard \/ ExpireAnonymous) \/ Outside
BY DEF Next, Outside

\* The typing invariant is inductive.
LEMMA TypeInvariant == Spec => []TypeInv
<1>1. Init => TypeInv
  <2> SUFFICES ASSUME Init PROVE TypeInv
    OBVIOUS
  <2>1. 0 \in Generations /\ 0 \in 0..MaxControls /\ 0 \in 0..Inbox
    BY BoundsAssumption DEF Generations
  <2>2. TypeOK
    BY <2>1 DEF Init, TypeOK, LoopSteps, Holders, Frames
  <2> QED
    BY <2>2 DEF Init, TypeInv, GenerationsCounted, LoopHasResult
<1>2. TypeInv /\ [Next]_vars => TypeInv'
  BY Steps, TypeAdmit, TypeLane, TypeLoop, TypeOutside, TypeStutter
<1> QED
  BY <1>1, <1>2, PTL DEF Spec

\* Every variable keeps its type, and no more generations are given out than
\* controls were admitted (NextGeneration of replace_*_watch).
THEOREM SessionTypeCorrect == Spec => [](TypeOK /\ GenerationsCounted)
<1>1. TypeInv => TypeOK /\ GenerationsCounted
  BY DEF TypeInv
<1> QED
  BY <1>1, TypeInvariant, PTL

-----------------------------------------------------------------------------
(* What the loop has still to answer.                                       *)

\* A result that answers a control.
Answers(r, c) == r.watch = c.watch /\ r.no = c.no /\ r.asks = c.asks

\* A reply adds the result of the lane's control, and nothing else.
LEMMA Replied ==
    ASSUME NEW outcome, NEW generation, Replies(outcome, generation),
           UNCHANGED loop
    PROVE  \A r \in Reported' : \/ r \in Reported
                                \/ /\ Answers(r, lane.control)
                                   /\ r.generation = generation
BY DEF Replies, Reported, Answers

\* The lane reports results of its own control, and only a replaced watch comes
\* with a generation, the one after the last.
LEMMA LaneReports ==
    ASSUME TypeInv, Lane
    PROVE  /\ loop' = loop /\ lane # LaneIdle
           /\ \A r \in Reported' :
                \/ r \in Reported
                \/ /\ Answers(r, lane.control)
                   /\ r.generation = 0
                      \/ (ReplaceWatch /\ r.generation = state.generation + 1)
<1>0. loop' = loop
  BY DEF Lane, RefuseRepeatedOpen, OpenAnonymous, Verify, RecordActivity,
         BindLooks, BindRegisters, BindCommits, GuardBound, ReplaceWatch,
         RefuseWatch
<1>1. lane # LaneIdle
  BY DEF Lane, RefuseRepeatedOpen, OpenAnonymous, Verify, RecordActivity,
         BindLooks, BindRegisters, BindCommits, GuardBound, ReplaceWatch,
         RefuseWatch, LaneAt
<1>2. (\E step : Continues(step)) \/ (\E outcome : Replies(outcome, 0))
      \/ (ReplaceWatch /\ \E outcome : Replies(outcome, state.generation + 1))
  BY DEF Lane, RefuseRepeatedOpen, OpenAnonymous, Verify, RecordActivity,
         BindLooks, BindRegisters, BindCommits, GuardBound, ReplaceWatch,
         RefuseWatch, NextGeneration
<1>3. CASE \E step : Continues(step)
  BY <1>0, <1>1, <1>3 DEF Continues, Reported
<1>4. CASE \E outcome : Replies(outcome, 0)
  BY <1>0, <1>1, <1>4, Replied
<1>5. CASE ReplaceWatch /\ \E outcome : Replies(outcome, state.generation + 1)
  BY <1>0, <1>1, <1>5, Replied
<1> QED
  BY <1>2, <1>3, <1>4, <1>5

\* The loop reports nothing new: it moves a result from the channel to itself.
LEMMA LoopReports ==
    ASSUME TypeInv, Loop \/ TakeGuard \/ ExpireAnonymous
    PROVE  Reported' \subseteq Reported
<1>1. NoResult \notin Result
  BY DEF NoResult, Result, Kinds
<1>2. CASE TakeResult
  BY <1>2, Typed DEF TakeResult, Reported
<1>3. CASE ~TakeResult
  <2>1. results' \subseteq results
    BY <1>3 DEF Loop, Suspend, Answer, Activate, BeginNotice, Notify,
            SeeClosed, Leave, TakeGuard, ExpireAnonymous
  <2>2. loop'.result \in {loop.result, NoResult}
    BY <1>3, Typed, LoopTypes DEF Loop, Suspend, Answer, Activate, BeginNotice,
       Notify, SeeClosed, Leave, TakeGuard, ExpireAnonymous, Goto, Breaks, Idling
  <2> QED
    BY <1>1, <2>1, <2>2 DEF Reported
<1> QED
  BY <1>2, <1>3

\* The others do not touch the results.
LEMMA OutsideReports ==
    ASSUME Outside PROVE UNCHANGED <<loop, lane, results, state, current, issued>>
BY DEF Outside, Broadcast, BeginEvent, EndEvent, SeeLag, Snapshot,
       BeginSnapshot, EndSnapshot, CheckFails, Revoke, CloseTransport, Prune

-----------------------------------------------------------------------------
(* Generations of watches.                                                  *)

\* A step that tells nothing new and replaces no watch keeps AckInv.
LEMMA AckFrame ==
    ASSUME TypeInv, AckInv,
           told'.acked = told.acked, state'.generation = state.generation,
           current' = current,
           \A w \in Watches : gate' = w => gate = w /\ snapshot'[w] = snapshot[w],
           \A r \in Reported' : r \in Reported \/ r.generation = 0
    PROVE  AckInv'
<1>1. \A w \in Watches : current[w] \in Nat
  BY BoundsAssumption DEF TypeInv, TypeOK, Generations
<1>2. state.generation \in Nat
  BY BoundsAssumption DEF TypeInv, TypeOK, Generations
<1> QED
  BY <1>1, <1>2 DEF AckInv, GateMatches

\* Replacing a watch gives it a generation above all that were reported.
LEMMA AckReplace == TypeInv /\ AckInv /\ Lane => AckInv'
<1> SUFFICES ASSUME TypeInv, AckInv, Lane PROVE AckInv'
  OBVIOUS
<1>0. state.generation \in Nat /\ (\A w \in Watches : current[w] \in Nat)
      /\ (\A r \in Reported : r.generation \in Nat)
      /\ (\A w \in Watches : told.acked[w] \in Nat)
  BY BoundsAssumption DEF TypeInv, TypeOK, Generations, Reported, Result
<1>1. UNCHANGED Publishing
  BY DEF Lane, RefuseRepeatedOpen, OpenAnonymous, Verify, RecordActivity,
         BindLooks, BindRegisters, BindCommits, GuardBound, ReplaceWatch,
         RefuseWatch
<1>2. CASE ~ReplaceWatch
  <2>1. UNCHANGED current
    BY <1>2 DEF Lane, RefuseRepeatedOpen, OpenAnonymous, Verify, RecordActivity,
         BindLooks, BindRegisters, BindCommits, GuardBound, RefuseWatch
  <2>2. state'.generation = state.generation
    BY <1>2, Typed DEF Lane, RefuseRepeatedOpen, OpenAnonymous, Verify,
         RecordActivity, BindLooks, BindRegisters, BindCommits, GuardBound,
         RefuseWatch, Bound, Session
  <2>3. \A r \in Reported' : r \in Reported \/ r.generation = 0
    BY <1>2, LaneReports
  <2> QED
    BY <1>1, <2>1, <2>2, <2>3, AckFrame DEF Publishing
<1>3. CASE ReplaceWatch
  <2> DEFINE g == state.generation + 1
             w == lane.control.watch
  <2>1. gate = "free" /\ gate' = gate /\ told' = told
    BY <1>1, <1>3 DEF ReplaceWatch, ReplacerHasGate, Publishing
  <2>2. \A r \in Reported' : \/ r \in Reported
                             \/ r.watch = w /\ r.generation \in {0, g}
    BY LaneReports DEF Answers
  <2>3. CASE ~state.accepting
    <3>1. UNCHANGED <<state, current>> /\ \E outcome : Replies(outcome, 0)
      BY <1>3, <2>3 DEF ReplaceWatch
    <3>2. \A r \in Reported' : r \in Reported \/ r.generation = 0
      BY <3>1, Replied, LaneReports
    <3> QED
      BY <1>1, <3>1, <3>2, AckFrame DEF Publishing
  <2>4. CASE state.accepting
    <3>1. state'.generation = g
      BY <1>3, <2>4, Typed DEF ReplaceWatch, NextGeneration, Session
    <3>2. CASE state.bound
      <4>1. current' \in {[current EXCEPT ![w] = g], [current EXCEPT ![w] = 0]}
        BY <1>3, <2>4, <3>2 DEF ReplaceWatch, NextGeneration
      <4>2. \A v \in Watches : IF v = w THEN current'[v] \in {0, g}
                                        ELSE current'[v] = current[v]
        BY <4>1 DEF TypeInv, TypeOK
      <4> HIDE DEF w
      <4> QED
        BY <1>0, <2>1, <2>2, <3>1, <4>2, WatchesAssumption DEF AckInv, GateMatches
    <3>3. CASE ~state.bound
      <4>1. current' = current /\ \E outcome : Replies(outcome, 0)
        BY <1>3, <2>4, <3>3 DEF ReplaceWatch
      <4>2. \A r \in Reported' : r \in Reported \/ r.generation = 0
        BY <4>1, Replied, LaneReports
      <4> QED
        BY <1>0, <2>1, <3>1, <4>1, <4>2, WatchesAssumption DEF AckInv, GateMatches
    <3> QED
      BY <3>2, <3>3
  <2> QED
    BY <2>3, <2>4
<1> QED
  BY <1>2, <1>3

\* The loop tells of results that were reported.
LEMMA AckLoop ==
    TypeInv /\ AckInv /\ (Loop \/ TakeGuard \/ ExpireAnonymous) => AckInv'
<1> SUFFICES ASSUME TypeInv, AckInv, Loop \/ TakeGuard \/ ExpireAnonymous
             PROVE  AckInv'
  OBVIOUS
<1>1. Reported' \subseteq Reported
  BY LoopReports
<1>2. current' = current /\ snapshot' = snapshot
  BY DEF Loop, TakeResult, Suspend, Answer, Activate, BeginNotice, Notify,
         SeeClosed, Leave, TakeGuard, ExpireAnonymous, Publishing
<1>3. state'.generation = state.generation
  BY Typed DEF Loop, TakeResult, Suspend, Answer, Activate, BeginNotice, Notify,
         SeeClosed, Leave, TakeGuard, ExpireAnonymous, Session
<1>4. \A w \in Watches : gate' = w => gate = w
  BY WatchesAssumption DEF Loop, TakeResult, Suspend, Answer, Activate,
     BeginNotice, Notify, SeeClosed, Leave, TakeGuard, ExpireAnonymous, Publishing
<1>5. CASE told'.acked = told.acked
  BY <1>1, <1>2, <1>3, <1>4, <1>5, AckFrame
<1>6. CASE told'.acked # told.acked
  <2>1. Answer /\ told' = Told(loop.result)
    BY <1>6, Typed DEF Loop, TakeResult, Suspend, Answer, Activate, BeginNotice,
       Notify, SeeClosed, Leave, TakeGuard, ExpireAnonymous, Publishing
  <2> DEFINE r == loop.result
  <2>2. r \in Reported /\ r \in Result
    BY <2>1 DEF Answer, TypeInv, LoopHasResult, Reported
  <2>3. \A w \in Watches :
           told'.acked[w] = told.acked[w]
           \/ (w = r.watch /\ told'.acked[w] = r.generation)
    BY <2>1 DEF Told
  <2> HIDE DEF r
  <2>4. /\ \A w \in Watches : told'.acked[w] <= state'.generation
        /\ \A w \in Watches : current'[w] # 0 => current'[w] >= told'.acked[w]
    BY <1>2, <1>3, <2>2, <2>3 DEF AckInv
  <2> QED
    BY <1>1, <1>2, <1>3, <1>4, <2>4 DEF AckInv, GateMatches
<1> QED
  BY <1>5, <1>6

\* Who takes the gate for a snapshot has compared it with the watch.
LEMMA AckOutside == TypeInv /\ AckInv /\ Outside => AckInv'
<1> SUFFICES ASSUME TypeInv, AckInv, Outside PROVE AckInv'
  OBVIOUS
<1>0. UNCHANGED <<loop, lane, results, state, current, issued>>
  BY OutsideReports
<1>1. told' = told
  BY DEF Outside, Broadcast, BeginEvent, EndEvent, SeeLag, Snapshot,
     BeginSnapshot, EndSnapshot, CheckFails, Revoke, CloseTransport, Prune,
     Publishing
<1>2. Reported' = Reported
  BY <1>0 DEF Reported
<1>3. GateMatches'
  <2>0. snapshot \in [Watches -> Generations]
    BY DEF TypeInv, TypeOK
  <2>1. ASSUME NEW v \in Watches, Snapshot(v) PROVE GateMatches'
    BY <1>0, <2>0, <2>1 DEF Snapshot, AckInv, GateMatches
  <2>2. ASSUME NEW v \in Watches, BeginSnapshot(v) PROVE GateMatches'
    BY <1>0, <2>0, <2>2, WatchesAssumption DEF BeginSnapshot, AckInv, GateMatches
  <2>3. ASSUME NEW v \in Watches, EndSnapshot(v) PROVE GateMatches'
    BY <2>3, WatchesAssumption DEF EndSnapshot, GateMatches
  <2>4. CASE Broadcast \/ BeginEvent \/ EndEvent \/ SeeLag \/ CheckFails \/ Revoke
             \/ CloseTransport \/ Prune
    <3>1. snapshot' = snapshot
      BY <2>4 DEF Broadcast, BeginEvent, EndEvent, SeeLag, CheckFails, Revoke,
         CloseTransport, Prune, Publishing
    <3>2. \A w \in Watches : gate' = w => gate = w
      BY <2>4, WatchesAssumption DEF Broadcast, BeginEvent, EndEvent, SeeLag,
         CheckFails, Revoke, CloseTransport, Prune, Publishing
    <3> QED
      BY <1>0, <3>1, <3>2 DEF AckInv, GateMatches
  <2> QED
    BY <2>1, <2>2, <2>3, <2>4 DEF Outside
<1> QED
  BY <1>0, <1>1, <1>2, <1>3 DEF AckInv

\* What the client was or will be told of a watch is never newer than it.
LEMMA AckStep == TypeInv /\ AckInv /\ [Next]_vars => AckInv'
<1>1. TypeInv /\ AckInv /\ Admit => AckInv'
  <2> SUFFICES ASSUME TypeInv, AckInv, Admit PROVE AckInv'
    OBVIOUS
  <2>1. UNCHANGED <<loop, results, state, current, Publishing>>
    BY DEF Admit
  <2> QED
    BY <2>1, AckFrame DEF Publishing, Reported
<1>2. TypeInv /\ AckInv /\ UNCHANGED vars => AckInv'
  BY DEF AckInv, GateMatches, Reported, vars
<1> QED
  BY <1>1, <1>2, Steps, AckReplace, AckLoop, AckOutside

LEMMA AckInvariant == Spec => [](TypeInv /\ AckInv)
<1>1. Init => AckInv
  BY WatchesAssumption DEF Init, AckInv, GateMatches, Reported, NoResult, Result, Kinds
<1> QED
  BY <1>1, AckStep, TypeInvariant, PTL DEF Spec

\* Only the end of a snapshot's publication makes a snapshot the last frame.
LEMMA SnapshotFrames ==
    ASSUME TypeInv, Next, last' # last, last'.kind = "snapshot"
    PROVE  \E w \in Watches :
              EndSnapshot(w) /\ last' = [kind |-> "snapshot", watch |-> w,
                                         generation |-> snapshot[w]]
<1>1. ~Admit /\ ~Lane /\ ~TakeGuard /\ ~ExpireAnonymous
  BY DEF Admit, Lane, TakeGuard, ExpireAnonymous, RefuseRepeatedOpen,
     OpenAnonymous, Verify, RecordActivity, BindLooks, BindRegisters,
     BindCommits, GuardBound, ReplaceWatch, RefuseWatch, Publishing
<1>2. ~Loop
  BY DEF Loop, TakeResult, Suspend, Answer, Activate, BeginNotice, Notify,
     SeeClosed, Leave, Publishing, Enqueues, FailsToEnqueue
<1>3. Outside
  BY <1>1, <1>2 DEF Next, Outside
<1>4. ~(Broadcast \/ BeginEvent \/ SeeLag \/ CheckFails \/ Revoke
        \/ CloseTransport \/ Prune)
  BY DEF Broadcast, BeginEvent, SeeLag, CheckFails, Revoke, CloseTransport,
     Prune, Publishing
<1>5. ~EndEvent
  BY DEF EndEvent, Enqueues, FailsToEnqueue
<1>6. \A w \in Watches : ~Snapshot(w) /\ ~BeginSnapshot(w)
  BY DEF Snapshot, BeginSnapshot
<1> QED
  BY <1>3, <1>4, <1>5, <1>6 DEF Outside, EndSnapshot, Enqueues, FailsToEnqueue

\* Once the client was told that a watch was replaced, no snapshot of an earlier
\* one is enqueued: send_current_watch_event compares generations and enqueues
\* under the event gate, and replace_*_watch needs the gate.
THEOREM NoStaleSnapshot == Spec => NoSnapshotAfterAck
<1>1. TypeInv /\ AckInv /\ [Next]_vars
        => [last' # last /\ last'.kind = "snapshot"
              => last'.generation >= told.acked[last'.watch]]_vars
  <2> SUFFICES ASSUME TypeInv, AckInv, Next, last' # last,
                      last'.kind = "snapshot"
               PROVE  last'.generation >= told.acked[last'.watch]
    OBVIOUS
  <2>1. PICK w \in Watches :
           EndSnapshot(w) /\ last' = [kind |-> "snapshot", watch |-> w,
                                      generation |-> snapshot[w]]
    BY SnapshotFrames
  <2>2. gate = w
    BY <2>1 DEF EndSnapshot
  <2>3. snapshot[w] = current[w] /\ current[w] >= told.acked[w]
    BY <2>2 DEF AckInv, GateMatches
  <2> QED
    BY <2>1, <2>3
<1> QED
  BY <1>1, AckInvariant, PTL DEF Spec, NoSnapshotAfterAck

-----------------------------------------------------------------------------
(* What precedes the first event.                                           *)

\* The lane goes on with its control or ends it, and does not activate.
LEMMA LaneKeeps ==
    ASSUME TypeInv, Lane
    PROVE  /\ lane # LaneIdle
           /\ lane' = LaneIdle \/ lane'.control = lane.control
           /\ state'.activated = state.activated
           /\ UNCHANGED <<closed, loop, checks, issued, Publishing>>
<1>1. lane # LaneIdle
  BY LaneReports
<1>2. (\E step \in LaneSteps : Continues(step)) \/ (\E o, g : Replies(o, g))
  BY DEF Lane, RefuseRepeatedOpen, OpenAnonymous, Verify, RecordActivity,
         BindLooks, BindRegisters, BindCommits, GuardBound, ReplaceWatch,
         RefuseWatch, LaneSteps
<1>3. lane' = LaneIdle \/ lane'.control = lane.control
  BY <1>1, <1>2, ContinueTypes, Typed DEF Replies
<1>4. state'.activated = state.activated
  BY Typed DEF Lane, RefuseRepeatedOpen, OpenAnonymous, Verify, RecordActivity,
         BindLooks, BindRegisters, BindCommits, GuardBound, ReplaceWatch,
         RefuseWatch, Bound, Session
<1>5. UNCHANGED <<closed, loop, checks, issued, Publishing>>
  BY DEF Lane, RefuseRepeatedOpen, OpenAnonymous, Verify, RecordActivity,
         BindLooks, BindRegisters, BindCommits, GuardBound, ReplaceWatch,
         RefuseWatch
<1> QED
  BY <1>1, <1>3, <1>4, <1>5

\* The loop activates the session in one place only, and binds it nowhere.
LEMMA LoopKeeps ==
    ASSUME TypeInv, Loop \/ TakeGuard \/ ExpireAnonymous
    PROVE  /\ lane' = lane
           /\ state'.activated => state.activated \/ Activate
           /\ state'.bound => state.bound
           /\ state'.opened = state.opened
           /\ told.greeted => told'.greeted
           /\ gate' \in Publishers => gate' = gate
           /\ last'.kind \in {"event", "snapshot"} => last' = last
<1>1. lane' = lane /\ (told.greeted => told'.greeted)
  BY Typed DEF Loop, TakeResult, Suspend, Answer, Activate, BeginNotice, Notify,
     SeeClosed, Leave, TakeGuard, ExpireAnonymous, Publishing, Told
<1>2. /\ state'.activated => state.activated \/ Activate
      /\ state'.bound => state.bound
      /\ state'.opened = state.opened
  BY Typed DEF Loop, TakeResult, Suspend, Answer, Activate, BeginNotice, Notify,
     SeeClosed, Leave, TakeGuard, ExpireAnonymous, Session
<1>3. gate' \in Publishers => gate' = gate
  BY WatchesAssumption DEF Loop, TakeResult, Suspend, Answer, Activate,
     BeginNotice, Notify, SeeClosed, Leave, TakeGuard, ExpireAnonymous,
     Publishing, Publishers
<1>4. last'.kind \in {"event", "snapshot"} => last' = last
  BY DEF Loop, TakeResult, Suspend, Answer, Activate, BeginNotice, Notify,
     SeeClosed, Leave, TakeGuard, ExpireAnonymous, Publishing, Enqueues,
     FailsToEnqueue
<1> QED
  BY <1>1, <1>2, <1>3, <1>4

\* Who takes the gate from outside the loop saw an activated, accepting session,
\* and publishes only while holding the gate.
LEMMA OutsideKeeps ==
    ASSUME TypeInv, Outside
    PROVE  /\ UNCHANGED <<told, issued>>
           /\ gate' \in Publishers =>
                gate' = gate \/ (state.activated /\ state.accepting)
           /\ last' # last =>
                gate \in Publishers /\ ~closed /\ last'.kind # "notice"
           /\ closed => closed'
<1>1. UNCHANGED <<told, issued>> /\ (closed => closed')
  BY DEF Outside, Broadcast, BeginEvent, EndEvent, SeeLag, Snapshot,
     BeginSnapshot, EndSnapshot, CheckFails, Revoke, CloseTransport, Prune,
     Publishing, Enqueues, FailsToEnqueue
<1>2. gate' \in Publishers => gate' = gate \/ (state.activated /\ state.accepting)
  <2>1. "free" \notin Publishers
    BY WatchesAssumption DEF Publishers
  <2> QED
    BY <2>1 DEF Outside, Broadcast, BeginEvent, EndEvent, SeeLag, Snapshot,
       BeginSnapshot, EndSnapshot, CheckFails, Revoke, CloseTransport, Prune,
       Publishing, EventAllowed
<1>3. last' # last => gate \in Publishers /\ ~closed /\ last'.kind # "notice"
  BY DEF Outside, Broadcast, BeginEvent, EndEvent, SeeLag, Snapshot,
     BeginSnapshot, EndSnapshot, CheckFails, Revoke, CloseTransport, Prune,
     Publishing, Enqueues, FailsToEnqueue, Publishers
<1> QED
  BY <1>1, <1>2, <1>3

\* Only a control admitted before the greeting is greeted: its answer comes
\* before the session is activated, and an event needs an activated session.
LEMMA GreetStep == TypeInv /\ GreetInv /\ [Next]_vars => GreetInv'
<1> SUFFICES ASSUME TypeInv, GreetInv, [Next]_vars PROVE GreetInv'
  OBVIOUS
<1>1. CASE Admit
  <2>1. UNCHANGED <<loop, results, state, Publishing>>
    BY <1>1 DEF Admit
  <2>2. PICK asks \in BOOLEAN :
          /\ issued = 0 => asks
          /\ issued > 0 => told.greeted
          /\ lane'.control.no = issued + 1 /\ lane'.control.asks = asks
    BY <1>1 DEF Admit
  <2>3. issued \in Nat
    BY BoundsAssumption DEF TypeInv, TypeOK
  <2>4. Earned(lane'.control)
    BY <2>2, <2>3 DEF Earned
  <2> QED
    BY <2>1, <2>4 DEF GreetInv, Earned, Reported, GreetingFirst, Publishing
<1>2. CASE Lane
  <2>1. \A r \in Reported' : r \in Reported \/ Answers(r, lane.control)
    BY <1>2, LaneReports
  <2>2. /\ lane # LaneIdle /\ (lane' = LaneIdle \/ lane'.control = lane.control)
        /\ state'.activated = state.activated
        /\ UNCHANGED <<loop, Publishing>>
    BY <1>2, LaneKeeps
  <2> QED
    BY <2>1, <2>2 DEF GreetInv, Earned, Answers, GreetingFirst, Publishing
<1>3. CASE Loop \/ TakeGuard \/ ExpireAnonymous
  <2>1. Reported' \subseteq Reported
    BY <1>3, LoopReports
  <2>2. /\ lane' = lane
        /\ state'.activated => state.activated \/ Activate
        /\ told.greeted => told'.greeted
        /\ gate' \in Publishers => gate' = gate
        /\ last'.kind \in {"event", "snapshot"} => last' = last
    BY <1>3, LoopKeeps
  <2>3. loop'.step = "activate" => told'.greeted
    <3>1. CASE TakeResult
      <4>1. PICK r \in results :
              loop'.step = IF ~r.asks THEN "activate"
                           ELSE IF r.outcome = "lifecycle" THEN "suspend"
                           ELSE "answer"
        BY <3>1 DEF TakeResult
      <4>2. ~r.asks => told.greeted
        BY Typed DEF GreetInv, Reported, Earned, Result
      <4> QED
        BY <4>1, <4>2, <2>2
    <3>2. CASE Answer
      <4> DEFINE r == loop.result
      <4>1. r \in Reported /\ r \in Result
        BY <3>2 DEF Answer, TypeInv, LoopHasResult, Reported
      <4>2. Earned(r)
        BY <4>1 DEF GreetInv
      <4>3. SUFFICES ASSUME loop'.step = "activate" PROVE told'.greeted
        OBVIOUS
      <4>4. told' = Told(r) /\ r.outcome # "lifecycle"
            /\ ~(r.no = 1 /\ r.outcome = "error")
        BY <3>2, <4>3, Typed DEF Answer, Breaks, Goto
      <4>5. r.outcome \in {"ok", "error", "lifecycle"}
        BY <4>1 DEF Result, Outcomes
      <4> QED
        BY <4>2, <4>4, <4>5 DEF Earned, Told
    <3>3. CASE ~TakeResult /\ ~Answer
      <4>1. loop'.step # "activate"
        BY <1>3, <3>3, Typed DEF Loop, Suspend, Activate, BeginNotice, Notify,
           SeeClosed, Leave, TakeGuard, ExpireAnonymous, Goto, Breaks, Idling
      <4> QED
        BY <4>1
    <3> QED
      BY <3>1, <3>2, <3>3
  <2>4. Activate => told.greeted
    BY DEF Activate, GreetInv
  <2>5. gate' \in Publishers => state'.activated
    <3>1. state.activated => state'.activated
      BY <1>3, Typed DEF Loop, TakeResult, Suspend, Answer, Activate,
         BeginNotice, Notify, SeeClosed, Leave, TakeGuard, ExpireAnonymous,
         Session
    <3> QED
      BY <2>2, <3>1 DEF GreetInv
  <2> QED
    BY <2>1, <2>2, <2>3, <2>4, <2>5 DEF GreetInv, Earned, GreetingFirst
<1>4. CASE Outside
  <2>1. UNCHANGED <<loop, lane, results, state, told>>
    BY <1>4, OutsideReports, OutsideKeeps
  <2>2. gate' \in Publishers => gate' = gate \/ state.activated
    BY <1>4, OutsideKeeps
  <2>3. last' # last => gate \in Publishers
    BY <1>4, OutsideKeeps
  <2> QED
    BY <2>1, <2>2, <2>3 DEF GreetInv, Earned, Reported, GreetingFirst
<1>5. CASE UNCHANGED vars
  BY <1>5 DEF vars, GreetInv, Earned, Reported, GreetingFirst
<1> QED
  BY <1>1, <1>2, <1>3, <1>4, <1>5, Steps

\* No event is enqueued before the answer to the handshake: events wait for the
\* activation, which follows the answer (enqueue_result, then activate).
THEOREM EventsFollowGreeting == Spec => []GreetingFirst
<1>1. Init => GreetInv
  BY WatchesAssumption DEF Init, GreetInv, Reported, NoResult, Result, Kinds,
     Publishers, GreetingFirst
<1>2. GreetInv => GreetingFirst
  BY DEF GreetInv
<1> QED
  BY <1>1, <1>2, GreetStep, TypeInvariant, PTL DEF Spec

-----------------------------------------------------------------------------
(* Who may bind.                                                            *)

\* While a control is on its way to bind nobody else binds, so a session that it
\* finds open was not activated; and a session that ended is closed.
LEMMA BindStep == TypeInv /\ BindInv /\ [Next]_vars => BindInv'
<1> SUFFICES ASSUME TypeInv, BindInv, [Next]_vars PROVE BindInv'
  OBVIOUS
<1>i. LaneIdle.step = "idle"
  BY DEF LaneIdle
<1>1. CASE Admit
  <2>1. lane'.step = "queued" /\ UNCHANGED <<state, closed>>
    BY <1>1 DEF Admit
  <2> QED
    BY <2>1 DEF BindInv
<1>2. CASE Lane
  <2>1. UNCHANGED closed /\ state'.activated = state.activated /\ lane # LaneIdle
    BY <1>2, LaneKeeps
  <2>2. ASSUME NEW o, NEW g, Replies(o, g),
               state.opened => state'.opened,
               state.bound => state'.bound,
               state'.bound => state.bound \/ state'.opened
        PROVE  BindInv'
    BY <2>1, <2>2, <1>i DEF Replies, BindInv
  <2>3. CASE BindCommits
    BY <2>2, <2>3, Typed DEF BindCommits, Bound, Session
  <2>4. CASE RefuseRepeatedOpen \/ OpenAnonymous \/ RefuseWatch \/ ReplaceWatch
    BY <2>2, <2>4, Typed DEF RefuseRepeatedOpen, OpenAnonymous, RefuseWatch,
       ReplaceWatch, Session
  <2>5. CASE BindRegisters
    <3>1. lane'.step = "commit" /\ lane.step = "register" /\ UNCHANGED state
      BY <2>1, <2>5, Typed, ContinueTypes DEF BindRegisters, LaneAt, LaneSteps
    <3> QED
      BY <2>1, <3>1 DEF BindInv
  <2>6. CASE BindLooks
    <3>1. UNCHANGED state /\ lane.step = "bind"
      BY <2>6 DEF BindLooks, LaneAt
    <3>2. CASE Continues("register")
      <4>1. ~closed /\ lane'.step = "register"
        BY <2>1, <2>6, <3>2, <1>i, Typed, ContinueTypes
           DEF BindLooks, TransportOpen, Replies, LaneSteps
      <4> QED
        BY <2>1, <3>1, <4>1 DEF BindInv
    <3> QED
      BY <2>2, <2>6, <3>1, <3>2 DEF BindLooks
  <2>7. CASE RecordActivity
    <3>1. UNCHANGED state /\ lane.step = "record"
      BY <2>7 DEF RecordActivity, LaneAt
    <3>2. CASE Continues("bind")
      <4>1. lane'.step = "bind"
        BY <2>1, <3>2, Typed, ContinueTypes DEF LaneSteps
      <4> QED
        BY <2>1, <3>1, <4>1 DEF BindInv
    <3> QED
      BY <2>2, <2>7, <3>1, <3>2 DEF RecordActivity
  <2>8. CASE Verify
    <3>1. UNCHANGED state /\ ~state.bound
      BY <2>8 DEF Verify, BindInv
    <3>2. CASE Continues("record")
      <4>1. lane'.step = "record"
        BY <2>1, <3>2, Typed, ContinueTypes DEF LaneSteps
      <4> QED
        BY <2>1, <3>1, <4>1 DEF BindInv
    <3> QED
      BY <2>2, <2>8, <3>1, <3>2 DEF Verify
  <2>9. CASE GuardBound
    <3>1. UNCHANGED state
      BY <2>9 DEF GuardBound
    <3>2. CASE Continues("replace")
      <4>1. lane'.step = "replace"
        BY <2>1, <3>2, Typed, ContinueTypes DEF LaneSteps
      <4> QED
        BY <2>1, <3>1, <4>1 DEF BindInv
    <3> QED
      BY <2>2, <2>9, <3>1, <3>2 DEF GuardBound
  <2> QED
    BY <1>2, <2>3, <2>4, <2>5, <2>6, <2>7, <2>8, <2>9 DEF Lane
<1>3. CASE Loop \/ TakeGuard \/ ExpireAnonymous
  <2>1. /\ lane' = lane /\ state'.opened = state.opened
        /\ state'.activated => state.activated \/ Activate
        /\ state'.bound => state.bound
    BY <1>3, LoopKeeps
  <2>2. CASE Leave
    <3>1. closed' = TRUE /\ state'.activated = state.activated
      BY <2>2, Typed DEF Leave, Session
    <3> QED
      BY <2>1, <3>1 DEF BindInv
  <2>3. CASE ~Leave
    <3>0. closed => closed'
      BY <1>3, <2>3 DEF Loop, TakeResult, Suspend, Answer, Activate,
         BeginNotice, Notify, SeeClosed, TakeGuard, ExpireAnonymous, Enqueues,
         FailsToEnqueue
    <3>1. state'.bound = state.bound
      BY <1>3, <2>3, Typed DEF Loop, TakeResult, Suspend, Answer, Activate,
         BeginNotice, Notify, SeeClosed, TakeGuard, ExpireAnonymous, Session
    <3>2. state'.activated => state.activated \/ state.bound
      BY <2>1, Typed DEF Activate, Session
    <3> QED
      BY <2>1, <3>0, <3>1, <3>2 DEF BindInv
  <2> QED
    BY <2>2, <2>3
<1>4. CASE Outside
  BY <1>4, OutsideReports, OutsideKeeps DEF BindInv
<1>5. CASE UNCHANGED vars
  BY <1>5 DEF vars, BindInv
<1> QED
  BY <1>1, <1>2, <1>3, <1>4, <1>5, Steps

\* A session that was activated is never bound again, not even by a control
\* that outlives its serve loop ("changing accounts requires a new connection").
THEOREM AccountsNeverChange == Spec => NeverRebinds
<1>1. Init => BindInv
  BY DEF Init, BindInv, LaneIdle
<1>2. TypeInv /\ BindInv /\ [Next]_vars
        => [state'.bound /\ ~state.bound => ~state.activated]_vars
  <2> SUFFICES ASSUME TypeInv, BindInv, Next, state'.bound, ~state.bound
               PROVE  ~state.activated
    OBVIOUS
  <2>1. Lane
    <3>1. ~(Loop \/ TakeGuard \/ ExpireAnonymous)
      BY LoopKeeps
    <3>2. ~Outside
      BY OutsideReports
    <3>3. ~Admit
      BY DEF Admit
    <3> QED
      BY <3>1, <3>2, <3>3, Steps
  <2>2. BindCommits
    BY <2>1, Typed DEF Lane, RefuseRepeatedOpen, OpenAnonymous, Verify,
       RecordActivity, BindLooks, BindRegisters, GuardBound, ReplaceWatch,
       RefuseWatch, Session
  <2>3. lane.step = "commit"
    BY <2>2 DEF BindCommits, LaneAt
  <2> QED
    BY <2>3 DEF BindInv
<1> QED
  BY <1>1, <1>2, BindStep, TypeInvariant, PTL DEF Spec, NeverRebinds

-----------------------------------------------------------------------------
(* What follows a lifecycle failure.                                        *)

\* The session stops accepting before the client is told why, and whoever is
\* publishing meanwhile keeps it from doing so.
LEMMA QuietStep == TypeInv /\ QuietInv /\ [Next]_vars => QuietInv'
<1> SUFFICES ASSUME TypeInv, QuietInv, [Next]_vars PROVE QuietInv'
  OBVIOUS
<1>f. {"free", "loop"} \cap Publishers = {}
  BY WatchesAssumption DEF Publishers
<1>1. CASE Admit
  <2>1. UNCHANGED <<loop, state, closed, Publishing>>
    BY <1>1 DEF Admit
  <2> QED
    BY <2>1 DEF QuietInv, Publishing
<1>2. CASE Lane
  <2>1. UNCHANGED <<closed, loop, Publishing>>
    BY <1>2, LaneKeeps
  <2>2. state'.accepting = state.accepting
    BY <1>2, Typed DEF Lane, RefuseRepeatedOpen, OpenAnonymous, Verify,
       RecordActivity, BindLooks, BindRegisters, BindCommits, GuardBound,
       ReplaceWatch, RefuseWatch, Bound, Session
  <2> QED
    BY <2>1, <2>2 DEF QuietInv, Publishing
<1>3. CASE Loop \/ TakeGuard \/ ExpireAnonymous
  <2>1. state'.accepting => state.accepting
    BY <1>3, Typed DEF Loop, TakeResult, Suspend, Answer, Activate, BeginNotice,
       Notify, SeeClosed, Leave, TakeGuard, ExpireAnonymous, Session
  <2>2. told'.refused => ~state'.accepting
    <3>1. told'.refused => told.refused \/ (Answer /\ loop.result.outcome = "lifecycle")
      BY <1>3, Typed DEF Loop, TakeResult, Suspend, Answer, Activate,
         BeginNotice, Notify, SeeClosed, Leave, TakeGuard, ExpireAnonymous,
         Publishing, Told
    <3> QED
      BY <2>1, <3>1 DEF QuietInv, Answer
  <2>3. loop'.step = "answer" /\ loop'.result.outcome = "lifecycle"
            => ~state'.accepting
    <3>1. CASE Suspend
      BY <3>1, Typed DEF Suspend, Session
    <3>2. CASE TakeResult
      BY <3>2 DEF TakeResult
    <3>3. CASE BeginNotice
      BY <2>1, <3>3 DEF BeginNotice, QuietInv
    <3>4. CASE ~Suspend /\ ~TakeResult /\ ~BeginNotice
      <4>1. loop'.step # "answer"
        BY <1>3, <3>4, Typed DEF Loop, Answer, Activate, Notify, SeeClosed,
           Leave, TakeGuard, ExpireAnonymous, Goto, Breaks, Idling
      <4> QED
        BY <4>1
    <3> QED
      BY <3>1, <3>2, <3>3, <3>4
  <2>4. gate' \in Publishers => state'.accepting
    <3>1. gate' \in Publishers => gate' = gate
      BY <1>3, LoopKeeps
    <3>2. Suspend \/ BeginNotice => gate' \notin Publishers
      BY <1>f DEF Suspend, BeginNotice, Publishing
    <3>3. ~Suspend /\ ~BeginNotice => state'.accepting = state.accepting
      BY <1>3, Typed DEF Loop, TakeResult, Answer, Activate, Notify, SeeClosed,
         Leave, TakeGuard, ExpireAnonymous, Session
    <3> QED
      BY <3>1, <3>2, <3>3 DEF QuietInv
  <2>5. last'.kind = "notice" => closed'
    <3>1. last'.kind = "notice" => last' = last \/ Notify
      BY <1>3 DEF Loop, TakeResult, Suspend, Answer, Activate, BeginNotice,
         SeeClosed, Leave, TakeGuard, ExpireAnonymous, Publishing, Enqueues,
         FailsToEnqueue
    <3>2. closed => closed'
      BY <1>3 DEF Loop, TakeResult, Suspend, Answer, Activate, BeginNotice,
         Notify, SeeClosed, Leave, TakeGuard, ExpireAnonymous, Enqueues,
         FailsToEnqueue
    <3>3. Notify => closed'
      BY DEF Notify
    <3> QED
      BY <3>1, <3>2, <3>3 DEF QuietInv
  <2> QED
    BY <2>2, <2>3, <2>4, <2>5 DEF QuietInv
<1>4. CASE Outside
  <2>1. /\ gate' \in Publishers => gate' = gate \/ state.accepting
        /\ last' # last => last'.kind # "notice"
        /\ closed => closed'
        /\ UNCHANGED <<told, loop, state>>
    BY <1>4, OutsideKeeps, OutsideReports
  <2> QED
    BY <2>1 DEF QuietInv
<1>5. CASE UNCHANGED vars
  BY <1>5 DEF vars, QuietInv
<1> QED
  BY <1>1, <1>2, <1>3, <1>4, <1>5, Steps

\* Once the answer that carries a lifecycle failure was sent no event follows,
\* and after the notification nothing does (suspend_authorized_work,
\* handle_lifecycle_failure).
THEOREM SilenceAfterFailure == Spec => QuietAtEnd
<1>1. Init => QuietInv
  BY WatchesAssumption DEF Init, QuietInv, Publishers
<1>2. TypeInv /\ QuietInv /\ [Next]_vars
        => [/\ told.refused => ~Publishes
            /\ last.kind = "notice" => last' = last]_vars
  <2> SUFFICES ASSUME TypeInv, QuietInv, Next, last' # last
               PROVE  /\ told.refused => last'.kind \notin {"event", "snapshot"}
                      /\ last.kind # "notice"
    BY DEF Publishes
  <2>1. CASE Admit \/ Lane
    BY <2>1, LaneKeeps DEF Admit, Publishing
  <2>2. CASE Loop \/ TakeGuard \/ ExpireAnonymous
    <3>1. last'.kind \notin {"event", "snapshot"}
      BY <2>2, LoopKeeps
    <3>2. ~closed
      BY <2>2 DEF Loop, TakeResult, Suspend, Answer, Activate, BeginNotice,
         Notify, SeeClosed, Leave, TakeGuard, ExpireAnonymous, Publishing,
         Enqueues, FailsToEnqueue
    <3> QED
      BY <3>1, <3>2 DEF QuietInv
  <2>3. CASE Outside
    <3>1. gate \in Publishers /\ ~closed
      BY <2>3, OutsideKeeps
    <3> QED
      BY <3>1 DEF QuietInv
  <2> QED
    BY <2>1, <2>2, <2>3, Steps
<1> QED
  BY <1>1, <1>2, QuietStep, TypeInvariant, PTL DEF Spec, QuietAtEnd

-----------------------------------------------------------------------------
(* The generation checks.                                                   *)

\* Activation starts a check; a check ends only by reporting its failure; and
\* the loop that takes the report ends the session.
LEMMA CheckStep == TypeInv /\ CheckInv /\ [Next]_vars => CheckInv'
<1> SUFFICES ASSUME TypeInv, CheckInv, [Next]_vars PROVE CheckInv'
  OBVIOUS
<1>c. checks \in Nat
  BY Typed
<1>1. CASE Admit
  <2>1. UNCHANGED <<loop, state, closed, checks, guard>>
    BY <1>1 DEF Admit
  <2> QED
    BY <2>1 DEF CheckInv
<1>2. CASE Lane
  <2>1. UNCHANGED <<closed, loop, checks>> /\ state'.activated = state.activated
    BY <1>2, LaneKeeps
  <2>2. guard => guard'
    BY <1>2 DEF Lane, RefuseRepeatedOpen, OpenAnonymous, Verify, RecordActivity,
       BindLooks, BindRegisters, BindCommits, GuardBound, ReplaceWatch,
       RefuseWatch, Replies, Continues
  <2> QED
    BY <2>1, <2>2 DEF CheckInv
<1>3. CASE TakeResult \/ Suspend \/ Answer
  <2>1. UNCHANGED <<checks, guard>> /\ (closed => closed')
    BY <1>3 DEF TakeResult, Suspend, Answer, Enqueues, FailsToEnqueue
  <2>2. state'.activated = state.activated
    BY <1>3, Typed DEF TakeResult, Suspend, Answer, Session
  <2>3. loop.step \in {"select", "suspend", "answer", "activate"}
    BY <1>3 DEF TakeResult, Suspend, Answer
  <2> QED
    BY <2>1, <2>2, <2>3 DEF CheckInv
<1>4. CASE Activate
  <2> DEFINE starts == Activates(loop.result) /\ state.bound
  <2>1. closed' = closed /\ guard' = guard /\ loop.step = "activate"
    BY <1>4 DEF Activate
  <2>2. checks' = IF starts THEN checks + 1 ELSE checks
    BY <1>4 DEF Activate, SpawnsCheck
  <2>3. state'.activated => state.activated \/ starts
    <3>1. state' = [state EXCEPT !.activated =
                      @ \/ (Activates(loop.result) /\ state.accepting /\ state.bound)]
      BY <1>4 DEF Activate
    <3> QED
      BY <3>1, Typed DEF Session
  <2> HIDE DEF starts
  <2> QED
    BY <2>1, <2>2, <2>3, <1>c DEF CheckInv
<1>5. CASE BeginNotice \/ Notify \/ SeeClosed \/ Leave \/ TakeGuard \/ ExpireAnonymous
  <2>1. loop'.step \notin {"select", "suspend", "answer", "activate"}
    BY <1>5, Typed DEF BeginNotice, Notify, SeeClosed, Leave, TakeGuard,
       ExpireAnonymous, Goto, Breaks
  <2> QED
    BY <2>1 DEF CheckInv
<1>6. CASE Outside
  <2>1. UNCHANGED <<loop, state>> /\ (closed => closed')
    BY <1>6, OutsideReports, OutsideKeeps
  <2>2. guard' \/ (checks' = checks /\ guard' = guard)
    BY <1>6 DEF Outside, Broadcast, BeginEvent, EndEvent, SeeLag, Snapshot,
       BeginSnapshot, EndSnapshot, CheckFails, Revoke, CloseTransport, Prune
  <2> QED
    BY <2>1, <2>2 DEF CheckInv
<1>7. CASE UNCHANGED vars
  BY <1>7 DEF vars, CheckInv
<1> QED
  BY <1>1, <1>2, <1>3, <1>4, <1>5, <1>6, <1>7, Steps DEF Loop

\* An activated session that goes on has a generation check, or the failure of
\* one on its way (spawn_generation_checks after activate).
THEOREM ChecksNeverLapse == Spec => []ActivatedIsChecked
<1>1. Init => CheckInv
  BY DEF Init, CheckInv
<1>2. CheckInv => ActivatedIsChecked
  BY DEF CheckInv, ActivatedIsChecked
<1> QED
  BY <1>1, <1>2, CheckStep, TypeInvariant, PTL DEF Spec

=============================================================================
