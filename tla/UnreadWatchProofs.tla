-------------------------- MODULE UnreadWatchProofs --------------------------
(***************************************************************************)
(* Proofs about UnreadWatch, for every set of items and every bound.  Two  *)
(* inductive invariants over the typing one: Sched (no change is left      *)
(* without a load to come) and DiffsFit, which is inductive by itself but  *)
(* for HeldInv.                                                            *)
(***************************************************************************)
EXTENDS UnreadWatch, TLAPS

\* A result that is being read, and what the runner works with outside a load.
Loading == runner.pc = "loading" \/ (runner.pc = "checked" /\ ~runner.failed)
Resting == runner.pc \in {"select", "sending"}

\* A load, and what follows from it, is for a watch.
WatchInv ==
    runner.pc \in {"expiry", "loading", "checked", "sending"} =>
        runner.current # NoWatch

TypeInv == TypeOK /\ WatchInv

\* An event waits to be sent only while it is being sent.
HeldInv == runner.pc # "sending" => held = NoEvent

\* Nothing was read when a load starts, everything when it ends.
ReadInv ==
    /\ runner.pc = "expiry" => runner.toRead = Items
    /\ runner.pc = "checked" /\ ~runner.failed => runner.toRead = {}

\* A timer is set no later than the next mute that ends, or a reload is due
\* anyway.
Armed(deadline) ==
    \/ Scheduled(deadline)
    \/ \A m \in Live : Timed # {} => deadline <= m

ArmedInv ==
    InForce =>
        /\ Resting /\ runner.full => Armed(runner.deadline)
        /\ Loading => Armed(runner.expiry)

Sched == ArmedInv /\ StaleIsScheduled

-----------------------------------------------------------------------------
(* Types.                                                                   *)

LEMMA ConstantTypes ==
    /\ NoWatch \in Generations /\ Zero \in [Items -> Contents]
    /\ Never \notin Moments /\ Ends \subseteq Moments /\ Horizon \in Nat
    /\ \A m \in Moments : m \in Nat
BY BoundsAssumption DEF Generations, NoWatch, Zero, Contents, Never, Moments, Ends

LEMMA ContentTypes ==
    ASSUME TypeOK
    PROVE  Live \subseteq Ends /\ \A i \in Items : Content(i) \in Contents
<1>1. Live \subseteq Ends
  BY DEF TypeOK, Live
<1>2. ASSUME NEW i \in Items PROVE Content(i) \in Contents
  BY <1>1 DEF TypeOK, Content, Contents
<1> QED
  BY <1>1, <1>2

LEMMA AppliedTypes ==
    ASSUME NEW c \in Store, NEW e \in Events \cup {NoEvent}
    PROVE  Applied(c, e) \in Store
<1>1. CASE e = NoEvent
  BY <1>1 DEF Applied, NoEvent
<1>2. CASE e \in Events
  BY <1>2 DEF Applied, Events, Store
<1> QED
  BY <1>1, <1>2

LEMMA IdleTypes ==
    ASSUME NEW r \in Locals, NEW pc \in {"select", "checked", "sending", "stopped"}
    PROVE  Idle(pc, r) \in Locals
BY ConstantTypes DEF Idle, Locals

LEMMA InitTypes == Init => TypeInv
<1> SUFFICES ASSUME Init PROVE TypeInv
  OBVIOUS
<1>1. runner \in Locals /\ WatchInv
  BY ConstantTypes DEF Init, Locals, Never, WatchInv
<1>2. client \in Store
  BY ConstantTypes DEF Init, Store
<1>3. version \in [Items -> 0..MaxVersion] /\ now \in Moments
  BY BoundsAssumption DEF Init, Moments
<1>4. issued \in Generations /\ installed \in Generations
  BY ConstantTypes, BoundsAssumption DEF Init, Generations
<1>5. muted \subseteq Ends /\ failures \in 0..MaxFailures /\ owed \in Nat
  BY BoundsAssumption DEF Init
<1>6. TypeOK
  BY <1>1, <1>2, <1>3, <1>4, <1>5 DEF Init, TypeOK
<1> QED
  BY <1>1, <1>6 DEF TypeInv

\* The steps of the world, of the client and of its session.
LEMMA OutsideTypes ==
    ASSUME TypeInv, \/ \E i \in Items : Commit(i)
                    \/ Notify \/ Tick \/ Install \/ Take \/ Forward \/ Close
    PROVE  TypeInv'
<1>0. TypeOK
  BY DEF TypeInv
<1> USE <1>0 DEF World, Signal, Subscription, Output
<1>a. ASSUME runner' = runner PROVE WatchInv'
  BY <1>a DEF TypeInv, WatchInv
<1>1. ASSUME NEW i \in Items, Commit(i) PROVE TypeOK'
  BY <1>1, BoundsAssumption DEF Commit, TypeOK
<1>2. ASSUME Notify PROVE TypeOK'
  BY <1>2 DEF Notify, TypeOK
<1>3. ASSUME Tick PROVE TypeOK'
  BY <1>3, BoundsAssumption DEF Tick, TypeOK, Moments
<1>4. ASSUME Install PROVE TypeOK'
  <2>1. client' \in Store /\ unseen' \in BOOLEAN
    BY <1>4 DEF Install, TypeOK, Store
  <2>2. issued' \in Generations /\ installed' \in Generations
    BY <1>4, BoundsAssumption, ConstantTypes DEF Install, TypeOK, Generations
  <2> QED
    BY <1>4, <2>1, <2>2 DEF Install, TypeOK
<1>5. ASSUME Take PROVE TypeOK'
  BY <1>5 DEF Take, TypeOK
<1>6. ASSUME Forward PROVE TypeOK'
  BY <1>6, AppliedTypes DEF Forward, TypeOK
<1>7. ASSUME Close PROVE TypeOK'
  <2>1. [runner EXCEPT !.current = NoWatch] \in Locals
    BY ConstantTypes DEF TypeOK, Locals
  <2>2. runner' \in Locals
    BY <1>7, <2>1, IdleTypes DEF Close
  <2> QED
    BY <1>7, <2>2 DEF Close, TypeOK
<1>8. WatchInv'
  <2>1. CASE Close
    BY <2>1 DEF Close, Idle, TypeOK, Locals, WatchInv
  <2> QED
    BY <1>a, <2>1 DEF Commit, Notify, Tick, Install, Take, Forward
<1> QED
  BY <1>1, <1>2, <1>3, <1>4, <1>5, <1>6, <1>7, <1>8 DEF TypeInv

\* The steps of the runner.
LEMMA RunnerTypes ==
    ASSUME TypeInv, Run \/ LoadFails
    PROVE  TypeInv'
<1>0. TypeOK /\ WatchInv
  BY DEF TypeInv
<1> USE <1>0 DEF World, Signal, Subscription, Output
<1>1. ASSUME SeeSubscription PROVE TypeOK'
  <2>1. runner' \in Locals
    BY <1>1, ConstantTypes DEF SeeSubscription, TypeOK, Locals
  <2> QED
    BY <1>1, <2>1 DEF SeeSubscription, TypeOK
<1>2. ASSUME SeeChange PROVE TypeOK'
  <2>1. runner' \in Locals
    BY <1>2 DEF SeeChange, TypeOK, Locals
  <2> QED
    BY <1>2, <2>1 DEF SeeChange, TypeOK
<1>3. ASSUME StartLoad PROVE TypeOK'
  <2>1. runner' \in Locals
    BY <1>3 DEF StartLoad, TypeOK, Locals
  <2> QED
    BY <1>3, <2>1 DEF StartLoad, TypeOK
<1>4. ASSUME ReadExpiry PROVE TypeOK'
  <2>1. Earliest \subseteq Moments \cup {Never}
    BY ContentTypes, ConstantTypes DEF Earliest
  <2>2. runner' \in Locals
    BY <1>4, <2>1 DEF ReadExpiry, TypeOK, Locals
  <2> QED
    BY <1>4, <2>2 DEF ReadExpiry, TypeOK
<1>5. ASSUME NEW i \in Items, Read(i) PROVE TypeOK'
  <2>1. runner' \in Locals
    BY <1>5, ContentTypes DEF Read, TypeOK, Locals
  <2> QED
    BY <1>5, <2>1 DEF Read, TypeOK
<1>6. ASSUME LoadFails PROVE TypeOK'
  <2>1. Idle("select", runner) \in Locals /\ Idle("checked", runner) \in Locals
    BY IdleTypes DEF TypeOK
  <2>2. [Idle("checked", runner) EXCEPT !.failed = TRUE] \in Locals
    BY <2>1 DEF Locals
  <2>3. runner' \in Locals
    BY <1>6, <2>1, <2>2 DEF LoadFails
  <2> QED
    BY <1>6, <2>3, BoundsAssumption DEF LoadFails, TypeOK
<1>7. ASSUME LoadEnds PROVE TypeOK'
  <2>1. Idle("select", runner) \in Locals
    BY IdleTypes DEF TypeOK
  <2>2. [runner EXCEPT !.pc = "checked"] \in Locals
    BY DEF TypeOK, Locals
  <2>3. runner' \in Locals
    BY <1>7, <2>1, <2>2 DEF LoadEnds
  <2> QED
    BY <1>7, <2>3 DEF LoadEnds, TypeOK
<1>8. ASSUME Publish PROVE TypeOK'
  <2> DEFINE silent == runner.full /\ Carried = {}
             pc == IF silent THEN "select" ELSE "sending"
             made == [kind |-> IF runner.full THEN "diff" ELSE "full",
                      generation |-> runner.current, items |-> Carried,
                      values |-> [i \in Items |-> IF i \in Carried
                                                  THEN runner.result[i]
                                                  ELSE Zero[i]]]
  <2>1. Idle(pc, runner) \in Locals
    BY IdleTypes DEF TypeOK
  <2>2. runner' \in Locals
    BY <1>8, <2>1 DEF Publish, NextEnd, TypeOK, Locals
  <2>3. made \in Events
    BY <1>8, ConstantTypes DEF Publish, WatchInv, TypeOK, Locals, Events, Carried
  <2>4. held' \in Events \cup {NoEvent}
    BY <1>8, <2>3 DEF Publish
  <2> QED
    BY <1>8, <2>2, <2>4 DEF Publish, TypeOK
<1>9. ASSUME Excuse PROVE TypeOK'
  <2>1. Idle("sending", runner) \in Locals
    BY IdleTypes DEF TypeOK
  <2>2. Retries \subseteq Moments
    BY ConstantTypes DEF Retries, TypeOK, Moments
  <2>3. runner' \in Locals
    BY <1>9, <2>1, <2>2 DEF Excuse, Locals
  <2>4. held' \in Events
    BY <1>9, ConstantTypes DEF Excuse, WatchInv, TypeOK, Locals, Events
  <2> QED
    BY <1>9, <2>3, <2>4 DEF Excuse, TypeOK
<1>10. ASSUME Send PROVE TypeOK'
  <2>1. runner' \in Locals
    BY <1>10 DEF Send, TypeOK, Locals
  <2> QED
    BY <1>10, <2>1 DEF Send, TypeOK
<1>11. WatchInv'
  <2> USE DEF TypeOK, Locals, WatchInv
  <2>1. CASE SeeSubscription \/ SeeChange \/ StartLoad \/ ReadExpiry \/ Send
    BY <2>1 DEF SeeSubscription, SeeChange, StartLoad, Watching, ReadExpiry, Send
  <2>2. CASE \E i \in Items : Read(i)
    BY <2>2 DEF Read
  <2>3. CASE LoadFails \/ LoadEnds
    BY <2>3 DEF LoadFails, LoadEnds, Idle
  <2>4. CASE Publish \/ Excuse
    BY <2>4 DEF Publish, Excuse, Idle
  <2> QED
    BY <2>1, <2>2, <2>3, <2>4 DEF Run
<1> QED
  BY <1>1, <1>2, <1>3, <1>4, <1>5, <1>6, <1>7, <1>8, <1>9, <1>10, <1>11
     DEF Run, TypeInv

LEMMA StutterTypes == ASSUME TypeInv, UNCHANGED vars PROVE TypeInv'
BY DEF TypeInv, TypeOK, WatchInv, vars

LEMMA NextTypes == TypeInv /\ [Next]_vars => TypeInv'
BY OutsideTypes, RunnerTypes, StutterTypes DEF Next, Run

\* The variables of run_with, of the session and of the client's store hold what
\* they are declared to hold (watch.rs 160-240).
THEOREM WatchTypeCorrect == Spec => []TypeOK
<1>1. TypeInv => TypeOK
  BY DEF TypeInv
<1> QED
  BY InitTypes, NextTypes, <1>1, PTL DEF Spec

-----------------------------------------------------------------------------
(* What the runner has seen, read and holds.                                *)

LEMMA ReadStep ==
    ASSUME TypeInv, ReadInv, [Next]_vars
    PROVE  ReadInv'
<1> USE DEF TypeInv, TypeOK, Locals, ReadInv
<1>1. CASE \E i \in Items : Commit(i)
  BY <1>1 DEF Commit
<1>2. CASE Notify
  BY <1>2 DEF Notify
<1>3. CASE Tick
  BY <1>3 DEF Tick
<1>4. CASE Install
  BY <1>4 DEF Install
<1>5. CASE Take
  BY <1>5 DEF Take
<1>6. CASE Forward
  BY <1>6 DEF Forward
<1>7. CASE Close
  BY <1>7 DEF Close, Idle
<1>8. CASE SeeSubscription
  BY <1>8 DEF SeeSubscription
<1>9. CASE SeeChange
  BY <1>9 DEF SeeChange
<1>10. CASE StartLoad
  BY <1>10 DEF StartLoad
<1>11. CASE ReadExpiry
  BY <1>11 DEF ReadExpiry
<1>12. CASE \E i \in Items : Read(i)
  BY <1>12 DEF Read
<1>13. CASE LoadFails
  BY <1>13 DEF LoadFails, Idle
<1>14. CASE LoadEnds
  BY <1>14 DEF LoadEnds, Idle
<1>15. CASE Publish
  BY <1>15 DEF Publish, Idle
<1>16. CASE Excuse
  BY <1>16 DEF Excuse, Idle
<1>17. CASE Send
  BY <1>17 DEF Send
<1>18. CASE UNCHANGED vars
  BY <1>18 DEF vars
<1> QED
  BY <1>1, <1>2, <1>3, <1>4, <1>5, <1>6, <1>7, <1>8, <1>9, <1>10, <1>11, <1>12, <1>13, <1>14, <1>15, <1>16, <1>17, <1>18
     DEF Next

LEMMA HeldStep ==
    ASSUME TypeInv, HeldInv, [Next]_vars
    PROVE  HeldInv'
<1> USE DEF TypeInv, TypeOK, Locals, HeldInv, Output
<1>1. CASE \E i \in Items : Commit(i)
  BY <1>1 DEF Commit
<1>2. CASE Notify
  BY <1>2 DEF Notify
<1>3. CASE Tick
  BY <1>3 DEF Tick
<1>4. CASE Install
  BY <1>4 DEF Install
<1>5. CASE Take
  BY <1>5 DEF Take
<1>6. CASE Forward
  BY <1>6 DEF Forward
<1>7. CASE Close
  BY <1>7 DEF Close, Idle
<1>8. CASE SeeSubscription
  BY <1>8 DEF SeeSubscription
<1>9. CASE SeeChange
  BY <1>9 DEF SeeChange
<1>10. CASE StartLoad
  BY <1>10 DEF StartLoad
<1>11. CASE ReadExpiry
  BY <1>11 DEF ReadExpiry
<1>12. CASE \E i \in Items : Read(i)
  BY <1>12 DEF Read
<1>13. CASE LoadFails
  BY <1>13 DEF LoadFails, Idle
<1>14. CASE LoadEnds
  BY <1>14 DEF LoadEnds, Idle
<1>15. CASE Publish
  BY <1>15 DEF Publish, Idle
<1>16. CASE Excuse
  BY <1>16 DEF Excuse, Idle
<1>17. CASE Send
  BY <1>17 DEF Send
<1>18. CASE UNCHANGED vars
  BY <1>18 DEF vars
<1> QED
  BY <1>1, <1>2, <1>3, <1>4, <1>5, <1>6, <1>7, <1>8, <1>9, <1>10, <1>11, <1>12, <1>13, <1>14, <1>15, <1>16, <1>17, <1>18
     DEF Next


-----------------------------------------------------------------------------
(* A change is never left without a load to come.                           *)

LEMMA InitBase == Init => ReadInv /\ HeldInv
BY DEF Init, ReadInv, HeldInv

LEMMA InitSched == Init => Sched /\ DiffsFit
<1>1. Init => ~InForce
  BY DEF Init, InForce
<1> QED
  BY <1>1 DEF Sched, ArmedInv, StaleIsScheduled, DiffsFit

\* What a reload is due for stays due; before it is due, only the end of a
\* mute that the timer waits for changes a content.
LEMMA WorldKeeps ==
    ASSUME TypeOK, \/ \E i \in Items : Commit(i)
                   \/ Notify \/ Tick
    PROVE  \A d \in Moments \cup {Never} : Armed(d) =>
              /\ \/ owed' > 0 \/ permit' \/ d <= now'
                 \/ \A m \in Live' : Timed # {} => d <= m
              /\ \A i \in Items : \/ owed' > 0 \/ permit' \/ d <= now'
                                  \/ ~Scheduled(d) /\ Content(i)' = Content(i)
<1> SUFFICES ASSUME NEW d \in Moments \cup {Never}, Armed(d)
    PROVE  /\ \/ owed' > 0 \/ permit' \/ d <= now'
              \/ \A m \in Live' : Timed # {} => d <= m
           /\ \A i \in Items : \/ owed' > 0 \/ permit' \/ d <= now'
                               \/ ~Scheduled(d) /\ Content(i)' = Content(i)
  OBVIOUS
<1>1. CASE \E i \in Items : Commit(i)
  <2>1. owed' > 0
    BY <1>1 DEF Commit, TypeOK
  <2> QED
    BY <2>1
<1>2. CASE Notify
  BY <1>2 DEF Notify
<1>3. CASE Tick
  <2>1. now' = now + 1 /\ owed' = owed /\ permit' = permit /\ version' = version
        /\ muted' = muted
    BY <1>3 DEF Tick, Signal
  <2>2. d \in Int /\ now \in Int
    BY ConstantTypes DEF TypeOK, Never
  <2>3. CASE Scheduled(d)
    BY <2>1, <2>2, <2>3 DEF Scheduled
  <2>4. CASE ~Scheduled(d) /\ d <= now + 1
    BY <2>1, <2>4
  <2>5. CASE ~Scheduled(d) /\ ~(d <= now + 1)
    <3>1. \A m \in Live : Timed # {} => d <= m
      BY <2>5 DEF Armed
    <3>2. Live \subseteq Int
      BY ContentTypes, ConstantTypes
    <3>3. Timed # {} => now + 1 \notin Live
      BY <3>1, <2>5
    <3>4. Live' = Live \ {now + 1}
      <4>1. muted \subseteq Int
        BY ConstantTypes DEF TypeOK
      <4>2. \A m \in muted : m > now + 1 <=> m > now /\ m # now + 1
        BY <4>1, <2>2
      <4>3. Live' = {m \in muted : m > now + 1}
        BY <2>1 DEF Live
      <4> QED
        BY <4>2, <4>3 DEF Live
    <3>5. \A i \in Items : Content(i)' = Content(i)
      BY <2>1, <3>3, <3>4 DEF Content
    <3> QED
      BY <2>5, <3>1, <3>4, <3>5
  <2> QED
    BY <2>3, <2>4, <2>5
<1> QED
  BY <1>1, <1>2, <1>3

\* A step that leaves the world alone and does not take a permit.
LEMMA SameWorld ==
    ASSUME UNCHANGED <<World, Signal>>
    PROVE  /\ Live' = Live /\ owed' = owed /\ permit' = permit /\ now' = now
           /\ \A i \in Items : Content(i)' = Content(i)
<1>1. UNCHANGED <<version, muted, now, owed, permit>>
  BY DEF World, Signal
<1>2. Live' = Live
  BY <1>1 DEF Live
<1> QED
  BY <1>1, <1>2 DEF Content

LEMMA OutsideSched ==
    ASSUME TypeInv, Sched, \/ \E i \in Items : Commit(i)
                           \/ Notify \/ Tick
    PROVE  Sched'
<1>1. /\ runner' = runner /\ open' = open /\ unseen' = unseen
      /\ installed' = installed
  BY DEF Commit, Notify, Tick, Subscription
<1>2. InForce' <=> InForce
  BY <1>1 DEF InForce
<1>3. (Loading' <=> Loading) /\ (Resting' <=> Resting)
  BY <1>1 DEF Loading, Resting
<1>4. runner.deadline \in Moments \cup {Never} /\ runner.expiry \in Moments \cup {Never}
  BY DEF TypeInv, TypeOK, Locals
<1> DEFINE After(d) == owed' > 0 \/ permit' \/ d <= now'
           Fits(d) == /\ After(d) \/ \A m \in Live' : Timed # {} => d <= m
                      /\ \A i \in Items : After(d) \/ (~Scheduled(d)
                                                   /\ Content(i)' = Content(i))
<1>5. \A d \in Moments \cup {Never} : Armed(d) => Fits(d)
  BY WorldKeeps DEF TypeInv
<1>6. CASE InForce
  <2>1. Resting /\ runner.full =>
          /\ Fits(runner.deadline)
          /\ \A i \in Items : runner.published[i] # Content(i)
                                => Scheduled(runner.deadline)
    BY <1>4, <1>5, <1>6 DEF Sched, ArmedInv, StaleIsScheduled, Resting
  <2>2. Loading =>
          /\ Fits(runner.expiry)
          /\ \A i \in Items \ runner.toRead : runner.result[i] # Content(i)
                                => Scheduled(runner.expiry)
    BY <1>4, <1>5, <1>6 DEF Sched, ArmedInv, StaleIsScheduled, Loading
  <2>3. ArmedInv'
    BY <1>1, <1>3, <2>1, <2>2 DEF ArmedInv, Armed, Scheduled
  <2>4. Resting /\ ~runner.full => runner.deadline # Never
    BY <1>6 DEF Sched, StaleIsScheduled, Resting
  <2>5. Resting /\ runner.full =>
          \A i \in Items : runner.published[i] # Content(i)' => After(runner.deadline)
    BY <2>1
  <2>6. Loading =>
          \A i \in Items \ runner.toRead :
              runner.result[i] # Content(i)' => After(runner.expiry)
    BY <2>2
  <2>7. StaleIsScheduled'
    BY <1>1, <2>4, <2>5, <2>6 DEF StaleIsScheduled, Scheduled, Resting, Loading, Never
  <2> QED
    BY <2>3, <2>7 DEF Sched
<1> QED
  BY <1>2, <1>6 DEF Sched, ArmedInv, StaleIsScheduled

\* The runner's steps, those of its neighbours, and steps that do nothing.
LEMMA RunnerSched ==
    ASSUME TypeInv, ReadInv, Sched,
           \/ Install \/ Take \/ Forward \/ Close \/ LoadFails \/ Run
           \/ UNCHANGED vars
    PROVE  Sched'
<1>0. TypeOK /\ runner \in Locals
  BY DEF TypeInv, TypeOK
<1> USE DEF Sched
<1>1. CASE Install \/ Close
  <2>1. ~InForce'
    BY <1>1 DEF Install, Close, InForce
  <2> QED
    BY <2>1 DEF ArmedInv, StaleIsScheduled
<1>2. CASE Take \/ Forward \/ UNCHANGED vars
  <2>1. UNCHANGED <<World, Signal, runner, open, unseen, installed>>
    BY <1>2 DEF Take, Forward, vars, World, Signal, Subscription
  <2>2. (InForce' <=> InForce) /\ (Loading' <=> Loading) /\ (Resting' <=> Resting)
    BY <2>1 DEF InForce, Loading, Resting
  <2>3. ArmedInv'
    BY <2>1, <2>2, SameWorld DEF ArmedInv, Armed, Scheduled
  <2> QED
    BY <2>1, <2>2, <2>3, SameWorld DEF StaleIsScheduled, Scheduled
<1>3. CASE SeeSubscription
  <2>1. runner'.pc = "select" /\ ~runner'.full
    BY <1>0, <1>3 DEF SeeSubscription, Locals
  <2>2. InForce' => runner'.deadline = now
    BY <1>0, <1>3 DEF SeeSubscription, Locals, InForce
  <2>3. now # Never
    BY <1>0, ConstantTypes DEF TypeOK
  <2> QED
    BY <2>1, <2>2, <2>3 DEF ArmedInv, StaleIsScheduled, Resting, Loading
<1>4. CASE SeeChange
  <2>1. runner'.pc = "select" /\ runner'.deadline <= now /\ now' = now
    BY <1>0, <1>4, ConstantTypes DEF SeeChange, Locals, World, TypeOK
  <2>2. runner'.deadline # Never
    BY <1>0, <2>1, ConstantTypes DEF TypeOK, Never, Moments
  <2> QED
    BY <2>1, <2>2 DEF ArmedInv, StaleIsScheduled, Resting, Loading, Armed, Scheduled
<1>5. CASE StartLoad
  <2>1. runner'.pc = "expiry"
    BY <1>0, <1>5 DEF StartLoad, Locals
  <2> QED
    BY <2>1 DEF ArmedInv, StaleIsScheduled, Resting, Loading
<1>6. CASE ReadExpiry
  <2>1. /\ runner'.pc = "loading" /\ runner'.toRead = Items
        /\ runner'.expiry \in Earliest
    BY <1>0, <1>6 DEF ReadExpiry, Locals, ReadInv
  <2>2. \A m \in Live' : Timed # {} => runner'.expiry <= m
    BY <1>6, <2>1, SameWorld DEF ReadExpiry, Earliest
  <2> QED
    BY <2>1, <2>2 DEF ArmedInv, StaleIsScheduled, Resting, Loading, Armed
<1>7. ASSUME NEW i \in Items, Read(i) PROVE Sched'
  <2>1. /\ runner.pc = "loading" /\ runner'.pc = "loading"
        /\ runner'.expiry = runner.expiry /\ runner'.current = runner.current
        /\ runner'.toRead = runner.toRead \ {i}
        /\ \A j \in Items : runner'.result[j] =
                IF j = i THEN Content(i) ELSE runner.result[j]
    BY <1>0, <1>7 DEF Read, Locals
  <2>2. UNCHANGED <<World, Signal>> /\ (InForce' <=> InForce)
    BY <1>7, <2>1 DEF Read, Subscription, InForce
  <2>3. ArmedInv'
    BY <2>1, <2>2, SameWorld DEF ArmedInv, Armed, Scheduled, Resting, Loading
  <2>4. InForce => \A j \in Items \ runner'.toRead :
                      runner'.result[j] # Content(j) => Scheduled(runner.expiry)
    BY <2>1 DEF StaleIsScheduled
  <2> QED
    BY <2>1, <2>2, <2>3, <2>4, SameWorld DEF StaleIsScheduled, Scheduled
<1>8. CASE LoadFails
  <2>1. InForce' => runner'.pc = "checked" /\ runner'.failed
    BY <1>0, <1>8 DEF LoadFails, Idle, Locals, Subscription, InForce
  <2> QED
    BY <2>1 DEF ArmedInv, StaleIsScheduled, Resting, Loading
<1>9. CASE LoadEnds
  <2>1. InForce' =>
          /\ InForce /\ runner.pc = "loading" /\ runner'.pc = "checked"
          /\ runner'.toRead = runner.toRead /\ runner'.expiry = runner.expiry
          /\ runner'.result = runner.result
    BY <1>0, <1>9 DEF LoadEnds, Locals, Subscription, InForce
  <2>2. UNCHANGED <<World, Signal>>
    BY <1>9 DEF LoadEnds
  <2>3. ArmedInv'
    BY <2>1, <2>2, SameWorld DEF ArmedInv, Armed, Scheduled, Resting, Loading
  <2> QED
    BY <2>1, <2>2, <2>3, SameWorld DEF StaleIsScheduled, Scheduled
<1>10. CASE Publish
  <2>1. /\ runner.pc = "checked" /\ ~runner.failed /\ runner.toRead = {}
        /\ runner'.pc \in {"select", "sending"} /\ runner'.full
        /\ runner'.deadline = runner.expiry /\ runner'.published = runner.result
        /\ runner'.current = runner.current
    BY <1>0, <1>10 DEF Publish, NextEnd, Idle, Locals, ReadInv
  <2>2. UNCHANGED <<World, Signal>> /\ (InForce' <=> InForce)
    BY <1>10, <2>1 DEF Publish, Subscription, InForce
  <2>3. ArmedInv'
    BY <2>1, <2>2, SameWorld DEF ArmedInv, Armed, Scheduled, Resting, Loading
  <2> QED
    BY <2>1, <2>2, <2>3, SameWorld DEF StaleIsScheduled, Scheduled
<1>11. CASE Excuse
  <2>1. Never \notin Retries
    BY <1>0, ConstantTypes DEF Retries, TypeOK, Moments, Never
  <2>2. runner'.pc = "sending" /\ ~runner'.full /\ runner'.deadline # Never
    BY <1>0, <1>11, <2>1 DEF Excuse, Idle, Locals
  <2> QED
    BY <2>2 DEF ArmedInv, StaleIsScheduled, Resting, Loading
<1>12. CASE Send
  <2>1. /\ runner.pc = "sending" /\ runner'.pc = "select"
        /\ runner'.full = runner.full /\ runner'.deadline = runner.deadline
        /\ runner'.published = runner.published
        /\ runner'.current = runner.current
    BY <1>0, <1>12 DEF Send, Locals
  <2>2. UNCHANGED <<World, Signal>> /\ (InForce' <=> InForce)
    BY <1>12, <2>1 DEF Send, Subscription, InForce
  <2>3. ArmedInv'
    BY <2>1, <2>2, SameWorld DEF ArmedInv, Armed, Scheduled, Resting, Loading
  <2> QED
    BY <2>1, <2>2, <2>3, SameWorld DEF StaleIsScheduled, Scheduled
<1> QED
  BY <1>1, <1>2, <1>3, <1>4, <1>5, <1>6, <1>7, <1>8, <1>9, <1>10, <1>11, <1>12
     DEF Run

\* Whatever a load can have missed has another load to come: a notification that
\* is owed or stored, or a timer that fires no later than the mute that ends.
\* The select! of run_with and the order of load_snapshot (watch.rs 160-268).
THEOREM NoChangeForgotten == Spec => []StaleIsScheduled
<1>1. TypeInv /\ ReadInv /\ Sched /\ [Next]_vars => Sched'
  BY OutsideSched, RunnerSched DEF Next, Run
<1>2. Init => ReadInv /\ Sched
  BY InitBase, InitSched
<1>3. Sched => StaleIsScheduled
  BY DEF Sched
<1> QED
  BY <1>1, <1>2, <1>3, InitTypes, NextTypes, ReadStep, PTL DEF Spec

-----------------------------------------------------------------------------
(* What is published fits what the client shows.                            *)

\* Steps that leave the runner's base and everything on the way alone.
LEMMA SameBase ==
    ASSUME DiffsFit, UNCHANGED <<open, installed, unseen, Output, client>>,
           runner'.current = runner.current, runner'.full = runner.full,
           runner'.published = runner.published
    PROVE  DiffsFit'
<1>1. UNCHANGED <<held, channel, taken>>
  BY DEF Output
<1>2. (InForce' <=> InForce) /\ Arrived' = Arrived
  BY <1>1 DEF InForce, Arrived, Relevant
<1> QED
  BY <1>2 DEF DiffsFit

LEMMA FitStep ==
    ASSUME TypeInv, HeldInv, DiffsFit, [Next]_vars
    PROVE  DiffsFit'
<1>0. TypeOK /\ runner \in Locals
  BY DEF TypeInv, TypeOK
<1>1. CASE (\E i \in Items : Commit(i)) \/ Notify \/ Tick \/ UNCHANGED vars
  BY <1>1, SameBase DEF Commit, Notify, Tick, vars, Subscription, Output
<1>2. CASE Install \/ Close
  <2>1. ~InForce'
    BY <1>2 DEF Install, Close, InForce
  <2> QED
    BY <2>1 DEF DiffsFit
<1>3. CASE Take
  <2>1. UNCHANGED <<open, installed, unseen, runner, client, held>>
        /\ taken = NoEvent /\ taken' = channel /\ channel' = NoEvent
    BY <1>3 DEF Take, Subscription
  <2>2. \A c : Applied(c, NoEvent) = c
    BY DEF Applied, NoEvent
  <2>3. Arrived' = Arrived /\ (InForce' <=> InForce)
    BY <2>1, <2>2 DEF Arrived, Relevant, InForce
  <2> QED
    BY <2>1, <2>3 DEF DiffsFit
<1>4. CASE Forward
  <2>1. UNCHANGED <<open, installed, unseen, runner, channel, held>>
        /\ taken # NoEvent /\ taken' = NoEvent
        /\ client' = IF IsCurrent(taken) THEN Applied(client, taken) ELSE client
    BY <1>4 DEF Forward, Subscription
  <2>2. \A c : Applied(c, NoEvent) = c
    BY DEF Applied, NoEvent
  <2>3. client' = Applied(client, Relevant(taken))
    BY <2>1, <2>2 DEF Relevant, IsCurrent
  <2>4. Arrived' = Arrived /\ (InForce' <=> InForce)
    BY <2>1, <2>2, <2>3 DEF Arrived, Relevant, InForce
  <2> QED
    BY <2>1, <2>4 DEF DiffsFit
<1>5. CASE SeeSubscription \/ Excuse
  <2>1. ~runner'.full
    BY <1>0, <1>5 DEF SeeSubscription, Excuse, Idle, Locals
  <2> QED
    BY <2>1 DEF DiffsFit
<1>6. CASE SeeChange \/ StartLoad \/ ReadExpiry \/ \E i \in Items : Read(i)
  <2>1. UNCHANGED <<open, installed, unseen, Output, client>>
    BY <1>6 DEF SeeChange, StartLoad, ReadExpiry, Read, Subscription
  <2>2. /\ runner'.current = runner.current /\ runner'.full = runner.full
        /\ runner'.published = runner.published
    BY <1>0, <1>6 DEF SeeChange, StartLoad, ReadExpiry, Read, Locals
  <2> QED
    BY <2>1, <2>2, SameBase
<1>7. CASE LoadFails \/ LoadEnds
  <2>1. UNCHANGED <<open, installed, unseen, Output, client>>
    BY <1>7 DEF LoadFails, LoadEnds, Subscription
  <2>2. /\ runner'.current = runner.current /\ runner'.full = runner.full
        /\ runner'.published = runner.published
    BY <1>0, <1>7 DEF LoadFails, LoadEnds, Idle, Locals
  <2> QED
    BY <2>1, <2>2, SameBase
<1>8. CASE Publish
  <2>1. UNCHANGED <<open, installed, unseen, channel, taken, client>>
        /\ held = NoEvent
    BY <1>8 DEF Publish, Subscription, HeldInv
  <2>2. /\ runner'.full /\ runner'.published = runner.result
        /\ runner'.current = runner.current
    BY <1>0, <1>8 DEF Publish, Idle, Locals
  <2>3. SUFFICES ASSUME InForce'
                 PROVE  Arrived' = [based |-> TRUE, error |-> FALSE,
                                    shown |-> runner.result]
    BY <2>2 DEF DiffsFit
  <2>4. InForce /\ runner.current = installed
    BY <2>1, <2>2, <2>3 DEF InForce
  <2> DEFINE on == Applied(Applied(client, Relevant(taken)), Relevant(channel))
  <2>5. on \in Store
    <3>1. \A e \in Events \cup {NoEvent} : Relevant(e) \in Events \cup {NoEvent}
      BY DEF Relevant
    <3>2. Applied(client, Relevant(taken)) \in Store
      BY <1>0, <3>1, AppliedTypes DEF TypeOK
    <3> QED
      BY <1>0, <3>1, <3>2, AppliedTypes DEF TypeOK
  <2>6. Arrived = on
    BY <2>1 DEF Arrived, Relevant, Applied, NoEvent
  <2>7. Arrived' = Applied(on, IF held' # NoEvent /\ held'.generation = installed
                               THEN held' ELSE NoEvent)
    BY <2>1 DEF Arrived, Relevant
  <2> HIDE DEF on
  <2>8. runner.full => on = [based |-> TRUE, error |-> FALSE,
                             shown |-> runner.published]
    BY <2>4, <2>6 DEF DiffsFit
  <2>9. runner.result \in [Items -> Contents] /\ runner.published \in [Items -> Contents]
    BY <1>0 DEF Locals
  <2>10. CASE runner.full /\ Carried = {}
    <3>1. held' = NoEvent
      BY <1>8, <2>10 DEF Publish
    <3>2. Arrived' = on
      BY <2>7, <3>1 DEF Applied, NoEvent
    <3>3. runner.published = runner.result
      BY <2>9, <2>10 DEF Carried
    <3> QED
      BY <2>8, <2>10, <3>2, <3>3
  <2>11. CASE ~(runner.full /\ Carried = {})
    <3>1. held' = [kind |-> IF runner.full THEN "diff" ELSE "full",
                   generation |-> runner.current, items |-> Carried,
                   values |-> [i \in Items |-> IF i \in Carried
                                               THEN runner.result[i]
                                               ELSE Zero[i]]]
      BY <1>8, <2>11 DEF Publish
    <3>2. held' # NoEvent /\ held'.generation = installed
          /\ held'.kind = (IF runner.full THEN "diff" ELSE "full")
          /\ held'.items = Carried
          /\ \A i \in Carried : held'.values[i] = runner.result[i]
      BY <2>4, <3>1 DEF NoEvent, Carried
    <3>3. Arrived' = Applied(on, held')
      BY <2>7, <3>2
    <3>4. runner.full => on.based
      BY <2>8
    <3>5. Arrived' = [based |-> TRUE, error |-> FALSE,
                      shown |-> [i \in Items |-> IF i \in Carried
                                                 THEN held'.values[i]
                                                 ELSE on.shown[i]]]
      BY <3>2, <3>3, <3>4 DEF Applied
    <3>6. \A i \in Items : (IF i \in Carried THEN held'.values[i] ELSE on.shown[i])
                             = runner.result[i]
      BY <2>8, <3>2 DEF Carried
    <3>7. [i \in Items |-> IF i \in Carried THEN held'.values[i] ELSE on.shown[i]]
            = runner.result
      BY <2>9, <3>6
    <3> QED
      BY <3>5, <3>7
  <2> QED
    BY <2>10, <2>11
<1>9. CASE Send
  <2>1. UNCHANGED <<open, installed, unseen, client, taken>>
        /\ channel = NoEvent /\ channel' = held /\ held' = NoEvent
    BY <1>9 DEF Send, HasRoom, Subscription
  <2>2. /\ runner'.current = runner.current /\ runner'.full = runner.full
        /\ runner'.published = runner.published
    BY <1>0, <1>9 DEF Send, Locals
  <2>3. \A c : Applied(c, NoEvent) = c
    BY DEF Applied, NoEvent
  <2>4. Arrived' = Arrived /\ (InForce' <=> InForce)
    BY <2>1, <2>2, <2>3 DEF Arrived, Relevant, InForce
  <2> QED
    BY <2>2, <2>4 DEF DiffsFit
<1> QED
  BY <1>1, <1>2, <1>3, <1>4, <1>5, <1>6, <1>7, <1>8, <1>9 DEF Next

\* The client's counters, once what is under way has arrived, are those the
\* runner takes for published: whatever is discarded, fails or waits for room,
\* a partial payload never reaches a client that lacks its base, and no error
\* outlives the next success (Published::update, watch.rs 60-90, 165-205).
THEOREM PartialPayloadsFit == Spec => []DiffsFit
BY InitBase, InitSched, InitTypes, NextTypes, HeldStep, FitStep, PTL DEF Spec
=============================================================================
