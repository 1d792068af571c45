---------------------------- MODULE UnreadCache ----------------------------
(***************************************************************************)
(* The process-wide unread counter cache (services/unread/service.rs) and  *)
(* the database triggers that number the visible content of every chat     *)
(* (migration add_chat_unread_revisions).                                  *)
(*                                                                         *)
(* A session is one pooled database connection and the request running on  *)
(* it.  It may open a transaction, write messages, and ask for the unread  *)
(* counts of a set of cursors, inside the transaction or outside it.  A    *)
(* cursor names a chat, the last message the user read and whether the     *)
(* user hides membership messages.  Counts are cached under the pair       *)
(* <<cursor, revision>>: the revision is what makes a late reader harmless.*)
(*                                                                         *)
(* PostgreSQL itself is external: READ COMMITTED statements read one       *)
(* snapshot, row locks last until the end of the transaction, and sequence *)
(* values are never handed out twice nor rolled back.                      *)
(***************************************************************************)
EXTENDS Integers, FiniteSets

CONSTANTS
    Sessions,       \* pooled connections
    Chats,
    Messages,       \* message ids, ordered as the code's snowflake ids are
    ChatOf,         \* the chat of each message
    Membership,     \* the messages that hide_membership_messages hides
    Cursors,        \* the cursors callers ask for
    MaxUnread,      \* MAX_UNREAD_COUNT
    NoRevision,     \* the chat has no chat_unread_revisions row
    MaxSequence,    \* bound on the revision sequence
    MaxFlights      \* bound on the evictions of a single-flight lock

ASSUME MessagesAssumption == Messages \subseteq Int /\ IsFiniteSet(Messages)
ASSUME ChatOfAssumption == ChatOf \in [Messages -> Chats]
ASSUME CursorsAssumption ==
    Cursors \subseteq [chat : Chats, after : Int, hide : BOOLEAN]
ASSUME NoRevisionAssumption == NoRevision \notin Nat
ASSUME BoundsAssumption ==
    MaxUnread \in Nat /\ MaxSequence \in Nat /\ MaxFlights \in Nat

VARIABLES
    rows,       \* committed publication status of every message
    revision,   \* committed chat_unread_revisions
    sequence,   \* last value of chat_unread_revision_sequence
    tx,         \* per session: its open transaction
    cache,      \* the moka cache: a set of [cursor, revision, count]
    flight,     \* the current single-flight lock of every cursor
    call,       \* per session: the count it is computing
    history,    \* ghost: every <<chat, revision, visible messages>> committed
    possible    \* ghost: per session, the counts that were true since its call began

vars == <<rows, revision, sequence, tx, cache, flight, call, history, possible>>

-----------------------------------------------------------------------------
(* Messages and what counts.                                               *)

\* "uncounted" is an unpublished audio message or a reply in a thread: neither
\* counts in the main scope of its chat.
Status == {"absent", "uncounted", "visible", "deleted"}

\* Insertions, publication by the transcoder, soft deletion, and edits that
\* change nothing the counters look at.
Follows(old, new) ==
    \/ old = "absent" /\ new \in {"uncounted", "visible"}
    \/ old = "uncounted" /\ new = "visible"
    \/ old # "absent" /\ new \in {old, "deleted"}

Revision == Nat \cup {NoRevision}

Visible(view, c) == {m \in Messages : ChatOf[m] = c /\ view[m] = "visible"}

\* LIMIT MAX_UNREAD_COUNT over the messages behind the cursor.
Count(cursor, visible) ==
    LET unread == {m \in visible : /\ m > cursor.after
                                   /\ ~(cursor.hide /\ m \in Membership)}
    IN  IF Cardinality(unread) > MaxUnread THEN MaxUnread ELSE Cardinality(unread)

-----------------------------------------------------------------------------
(* Sessions.                                                               *)

NoTx == [open |-> FALSE, written |-> {}, rows |-> [m \in Messages |-> "absent"],
         bumped |-> {}, revision |-> [c \in Chats |-> 0]]

\* A single-flight lock: the Arc handed out for a one-cursor call.
NoFlight == [cursors |-> {}, arc |-> 0]

NoCall == [pc |-> "idle", asked |-> {}, missing |-> {},
           revision |-> [c \in Chats |-> NoRevision],
           fetched |-> {}, answers |-> {}, token |-> NoFlight]

\* What a statement of session s reads: the committed rows under its own writes.
View(s) == [m \in Messages |-> IF m \in tx[s].written THEN tx[s].rows[m] ELSE rows[m]]

\* The session's thread is not inside count_chat_unread_cursors.
Free(s) == call[s].pc = "idle"

\* The true answer to every cursor in q, for a session that reads view.
Truth(view, q) == {[cursor |-> k, count |-> Count(k, Visible(view, k.chat))] : k \in q}

Init ==
    /\ rows = [m \in Messages |-> "absent"]
    /\ revision \in [Chats -> {NoRevision, 0}]     \* migrated chats start at 0
    /\ sequence = 0
    /\ tx = [s \in Sessions |-> NoTx]
    /\ cache = {}
    /\ flight = [k \in Cursors |-> 0]
    /\ call = [s \in Sessions |-> NoCall]
    /\ history = {[chat |-> c, revision |-> 0, visible |-> {}] :
                    c \in {d \in Chats : revision[d] = 0}}
    /\ possible = [s \in Sessions |-> {}]

-----------------------------------------------------------------------------
(* Transactions and the triggers.                                          *)

Begin(s) ==
    /\ Free(s) /\ ~tx[s].open
    /\ tx' = [tx EXCEPT ![s].open = TRUE]
    /\ UNCHANGED <<rows, revision, sequence, cache, flight, call, history, possible>>

\* Mutant: the trigger overlooks the deletion of a visible message.
AffectsUnlessDeleted(old, new) == old # "visible" /\ new = "visible"

\* The trigger's WHERE clause: the change is one the main-scope counter sees.
Affects(old, new) == old # new /\ "visible" \in {old, new}

\* A row written by an open transaction stays locked until it ends.
RowFree(s, m) == \A t \in Sessions \ {s} : m \notin tx[t].written

\* ON CONFLICT DO UPDATE locks the revision row before it takes nextval.
RevisionFree(s, c) == \A t \in Sessions \ {s} : c \notin tx[t].bumped

SetRow(t, m, new) ==
    [t EXCEPT !.written = @ \cup {m}, !.rows = [@ EXCEPT ![m] = new]]

Bump(t, c, n) ==
    [t EXCEPT !.bumped = @ \cup {c}, !.revision = [@ EXCEPT ![c] = n]]

\* One INSERT or UPDATE statement on messages with its AFTER trigger.  An
\* insertion into an absent revision row and an update of a present one both
\* leave a value that the sequence handed out under the row lock.  A second
\* bump of the same chat in one transaction overwrites the first.
Write(s, m, new) ==
    LET old == View(s)[m]
        c   == ChatOf[m]
    IN  /\ Free(s) /\ tx[s].open
        /\ Follows(old, new)
        /\ RowFree(s, m)
        /\ IF Affects(old, new)
           THEN /\ RevisionFree(s, c)
                /\ sequence < MaxSequence
                /\ sequence' = sequence + 1
                /\ tx' = [tx EXCEPT ![s] = Bump(SetRow(@, m, new), c, sequence + 1)]
           ELSE /\ tx' = [tx EXCEPT ![s] = SetRow(@, m, new)]
                /\ UNCHANGED sequence
        /\ UNCHANGED <<rows, revision, cache, flight, call, history, possible>>

\* Every call that is running may from now on answer what has just become true.
Commit(s) ==
    /\ Free(s) /\ tx[s].open
    /\ rows' = View(s)
    /\ revision' = [c \in Chats |-> IF c \in tx[s].bumped THEN tx[s].revision[c]
                                                       ELSE revision[c]]
    /\ history' = history \cup {[chat |-> c, revision |-> tx[s].revision[c],
                                 visible |-> Visible(View(s), c)] : c \in tx[s].bumped}
    /\ tx' = [tx EXCEPT ![s] = NoTx]
    /\ possible' = [t \in Sessions |->
                      IF Free(t) THEN possible[t]
                      ELSE possible[t] \cup Truth(View(t)', call[t].asked)]
    /\ UNCHANGED <<sequence, cache, flight, call>>

Rollback(s) ==
    /\ Free(s) /\ tx[s].open
    /\ tx' = [tx EXCEPT ![s] = NoTx]
    /\ UNCHANGED <<rows, revision, sequence, cache, flight, call, history, possible>>

-----------------------------------------------------------------------------
(* count_chat_unread_cursors.                                              *)

\* Inside a transaction nothing is looked up and nothing is published.  A
\* single cursor outside one fetches the current lock of its flight, if the
\* bounded lock table still has it, or a fresh one.
Ask(s, q) ==
    /\ Free(s)
    /\ call' = [call EXCEPT ![s] =
                  [NoCall EXCEPT
                     !.asked = q,
                     !.missing = IF tx[s].open THEN q ELSE {},
                     !.pc = IF tx[s].open THEN "count"
                            ELSE IF Cardinality(q) = 1 THEN "enter" ELSE "revisions",
                     !.token = IF ~tx[s].open /\ Cardinality(q) = 1
                               THEN [cursors |-> q, arc |-> flight[CHOOSE k \in q : TRUE]]
                               ELSE NoFlight]]
    /\ possible' = [possible EXCEPT ![s] = Truth(View(s), q)]
    /\ UNCHANGED <<rows, revision, sequence, tx, cache, flight, history>>

Holds(s, token) == ~Free(s) /\ call[s].pc # "enter" /\ call[s].token = token

EnterFlight(s) ==
    /\ call[s].pc = "enter"
    /\ \A t \in Sessions \ {s} : ~Holds(t, call[s].token)
    /\ call' = [call EXCEPT ![s].pc = "revisions"]
    /\ UNCHANGED <<rows, revision, sequence, tx, cache, flight, history, possible>>

\* The first statement: the committed revisions of the chats asked for.
ReadRevisions(s) ==
    /\ call[s].pc = "revisions"
    /\ call' = [call EXCEPT ![s].revision = revision, ![s].pc = "lookup"]
    /\ UNCHANGED <<rows, revision, sequence, tx, cache, flight, history, possible>>

\* Mutant: entries are looked up by cursor alone.
HitsOfAnyRevision(s) == {e \in cache : e.cursor \in call[s].asked}

Hits(s) ==
    {e \in cache : e.cursor \in call[s].asked
                   /\ e.revision = call[s].revision[e.cursor.chat]}

\* Mutant: one hit ends the call, the other cursors are not counted.
LookUpFirstHit(s) ==
    /\ call[s].pc = "lookup"
    /\ call' = [call EXCEPT
                  ![s].answers = {[cursor |-> e.cursor, count |-> e.count] : e \in Hits(s)},
                  ![s].missing = IF Hits(s) = {} THEN call[s].asked ELSE {},
                  ![s].pc = "count"]
    /\ UNCHANGED <<rows, revision, sequence, tx, cache, flight, history, possible>>

LookUp(s) ==
    /\ call[s].pc = "lookup"
    /\ call' = [call EXCEPT
                  ![s].answers = {[cursor |-> e.cursor, count |-> e.count] : e \in Hits(s)},
                  ![s].missing = call[s].asked \ {e.cursor : e \in Hits(s)},
                  ![s].pc = "count"]
    /\ UNCHANGED <<rows, revision, sequence, tx, cache, flight, history, possible>>

\* The misses that hide membership messages are counted by one statement,
\* then the others by another.
Batch(s) ==
    LET hidden == {k \in call[s].missing : k.hide}
    IN  IF hidden = {} THEN call[s].missing ELSE hidden

\* Mutant: the count is stored under the revision read by the first statement.
CountUnderOldRevision(s) ==
    /\ call[s].pc = "count" /\ call[s].missing # {}
    /\ call' = [call EXCEPT
                  ![s].fetched =
                     {[cursor |-> k, count |-> Count(k, Visible(View(s), k.chat)),
                       revision |-> call[s].revision[k.chat]] : k \in Batch(s)},
                  ![s].pc = "publish"]
    /\ UNCHANGED <<rows, revision, sequence, tx, cache, flight, history, possible>>

\* One statement, one snapshot: counts and revisions together.  A session
\* whose transaction has written sees no revision at all.
CountMisses(s) ==
    /\ call[s].pc = "count" /\ call[s].missing # {}
    /\ call' = [call EXCEPT
                  ![s].fetched =
                     {[cursor |-> k, count |-> Count(k, Visible(View(s), k.chat)),
                       revision |-> IF tx[s].open /\ tx[s].written # {} THEN NoRevision
                                    ELSE revision[k.chat]] : k \in Batch(s)},
                  ![s].pc = "publish"]
    /\ UNCHANGED <<rows, revision, sequence, tx, cache, flight, history, possible>>

\* The rows that carry a revision enter the cache, outside transactions only.
Published(s) ==
    IF tx[s].open THEN {} ELSE {e \in call[s].fetched : e.revision # NoRevision}

Publish(s) ==
    /\ call[s].pc = "publish"
    /\ cache' = {e \in cache : \A f \in Published(s) :
                                 <<e.cursor, e.revision>> # <<f.cursor, f.revision>>}
                \cup Published(s)
    /\ call' = [call EXCEPT
                  ![s].answers = @ \cup {[cursor |-> e.cursor, count |-> e.count] :
                                            e \in call[s].fetched},
                  ![s].missing = @ \ Batch(s),
                  ![s].fetched = {},
                  ![s].pc = "count"]
    /\ UNCHANGED <<rows, revision, sequence, tx, flight, history, possible>>

Answered(s) == call[s].pc = "count" /\ call[s].missing = {}

\* The counts go back to the caller and the flight guard is dropped.
Return(s) ==
    /\ Answered(s)
    /\ call' = [call EXCEPT ![s] = NoCall]
    /\ possible' = [possible EXCEPT ![s] = {}]
    /\ UNCHANGED <<rows, revision, sequence, tx, cache, flight, history>>

\* A statement fails: the guard is dropped, the caller gets the error, and a
\* transaction it happened in can only be rolled back.
Fail(s) ==
    /\ call[s].pc \in {"revisions", "count"}
    /\ call' = [call EXCEPT ![s] = NoCall]
    /\ tx' = [tx EXCEPT ![s] = NoTx]
    /\ possible' = [possible EXCEPT ![s] = {}]
    /\ UNCHANGED <<rows, revision, sequence, cache, flight, history>>

\* Moka evicts what does not fit, a lock that is held included.
EvictCount(e) ==
    /\ cache' = cache \ {e}
    /\ UNCHANGED <<rows, revision, sequence, tx, flight, call, history, possible>>

EvictFlight(k) ==
    /\ flight[k] < MaxFlights
    /\ flight' = [flight EXCEPT ![k] = @ + 1]
    /\ UNCHANGED <<rows, revision, sequence, tx, cache, call, history, possible>>

Next ==
    \/ \E s \in Sessions :
        \/ Begin(s) \/ Commit(s) \/ Rollback(s)
        \/ \E m \in Messages, new \in Status : Write(s, m, new)
        \/ \E q \in (SUBSET Cursors) \ {{}} : Ask(s, q)
        \/ EnterFlight(s) \/ ReadRevisions(s) \/ LookUp(s)
        \/ CountMisses(s) \/ Publish(s) \/ Return(s) \/ Fail(s)
    \/ \E e \in cache : EvictCount(e)
    \/ \E k \in Cursors : EvictFlight(k)

Spec == Init /\ [][Next]_vars

-----------------------------------------------------------------------------
(* What makes the cache correct.                                           *)

Answer == [cursor : Cursors, count : Nat]
Entry  == [cursor : Cursors, count : Nat, revision : Revision]

Transaction ==
    [open : BOOLEAN, written : SUBSET Messages, rows : [Messages -> Status],
     bumped : SUBSET Chats, revision : [Chats -> Nat]]

Call ==
    [pc : {"idle", "enter", "revisions", "lookup", "count", "publish"},
     asked : SUBSET Cursors, missing : SUBSET Cursors, revision : [Chats -> Revision],
     fetched : SUBSET Entry, answers : SUBSET Answer,
     token : [cursors : SUBSET Cursors, arc : Nat]]

\* Every variable has its type; what is cached has a revision.
TypeOK ==
    /\ rows \in [Messages -> Status]
    /\ revision \in [Chats -> Revision]
    /\ sequence \in Nat
    /\ tx \in [Sessions -> Transaction]
    /\ cache \subseteq {e \in Entry : e.revision \in Nat}
    /\ flight \in [Cursors -> Nat]
    /\ call \in [Sessions -> Call]
    /\ history \subseteq [chat : Chats, revision : Nat, visible : SUBSET Messages]
    /\ possible \in [Sessions -> SUBSET Answer]

\* Every cached count is the count of the content that was committed under the
\* entry's revision: nothing read inside a transaction, read under one revision
\* and stored under another, or rolled back ever reaches the cache
\* (service.rs: count and revision come from one statement).
Coherent(e) ==
    \E h \in history : /\ h.chat = e.cursor.chat /\ h.revision = e.revision
                       /\ e.count = Count(e.cursor, h.visible)

CacheCoherent == \A e \in cache : Coherent(e)

\* Every count a call has collected was true at some moment between the call's
\* beginning and now, whether it came from the cache or from a statement; inside
\* a transaction "true" includes the session's own uncommitted writes.
AnswersWereTrue == \A s \in Sessions : call[s].answers \subseteq possible[s]

\* A call that returns answers every cursor it was asked for, and each only once.
AnswersComplete ==
    \A s \in Sessions : Answered(s) =>
        \A k \in call[s].asked : \E a \in call[s].answers :
            /\ a.cursor = k
            /\ \A b \in call[s].answers : b.cursor = k => b = a

\* A commit that changes what the counter of a chat can see moves that chat to a
\* strictly larger revision; no commit moves a revision back or reuses one
\* (the trigger takes nextval under the revision row's lock).
RevisionsAdvance ==
    [][\A c \in Chats :
        /\ Visible(rows, c)' # Visible(rows, c) => revision'[c] # revision[c]
        /\ revision'[c] # revision[c] =>
              /\ revision'[c] \in Nat
              /\ revision[c] # NoRevision => revision'[c] > revision[c]]_vars

-----------------------------------------------------------------------------
(* The inductive invariant behind CacheCoherent, AnswersWereTrue and       *)
(* RevisionsAdvance.                                                       *)

Known(c, n, visible) == [chat |-> c, revision |-> n, visible |-> visible] \in history

\* A revision names one content of its chat, and the current one is recorded.
HistoryInv ==
    /\ \A g, h \in history :
         g.chat = h.chat /\ g.revision = h.revision => g.visible = h.visible
    /\ \A c \in Chats : revision[c] \in Nat => Known(c, revision[c], Visible(rows, c))

\* An open transaction owns the rows it wrote and the revisions it drew, which
\* are newer than every committed one; a chat it did not bump looks the same.
TxInvOf(s) ==
    /\ ~tx[s].open => tx[s].written = {} /\ tx[s].bumped = {}
    /\ \A c \in tx[s].bumped :
         /\ tx[s].revision[c] <= sequence
         /\ \A h \in history : h.chat = c => h.revision < tx[s].revision[c]
    /\ \A m \in tx[s].written :
         ChatOf[m] \notin tx[s].bumped => (tx[s].rows[m] = "visible" <=> rows[m] = "visible")

TxInv ==
    /\ \A s, t \in Sessions : s # t =>
         /\ tx[s].written \cap tx[t].written = {}
         /\ tx[s].bumped \cap tx[t].bumped = {}
    /\ \A s \in Sessions : TxInvOf(s)
    /\ \A h \in history : h.revision <= sequence

\* What a call has learnt so far is coherent and was true.
CallInvOf(s) ==
    /\ call[s].pc \in {"enter", "revisions", "lookup"} => ~tx[s].open
    /\ Free(s) => call[s] = NoCall
    /\ call[s].missing \subseteq call[s].asked
    /\ ~Free(s) => Truth(View(s), call[s].asked) \subseteq possible[s]
    /\ call[s].pc = "lookup" =>
         \A k \in call[s].asked : call[s].revision[k.chat] \in Nat =>
            \E h \in history :
               /\ h.chat = k.chat /\ h.revision = call[s].revision[k.chat]
               /\ [cursor |-> k, count |-> Count(k, h.visible)] \in possible[s]
    /\ \A e \in call[s].fetched :
         /\ e.revision # NoRevision => Coherent(e)
         /\ [cursor |-> e.cursor, count |-> e.count] \in possible[s]

CallInv == \A s \in Sessions : CallInvOf(s)

CacheInv == HistoryInv /\ TxInv /\ CallInv /\ CacheCoherent /\ AnswersWereTrue

=============================================================================
