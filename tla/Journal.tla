------------------------------- MODULE Journal -------------------------------
(***************************************************************************)
(* The session's journal (fux-server/src/journal.rs): a ring of the last   *)
(* Kept events, each numbered, read by clients as finite batches from a    *)
(* cursor.  A change of the session pushes its events inside a transaction *)
(* (Session::transact); one that fails is rolled back and its entries let  *)
(* go, though what they evicted from the ring is gone.                     *)
(*                                                                         *)
(* The server is one thread: no read is answered while a transaction is    *)
(* open (mark # None).  A definition called a mutant is no part of the     *)
(* model: it is a bug the properties below it would catch.                 *)
(***************************************************************************)
EXTENDS Integers, Sequences, FiniteSets

CONSTANTS
    Kept,       \* how many entries the ring keeps (JournalEntries, at least 1)
    SeqMax,     \* the largest sequence number: u64::MAX in the code
    Places,     \* the panes, tabs, workspaces and clients events name
    All,        \* the scope that reads every event (Scope::All)
    Readers,    \* the clients that read the journal
    None        \* no transaction open

ASSUME KeptAssumption == Kept \in Nat \ {0}
ASSUME SeqMaxAssumption == SeqMax \in Nat
ASSUME ScopeAssumption == All \notin Places
ASSUME NoneAssumption == None \notin Nat

VARIABLES
    entries,    \* Journal::entries: the ring, oldest first
    next,       \* Journal::next: the number the next entry is given
    exhausted,  \* Journal::exhausted: no number is left
    mark,       \* Undo::journal: `next` as the open transaction began, or None
    before,     \* Undo::structure: the places there were then
    open,       \* the places that exist (Session::holder, Session::views)
    stopped,    \* the run's Stopped entry is pushed (Server::stop)
    reader,     \* each client's read: where it is, its scope and cursor
    heard,      \* history: the entries each client was given
    missed,     \* history: the missed counts each client was told, summed
    log         \* history: every event pushed and not rolled back, in order

vars == <<entries, next, exhausted, mark, before, open, stopped, reader, heard,
          missed, log>>

Scopes == Places \union {All}
Events == [names : SUBSET Places, closes : SUBSET Places, stops : BOOLEAN]
Entries == [seq : 0..SeqMax, event : Events]
States == {"idle", "waiting", "gone", "stopped", "failed"}

-----------------------------------------------------------------------------
(* The ring.                                                               *)

\* The ring once `event` is recorded: the oldest goes first if it is full.
Recorded(event) ==
    LET kept == IF Len(entries) = Kept THEN Tail(entries) ELSE entries
    IN  Append(kept, [seq |-> next, event |-> event])

\* Mutant of Record: the last number is spent too, and none is left for `next`.
RecordPastTheLast(event) ==
    IF next <= SeqMax
    THEN /\ entries' = Recorded(event)
         /\ next' = next + 1
         /\ log' = Append(log, event)
         /\ UNCHANGED exhausted
    ELSE /\ exhausted' = TRUE
         /\ UNCHANGED <<entries, next, log>>

\* Journal::record: with no number left nothing is recorded, ever again.
Record(event) ==
    IF next < SeqMax
    THEN /\ entries' = Recorded(event)
         /\ next' = next + 1
         /\ log' = Append(log, event)
         /\ UNCHANGED exhausted
    ELSE /\ exhausted' = TRUE
         /\ UNCHANGED <<entries, next, log>>

\* Journal::truncate: the entries from `m` on are let go, from the back, and
\* so are their numbers.  What they evicted is gone.
Before(m) ==
    CHOOSE k \in 0..Len(entries) :
        /\ k = 0 \/ entries[k].seq < m
        /\ \A i \in k + 1..Len(entries) : entries[i].seq >= m

\* Mutant of Truncate: the numbers let go are not given again.
TruncateKeepingNumbers(m) ==
    /\ entries' = SubSeq(entries, 1, Before(m))
    /\ UNCHANGED next

Truncate(m) ==
    /\ entries' = SubSeq(entries, 1, Before(m))
    /\ next' = IF m < next THEN m ELSE next

\* What happens to places, and to the server, is journaled by an event that
\* names them; one that closes them ends what reads their scope.
News(names) == [names |-> names, closes |-> {}, stops |-> FALSE]
Closed(place) == [names |-> {place}, closes |-> {place}, stops |-> FALSE]
Stopped == [names |-> {}, closes |-> {}, stops |-> TRUE]

-----------------------------------------------------------------------------
(* What a reader takes of it.                                              *)

\* Reader::wants: the stop is every reader's.
Wants(scope, event) == event.stops \/ scope = All \/ scope \in event.names

\* Mutant of Ends: whatever names its scope is taken for its close.
EndsAsNamed(scope, event) == event.stops \/ scope \in event.names

\* Reader::ends: its scope's close, or the stop.
Ends(scope, event) == event.stops \/ scope \in event.closes

Exists(scope) == scope = All \/ scope \in open

\* Mutant of Batch: missed entries are counted up to the first one scanned, so
\* not at all when the ring holds none.
BatchFromTheFirst(scope, from) ==
    LET ahead  == {i \in DOMAIN entries : entries[i].seq >= from}
        ending == {i \in ahead : Ends(scope, entries[i].event)}
        read   == {i \in ahead : \A j \in ending : i <= j}
        last   == {entries[i] : i \in read \intersect ending}
        to == IF last = {} THEN next ELSE (CHOOSE e \in last : TRUE).seq + 1
    IN  [events |-> {entries[i] : i \in {j \in read : Wants(scope, entries[j].event)}},
         missed |-> IF read = {} THEN 0
                    ELSE Cardinality(from..next - 1) - Cardinality(ahead),
         next   |-> to,
         status |-> IF last # {}
                    THEN IF \E e \in last : e.event.stops THEN "stopped" ELSE "gone"
                    ELSE IF Exists(scope) THEN "idle" ELSE "gone"]

\* Reader::batch from cursor `from`: every entry scanned up to the journal's
\* end or to the first that ends it, the numbers with no entry among them
\* counted as missed.
Batch(scope, from) ==
    LET ahead  == {i \in DOMAIN entries : entries[i].seq >= from}
        ending == {i \in ahead : Ends(scope, entries[i].event)}
        read   == {i \in ahead : \A j \in ending : i <= j}
        last   == {entries[i] : i \in read \intersect ending}
        scanned == {entries[i] : i \in read}
        to == IF last = {} THEN next ELSE (CHOOSE e \in last : TRUE).seq + 1
    IN  [events |-> {entry \in scanned : Wants(scope, entry.event)},
         missed |-> Cardinality((from..to - 1) \ {entry.seq : entry \in scanned}),
         next   |-> to,
         status |-> IF last # {}
                    THEN IF \E e \in last : e.event.stops THEN "stopped" ELSE "gone"
                    ELSE IF Exists(scope) THEN "idle" ELSE "gone"]

\* Mutant of Quiet: a read at the end is left waiting, its scope there or not.
QuietAtTheEnd(scope, from) == from = next

\* Read::answer: whether a read at `from` has nothing to look at yet; and
\* whether a batch of it is no answer before its deadline.
Quiet(scope, from) == from = next /\ Exists(scope)
Empty(batch) == batch.events = {} /\ batch.missed = 0 /\ batch.status = "idle"

-----------------------------------------------------------------------------
Init ==
    /\ entries = <<>>
    /\ next = 0
    /\ exhausted = FALSE
    /\ mark = None
    /\ before = Places
    /\ open = Places
    /\ stopped = FALSE
    /\ reader \in [Readers -> [state : {"idle"}, scope : Scopes,
                               since : {None}, next : {0}]]
    /\ heard = [r \in Readers |-> {}]
    /\ missed = [r \in Readers |-> 0]
    /\ log = <<>>

\* Session::transact begins a change.
Begin ==
    /\ mark = None
    /\ ~stopped
    /\ mark' = next
    /\ before' = open
    /\ UNCHANGED <<entries, next, exhausted, open, stopped, reader, heard,
                   missed, log>>

\* Something happens at `names`: Journal::push, in a change or told by a pane.
PushNews(names) ==
    /\ ~stopped
    /\ names \subseteq open
    /\ Record(News(names))
    /\ UNCHANGED <<mark, before, open, stopped, reader, heard, missed>>

\* `place` closes, which its event says as it goes.
PushClosed(place) ==
    /\ ~stopped
    /\ place \in open
    /\ Record(Closed(place))
    /\ open' = open \ {place}
    /\ UNCHANGED <<mark, before, stopped, reader, heard, missed>>

\* The change is recorded: transact's commit.
Commit ==
    /\ mark # None
    /\ mark' = None
    /\ UNCHANGED <<entries, next, exhausted, before, open, stopped, reader,
                   heard, missed, log>>

\* The change could not be recorded: Session::roll_back, as though never made.
RollBack ==
    /\ mark # None
    /\ Truncate(mark)
    /\ log' = SubSeq(log, 1, mark)
    /\ open' = before
    /\ mark' = None
    /\ UNCHANGED <<exhausted, before, stopped, reader, heard, missed>>

\* A client asks for events (Reader::new): first from any cursor this run
\* gave (one past the end is refused; with none, the end), then from where
\* its last answer left it.  An exhausted journal refuses it.
Ask(r, from) ==
    /\ mark = None
    /\ ~stopped
    /\ reader[r].state = "idle"
    /\ from <= next
    /\ reader[r].since # None => from = reader[r].next
    /\ reader' = [reader EXCEPT
                     ![r].state = IF exhausted THEN "failed" ELSE "waiting",
                     ![r].since = IF @ = None THEN from ELSE @,
                     ![r].next = from]
    /\ UNCHANGED <<entries, next, exhausted, mark, before, open, stopped,
                   heard, missed, log>>

\* A waiting read is asked for its answer, its deadline past if `late`
\* (Server::answer_waits, Read::answer).  One that reads nothing it wants
\* moves its cursor on and waits.
Answered(r, late) ==
    LET scope == reader[r].scope
        batch == Batch(scope, reader[r].next)
        answers == late \/ ~Empty(batch)
    IN  /\ reader[r].state = "waiting"
        /\ IF exhausted
           THEN /\ reader' = [reader EXCEPT ![r].state = "failed"]
                /\ UNCHANGED <<heard, missed>>
           ELSE /\ late \/ ~Quiet(scope, reader[r].next)
                /\ reader' = [reader EXCEPT
                                 ![r].state = IF answers THEN batch.status ELSE @,
                                 ![r].next = batch.next]
                /\ heard' = [heard EXCEPT ![r] = @ \union batch.events]
                /\ missed' = [missed EXCEPT ![r] = @ + batch.missed]

\* Mutant of AnswerWait: a read is answered while a change is open.
AnswerInTheMiddle(r, late) ==
    /\ Answered(r, late)
    /\ UNCHANGED <<entries, next, exhausted, mark, before, open, stopped, log>>

AnswerWait(r, late) ==
    /\ mark = None
    /\ Answered(r, late)
    /\ UNCHANGED <<entries, next, exhausted, mark, before, open, stopped, log>>

\* Server::stop: the run's last entry, which ends every pending read.
Stop ==
    /\ mark = None
    /\ ~stopped
    /\ stopped' = TRUE
    /\ Record(Stopped)
    /\ UNCHANGED <<mark, before, open, reader, heard, missed>>

Next ==
    \/ Begin \/ Commit \/ RollBack \/ Stop
    \/ \E names \in SUBSET Places : PushNews(names)
    \/ \E place \in Places : PushClosed(place)
    \/ \E r \in Readers, from \in 0..SeqMax : Ask(r, from)
    \/ \E r \in Readers, late \in BOOLEAN : AnswerWait(r, late)

\* A change ends, and the server asks every wait for its answer each turn;
\* no deadline need ever pass.
Fairness ==
    /\ WF_vars(Commit \/ RollBack)
    /\ \A r \in Readers : SF_vars(AnswerWait(r, FALSE))

Spec == Init /\ [][Next]_vars /\ Fairness

-----------------------------------------------------------------------------
TypeOK ==
    /\ entries \in Seq(Entries)
    /\ next \in 0..SeqMax
    /\ exhausted \in BOOLEAN
    /\ mark \in 0..SeqMax \union {None}
    /\ before \subseteq Places
    /\ open \subseteq Places
    /\ stopped \in BOOLEAN
    /\ reader \in [Readers -> [state : States, scope : Scopes,
                               since : 0..SeqMax \union {None}, next : 0..SeqMax]]
    /\ heard \in [Readers -> SUBSET Entries]
    /\ missed \in [Readers -> Nat]
    /\ log \in Seq(Events)

\* The ring is the tail of what was pushed: at most Kept entries, numbered
\* consecutively up to the journal's end, each the event pushed at its
\* number, however many changes were rolled back.  Reader::batch's
\* partition_point and Journal::first read the ring as though it were.
RingIsLogTail ==
    /\ Len(entries) <= Kept
    /\ Len(entries) <= next
    /\ next = Len(log)
    /\ \A i \in DOMAIN entries :
          /\ entries[i].seq = next - Len(entries) + i - 1
          /\ entries[i].event = log[entries[i].seq + 1]

\* No reader holds a cursor or an event of a change that is undone: what a
\* client was given stays what happened, at the number it was given.
NothingUndoneIsRead ==
    \A r \in Readers :
        /\ reader[r].next <= (IF mark = None THEN next ELSE mark)
        /\ \A entry \in heard[r] :
              /\ entry.seq < reader[r].next
              /\ entry.event = log[entry.seq + 1]

\* A reader told its scope is gone is told so once it is, never while it is
\* there or because of a change undone since; and one told the server
\* stopped read the stop itself.
GoneIsGone ==
    \A r \in Readers :
        /\ reader[r].state = "gone" =>
              reader[r].scope \notin (IF mark = None THEN open ELSE before)
        /\ reader[r].state = "stopped" => \E entry \in heard[r] : entry.event.stops

\* A read of something that closed, or of a server that stopped, is answered
\* with no deadline's help: no client waits on what can tell it no more.
Over(r) == stopped \/ (mark = None /\ ~Exists(reader[r].scope))

EndedReadsAnswered ==
    \A r \in Readers :
        (reader[r].state = "waiting" /\ Over(r)) ~> (reader[r].state # "waiting")

\* The journal keeps the promise it makes its readers (EventFeed), the open
\* transaction being no part of what happened until it is committed.
Feed ==
    INSTANCE EventFeed WITH
        Wanted <- Wants,
        scope <- [r \in Readers |-> reader[r].scope],
        record <- IF mark = None THEN log ELSE SubSeq(log, 1, mark),
        at <- [r \in Readers |->
                  IF reader[r].since = None THEN -1 ELSE reader[r].next],
        given <- [r \in Readers |-> {entry.seq + 1 : entry \in heard[r]}],
        owned <- missed

KeepsItsPromise == Feed!Spec

=============================================================================
