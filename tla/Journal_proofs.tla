---------------------------- MODULE Journal_proofs ----------------------------
(* Proofs of Journal's safety, for every ring, place and reader.           *)
EXTENDS Journal, SequenceTheorems, FiniteSetTheorems, TLAPS

\* An open change began where the journal is now or before.
MarkIsPast == mark # None => mark <= next

\* A reader that never asked reads nothing and was given nothing.
NewReadersAreIdle ==
    \A r \in Readers :
        reader[r].since = None => heard[r] = {} /\ reader[r].state = "idle"

\* The inductive invariant.  A ring that is the journal's tail is what makes
\* the numbers it holds, and so every cursor a batch leaves, fit their type
\* and lie below `next`; and what bounds a reader's cursor by `mark` is what
\* lets a change be undone beneath it.
IInv ==
    /\ TypeOK
    /\ RingIsLogTail
    /\ MarkIsPast
    /\ NothingUndoneIsRead
    /\ NewReadersAreIdle

USE KeptAssumption, SeqMaxAssumption, ScopeAssumption, NoneAssumption

-----------------------------------------------------------------------------
(* What recording an event, or undoing a change, does to the ring.         *)

\* What is on the log stays there, whatever is recorded after it.
LogGrows == \A i \in 1..Len(log) : i <= Len(log') /\ log'[i] = log[i]

\* What the model pushes are events.
LEMMA EventTypes ==
    /\ \A names \in SUBSET Places : News(names) \in Events
    /\ \A place \in Places : Closed(place) \in Events
    /\ Stopped \in Events
BY DEF News, Closed, Stopped, Events

\* Journal::record leaves the ring the log's tail, and the log a prefix of
\* the new one.
LEMMA RecordKeepsTail ==
    ASSUME TypeOK, RingIsLogTail, NEW event \in Events, Record(event)
    PROVE  /\ entries' \in Seq(Entries)
           /\ next' \in 0..SeqMax
           /\ next <= next'
           /\ exhausted' \in BOOLEAN
           /\ log' \in Seq(Events)
           /\ RingIsLogTail'
           /\ LogGrows
<1>1. CASE next < SeqMax
  <2> DEFINE kept == IF Len(entries) = Kept THEN Tail(entries) ELSE entries
             new == [seq |-> next, event |-> event]
  <2>1. /\ entries' = Append(kept, new)
        /\ next' = next + 1
        /\ log' = Append(log, event)
        /\ exhausted' = exhausted
    BY <1>1 DEF Record, Recorded
  <2>2. /\ entries \in Seq(Entries) /\ log \in Seq(Events)
        /\ next \in 0..SeqMax /\ exhausted \in BOOLEAN
    BY DEF TypeOK
  <2>3. Len(entries) \in Nat
    BY <2>2, LenProperties
  <2>4. new \in Entries
    BY <2>2 DEF Entries
  <2>5. /\ kept \in Seq(Entries)
        /\ Len(kept) = (IF Len(entries) = Kept THEN Len(entries) - 1 ELSE Len(entries))
        /\ \A i \in 1..Len(kept) :
              kept[i] = entries[IF Len(entries) = Kept THEN i + 1 ELSE i]
    <3>1. CASE Len(entries) = Kept
      <4>1. entries # <<>>
        BY <3>1, EmptySeq
      <4> QED
        BY <2>2, <3>1, <4>1, HeadTailProperties
    <3>2. CASE Len(entries) # Kept
      BY <2>2, <3>2
    <3> QED
      BY <3>1, <3>2
  <2> HIDE DEF kept, new
  <2>6. /\ entries' \in Seq(Entries)
        /\ Len(entries') = Len(kept) + 1
        /\ \A i \in 1..Len(kept) : entries'[i] = kept[i]
        /\ entries'[Len(kept) + 1] = new
    BY <2>1, <2>4, <2>5, AppendProperties
  <2>7. /\ log' \in Seq(Events)
        /\ Len(log') = Len(log) + 1
        /\ \A i \in 1..Len(log) : log'[i] = log[i]
        /\ log'[Len(log) + 1] = event
    BY <2>1, <2>2, AppendProperties
  <2>8. /\ Len(entries) <= Kept /\ Len(entries) <= next /\ next = Len(log)
        /\ \A i \in DOMAIN entries :
              /\ entries[i].seq = next - Len(entries) + i - 1
              /\ entries[i].event = log[entries[i].seq + 1]
    BY DEF RingIsLogTail
  <2>9. RingIsLogTail'
    <3>1. /\ Len(entries') <= Kept
          /\ Len(entries') <= next'
          /\ next' = Len(log')
      BY <2>1, <2>2, <2>3, <2>5, <2>6, <2>7, <2>8
    <3>2. ASSUME NEW i \in DOMAIN entries'
          PROVE  /\ entries'[i].seq = next' - Len(entries') + i - 1
                 /\ entries'[i].event = log'[entries'[i].seq + 1]
      <4>1. i \in 1..Len(kept) + 1
        BY <2>6, LenProperties
      <4>2. CASE i = Len(kept) + 1
        <5>1. entries'[i] = new
          BY <4>2, <2>6
        <5>2. entries'[i].seq = next /\ entries'[i].event = event
          BY <5>1 DEF new
        <5>3. next = next' - Len(entries') + i - 1
          BY <4>2, <2>1, <2>2, <2>3, <2>5, <2>6
        <5>4. log'[next + 1] = event
          BY <2>7, <2>8
        <5> QED
          BY <5>2, <5>3, <5>4
      <4>3. CASE i # Len(kept) + 1
        <5> DEFINE j == IF Len(entries) = Kept THEN i + 1 ELSE i
        <5>1. i \in 1..Len(kept) /\ j \in 1..Len(entries)
          BY <4>1, <4>3, <2>3, <2>5
        <5>2. entries'[i] = entries[j]
          BY <5>1, <2>5, <2>6
        <5>3. j \in DOMAIN entries
          BY <5>1, <2>2, LenProperties
        <5>4. /\ entries[j].seq = next - Len(entries) + j - 1
              /\ entries[j].event = log[entries[j].seq + 1]
          BY <5>3, <2>8
        <5>5. entries[j].seq + 1 \in 1..Len(log)
          BY <5>1, <5>4, <2>2, <2>3, <2>8
        <5>6. entries[j].seq = next' - Len(entries') + i - 1
          <6>1. j - Len(entries) = i + 1 - Len(entries')
            BY <4>1, <2>3, <2>5, <2>6
          <6>2. /\ next' = next + 1 /\ next \in Int /\ i \in Int /\ j \in Int
                /\ Len(entries) \in Int /\ Len(entries') \in Int
            BY <4>1, <2>1, <2>2, <2>3, <2>5, <2>6
          <6> HIDE DEF j
          <6> QED
            BY <5>4, <6>1, <6>2
        <5> QED
          BY <5>2, <5>4, <5>5, <5>6, <2>7
      <4> QED
        BY <4>2, <4>3
    <3> QED
      BY <3>1, <3>2 DEF RingIsLogTail
  <2>10. LogGrows
    BY <2>2, <2>7, LenProperties DEF LogGrows
  <2> QED
    BY <1>1, <2>1, <2>2, <2>6, <2>7, <2>9, <2>10
<1>2. CASE ~(next < SeqMax)
  <2>1. /\ exhausted' = TRUE /\ entries' = entries /\ next' = next /\ log' = log
    BY <1>2 DEF Record
  <2> QED
    BY <2>1 DEF TypeOK, RingIsLogTail, LogGrows
<1> QED
  BY <1>1, <1>2

\* Journal::truncate, back to where an open change began, leaves the ring
\* the tail of what was pushed before it.
LEMMA UndoKeepsTail ==
    ASSUME TypeOK, RingIsLogTail, NEW m \in Nat, m <= next,
           Truncate(m), log' = SubSeq(log, 1, m)
    PROVE  /\ entries' \in Seq(Entries)
           /\ next' = m
           /\ log' \in Seq(Events)
           /\ Len(log') = m
           /\ \A i \in 1..m : log'[i] = log[i]
           /\ RingIsLogTail'
<1> DEFINE k == Before(m)
           first == next - Len(entries)
<1>1. /\ entries \in Seq(Entries) /\ log \in Seq(Events) /\ next \in 0..SeqMax
  BY DEF TypeOK
<1>2. /\ Len(entries) \in Nat /\ DOMAIN entries = 1..Len(entries)
      /\ \A i \in 1..Len(entries) : entries[i] \in Entries
      /\ Len(log) \in Nat /\ \A i \in 1..Len(log) : log[i] \in Events
  BY <1>1, LenProperties, ElementOfSeq
<1>3. /\ Len(entries) <= Kept /\ Len(entries) <= next /\ next = Len(log)
      /\ \A i \in 1..Len(entries) :
            /\ entries[i].seq = first + i - 1
            /\ entries[i].event = log[entries[i].seq + 1]
  BY <1>2 DEF RingIsLogTail
<1>4. /\ k \in 0..Len(entries)
      /\ k = 0 \/ entries[k].seq < m
      /\ \A i \in k + 1..Len(entries) : entries[i].seq >= m
  <2> DEFINE left == IF m <= first THEN 0 ELSE m - first
  <2>1. /\ left \in 0..Len(entries)
        /\ left = 0 \/ entries[left].seq < m
        /\ \A i \in left + 1..Len(entries) : entries[i].seq >= m
    <3>1. CASE m <= first
      <4>1. left = 0
        BY <3>1
      <4> QED
        BY <1>1, <1>2, <1>3, <3>1, <4>1
    <3>2. CASE m > first
      <4>1. left = m - first /\ left \in 1..Len(entries)
        BY <1>1, <1>2, <1>3, <3>2
      <4>2. entries[left].seq = m - 1
        BY <1>1, <1>2, <1>3, <4>1
      <4> HIDE DEF left
      <4> QED
        BY <1>1, <1>2, <1>3, <4>1, <4>2
    <3> QED
      BY <1>1, <1>2, <3>1, <3>2
  <2> QED
    BY <2>1 DEF Before
<1>5. next' = m /\ entries' = SubSeq(entries, 1, k)
  BY <1>1 DEF Truncate
<1> HIDE DEF k
<1>6. /\ log' \in Seq(Events) /\ Len(log') = m
      /\ \A i \in 1..m : log'[i] = log[i]
  <2>1. \A i \in 1..m : log[i] \in Events
    BY <1>1, <1>2, <1>3
  <2> QED
    BY <2>1, SubSeqProperties
<1>7. /\ entries' \in Seq(Entries) /\ Len(entries') = k
      /\ \A i \in 1..k : entries'[i] = entries[i]
  <2>1. \A i \in 1..k : entries[i] \in Entries
    BY <1>2, <1>4
  <2> QED
    BY <2>1, <1>4, <1>5, SubSeqProperties
<1>8. k = 0 \/ first + k = m
  <2>1. CASE k < Len(entries)
    <3>1. entries[k + 1].seq >= m /\ entries[k + 1].seq = first + k
      BY <1>2, <1>3, <1>4, <2>1
    <3>2. k # 0 => entries[k].seq = first + k - 1 /\ entries[k].seq < m
      BY <1>2, <1>3, <1>4
    <3> QED
      BY <1>1, <1>2, <1>4, <3>1, <3>2
  <2>2. CASE k = Len(entries)
    <3>1. k # 0 => entries[k].seq = first + k - 1 /\ entries[k].seq < m
      BY <1>2, <1>3, <1>4
    <3> QED
      BY <1>1, <1>2, <1>4, <2>2, <3>1
  <2>3. k < Len(entries) \/ k = Len(entries)
    <3>1. k \in 0..Len(entries) /\ Len(entries) \in Nat
      BY <1>2, <1>4
    <3> QED
      BY <3>1
  <2> QED
    BY <2>1, <2>2, <2>3
<1>9. RingIsLogTail'
  <2>1. Len(entries') <= Kept /\ Len(entries') <= next' /\ next' = Len(log')
    BY <1>1, <1>2, <1>3, <1>4, <1>5, <1>6, <1>7, <1>8
  <2>2. ASSUME NEW i \in DOMAIN entries'
        PROVE  /\ entries'[i].seq = next' - Len(entries') + i - 1
               /\ entries'[i].event = log'[entries'[i].seq + 1]
    <3>1. i \in 1..k
      BY <1>7, LenProperties
    <3>2. /\ entries'[i] = entries[i]
          /\ entries[i].seq = first + i - 1
          /\ entries[i].event = log[entries[i].seq + 1]
      BY <1>2, <1>3, <1>4, <1>7, <3>1
    <3>3. first + k = m
      BY <1>4, <1>8, <3>1
    <3>4. entries[i].seq + 1 \in 1..m
      BY <1>1, <1>2, <1>3, <1>4, <3>1, <3>2, <3>3
    <3>5. log'[entries[i].seq + 1] = log[entries[i].seq + 1]
      BY <1>6, <3>4
    <3>6. entries[i].seq = next' - Len(entries') + i - 1
      BY <1>1, <1>2, <1>4, <1>5, <1>7, <3>1, <3>2, <3>3
    <3> QED
      BY <3>2, <3>5, <3>6
  <2> QED
    BY <2>1, <2>2 DEF RingIsLogTail
<1> QED
  BY <1>5, <1>6, <1>7, <1>9

-----------------------------------------------------------------------------
(* What a batch gives a reader.                                            *)

\* Reader::batch gives a reader no event but one on the log, each at its
\* number, between the cursor it came with and the one it leaves with.
LEMMA BatchReadsLog ==
    ASSUME TypeOK, RingIsLogTail, NEW scope \in Scopes, NEW from \in 0..next
    PROVE  LET batch == Batch(scope, from)
           IN  /\ batch.events \in SUBSET Entries
               /\ batch.missed \in Nat
               /\ batch.next \in from..next
               /\ batch.status \in {"idle", "gone", "stopped"}
               /\ \A entry \in batch.events :
                     /\ entry.seq \in from..batch.next - 1
                     /\ entry.event = log[entry.seq + 1]
<1> DEFINE ahead == {i \in DOMAIN entries : entries[i].seq >= from}
           ending == {i \in ahead : Ends(scope, entries[i].event)}
           read == {i \in ahead : \A j \in ending : i <= j}
           last == {entries[i] : i \in read \intersect ending}
           scanned == {entries[i] : i \in read}
           to == IF last = {} THEN next ELSE (CHOOSE e \in last : TRUE).seq + 1
           status == IF last # {}
                     THEN IF \E e \in last : e.event.stops THEN "stopped" ELSE "gone"
                     ELSE IF Exists(scope) THEN "idle" ELSE "gone"
<1>1. /\ Batch(scope, from).events = {e \in scanned : Wants(scope, e.event)}
      /\ Batch(scope, from).missed
            = Cardinality((from..to - 1) \ {e.seq : e \in scanned})
      /\ Batch(scope, from).next = to
      /\ Batch(scope, from).status = status
  BY DEF Batch
<1>2. /\ next \in Nat /\ from \in Nat /\ from <= next
      /\ Len(entries) \in Nat /\ DOMAIN entries = 1..Len(entries)
      /\ \A i \in 1..Len(entries) : entries[i] \in Entries
  BY LenProperties, ElementOfSeq DEF TypeOK
<1>3. \A i \in 1..Len(entries) :
         /\ entries[i].seq = next - Len(entries) + i - 1
         /\ entries[i].event = log[entries[i].seq + 1]
  BY <1>2 DEF RingIsLogTail
<1>4. \A i \in read :
         /\ i \in 1..Len(entries)
         /\ entries[i] \in Entries
         /\ entries[i].seq \in from..next - 1
         /\ entries[i].event = log[entries[i].seq + 1]
  <2> SUFFICES ASSUME NEW i \in read
               PROVE  /\ i \in 1..Len(entries)
                      /\ entries[i] \in Entries
                      /\ entries[i].seq \in from..next - 1
                      /\ entries[i].event = log[entries[i].seq + 1]
    OBVIOUS
  <2>1. i \in 1..Len(entries) /\ entries[i].seq >= from
    BY <1>2
  <2>2. entries[i].seq = next - Len(entries) + i - 1
    BY <1>3, <2>1
  <2> HIDE DEF read
  <2>3. entries[i].seq \in from..next - 1
    BY <1>2, <2>1, <2>2
  <2> QED
    BY <1>2, <1>3, <2>1, <2>3
<1>5. CASE last = {}
  <2>1. to = next
    BY <1>5
  <2>2. \A e \in scanned : e \in Entries /\ e.seq \in from..to - 1
                             /\ e.event = log[e.seq + 1]
    BY <1>4, <2>1
  <2> HIDE DEF scanned, to, last
  <2>3. to \in from..next
    BY <1>2, <2>1
  <2>4. status \in {"idle", "gone", "stopped"}
    OBVIOUS
  <2>5. IsFiniteSet(from..to - 1)
    BY <1>2, <2>3, FS_Interval
  <2>6. Cardinality((from..to - 1) \ {e.seq : e \in scanned}) \in Nat
    BY <2>5, FS_Difference, FS_CardinalityType
  <2> QED
    BY <1>1, <2>2, <2>3, <2>4, <2>6
<1>6. CASE last # {}
  <2> DEFINE e0 == CHOOSE e \in last : TRUE
  <2>1. e0 \in last /\ to = e0.seq + 1
    BY <1>6
  <2>2. PICK l \in read \intersect ending : e0 = entries[l]
    BY <2>1
  <2>3. l \in 1..Len(entries) /\ entries[l].seq \in from..next - 1
    BY <1>4, <2>2
  <2>4. \A i \in read : i <= l
    BY <2>2
  <2>5. \A i \in read : entries[i].seq <= entries[l].seq
    <3> SUFFICES ASSUME NEW i \in read PROVE entries[i].seq <= entries[l].seq
      OBVIOUS
    <3>1. i \in 1..Len(entries) /\ i <= l
      BY <1>4, <2>4
    <3>2. /\ entries[i].seq = next - Len(entries) + i - 1
          /\ entries[l].seq = next - Len(entries) + l - 1
      BY <1>3, <2>3, <3>1
    <3> HIDE DEF read
    <3> QED
      BY <1>2, <2>3, <3>1, <3>2
  <2>6. to = entries[l].seq + 1
    BY <2>1, <2>2
  <2> HIDE DEF to, read, e0
  <2>7. \A i \in read : /\ entries[i] \in Entries
                         /\ entries[i].seq \in from..to - 1
                         /\ entries[i].event = log[entries[i].seq + 1]
    <3> SUFFICES ASSUME NEW i \in read
                 PROVE  /\ entries[i] \in Entries
                        /\ entries[i].seq \in from..to - 1
                        /\ entries[i].event = log[entries[i].seq + 1]
      OBVIOUS
    <3>1. entries[i].seq \in from..next - 1 /\ entries[i].seq <= entries[l].seq
      BY <1>4, <2>5
    <3>2. entries[i].seq \in from..to - 1
      BY <1>2, <2>3, <2>6, <3>1
    <3> QED
      BY <1>4, <3>2
  <2>8. \A e \in scanned : e \in Entries /\ e.seq \in from..to - 1
                             /\ e.event = log[e.seq + 1]
    BY <2>7
  <2> HIDE DEF scanned, last
  <2>9. to \in from..next
    BY <1>2, <2>3, <2>6
  <2>10. status \in {"idle", "gone", "stopped"}
    OBVIOUS
  <2>11. IsFiniteSet(from..to - 1)
    BY <1>2, <2>9, FS_Interval
  <2>12. Cardinality((from..to - 1) \ {e.seq : e \in scanned}) \in Nat
    BY <2>11, FS_Difference, FS_CardinalityType
  <2> QED
    BY <1>1, <2>8, <2>9, <2>10, <2>12
<1> QED
  BY <1>5, <1>6

-----------------------------------------------------------------------------
(* The invariant holds at first, and every step keeps it.                  *)

\* A server that starts, its journal empty and no client reading it.
LEMMA InitIInv == Init => IInv
<1> SUFFICES ASSUME Init PROVE IInv
  OBVIOUS
<1>1. /\ entries = <<>> /\ next = 0 /\ log = <<>> /\ mark = None
      /\ heard = [r \in Readers |-> {}] /\ missed = [r \in Readers |-> 0]
  BY DEF Init
<1>2. TypeOK
  <2>1. reader \in [Readers -> [state : States, scope : Scopes,
                                since : 0..SeqMax \union {None}, next : 0..SeqMax]]
    BY DEF Init, States
  <2>2. entries \in Seq(Entries) /\ log \in Seq(Events)
    BY <1>1, EmptySeq
  <2>3. heard \in [Readers -> SUBSET Entries] /\ missed \in [Readers -> Nat]
    BY <1>1
  <2>4. /\ exhausted \in BOOLEAN /\ stopped \in BOOLEAN
        /\ before \subseteq Places /\ open \subseteq Places
    BY DEF Init
  <2>5. next \in 0..SeqMax /\ mark \in 0..SeqMax \union {None}
    BY <1>1
  <2> QED
    BY <2>1, <2>2, <2>3, <2>4, <2>5 DEF TypeOK
<1>3. RingIsLogTail
  BY <1>1, EmptySeq DEF RingIsLogTail
<1>4. MarkIsPast
  BY <1>1 DEF MarkIsPast
<1>5. NothingUndoneIsRead
  BY <1>1 DEF Init, NothingUndoneIsRead
<1>6. NewReadersAreIdle
  BY <1>1 DEF Init, NewReadersAreIdle
<1> QED
  BY <1>2, <1>3, <1>4, <1>5, <1>6 DEF IInv

\* What was read stays as it was, as more is recorded.
LEMMA RecordKeepsRead ==
    ASSUME IInv, RingIsLogTail', LogGrows, next' \in Nat, next <= next',
           UNCHANGED <<mark, reader, heard>>
    PROVE  NothingUndoneIsRead'
<1>1. ASSUME NEW r \in Readers
      PROVE  /\ reader[r].next <= (IF mark = None THEN next' ELSE mark)
             /\ \A entry \in heard[r] :
                   /\ entry.seq < reader[r].next
                   /\ entry.event = log'[entry.seq + 1]
  <2>1. /\ next \in Nat /\ reader[r].next \in Nat
        /\ heard[r] \subseteq Entries /\ next = Len(log)
        /\ mark # None => mark \in Nat /\ mark <= next
    BY DEF IInv, TypeOK, RingIsLogTail, MarkIsPast
  <2>2. /\ reader[r].next <= (IF mark = None THEN next ELSE mark)
        /\ \A entry \in heard[r] :
              entry.seq < reader[r].next /\ entry.event = log[entry.seq + 1]
    BY DEF IInv, NothingUndoneIsRead
  <2>3. ASSUME NEW entry \in heard[r]
        PROVE  entry.event = log'[entry.seq + 1]
    <3>1. entry.seq \in Nat /\ entry.seq + 1 <= Len(log)
      BY <2>1, <2>2 DEF Entries
    <3>2. entry.seq + 1 \in 1..Len(log)
      BY <2>1, <3>1
    <3>3. log'[entry.seq + 1] = log[entry.seq + 1]
      BY <3>2 DEF LogGrows
    <3> QED
      BY <2>2, <3>3
  <2>4. reader[r].next <= (IF mark = None THEN next' ELSE mark)
    BY <2>1, <2>2
  <2> QED
    BY <2>2, <2>3, <2>4
<1> QED
  BY <1>1 DEF NothingUndoneIsRead

\* Every step that pushes an event.
LEMMA PushKeepsIInv ==
    ASSUME IInv, NEW event \in Events, Record(event),
           open' \in SUBSET Places, stopped' \in BOOLEAN,
           UNCHANGED <<mark, before, reader, heard, missed>>
    PROVE  IInv'
<1>1. /\ entries' \in Seq(Entries) /\ next' \in 0..SeqMax /\ next <= next'
      /\ exhausted' \in BOOLEAN /\ log' \in Seq(Events)
      /\ RingIsLogTail' /\ LogGrows
  BY RecordKeepsTail DEF IInv
<1>2. TypeOK'
  BY <1>1 DEF IInv, TypeOK
<1>3. MarkIsPast'
  BY <1>1 DEF IInv, TypeOK, MarkIsPast
<1>4. NothingUndoneIsRead'
  BY <1>1, RecordKeepsRead
<1>5. NewReadersAreIdle'
  BY DEF IInv, NewReadersAreIdle
<1> QED
  BY <1>1, <1>2, <1>3, <1>4, <1>5 DEF IInv

\* Session::roll_back: what it lets go no reader was given, for none is
\* answered while the change is open.
LEMMA RollBackKeepsIInv ==
    ASSUME IInv, RollBack
    PROVE  IInv'
<1>1. /\ mark \in Nat /\ mark <= next /\ mark <= SeqMax
      /\ mark # None /\ mark' = None
      /\ Truncate(mark) /\ log' = SubSeq(log, 1, mark) /\ open' = before
      /\ UNCHANGED <<exhausted, before, stopped, reader, heard, missed>>
  BY DEF IInv, TypeOK, MarkIsPast, RollBack
<1>2. /\ entries' \in Seq(Entries) /\ next' = mark /\ log' \in Seq(Events)
      /\ Len(log') = mark /\ \A i \in 1..mark : log'[i] = log[i]
      /\ RingIsLogTail'
  BY <1>1, UndoKeepsTail DEF IInv
<1>3. TypeOK'
  BY <1>1, <1>2 DEF IInv, TypeOK
<1>4. NothingUndoneIsRead'
  <2>1. ASSUME NEW r \in Readers
        PROVE  /\ reader[r].next <= mark
               /\ \A entry \in heard[r] :
                     /\ entry.seq < reader[r].next
                     /\ entry.event = log'[entry.seq + 1]
    <3>1. /\ reader[r].next <= mark
          /\ \A entry \in heard[r] :
                entry.seq < reader[r].next /\ entry.event = log[entry.seq + 1]
      BY <1>1 DEF IInv, NothingUndoneIsRead
    <3>2. reader[r].next \in Nat /\ heard[r] \subseteq Entries
      BY DEF IInv, TypeOK
    <3>3. ASSUME NEW entry \in heard[r]
          PROVE  entry.event = log'[entry.seq + 1]
      <4>1. entry.seq + 1 \in 1..mark
        BY <1>1, <3>1, <3>2 DEF Entries
      <4> QED
        BY <1>2, <3>1, <4>1
    <3> QED
      BY <3>1, <3>3
  <2> QED
    BY <1>1, <1>2, <2>1 DEF NothingUndoneIsRead
<1>5. MarkIsPast' /\ NewReadersAreIdle'
  BY <1>1 DEF IInv, MarkIsPast, NewReadersAreIdle
<1> QED
  BY <1>2, <1>3, <1>4, <1>5 DEF IInv

\* Reader::new: a client begins at a cursor this run gave, or goes on.
LEMMA AskKeepsIInv ==
    ASSUME IInv, NEW r \in Readers, NEW from \in 0..SeqMax, Ask(r, from)
    PROVE  IInv'
<1>1. /\ mark = None /\ from <= next
      /\ reader[r].since # None => from = reader[r].next
      /\ reader' = [reader EXCEPT
                        ![r].state = IF exhausted THEN "failed" ELSE "waiting",
                        ![r].since = IF @ = None THEN from ELSE @,
                        ![r].next = from]
      /\ UNCHANGED <<entries, next, exhausted, mark, before, open, stopped,
                     heard, missed, log>>
  BY DEF Ask
<1>2. /\ reader \in [Readers -> [state : States, scope : Scopes,
                        since : 0..SeqMax \union {None}, next : 0..SeqMax]]
      /\ next \in Nat
  BY DEF IInv, TypeOK
<1>3. reader' \in [Readers -> [state : States, scope : Scopes,
                       since : 0..SeqMax \union {None}, next : 0..SeqMax]]
  <2> DEFINE state == IF exhausted THEN "failed" ELSE "waiting"
             since == IF reader[r].since = None THEN from ELSE reader[r].since
  <2>1. state \in States /\ since \in 0..SeqMax \union {None}
    BY <1>2 DEF States
  <2>2. reader' = [reader EXCEPT ![r] = [reader[r] EXCEPT
                      !.state = state, !.since = since, !.next = from]]
    BY <1>1, <1>2
  <2> HIDE DEF state, since
  <2>3. [reader[r] EXCEPT !.state = state, !.since = since, !.next = from]
          \in [state : States, scope : Scopes,
               since : 0..SeqMax \union {None}, next : 0..SeqMax]
    BY <1>2, <2>1
  <2> QED
    BY <1>2, <2>2, <2>3
<1>4. /\ reader'[r].since # None /\ reader'[r].next = from
      /\ \A q \in Readers \ {r} : reader'[q] = reader[q]
  BY <1>1, <1>2
<1>5. TypeOK'
  BY <1>1, <1>3 DEF IInv, TypeOK
<1>6. RingIsLogTail' /\ MarkIsPast'
  BY <1>1 DEF IInv, RingIsLogTail, MarkIsPast
<1>7. NothingUndoneIsRead'
  <2>1. ASSUME NEW q \in Readers
        PROVE  /\ reader'[q].next <= next
               /\ \A entry \in heard[q] :
                     /\ entry.seq < reader'[q].next
                     /\ entry.event = log[entry.seq + 1]
    <3>1. /\ reader[q].next <= next
          /\ \A entry \in heard[q] :
                entry.seq < reader[q].next /\ entry.event = log[entry.seq + 1]
      BY <1>1 DEF IInv, NothingUndoneIsRead
    <3>2. CASE q # r
      BY <1>4, <3>1, <3>2
    <3>3. CASE q = r
      <4>1. reader[r].since = None => heard[r] = {}
        BY DEF IInv, NewReadersAreIdle
      <4> QED
        BY <1>1, <1>4, <3>1, <3>3, <4>1
    <3> QED
      BY <3>2, <3>3
  <2> QED
    BY <1>1, <2>1 DEF NothingUndoneIsRead
<1>8. NewReadersAreIdle'
  BY <1>1, <1>4 DEF IInv, NewReadersAreIdle
<1> QED
  BY <1>5, <1>6, <1>7, <1>8 DEF IInv

\* Read::answer: what a batch gives is on the log, and below the cursor it
\* leaves.
LEMMA AnswerKeepsIInv ==
    ASSUME IInv, NEW r \in Readers, NEW late \in BOOLEAN, AnswerWait(r, late)
    PROVE  IInv'
<1> DEFINE scope == reader[r].scope
           batch == Batch(scope, reader[r].next)
<1>1. /\ mark = None /\ reader[r].state = "waiting"
      /\ UNCHANGED <<entries, next, exhausted, mark, before, open, stopped, log>>
  BY DEF AnswerWait, Answered
<1>2. /\ reader \in [Readers -> [state : States, scope : Scopes,
                        since : 0..SeqMax \union {None}, next : 0..SeqMax]]
      /\ heard \in [Readers -> SUBSET Entries] /\ missed \in [Readers -> Nat]
      /\ next \in 0..SeqMax
  BY DEF IInv, TypeOK
<1>3. \A q \in Readers :
         /\ reader[q].next <= next
         /\ \A entry \in heard[q] :
               entry.seq < reader[q].next /\ entry.event = log[entry.seq + 1]
  BY <1>1 DEF IInv, NothingUndoneIsRead
<1>4. RingIsLogTail' /\ MarkIsPast'
  BY <1>1 DEF IInv, RingIsLogTail, MarkIsPast
<1>5. reader[r].since # None
  BY <1>1 DEF IInv, NewReadersAreIdle
<1>6. CASE exhausted
  <2>1. /\ reader' = [reader EXCEPT ![r].state = "failed"]
        /\ UNCHANGED <<heard, missed>>
    BY <1>6 DEF AnswerWait, Answered
  <2>2. /\ reader' \in [Readers -> [state : States, scope : Scopes,
                           since : 0..SeqMax \union {None}, next : 0..SeqMax]]
        /\ \A q \in Readers : /\ reader'[q].next = reader[q].next
                               /\ reader'[q].since = reader[q].since
                               /\ q # r => reader'[q] = reader[q]
    BY <1>2, <2>1 DEF States
  <2>3. TypeOK'
    BY <1>1, <2>1, <2>2 DEF IInv, TypeOK
  <2>4. NothingUndoneIsRead'
    BY <1>1, <1>3, <2>1, <2>2 DEF NothingUndoneIsRead
  <2>5. NewReadersAreIdle'
    BY <1>5, <2>1, <2>2 DEF IInv, NewReadersAreIdle
  <2> QED
    BY <1>4, <2>3, <2>4, <2>5 DEF IInv
<1>7. CASE ~exhausted
  <2> DEFINE answers == late \/ ~Empty(batch)
  <2>1. /\ reader' = [reader EXCEPT
                          ![r].state = IF answers THEN batch.status ELSE @,
                          ![r].next = batch.next]
        /\ heard' = [heard EXCEPT ![r] = @ \union batch.events]
        /\ missed' = [missed EXCEPT ![r] = @ + batch.missed]
    BY <1>7 DEF AnswerWait, Answered
  <2>2. scope \in Scopes /\ reader[r].next \in 0..next
    BY <1>2, <1>3
  <2>3. /\ batch.events \in SUBSET Entries
        /\ batch.missed \in Nat
        /\ batch.next \in reader[r].next..next
        /\ batch.status \in {"idle", "gone", "stopped"}
        /\ \A entry \in batch.events :
              /\ entry.seq \in reader[r].next..batch.next - 1
              /\ entry.event = log[entry.seq + 1]
    BY <2>2, BatchReadsLog DEF IInv
  <2> HIDE DEF batch, answers
  <2>4. batch.next \in 0..SeqMax
    BY <1>2, <2>2, <2>3
  <2>5. /\ reader' \in [Readers -> [state : States, scope : Scopes,
                           since : 0..SeqMax \union {None}, next : 0..SeqMax]]
        /\ heard' \in [Readers -> SUBSET Entries]
        /\ missed' \in [Readers -> Nat]
    <3> DEFINE state == IF answers THEN batch.status ELSE reader[r].state
    <3>1. state \in States
      BY <1>2, <2>3 DEF States
    <3>2. reader' = [reader EXCEPT ![r] = [reader[r] EXCEPT
                        !.state = state, !.next = batch.next]]
      BY <1>2, <2>1
    <3> HIDE DEF state
    <3>3. [reader[r] EXCEPT !.state = state, !.next = batch.next]
            \in [state : States, scope : Scopes,
                 since : 0..SeqMax \union {None}, next : 0..SeqMax]
      BY <1>2, <2>4, <3>1
    <3>4. reader' \in [Readers -> [state : States, scope : Scopes,
                          since : 0..SeqMax \union {None}, next : 0..SeqMax]]
      BY <1>2, <3>2, <3>3
    <3>5. heard' \in [Readers -> SUBSET Entries] /\ missed' \in [Readers -> Nat]
      BY <1>2, <2>1, <2>3
    <3> QED
      BY <3>4, <3>5
  <2>6. /\ reader'[r].next = batch.next
        /\ reader'[r].since = reader[r].since
        /\ heard'[r] = heard[r] \union batch.events
        /\ \A q \in Readers \ {r} : reader'[q] = reader[q] /\ heard'[q] = heard[q]
    BY <1>2, <2>1
  <2>7. TypeOK'
    BY <1>1, <2>5 DEF IInv, TypeOK
  <2>8. NothingUndoneIsRead'
    <3>1. ASSUME NEW q \in Readers
          PROVE  /\ reader'[q].next <= next
                 /\ \A entry \in heard'[q] :
                       /\ entry.seq < reader'[q].next
                       /\ entry.event = log[entry.seq + 1]
      <4>1. CASE q # r
        BY <1>3, <2>6, <4>1
      <4>2. CASE q = r
        <5>1. /\ reader[r].next \in Nat /\ next \in Nat /\ batch.next \in Nat
              /\ reader[r].next <= batch.next /\ batch.next <= next
          BY <1>2, <2>2, <2>3
        <5>2. ASSUME NEW entry \in heard'[r]
              PROVE  entry.seq < batch.next /\ entry.event = log[entry.seq + 1]
          <6>1. CASE entry \in heard[r]
            <7>1. entry.seq \in Nat
              BY <1>2, <6>1 DEF Entries
            <7> QED
              BY <1>3, <5>1, <6>1, <7>1
          <6>2. CASE entry \in batch.events
            BY <2>3, <5>1, <6>2
          <6> QED
            BY <2>6, <6>1, <6>2
        <5> QED
          BY <2>6, <4>2, <5>1, <5>2
      <4> QED
        BY <4>1, <4>2
    <3> QED
      BY <1>1, <3>1 DEF NothingUndoneIsRead
  <2>9. NewReadersAreIdle'
    BY <1>5, <2>6 DEF IInv, NewReadersAreIdle
  <2> QED
    BY <1>4, <2>7, <2>8, <2>9 DEF IInv
<1> QED
  BY <1>6, <1>7

\* Every step, one by one.
LEMMA StepKeepsIInv == IInv /\ [Next]_vars => IInv'
<1> SUFFICES ASSUME IInv, [Next]_vars PROVE IInv'
  OBVIOUS
<1>1. CASE Begin
  <2>1. /\ mark = None /\ mark' = next /\ before' = open
        /\ UNCHANGED <<entries, next, exhausted, open, stopped, reader, heard,
                       missed, log>>
    BY <1>1 DEF Begin
  <2>2. next \in Nat /\ next # None
    BY DEF IInv, TypeOK
  <2>3. TypeOK'
    BY <2>1 DEF IInv, TypeOK
  <2>4. RingIsLogTail' /\ NewReadersAreIdle'
    BY <2>1 DEF IInv, RingIsLogTail, NewReadersAreIdle
  <2>5. MarkIsPast'
    BY <2>1, <2>2 DEF MarkIsPast
  <2>6. NothingUndoneIsRead'
    BY <2>1, <2>2 DEF IInv, NothingUndoneIsRead
  <2> QED
    BY <2>3, <2>4, <2>5, <2>6 DEF IInv
<1>2. CASE Commit
  <2>1. /\ mark # None /\ mark' = None
        /\ UNCHANGED <<entries, next, exhausted, before, open, stopped, reader,
                       heard, missed, log>>
    BY <1>2 DEF Commit
  <2>2. TypeOK'
    BY <2>1 DEF IInv, TypeOK
  <2>3. RingIsLogTail' /\ NewReadersAreIdle' /\ MarkIsPast'
    BY <2>1 DEF IInv, RingIsLogTail, NewReadersAreIdle, MarkIsPast
  <2>4. NothingUndoneIsRead'
    <3>1. \A r \in Readers : reader[r].next <= next
      BY <2>1 DEF IInv, TypeOK, NothingUndoneIsRead, MarkIsPast
    <3> QED
      BY <2>1, <3>1 DEF IInv, NothingUndoneIsRead
  <2> QED
    BY <2>2, <2>3, <2>4 DEF IInv
<1>3. CASE RollBack
  BY <1>3, RollBackKeepsIInv
<1>4. CASE Stop
  <2>1. /\ Stopped \in Events /\ Record(Stopped)
        /\ open' \in SUBSET Places /\ stopped' \in BOOLEAN
        /\ UNCHANGED <<mark, before, reader, heard, missed>>
    BY <1>4, EventTypes DEF Stop, IInv, TypeOK
  <2> QED
    BY <2>1, PushKeepsIInv
<1>5. ASSUME NEW names \in SUBSET Places, PushNews(names)
      PROVE  IInv'
  <2>1. /\ News(names) \in Events /\ Record(News(names))
        /\ open' \in SUBSET Places /\ stopped' \in BOOLEAN
        /\ UNCHANGED <<mark, before, reader, heard, missed>>
    BY <1>5, EventTypes DEF PushNews, IInv, TypeOK
  <2> QED
    BY <2>1, PushKeepsIInv
<1>6. ASSUME NEW place \in Places, PushClosed(place)
      PROVE  IInv'
  <2>1. /\ Closed(place) \in Events /\ Record(Closed(place))
        /\ open' \in SUBSET Places /\ stopped' \in BOOLEAN
        /\ UNCHANGED <<mark, before, reader, heard, missed>>
    BY <1>6, EventTypes DEF PushClosed, IInv, TypeOK
  <2> QED
    BY <2>1, PushKeepsIInv
<1>7. ASSUME NEW r \in Readers, NEW from \in 0..SeqMax, Ask(r, from)
      PROVE  IInv'
  BY <1>7, AskKeepsIInv
<1>8. ASSUME NEW r \in Readers, NEW late \in BOOLEAN, AnswerWait(r, late)
      PROVE  IInv'
  BY <1>8, AnswerKeepsIInv
<1>9. CASE UNCHANGED vars
  BY <1>9 DEF vars, IInv, TypeOK, RingIsLogTail, MarkIsPast,
              NothingUndoneIsRead, NewReadersAreIdle
<1> QED
  BY <1>1, <1>2, <1>3, <1>4, <1>5, <1>6, <1>7, <1>8, <1>9 DEF Next

-----------------------------------------------------------------------------
(* What a reader is told at its end.                                       *)

\* What closed is gone: no place that is open, or would be again if the open
\* change were undone, has its close on the log.
PlacesStayClosed ==
    /\ \A i \in 1..Len(log) : log[i].closes \intersect open = {}
    /\ mark # None =>
          /\ open \subseteq before
          /\ \A i \in 1..mark : log[i].closes \intersect before = {}

\* GoneIsGone needs the log beside it: a batch that ends at a close tells the
\* reader its scope is gone from the entry alone, not from the places.
GoneInv == PlacesStayClosed /\ GoneIsGone

\* Journal::record adds the event to the log, or nothing.
LEMMA RecordAppends ==
    ASSUME TypeOK, NEW event \in Events, Record(event)
    PROVE  \A i \in 1..Len(log') :
              \/ i \in 1..Len(log) /\ log'[i] = log[i]
              \/ log'[i] = event
<1>1. log \in Seq(Events) /\ Len(log) \in Nat
  BY LenProperties DEF TypeOK
<1>2. CASE log' = log
  BY <1>2
<1>3. CASE log' = Append(log, event)
  <2>1. /\ Len(log') = Len(log) + 1
        /\ \A i \in 1..Len(log) : log'[i] = log[i]
        /\ log'[Len(log) + 1] = event
    BY <1>1, <1>3, AppendProperties
  <2> QED
    BY <1>1, <2>1
<1> QED
  BY <1>2, <1>3 DEF Record

\* Reader::batch says that its scope is gone only when it is, and that the
\* server stopped only with the stop among what it gives.
LEMMA BatchEndsTruly ==
    ASSUME TypeOK, RingIsLogTail, NEW scope \in Scopes, NEW from \in 0..next,
           \A i \in 1..Len(log) : log[i].closes \intersect open = {}
    PROVE  LET batch == Batch(scope, from)
           IN  /\ batch.status = "gone" => scope \notin open
               /\ batch.status = "stopped" =>
                     \E entry \in batch.events : entry.event.stops
<1> DEFINE ahead == {i \in DOMAIN entries : entries[i].seq >= from}
           ending == {i \in ahead : Ends(scope, entries[i].event)}
           read == {i \in ahead : \A j \in ending : i <= j}
           last == {entries[i] : i \in read \intersect ending}
           scanned == {entries[i] : i \in read}
           stop == \E e \in last : e.event.stops
           status == IF last # {}
                     THEN IF stop THEN "stopped" ELSE "gone"
                     ELSE IF Exists(scope) THEN "idle" ELSE "gone"
<1>1. /\ Batch(scope, from).events = {e \in scanned : Wants(scope, e.event)}
      /\ Batch(scope, from).status = status
  BY DEF Batch
<1>2. /\ next \in Nat /\ next = Len(log)
      /\ Len(entries) \in Nat /\ DOMAIN entries = 1..Len(entries)
      /\ Len(entries) <= next
      /\ \A i \in DOMAIN entries :
            /\ entries[i].seq = next - Len(entries) + i - 1
            /\ entries[i].event = log[entries[i].seq + 1]
  BY LenProperties DEF TypeOK, RingIsLogTail
<1>3. ASSUME NEW e \in last
      PROVE  /\ e \in scanned
             /\ Ends(scope, e.event)
             /\ \E i \in 1..Len(log) : e.event = log[i]
  <2>1. PICK l \in read \intersect ending : e = entries[l]
    BY <1>3
  <2>2. l \in DOMAIN entries /\ Ends(scope, entries[l].event) /\ l \in read
    BY <2>1
  <2>3. e \in scanned
    BY <2>1, <2>2
  <2> HIDE DEF read, ending, scanned
  <2>4. /\ l \in 1..Len(entries)
        /\ entries[l].seq = next - Len(entries) + l - 1
        /\ entries[l].event = log[entries[l].seq + 1]
    BY <1>2, <2>2
  <2>5. entries[l].seq + 1 \in 1..Len(log)
    BY <1>2, <2>4
  <2> QED
    BY <2>1, <2>2, <2>3, <2>4, <2>5
<1> HIDE DEF last, scanned
<1>4. status = "gone" => scope \notin open
  <2>1. CASE last = {}
    BY <2>1 DEF Exists
  <2>2. CASE last # {} /\ ~stop
    <3>1. PICK e \in last : TRUE
      BY <2>2
    <3>2. ~e.event.stops
      BY <2>2, <3>1
    <3>3. scope \in e.event.closes
      BY <1>3, <3>1, <3>2 DEF Ends
    <3>4. PICK i \in 1..Len(log) : e.event = log[i]
      BY <1>3, <3>1
    <3> QED
      BY <3>3, <3>4
  <2>3. CASE last # {} /\ stop
    <3>1. status = "stopped"
      BY <2>3
    <3> QED
      BY <3>1
  <2> QED
    BY <2>1, <2>2, <2>3
<1>5. ASSUME status = "stopped"
      PROVE  \E e \in scanned : Wants(scope, e.event) /\ e.event.stops
  <2>1. stop
    BY <1>5
  <2>2. PICK e \in last : e.event.stops
    BY <2>1
  <2>3. Wants(scope, e.event)
    BY <2>2 DEF Wants
  <2> QED
    BY <1>3, <2>2, <2>3
<1> HIDE DEF status
<1> QED
  BY <1>1, <1>4, <1>5

\* What is pushed names what it closes, and those go from `open` with it.
LEMMA PushKeepsGone ==
    ASSUME IInv, GoneInv, NEW event \in Events, Record(event),
           open' \subseteq open, event.closes \intersect open' = {},
           UNCHANGED <<mark, before, reader, heard>>
    PROVE  GoneInv'
<1>1. /\ \A i \in 1..Len(log') :
            \/ i \in 1..Len(log) /\ log'[i] = log[i]
            \/ log'[i] = event
      /\ LogGrows
  BY RecordAppends, RecordKeepsTail DEF IInv
<1>2. PlacesStayClosed'
  <2>1. \A i \in 1..Len(log') : log'[i].closes \intersect open' = {}
    BY <1>1 DEF GoneInv, PlacesStayClosed
  <2>2. ASSUME mark # None
        PROVE  \A i \in 1..mark : log'[i].closes \intersect before = {}
    <3>1. mark \in Nat /\ mark <= Len(log) /\ Len(log) \in Nat
      BY <2>2, LenProperties DEF IInv, TypeOK, MarkIsPast, RingIsLogTail
    <3>2. \A i \in 1..mark : i \in 1..Len(log)
      BY <3>1
    <3>3. \A i \in 1..mark : log'[i] = log[i]
      BY <1>1, <3>2 DEF LogGrows
    <3> QED
      BY <2>2, <3>3 DEF GoneInv, PlacesStayClosed
  <2> QED
    BY <2>1, <2>2 DEF GoneInv, PlacesStayClosed
<1>3. GoneIsGone'
  BY DEF GoneInv, GoneIsGone
<1> QED
  BY <1>2, <1>3 DEF GoneInv

\* Read::answer: what it tells a reader at its end is so.
LEMMA AnswerKeepsGone ==
    ASSUME IInv, GoneInv, NEW r \in Readers, NEW late \in BOOLEAN,
           AnswerWait(r, late)
    PROVE  GoneInv'
<1> DEFINE scope == reader[r].scope
           batch == Batch(scope, reader[r].next)
<1>1. /\ mark = None /\ reader[r].state = "waiting"
      /\ UNCHANGED <<entries, next, exhausted, mark, before, open, stopped, log>>
  BY DEF AnswerWait, Answered
<1>2. /\ reader \in [Readers -> [state : States, scope : Scopes,
                        since : 0..SeqMax \union {None}, next : 0..SeqMax]]
      /\ heard \in [Readers -> SUBSET Entries]
      /\ reader[r].next <= next
  BY <1>1 DEF IInv, TypeOK, NothingUndoneIsRead
<1>3. PlacesStayClosed'
  BY <1>1 DEF GoneInv, PlacesStayClosed
<1>4. \A q \in Readers : q # r => reader'[q] = reader[q] /\ heard'[q] = heard[q]
  BY <1>2 DEF AnswerWait, Answered
<1>5. reader'[r].scope = scope
  BY <1>2 DEF AnswerWait, Answered
<1>6. /\ reader'[r].state = "gone" => scope \notin open
      /\ reader'[r].state = "stopped" => \E entry \in heard'[r] : entry.event.stops
  <2>1. CASE exhausted
    <3>1. reader'[r].state = "failed"
      BY <1>2, <2>1 DEF AnswerWait, Answered
    <3> QED
      BY <3>1
  <2>2. CASE ~exhausted
    <3>1. /\ reader'[r].state = batch.status \/ reader'[r].state = "waiting"
          /\ heard'[r] = heard[r] \union batch.events
      BY <1>1, <1>2, <2>2 DEF AnswerWait, Answered
    <3>2. scope \in Scopes /\ reader[r].next \in 0..next
      BY <1>2 DEF IInv, TypeOK
    <3>3. /\ batch.status = "gone" => scope \notin open
          /\ batch.status = "stopped" =>
                \E entry \in batch.events : entry.event.stops
      BY <3>2, BatchEndsTruly DEF IInv, GoneInv, PlacesStayClosed
    <3> HIDE DEF batch, scope
    <3> QED
      BY <3>1, <3>3
  <2> QED
    BY <2>1, <2>2
<1>7. GoneIsGone'
  BY <1>1, <1>4, <1>5, <1>6 DEF GoneInv, GoneIsGone
<1> QED
  BY <1>3, <1>7 DEF GoneInv

\* Every step, one by one.
LEMMA StepKeepsGone == IInv /\ GoneInv /\ [Next]_vars => GoneInv'
<1> SUFFICES ASSUME IInv, GoneInv, [Next]_vars PROVE GoneInv'
  OBVIOUS
<1>1. CASE Begin
  <2>1. /\ mark = None /\ mark' = next /\ next # None /\ before' = open
        /\ next = Len(log)
        /\ UNCHANGED <<open, reader, heard, log>>
    BY <1>1 DEF Begin, IInv, TypeOK, RingIsLogTail
  <2> QED
    BY <2>1 DEF GoneInv, PlacesStayClosed, GoneIsGone
<1>2. CASE Commit
  <2>1. /\ mark # None /\ mark' = None
        /\ UNCHANGED <<open, reader, heard, log>>
    BY <1>2 DEF Commit
  <2> QED
    BY <2>1 DEF GoneInv, PlacesStayClosed, GoneIsGone
<1>3. CASE RollBack
  <2>1. /\ mark # None /\ mark' = None /\ open' = before
        /\ Truncate(mark) /\ log' = SubSeq(log, 1, mark)
        /\ UNCHANGED <<reader, heard>>
        /\ mark \in Nat /\ mark <= next
    BY <1>3 DEF RollBack, IInv, TypeOK, MarkIsPast
  <2>2. Len(log') = mark /\ \A i \in 1..mark : log'[i] = log[i]
    BY <2>1, UndoKeepsTail DEF IInv
  <2> QED
    BY <2>1, <2>2 DEF GoneInv, PlacesStayClosed, GoneIsGone
<1>4. CASE Stop
  BY <1>4, EventTypes, PushKeepsGone DEF Stop, Stopped
<1>5. ASSUME NEW names \in SUBSET Places, PushNews(names)
      PROVE  GoneInv'
  BY <1>5, EventTypes, PushKeepsGone DEF PushNews, News
<1>6. ASSUME NEW place \in Places, PushClosed(place)
      PROVE  GoneInv'
  BY <1>6, EventTypes, PushKeepsGone DEF PushClosed, Closed
<1>7. ASSUME NEW r \in Readers, NEW from \in 0..SeqMax, Ask(r, from)
      PROVE  GoneInv'
  <2>1. UNCHANGED <<mark, before, open, heard, log>>
    BY <1>7 DEF Ask
  <2>2. \A q \in Readers : q # r => reader'[q] = reader[q]
    BY <1>7 DEF Ask, IInv, TypeOK
  <2>3. reader'[r].state \in {"waiting", "failed"}
    BY <1>7 DEF Ask, IInv, TypeOK
  <2>4. PlacesStayClosed'
    BY <2>1 DEF GoneInv, PlacesStayClosed
  <2>5. GoneIsGone'
    BY <2>1, <2>2, <2>3 DEF GoneInv, GoneIsGone
  <2> QED
    BY <2>4, <2>5 DEF GoneInv
<1>8. ASSUME NEW r \in Readers, NEW late \in BOOLEAN, AnswerWait(r, late)
      PROVE  GoneInv'
  BY <1>8, AnswerKeepsGone
<1>9. CASE UNCHANGED vars
  BY <1>9 DEF vars, GoneInv, PlacesStayClosed, GoneIsGone
<1> QED
  BY <1>1, <1>2, <1>3, <1>4, <1>5, <1>6, <1>7, <1>8, <1>9 DEF Next

\* At first every place is there and nobody was told anything.
LEMMA InitGone == Init => GoneInv
<1> SUFFICES ASSUME Init PROVE GoneInv
  OBVIOUS
<1>1. mark = None /\ Len(log) = 0
  BY DEF Init
<1>2. \A r \in Readers : reader[r].state = "idle"
  BY DEF Init
<1> QED
  BY <1>1, <1>2 DEF GoneInv, PlacesStayClosed, GoneIsGone

-----------------------------------------------------------------------------
(* What the journal promises its readers, step by step.                    *)

\* The record of what happened, which an open change is no part of yet.
Happened == IF mark = None THEN log ELSE SubSeq(log, 1, mark)

\* How far a reader was given it, and which positions of it.
Reached == [r \in Readers |->
               IF reader[r].since = None THEN -1 ELSE reader[r].next]
Given == [r \in Readers |-> {entry.seq + 1 : entry \in heard[r]}]
Scope == [r \in Readers |-> reader[r].scope]

\* The first of what happened is a part of the log, and what is recorded
\* later leaves it as it was.
LEMMA FirstOfTheLog ==
    ASSUME TypeOK, NEW m \in Nat, m <= Len(log)
    PROVE  /\ SubSeq(log, 1, m) \in Seq(Events)
           /\ Len(SubSeq(log, 1, m)) = m
           /\ \A i \in 1..m : SubSeq(log, 1, m)[i] = log[i]
           /\ SubSeq(log, 1, Len(log)) = log
<1>1. log \in Seq(Events) /\ Len(log) \in Nat
  BY LenProperties DEF TypeOK
<1>2. \A i \in 1..m : log[i] \in Events
  BY <1>1, ElementOfSeq
<1>3. /\ SubSeq(log, 1, m) \in Seq(Events)
      /\ Len(SubSeq(log, 1, m)) = m
      /\ \A i \in 1..m : SubSeq(log, 1, m)[i] = log[i]
  BY <1>1, <1>2, SubSeqProperties
<1>4. SubSeq(log, 1, Len(log)) = log
  <2>1. \A i \in 1..Len(log) : log[i] \in Events
    BY <1>1, ElementOfSeq
  <2>2. /\ SubSeq(log, 1, Len(log)) \in Seq(Events)
        /\ Len(SubSeq(log, 1, Len(log))) = Len(log)
        /\ \A i \in 1..Len(log) : SubSeq(log, 1, Len(log))[i] = log[i]
    BY <1>1, <2>1, SubSeqProperties
  <2> QED
    BY <1>1, <2>2, SeqEqual
<1> QED
  BY <1>3, <1>4

\* What happened is a sequence of events as long as the journal had numbers
\* given when no change was open.
LEMMA HappenedSoFar ==
    ASSUME IInv
    PROVE  /\ Happened \in Seq(Events)
           /\ Len(Happened) = (IF mark = None THEN next ELSE mark)
           /\ Len(Happened) \in Nat
           /\ Len(Happened) <= Len(log)
           /\ \A i \in 1..Len(Happened) : Happened[i] = log[i]
<1>1. log \in Seq(Events) /\ Len(log) \in Nat /\ next = Len(log)
  BY LenProperties DEF IInv, TypeOK, RingIsLogTail
<1>2. CASE mark = None
  BY <1>1, <1>2 DEF Happened
<1>3. CASE mark # None
  <2>1. mark \in Nat /\ mark <= Len(log)
    BY <1>1, <1>3 DEF IInv, TypeOK, MarkIsPast
  <2> QED
    BY <1>1, <1>3, <2>1, FirstOfTheLog DEF Happened, IInv
<1> QED
  BY <1>2, <1>3

\* A longer record that begins as this one did: it happened.
LEMMA HappensAfter ==
    ASSUME IInv, UNCHANGED <<reader, heard, missed>>, Happened' \in Seq(Events),
           Len(Happened) <= Len(Happened'),
           \A i \in 1..Len(Happened) : Happened'[i] = Happened[i]
    PROVE  Feed!Happen
<1>1. /\ Happened \in Seq(Events) /\ Len(Happened) \in Nat
      /\ Happened' \in Seq(Events)
  BY HappenedSoFar
<1>2. SubSeq(Happened', 1, Len(Happened)) = Happened
  <2> DEFINE first == Happened
             all == Happened'
  <2>1. all \in Seq(Events) /\ first \in Seq(Events) /\ Len(first) \in Nat
        /\ Len(first) <= Len(all) /\ Len(all) \in Nat
        /\ \A i \in 1..Len(first) : all[i] = first[i]
    BY <1>1, LenProperties
  <2> HIDE DEF first, all
  <2>2. \A i \in 1..Len(first) : all[i] \in Events
    BY <2>1, ElementOfSeq
  <2>3. /\ SubSeq(all, 1, Len(first)) \in Seq(Events)
        /\ Len(SubSeq(all, 1, Len(first))) = Len(first)
        /\ \A i \in 1..Len(first) : SubSeq(all, 1, Len(first))[i] = all[i]
    BY <2>1, <2>2, SubSeqProperties
  <2>4. SubSeq(all, 1, Len(first)) = first
    BY <2>1, <2>3, SeqEqual
  <2> QED
    BY <2>4 DEF first, all
<1> QED
  BY <1>2 DEF Feed!Happen, Happened

\* The same record, and nobody given more: nothing happened.
LEMMA NothingHappens ==
    ASSUME UNCHANGED <<Happened, Reached, Given, Scope, missed>>
    PROVE  UNCHANGED Feed!feed
BY DEF Feed!feed, Happened, Reached, Given, Scope

\* A push in an open change is no part of what happened yet, and any other
\* happens at once.
LEMMA PushHappens ==
    ASSUME IInv, NEW event \in Events, Record(event),
           UNCHANGED <<mark, reader, heard, missed>>
    PROVE  Feed!Happen \/ UNCHANGED Feed!feed
<1>1. /\ log' \in Seq(Events) /\ LogGrows
      /\ log \in Seq(Events) /\ Len(log) \in Nat /\ Len(log') \in Nat
      /\ next = Len(log)
  BY RecordKeepsTail, LenProperties DEF IInv, TypeOK, RingIsLogTail
<1>2. Len(log) <= Len(log')
  BY <1>1 DEF LogGrows
<1>3. CASE mark = None
  <2>1. Happened = log /\ Happened' = log'
    BY <1>3 DEF Happened
  <2>2. \A i \in 1..Len(log) : log'[i] = log[i]
    BY <1>1 DEF LogGrows
  <2> QED
    BY <1>1, <1>2, <2>1, <2>2, HappensAfter
<1>4. CASE mark # None
  <2>1. mark \in Nat /\ mark <= Len(log) /\ mark <= Len(log')
    BY <1>1, <1>2, <1>4 DEF IInv, TypeOK, MarkIsPast
  <2>2. Happened = SubSeq(log, 1, mark) /\ Happened' = SubSeq(log', 1, mark)
    BY <1>4 DEF Happened
  <2>3. /\ SubSeq(log, 1, mark) \in Seq(Events)
        /\ Len(SubSeq(log, 1, mark)) = mark
        /\ \A i \in 1..mark : SubSeq(log, 1, mark)[i] = log[i]
    BY <2>1, FirstOfTheLog DEF IInv
  <2>4. \A i \in 1..mark : log'[i] \in Events
    BY <1>1, <2>1, ElementOfSeq
  <2>5. /\ SubSeq(log', 1, mark) \in Seq(Events)
        /\ Len(SubSeq(log', 1, mark)) = mark
        /\ \A i \in 1..mark : SubSeq(log', 1, mark)[i] = log'[i]
    BY <2>1, <2>4, SubSeqProperties
  <2>6. \A i \in 1..mark : log'[i] = log[i]
    BY <1>1, <2>1 DEF LogGrows
  <2>7. SubSeq(log', 1, mark) = SubSeq(log, 1, mark)
    BY <2>3, <2>5, <2>6, SeqEqual
  <2>8. UNCHANGED <<Happened, Reached, Given, Scope, missed>>
    BY <2>2, <2>7 DEF Reached, Given, Scope
  <2> QED
    BY <2>8, NothingHappens
<1> QED
  BY <1>3, <1>4

\* Reader::new starts a reader on the record, or lets it go on.
LEMMA AskStarts ==
    ASSUME IInv, NEW r \in Readers, NEW from \in 0..SeqMax, Ask(r, from)
    PROVE  Feed!Start(r) \/ UNCHANGED Feed!feed
<1>1. /\ mark = None /\ from <= next
      /\ reader[r].since # None => from = reader[r].next
      /\ UNCHANGED <<mark, log, heard, missed>>
  BY DEF Ask
<1>2. /\ reader \in [Readers -> [state : States, scope : Scopes,
                        since : 0..SeqMax \union {None}, next : 0..SeqMax]]
      /\ from # None
  BY DEF IInv, TypeOK
<1>3. /\ reader'[r].scope = reader[r].scope
      /\ reader'[r].since = (IF reader[r].since = None THEN from ELSE reader[r].since)
      /\ reader'[r].next = from
      /\ \A q \in Readers \ {r} : reader'[q] = reader[q]
  BY <1>2 DEF Ask
<1>4. UNCHANGED <<Happened, Given, Scope>>
  BY <1>1, <1>3 DEF Happened, Given, Scope
<1>5. CASE reader[r].since # None
  <2>1. Reached' = Reached
    BY <1>1, <1>3, <1>5 DEF Reached
  <2> QED
    BY <1>1, <1>4, <2>1, NothingHappens
<1>6. CASE reader[r].since = None
  <2>1. Reached[r] = -1
    BY <1>6 DEF Reached
  <2>2. Reached' = [Reached EXCEPT ![r] = from]
    <3>1. \A q \in Readers :
             Reached'[q] = IF q = r THEN from ELSE Reached[q]
      BY <1>2, <1>3, <1>6 DEF Reached
    <3>2. /\ Reached = [q \in Readers |-> Reached[q]]
          /\ Reached' = [q \in Readers |-> Reached'[q]]
      BY DEF Reached
    <3> HIDE DEF Reached
    <3> QED
      BY <3>1, <3>2
  <2>3. from \in 0..Len(Happened)
    BY <1>1, HappenedSoFar
  <2> QED
    BY <1>1, <1>4, <2>1, <2>2, <2>3 DEF Feed!Start, Reached, Happened, Given, Scope
<1> QED
  BY <1>5, <1>6

\* Reader::batch gives what its scope wants, and counts as missed at least
\* what it wants and is not given.
LEMMA BatchIsOwedNothing ==
    ASSUME TypeOK, RingIsLogTail, NEW scope \in Scopes, NEW from \in 0..next
    PROVE  LET batch == Batch(scope, from)
               given == {entry.seq + 1 : entry \in batch.events}
               wanted == {i \in from + 1..batch.next : Wants(scope, log[i])}
           IN  /\ given \subseteq wanted
               /\ IsFiniteSet(wanted \ given)
               /\ batch.missed >= Cardinality(wanted \ given)
<1> DEFINE ahead == {i \in DOMAIN entries : entries[i].seq >= from}
           ending == {i \in ahead : Ends(scope, entries[i].event)}
           read == {i \in ahead : \A j \in ending : i <= j}
           last == {entries[i] : i \in read \intersect ending}
           scanned == {entries[i] : i \in read}
           to == IF last = {} THEN next ELSE (CHOOSE e \in last : TRUE).seq + 1
           lacking == (from..to - 1) \ {e.seq : e \in scanned}
           batch == Batch(scope, from)
           given == {entry.seq + 1 : entry \in batch.events}
           wanted == {i \in from + 1..batch.next : Wants(scope, log[i])}
<1>1. /\ batch.events = {e \in scanned : Wants(scope, e.event)}
      /\ batch.missed = Cardinality(lacking)
      /\ batch.next = to
  BY DEF Batch
<1>2. /\ batch.events \in SUBSET Entries
      /\ batch.next \in from..next
      /\ \A entry \in batch.events :
            /\ entry.seq \in from..batch.next - 1
            /\ entry.event = log[entry.seq + 1]
  BY BatchReadsLog
<1>3. \A e \in scanned : e.event = log[e.seq + 1] /\ e.seq \in Nat
  <2>1. \A i \in DOMAIN entries : entries[i].event = log[entries[i].seq + 1]
    BY DEF RingIsLogTail
  <2>2. \A i \in DOMAIN entries : entries[i].seq \in Nat
    <3>1. entries \in Seq(Entries) /\ DOMAIN entries = 1..Len(entries)
      BY LenProperties DEF TypeOK
    <3>2. \A i \in 1..Len(entries) : entries[i] \in Entries
      BY <3>1, ElementOfSeq
    <3> QED
      BY <3>1, <3>2 DEF Entries
  <2> QED
    BY <2>1, <2>2
<1>4. from \in Nat /\ next \in Nat /\ batch.next \in Nat
  BY <1>2 DEF TypeOK
<1> HIDE DEF scanned, to, batch
<1>5. given \subseteq wanted
  <2> SUFFICES ASSUME NEW entry \in batch.events
               PROVE  /\ entry.seq + 1 \in from + 1..batch.next
                      /\ Wants(scope, log[entry.seq + 1])
    OBVIOUS
  <2>1. /\ entry.seq \in from..batch.next - 1
        /\ entry.event = log[entry.seq + 1]
        /\ Wants(scope, entry.event)
    BY <1>1, <1>2
  <2> QED
    BY <1>4, <2>1
<1>6. IsFiniteSet(lacking)
  <2>1. IsFiniteSet(from..to - 1)
    BY <1>1, <1>4, FS_Interval
  <2> QED
    BY <2>1, FS_Difference
<1>7. \A i \in wanted \ given : i - 1 \in lacking
  <2> SUFFICES ASSUME NEW i \in wanted, i \notin given, i - 1 \notin lacking
               PROVE  FALSE
    OBVIOUS
  <2>1. i \in from + 1..to /\ Wants(scope, log[i])
    BY <1>1
  <2>2. i - 1 \in from..to - 1
    BY <1>1, <1>4, <2>1
  <2>3. PICK e \in scanned : e.seq = i - 1
    BY <2>2
  <2>4. e.seq + 1 = i
    BY <1>4, <2>1, <2>3
  <2>5. e \in batch.events
    BY <1>1, <1>3, <2>1, <2>3, <2>4
  <2> QED
    BY <2>4, <2>5
<1> DEFINE left == wanted \ given
<1>8. left \subseteq Int
  BY <1>4
<1> HIDE DEF lacking, given, wanted, left
<1>9. IsFiniteSet(left) /\ Cardinality(left) <= Cardinality(lacking)
  <2> DEFINE back == [i \in left |-> i - 1]
  <2>1. back \in Injection(left, lacking)
    <3>1. back \in [left -> lacking]
      BY <1>7 DEF left
    <3>2. \A i, j \in left : back[i] = back[j] => i = j
      BY <1>8
    <3> QED
      BY <3>1, <3>2 DEF Injection, IsInjective
  <2> QED
    BY <1>6, <2>1, FS_Injection
<1>10. Cardinality(left) \in Nat /\ Cardinality(lacking) \in Nat
  BY <1>6, <1>9, FS_CardinalityType
<1> QED
  BY <1>1, <1>5, <1>9, <1>10 DEF given, wanted, batch, left

\* The promise counts as the journal does.
LEMMA CountedAlike == ASSUME NEW S PROVE Feed!Cardinality(S) = Cardinality(S)
BY DEF Feed!Cardinality, Cardinality

\* Read::answer gives a reader a batch of what happened, and owns to at least
\* as much as it leaves out.
LEMMA AnswerGives ==
    ASSUME IInv, NEW r \in Readers, NEW late \in BOOLEAN, AnswerWait(r, late)
    PROVE  Feed!Give(r) \/ UNCHANGED Feed!feed
<1> DEFINE scope == reader[r].scope
           from == reader[r].next
           batch == Batch(scope, from)
           now == {entry.seq + 1 : entry \in batch.events}
<1>1. /\ mark = None /\ reader[r].state = "waiting"
      /\ UNCHANGED <<entries, next, exhausted, mark, before, open, stopped, log>>
  BY DEF AnswerWait, Answered
<1>2. /\ reader \in [Readers -> [state : States, scope : Scopes,
                        since : 0..SeqMax \union {None}, next : 0..SeqMax]]
      /\ heard \in [Readers -> SUBSET Entries] /\ missed \in [Readers -> Nat]
      /\ from <= next /\ from \in Nat /\ next \in Nat
      /\ reader[r].since # None
  BY <1>1 DEF IInv, TypeOK, NothingUndoneIsRead, NewReadersAreIdle
<1>3. Happened' = Happened /\ Happened = log /\ Len(Happened) = next
  BY <1>1, HappenedSoFar DEF Happened
<1>4. CASE exhausted
  <2>1. /\ reader' = [reader EXCEPT ![r].state = "failed"]
        /\ UNCHANGED <<heard, missed>>
    BY <1>4 DEF AnswerWait, Answered
  <2>2. UNCHANGED <<Reached, Given, Scope>>
    BY <1>2, <2>1 DEF Reached, Given, Scope
  <2> QED
    BY <1>3, <2>1, <2>2, NothingHappens
<1>5. CASE ~exhausted
  <2>1. /\ reader'[r].next = batch.next
        /\ reader'[r].since = reader[r].since
        /\ reader'[r].scope = scope
        /\ heard'[r] = heard[r] \union batch.events
        /\ missed'[r] = missed[r] + batch.missed
        /\ \A q \in Readers \ {r} : /\ reader'[q] = reader[q]
                                     /\ heard'[q] = heard[q]
                                     /\ missed'[q] = missed[q]
    BY <1>2, <1>5 DEF AnswerWait, Answered
  <2>2. scope \in Scopes /\ from \in 0..next
    BY <1>2
  <2> DEFINE wanted == {i \in from + 1..batch.next : Wants(scope, log[i])}
  <2>3. /\ now \subseteq wanted
        /\ IsFiniteSet(wanted \ now)
        /\ batch.missed >= Cardinality(wanted \ now)
    BY <2>2, BatchIsOwedNothing DEF IInv
  <2>4. batch.next \in from..next /\ batch.missed \in Nat
    BY <2>2, BatchReadsLog DEF IInv
  <2> HIDE DEF batch, now, wanted
  <2>5. /\ Reached[r] = from /\ Reached'[r] = batch.next
        /\ \A q \in Readers \ {r} : Reached'[q] = Reached[q]
        /\ Scope' = Scope /\ Scope[r] = scope
    BY <1>2, <2>1 DEF Reached, Scope
  <2>6. Reached' = [Reached EXCEPT ![r] = batch.next]
    <3>1. /\ Reached = [q \in Readers |-> Reached[q]]
          /\ Reached' = [q \in Readers |-> Reached'[q]]
      BY DEF Reached
    <3> HIDE DEF Reached
    <3> QED
      BY <2>5, <3>1
  <2>7. /\ Given'[r] = Given[r] \union now
        /\ \A q \in Readers \ {r} : Given'[q] = Given[q]
    BY <2>1 DEF Given, now
  <2> DEFINE asked == {i \in Reached[r] + 1..batch.next :
                          Wants(Scope[r], Happened[i])}
  <2>8. asked = wanted
    BY <1>3, <2>5 DEF wanted
  <2> HIDE DEF asked
  <2>9. /\ Given[r] \subseteq Given'[r]
        /\ Given'[r] \ Given[r] \subseteq asked
        /\ missed'[r] - missed[r] >= Cardinality(asked \ Given'[r])
    <3>1. asked \ Given'[r] \in SUBSET (wanted \ now)
      BY <2>7, <2>8
    <3>2. /\ IsFiniteSet(asked \ Given'[r])
          /\ Cardinality(asked \ Given'[r]) <= Cardinality(wanted \ now)
      BY <2>3, <3>1, FS_Subset
    <3>3. Cardinality(asked \ Given'[r]) \in Nat /\ Cardinality(wanted \ now) \in Nat
      BY <2>3, <3>2, FS_CardinalityType
    <3>4. missed'[r] - missed[r] = batch.missed
      <4>1. missed[r] \in Nat
        BY <1>2
      <4> QED
        BY <2>1, <2>4, <4>1
    <3>5. missed'[r] - missed[r] >= Cardinality(asked \ Given'[r])
      BY <2>3, <2>4, <3>2, <3>3, <3>4
    <3> QED
      BY <2>3, <2>7, <2>8, <3>5
  <2>10. batch.next \in Reached[r]..Len(Happened) /\ Reached[r] # -1
    BY <1>2, <1>3, <2>4, <2>5
  <2>11. /\ Reached[r] # -1
         /\ \E n \in Reached[r]..Len(Happened) :
               LET wants == {i \in Reached[r] + 1..n : Wants(Scope[r], Happened[i])}
               IN  /\ Reached' = [Reached EXCEPT ![r] = n]
                   /\ Given[r] \subseteq Given'[r]
                   /\ Given'[r] \ Given[r] \subseteq wants
                   /\ missed'[r] - missed[r] >= Cardinality(wants \ Given'[r])
         /\ \A q \in Readers \ {r} : Given'[q] = Given[q] /\ missed'[q] = missed[q]
         /\ UNCHANGED <<Happened, Scope>>
    BY <1>3, <2>1, <2>5, <2>6, <2>7, <2>9, <2>10 DEF asked
  <2> QED
    BY <2>11, CountedAlike DEF Feed!Give, Reached, Given, Scope, Happened
<1> QED
  BY <1>4, <1>5

\* Every step of the journal is one of the promise, or nothing that its
\* readers could tell.
LEMMA StepKeepsPromise == IInv /\ [Next]_vars => [Feed!Next]_(Feed!feed)
<1> SUFFICES ASSUME IInv, [Next]_vars PROVE [Feed!Next]_(Feed!feed)
  OBVIOUS
<1>1. CASE Begin
  <2>1. /\ mark = None /\ mark' = next /\ next # None /\ next = Len(log)
        /\ UNCHANGED <<reader, heard, missed, log>>
    BY <1>1 DEF Begin, IInv, TypeOK, RingIsLogTail
  <2>2. SubSeq(log, 1, Len(log)) = log
    BY FirstOfTheLog, LenProperties DEF IInv, TypeOK
  <2>3. UNCHANGED <<Happened, Reached, Given, Scope, missed>>
    BY <2>1, <2>2 DEF Happened, Reached, Given, Scope
  <2> QED
    BY <2>3, NothingHappens
<1>2. CASE Commit
  <2>1. /\ mark' = None /\ UNCHANGED <<reader, heard, missed, log>>
    BY <1>2 DEF Commit
  <2>2. Happened' = log /\ log \in Seq(Events)
    BY <2>1 DEF Happened, IInv, TypeOK
  <2>3. Len(Happened) <= Len(log) /\ \A i \in 1..Len(Happened) : Happened[i] = log[i]
    BY HappenedSoFar
  <2>4. Feed!Happen
    BY <2>1, <2>2, <2>3, HappensAfter
  <2> QED
    BY <2>4 DEF Feed!Next
<1>3. CASE RollBack
  <2>1. UNCHANGED <<Happened, Reached, Given, Scope, missed>>
    BY <1>3 DEF RollBack, Happened, Reached, Given, Scope
  <2> QED
    BY <2>1, NothingHappens
<1>4. CASE Stop
  <2>1. Feed!Happen \/ UNCHANGED Feed!feed
    BY <1>4, EventTypes, PushHappens DEF Stop
  <2> QED
    BY <2>1 DEF Feed!Next
<1>5. ASSUME NEW names \in SUBSET Places, PushNews(names)
      PROVE  [Feed!Next]_(Feed!feed)
  <2>1. Feed!Happen \/ UNCHANGED Feed!feed
    BY <1>5, EventTypes, PushHappens DEF PushNews
  <2> QED
    BY <2>1 DEF Feed!Next
<1>6. ASSUME NEW place \in Places, PushClosed(place)
      PROVE  [Feed!Next]_(Feed!feed)
  <2>1. Feed!Happen \/ UNCHANGED Feed!feed
    BY <1>6, EventTypes, PushHappens DEF PushClosed
  <2> QED
    BY <2>1 DEF Feed!Next
<1>7. ASSUME NEW r \in Readers, NEW from \in 0..SeqMax, Ask(r, from)
      PROVE  [Feed!Next]_(Feed!feed)
  <2>1. Feed!Start(r) \/ UNCHANGED Feed!feed
    BY <1>7, AskStarts
  <2> QED
    BY <2>1 DEF Feed!Next
<1>8. ASSUME NEW r \in Readers, NEW late \in BOOLEAN, AnswerWait(r, late)
      PROVE  [Feed!Next]_(Feed!feed)
  <2>1. Feed!Give(r) \/ UNCHANGED Feed!feed
    BY <1>8, AnswerGives
  <2> QED
    BY <2>1 DEF Feed!Next
<1>9. CASE UNCHANGED vars
  <2>1. UNCHANGED <<Happened, Reached, Given, Scope, missed>>
    BY <1>9 DEF vars, Happened, Reached, Given, Scope
  <2> QED
    BY <2>1, NothingHappens
<1> QED
  BY <1>1, <1>2, <1>3, <1>4, <1>5, <1>6, <1>7, <1>8, <1>9 DEF Next

\* At first nothing has happened and nobody reads it.
LEMMA InitPromises == Init => Feed!Init
BY DEF Init, Feed!Init

-----------------------------------------------------------------------------
(* The theorems.                                                           *)

\* The inductive invariant holds throughout every run of the journal: the
\* safety theorems below are its parts.
THEOREM IInvHolds == Spec => []IInv
  BY InitIInv, StepKeepsIInv, PTL DEF Spec

\* The journal's numbers, its ring and its readers' cursors keep their types,
\* however many events there are and whichever changes are undone.
THEOREM TypeCorrect == Spec => []TypeOK
<1>1. IInv => TypeOK
  BY DEF IInv
<1> QED
  BY <1>1, IInvHolds, PTL

\* The ring is always the consecutive tail of what was pushed and not undone.
THEOREM RingHolds == Spec => []RingIsLogTail
<1>1. IInv => RingIsLogTail
  BY DEF IInv
<1> QED
  BY <1>1, IInvHolds, PTL

\* No reader is ever given an event of a change that is undone.
THEOREM ReadersKeepHistory == Spec => []NothingUndoneIsRead
<1>1. IInv => NothingUndoneIsRead
  BY DEF IInv
<1> QED
  BY <1>1, IInvHolds, PTL

\* Whatever a reader is told at its end is so: a scope it hears is gone was
\* there neither before nor after a change that is undone, and the stop it
\* hears of is one it read.
THEOREM GoneHolds == Spec => []GoneIsGone
<1>1. GoneInv => GoneIsGone
  BY DEF GoneInv
<1>2. Spec => []GoneInv
  BY InitGone, StepKeepsGone, IInvHolds, PTL DEF Spec
<1> QED
  BY <1>1, <1>2, PTL

\* The journal keeps its promise: what clients read is one growing record,
\* each is given it in order and whole, and what it is not given it is told of.
THEOREM PromiseKept == Spec => KeepsItsPromise
<1>1. Spec => Feed!Init /\ [][Feed!Next]_(Feed!feed)
  BY InitPromises, StepKeepsPromise, IInvHolds, PTL DEF Spec
<1> QED
  BY <1>1, PTL DEF KeepsItsPromise, Feed!Spec
=============================================================================
