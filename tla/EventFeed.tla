------------------------------ MODULE EventFeed ------------------------------
(***************************************************************************)
(* What the journal promises its readers (docs/records.md, the module      *)
(* comments of fux-server/src/journal.rs): one growing record of what      *)
(* happened, of which each client is given, batch by batch and in order,   *)
(* the events its scope wants, and told how many it was not given.         *)
(* Nothing is given twice, nothing that did not happen is given, and no    *)
(* event is left out untold.                                               *)
(***************************************************************************)
EXTENDS Integers, Sequences, FiniteSets

CONSTANTS
    Readers,
    Wanted(_, _)    \* whether a scope wants an event

VARIABLES
    record,     \* what happened, in order
    scope,      \* what each reader reads
    at,         \* how far each reader was given it; -1 before it first asks
    given,      \* the positions each reader was given
    owned       \* how many events each reader was told it missed

feed == <<record, scope, at, given, owned>>

Init ==
    /\ record = <<>>
    /\ at = [r \in Readers |-> -1]
    /\ given = [r \in Readers |-> {}]
    /\ owned = [r \in Readers |-> 0]

\* A change happens, whole: what it did is on record, in order.
Happen ==
    /\ Len(record') >= Len(record)
    /\ SubSeq(record', 1, Len(record)) = record
    /\ UNCHANGED <<scope, at, given, owned>>

\* A client begins to read at a position of the record.
Start(r) ==
    /\ at[r] = -1
    /\ \E n \in 0..Len(record) : at' = [at EXCEPT ![r] = n]
    /\ UNCHANGED <<record, scope, given, owned>>

\* A client is given a batch of what follows, and told what it is not given.
Give(r) ==
    /\ at[r] # -1
    /\ \E n \in at[r]..Len(record) :
          LET wanted == {i \in at[r] + 1..n : Wanted(scope[r], record[i])}
          IN  /\ at' = [at EXCEPT ![r] = n]
              /\ given[r] \subseteq given'[r]
              /\ given'[r] \ given[r] \subseteq wanted
              /\ owned'[r] - owned[r] >= Cardinality(wanted \ given'[r])
    /\ \A q \in Readers \ {r} : given'[q] = given[q] /\ owned'[q] = owned[q]
    /\ UNCHANGED <<record, scope>>

Next == Happen \/ \E r \in Readers : Start(r) \/ Give(r)

Spec == Init /\ [][Next]_feed
=============================================================================
