---------------------------- MODULE PaneLife_proofs ----------------------------
(* Proofs of PaneLife's safety, for every number of programs, every bound  *)
(* on what they write and every way a read may be split into turns.        *)
EXTENDS PaneLife, FiniteSetTheorems, TLAPS

-----------------------------------------------------------------------------
(* The inductive invariant, of a host `h` with leaders `l`: a handler      *)
(* leaves a set of hosts, some of them for leaders it reaps or starts.     *)

HostType ==
    [shell : BOOLEAN,
     process : {"reading", "hungup", "failed", "exited", "respawning"},
     gen : Programs, exiting : BOOLEAN, draining : BOOLEAN,
     pending : {"none", "unread", "frame"}, turns : 0..MaxTurns,
     resp : 0..MaxPrograms, old : 0..MaxPrograms, grace : BOOLEAN,
     late : BOOLEAN, leftover : 0..MaxPrograms, dying : SUBSET Deaths,
     killed : SUBSET Programs, closed : {"no", "fux", "end"},
     fuxs : SUBSET Programs, tty : [Programs -> 0..MaxWrites],
     told : [Programs -> 0..1], sigkill : SUBSET Programs,
     swept : SUBSET Programs, owed : [Programs -> 0..MaxWrites],
     lost : BOOLEAN, answered : Nat]

LeaderType == [Programs -> {"none", "runs", "zombie", "reaped"}]
Ended == {"zombie", "reaped"}

\* The programs hung up or whose grace is over.
Doomed(dying) == {d.p : d \in dying}

\* Each of them once.
DoomedOnce(dying) == \A d, e \in dying : d.p = e.p => d = e

\* Those held by a field of the host's own.
Kept(h) == {Child(h), h.resp, h.old, h.leftover} \ {None}

\* A respawn has no other program of its pane's but the one it replaces; what
\* is held to be read to its end is read to it.
FieldsApart(h) ==
    /\ h.resp # None => h.resp = h.gen + 1 /\ Child(h) = None
                        /\ h.leftover = None /\ h.closed = "no"
    /\ h.old # None => h.old = h.gen /\ h.resp # None /\ h.draining
    /\ h.leftover # None => h.leftover = h.gen /\ Child(h) = None /\ h.draining
    /\ h.process = "respawning" => h.resp # None \/ h.closed # "no"

\* A program that is not reaped is held, and in one place.
HeldOnce(h, l) ==
    /\ DoomedOnce(h.dying)
    /\ Doomed(h.dying) \intersect h.killed = {}
    /\ Kept(h) \intersect (Doomed(h.dying) \union h.killed) = {}
    /\ \A p \in Programs :
        l[p] \in {"runs", "zombie"} <=>
            p \in Kept(h) \union Doomed(h.dying) \union h.killed

\* How many programs were started.
Last(h) == h.answered + 1 + (IF h.resp # None THEN 1 ELSE 0)

StartedInOrder(h, l) ==
    /\ Last(h) <= MaxPrograms
    /\ \A p \in Programs : l[p] # "none" <=> p <= Last(h)
    /\ h.gen <= h.answered + 1
    /\ h.closed = "no" => h.gen = h.answered + 1

\* An exit is told of a program that ended, and is what its pane is told of.
ToldAsItEnds(h, l) ==
    /\ h.told[h.gen] = 1 <=> h.process = "exited"
    /\ \A p \in Programs : p > h.gen => h.told[p] = 0
    /\ h.exiting => h.process # "exited" /\ l[h.gen] \in Ended
    /\ \A p \in Programs : h.told[p] = 1 => l[p] \in Ended

\* What is owed is on the terminal of the program respawned over.
NothingLost(h) ==
    /\ ~h.lost
    /\ h.closed = "no" => \A p \in Programs : h.owed[p] > 0 => p = h.old
    /\ \A p \in Programs : h.owed[p] <= h.tty[p]

\* Its exit is heard of.
Heard(h, p) == h.told[p] = 1 \/ (h.exiting /\ p = h.gen)

\* A program ended by fux is known for that before it is killed, and all that
\* its pane has had are, or were heard to exit.
FuxsAreKnown(h, l) ==
    /\ \A p \in h.fuxs : p \in h.killed \/ l[p] = "reaped" => p \in h.swept
    /\ h.closed = "no" => \A p \in 1..(h.gen - 1) : p \in h.fuxs \/ h.told[p] = 1
    /\ h.resp # None => h.gen \in h.fuxs \/ Heard(h, h.gen)
    /\ h.closed = "fux" =>
        \A p \in Programs : l[p] # "none" => p \in h.fuxs \/ Heard(h, p)

Good(h, l) ==
    /\ h \in HostType
    /\ FieldsApart(h)
    /\ HeldOnce(h, l)
    /\ StartedInOrder(h, l)
    /\ ToldAsItEnds(h, l)
    /\ NothingLost(h)
    /\ FuxsAreKnown(h, l)

IInv ==
    /\ Good(host, leader)
    /\ leader \in LeaderType
    /\ holds \union jobs \subseteq Programs
    /\ done => Finished
USE BoundsAssumption, KindAssumption

-----------------------------------------------------------------------------
(* Hosts that differ in nothing the invariant is about.                    *)

\* The two agree on which programs there are and where they are held; more of
\* them may be known to be swept.
Alike(g, h) ==
    /\ g \in HostType
    /\ g.process = h.process /\ g.gen = h.gen
    /\ g.exiting = h.exiting /\ g.draining = h.draining
    /\ g.resp = h.resp /\ g.old = h.old /\ g.leftover = h.leftover
    /\ g.killed = h.killed /\ g.closed = h.closed /\ g.fuxs = h.fuxs
    /\ g.told = h.told /\ g.lost = h.lost /\ g.answered = h.answered
    /\ h.swept \subseteq g.swept
    /\ Doomed(g.dying) = Doomed(h.dying)
    /\ DoomedOnce(h.dying) => DoomedOnce(g.dying)

\* And on what is written and owed.
SameOutput(g, h) == g.tty = h.tty /\ g.owed = h.owed

\* What holds of one holds of the other, if nothing owed is lost.
LEMMA AlikeKeepsGood ==
    ASSUME NEW h, NEW g, NEW l, Good(h, l), Alike(g, h),
           NothingLost(g) \/ SameOutput(g, h)
    PROVE  Good(g, l)
<1>1. Child(g) = Child(h) /\ Kept(g) = Kept(h) /\ Last(g) = Last(h)
  BY DEF Alike, Child, Kept, Last
<1>2. FieldsApart(g)
  BY <1>1 DEF Good, Alike, FieldsApart
<1>3. HeldOnce(g, l)
  BY <1>1 DEF Good, Alike, HeldOnce
<1>4. StartedInOrder(g, l) /\ ToldAsItEnds(g, l)
  BY <1>1 DEF Good, Alike, StartedInOrder, ToldAsItEnds
<1>5. FuxsAreKnown(g, l)
  BY DEF Good, Alike, FuxsAreKnown, Heard
<1>6. NothingLost(g)
  BY DEF Good, Alike, SameOutput, NothingLost
<1> QED
  BY <1>2, <1>3, <1>4, <1>5, <1>6 DEF Good, Alike

\* Those that wait are those that waited (Pane::wait_unread).
LEMMA WaitIsAlike ==
    ASSUME NEW h \in HostType
    PROVE  Alike(WaitUnread(h), h) /\ SameOutput(WaitUnread(h), h)
<1> DEFINE aged(d) == [d EXCEPT !.first = @ /\ ~d.due]
           waits == {aged(d) : d \in h.dying}
<1>1. h.dying \subseteq Deaths
  BY DEF HostType
<1>2. \A d \in Deaths : aged(d) \in Deaths /\ aged(d).p = d.p
  BY DEF Deaths
<1> HIDE DEF aged
<1>3. waits \subseteq Deaths
  BY <1>1, <1>2
<1>4. Doomed(waits) = Doomed(h.dying)
  BY <1>1, <1>2 DEF Doomed
<1>5. DoomedOnce(h.dying) => DoomedOnce(waits)
  BY <1>1, <1>2 DEF DoomedOnce
<1>6. WaitUnread(h) = [h EXCEPT !.pending = "unread", !.dying = waits]
  BY DEF WaitUnread, aged
<1> HIDE DEF waits
<1>7. WaitUnread(h) \in HostType
  BY <1>3, <1>6 DEF HostType
<1> QED
  BY <1>4, <1>5, <1>6, <1>7 DEF Alike, SameOutput, HostType

\* What is put on the screen (Pane::read) changes nothing else.
LEMMA ShownIsAlike ==
    ASSUME NEW h \in HostType, NEW g \in Shown(h)
    PROVE  Alike(g, h) /\ SameOutput(g, h)
<1> DEFINE less == [h EXCEPT !.turns = @ - 1]
<1>1. CASE g = [h EXCEPT !.pending = "none"]
  BY <1>1 DEF Alike, SameOutput, HostType
<1>2. CASE h.turns # 0 /\ g \in {[less EXCEPT !.pending = "frame"], WaitUnread(less)}
  <2>1. less \in HostType /\ Alike(less, h) /\ SameOutput(less, h)
    BY <1>2 DEF Alike, SameOutput, HostType
  <2> HIDE DEF less
  <2>2. CASE g = [less EXCEPT !.pending = "frame"]
    BY <2>1, <2>2 DEF Alike, SameOutput, HostType
  <2>3. CASE g = WaitUnread(less)
    BY <2>1, <2>3, WaitIsAlike DEF Alike, SameOutput
  <2> QED
    BY <1>2, <2>2, <2>3
<1> QED
  BY <1>1, <1>2 DEF Shown

\* Nor does output (Pane::output).
LEMMA OutputIsAlike ==
    ASSUME NEW h \in HostType, NEW g \in Output(h)
    PROVE  Alike(g, h) /\ SameOutput(g, h)
<1> DEFINE more == [h EXCEPT !.turns = MaxTurns]
<1>1. more \in HostType /\ Alike(more, h) /\ SameOutput(more, h)
  BY DEF Alike, SameOutput, HostType
<1>2. g = more \/ g \in Shown(more)
  BY DEF Output
<1> HIDE DEF more
<1> QED
  BY <1>1, <1>2, ShownIsAlike DEF Alike, SameOutput

\* Nor a frame released, or what was unread.
LEMMA ReleaseIsAlike ==
    ASSUME NEW h \in HostType
    PROVE  /\ \A g \in ReleaseFrame(h) \union ReadUnread(h) : Alike(g, h) /\ SameOutput(g, h)
           /\ h.pending # "frame" => ReleaseFrame(h) = {h}
BY ShownIsAlike DEF ReleaseFrame, ReadUnread, Alike, SameOutput

-----------------------------------------------------------------------------
(* What reading a terminal may leave.                                      *)

\* A read that fails leaves the program where it was.
LEMMA FailedKeepsGood ==
    ASSUME NEW h, NEW l, Good(h, l)
    PROVE  /\ Good(ReadFailed(h), l)
           /\ ReadFailed(h).exiting = h.exiting
           /\ ReadFailed(h).closed = h.closed
           /\ ReadFailed(h).owed = h.owed
<1> DEFINE g == ReadFailed(h)
<1>1. CASE Child(h) = None
  BY <1>1 DEF ReadFailed
<1>2. CASE Child(h) # None
  <2>1. h \in HostType
    BY DEF Good
  <2>2. g = [h EXCEPT !.process = "failed"] /\ h.process \notin {"exited", "respawning"}
    BY <1>2 DEF ReadFailed, Child
  <2>3. /\ g \in HostType /\ g.process = "failed"
        /\ g.gen = h.gen /\ g.exiting = h.exiting /\ g.draining = h.draining
        /\ g.resp = h.resp /\ g.old = h.old /\ g.leftover = h.leftover
        /\ g.dying = h.dying /\ g.killed = h.killed /\ g.closed = h.closed
        /\ g.fuxs = h.fuxs /\ g.tty = h.tty /\ g.told = h.told
        /\ g.swept = h.swept /\ g.owed = h.owed
        /\ g.lost = h.lost /\ g.answered = h.answered
    BY <2>1, <2>2 DEF HostType
  <2> HIDE DEF g
  <2>4. Child(g) = Child(h) /\ Kept(g) = Kept(h) /\ Last(g) = Last(h)
    BY <1>2, <2>3 DEF Child, Kept, Last
  <2>5. FieldsApart(g) /\ HeldOnce(g, l) /\ StartedInOrder(g, l)
    BY <2>3, <2>4 DEF Good, FieldsApart, HeldOnce, StartedInOrder
  <2>6. ToldAsItEnds(g, l) /\ NothingLost(g) /\ FuxsAreKnown(g, l)
    BY <2>2, <2>3 DEF Good, ToldAsItEnds, NothingLost, FuxsAreKnown, Heard
  <2> QED
    BY <2>3, <2>5, <2>6 DEF Good, g
<1> QED
  BY <1>1, <1>2

\* What is taken from a terminal is owed no more.
LEMMA TakenKeepsGood ==
    ASSUME NEW h, NEW l, Good(h, l), NEW p \in Programs, NEW g \in TakeFrom(h, p)
    PROVE  Good(g, l) /\ g.exiting = h.exiting
<1>1. h \in HostType /\ h.tty \in [Programs -> 0..MaxWrites]
      /\ h.owed \in [Programs -> 0..MaxWrites]
  BY DEF Good, HostType
<1>2. PICK n \in 0..(h.tty[p] - 1) :
        g = [h EXCEPT !.tty[p] = n, !.owed[p] = IF @ > n THEN n ELSE @]
  BY DEF TakeFrom
<1> DEFINE tty == [h.tty EXCEPT ![p] = n]
           owed == [h.owed EXCEPT ![p] = IF @ > n THEN n ELSE @]
<1>3. /\ tty \in [Programs -> 0..MaxWrites] /\ owed \in [Programs -> 0..MaxWrites]
      /\ \A q \in Programs : h.owed[q] <= h.tty[q] => owed[q] <= tty[q]
      /\ \A q \in Programs : owed[q] > 0 => h.owed[q] > 0
  BY <1>1, <1>2
<1>4. g = [h EXCEPT !.tty = tty, !.owed = owed]
  BY <1>1, <1>2 DEF HostType
<1> HIDE DEF tty, owed
<1>5. Alike(g, h) /\ g.tty = tty /\ g.owed = owed
  BY <1>1, <1>3, <1>4 DEF Alike, HostType
<1>6. NothingLost(g)
  BY <1>3, <1>5 DEF Good, NothingLost, Alike
<1> QED
  BY <1>5, <1>6, AlikeKeepsGood DEF Alike

\* A kill is known of one that fux ended.
LEMMA KillKeepsGood ==
    ASSUME NEW h, NEW l, Good(h, l), NEW p \in Programs
    PROVE  /\ Good(Kill(h, p), l)
           /\ Kill(h, p).exiting = h.exiting
<1>1. h \in HostType
  BY DEF Good
<1>2. Alike(Kill(h, p), h) /\ SameOutput(Kill(h, p), h)
  BY <1>1 DEF HostType, Kill, Alike, SameOutput
<1> QED
  BY <1>2, AlikeKeepsGood DEF Alike

-----------------------------------------------------------------------------
(* Programs that are hung up.                                              *)

\* One more is dying.
LEMMA OneMoreDies ==
    ASSUME NEW D \in SUBSET Deaths, NEW p \in Programs, NEW due \in BOOLEAN
    PROVE  /\ D \union {Dies(p, due)} \in SUBSET Deaths
           /\ Doomed(D \union {Dies(p, due)}) = Doomed(D) \union {p}
           /\ DoomedOnce(D) /\ p \notin Doomed(D) => DoomedOnce(D \union {Dies(p, due)})
<1>1. Dies(p, due) \in Deaths /\ Dies(p, due).p = p
  BY DEF Dies, Deaths
<1> QED
  BY <1>1 DEF Doomed, DoomedOnce

\* What Host::drained changes keeps a host's type.
LEMMA TypedAsDrained ==
    ASSUME NEW h \in HostType, NEW dying \in SUBSET Deaths, NEW old \in 0..MaxPrograms
    PROVE  [h EXCEPT !.draining = FALSE, !.dying = dying, !.old = old,
                     !.leftover = None] \in HostType
<1> DEFINE g == [h EXCEPT !.draining = FALSE, !.dying = dying]
<1>1. g \in HostType
  BY DEF HostType
<1>2. [g EXCEPT !.old = old, !.leftover = None] \in HostType
  <2> HIDE DEF g
  <2>1. None \in 0..MaxPrograms
    BY DEF None
  <2> QED
    BY <1>1, <2>1 DEF HostType
<1> QED
  BY <1>2

\* Host::read_left is done: what it read to its end is dying.
LEMMA DrainedKeepsGood ==
    ASSUME NEW h, NEW l, Good(h, l),
           h.closed = "no" => \A p \in Programs : h.owed[p] = 0
    PROVE  Good(Drained(h), l) /\ Drained(h).exiting = h.exiting
<1> DEFINE D1 == IF h.resp # None /\ h.old # None
                 THEN {Dies(h.old, h.late \/ ~h.grace)} ELSE {}
           D2 == IF h.leftover # None THEN {Dies(h.leftover, TRUE)} ELSE {}
           D == h.dying \union D1 \union D2
           g == Drained(h)
<1>1. /\ h \in HostType /\ h.dying \in SUBSET Deaths
      /\ h.old \in Programs \union {None} /\ h.leftover \in Programs \union {None}
      /\ h.late \in BOOLEAN /\ h.grace \in BOOLEAN
      /\ h.resp \in Int /\ h.gen \in Int
  <2>1. h \in HostType
    BY DEF Good
  <2>2. MaxPrograms \in Nat
    OBVIOUS
  <2>3. /\ h.old \in 0..MaxPrograms /\ h.leftover \in 0..MaxPrograms
        /\ h.resp \in 0..MaxPrograms /\ h.gen \in Programs
        /\ h.dying \in SUBSET Deaths /\ h.late \in BOOLEAN /\ h.grace \in BOOLEAN
    BY <2>1 DEF HostType
  <2> QED
    BY <2>1, <2>2, <2>3 DEF Programs, None
<1>2. /\ h.old # None => h.resp # None /\ h.leftover = None
      /\ h.resp = None => h.old = None
  BY DEF Good, FieldsApart
<1>3. /\ D \in SUBSET Deaths
      /\ Doomed(D) = Doomed(h.dying) \union ({h.old, h.leftover} \ {None})
      /\ DoomedOnce(D)
  <2>1. {h.old, h.leftover} \intersect Doomed(h.dying) \subseteq {None} /\ DoomedOnce(h.dying)
    BY DEF Good, HeldOnce, Kept
  <2>2. CASE h.old # None
    <3> DEFINE due == h.late \/ ~h.grace
    <3>1. /\ D = h.dying \union {Dies(h.old, due)} /\ due \in BOOLEAN
          /\ h.old \in Programs /\ h.old \notin Doomed(h.dying)
      BY <1>1, <1>2, <2>1, <2>2
    <3> HIDE DEF D, D1, D2, due
    <3>2. /\ D \in SUBSET Deaths /\ Doomed(D) = Doomed(h.dying) \union {h.old}
          /\ DoomedOnce(D)
      BY <1>1, <2>1, <3>1, OneMoreDies
    <3> QED
      BY <1>2, <2>2, <3>2
  <2>3. CASE h.leftover # None
    <3>1. /\ D = h.dying \union {Dies(h.leftover, TRUE)}
          /\ h.leftover \in Programs /\ h.leftover \notin Doomed(h.dying)
      BY <1>1, <1>2, <2>1, <2>3
    <3> HIDE DEF D, D1, D2
    <3>2. /\ D \in SUBSET Deaths /\ Doomed(D) = Doomed(h.dying) \union {h.leftover}
          /\ DoomedOnce(D)
      BY <1>1, <2>1, <3>1, OneMoreDies
    <3> QED
      BY <1>2, <2>3, <3>2
  <2>4. CASE h.leftover = None /\ h.old = None
    BY <1>1, <2>1, <2>4
  <2> QED
    BY <2>2, <2>3, <2>4
<1>4. g = [h EXCEPT !.draining = FALSE, !.dying = D,
                    !.old = IF h.resp # None THEN None ELSE @, !.leftover = None]
  BY DEF Drained
<1> HIDE DEF D, D1, D2, g
<1>5. /\ g \in HostType /\ g.dying = D /\ g.old = None /\ g.leftover = None
      /\ g.tty = h.tty /\ g.owed = h.owed /\ g.process = h.process
      /\ g.gen = h.gen /\ g.exiting = h.exiting /\ g.draining = FALSE
      /\ g.resp = h.resp /\ g.killed = h.killed /\ g.closed = h.closed
      /\ g.fuxs = h.fuxs /\ g.told = h.told /\ g.swept = h.swept
      /\ g.lost = h.lost /\ g.answered = h.answered
  <2>1. /\ g.dying = D /\ g.leftover = None /\ g.draining = FALSE
        /\ g.old = IF h.resp # None THEN None ELSE h.old
    BY <1>1, <1>4 DEF HostType
  <2>2. g.old = None
    BY <1>2, <2>1
  <2>3. h.old \in 0..MaxPrograms /\ None \in 0..MaxPrograms
    BY <1>1 DEF HostType, None
  <2>4. g \in HostType
    <3>1. (IF h.resp # None THEN None ELSE h.old) \in 0..MaxPrograms
      BY <2>3
    <3> DEFINE old == IF h.resp # None THEN None ELSE h.old
    <3>2. g = [h EXCEPT !.draining = FALSE, !.dying = D, !.old = old, !.leftover = None]
      BY <1>1, <1>4 DEF HostType
    <3> HIDE DEF old
    <3> QED
      BY <3>1, <3>2, TypedAsDrained, <1>1, <1>3 DEF old
  <2>5. /\ g.tty = h.tty /\ g.owed = h.owed /\ g.process = h.process
        /\ g.gen = h.gen /\ g.exiting = h.exiting
        /\ g.resp = h.resp /\ g.killed = h.killed /\ g.closed = h.closed
        /\ g.fuxs = h.fuxs /\ g.told = h.told /\ g.swept = h.swept
        /\ g.lost = h.lost /\ g.answered = h.answered
    BY <1>1, <1>4 DEF HostType
  <2> QED
    BY <2>1, <2>2, <2>4, <2>5
<1>6. Child(g) = Child(h) /\ Kept(g) = {Child(h), h.resp} \ {None} /\ Last(g) = Last(h)
  BY <1>5 DEF Child, Kept, Last
<1>7. HeldOnce(g, l)
  <2>1. /\ Kept(h) = Kept(g) \union ({h.old, h.leftover} \ {None})
        /\ Kept(g) \intersect {h.old, h.leftover} = {}
    <3>1. FieldsApart(h)
      BY DEF Good
    <3>2. h.resp # None => h.resp # h.gen
      BY <1>1, <3>1 DEF FieldsApart
    <3> QED
      BY <1>6, <3>1, <3>2 DEF FieldsApart, Kept
  <2> QED
    BY <1>3, <1>5, <2>1 DEF Good, HeldOnce
<1>8. FieldsApart(g) /\ StartedInOrder(g, l)
  BY <1>5, <1>6 DEF Good, FieldsApart, StartedInOrder
<1>9. ToldAsItEnds(g, l) /\ FuxsAreKnown(g, l)
  BY <1>5 DEF Good, ToldAsItEnds, FuxsAreKnown, Heard
<1>10. NothingLost(g)
  BY <1>1, <1>5 DEF Good, NothingLost
<1> QED
  BY <1>5, <1>7, <1>8, <1>9, <1>10 DEF Good, g

\* Host::read_left keeps the invariant, and whether an exit waits to be told.
LEMMA ReadLeftKeepsGood ==
    ASSUME NEW h, NEW l, Good(h, l), NEW emptyEnds \in BOOLEAN,
           NEW g \in ReadLeft(h, emptyEnds)
    PROVE  Good(g, l) /\ g.exiting = h.exiting
<1> DEFINE over == h.resp # None /\ h.grace /\ h.late
           spent == [h EXCEPT !.grace = IF over THEN FALSE ELSE @]
           k == IF over /\ h.old # None THEN Kill(spent, h.old) ELSE spent
           p == Source(k)
           failed == IF p = Child(k) THEN ReadFailed(k) ELSE k
           forgiven == [failed EXCEPT !.owed[p] = 0]
           outputs == UNION {Output(t) : t \in TakeFrom(k, p)}
<1>1. h \in HostType /\ FieldsApart(h)
  BY DEF Good
<1>2. Good(spent, l) /\ spent.exiting = h.exiting /\ spent.old = h.old
  <2>1. Alike(spent, h) /\ SameOutput(spent, h) /\ spent.old = h.old
    BY <1>1 DEF HostType, Alike, SameOutput
  <2> QED
    BY <2>1, AlikeKeepsGood DEF Alike
<1> HIDE DEF spent
<1>3. Good(k, l) /\ k.exiting = h.exiting
  <2>1. h.old # None => h.old \in Programs
    BY <1>1 DEF HostType, Programs, None
  <2> QED
    BY <1>2, <2>1, KillKeepsGood
<1> HIDE DEF k
<1>4. k \in HostType /\ FieldsApart(k) /\ NothingLost(k)
  BY <1>3 DEF Good
<1>5. /\ p \in Programs \union {None}
      /\ \A q \in Programs : k.closed = "no" /\ k.owed[q] > 0 => q = p
  <2>1. \A q \in Programs : k.closed = "no" /\ k.owed[q] > 0 => q = k.old /\ k.old # None
    BY <1>4 DEF NothingLost, Programs, None
  <2>2. p \in Programs \union {None}
    BY SMTT(30), <1>4 DEF HostType, Programs, None, Source, Child
  <2> QED
    BY <1>4, <2>1, <2>2 DEF Source, FieldsApart
<1> HIDE DEF p
<1>6. ASSUME \A q \in Programs : q = p => k.owed[q] = 0
      PROVE  Good(Drained(k), l) /\ Drained(k).exiting = h.exiting
  <2>1. \A q \in Programs : k.owed[q] \in Nat
    BY <1>4 DEF HostType
  <2>2. k.closed = "no" => \A q \in Programs : k.owed[q] = 0
    BY <1>5, <1>6, <2>1
  <2> QED
    BY <1>3, <2>2, DrainedKeepsGood
<1>7. ASSUME p # None
      PROVE  Good(Drained(forgiven), l) /\ Drained(forgiven).exiting = h.exiting
  <2>1. Good(failed, l) /\ failed.exiting = h.exiting
    BY <1>3, FailedKeepsGood
  <2> HIDE DEF failed
  <2>2. failed \in HostType /\ NothingLost(failed) /\ p \in Programs
    BY <1>5, <1>7, <2>1 DEF Good
  <2>3. /\ Alike(forgiven, failed) /\ forgiven.tty = failed.tty
        /\ \A q \in Programs : forgiven.owed[q] = IF q = p THEN 0 ELSE failed.owed[q]
    BY <2>2 DEF HostType, Alike
  <2> HIDE DEF forgiven
  <2>4. /\ \A q \in Programs : failed.tty[q] \in Nat /\ failed.owed[q] \in Nat
        /\ failed.closed = k.closed /\ failed.owed = k.owed
    BY <2>2, <1>3, FailedKeepsGood DEF HostType, failed
  <2>5. NothingLost(forgiven)
    BY <2>2, <2>3, <2>4 DEF NothingLost, Alike
  <2>6. Good(forgiven, l) /\ forgiven.exiting = h.exiting
    BY <2>1, <2>3, <2>5, AlikeKeepsGood DEF Alike
  <2>7. forgiven.closed = "no" => \A q \in Programs : forgiven.owed[q] = 0
    BY <1>5, <2>3, <2>4 DEF Alike
  <2> QED
    BY <2>6, <2>7, DrainedKeepsGood
<1> HIDE DEF forgiven, failed
<1>8. \/ g = h
      \/ p = None /\ g = Drained(k)
      \/ /\ p # None
         /\ \/ g \in outputs
            \/ g = k
            \/ ~(k.tty[p] > 0) /\ g = Drained(k)
            \/ g = Drained(forgiven)
  <2> DEFINE own == p = Child(k)
  <2>1. forgiven = [IF own THEN ReadFailed(k) ELSE k EXCEPT !.owed[p] = 0]
    BY DEF forgiven, failed
  <2>2. g \in IF ~h.draining THEN {h}
             ELSE IF p = None THEN {Drained(k)}
             ELSE (IF k.tty[p] > 0 THEN outputs
                   ELSE IF ~Hung(p) /\ ~emptyEnds THEN {k} ELSE {Drained(k)})
                  \union {Drained(forgiven)}
    BY <2>1 DEF ReadLeft, p, k, spent
  <2> HIDE DEF own, outputs
  <2> QED
    BY <2>2
<1> HIDE DEF outputs
<1>9. CASE p # None /\ g \in outputs
  <2>1. PICK t \in TakeFrom(k, p) : g \in Output(t)
    BY <1>9 DEF outputs
  <2>2. Good(t, l) /\ t.exiting = h.exiting /\ t \in HostType
    BY <1>3, <1>5, <1>9, TakenKeepsGood DEF Good
  <2>3. Alike(g, t) /\ SameOutput(g, t)
    BY <2>1, <2>2, OutputIsAlike
  <2> QED
    BY <2>2, <2>3, AlikeKeepsGood DEF Alike
<1>10. CASE p # None /\ ~(k.tty[p] > 0) /\ g = Drained(k)
  <2>1. k.owed[p] <= k.tty[p] /\ k.owed[p] \in Nat /\ k.tty[p] \in Nat
    BY <1>4, <1>5, <1>10 DEF NothingLost, HostType
  <2>2. k.owed[p] = 0
    BY <1>10, <2>1
  <2> QED
    BY <1>6, <1>10, <2>2
<1>11. CASE p = None /\ g = Drained(k)
  BY <1>6, <1>11 DEF Programs, None
<1>12. CASE g = h \/ g = k
  BY <1>3, <1>12
<1>13. CASE p # None /\ g = Drained(forgiven)
  BY <1>7, <1>13
<1> QED
  BY <1>8, <1>9, <1>10, <1>11, <1>12, <1>13

-----------------------------------------------------------------------------
(* An exit, and a respawn's end.                                           *)

\* Pane::exit: told once, and the program kept or dying.
LEMMA TellKeepsGood ==
    ASSUME NEW h, NEW l, Good(h, l), h.exiting
    PROVE  /\ Good(Tell(h), l) /\ ~Tell(h).exiting
           /\ Tell(h).pending = h.pending /\ Tell(h).resp = h.resp
<1> DEFINE c == Child(h)
           told == [h.told EXCEPT ![h.gen] = @ + 1]
           end == [h EXCEPT !.process = "exited", !.exiting = FALSE,
                            !.told[h.gen] = @ + 1]
           keeps == ~h.shell /\ c # None /\ h.draining
           D == IF c = None \/ keeps THEN h.dying
                ELSE h.dying \union {Dies(c, ~h.shell)}
           g == Tell(h)
<1>1. /\ h \in HostType /\ FieldsApart(h) /\ ToldAsItEnds(h, l)
      /\ HeldOnce(h, l)
  BY DEF Good
<1>2. /\ h.gen \in Programs /\ h.dying \in SUBSET Deaths /\ h.shell \in BOOLEAN
      /\ h.told \in [Programs -> 0..1]
      /\ c \in {h.gen, None}
  BY <1>1 DEF HostType, Child
<1>3. /\ h.process # "exited" /\ h.told[h.gen] = 0 /\ l[h.gen] \in Ended
  BY <1>1, <1>2 DEF ToldAsItEnds
<1>4. /\ told \in [Programs -> 0..1] /\ told[h.gen] = 1
      /\ \A p \in Programs : p # h.gen => told[p] = h.told[p]
  BY <1>2, <1>3
<1>5. /\ D \in SUBSET Deaths /\ DoomedOnce(D)
      /\ Doomed(D) = Doomed(h.dying) \union
            (IF c = None \/ keeps THEN {} ELSE {c})
  <2>1. c # None => c \notin Doomed(h.dying) /\ c \in Programs
    BY <1>1, <1>2 DEF HeldOnce, Kept
  <2>2. DoomedOnce(h.dying)
    BY <1>1 DEF HeldOnce
  <2> HIDE DEF c, keeps
  <2> QED
    BY <1>2, <2>1, <2>2, OneMoreDies
<1>6. /\ g.process = "exited" /\ ~g.exiting /\ g.told = told
      /\ g.dying = D /\ g.leftover = (IF keeps THEN c ELSE h.leftover)
      /\ g.gen = h.gen /\ g.draining = h.draining /\ g.pending = h.pending
      /\ g.resp = h.resp /\ g.old = h.old
      /\ g.killed = h.killed /\ g.closed = h.closed
      /\ g.fuxs = h.fuxs /\ g.tty = h.tty
      /\ g.swept = h.swept /\ g.owed = h.owed
      /\ g.lost = h.lost /\ g.answered = h.answered
      /\ g = [h EXCEPT !.process = g.process, !.exiting = g.exiting, !.told = g.told,
                       !.dying = g.dying, !.leftover = g.leftover]
  <2>1. end = [h EXCEPT !.process = "exited", !.exiting = FALSE, !.told = told]
    BY <1>1 DEF HostType
  <2>2. End(end, c, FALSE) = IF c = None THEN end
            ELSE [end EXCEPT !.dying = @ \union {Dies(c, FALSE)}]
    BY <1>1, <2>1 DEF End, HostType
  <2>3. g = IF h.shell THEN End(end, c, FALSE)
            ELSE IF c = None THEN end
            ELSE IF h.draining THEN [end EXCEPT !.leftover = c]
            ELSE [end EXCEPT !.dying = @ \union {Dies(c, TRUE)}]
    BY DEF Tell
  <2> HIDE DEF told, end, g
  <2>4. CASE c = None
    <3>1. g = end /\ D = h.dying /\ ~keeps
      BY <2>2, <2>3, <2>4
    <3> QED
      BY <1>1, <2>1, <3>1 DEF HostType
  <2>5. CASE c # None /\ h.shell
    <3>1. /\ g = [end EXCEPT !.dying = @ \union {Dies(c, FALSE)}] /\ ~keeps
          /\ D = h.dying \union {Dies(c, FALSE)}
      BY <2>2, <2>3, <2>5
    <3> QED
      BY <1>1, <2>1, <3>1 DEF HostType
  <2>6. CASE c # None /\ ~h.shell /\ h.draining
    <3>1. g = [end EXCEPT !.leftover = c] /\ D = h.dying /\ keeps
      BY <2>3, <2>6
    <3> QED
      BY <1>1, <2>1, <3>1 DEF HostType
  <2>7. CASE c # None /\ ~h.shell /\ ~h.draining
    <3>1. /\ g = [end EXCEPT !.dying = @ \union {Dies(c, TRUE)}] /\ ~keeps
          /\ D = h.dying \union {Dies(c, TRUE)}
      BY <2>3, <2>7
    <3> QED
      BY <1>1, <2>1, <3>1 DEF HostType
  <2> QED
    BY <2>4, <2>5, <2>6, <2>7
<1> HIDE DEF told, D, g
<1>7. g \in HostType
  <2>1. MaxPrograms \in Nat /\ c \in 0..MaxPrograms
    BY <1>2 DEF Programs, None
  <2> HIDE DEF c, keeps
  <2>2. /\ g.process = "exited" /\ g.exiting = FALSE /\ g.told \in [Programs -> 0..1]
        /\ g.dying \in SUBSET Deaths /\ g.leftover \in 0..MaxPrograms
    BY <1>1, <1>4, <1>5, <1>6, <2>1 DEF HostType
  <2> QED
    BY <1>1, <1>6, <2>2 DEF HostType
<1>8. Child(g) = None /\ Last(g) = Last(h)
  BY <1>6 DEF Child, Last
<1>9. FieldsApart(g)
  BY <1>1, <1>2, <1>6, <1>8 DEF FieldsApart
<1>10. HeldOnce(g, l)
  <2>1. c # None => h.leftover = None /\ h.resp = None /\ h.old = None
    BY <1>1, <1>2 DEF FieldsApart
  <2>2. CASE c = None
    <3>1. Kept(g) = Kept(h) /\ Doomed(g.dying) = Doomed(h.dying)
      BY <1>5, <1>6, <1>8, <2>2 DEF Kept
    <3> QED
      BY <1>1, <1>5, <1>6, <3>1 DEF HeldOnce
  <2>3. CASE keeps
    <3>1. Kept(g) = Kept(h) /\ Doomed(g.dying) = Doomed(h.dying)
      BY <1>5, <1>6, <1>8, <2>1, <2>3 DEF Kept
    <3> QED
      BY <1>1, <1>5, <1>6, <3>1 DEF HeldOnce
  <2>4. CASE c # None /\ ~keeps
    <3>1. /\ Kept(g) = {} /\ Kept(h) = {c}
          /\ Doomed(g.dying) = Doomed(h.dying) \union {c}
      BY <1>5, <1>6, <1>8, <2>1, <2>4 DEF Kept
    <3> HIDE DEF c, keeps
    <3> QED
      BY <1>1, <1>5, <1>6, <3>1 DEF HeldOnce
  <2> QED
    BY <2>2, <2>3, <2>4
<1>11. StartedInOrder(g, l)
  BY <1>6, <1>8 DEF Good, StartedInOrder
<1>12. ToldAsItEnds(g, l)
  BY <1>1, <1>2, <1>3, <1>4, <1>6 DEF ToldAsItEnds, Programs
<1>13. NothingLost(g)
  BY <1>6 DEF Good, NothingLost
<1>14. FuxsAreKnown(g, l)
  <2>1. \A p \in Programs : h.told[p] = 1 => told[p] = 1
    BY <1>4
  <2>2. FuxsAreKnown(h, l) /\ h.gen \in Int /\ \A p \in 1..(h.gen - 1) : p \in Programs
    BY <1>2 DEF Good, Programs
  <2> QED
    BY <1>2, <1>4, <1>6, <2>1, <2>2 DEF FuxsAreKnown, Heard
<1> QED
  BY <1>6, <1>7, <1>9, <1>10, <1>11, <1>12, <1>13, <1>14 DEF Good, g

\* Host::program_exited, of a program that ended.
LEMMA ExitedKeepsGood ==
    ASSUME NEW h, NEW l, Good(h, l),
           h.process # "exited" => l[h.gen] \in Ended,
           NEW g \in Exited(h)
    PROVE  /\ Good(g, l)
           /\ h.exiting => g.resp = h.resp
           /\ h.exiting /\ h.pending = "none" => ~g.exiting /\ g.pending = "none"
<1> DEFINE first == [h EXCEPT !.exiting = TRUE, !.draining = TRUE]
           read == IF h.exiting THEN {h} ELSE ReadLeft(first, FALSE)
           shown == UNION {ReleaseFrame(t) : t \in read}
<1>1. CASE ~h.exiting /\ h.process = "exited"
  BY <1>1 DEF Exited
<1>2. CASE h.exiting \/ h.process # "exited"
  <2>1. h \in HostType /\ l[h.gen] \in Ended /\ h.process # "exited"
    BY <1>2 DEF Good, ToldAsItEnds
  <2>2. first \in HostType /\ Good(first, l) /\ first.exiting
    <3>1. /\ first \in HostType /\ first.process = h.process /\ first.gen = h.gen
          /\ first.exiting /\ first.draining
          /\ first.resp = h.resp /\ first.old = h.old /\ first.leftover = h.leftover
          /\ first.dying = h.dying /\ first.killed = h.killed
          /\ first.closed = h.closed /\ first.fuxs = h.fuxs
          /\ first.tty = h.tty /\ first.told = h.told
          /\ first.swept = h.swept /\ first.owed = h.owed
          /\ first.lost = h.lost /\ first.answered = h.answered
      BY <2>1 DEF HostType
    <3> HIDE DEF first
    <3>2. Child(first) = Child(h) /\ Kept(first) = Kept(h) /\ Last(first) = Last(h)
      BY <3>1 DEF Child, Kept, Last
    <3>3. FieldsApart(first) /\ HeldOnce(first, l) /\ StartedInOrder(first, l)
      BY <3>1, <3>2 DEF Good, FieldsApart, HeldOnce, StartedInOrder
    <3>4. ToldAsItEnds(first, l) /\ NothingLost(first)
      BY <2>1, <3>1 DEF Good, ToldAsItEnds, NothingLost
    <3>5. FuxsAreKnown(first, l)
      BY <3>1 DEF Good, FuxsAreKnown, Heard
    <3> QED
      BY <3>1, <3>3, <3>4, <3>5 DEF Good
  <2> HIDE DEF first
  <2>3. ASSUME NEW t \in read
        PROVE  /\ Good(t, l) /\ t.exiting /\ t \in HostType
               /\ h.exiting => t = h
    BY <2>2, <2>3, ReadLeftKeepsGood DEF Good
  <2>4. ASSUME NEW s \in shown
        PROVE  /\ Good(s, l) /\ s.exiting
               /\ h.exiting => s.resp = h.resp
               /\ h.exiting /\ h.pending = "none" => s = h
    <3>1. PICK t \in read : s \in ReleaseFrame(t)
      OBVIOUS
    <3>2. Good(t, l) /\ t.exiting /\ t \in HostType /\ (h.exiting => t = h)
      BY <2>3
    <3>3. Alike(s, t) /\ SameOutput(s, t) /\ (t.pending = "none" => s = t)
      BY <3>1, <3>2, ReleaseIsAlike
    <3> QED
      BY <3>2, <3>3, AlikeKeepsGood DEF Alike
  <2>5. PICK s \in shown : g = IF HasUnread(s) THEN s ELSE Tell(s)
    BY <1>2 DEF Exited, first
  <2>6. /\ Good(s, l) /\ s.exiting /\ (h.exiting => s.resp = h.resp)
        /\ h.exiting /\ h.pending = "none" => s = h
    BY <2>4
  <2> HIDE DEF shown, read
  <2> QED
    BY <2>5, <2>6, TellKeepsGood DEF HasUnread
<1> QED
  BY <1>1, <1>2

\* The new program is the pane's: nothing of the old one is left to read.
LEMMA ReplacedKeepsGood ==
    ASSUME NEW h, NEW l, Good(h, l), h.closed = "no", h.resp # None,
           ~h.draining, ~h.exiting, h.pending = "none"
    PROVE  Good(Replaced(h), l) /\ Replaced(h).gen = h.resp
<1> DEFINE g == Replaced(h)
<1>1. /\ h \in HostType /\ FieldsApart(h) /\ NothingLost(h) /\ HeldOnce(h, l)
      /\ StartedInOrder(h, l) /\ ToldAsItEnds(h, l) /\ FuxsAreKnown(h, l)
  BY DEF Good
<1>2. /\ Child(h) = None /\ h.old = None /\ h.leftover = None
      /\ h.resp = h.gen + 1 /\ h.resp \in Programs /\ h.gen \in Programs
      /\ h.owed \in [Programs -> 0..MaxWrites] /\ h.answered \in Nat
  <2>1. MaxPrograms \in Nat
    OBVIOUS
  <2> QED
    BY <1>1, <2>1 DEF FieldsApart, HostType, Programs, None
<1>3. ~ \E p \in Programs : h.owed[p] > 0
  BY <1>1, <1>2 DEF NothingLost, Programs, None
<1>4. End(h, Child(h), TRUE) = h
  BY <1>2 DEF End
<1>5. /\ g \in HostType /\ g.process = "reading" /\ g.gen = h.resp /\ g.resp = None
      /\ ~g.exiting /\ ~g.draining /\ ~g.lost /\ g.answered = h.answered + 1
      /\ g.dying = h.dying /\ g.leftover = None /\ g.told = h.told
      /\ g.old = None /\ g.killed = h.killed /\ g.closed = h.closed
      /\ g.fuxs = h.fuxs /\ g.tty = h.tty
      /\ g.swept = h.swept /\ g.owed = h.owed
  <2>1. g = [h EXCEPT
        !.process = "reading", !.gen = h.resp, !.resp = None,
        !.exiting = FALSE, !.draining = FALSE, !.pending = "none",
        !.grace = FALSE, !.late = FALSE,
        !.lost = FALSE,
        !.answered = @ + 1]
    BY <1>1, <1>3, <1>4 DEF Replaced, NothingLost, HostType
  <2>2. None \in 0..MaxPrograms /\ h.answered + 1 \in Nat
    BY <1>2 DEF None
  <2> HIDE DEF g
  <2>3. g \in HostType
    BY <1>1, <1>2, <2>1, <2>2 DEF HostType
  <2>4. g.answered = h.answered + 1
    BY <1>1, <1>2, <2>1 DEF HostType
  <2>5. ~g.exiting /\ ~g.draining /\ ~g.lost
    BY <1>1, <2>1 DEF HostType
  <2>6. /\ g.process = "reading" /\ g.gen = h.resp /\ g.resp = None
        /\ g.dying = h.dying /\ g.told = h.told /\ g.killed = h.killed
        /\ g.closed = h.closed /\ g.fuxs = h.fuxs /\ g.tty = h.tty
        /\ g.swept = h.swept /\ g.owed = h.owed
    BY <1>1, <2>1 DEF HostType
  <2>7. g.leftover = None /\ g.old = None
    BY <1>1, <1>2, <2>1 DEF HostType
  <2> QED
    BY <2>3, <2>4, <2>5, <2>6, <2>7
<1> HIDE DEF g
<1>6. Child(g) = h.resp /\ Last(g) = Last(h)
  BY <1>2, <1>5 DEF Child, Last
<1>7. Kept(g) = {h.resp} /\ Kept(h) = {h.resp}
  BY <1>2, <1>5, <1>6 DEF Kept, Programs, None
<1>8. FieldsApart(g)
  BY <1>5 DEF FieldsApart
<1>9. HeldOnce(g, l)
  BY <1>1, <1>5, <1>7 DEF HeldOnce
<1>10. StartedInOrder(g, l)
  BY <1>1, <1>2, <1>5, <1>6 DEF StartedInOrder, Last, Programs
<1>11. ToldAsItEnds(g, l)
  <2>1. \A p \in Programs : p > h.resp => p > h.gen
    BY <1>2 DEF Programs
  <2>2. h.resp > h.gen
    BY <1>2 DEF Programs
  <2> QED
    BY <1>1, <1>2, <1>5, <2>1, <2>2 DEF ToldAsItEnds
<1>12. NothingLost(g)
  BY <1>1, <1>3, <1>5 DEF NothingLost
<1>13. FuxsAreKnown(g, l)
  <2>1. h.gen \in h.fuxs \/ h.told[h.gen] = 1
    BY <1>1 DEF FuxsAreKnown, Heard
  <2>2. \A p \in 1..(h.resp - 1) : p \in 1..(h.gen - 1) \/ p = h.gen
    BY <1>2 DEF Programs
  <2> QED
    BY <1>1, <1>5, <2>1, <2>2 DEF FuxsAreKnown, Heard
<1> QED
  BY <1>5, <1>8, <1>9, <1>10, <1>11, <1>12, <1>13 DEF Good, g

\* The leaders `l` a handler ends with: those it saw dead are.
Follows(l) == \A p \in Programs : leader[p] = "zombie" => l[p] \in Ended

\* Host::after_turn.
LEMMA AfterTurnKeepsGood ==
    ASSUME NEW h, NEW l, Good(h, l), Follows(l), NEW g \in AfterTurn(h)
    PROVE  Good(g, l)
<1> DEFINE told == IF h.exiting THEN Exited(h) ELSE {h}
           next(t) == IF t.closed # "no" \/ t.draining \/ t.resp = None THEN {t}
                      ELSE IF leader[t.resp] = "zombie" THEN Exited(Replaced(t))
                      ELSE {Replaced(t)}
<1>1. CASE g = h
  BY <1>1
<1>2. CASE /\ ~(HasUnread(h) \/ (h.resp # None /\ h.pending = "frame"))
           /\ g \in UNION {next(t) : t \in told}
  <2>1. h \in HostType
    BY DEF Good
  <2>2. PICK t \in told : g \in next(t)
    BY <1>2
  <2>3. /\ Good(t, l) /\ t.resp = h.resp
        /\ h.pending = "none" => ~t.exiting /\ t.pending = "none"
    <3>1. h.exiting => l[h.gen] \in Ended
      BY DEF Good, ToldAsItEnds
    <3> QED
      BY <2>2, <3>1, ExitedKeepsGood
  <2>4. CASE t.closed # "no" \/ t.draining \/ t.resp = None
    BY <2>2, <2>3, <2>4
  <2>5. CASE t.closed = "no" /\ ~t.draining /\ t.resp # None
    <3>1. h.pending = "none"
      BY <1>2, <2>1, <2>3, <2>5 DEF HostType, HasUnread
    <3>2. Good(Replaced(t), l) /\ Replaced(t).gen = t.resp
      BY <2>3, <2>5, <3>1, ReplacedKeepsGood
    <3>3. t.resp \in Programs
      <4>1. t.resp \in 0..MaxPrograms
        BY <2>3 DEF Good, HostType
      <4> QED
        BY <2>5, <4>1 DEF Programs, None
    <3>4. CASE leader[t.resp] = "zombie"
      <4>1. g \in Exited(Replaced(t)) /\ l[Replaced(t).gen] \in Ended
        BY <2>2, <2>5, <3>2, <3>3, <3>4 DEF Follows
      <4> QED
        BY <3>2, <4>1, ExitedKeepsGood
    <3>5. CASE leader[t.resp] # "zombie"
      BY <2>2, <2>5, <3>2, <3>5
    <3> QED
      BY <3>4, <3>5
  <2> QED
    BY <2>4, <2>5
<1> QED
  BY <1>1, <1>2 DEF AfterTurn

\* Host::read_with, of whether its own program exited.
LEMMA LookKeepsGood ==
    ASSUME NEW h, NEW l, Good(h, l), Follows(l), NEW g \in LookAtLeader(h)
    PROVE  Good(g, l)
<1>1. Child(h) # None => Child(h) = h.gen /\ h.gen \in Programs
  <2>1. h \in HostType
    BY DEF Good
  <2> QED
    BY <2>1 DEF HostType, Child
<1> QED
  BY <1>1, ExitedKeepsGood DEF LookAtLeader, Follows

\* Both together, of what a turn reads.
LEMMA TurnKeepsGood ==
    ASSUME NEW h, NEW l, Good(h, l), Follows(l), NEW t,
           t \in ReadLeft(h, TRUE) \/ t \in ReleaseFrame(h) \union ReadUnread(h),
           NEW g \in AfterTurn(t)
    PROVE  Good(g, l)
<1>1. CASE t \in ReleaseFrame(h) \union ReadUnread(h)
  <2>1. h \in HostType
    BY DEF Good
  <2>2. Alike(t, h) /\ SameOutput(t, h)
    BY <1>1, <2>1, ReleaseIsAlike
  <2>3. Good(t, l)
    BY <2>2, AlikeKeepsGood
  <2> QED
    BY <2>3, AfterTurnKeepsGood
<1>2. CASE t \in ReadLeft(h, TRUE)
  BY <1>2, ReadLeftKeepsGood, AfterTurnKeepsGood
<1> QED
  BY <1>1, <1>2

-----------------------------------------------------------------------------
(* Leaders that end, and are reaped.                                       *)

\* A leader's end moves no program, and no exit is told before it.
LEMMA EndsKeepGood ==
    ASSUME NEW h, NEW l, NEW m, Good(h, l),
           \A p \in Programs :
              m[p] = l[p] \/ (l[p] = "runs" /\ m[p] = "zombie")
    PROVE  Good(h, m)
<1>1. h.gen \in Programs
  BY DEF Good, HostType
<1>2. HeldOnce(h, m)
  BY DEF Good, HeldOnce
<1>3. StartedInOrder(h, m)
  BY DEF Good, StartedInOrder
<1>4. ToldAsItEnds(h, m)
  BY <1>1 DEF Good, ToldAsItEnds, Ended
<1>5. FuxsAreKnown(h, m)
  <2>1. FuxsAreKnown(h, l) /\ h.fuxs \subseteq Programs
    BY DEF Good, HostType
  <2> QED
    BY <2>1 DEF FuxsAreKnown
<1> QED
  BY <1>2, <1>3, <1>4, <1>5 DEF Good

\* Host::reap_killed reaps those that are dead of those killed.
LEMMA ReapKeepsGood ==
    ASSUME Good(host, leader), leader \in LeaderType
    PROVE  /\ Good(ReapKilled(host), Reaped(Zombies(host)))
           /\ Follows(Reaped(Zombies(host)))
           /\ Reaped(Zombies(host)) \in LeaderType
<1> DEFINE ps == Zombies(host)
           g == ReapKilled(host)
           l == Reaped(ps)
<1>1. /\ host \in HostType /\ host.gen \in Programs
      /\ ps \subseteq host.killed /\ ps \subseteq Programs
      /\ host.fuxs \subseteq Programs
  BY DEF Good, HostType, Zombies
<1>2. \A p \in Programs :
        /\ l[p] = IF p \in ps THEN "reaped" ELSE leader[p]
        /\ p \in ps => leader[p] = "zombie"
  BY DEF Reaped, Zombies
<1>3. l \in LeaderType /\ Follows(l)
  BY <1>2 DEF LeaderType, Follows, Ended, Reaped
<1>4. /\ g \in HostType /\ g.killed = host.killed \ ps
      /\ g.process = host.process /\ g.gen = host.gen /\ g.exiting = host.exiting
      /\ g.draining = host.draining /\ g.resp = host.resp /\ g.old = host.old
      /\ g.leftover = host.leftover /\ g.dying = host.dying
      /\ g.closed = host.closed /\ g.fuxs = host.fuxs /\ g.tty = host.tty
      /\ g.told = host.told /\ g.swept = host.swept /\ g.owed = host.owed
      /\ g.lost = host.lost /\ g.answered = host.answered
  BY <1>1 DEF ReapKilled, HostType
<1> HIDE DEF g, ps, l
<1>5. Child(g) = Child(host) /\ Kept(g) = Kept(host) /\ Last(g) = Last(host)
  BY <1>4 DEF Child, Kept, Last
<1>6. FieldsApart(g) /\ NothingLost(g)
  BY <1>4, <1>5 DEF Good, FieldsApart, NothingLost
<1>7. HeldOnce(g, l)
  BY <1>1, <1>2, <1>4, <1>5 DEF Good, HeldOnce
<1>8. StartedInOrder(g, l)
  BY <1>2, <1>4, <1>5 DEF Good, StartedInOrder
<1>9. ToldAsItEnds(g, l)
  BY <1>1, <1>2, <1>4 DEF Good, ToldAsItEnds, Ended
<1>10. FuxsAreKnown(g, l)
  <2>1. FuxsAreKnown(host, leader)
    BY DEF Good
  <2> QED
    BY <1>1, <1>2, <1>4, <2>1 DEF FuxsAreKnown, Heard
<1> QED
  BY <1>3, <1>4, <1>6, <1>7, <1>8, <1>9, <1>10 DEF Good, g, l, ps

-----------------------------------------------------------------------------
(* Every step keeps the invariant.                                         *)

\* It holds of a pane's process as it starts.
LEMMA InitIInv == Init => IInv
<1> SUFFICES ASSUME Init PROVE IInv
  OBVIOUS
<1>1. /\ 1 \in Programs /\ MaxPrograms \in Nat /\ None \in 0..MaxPrograms
      /\ Shells \subseteq BOOLEAN
  BY DEF Programs, None
<1>2. /\ host.process = "reading" /\ host.gen = 1 /\ ~host.exiting /\ ~host.draining
      /\ host.resp = None /\ host.old = None /\ host.leftover = None
      /\ host.dying = {} /\ host.killed = {} /\ host.closed = "no"
      /\ host.fuxs = {} /\ host.swept = {} /\ ~host.lost /\ host.answered = 0
      /\ host.tty = [p \in Programs |-> 0] /\ host.told = [p \in Programs |-> 0]
      /\ host.owed = [p \in Programs |-> 0]
  BY DEF Init
<1>3. host \in HostType
  BY <1>1 DEF Init, HostType
<1>4. leader = [p \in Programs |-> IF p = 1 THEN "runs" ELSE "none"]
  BY DEF Init
<1>5. Child(host) = 1 /\ Kept(host) = {1} /\ Last(host) = 1
  BY <1>2 DEF Child, Kept, Last, None
<1>6. FieldsApart(host) /\ NothingLost(host)
  BY <1>2, <1>5 DEF FieldsApart, NothingLost, None
<1>7. HeldOnce(host, leader)
  BY <1>2, <1>4, <1>5 DEF HeldOnce, Doomed, DoomedOnce
<1>8. StartedInOrder(host, leader)
  BY <1>1, <1>2, <1>4, <1>5 DEF StartedInOrder, Programs
<1>9. ToldAsItEnds(host, leader) /\ FuxsAreKnown(host, leader)
  BY <1>1, <1>2, <1>4 DEF ToldAsItEnds, FuxsAreKnown
<1> QED
  BY <1>1, <1>3, <1>4, <1>6, <1>7, <1>8, <1>9 DEF IInv, Good, LeaderType, Init

\* A child's end is looked at.
LEMMA ReapKeepsIInv == ASSUME IInv, Reap \/ HungUp PROVE IInv'
<1> DEFINE h == ReapKilled(host)
           l == Reaped(Zombies(host))
<1>1. Good(h, l) /\ Follows(l) /\ l \in LeaderType
  BY ReapKeepsGood DEF IInv
<1>2. leader' = l /\ ~done /\ done' = done /\ holds' = holds /\ jobs' = jobs
  BY DEF Reap, HungUp
<1>3. CASE Reap
  <2>1. host' \in LookAtLeader(h)
    BY <1>3 DEF Reap
  <2> HIDE DEF h, l
  <2> QED
    BY <1>1, <1>2, <2>1, LookKeepsGood DEF IInv
<1>4. CASE HungUp
  <2> DEFINE stop(g) == IF g.process = "reading" /\ ~g.exiting
                        THEN [g EXCEPT !.process = "hungup"] ELSE g
  <2>1. PICK g \in LookAtLeader(h) : host' = stop(g)
    BY <1>4 DEF HungUp
  <2>2. Good(g, l)
    BY <1>1, LookKeepsGood
  <2> HIDE DEF h, l
  <2>3. CASE g.process = "reading" /\ ~g.exiting
    <3> DEFINE s == [g EXCEPT !.process = "hungup"]
    <3>1. g \in HostType /\ host' = s
      BY <2>1, <2>2, <2>3 DEF Good
    <3>2. /\ s \in HostType /\ s.process = "hungup"
          /\ s.gen = g.gen /\ s.exiting = g.exiting /\ s.draining = g.draining
          /\ s.resp = g.resp /\ s.old = g.old /\ s.leftover = g.leftover
          /\ s.dying = g.dying /\ s.killed = g.killed /\ s.closed = g.closed
          /\ s.fuxs = g.fuxs /\ s.tty = g.tty /\ s.told = g.told
          /\ s.swept = g.swept /\ s.owed = g.owed
          /\ s.lost = g.lost /\ s.answered = g.answered
      BY <3>1 DEF HostType
    <3> HIDE DEF s
    <3>3. Child(s) = Child(g) /\ Kept(s) = Kept(g) /\ Last(s) = Last(g)
      BY <2>3, <3>2 DEF Child, Kept, Last
    <3>4. FieldsApart(s) /\ HeldOnce(s, l) /\ StartedInOrder(s, l)
      BY <2>2, <3>2, <3>3 DEF Good, FieldsApart, HeldOnce, StartedInOrder
    <3>5. ToldAsItEnds(s, l) /\ NothingLost(s) /\ FuxsAreKnown(s, l)
      BY <2>2, <2>3, <3>2 DEF Good, ToldAsItEnds, NothingLost, FuxsAreKnown, Heard
    <3>6. Good(s, l)
      BY <3>2, <3>4, <3>5 DEF Good
    <3> QED
      BY <1>1, <1>2, <3>1, <3>6 DEF IInv
  <2>4. CASE ~(g.process = "reading" /\ ~g.exiting)
    BY <1>1, <1>2, <2>1, <2>2, <2>4 DEF IInv
  <2> QED
    BY <2>3, <2>4
<1> QED
  BY <1>3, <1>4

\* The terminal is read, or what waits for a turn or a frame's timer is.
LEMMA ReadKeepsIInv == ASSUME IInv, Read \/ FireUnread \/ FireFrame PROVE IInv'
<1>1. /\ Good(host, leader) /\ host \in HostType /\ host.gen \in Programs
      /\ leader' = leader /\ ~done /\ done' = done /\ holds' = holds /\ jobs' = jobs
  BY DEF Read, FireUnread, FireFrame, programs, IInv, Good, HostType
<1>2. CASE Read
  <2>1. host' = ReadFailed(host) \/ \E t \in TakeFrom(host, host.gen) : host' \in Output(t)
    <3>1. host' \in (UNION {Output(t) : t \in TakeFrom(host, host.gen)}) \union {ReadFailed(host)}
      BY <1>2 DEF Read
    <3> QED
      BY <3>1
  <2>2. ASSUME NEW t \in TakeFrom(host, host.gen), host' \in Output(t)
        PROVE  Good(host', leader)
    <3>1. Good(t, leader) /\ t \in HostType
      BY <1>1, TakenKeepsGood DEF Good
    <3> QED
      BY <2>2, <3>1, OutputIsAlike, AlikeKeepsGood
  <2> QED
    BY <1>1, <2>1, <2>2, FailedKeepsGood DEF IInv
<1>3. CASE FireUnread
  <2>1. PICK t : /\ t \in ReadLeft(host, TRUE)
                    \/ t \in ReleaseFrame(host) \union ReadUnread(host)
                 /\ host' \in AfterTurn(t)
    BY <1>3 DEF FireUnread
  <2>2. Follows(leader)
    BY DEF Follows, Ended
  <2> QED
    BY <1>1, <2>1, <2>2, TurnKeepsGood DEF IInv
<1>4. CASE FireFrame
  <2>1. Alike(host', host) /\ SameOutput(host', host)
    BY <1>1, <1>4, ReleaseIsAlike DEF FireFrame
  <2> QED
    BY <1>1, <2>1, AlikeKeepsGood DEF IInv
<1> QED
  BY <1>2, <1>3, <1>4

\* A respawn begins: the program there is kept to be read, or dying.
LEMMA RespawnKeepsIInv ==
    ASSUME IInv, NEW kill \in BOOLEAN, Respawn(kill)
    PROVE  IInv'
<1> DEFINE new == host.gen + 1
           c == IF Child(host) # None THEN Child(host) ELSE host.leftover
           keeps == c # None /\ (~host.exiting \/ host.draining)
           D == IF c # None /\ ~keeps THEN host.dying \union {Dies(c, TRUE)}
                ELSE host.dying
           fuxs == IF c # None /\ ~host.exiting THEN host.fuxs \union {c} ELSE host.fuxs
           owed == IF keeps THEN [host.owed EXCEPT ![c] = host.tty[c]] ELSE host.owed
           h == [host EXCEPT
            !.process = IF @ = "exited" THEN @ ELSE "respawning",
            !.leftover = IF Child(host) = None THEN None ELSE @,
            !.fuxs = IF c # None /\ ~host.exiting THEN @ \union {c} ELSE @,
            !.old = IF keeps THEN c ELSE None,
            !.owed = IF keeps THEN [@ EXCEPT ![c] = host.tty[c]] ELSE @,
            !.dying = IF c # None /\ ~keeps THEN @ \union {Dies(c, TRUE)} ELSE @,
            !.resp = new, !.grace = TRUE, !.late = FALSE, !.draining = TRUE]
           l == [leader EXCEPT ![new] = "runs"]
<1>1. /\ host \in HostType /\ FieldsApart(host) /\ HeldOnce(host, leader)
      /\ StartedInOrder(host, leader) /\ ToldAsItEnds(host, leader)
      /\ NothingLost(host) /\ FuxsAreKnown(host, leader)
      /\ leader \in LeaderType
  BY DEF IInv, Good
<1>2. /\ host.closed = "no" /\ host.resp = None /\ host.gen < MaxPrograms
      /\ \E g \in ReadLeft(h, TRUE) : host' \in AfterTurn(g)
      /\ leader' = l /\ holds' = holds \union {new}
      /\ jobs' \in {jobs, jobs \union {new}}
      /\ ~done /\ done' = done
  BY DEF Respawn
<1>3. /\ MaxPrograms \in Nat /\ host.gen \in Programs /\ host.dying \in SUBSET Deaths
      /\ host.owed \in [Programs -> 0..MaxWrites]
      /\ host.tty \in [Programs -> 0..MaxWrites]
      /\ host.fuxs \subseteq Programs /\ host.killed \subseteq Programs
      /\ host.answered \in Nat
      /\ host.process \in {"reading", "hungup", "failed", "exited", "respawning"}
  BY <1>1 DEF HostType
<1>4. new \in Programs /\ new # None /\ new = host.gen + 1 /\ new > host.gen
  BY <1>2, <1>3 DEF Programs, None
<1>5. /\ host.old = None /\ c \in {host.gen, None} /\ Kept(host) = {c} \ {None}
      /\ host.process # "respawning"
      /\ host.leftover # None => host.process = "exited" /\ host.draining
      /\ Child(host) # None => host.process # "exited" /\ host.leftover = None
      /\ c = None => host.process = "exited"
  <2>1. Child(host) \in {host.gen, None}
    BY DEF Child
  <2> QED
    BY <1>1, <1>2, <1>3, <2>1 DEF FieldsApart, Kept, Child, None, Programs, ToldAsItEnds
<1> HIDE DEF new
<1>6. /\ D \in SUBSET Deaths /\ DoomedOnce(D)
      /\ Doomed(D) = Doomed(host.dying) \union (IF c # None /\ ~keeps THEN {c} ELSE {})
  <2>1. c # None => c \notin Doomed(host.dying) /\ c \in Programs
    BY <1>1, <1>3, <1>5 DEF HeldOnce
  <2>2. DoomedOnce(host.dying)
    BY <1>1 DEF HeldOnce
  <2> HIDE DEF c, keeps
  <2> QED
    BY <1>3, <2>1, <2>2, OneMoreDies
<1>7. /\ h.process = IF host.process = "exited" THEN "exited" ELSE "respawning"
      /\ h.leftover = None /\ h.fuxs = fuxs /\ h.old = (IF keeps THEN c ELSE None)
      /\ h.owed = owed /\ h.dying = D /\ h.resp = new /\ h.draining
      /\ h.gen = host.gen /\ h.exiting = host.exiting
      /\ h.killed = host.killed /\ h.closed = host.closed
      /\ h.tty = host.tty /\ h.told = host.told
      /\ h.swept = host.swept
      /\ h.lost = host.lost /\ h.answered = host.answered
      /\ h.shell = host.shell /\ h.grace /\ ~h.late
      /\ h.pending = host.pending /\ h.turns = host.turns /\ h.sigkill = host.sigkill
  <2> HIDE DEF c, keeps
  <2>1. Child(host) # None => host.leftover = None
    BY <1>5
  <2> QED
    BY <1>1, <2>1 DEF HostType
<1>8. h \in HostType
  <2>1. /\ c \in 0..MaxPrograms /\ new \in 0..MaxPrograms /\ None \in 0..MaxPrograms
        /\ fuxs \in SUBSET Programs /\ owed \in [Programs -> 0..MaxWrites]
        /\ c # None => c \in Programs
    <3>1. /\ c \in 0..MaxPrograms /\ new \in 0..MaxPrograms /\ None \in 0..MaxPrograms
          /\ c # None => c \in Programs
      BY <1>3, <1>4, <1>5 DEF Programs, None
    <3> HIDE DEF c
    <3>2. fuxs \in SUBSET Programs
      BY <1>3, <3>1
    <3>3. owed \in [Programs -> 0..MaxWrites]
      BY <1>3, <3>1
    <3> QED
      BY <3>1, <3>2, <3>3
  <2> DEFINE process == IF host.process = "exited" THEN "exited" ELSE "respawning"
             old == IF keeps THEN c ELSE None
  <2>2. process \in {"reading", "hungup", "failed", "exited", "respawning"}
        /\ old \in 0..MaxPrograms
    BY <2>1
  <2>3. h = [host EXCEPT
            !.process = process, !.leftover = None, !.fuxs = fuxs,
            !.old = old, !.owed = owed, !.dying = D,
            !.resp = new, !.grace = TRUE, !.late = FALSE, !.draining = TRUE]
    <3> HIDE DEF c, keeps
    <3>1. Child(host) # None => host.leftover = None
      BY <1>5
    <3> QED
      BY <1>1, <3>1 DEF HostType
  <2> HIDE DEF h, D, fuxs, owed, process, old
  <2> QED
    BY <1>1, <1>6, <2>1, <2>2, <2>3 DEF HostType
<1> HIDE DEF h
<1>9. /\ l \in LeaderType /\ leader[new] = "none" /\ l[new] = "runs"
      /\ \A p \in Programs : p # new => l[p] = leader[p]
      /\ Last(h) = new /\ Last(host) = host.gen
  <2>1. Last(h) = new /\ Last(host) = host.gen
    BY <1>1, <1>2, <1>3, <1>4, <1>7 DEF Last, StartedInOrder
  <2>2. leader[new] = "none"
    BY <1>1, <1>3, <1>4, <2>1 DEF StartedInOrder, Programs
  <2> QED
    BY <1>1, <1>4, <2>1, <2>2 DEF LeaderType
<1>10. Child(h) = None /\ Kept(h) = {new} \union (IF keeps THEN {c} ELSE {})
  BY <1>4, <1>7 DEF Child, Kept
<1>11. FieldsApart(h)
  BY <1>2, <1>4, <1>5, <1>7, <1>10 DEF FieldsApart
<1>12. HeldOnce(h, l)
  <2>1. new \notin Kept(host) \union Doomed(host.dying) \union host.killed
    BY <1>1, <1>4, <1>9 DEF HeldOnce
  <2>2. Kept(h) \union Doomed(h.dying)
          = Kept(host) \union Doomed(host.dying) \union {new}
    <3>1. h.dying = D
      BY <1>7
    <3> HIDE DEF c, D, h, new
    <3> QED
      BY <1>5, <1>6, <1>10, <3>1
  <2>3. Kept(h) \intersect Doomed(h.dying) = {}
    <3>1. h.dying = D /\ (keeps => c # None)
      BY <1>7
    <3> HIDE DEF c, D, keeps
    <3>2. c # new
      BY <1>3, <1>4, <1>5 DEF Programs
    <3>3. c # None => c \notin Doomed(host.dying)
      BY <1>1, <1>5 DEF HeldOnce
    <3> QED
      BY <1>6, <1>10, <2>1, <3>1, <3>2, <3>3
  <2> HIDE DEF D, c, keeps, l
  <2>4. (Kept(h) \union Doomed(h.dying)) \intersect host.killed = {}
    BY <1>1, <2>1, <2>2 DEF HeldOnce
  <2>5. \A p \in Programs :
          l[p] \in {"runs", "zombie"} <=>
            p \in Kept(h) \union Doomed(h.dying) \union host.killed
    BY <1>1, <1>4, <1>9, <2>1, <2>2 DEF HeldOnce
  <2> QED
    BY <1>6, <1>7, <2>3, <2>4, <2>5 DEF HeldOnce
<1>13. StartedInOrder(h, l)
  <2>1. h.gen = host.gen /\ h.answered = host.answered
    BY <1>7
  <2>2. \A p \in Programs : p <= new <=> p <= host.gen \/ p = new
    BY <1>3, <1>4 DEF Programs
  <2>3. \A p \in Programs : l[p] # "none" <=> p <= new
    BY <1>1, <1>9, <2>2 DEF StartedInOrder
  <2>4. new <= MaxPrograms
    BY <1>4 DEF Programs
  <2> QED
    BY <1>1, <1>2, <1>9, <2>1, <2>3, <2>4 DEF StartedInOrder
<1>14. ToldAsItEnds(h, l)
  <2>1. host.told[new] = 0
    BY <1>1, <1>4 DEF ToldAsItEnds
  <2> QED
    <3>1. /\ h.process = "exited" <=> host.process = "exited"
          /\ h.gen = host.gen /\ h.told = host.told /\ h.exiting = host.exiting
      BY <1>7
    <3>2. l[host.gen] = leader[host.gen]
      BY <1>3, <1>4, <1>9 DEF Programs
    <3>3. \A p \in Programs : host.told[p] = 1 => l[p] \in Ended
      BY <1>1, <1>9, <2>1 DEF ToldAsItEnds
    <3> HIDE DEF l
    <3> QED
      BY <1>1, <3>1, <3>2, <3>3 DEF ToldAsItEnds
<1>15. NothingLost(h)
  <2>1. \A p \in Programs : ~(host.owed[p] > 0)
    BY <1>1, <1>2, <1>5 DEF NothingLost, Programs, None
  <2>2. c # None => c \in Programs
    BY <1>3, <1>5
  <2>3. \A p \in Programs : owed[p] = IF keeps /\ p = c THEN host.tty[p] ELSE host.owed[p]
    BY <1>3, <2>2
  <2>4. \A p \in Programs : host.tty[p] <= host.tty[p]
    BY <1>3
  <2> HIDE DEF owed, c, keeps
  <2> QED
    BY <1>1, <1>7, <2>1, <2>3, <2>4 DEF NothingLost
<1>16. FuxsAreKnown(h, l)
  <2>1. \A p \in fuxs : p \in host.killed \/ l[p] = "reaped" => p \in host.swept
    <3>1. c # None => c \in Programs /\ c \notin host.killed /\ leader[c] # "reaped"
      BY <1>1, <1>3, <1>5 DEF HeldOnce
    <3>2. \A p \in Programs : l[p] = "reaped" => leader[p] = "reaped"
      BY <1>9
    <3> QED
      BY <1>1, <1>3, <3>1, <3>2 DEF FuxsAreKnown
  <2>2. host.gen \in fuxs \/ Heard(h, host.gen)
    <3>1. c = None => host.told[host.gen] = 1
      BY <1>1, <1>5 DEF ToldAsItEnds
    <3> QED
      BY <1>5, <1>7, <3>1 DEF Heard
  <2>3. \A p \in 1..(host.gen - 1) : p \in fuxs \/ host.told[p] = 1
    BY <1>1, <1>2 DEF FuxsAreKnown
  <2> HIDE DEF fuxs, l
  <2> QED
    BY <1>2, <1>7, <2>1, <2>2, <2>3 DEF FuxsAreKnown
<1>17. Good(h, l) /\ Follows(l)
  BY <1>1, <1>8, <1>9, <1>11, <1>12, <1>13, <1>14, <1>15, <1>16
    DEF Good, Follows, Ended
<1> HIDE DEF l
<1>18. Good(host', l)
  BY <1>2, <1>17, TurnKeepsGood
<1> QED
  BY <1>2, <1>4, <1>9, <1>18 DEF IInv

\* What the end of a program leaves alone.
Rest(g, h) ==
    /\ g.process = h.process /\ g.gen = h.gen /\ g.exiting = h.exiting
    /\ g.closed = h.closed /\ g.killed = h.killed /\ g.tty = h.tty
    /\ g.told = h.told /\ g.swept = h.swept /\ g.owed = h.owed
    /\ g.lost = h.lost /\ g.answered = h.answered

\* Program p, or none, is doomed besides, by fux if it is fux that closes.
Dooms(e, h, p, closed) ==
    /\ e \in HostType
    /\ Rest(e, h)
    /\ e.leftover = h.leftover
    /\ Doomed(e.dying) = Doomed(h.dying) \union ({p} \ {None})
    /\ DoomedOnce(h.dying) /\ (p = None \/ p \notin Doomed(h.dying))
          => DoomedOnce(e.dying)
    /\ e.fuxs = h.fuxs \union (IF closed THEN {p} \ {None} ELSE {})

\* Host::end, of a program or of none.
LEMMA EndIs ==
    ASSUME NEW h \in HostType, NEW p \in 0..MaxPrograms, NEW closed \in BOOLEAN
    PROVE  Dooms(End(h, p, closed), h, p, closed)
<1> DEFINE D == IF p = None THEN h.dying ELSE h.dying \union {Dies(p, FALSE)}
           F == IF p # None /\ closed THEN h.fuxs \union {p} ELSE h.fuxs
           e == End(h, p, closed)
<1>1. p # None => p \in Programs
  BY DEF None, Programs
<1>2. h.dying \in SUBSET Deaths /\ h.fuxs \in SUBSET Programs
  BY DEF HostType
<1>3. /\ D \in SUBSET Deaths /\ F \in SUBSET Programs
      /\ Doomed(D) = Doomed(h.dying) \union ({p} \ {None})
      /\ DoomedOnce(h.dying) /\ (p = None \/ p \notin Doomed(h.dying)) => DoomedOnce(D)
      /\ F = h.fuxs \union (IF closed THEN {p} \ {None} ELSE {})
  BY <1>1, <1>2, OneMoreDies
<1>4. e = [h EXCEPT !.dying = D, !.fuxs = F]
  BY DEF End, HostType
<1> HIDE DEF D, F, e
<1>5. e \in HostType /\ e.dying = D /\ e.fuxs = F /\ Rest(e, h) /\ e.leftover = h.leftover
  BY <1>3, <1>4 DEF HostType, Rest
<1> QED
  BY <1>3, <1>4, <1>5 DEF e, Dooms

\* Host::close: all that the host holds is dying, and known to be ended by fux
\* if it is fux that closes.
LEMMA CloseKeepsIInv ==
    ASSUME IInv, NEW closed \in {"fux", "end"}, Close(closed)
    PROVE  IInv'
<1> DEFINE fux == closed = "fux"
           process == IF host.process = "exited" THEN "exited" ELSE "respawning"
           shut == [host EXCEPT !.closed = closed,
                        !.process = IF @ = "exited" THEN @ ELSE "respawning"]
           c == Child(host)
           own == End(shut, c, fux)
           left == [End(own, host.leftover, fux) EXCEPT !.leftover = None]
           new == End(left, host.resp, TRUE)
           due == host.late \/ ~host.grace
           D == IF host.old = None THEN new.dying
                ELSE new.dying \union {Dies(host.old, due)}
           answered == IF host.resp # None THEN host.answered + 1 ELSE host.answered
<1>1. /\ host \in HostType /\ FieldsApart(host) /\ HeldOnce(host, leader)
      /\ StartedInOrder(host, leader) /\ ToldAsItEnds(host, leader)
      /\ NothingLost(host) /\ FuxsAreKnown(host, leader)
  BY DEF IInv, Good
<1>2. /\ MaxPrograms \in Nat /\ None \in 0..MaxPrograms /\ host.gen \in Programs
      /\ c \in 0..MaxPrograms /\ host.leftover \in 0..MaxPrograms
      /\ host.resp \in 0..MaxPrograms /\ host.old \in 0..MaxPrograms
      /\ host.late \in BOOLEAN /\ host.grace \in BOOLEAN
      /\ host.killed \subseteq Programs /\ host.answered \in Nat
      /\ host.process \in {"reading", "hungup", "failed", "exited", "respawning"}
      /\ c \in {None, host.gen}
  <2>1. MaxPrograms \in Nat /\ None \in 0..MaxPrograms
    BY DEF None
  <2>2. c \in {None, host.gen} /\ host.gen \in Programs /\ host.gen \in 0..MaxPrograms
    BY <1>1, <2>1 DEF HostType, Child, Programs
  <2> QED
    BY <1>1, <2>1, <2>2 DEF HostType
<1>3. /\ host.closed = "no" /\ ~done /\ done' = done
      /\ leader' = leader /\ holds' = holds /\ jobs' = jobs
      /\ host' = [new EXCEPT !.resp = None, !.old = None,
                             !.grace = FALSE, !.late = FALSE,
                             !.dying = @ \union (IF host.old = None THEN {}
                                                 ELSE {Dies(host.old, due)}),
                             !.answered = IF host.resp # None THEN @ + 1 ELSE @]
  BY DEF Close, programs
<1>4. /\ c # None => host.resp = None /\ host.old = None /\ host.leftover = None
      /\ host.leftover # None => host.resp = None /\ host.old = None
      /\ host.old # None => host.old # host.resp
      /\ host.resp # None => host.resp = host.gen + 1
      /\ DoomedOnce(host.dying)
      /\ Kept(host) = {c, host.leftover, host.resp, host.old} \ {None}
      /\ Kept(host) \intersect Doomed(host.dying) = {}
  <2>1. host.gen \in Int
    BY <1>2 DEF Programs
  <2> QED
    BY <1>1, <2>1 DEF FieldsApart, HeldOnce, Kept
<1>5. /\ shut \in HostType /\ shut.dying = host.dying /\ shut.fuxs = host.fuxs
  BY <1>1 DEF HostType
<1>6. /\ own \in HostType /\ Rest(own, shut)
      /\ Doomed(own.dying) = Doomed(host.dying) \union ({c} \ {None})
      /\ own.fuxs = host.fuxs \union (IF fux THEN {c} \ {None} ELSE {})
      /\ DoomedOnce(own.dying)
  <2>1. c = None \/ c \notin Doomed(shut.dying)
    BY <1>4, <1>5
  <2> HIDE DEF shut, c
  <2> QED
    <3>1. Dooms(own, shut, c, fux)
      BY <1>2, <1>5, EndIs
    <3> HIDE DEF own
    <3> QED
      BY <1>4, <1>5, <2>1, <3>1 DEF Dooms
<1> DEFINE over == End(own, host.leftover, fux)
<1>7. /\ over \in HostType /\ Rest(over, own)
      /\ Doomed(over.dying) = Doomed(own.dying) \union ({host.leftover} \ {None})
      /\ over.fuxs = own.fuxs \union (IF fux THEN {host.leftover} \ {None} ELSE {})
      /\ DoomedOnce(over.dying)
  <2>1. host.leftover = None \/ host.leftover \notin Doomed(own.dying)
    BY <1>4, <1>6
  <2>2. own \in HostType /\ DoomedOnce(own.dying) /\ fux \in BOOLEAN
    BY <1>6
  <2> DEFINE p == host.leftover
  <2>3. p \in 0..MaxPrograms /\ (p = None \/ p \notin Doomed(own.dying))
    BY <1>2, <2>1
  <2> HIDE DEF own, fux, p
  <2>4. Dooms(End(own, p, fux), own, p, fux)
    BY <2>2, <2>3, EndIs
  <2>5. Dooms(over, own, p, fux)
    BY <2>4 DEF p
  <2> HIDE DEF over
  <2> QED
    BY <2>2, <2>3, <2>5 DEF Dooms, p
<1>8. /\ left \in HostType /\ left.dying = over.dying /\ left.fuxs = over.fuxs
      /\ left.leftover = None /\ Rest(left, over)
  <2> HIDE DEF own, over
  <2>1. left = [over EXCEPT !.leftover = None]
    BY DEF over
  <2> QED
    BY <1>2, <1>7, <2>1 DEF HostType, Rest
<1>9. /\ new \in HostType /\ Rest(new, left) /\ new.leftover = left.leftover
      /\ Doomed(new.dying) = Doomed(left.dying) \union ({host.resp} \ {None})
      /\ new.fuxs = left.fuxs \union ({host.resp} \ {None})
      /\ DoomedOnce(new.dying)
  <2>1. host.resp = None \/ host.resp \notin Doomed(left.dying)
    BY <1>4, <1>6, <1>7, <1>8
  <2> DEFINE p == host.resp
  <2>2. /\ left \in HostType /\ DoomedOnce(left.dying) /\ p \in 0..MaxPrograms
        /\ p = None \/ p \notin Doomed(left.dying)
    BY <1>2, <1>7, <1>8, <2>1
  <2> HIDE DEF left, p
  <2>3. Dooms(End(left, p, TRUE), left, p, TRUE)
    BY <2>2, EndIs
  <2>4. Dooms(new, left, p, TRUE)
    BY <2>3 DEF p
  <2> HIDE DEF new
  <2> QED
    BY <2>2, <2>4 DEF Dooms, p
<1>10. /\ D \in SUBSET Deaths /\ DoomedOnce(D)
       /\ Doomed(D) = Doomed(host.dying) \union Kept(host)
  <2>1. /\ new.dying \in SUBSET Deaths /\ due \in BOOLEAN
        /\ host.old # None => host.old \in Programs
    <3> HIDE DEF new
    <3>1. new.dying \in SUBSET Deaths
      BY <1>9 DEF HostType
    <3> QED
      BY <1>2, <3>1 DEF Programs, None
  <2>2. Doomed(new.dying) = Doomed(host.dying) \union ({c, host.leftover, host.resp} \ {None})
    BY <1>6, <1>7, <1>8, <1>9
  <2> HIDE DEF new, due, c
  <2>3. host.old = None \/ host.old \notin Doomed(new.dying)
    BY <1>4, <2>2
  <2>4. CASE host.old = None
    BY <1>4, <1>9, <2>1, <2>2, <2>4
  <2>5. CASE host.old # None
    BY <1>4, <1>9, <2>1, <2>2, <2>3, <2>5, OneMoreDies
  <2> QED
    BY <2>4, <2>5
<1>11. new.fuxs = host.fuxs \union ((IF fux THEN {c, host.leftover, host.resp} ELSE {host.resp}) \ {None})
  BY <1>6, <1>7, <1>8, <1>9
<1>12. /\ host' \in HostType /\ host'.dying = D /\ host'.fuxs = new.fuxs
       /\ host'.closed = closed /\ host'.process = process
       /\ host'.gen = host.gen /\ host'.exiting = host.exiting
       /\ host'.resp = None /\ host'.old = None /\ host'.leftover = None
       /\ host'.killed = host.killed /\ host'.tty = host.tty /\ host'.told = host.told
       /\ host'.swept = host.swept /\ host'.owed = host.owed
       /\ host'.lost = host.lost /\ host'.answered = answered
  <2>1. /\ shut.closed = closed /\ shut.process = process
        /\ shut.gen = host.gen /\ shut.exiting = host.exiting
        /\ shut.killed = host.killed /\ shut.tty = host.tty /\ shut.told = host.told
        /\ shut.swept = host.swept /\ shut.owed = host.owed
        /\ shut.lost = host.lost /\ shut.answered = host.answered
    BY <1>1 DEF HostType
  <2> HIDE DEF shut, own, over, left, new, process, fux
  <2>2. /\ Rest(new, shut) /\ new.leftover = None
    BY <1>6, <1>7, <1>8, <1>9 DEF Rest
  <2> HIDE DEF due
  <2>3. host' = [new EXCEPT !.resp = None, !.old = None, !.grace = FALSE,
                            !.late = FALSE, !.dying = D, !.answered = answered]
    <3>1. new.dying \union (IF host.old = None THEN {} ELSE {Dies(host.old, due)}) = D
      BY DEF D
    <3>2. new.answered = host.answered
      BY <2>1, <2>2 DEF Rest
    <3> HIDE DEF D
    <3> QED
      BY <1>3, <3>1, <3>2
  <2>4. answered \in Nat
    BY <1>2
  <2> HIDE DEF D, answered
  <2>5. host' \in HostType
    BY <1>2, <1>9, <1>10, <2>3, <2>4 DEF HostType
  <2>6. /\ host'.dying = D /\ host'.fuxs = new.fuxs /\ host'.answered = answered
        /\ host'.resp = None /\ host'.old = None /\ host'.leftover = new.leftover
        /\ host'.process = new.process /\ host'.gen = new.gen
        /\ host'.exiting = new.exiting /\ host'.closed = new.closed
        /\ host'.killed = new.killed /\ host'.tty = new.tty /\ host'.told = new.told
        /\ host'.swept = new.swept /\ host'.owed = new.owed /\ host'.lost = new.lost
    BY <1>9, <2>3 DEF HostType
  <2> QED
    BY <2>1, <2>2, <2>5, <2>6 DEF Rest
<1> HIDE DEF D, new, left, over, own, shut
<1>13. Child(host)' = None /\ Kept(host)' = {} /\ Last(host)' = Last(host)
  BY <1>2, <1>12 DEF Child, Kept, Last, None
<1>14. FieldsApart(host)'
  BY <1>12 DEF FieldsApart
<1>15. HeldOnce(host, leader)'
  BY <1>1, <1>3, <1>10, <1>12, <1>13 DEF HeldOnce
<1>16. StartedInOrder(host, leader)'
  BY <1>1, <1>2, <1>3, <1>12, <1>13 DEF StartedInOrder, Programs
<1>17. ToldAsItEnds(host, leader)'
  BY <1>1, <1>2, <1>3, <1>12 DEF ToldAsItEnds
<1>18. NothingLost(host)'
  BY <1>1, <1>12 DEF NothingLost
<1>19. FuxsAreKnown(host, leader)'
  <2> DEFINE kept == {c, host.leftover, host.resp} \ {None}
  <2>1. /\ host.fuxs \subseteq host.fuxs' /\ host.fuxs' \subseteq host.fuxs \union kept
        /\ closed = "fux" => kept \subseteq host.fuxs'
        /\ host.resp # None => host.resp \in host.fuxs'
    BY <1>11, <1>12
  <2>2. kept \subseteq Kept(host) /\ kept \subseteq Programs
    BY <1>2, <1>4 DEF Programs, None
  <2> HIDE DEF kept
  <2>3. \A p \in kept : p \notin host.killed /\ leader[p] # "reaped"
    BY <1>1, <2>2 DEF HeldOnce
  <2>4. \A p \in host.fuxs' : p \in host.killed \/ leader[p] = "reaped" => p \in host.swept
    BY <1>1, <2>1, <2>3 DEF FuxsAreKnown
  <2>5. ASSUME closed = "fux", NEW p \in Programs, leader[p] # "none"
        PROVE  p \in host.fuxs' \/ Heard(host, p)
    <3>1. p <= Last(host) /\ host.gen = host.answered + 1 /\ p \in Int
      BY <1>1, <1>3, <2>5 DEF StartedInOrder, Programs
    <3>2. p \in 1..(host.gen - 1) \/ p = host.gen \/ (host.resp # None /\ p = host.resp)
      BY <1>2, <1>4, <3>1 DEF Last, Programs
    <3>3. CASE p \in 1..(host.gen - 1)
      BY <1>1, <1>3, <2>1, <3>3 DEF FuxsAreKnown, Heard
    <3>4. CASE p = host.gen
      <4>1. CASE c # None
        BY <1>2, <2>1, <2>5, <3>4, <4>1 DEF kept
      <4>2. CASE host.process = "exited"
        BY <1>1, <3>4, <4>2 DEF ToldAsItEnds, Heard
      <4>3. CASE host.process = "respawning"
        BY <1>1, <1>3, <2>1, <3>4, <4>3 DEF FieldsApart, FuxsAreKnown
      <4> QED
        BY <1>2, <4>1, <4>2, <4>3 DEF Child, Programs, None
    <3>5. CASE host.resp # None /\ p = host.resp
      BY <2>1, <3>5
    <3> QED
      BY <3>2, <3>3, <3>4, <3>5
  <2>6. \A p \in Programs : Heard(host, p)' <=> Heard(host, p)
    BY <1>12 DEF Heard
  <2> QED
    BY <1>3, <1>12, <2>4, <2>5, <2>6 DEF FuxsAreKnown
<1> QED
  BY <1>3, <1>12, <1>14, <1>15, <1>16, <1>17, <1>18, <1>19 DEF IInv, Good

\* Dying::kill of those whose grace is over: dead already, it reaps them.
LEMMA GraceKeepsIInv == ASSUME IInv, FireGrace PROVE IInv'
<1> DEFINE due == {d \in host.dying : d.due}
           ps == {d.p : d \in due}
           ended == {p \in ps : leader[p] = "zombie"}
           l == Reaped(ended)
<1>1. /\ host \in HostType /\ FieldsApart(host) /\ HeldOnce(host, leader)
      /\ StartedInOrder(host, leader) /\ ToldAsItEnds(host, leader)
      /\ NothingLost(host) /\ FuxsAreKnown(host, leader) /\ leader \in LeaderType
  BY DEF IInv, Good
<1>2. /\ host' = [host EXCEPT !.dying = @ \ due,
                              !.killed = @ \union (ps \ ended),
                              !.sigkill = @ \union ps,
                              !.swept = @ \union (ps \intersect host.fuxs)]
      /\ leader' = l /\ ~done /\ done' = done /\ holds' = holds /\ jobs' = jobs
  BY DEF FireGrace
<1>3. /\ host.dying \in SUBSET Deaths /\ host.killed \in SUBSET Programs
      /\ host.fuxs \in SUBSET Programs /\ host.gen \in Programs
      /\ host.sigkill \in SUBSET Programs /\ host.swept \in SUBSET Programs
  BY <1>1 DEF HostType
<1>4. /\ ps \in SUBSET Programs /\ ended \subseteq ps
      /\ ps \subseteq Doomed(host.dying)
      /\ Doomed(host.dying \ due) = Doomed(host.dying) \ ps
      /\ DoomedOnce(host.dying \ due)
  <2>1. ps \in SUBSET Programs
    BY <1>3 DEF Deaths
  <2>2. \A d, e \in host.dying : d.p = e.p => d = e
    BY <1>1 DEF HeldOnce, DoomedOnce
  <2> QED
    BY <2>1, <2>2 DEF Doomed, DoomedOnce
<1>5. \A p \in Programs :
        /\ l[p] = IF p \in ended THEN "reaped" ELSE leader[p]
        /\ p \in ended <=> p \in ps /\ leader[p] = "zombie"
  BY DEF Reaped
<1> DEFINE D == host.dying \ due
<1>6. l \in LeaderType
  BY <1>1, <1>5 DEF LeaderType, Reaped
<1> HIDE DEF l, due, ps, ended, D
<1>7. /\ host' \in HostType /\ host'.dying = D
      /\ host'.killed = host.killed \union (ps \ ended)
      /\ host'.swept = host.swept \union (ps \intersect host.fuxs)
      /\ host'.process = host.process /\ host'.gen = host.gen
      /\ host'.exiting = host.exiting /\ host'.draining = host.draining
      /\ host'.resp = host.resp /\ host'.old = host.old
      /\ host'.leftover = host.leftover /\ host'.closed = host.closed
      /\ host'.fuxs = host.fuxs /\ host'.tty = host.tty
      /\ host'.told = host.told /\ host'.owed = host.owed
      /\ host'.lost = host.lost /\ host'.answered = host.answered
  <2>1. D \in SUBSET Deaths /\ ps \in SUBSET Programs
    BY <1>3, <1>4 DEF D
  <2>2. host' = [host EXCEPT !.dying = D,
                             !.killed = host.killed \union (ps \ ended),
                             !.sigkill = host.sigkill \union ps,
                             !.swept = host.swept \union (ps \intersect host.fuxs)]
    BY <1>2 DEF D
  <2> QED
    BY <1>1, <1>3, <2>1, <2>2 DEF HostType
<1>8. Child(host)' = Child(host) /\ Kept(host)' = Kept(host) /\ Last(host)' = Last(host)
  BY <1>7 DEF Child, Kept, Last
<1>9. FieldsApart(host)' /\ NothingLost(host)'
  BY <1>1, <1>7, <1>8 DEF FieldsApart, NothingLost
<1>10. HeldOnce(host, leader)'
  <2>1. Doomed(host'.dying) = Doomed(host.dying) \ ps /\ DoomedOnce(host'.dying)
    BY <1>4, <1>7 DEF D
  <2>2. \A p \in ps : leader[p] \in {"runs", "zombie"}
    BY <1>1, <1>4 DEF HeldOnce
  <2> QED
    BY <1>1, <1>2, <1>4, <1>5, <1>7, <1>8, <2>1, <2>2 DEF HeldOnce
<1>11. StartedInOrder(host, leader)'
  BY <1>1, <1>2, <1>5, <1>7, <1>8 DEF StartedInOrder
<1>12. ToldAsItEnds(host, leader)'
  BY <1>1, <1>2, <1>3, <1>5, <1>7 DEF ToldAsItEnds, Ended
<1>13. FuxsAreKnown(host, leader)'
  BY <1>1, <1>2, <1>3, <1>4, <1>5, <1>7 DEF FuxsAreKnown, Heard
<1> QED
  BY <1>2, <1>6, <1>7, <1>9, <1>10, <1>11, <1>12, <1>13 DEF IInv, Good

\* The grace of a program is over.
LEMMA TimeKeepsIInv == ASSUME IInv, NEW p \in Programs, GraceOver(p) PROVE IInv'
<1>1. /\ Good(host, leader) /\ host \in HostType /\ FieldsApart(host)
      /\ host.dying \in SUBSET Deaths
  BY DEF IInv, Good, HostType
<1>2. CASE \E d \in host.dying :
             /\ ~d.due
             /\ host' = [host EXCEPT !.dying = (@ \ {d}) \union {[d EXCEPT !.due = TRUE]}]
             /\ UNCHANGED <<programs, done>>
  <2>1. PICK d \in host.dying :
             /\ ~d.due
             /\ host' = [host EXCEPT !.dying = (@ \ {d}) \union {[d EXCEPT !.due = TRUE]}]
             /\ UNCHANGED <<programs, done>>
    BY <1>2
  <2> DEFINE late == [d EXCEPT !.due = TRUE]
             D == (host.dying \ {d}) \union {late}
  <2>2. d \in Deaths /\ late \in Deaths /\ late.p = d.p
    BY <1>1 DEF Deaths
  <2> HIDE DEF late
  <2>3. D \in SUBSET Deaths /\ Doomed(D) = Doomed(host.dying)
    BY <1>1, <2>2 DEF Doomed
  <2>4. DoomedOnce(host.dying) => DoomedOnce(D)
    BY <1>1, <2>2 DEF DoomedOnce
  <2>5. host' = [host EXCEPT !.dying = D]
    BY <2>1 DEF late
  <2> HIDE DEF D
  <2>6. Alike(host', host) /\ SameOutput(host', host)
    BY <1>1, <2>3, <2>4, <2>5 DEF Alike, SameOutput, HostType
  <2>7. done => host.dying = {}
    BY DEF IInv, Finished
  <2> QED
    BY <1>1, <2>1, <2>6, <2>7, AlikeKeepsGood DEF IInv, programs
<1>3. CASE /\ host.old = p /\ host' = [host EXCEPT !.late = TRUE]
           /\ UNCHANGED <<programs, done>>
  <2>1. Alike(host', host) /\ SameOutput(host', host)
    BY <1>1, <1>3 DEF Alike, SameOutput, HostType
  <2>2. ~done
    BY <1>1, <1>3 DEF IInv, Finished, FieldsApart, Programs, None
  <2> QED
    BY <1>1, <1>3, <2>1, <2>2, AlikeKeepsGood DEF IInv, programs
<1> QED
  BY <1>2, <1>3 DEF GraceOver

\* A program writes, ends or closes its terminal.
LEMMA ProgramsKeepIInv ==
    ASSUME IInv, NEW p \in Programs,
           Write(p) \/ LetTerminalGo(p) \/ LeaderEnds(p) \/ JobsEnd(p)
    PROVE  IInv'
<1>1. Good(host, leader) /\ host \in HostType
  BY DEF IInv, Good
<1>2. CASE Write(p)
  <2>1. /\ p \in {Child(host), host.resp, host.old, host.leftover}
        /\ host.tty[p] < MaxWrites
        /\ host' = [host EXCEPT !.tty[p] = @ + 1]
        /\ leader' = leader /\ done' = done /\ holds' = holds /\ jobs' = jobs
    BY <1>2 DEF Write
  <2> DEFINE tty == [host.tty EXCEPT ![p] = @ + 1]
  <2>2. /\ host.tty \in [Programs -> 0..MaxWrites]
        /\ host.owed \in [Programs -> 0..MaxWrites] /\ MaxWrites \in Nat
    BY <1>1 DEF HostType
  <2>3. /\ tty \in [Programs -> 0..MaxWrites]
        /\ \A q \in Programs : host.owed[q] <= host.tty[q] => host.owed[q] <= tty[q]
    BY <2>1, <2>2
  <2>4. host' = [host EXCEPT !.tty = tty]
    BY <1>1, <2>1 DEF HostType
  <2> HIDE DEF tty
  <2>5. Alike(host', host) /\ host'.tty = tty /\ host'.owed = host.owed
    BY <1>1, <2>3, <2>4 DEF Alike, HostType
  <2>6. NothingLost(host')
    BY <1>1, <2>3, <2>5 DEF Good, Alike, NothingLost
  <2>7. Good(host', leader)
    BY <1>1, <2>5, <2>6, AlikeKeepsGood
  <2>8. ~done
    BY <1>1, <2>1 DEF IInv, Finished, Good, FieldsApart, Programs, None
  <2> QED
    BY <2>1, <2>7, <2>8 DEF IInv
<1>3. CASE LeaderEnds(p)
  <2>1. /\ leader' = [leader EXCEPT ![p] = "zombie"] /\ leader[p] = "runs"
        /\ host' = host /\ done' = done /\ holds' = holds \ {p} /\ jobs' = jobs
    BY <1>3 DEF LeaderEnds
  <2>2. leader \in LeaderType
    BY DEF IInv
  <2>3. /\ leader' \in LeaderType
        /\ \A q \in Programs : \/ leader'[q] = leader[q]
                               \/ leader[q] = "runs" /\ leader'[q] = "zombie"
    BY <2>1, <2>2 DEF LeaderType
  <2>4. Good(host, leader')
    BY <1>1, <2>3, EndsKeepGood
  <2> QED
    BY <2>1, <2>3, <2>4 DEF IInv, Finished, Child
<1>4. CASE LetTerminalGo(p) \/ JobsEnd(p)
  BY <1>1, <1>4 DEF IInv, LetTerminalGo, JobsEnd, Finished, Child
<1> QED
  BY <1>2, <1>3, <1>4

\* What holds at the start holds for good.
THEOREM IInvHolds == Spec => []IInv
<1>1. IInv /\ [Next]_vars => IInv'
  <2> SUFFICES ASSUME IInv, [Next]_vars PROVE IInv'
    OBVIOUS
  <2>1. CASE HostDoes
    <3>1. CASE Finish
      BY <3>1 DEF Finish, programs, IInv, Finished, Child
    <3> QED
      BY <2>1, <3>1, ReapKeepsIInv, ReadKeepsIInv, GraceKeepsIInv DEF HostDoes
  <2>2. ASSUME NEW kill \in BOOLEAN, Respawn(kill) PROVE IInv'
    BY <2>2, RespawnKeepsIInv
  <2>3. ASSUME NEW closed \in {"fux", "end"}, Close(closed) PROVE IInv'
    BY <2>3, CloseKeepsIInv
  <2>4. ASSUME NEW p \in Programs,
               \/ GraceOver(p)
               \/ Write(p) \/ LetTerminalGo(p) \/ LeaderEnds(p) \/ JobsEnd(p)
        PROVE  IInv'
    BY <2>4, TimeKeepsIInv, ProgramsKeepIInv
  <2>5. CASE UNCHANGED vars
    BY <2>5 DEF vars, IInv, Finished, Child
  <2> QED
    BY <2>1, <2>2, <2>3, <2>4, <2>5 DEF Next
<1> QED
  BY <1>1, InitIInv, PTL DEF Spec

-----------------------------------------------------------------------------
(* What follows.                                                           *)

\* A program that is not reaped is in one of the places the host looks in, in
\* that one alone, and is in none once it is: the host kills and reaps each
\* program it started, and none twice (Leader, Dying, Host::reap_killed).
LEMMA HeldInOnePlace ==
    ASSUME IInv, NEW p \in Programs
    PROVE  Cardinality(Places(p)) = IF leader[p] \in {"runs", "zombie"} THEN 1 ELSE 0
<1> DEFINE wheres == {where \in {"own", "new", "old", "left"} :
              p = CASE where = "own" -> Child(host) [] where = "new" -> host.resp
                    [] where = "old" -> host.old [] where = "left" -> host.leftover}
           deaths == {<<d.due, d.first>> : d \in {e \in host.dying : e.p = p}}
           kills == {"killed"} \intersect {IF p \in host.killed THEN "killed" ELSE "no"}
<1>1. /\ host \in HostType /\ FieldsApart(host) /\ HeldOnce(host, leader)
      /\ p # None /\ host.gen \in Int
  <2>1. host \in HostType /\ FieldsApart(host) /\ HeldOnce(host, leader)
    BY DEF IInv, Good
  <2>2. p # None /\ \A q \in Programs : q \in Int
    BY DEF Programs, None
  <2>3. host.gen \in Programs
    BY <2>1 DEF HostType
  <2> QED
    BY <2>1, <2>2, <2>3
<1>2. Places(p) = wheres \union deaths \union kills
  BY DEF Places
<1>3. /\ "own" \in wheres <=> p = Child(host)
      /\ "new" \in wheres <=> p = host.resp
      /\ "old" \in wheres <=> p = host.old
      /\ "left" \in wheres <=> p = host.leftover
      /\ wheres \subseteq {"own", "new", "old", "left"}
  OBVIOUS
<1>4. deaths = {} <=> p \notin Doomed(host.dying)
  BY DEF Doomed
<1>5. \A x, y \in deaths : x = y
  BY <1>1 DEF HeldOnce, DoomedOnce
<1>6. kills = IF p \in host.killed THEN {"killed"} ELSE {}
  OBVIOUS
<1> HIDE DEF wheres, deaths, kills
<1>7. CASE p \in Kept(host)
  <2>1. \E where : wheres = {where}
    <3> DEFINE new == host.resp
    <3>1. /\ p = Child(host) => p # host.resp /\ p # host.old /\ p # host.leftover
          /\ p = new => p # host.old /\ p # host.leftover
          /\ p = host.old => p # host.leftover
          /\ "new" \in wheres <=> p = new
      BY <1>1, <1>3 DEF FieldsApart
    <3>2. CASE p = Child(host)
      BY <1>3, <3>1, <3>2
    <3>3. CASE p = new
      <4>1. p # Child(host)
        BY <3>1, <3>3
      <4> HIDE DEF new
      <4> QED
        BY <1>3, <3>1, <3>3, <4>1
    <3>4. CASE p = host.old
      BY <1>3, <3>1, <3>4
    <3>5. CASE p = host.leftover
      BY <1>3, <3>1, <3>5
    <3> QED
      BY <1>7, <3>2, <3>3, <3>4, <3>5 DEF Kept
  <2>2. deaths = {} /\ kills = {} /\ leader[p] \in {"runs", "zombie"}
    BY <1>1, <1>4, <1>6, <1>7 DEF HeldOnce
  <2> QED
    BY <1>2, <2>1, <2>2, FS_Singleton
<1>8. CASE p \notin Kept(host)
  <2>1. wheres = {}
    BY <1>1, <1>3, <1>8 DEF Kept
  <2>2. CASE p \in Doomed(host.dying)
    <3>1. /\ \E x : deaths = {x}
          /\ kills = {} /\ leader[p] \in {"runs", "zombie"}
      BY <1>1, <1>4, <1>5, <1>6, <2>2 DEF HeldOnce
    <3> QED
      BY <1>2, <2>1, <3>1, FS_Singleton
  <2>3. CASE p \in host.killed
    <3>1. /\ deaths = {} /\ kills = {"killed"} /\ leader[p] \in {"runs", "zombie"}
      BY <1>1, <1>4, <1>6, <2>3 DEF HeldOnce
    <3> QED
      BY <1>2, <2>1, <3>1, FS_Singleton
  <2>4. CASE p \notin Doomed(host.dying) \union host.killed
    <3>1. /\ deaths = {} /\ kills = {} /\ leader[p] \notin {"runs", "zombie"}
      BY <1>1, <1>4, <1>6, <1>8, <2>4 DEF HeldOnce
    <3> QED
      BY <1>2, <2>1, <3>1, FS_EmptySet
  <2> QED
    BY <2>2, <2>3, <2>4
<1> QED
  BY <1>7, <1>8

\* Every field has its type, and every program started is held in one place
\* till it is reaped: no zombie stays for good, and none is killed twice.
THEOREM HostSound == Spec => []HostIsSound
<1>1. IInv => TypeOK
  <2> SUFFICES ASSUME IInv PROVE TypeOK
    OBVIOUS
  <2>1. host \in HostType /\ leader \in LeaderType /\ holds \union jobs \subseteq Programs
    BY DEF IInv, Good
  <2>2. {host.resp, host.old, host.leftover} \subseteq Programs \union {None}
    <3>1. /\ host.resp \in 0..MaxPrograms /\ host.old \in 0..MaxPrograms
          /\ host.leftover \in 0..MaxPrograms /\ MaxPrograms \in Nat
      BY <2>1 DEF HostType
    <3> QED
      BY <3>1 DEF Programs, None
  <2>3. \A p \in Programs : host.tty[p] \in 0..MaxWrites /\ host.told[p] \in 0..2
    BY <2>1 DEF HostType
  <2> QED
    BY <2>1, <2>2, <2>3 DEF TypeOK, HostType, LeaderType
<1>2. IInv => HostIsSound
  BY <1>1, HeldInOnePlace DEF HostIsSound, EveryProgramIsHeld
<1> QED
  BY <1>2, IInvHolds, PTL

\* An exit is told once, of a program that ended; a respawn is answered once,
\* by its end or its pane's (Pane::exit, Host::after_turn, Host::close).
THEOREM SaidOnce == Spec => []ToldOnce
<1>1. IInv => ExitIsToldOnce
  <2> SUFFICES ASSUME IInv, NEW p \in Programs
               PROVE  host.told[p] <= 1 /\ (host.told[p] = 1 => leader[p] \in {"zombie", "reaped"})
    BY DEF ExitIsToldOnce
  <2>1. host \in HostType /\ ToldAsItEnds(host, leader)
    BY DEF IInv, Good
  <2>2. host.told[p] \in 0..1
    BY <2>1 DEF HostType
  <2> QED
    BY <2>1, <2>2 DEF ToldAsItEnds, Ended
<1>2. IInv => RespawnsAnsweredOnce
  <2> SUFFICES ASSUME IInv PROVE RespawnsAnsweredOnce
    OBVIOUS
  <2> DEFINE last == Last(host)
  <2>1. /\ host.answered \in Nat /\ last \in Nat /\ last <= MaxPrograms
        /\ \A p \in Programs : leader[p] # "none" <=> p <= last
        /\ last = host.answered + 1 + (IF host.resp # None THEN 1 ELSE 0)
    <3>1. host.answered \in Nat /\ StartedInOrder(host, leader)
      BY DEF IInv, Good, HostType
    <3> QED
      BY <3>1 DEF StartedInOrder, Last
  <2> HIDE DEF last
  <2>2. Started = 1..last
    BY <2>1 DEF Started, Programs
  <2>3. Cardinality(1..last) = last
    BY <2>1, FS_Interval
  <2> QED
    BY <2>1, <2>2, <2>3 DEF RespawnsAnsweredOnce
<1>3. IInv => ToldOnce
  BY <1>1, <1>2 DEF ToldOnce
<1> QED
  BY <1>3, IInvHolds, PTL

\* A respawn never takes its place before all the old program had written is
\* on the screen (Host::respawn, Host::after_turn).
THEOREM NothingLeftBehind == Spec => []NothingLeftIsLost
<1>1. IInv => NothingLeftIsLost
  BY DEF IInv, Good, NothingLost, NothingLeftIsLost
<1> QED
  BY <1>1, IInvHolds, PTL

\* When the process of a pane fux closed is done, each session of its programs
\* was killed, but of those whose exit it heard of (Leader::kill).
THEOREM ClosedPanesLeaveNone == Spec => []ClosedLeavesNone
<1>1. IInv => ClosedLeavesNone
  <2> SUFFICES ASSUME IInv, done, host.closed = "fux", NEW p \in Programs, leader[p] # "none"
               PROVE  p \in host.swept \/ Heard(host, p)
    BY DEF ClosedLeavesNone, Started, Heard
  <2>1. /\ HeldOnce(host, leader) /\ FuxsAreKnown(host, leader) /\ leader \in LeaderType
        /\ host \in HostType /\ FieldsApart(host)
    BY DEF IInv, Good
  <2>2. Kept(host) = {} /\ host.dying = {} /\ host.killed = {}
    BY <2>1 DEF IInv, Finished, Kept, FieldsApart
  <2>3. leader[p] = "reaped"
    BY <2>1, <2>2 DEF HeldOnce, Doomed, LeaderType
  <2> QED
    BY <2>1, <2>3 DEF FuxsAreKnown
<1> QED
  BY <1>1, IInvHolds, PTL

=============================================================================
