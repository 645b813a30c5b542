----------------------------- MODULE Conns_proofs ------------------------------
(***************************************************************************)
(* What the connections promise of their frames, their fences and their    *)
(* ends (module Conns), for every number of connections, and what keeps it *)
(* so, step by step.                                                       *)
(***************************************************************************)
EXTENDS Conns, Iteration, SequenceTheorems, FiniteSetTheorems, TLAPS

-----------------------------------------------------------------------------
(* The inductive invariant.                                                *)

OverStages == {"closing", "dead", "closed"}
Asking == {"command", "blocked", "waiting"}
StagesOf(c) ==
    {"hello"} \union OverStages
        \union (IF c \in Commands THEN Asking ELSE {"attaching", "attached"})
WantsOf(c) ==
    {"hello", "nothing"}
        \union (IF c \in Commands THEN {"command", "answer"} ELSE {"attaching", "attached"})
Expected(c) == IF c \in Commands THEN {"command"} ELSE {"attaching", "attached"}
Acts == {"act", "detach", "answer"}

\* What each connection's client sends, and what its server tells its process.
SentBy(c) ==
    {f \in Sents :
        IF c \in Commands
        THEN /\ f.f \in {"hello", "ask"} /\ f.i = 0
             /\ f.f = "hello" => f.what = "command"
             /\ f.f = "ask" => f.what \in AllAsks /\ f.to \in Attachers
        ELSE /\ f.f \in {"hello", "attach"} \union Acts
             /\ f.f = "hello" => f.what = "attaching"
             /\ f.f \in {"hello", "attach"} => f.i = 0}
WordTo(c) ==
    {word \in Said :
        /\ word.m = "expect" => word.x \in Expected(c)
        /\ word.m = "make" => word.to \in Attachers}

ClientOf(c) ==
    [side : {"open", "shut", "gone"}, opened : BOOLEAN, inbox : Seq(SentBy(c)), sent : Nat,
     asked : Seq(AllAsks), left : BOOLEAN, owed : Seq(Nat), typed : SUBSET Nat,
     results : Seq(Answers \X Nat), exited : BOOLEAN]
ProcOf(c) ==
    {p \in [on : BOOLEAN, want : WantsOf(c), told : BOOLEAN, answered : BOOLEAN, making : BOOLEAN,
     closing : BOOLEAN, unflushed : BOOLEAN, out : Seq(WordTo(c)), typing : Nat, errand : Nat,
     to : Attachers \union {None}, reached : BOOLEAN, listening : BOOLEAN,
     received : SUBSET Nat, keys : Nat, backlog : Seq(WordTo(c))] :
        p.reached => p.to \in Attachers}
UpOf(c) == [frames : Seq(SentBy(c)), flushed : BOOLEAN, shut : BOOLEAN]
AskOf == [f : {"none", "ask"}, what : AllAsks \union {"none"}, to : Attachers \union {None},
          n : Nat, i : {0}]
ConnOf(c) ==
    {k \in [stage : StagesOf(c), deco : Seq(SentBy(c)), pending : BOOLEAN, asked : AskOf,
            due : BOOLEAN, stuck : {"no", "stuck", "over"}, gone : BOOLEAN, processed : Nat,
            tokens : SUBSET (Attachers \X Nat), keys : SUBSET Nat, down : Seq(WordTo(c))] :
        k.stage \in {"blocked", "waiting"} =>
            k.asked.what \in AllAsks /\ k.asked.to \in Attachers}
SrvType(s) ==
    /\ s = [conn |-> s.conn, asked |-> s.asked, last |-> s.last, phase |-> s.phase,
            ran |-> s.ran]
    /\ s.conn = [c \in Conns |-> s.conn[c]]
    /\ \A c \in Conns : s.conn[c] \in ConnOf(c)
    /\ s.asked \in Nat /\ s.last \in Nat
    /\ s.phase \in {"serving", "stopping", "ended", "cut"}
    /\ s.ran \subseteq Attachers \X Nat
Types ==
    /\ client = [c \in Conns |-> client[c]] /\ \A c \in Conns : client[c] \in ClientOf(c)
    /\ proc = [c \in Conns |-> proc[c]] /\ \A c \in Conns : proc[c] \in ProcOf(c)
    /\ up = [c \in Conns |-> up[c]] /\ \A c \in Conns : up[c] \in UpOf(c)
    /\ coming \in [Conns -> SUBSET Nat]
    /\ SrvType(srv)

\* A client's frames are numbered as they are sent: what it opens with, then
\* from 1 on what it asks or does.
Sendings(c, k) == IF c \in Commands THEN Len(k.asked) ELSE k.sent
Opening(c) == IF c \in Commands THEN 1 ELSE 2
Right(c, f, n) ==
    IF c \in Commands THEN (n = 0 /\ f.f = "hello") \/ (n >= 1 /\ f.f = "ask")
    ELSE \/ n = -1 /\ f.f = "hello"
         \/ n = 0 /\ f.f = "attach"
         \/ n >= 1 /\ f.f \in Acts /\ f.i = n
Numbered(c, q, after) == \A j \in DOMAIN q : Right(c, q[j], after + j)

\* The last of its client's frames that its process has taken, and that its
\* server has.
Pos(c, k) == Sendings(c, k) - Len(k.inbox)
At(c, k, u, conn) == Pos(c, k) - Len(u.frames) - Len(conn.deco)
IsAt(c, conn, n) ==
    /\ conn.stage = "hello" => n = -Opening(c)
    /\ conn.stage = "attaching" => n = -1
    /\ conn.stage = "attached" => n = conn.processed
    /\ conn.stage \in Asking => n >= 0

Lined(c, k, u, conn) ==
    /\ ~k.opened => /\ k.inbox = <<>> /\ Sendings(c, k) = 0
                    /\ u.frames = <<>> /\ conn.deco = <<>>
                    /\ conn.stage \in {"hello"} \union OverStages
    /\ k.opened => Numbered(c, k.inbox, Pos(c, k)) /\ Pos(c, k) >= -Opening(c)
    /\ k.opened /\ conn.stage \notin OverStages =>
        /\ Numbered(c, u.frames, Pos(c, k) - Len(u.frames))
        /\ Numbered(c, conn.deco, At(c, k, u, conn))
        /\ IsAt(c, conn, At(c, k, u, conn))
    /\ conn.stage \in {"hello", "attaching"} => conn.processed = 0

Expecting(q) == {i \in DOMAIN q : q[i].m = "expect"}
Once(q) == \A i, j \in Expecting(q) : i = j
Due(c, k, conn, x) ==
    /\ k.opened /\ conn.stage # "hello"
    /\ x = "attaching" => Pos(c, k) = -1
    /\ x \in {"attached", "command"} => Pos(c, k) >= 0
    /\ x = "attached" => conn.stage # "attaching"
Words(c, k, p, conn) ==
    /\ Once(p.backlog) /\ Once(conn.down)
    /\ Expecting(p.backlog) = {} \/ Expecting(conn.down) = {}
    /\ \A i \in Expecting(p.backlog) : Due(c, k, conn, p.backlog[i].x)
    /\ \A i \in Expecting(conn.down) : Due(c, k, conn, conn.down[i].x)
Wanted(c, k, p, conn) ==
    /\ p.want = "hello" /\ k.opened => Pos(c, k) = -Opening(c)
    /\ p.want = "attaching" =>
        /\ k.opened /\ Pos(c, k) = -1 /\ conn.stage # "hello"
        /\ Expecting(p.backlog) = {} /\ Expecting(conn.down) = {}
    /\ p.want \in {"attached", "command", "answer"} =>
        k.opened /\ Pos(c, k) >= 0 /\ conn.stage # "hello"
    /\ k.opened /\ conn.stage = "hello" => p.want \in {"hello", "nothing"} /\ Pos(c, k) <= 1 - Opening(c)

Fenced(s) == \A fence \in s.ran : fence[2] <= s.conn[fence[1]].processed

IInv ==
    /\ Types
    /\ \A c \in Conns :
        /\ Lined(c, client[c], up[c], srv.conn[c])
        /\ Words(c, client[c], proc[c], srv.conn[c])
        /\ Wanted(c, client[c], proc[c], srv.conn[c])
    /\ Fenced(srv)

-----------------------------------------------------------------------------
(* What the server does to a connection, but take its frames.              *)

\* It is told more, none of it a frame to expect.
More(q, r) ==
    /\ Len(q) <= Len(r) /\ \A j \in 1..Len(q) : r[j] = q[j]
    /\ \A j \in 1..Len(r) : j > Len(q) => r[j].m # "expect"
IsExit(word) == word.m = "bytes" /\ word.x = "exit"
Orderly(q, r) ==
    \A j \in 1..Len(r) :
        j > Len(q) /\ r[j].m = "close" => \E i \in 1..(j - 1) : i > Len(q) /\ IsExit(r[i])
Onward(c, k, l) ==
    /\ l \in ConnOf(c)
    /\ l.deco = k.deco \/ (l.deco = <<>> /\ l.stage \in OverStages \union Asking)
    /\ l.processed = k.processed /\ l.gone = k.gone
    /\ l.stage = k.stage \/ l.stage \in OverStages \/ {k.stage, l.stage} \subseteq Asking
    /\ More(k.down, l.down)
Ends(c, k, l) ==
    /\ Orderly(k.down, l.down)
    /\ l.stage \in {"dead", "closed"} => k.stage \in {"dead", "closed"} \/ k.gone
Lives(c, k, l) ==
    c \in Commands /\ ~k.gone /\ k.stage \notin OverStages =>
        /\ l.stage \notin OverStages
        /\ \A j \in 1..Len(l.down) : j > Len(k.down) => l.down[j].m # "close"
Fares(c, k, l) == Onward(c, k, l) /\ Ends(c, k, l) /\ Lives(c, k, l)

LEMMA OnwardOn ==
    ASSUME NEW c \in Conns, NEW k \in ConnOf(c), NEW l, NEW m, Onward(c, k, l), Onward(c, l, m)
    PROVE  Onward(c, k, m)
<1>0. l \in ConnOf(c) /\ m \in ConnOf(c)
  BY DEF Onward
<1>1. Len(k.down) \in Nat /\ Len(l.down) \in Nat /\ Len(m.down) \in Nat
  BY <1>0 DEF ConnOf
<1>2. More(k.down, m.down)
  BY <1>1 DEF Onward, More
<1>. QED  BY <1>0, <1>2 DEF Onward, OverStages, Asking

LEMMA EndsOn ==
    ASSUME NEW c \in Conns, NEW k \in ConnOf(c), NEW l, NEW m, Onward(c, k, l), Onward(c, l, m),
           Ends(c, k, l), Ends(c, l, m)
    PROVE  Ends(c, k, m)
<1>0. l \in ConnOf(c) /\ m \in ConnOf(c)
  BY DEF Onward
<1>1. Len(k.down) \in Nat /\ Len(l.down) \in Nat /\ Len(m.down) \in Nat
  BY <1>0 DEF ConnOf
<1>3. Orderly(k.down, m.down)
  <2> SUFFICES ASSUME NEW j \in 1..Len(m.down), j > Len(k.down), m.down[j].m = "close"
               PROVE  \E i \in 1..(j - 1) : i > Len(k.down) /\ IsExit(m.down[i])
    BY DEF Orderly
  <2>1. More(k.down, l.down) /\ More(l.down, m.down)
    BY DEF Onward
  <2>2. CASE j > Len(l.down)
    <3>1. PICK i \in 1..(j - 1) : i > Len(l.down) /\ IsExit(m.down[i])
      BY <2>2 DEF Ends, Orderly
    <3>. QED  BY <1>1, <2>1, <3>1 DEF More
  <2>3. CASE j <= Len(l.down)
    <3>1. m.down[j] = l.down[j] /\ j \in 1..Len(l.down)
      BY <1>1, <2>1, <2>3 DEF More
    <3>2. PICK i \in 1..(j - 1) : i > Len(k.down) /\ IsExit(l.down[i])
      BY <3>1 DEF Ends, Orderly
    <3>3. m.down[i] = l.down[i]
      BY <1>1, <2>1, <2>3, <3>2 DEF More
    <3>. QED  BY <3>2, <3>3
  <2>. QED  BY <1>1, <2>2, <2>3
<1>. QED  BY <1>3 DEF Ends, Onward

LEMMA LivesOn ==
    ASSUME NEW c \in Conns, NEW k \in ConnOf(c), NEW l, NEW m, Onward(c, k, l), Onward(c, l, m),
           Lives(c, k, l), Lives(c, l, m)
    PROVE  Lives(c, k, m)
<1>1. Len(k.down) \in Nat /\ Len(l.down) \in Nat /\ Len(m.down) \in Nat
  BY DEF Onward, ConnOf
<1>. QED  BY <1>1 DEF Onward, More, Lives

LEMMA FaresOn ==
    ASSUME NEW c \in Conns, NEW k \in ConnOf(c), NEW l, NEW m, Fares(c, k, l), Fares(c, l, m)
    PROVE  Fares(c, k, m)
  BY OnwardOn, EndsOn, LivesOn DEF Fares

LEMMA FaresSame ==
    ASSUME NEW c \in Conns, NEW k \in ConnOf(c)
    PROVE  Fares(c, k, k)
  BY DEF Fares, Onward, Ends, Lives, More, Orderly, ConnOf

\* A word told.
LEMMA TellFares ==
    ASSUME NEW c \in Conns, NEW k \in ConnOf(c), NEW word \in WordTo(c),
           word.m \notin {"expect", "close"}
    PROVE  Tell(k, word) \in ConnOf(c) /\ Fares(c, k, Tell(k, word))
<1> DEFINE w == Append(k.down, word)
           l == [k EXCEPT !.down = w]
<1>0. Tell(k, word) = l
  BY DEF Tell
<1>1. k.down \in Seq(WordTo(c)) /\ w \in Seq(WordTo(c)) /\ l.down = w
  BY DEF ConnOf
<1>2. l \in ConnOf(c)
  <2> HIDE DEF w
  <2>. QED  BY <1>1 DEF ConnOf
<1>3. More(k.down, l.down) /\ Orderly(k.down, l.down)
  BY <1>1 DEF More, Orderly
<1>4. /\ l.deco = k.deco /\ l.processed = k.processed /\ l.stage = k.stage
      /\ l.gone = k.gone
  BY DEF ConnOf
<1>5. \A j \in 1..Len(w) : j > Len(k.down) => w[j] = word
  BY <1>1
<1> HIDE DEF w, l
<1>6. Ends(c, k, l) /\ Lives(c, k, l)
  BY <1>1, <1>3, <1>4, <1>5 DEF Ends, Lives
<1>. QED  BY <1>0, <1>1, <1>2, <1>3, <1>4, <1>6 DEF Fares, Onward

\* What is not its stage, its frames or what it is told.
LEMMA KinFare ==
    ASSUME NEW c \in Conns, NEW k \in ConnOf(c), NEW l \in ConnOf(c),
           l.stage = k.stage, l.deco = k.deco, l.processed = k.processed, l.gone = k.gone,
           l.down = k.down
    PROVE  Fares(c, k, l)
<1>1. Len(k.down) \in Nat
  BY DEF ConnOf
<1>. QED  BY <1>1 DEF Fares, Onward, Ends, Lives, More, Orderly

LEMMA BytesIs ==
    ASSUME NEW c, NEW x \in Texts, NEW n \in Nat
    PROVE  Bytes(x, n) \in WordTo(c) /\ Bytes(x, n).m = "bytes" /\ Bytes(x, n).x = x
  BY DEF Bytes, Msg, WordTo, Said, None

LEMMA WordIs ==
    ASSUME NEW c, NEW m \in {"answered", "listen", "detached", "close"}
    PROVE  Word(m) \in WordTo(c) /\ Word(m).m = m
  BY DEF Word, Msg, WordTo, Said, None, Texts

LEMMA AboutIs ==
    ASSUME NEW c, NEW m \in {"keys", "drop", "typed"}, NEW n \in Nat
    PROVE  About(m, n) \in WordTo(c) /\ About(m, n).m = m
  BY DEF About, Msg, WordTo, Said, None, Texts

LEMMA MakeIs ==
    ASSUME NEW c, NEW to \in Attachers, NEW n \in Nat
    PROVE  /\ Msg("make", "none", n, to) \in WordTo(c)
           /\ Msg("make", "none", n, to).m = "make"
<1>1. to \in Conns \union {None}
  BY DEF Conns
<1>. QED  BY <1>1 DEF Msg, WordTo, Said, Texts

LEMMA ExpectIs ==
    ASSUME NEW c, NEW next \in Expected(c)
    PROVE  /\ Msg("expect", next, 0, None) \in WordTo(c)
           /\ Msg("expect", next, 0, None).m = "expect"
           /\ Msg("expect", next, 0, None).x = next
<1>1. next \in {"command", "attaching", "attached"}
  BY DEF Expected
<1>2. next \in Texts
  BY <1>1 DEF Texts
<1>. QED  BY <1>2 DEF Msg, WordTo, Said, None

LEMMA SendFares ==
    ASSUME NEW c \in Conns, NEW k \in ConnOf(c), NEW x \in Texts, NEW n \in Nat
    PROVE  Send(k, x, n) \in ConnOf(c) /\ Fares(c, k, Send(k, x, n))
<1> DEFINE t == Tell(k, Bytes(x, n))
           l == [t EXCEPT !.pending = TRUE]
<1>1. t \in ConnOf(c) /\ Fares(c, k, t)
  BY BytesIs, TellFares
<1> HIDE DEF t
<1>2. l \in ConnOf(c) /\ l.stage = t.stage /\ l.deco = t.deco /\ l.processed = t.processed
      /\ l.gone = t.gone /\ l.down = t.down
  BY <1>1 DEF ConnOf
<1> HIDE DEF l
<1>3. Fares(c, t, l)
  BY <1>1, <1>2, KinFare
<1>4. Send(k, x, n) = l
  BY DEF Send, l, t
<1>. QED  BY <1>1, <1>2, <1>3, <1>4, FaresOn

\* A connection comes to a stage in which it takes no frame.
Staged(k, next) == [k EXCEPT !.stage = next, !.due = FALSE]
LEMMA StagedIs ==
    ASSUME NEW c \in Conns, NEW k \in ConnOf(c),
           NEW next \in {"closing", "dead"} \union (IF k.stage \in Asking THEN {"command"} ELSE {})
    PROVE  /\ Staged(k, next) \in ConnOf(c) /\ Staged(k, next).stage = next
           /\ Staged(k, next).down = k.down
           /\ Onward(c, k, Staged(k, next)) /\ Orderly(k.down, Staged(k, next).down)
<1> DEFINE l == Staged(k, next)
<1>1. next \in StagesOf(c)
  BY DEF StagesOf, OverStages, Asking, ConnOf
<1>2. l \in ConnOf(c) /\ l.stage = next /\ l.down = k.down /\ l.gone = k.gone
      /\ l.deco = k.deco /\ l.processed = k.processed
  BY <1>1 DEF Staged, ConnOf
<1>3. Len(k.down) \in Nat
  BY DEF ConnOf
<1> HIDE DEF l
<1>4. More(k.down, l.down) /\ Orderly(k.down, l.down)
  BY <1>2, <1>3 DEF More, Orderly
<1>5. next \in OverStages \/ {k.stage, next} \subseteq Asking
  BY DEF OverStages, Asking
<1>. QED  BY <1>2, <1>4, <1>5 DEF Onward, l

LEMMA EnterOver ==
    ASSUME NEW c \in Conns, NEW k \in ConnOf(c), NEW next \in {"closing", "dead"}
    PROVE  /\ Enter(k, next) \in ConnOf(c) /\ Onward(c, k, Enter(k, next))
           /\ Orderly(k.down, Enter(k, next).down)
           /\ Enter(k, next).stage = IF k.stage = "dead" THEN "dead" ELSE next
           /\ next = "closing" => Ends(c, k, Enter(k, next))
<1> DEFINE t == Tell(k, Word("detached"))
           l == Enter(k, next)
<1>1. CASE k.stage = "dead"
  BY <1>1, FaresSame DEF Enter, Fares, Ends
<1>2. CASE k.stage = "attached"
  <2>1. t \in ConnOf(c) /\ Fares(c, k, t)
    <3>1. Word("detached") \in WordTo(c) /\ Word("detached").m = "detached"
      BY WordIs
    <3>. QED  BY <3>1, TellFares
  <2>2a. l = Staged(t, next)
    BY <1>2 DEF Enter, Staged
  <2> HIDE DEF t, l
  <2>2. l \in ConnOf(c) /\ l.stage = next /\ l.down = t.down /\ Onward(c, t, l)
    BY <2>1, <2>2a, StagedIs
  <2>3. Onward(c, k, l)
    BY <2>1, <2>2, OnwardOn DEF Fares
  <2>4. Orderly(k.down, l.down)
    BY <2>1, <2>2 DEF Fares, Ends
  <2>. QED  BY <1>2, <2>2, <2>3, <2>4 DEF l, Ends
<1>3. CASE k.stage \notin {"dead", "attached"}
  <2>1. l = Staged(k, next)
    BY <1>3 DEF Enter, Staged
  <2> HIDE DEF l
  <2>2. l \in ConnOf(c) /\ l.stage = next /\ Onward(c, k, l) /\ Orderly(k.down, l.down)
    BY <2>1, StagedIs
  <2>. QED  BY <1>3, <2>2 DEF l, Ends
<1>. QED  BY <1>1, <1>2, <1>3

\* It is told a word that may be its last.
LEMMA TellOnward ==
    ASSUME NEW c \in Conns, NEW k \in ConnOf(c), NEW word \in WordTo(c), word.m # "expect"
    PROVE  /\ Tell(k, word) \in ConnOf(c) /\ Onward(c, k, Tell(k, word))
           /\ Tell(k, word).stage = k.stage /\ Tell(k, word).down = Append(k.down, word)
<1> DEFINE w == Append(k.down, word)
           l == [k EXCEPT !.down = w]
<1>0. Tell(k, word) = l
  BY DEF Tell
<1>1. k.down \in Seq(WordTo(c)) /\ w \in Seq(WordTo(c)) /\ l.down = w
  BY DEF ConnOf
<1>2. l \in ConnOf(c)
  <2> HIDE DEF w
  <2>. QED  BY <1>1 DEF ConnOf
<1>3. More(k.down, l.down)
  BY <1>1 DEF More
<1>4. /\ l.deco = k.deco /\ l.processed = k.processed /\ l.stage = k.stage
      /\ l.gone = k.gone
  BY DEF ConnOf
<1> HIDE DEF l
<1>5. Onward(c, k, l)
  BY <1>2, <1>3, <1>4 DEF Onward
<1>. QED  BY <1>0, <1>1, <1>2, <1>4, <1>5

LEMMA EndFares ==
    ASSUME NEW c \in Conns, NEW k \in ConnOf(c)
    PROVE  /\ End(k) \in ConnOf(c) /\ Onward(c, k, End(k)) /\ Ends(c, k, End(k))
           /\ End(k).stage = IF k.stage = "dead" THEN "dead" ELSE "closing"
           /\ c \notin Commands => Lives(c, k, End(k))
<1> DEFINE e == Enter(k, "closing")
           w == Bytes("exit", 0)
           t == Tell(e, w)
           u == [t EXCEPT !.pending = TRUE]
           l == Tell(u, Word("close"))
<1>1. /\ e \in ConnOf(c) /\ Onward(c, k, e) /\ Ends(c, k, e)
      /\ e.stage = IF k.stage = "dead" THEN "dead" ELSE "closing"
  BY EnterOver
<1> HIDE DEF e
<1>2. w \in WordTo(c) /\ w.m = "bytes" /\ w.x = "exit"
  BY BytesIs DEF Texts
<1> HIDE DEF w
<1>3. t \in ConnOf(c) /\ Onward(c, e, t) /\ t.stage = e.stage /\ t.down = Append(e.down, w)
  BY <1>1, <1>2, TellOnward
<1> HIDE DEF t
<1>4. u \in ConnOf(c) /\ u.stage = t.stage /\ u.deco = t.deco /\ u.processed = t.processed
      /\ u.gone = t.gone /\ u.down = t.down
  BY <1>3 DEF ConnOf
<1> HIDE DEF u
<1>5. Onward(c, t, u)
  BY <1>3, <1>4, KinFare DEF Fares
<1>6. /\ l \in ConnOf(c) /\ Onward(c, u, l) /\ l.stage = u.stage
      /\ l.down = Append(u.down, Word("close"))
  BY <1>4, WordIs, TellOnward
<1>7. l = End(k)
  BY DEF l, u, t, w, e, End, Send
<1> HIDE DEF l
<1>8. Onward(c, k, l)
  <2>1. Onward(c, k, t)
    BY <1>1, <1>3, OnwardOn
  <2>2. Onward(c, k, u)
    BY <2>1, <1>5, OnwardOn
  <2>. QED  BY <2>2, <1>6, OnwardOn
<1>9. Orderly(k.down, l.down)
  <2>1. e.down \in Seq(WordTo(c)) /\ Len(k.down) \in Nat /\ Len(k.down) <= Len(e.down)
    BY <1>1 DEF ConnOf, Onward, More
  <2>2. /\ Len(l.down) = Len(e.down) + 2
        /\ \A j \in 1..Len(e.down) : l.down[j] = e.down[j]
        /\ l.down[Len(e.down) + 1] = w
    BY <2>1, <1>3, <1>4, <1>6
  <2>3. IsExit(l.down[Len(e.down) + 1]) /\ l.down[Len(e.down) + 1].m # "close"
    BY <2>2, <1>2 DEF IsExit
  <2> SUFFICES ASSUME NEW j \in 1..Len(l.down), j > Len(k.down), l.down[j].m = "close"
               PROVE  \E i \in 1..(j - 1) : i > Len(k.down) /\ IsExit(l.down[i])
    BY DEF Orderly
  <2>4. CASE j <= Len(e.down)
    <3>1. j \in 1..Len(e.down) /\ e.down[j].m = "close"
      BY <2>1, <2>2, <2>4
    <3>2. PICK i \in 1..(j - 1) : i > Len(k.down) /\ IsExit(e.down[i])
      BY <3>1, <1>1 DEF Ends, Orderly
    <3>. QED  BY <2>1, <2>2, <2>4, <3>2
  <2>5. CASE j > Len(e.down)
    <3>1. j = Len(e.down) + 2
      BY <2>1, <2>2, <2>3, <2>5
    <3>. QED  BY <2>1, <2>3, <3>1
  <2>. QED  BY <2>1, <2>4, <2>5
<1>10. Ends(c, k, l)
  BY <1>9, <1>1, <1>3, <1>4, <1>6 DEF Ends
<1>11. c \notin Commands => Lives(c, k, l)
  BY DEF Lives
<1>. QED  BY <1>1, <1>3, <1>4, <1>6, <1>7, <1>8, <1>10, <1>11

\* Answers, and what a request waits for.
LEMMA AnswerFares ==
    ASSUME NEW c \in Conns, NEW k \in ConnOf(c), NEW x \in Answers
    PROVE  Answer(k, x) \in ConnOf(c) /\ Fares(c, k, Answer(k, x))
<1> DEFINE said == Send(k, x, 0)
           on == IF k.stage \in {"blocked", "waiting"} THEN Enter(said, "command") ELSE said
<1>1. said \in ConnOf(c) /\ Fares(c, k, said) /\ said.stage = k.stage
  <2>1. said \in ConnOf(c) /\ Fares(c, k, said)
    BY SendFares DEF Texts
  <2>. QED  BY <2>1 DEF Send, Tell, ConnOf
<1> HIDE DEF said
<1>2. on \in ConnOf(c) /\ Fares(c, said, on)
  <2>1. CASE k.stage \in {"blocked", "waiting"}
    <3>1. on = Staged(said, "command")
      BY <1>1, <2>1 DEF Enter, Staged
    <3>2. said.stage \in Asking /\ said.stage \notin OverStages
      BY <1>1, <2>1 DEF Asking, OverStages
    <3> DEFINE l == Staged(said, "command")
    <3>3. /\ l \in ConnOf(c) /\ l.stage = "command" /\ l.down = said.down
          /\ Onward(c, said, l) /\ Orderly(said.down, l.down)
      BY <1>1, <3>2, StagedIs
    <3> HIDE DEF l
    <3>4. Len(said.down) \in Nat
      BY <1>1 DEF ConnOf
    <3>5. Ends(c, said, l) /\ Lives(c, said, l)
      BY <3>3, <3>4 DEF Ends, Lives, OverStages
    <3>. QED  BY <3>1, <3>3, <3>5 DEF Fares, l
  <2>2. CASE k.stage \notin {"blocked", "waiting"}
    BY <1>1, <2>2, FaresSame
  <2>. QED  BY <2>1, <2>2
<1>3. Answer(k, x) = Tell(on, Word("answered"))
  BY DEF Answer, said
<1> HIDE DEF on
<1>4. Tell(on, Word("answered")) \in ConnOf(c) /\ Fares(c, on, Tell(on, Word("answered")))
  BY <1>2, WordIs, TellFares
<1>5. Fares(c, k, on)
  BY <1>1, <1>2, FaresOn
<1>. QED  BY <1>3, <1>4, <1>5, FaresOn

LEMMA WaitingFares ==
    ASSUME NEW c \in Conns, NEW k \in ConnOf(c), NEW next \in {"blocked", "waiting"},
           NEW ask \in AskOf, ask.what \in AllAsks, ask.to \in Attachers, k.stage \in Asking
    PROVE  /\ [Enter(k, next) EXCEPT !.asked = ask] \in ConnOf(c)
           /\ Fares(c, k, [Enter(k, next) EXCEPT !.asked = ask])
<1> DEFINE l == [k EXCEPT !.stage = next, !.due = FALSE, !.asked = ask]
<1>1. [Enter(k, next) EXCEPT !.asked = ask] = l
  BY DEF Enter, Asking, ConnOf
<1>2. c \in Commands
  BY DEF ConnOf, StagesOf, Asking, OverStages
<1>3. next \in StagesOf(c)
  BY <1>2 DEF StagesOf, Asking
<1>4. l \in ConnOf(c) /\ l.stage = next /\ l.deco = k.deco /\ l.gone = k.gone
      /\ l.processed = k.processed /\ l.down = k.down
  BY <1>3 DEF ConnOf
<1> HIDE DEF l
<1>5. Len(k.down) \in Nat /\ next \in Asking /\ next \notin OverStages
  BY DEF ConnOf, Asking, OverStages
<1>6. More(k.down, l.down) /\ Orderly(k.down, l.down)
  BY <1>4, <1>5 DEF More, Orderly
<1>7. Onward(c, k, l)
  BY <1>4, <1>5, <1>6 DEF Onward
<1>8. Ends(c, k, l) /\ Lives(c, k, l)
  BY <1>4, <1>5, <1>6 DEF Ends, Lives
<1>. QED  BY <1>1, <1>4, <1>7, <1>8 DEF Fares

LEMMA MakingFares ==
    ASSUME NEW c \in Conns, NEW k \in ConnOf(c), NEW to \in Attachers, NEW n \in Nat
    PROVE  AnswerMaking(k, to, n) \in ConnOf(c) /\ Fares(c, k, AnswerMaking(k, to, n))
<1> DEFINE l == [k EXCEPT !.tokens = k.tokens \union {<<to, n>>}]
           t == Tell(l, Msg("make", "none", n, to))
<1>0. k.tokens \union {<<to, n>>} \in SUBSET (Attachers \X Nat)
  BY DEF ConnOf
<1>1. l \in ConnOf(c) /\ l.stage = k.stage /\ l.deco = k.deco /\ l.processed = k.processed
      /\ l.gone = k.gone /\ l.down = k.down
  BY <1>0 DEF ConnOf
<1> HIDE DEF l
<1>2. Fares(c, k, l)
  BY <1>1, KinFare
<1>3. t \in ConnOf(c) /\ Fares(c, l, t)
  BY <1>1, MakeIs, TellFares
<1>4. AnswerMaking(k, to, n) = Tell(t, Word("answered"))
  BY DEF AnswerMaking, l
<1> HIDE DEF t
<1>5. Tell(t, Word("answered")) \in ConnOf(c) /\ Fares(c, t, Tell(t, Word("answered")))
  BY <1>3, WordIs, TellFares
<1>6. Fares(c, k, t)
  BY <1>2, <1>3, FaresOn
<1>. QED  BY <1>4, <1>5, <1>6, FaresOn

\* Keys let go, each said of once.
LEMMA DropsAre ==
    ASSUME NEW c, NEW n \in Nat, NEW S \in SUBSET (1..n)
    PROVE  /\ Drops(S) \in Seq(WordTo(c))
           /\ \A i \in DOMAIN Drops(S) : \E m \in S : Drops(S)[i] = About("drop", m)
           /\ \A m \in S : \E i \in DOMAIN Drops(S) : Drops(S)[i] = About("drop", m)
<1>1. IsFiniteSet(S)
  <2>1. IsFiniteSet(1..n)
    BY FS_Interval
  <2>. QED  BY <2>1, FS_Subset
<1>2. PICK f : f \in Bijection(1..Cardinality(S), S)
  BY <1>1, FS_CardinalityType DEF ExistsBijection
<1> DEFINE each == SetToSeq(S)
<1>3. Cardinality(S) \in Nat
  BY <1>1, FS_CardinalityType
<1>4. f \in [1..Cardinality(S) -> S] /\ IsInjective(f)
  BY <1>2 DEF Bijection, Injection, IsInjective
<1>5. each \in [1..Cardinality(S) -> S] /\ IsInjective(each)
  BY <1>4 DEF SetToSeq
<1> HIDE DEF each
<1>6. \A m \in S : \E i \in 1..Cardinality(S) : each[i] = m
  <2>1. each \in Injection(1..Cardinality(S), S)
    BY <1>5 DEF Injection, IsInjective
  <2>2. IsFiniteSet(1..Cardinality(S)) /\ Cardinality(1..Cardinality(S)) = Cardinality(S)
    BY <1>3, FS_Interval
  <2>3. each \in Surjection(1..Cardinality(S), S)
    BY <2>1, <2>2, <1>1, FS_Injection
  <2>. QED  BY <2>3 DEF Surjection
<1>7. Drops(S) = [i \in 1..Cardinality(S) |-> About("drop", each[i])]
  BY <1>5 DEF Drops, each
<1>8. \A i \in 1..Cardinality(S) : About("drop", each[i]) \in WordTo(c)
  <2>1. \A i \in 1..Cardinality(S) : each[i] \in S
    BY <1>5
  <2>2. S \subseteq Nat
    OBVIOUS
  <2>. QED  BY <2>1, <2>2, AboutIs
<1>9. Drops(S) \in Seq(WordTo(c)) /\ DOMAIN Drops(S) = 1..Cardinality(S)
  BY <1>3, <1>7, <1>8
<1>10. \A i \in 1..Cardinality(S) : Drops(S)[i] = About("drop", each[i]) /\ each[i] \in S
  BY <1>5, <1>7
<1>. QED  BY <1>6, <1>9, <1>10

LEMMA AppendedFare ==
    ASSUME NEW c \in Conns, NEW k \in ConnOf(c), NEW l \in ConnOf(c),
           NEW n \in Nat, NEW S \in SUBSET (1..n),
           l.stage = k.stage, l.deco = k.deco, l.processed = k.processed, l.gone = k.gone,
           l.down = k.down \o Drops(S)
    PROVE  Fares(c, k, l)
<1> DEFINE d == Drops(S)
<1>1. d \in Seq(WordTo(c)) /\ \A i \in 1..Len(d) : d[i].m = "drop"
  <2>1. d \in Seq(WordTo(c)) /\ \A i \in DOMAIN d : \E m \in S : d[i] = About("drop", m)
    BY DropsAre
  <2>2. \A m \in S : About("drop", m).m = "drop"
    BY DEF About, Msg
  <2> HIDE DEF d
  <2>. QED  BY <2>1, <2>2
<1> HIDE DEF d
<1>2. k.down \in Seq(WordTo(c))
  BY DEF ConnOf
<1>3. /\ Len(l.down) = Len(k.down) + Len(d)
      /\ \A j \in 1..Len(k.down) : l.down[j] = k.down[j]
      /\ \A j \in 1..Len(l.down) : j > Len(k.down) => l.down[j] = d[j - Len(k.down)]
  BY <1>1, <1>2 DEF d
<1>4. \A j \in 1..Len(l.down) : j > Len(k.down) => l.down[j].m = "drop"
  <2> SUFFICES ASSUME NEW j \in 1..Len(l.down), j > Len(k.down)
               PROVE  l.down[j].m = "drop"
    OBVIOUS
  <2>1. j - Len(k.down) \in 1..Len(d)
    BY <1>1, <1>2, <1>3
  <2>. QED  BY <1>1, <1>3, <2>1
<1>5. More(k.down, l.down) /\ Orderly(k.down, l.down)
  BY <1>1, <1>2, <1>3, <1>4 DEF More, Orderly
<1>. QED  BY <1>4, <1>5 DEF Fares, Onward, Ends, Lives

LEMMA LetGoFares ==
    ASSUME NEW c \in Conns, NEW k \in ConnOf(c), NEW n \in Nat, NEW S \in SUBSET (1..n)
    PROVE  LetGo(k, S) \in ConnOf(c) /\ Fares(c, k, LetGo(k, S))
<1> DEFINE T == k.keys \intersect S
           d == k.down \o Drops(T)
           rest == k.keys \ S
           l == [k EXCEPT !.keys = rest, !.down = d]
<1>1. T \in SUBSET (1..n)
  OBVIOUS
<1>2. Drops(T) \in Seq(WordTo(c))
  <2> HIDE DEF T
  <2>. QED  BY <1>1, DropsAre
<1>3. d \in Seq(WordTo(c)) /\ rest \in SUBSET Nat
  BY <1>2 DEF ConnOf
<1>4. l = LetGo(k, S)
  BY DEF LetGo
<1> HIDE DEF T, rest
<1>5. l \in ConnOf(c) /\ l.stage = k.stage /\ l.deco = k.deco /\ l.processed = k.processed
      /\ l.gone = k.gone /\ l.down = d
  <2> HIDE DEF d
  <2>. QED  BY <1>3 DEF ConnOf
<1> HIDE DEF l
<1>. QED  BY <1>1, <1>4, <1>5, AppendedFare

LEMMA ForgetsFares ==
    ASSUME NEW c \in Conns, NEW k \in ConnOf(c), NEW s, s.asked \in Nat
    PROVE  Forgets(s, k) \in ConnOf(c) /\ Fares(c, k, Forgets(s, k))
<1> DEFINE T == Lost(s, k)
           d == k.down \o Drops(T)
           rest == {token \in k.tokens : token[1] \in Views(s)}
           l == [k EXCEPT !.tokens = rest, !.down = d]
<1>1. T \in SUBSET (1..s.asked)
  BY DEF Lost
<1> HIDE DEF T
<1>2. Drops(T) \in Seq(WordTo(c))
  BY <1>1, DropsAre
<1>3. d \in Seq(WordTo(c)) /\ rest \in SUBSET (Attachers \X Nat)
  BY <1>2 DEF ConnOf
<1>4. l = Forgets(s, k)
  BY DEF Forgets, T
<1> HIDE DEF rest
<1>5. l \in ConnOf(c) /\ l.stage = k.stage /\ l.deco = k.deco /\ l.processed = k.processed
      /\ l.gone = k.gone /\ l.down = d
  <2> HIDE DEF d
  <2>. QED  BY <1>3 DEF ConnOf
<1> HIDE DEF l
<1>. QED  BY <1>1, <1>4, <1>5, AppendedFare

LEMMA OverFares ==
    ASSUME NEW c \in Conns, NEW k \in ConnOf(c), IsOver(k)
    PROVE  Over(k) \in ConnOf(c) /\ Fares(c, k, Over(k)) /\ Over(k).stage = "closed"
<1> DEFINE e == Enter(k, "dead")
           l == [e EXCEPT !.stage = "closed", !.deco = <<>>, !.tokens = {}, !.keys = {}]
<1>1. /\ e \in ConnOf(c) /\ Onward(c, k, e) /\ Orderly(k.down, e.down)
  BY EnterOver
<1>2. l = Over(k)
  BY DEF Over
<1> HIDE DEF e
<1>3. /\ "closed" \in StagesOf(c) /\ <<>> \in Seq(SentBy(c))
  BY DEF StagesOf, OverStages
<1>4. /\ l \in ConnOf(c) /\ l.stage = "closed" /\ l.deco = <<>> /\ l.processed = e.processed
      /\ l.gone = e.gone /\ l.down = e.down
  BY <1>1, <1>3 DEF ConnOf
<1> HIDE DEF l
<1>5. Onward(c, k, l)
  BY <1>1, <1>4 DEF Onward, OverStages
<1>6. Ends(c, k, l)
  BY <1>1, <1>4 DEF Ends, IsOver
<1>7. Lives(c, k, l)
  BY DEF Lives, IsOver, OverStages
<1>. QED  BY <1>2, <1>4, <1>5, <1>6, <1>7 DEF Fares

LEMMA KeptFares ==
    ASSUME NEW c \in Conns, NEW k \in ConnOf(c), NEW n
    PROVE  Kept(k, n) \in ConnOf(c) /\ Fares(c, k, Kept(k, n))
<1> DEFINE rest == k.keys \ {n}
           l == [k EXCEPT !.keys = rest]
<1>1. rest \in SUBSET Nat
  BY DEF ConnOf
<1>2. l = Kept(k, n)
  BY DEF Kept
<1> HIDE DEF rest
<1>3. /\ l \in ConnOf(c) /\ l.stage = k.stage /\ l.deco = k.deco /\ l.processed = k.processed
      /\ l.gone = k.gone /\ l.down = k.down
  BY <1>1 DEF ConnOf
<1>. QED  BY <1>2, <1>3, KinFare

LEMMA TypedFares ==
    ASSUME NEW c \in Conns, NEW k \in ConnOf(c), NEW a, NEW n \in Nat
    PROVE  Typed(k, a, n) \in ConnOf(c) /\ Fares(c, k, Typed(k, a, n))
<1> DEFINE rest == k.tokens \ {<<a, n>>}
           l == [k EXCEPT !.tokens = rest]
<1>1. rest \in SUBSET (Attachers \X Nat)
  BY DEF ConnOf
<1>2. Tell(l, About("typed", n)) = Typed(k, a, n)
  BY DEF Typed
<1> HIDE DEF rest
<1>3. /\ l \in ConnOf(c) /\ l.stage = k.stage /\ l.deco = k.deco /\ l.processed = k.processed
      /\ l.gone = k.gone /\ l.down = k.down
  BY <1>1 DEF ConnOf
<1> HIDE DEF l
<1>4. Fares(c, k, l)
  BY <1>3, KinFare
<1>5. Tell(l, About("typed", n)) \in ConnOf(c) /\ Fares(c, l, Tell(l, About("typed", n)))
  BY <1>3, AboutIs, TellFares
<1>. QED  BY <1>2, <1>4, <1>5, FaresOn

\* Its client sends no more.
LEMMA ClosedIs ==
    ASSUME NEW c \in Conns, NEW k \in ConnOf(c)
    PROVE  /\ Closed(k) \in ConnOf(c) /\ Onward(c, k, Closed(k))
           /\ c \notin Commands => Orderly(k.down, Closed(k).down)
<1>1. CASE k.stage = "command"
  <2> DEFINE e == Enter(k, "closing")
  <2>1. e \in ConnOf(c) /\ Onward(c, k, e)
    BY EnterOver
  <2>2. Closed(k) = Tell(e, Word("close"))
    BY <1>1 DEF Closed
  <2> HIDE DEF e
  <2>3. Tell(e, Word("close")) \in ConnOf(c) /\ Onward(c, e, Tell(e, Word("close")))
    BY <2>1, WordIs, TellOnward
  <2>4. c \in Commands
    BY <1>1 DEF ConnOf, StagesOf, OverStages
  <2>. QED  BY <2>1, <2>2, <2>3, <2>4, OnwardOn
<1>2. CASE k.stage \in {"closing", "dead"}
  <2>1. Closed(k) = k
    BY <1>2 DEF Closed
  <2>. QED  BY <2>1, FaresSame DEF Fares, Ends
<1>3. CASE k.stage \notin {"command", "closing", "dead"}
  <2>1. Closed(k) = Enter(k, "dead")
    BY <1>3 DEF Closed
  <2>. QED  BY <2>1, EnterOver
<1>. QED  BY <1>1, <1>2, <1>3

-----------------------------------------------------------------------------
(* What the server does, but take a client's frames.                       *)

Handled(s, t) ==
    /\ SrvType(t) /\ t.phase = s.phase
    /\ \A c \in Conns : Fares(c, s.conn[c], t.conn[c])
    /\ Fenced(s) => Fenced(t)

LEMMA HandledSame ==
    ASSUME NEW s, SrvType(s)
    PROVE  Handled(s, s)
  BY FaresSame DEF Handled, SrvType

LEMMA HandledOn ==
    ASSUME NEW s, NEW t, NEW u, SrvType(s), Handled(s, t), Handled(t, u)
    PROVE  Handled(s, u)
<1>1. ASSUME NEW c \in Conns
      PROVE  Fares(c, s.conn[c], u.conn[c])
  BY FaresOn DEF Handled, SrvType
<1>. QED  BY <1>1 DEF Handled

\* Of every connection at once.
LEMMA MapIs ==
    ASSUME NEW s, SrvType(s), NEW m, m = [c \in Conns |-> m[c]],
           \A c \in Conns : m[c] \in ConnOf(c)
    PROVE  /\ SrvType([s EXCEPT !.conn = m])
           /\ [s EXCEPT !.conn = m].conn = m /\ [s EXCEPT !.conn = m].ran = s.ran
           /\ [s EXCEPT !.conn = m].phase = s.phase /\ [s EXCEPT !.conn = m].asked = s.asked
           /\ [s EXCEPT !.conn = m].last = s.last
<1> DEFINE t == [s EXCEPT !.conn = m]
<1>1. s = [conn |-> s.conn, asked |-> s.asked, last |-> s.last, phase |-> s.phase,
           ran |-> s.ran]
  BY DEF SrvType
<1>2. t = [conn |-> m, asked |-> s.asked, last |-> s.last, phase |-> s.phase, ran |-> s.ran]
  BY <1>1
<1>3. /\ t.conn = m /\ t.ran = s.ran /\ t.phase = s.phase /\ t.asked = s.asked
      /\ t.last = s.last
  BY <1>2
<1> HIDE DEF t
<1>4. SrvType(t)
  BY <1>2, <1>3 DEF SrvType
<1>. QED  BY <1>3, <1>4 DEF t

LEMMA MapHandled ==
    ASSUME NEW s, SrvType(s), NEW m, m = [c \in Conns |-> m[c]],
           \A c \in Conns : Fares(c, s.conn[c], m[c])
    PROVE  Handled(s, [s EXCEPT !.conn = m])
<1> DEFINE t == [s EXCEPT !.conn = m]
<1>1. \A c \in Conns : m[c] \in ConnOf(c) /\ m[c].processed = s.conn[c].processed
  BY DEF Fares, Onward
<1>2. /\ SrvType(t) /\ t.conn = m /\ t.ran = s.ran /\ t.phase = s.phase
  BY <1>1, MapIs
<1> HIDE DEF t
<1>3. Fenced(s) => Fenced(t)
  <2>1. s.ran \subseteq Attachers \X Nat
    BY DEF SrvType
  <2>2. \A fence \in s.ran : fence[1] \in Conns
    BY <2>1 DEF Conns
  <2>. QED  BY <1>1, <1>2, <2>2 DEF Fenced
<1>. QED  BY <1>2, <1>3 DEF Handled, t

\* Of one.
LEMMA PutIs ==
    ASSUME NEW s, SrvType(s), NEW c \in Conns, NEW k \in ConnOf(c)
    PROVE  /\ SrvType(Put(s, c, k))
           /\ Put(s, c, k).conn[c] = k
           /\ \A d \in Conns : d # c => Put(s, c, k).conn[d] = s.conn[d]
           /\ Put(s, c, k).ran = s.ran /\ Put(s, c, k).phase = s.phase
           /\ Put(s, c, k).asked = s.asked /\ Put(s, c, k).last = s.last
<1> DEFINE m == [s.conn EXCEPT ![c] = k]
<1>1. s.conn = [d \in Conns |-> s.conn[d]] /\ \A d \in Conns : s.conn[d] \in ConnOf(d)
  BY DEF SrvType
<1>2. m = [d \in Conns |-> m[d]] /\ m[c] = k /\ \A d \in Conns : d # c => m[d] = s.conn[d]
  BY <1>1
<1>3. \A d \in Conns : m[d] \in ConnOf(d)
  BY <1>1, <1>2
<1>4. Put(s, c, k) = [s EXCEPT !.conn = m]
  BY DEF Put
<1> HIDE DEF m
<1>5. /\ SrvType(Put(s, c, k)) /\ Put(s, c, k).conn = m
      /\ Put(s, c, k).ran = s.ran /\ Put(s, c, k).phase = s.phase
      /\ Put(s, c, k).asked = s.asked /\ Put(s, c, k).last = s.last
  BY <1>2, <1>3, <1>4, MapIs
<1>. QED  BY <1>2, <1>5 DEF m

LEMMA PutHandled ==
    ASSUME NEW s, SrvType(s), NEW c \in Conns, NEW k, Fares(c, s.conn[c], k)
    PROVE  Handled(s, Put(s, c, k))
<1>1. k \in ConnOf(c) /\ \A d \in Conns : s.conn[d] \in ConnOf(d)
  BY DEF Fares, Onward, SrvType
<1> DEFINE t == Put(s, c, k)
<1>2. SrvType(t) /\ t.conn[c] = k /\ (\A d \in Conns : d # c => t.conn[d] = s.conn[d])
      /\ t.ran = s.ran /\ t.phase = s.phase
  BY <1>1, PutIs
<1> HIDE DEF t
<1>3. \A d \in Conns : Fares(d, s.conn[d], t.conn[d])
  BY <1>1, <1>2, FaresSame
<1>4. Fenced(s) => Fenced(t)
  <2>1. \A d \in Conns : t.conn[d].processed = s.conn[d].processed
    BY <1>3 DEF Fares, Onward
  <2>2. \A fence \in s.ran : fence[1] \in Conns
    BY DEF Conns, SrvType
  <2>. QED  BY <1>2, <2>1, <2>2 DEF Fenced
<1>. QED  BY <1>2, <1>3, <1>4 DEF Handled, t

LEMMA AskedHandled ==
    ASSUME NEW s, SrvType(s), NEW n \in Nat
    PROVE  /\ Handled(s, [s EXCEPT !.asked = n])
           /\ [s EXCEPT !.asked = n].conn = s.conn
           /\ [s EXCEPT !.asked = n].asked = n /\ [s EXCEPT !.asked = n].ran = s.ran
<1> DEFINE t == [s EXCEPT !.asked = n]
<1>1. s = [conn |-> s.conn, asked |-> s.asked, last |-> s.last, phase |-> s.phase,
           ran |-> s.ran]
  BY DEF SrvType
<1>2. t = [conn |-> s.conn, asked |-> n, last |-> s.last, phase |-> s.phase, ran |-> s.ran]
  BY <1>1
<1>3. /\ t.conn = s.conn /\ t.ran = s.ran /\ t.phase = s.phase /\ t.asked = n
      /\ t.last = s.last
  BY <1>2
<1> HIDE DEF t
<1>4. SrvType(t)
  BY <1>2, <1>3 DEF SrvType
<1>5. Handled(s, t)
  BY <1>3, <1>4, FaresSame DEF Handled, Fenced, SrvType
<1>. QED  BY <1>3, <1>5 DEF t

LEMMA ReplyHandled ==
    ASSUME NEW s, SrvType(s), NEW c \in Conns, NEW x \in Answers
    PROVE  Handled(s, Reply(s, c, x))
<1>1. s.conn[c] \in ConnOf(c)
  BY DEF SrvType
<1>2. Fares(c, s.conn[c], Answer(s.conn[c], x))
  BY <1>1, AnswerFares
<1>. QED  BY <1>2, PutHandled DEF Reply

AnAsk(ask) == ask \in AskOf /\ ask.what \in AllAsks /\ ask.to \in Attachers

LEMMA WaitHandled ==
    ASSUME NEW s, SrvType(s), NEW c \in Conns, NEW ask, AnAsk(ask), s.conn[c].stage \in Asking
    PROVE  Handled(s, Wait(s, c, ask))
<1>1. s.conn[c] \in ConnOf(c)
  BY DEF SrvType
<1> DEFINE l == [Enter(s.conn[c], "waiting") EXCEPT !.asked = ask]
<1>2. Fares(c, s.conn[c], l)
  BY <1>1, WaitingFares DEF AnAsk
<1> HIDE DEF l
<1>3. Handled(s, Put(s, c, l))
  BY <1>2, PutHandled
<1>. QED  BY <1>3 DEF Wait, l

LEMMA Apart ==
    ASSUME NEW c \in Conns, NEW k \in ConnOf(c), k.stage \in Asking
    PROVE  c \in Commands /\ c \notin Attachers
  BY ConnsAssumption DEF ConnOf, StagesOf, Asking, OverStages

LEMMA AskClientHandled ==
    ASSUME NEW s, SrvType(s), NEW c \in Conns, NEW ask, AnAsk(ask), s.conn[c].stage \in Asking,
           NEW n \in Nat
    PROVE  Handled(s, AskClient(s, c, ask, n))
<1> DEFINE to == ask.to
           a == [s EXCEPT !.asked = n]
           k == Send(s.conn[to], "read", n)
           b == Put(a, to, k)
           q == [ask EXCEPT !.n = n]
<1>1. to \in Attachers /\ to \in Conns /\ to # c
  BY Apart DEF AnAsk, Conns, SrvType
<1>2. Handled(s, a) /\ a.conn = s.conn /\ SrvType(a)
  BY AskedHandled DEF Handled
<1> HIDE DEF a
<1>3. Fares(to, s.conn[to], k) /\ k \in ConnOf(to)
  <2>1. s.conn[to] \in ConnOf(to)
    BY <1>1 DEF SrvType
  <2>. QED  BY <1>1, <2>1, SendFares DEF Texts
<1>4. Handled(a, b) /\ b.conn[c] = s.conn[c] /\ SrvType(b)
  <2> HIDE DEF k
  <2>1. Handled(a, b)
    BY <1>1, <1>2, <1>3, PutHandled
  <2>2. b.conn[c] = a.conn[c]
    BY <1>1, <1>2, <1>3, PutIs
  <2>. QED  BY <1>2, <2>1, <2>2 DEF Handled
<1>5. AnAsk(q)
  BY DEF AnAsk, AskOf
<1>6. AskClient(s, c, ask, n) = Wait(b, c, q)
  BY DEF AskClient, a
<1> HIDE DEF b, q
<1>7. Handled(b, Wait(b, c, q))
  BY <1>4, <1>5, WaitHandled
<1>8. Handled(s, b)
  BY <1>2, <1>4, HandledOn
<1>. QED  BY <1>6, <1>7, <1>8, HandledOn

LEMMA SendKeysHandled ==
    ASSUME NEW s, SrvType(s), NEW c \in Conns, NEW to \in Attachers, NEW n \in Nat
    PROVE  Handled(s, SendKeys(s, c, to, n))
<1> DEFINE keyed == [s.conn[to] EXCEPT !.keys = s.conn[to].keys \union {n}]
           told == Tell(keyed, About("keys", n))
           k == Send(told, "read", n)
           a == [s EXCEPT !.asked = n]
           b == Put(a, to, k)
<1>1. to \in Conns
  BY DEF Conns
<1>2. Handled(s, a) /\ a.conn = s.conn /\ SrvType(a)
  BY AskedHandled DEF Handled
<1>3. SendKeys(s, c, to, n) = Put(b, c, AnswerMaking(b.conn[c], to, n))
  BY DEF SendKeys
<1> HIDE DEF a
<1>4. s.conn[to] \in ConnOf(to)
  BY <1>1 DEF SrvType
<1>5. /\ keyed \in ConnOf(to) /\ keyed.stage = s.conn[to].stage /\ keyed.deco = s.conn[to].deco
      /\ keyed.processed = s.conn[to].processed /\ keyed.gone = s.conn[to].gone
      /\ keyed.down = s.conn[to].down
  <2> DEFINE more == s.conn[to].keys \union {n}
  <2>1. more \in SUBSET Nat
    BY <1>4 DEF ConnOf
  <2> HIDE DEF more
  <2>. QED  BY <1>4, <2>1 DEF ConnOf
<1> HIDE DEF keyed
<1>6. Fares(to, s.conn[to], keyed)
  BY <1>1, <1>4, <1>5, KinFare
<1>7. told \in ConnOf(to) /\ Fares(to, keyed, told)
  BY <1>1, <1>5, AboutIs, TellFares
<1> HIDE DEF told
<1>8. k \in ConnOf(to) /\ Fares(to, told, k)
  BY <1>1, <1>7, SendFares DEF Texts
<1> HIDE DEF k
<1>9. Fares(to, s.conn[to], k)
  <2>1. Fares(to, s.conn[to], told)
    BY <1>1, <1>4, <1>6, <1>7, FaresOn
  <2>. QED  BY <1>1, <1>4, <1>8, <2>1, FaresOn
<1>10. Handled(a, b)
  BY <1>1, <1>2, <1>9, PutHandled
<1>11. SrvType(b) /\ b.conn[c] \in ConnOf(c)
  BY <1>10 DEF Handled, SrvType
<1> HIDE DEF b
<1>12. Fares(c, b.conn[c], AnswerMaking(b.conn[c], to, n))
  BY <1>11, MakingFares
<1>13. Handled(b, SendKeys(s, c, to, n))
  BY <1>3, <1>11, <1>12, PutHandled
<1>14. Handled(s, b)
  BY <1>2, <1>10, HandledOn
<1>. QED  BY <1>13, <1>14, HandledOn

LEMMA RequestHandled ==
    ASSUME NEW s, SrvType(s), NEW c \in Conns, NEW ask, AnAsk(ask), s.conn[c].stage \in Asking,
           ask.what = "fenced" => ask.n <= s.conn[ask.to].processed
    PROVE  Handled(s, Request(s, c, ask))
<1>1. s.asked + 1 \in Nat /\ ask.to \in Attachers /\ ask.to \in Conns /\ ask.n \in Nat
  BY DEF SrvType, AnAsk, AskOf, Conns
<1>2. {"done", "refused"} \subseteq Answers
  BY DEF Answers
<1>3. CASE ask.what = "wait"
  BY <1>3, WaitHandled DEF Request
<1>4. CASE ask.what = "now"
  BY <1>2, <1>4, ReplyHandled DEF Request
<1>5. CASE ask.what = "fenced"
  <2> DEFINE r == s.ran \union {<<ask.to, ask.n>>}
             t == [s EXCEPT !.ran = r]
  <2>1. s = [conn |-> s.conn, asked |-> s.asked, last |-> s.last, phase |-> s.phase,
             ran |-> s.ran]
    BY DEF SrvType
  <2>2. t = [conn |-> s.conn, asked |-> s.asked, last |-> s.last, phase |-> s.phase, ran |-> r]
    BY <2>1
  <2>3. /\ t.conn = s.conn /\ t.ran = r /\ t.phase = s.phase /\ t.asked = s.asked
        /\ t.last = s.last
    BY <2>2
  <2>4. r \subseteq Attachers \X Nat
    BY <1>1 DEF SrvType
  <2>5. Fenced(s) => \A fence \in r : fence[2] <= s.conn[fence[1]].processed
    BY <1>5 DEF Fenced
  <2> HIDE DEF t, r
  <2>6. SrvType(t)
    BY <2>2, <2>3, <2>4 DEF SrvType
  <2>7. Handled(s, t)
    BY <2>3, <2>5, <2>6, FaresSame DEF Handled, Fenced, SrvType
  <2>8. Handled(t, Reply(t, c, "done"))
    BY <1>2, <2>6, ReplyHandled
  <2>9. Request(s, c, ask) = Reply(t, c, "done")
    BY <1>5 DEF Request, t, r
  <2>. QED  BY <2>7, <2>8, <2>9, HandledOn
<1>6. CASE ask.what \in {"read", "keys", "detach"} /\ ask.to \notin Views(s)
  <2>1. Request(s, c, ask) = Reply(s, c, "refused")
    BY <1>6 DEF Request
  <2>. QED  BY <1>2, <2>1, ReplyHandled
<1>7. CASE ask.what = "detach" /\ ask.to \in Views(s)
  <2> DEFINE k == End(s.conn[ask.to])
             t == Put(s, ask.to, k)
  <2>1. s.conn[ask.to] \in ConnOf(ask.to) /\ ask.to \notin Commands
    BY <1>1, ConnsAssumption DEF SrvType
  <2>2. Fares(ask.to, s.conn[ask.to], k)
    BY <1>1, <2>1, EndFares DEF Fares
  <2> HIDE DEF k
  <2>3. Handled(s, t)
    BY <1>1, <2>2, PutHandled
  <2>4. Request(s, c, ask) = Reply(t, c, "done")
    BY <1>7 DEF Request, k
  <2> HIDE DEF t
  <2>5. Handled(t, Reply(t, c, "done"))
    BY <1>2, <2>3, ReplyHandled DEF Handled
  <2>. QED  BY <2>3, <2>4, <2>5, HandledOn
<1>8. CASE ask.what = "read" /\ ask.to \in Views(s)
  <2>1. Request(s, c, ask) = AskClient(s, c, ask, s.asked + 1)
    BY <1>8 DEF Request
  <2>. QED  BY <1>1, <2>1, AskClientHandled
<1>9. CASE ask.what = "keys" /\ ask.to \in Views(s)
  <2>1. Request(s, c, ask) = SendKeys(s, c, ask.to, s.asked + 1)
    BY <1>9 DEF Request
  <2>. QED  BY <1>1, <2>1, SendKeysHandled
<1>. QED  BY <1>3, <1>4, <1>5, <1>6, <1>7, <1>8, <1>9 DEF AnAsk, AllAsks

LEMMA OrderedRequestHandled ==
    ASSUME NEW s, SrvType(s), NEW c \in Conns, NEW ask, AnAsk(ask), s.conn[c].stage \in Asking
    PROVE  Handled(s, OrderedRequest(s, c, ask))
<1>1. ask.n \in Nat /\ ask.to \in Conns /\ s.conn[ask.to].processed \in Nat
  BY DEF AnAsk, AskOf, Conns, SrvType, ConnOf
<1>2. Unprocessed(s, ask) \in Int
  BY <1>1 DEF Unprocessed
<1>3. CASE Unprocessed(s, ask) = 0
  <2>1. ask.what = "fenced" => ask.n <= s.conn[ask.to].processed
    BY <1>1, <1>3 DEF Unprocessed
  <2>2. OrderedRequest(s, c, ask) = Request(s, c, ask)
    BY <1>3 DEF OrderedRequest
  <2>. QED  BY <2>1, <2>2, RequestHandled
<1>4. CASE Unprocessed(s, ask) > 0
  <2> DEFINE l == [Enter(s.conn[c], "blocked") EXCEPT !.asked = ask]
  <2>1. s.conn[c] \in ConnOf(c)
    BY DEF SrvType
  <2>2. Fares(c, s.conn[c], l)
    BY <2>1, WaitingFares DEF AnAsk
  <2>3. OrderedRequest(s, c, ask) = Put(s, c, l)
    BY <1>2, <1>4 DEF OrderedRequest
  <2> HIDE DEF l
  <2>. QED  BY <2>2, <2>3, PutHandled
<1>5. CASE Unprocessed(s, ask) < 0
  <2>1. OrderedRequest(s, c, ask) = Reply(s, c, "refused")
    BY <1>2, <1>5 DEF OrderedRequest
  <2>. QED  BY <2>1, ReplyHandled DEF Answers
<1>. QED  BY <1>2, <1>3, <1>4, <1>5

LEMMA AnsweredHandled ==
    ASSUME NEW s, SrvType(s), NEW c \in Conns, NEW n \in Nat
    PROVE  Handled(s, Answered(s, c, n))
<1>1. CASE Senders(s, c, n) # {}
  <2> DEFINE d == CHOOSE d \in Senders(s, c, n) : TRUE
             mid(e) == IF e = d THEN Typed(s.conn[d], c, n) ELSE s.conn[e]
             m == [e \in Conns |-> Kept(mid(e), n)]
  <2>1. d \in Senders(s, c, n)
    BY <1>1
  <2>2. d \in Conns
    BY <2>1 DEF Senders, Conns
  <2>3. Answered(s, c, n) = [s EXCEPT !.conn = m]
    BY <1>1 DEF Answered, KeysTaken
  <2> HIDE DEF d
  <2>4. ASSUME NEW e \in Conns
        PROVE  Fares(e, s.conn[e], Kept(mid(e), n))
    <3>1. s.conn[e] \in ConnOf(e)
      BY DEF SrvType
    <3>2. mid(e) \in ConnOf(e) /\ Fares(e, s.conn[e], mid(e))
      BY <3>1, TypedFares, FaresSame
    <3> HIDE DEF mid
    <3>3. Fares(e, mid(e), Kept(mid(e), n))
      BY <3>2, KeptFares
    <3>. QED  BY <3>1, <3>2, <3>3, FaresOn
  <2> HIDE DEF mid
  <2>5. m = [e \in Conns |-> m[e]] /\ \A e \in Conns : Fares(e, s.conn[e], m[e])
    BY <2>4
  <2> HIDE DEF m
  <2>. QED  BY <2>3, <2>5, MapHandled
<1>2. CASE Senders(s, c, n) = {} /\ Askers(s, c, n) # {}
  <2> DEFINE d == CHOOSE d \in Askers(s, c, n) : TRUE
  <2>1. d \in Askers(s, c, n)
    BY <1>2
  <2>2. d \in Conns
    BY <2>1 DEF Askers, Conns
  <2>3. Answered(s, c, n) = Reply(s, d, "done")
    BY <1>2 DEF Answered
  <2> HIDE DEF d
  <2>. QED  BY <2>2, <2>3, ReplyHandled DEF Answers
<1>3. CASE Senders(s, c, n) = {} /\ Askers(s, c, n) = {}
  <2>1. Answered(s, c, n) = s
    BY <1>3 DEF Answered
  <2>. QED  BY <2>1, HandledSame
<1>. QED  BY <1>1, <1>2, <1>3

LEMMA AnswerWaitsHandled ==
    ASSUME NEW s, SrvType(s)
    PROVE  Handled(s, AnswerWaits(s))
<1> DEFINE x(c) == IF s.conn[c].due THEN "done" ELSE "refused"
           m == [c \in Conns |-> IF Waited(s, c) THEN Answer(s.conn[c], x(c)) ELSE s.conn[c]]
<1>1. ASSUME NEW c \in Conns
      PROVE  Fares(c, s.conn[c], m[c])
  <2>1. s.conn[c] \in ConnOf(c) /\ x(c) \in Answers
    BY DEF SrvType, Answers
  <2> HIDE DEF x
  <2>. QED  BY <2>1, AnswerFares, FaresSame
<1>2. AnswerWaits(s) = [s EXCEPT !.conn = m]
  BY DEF AnswerWaits
<1>3. m = [c \in Conns |-> m[c]]
  OBVIOUS
<1> HIDE DEF m
<1>. QED  BY <1>1, <1>2, <1>3, MapHandled

LEMMA CloseConnsHandled ==
    ASSUME NEW s, SrvType(s)
    PROVE  Handled(s, CloseConns(s))
<1> DEFINE m == [c \in Conns |-> IF IsOver(s.conn[c]) THEN Over(s.conn[c])
                                 ELSE LetGo(s.conn[c], Unsent(s))]
<1>1. ASSUME NEW c \in Conns
      PROVE  Fares(c, s.conn[c], m[c])
  <2>1. s.conn[c] \in ConnOf(c) /\ Unsent(s) \in SUBSET (1..s.asked) /\ s.asked \in Nat
    BY DEF SrvType, Unsent
  <2>2. CASE IsOver(s.conn[c])
    BY <2>1, <2>2, OverFares
  <2>3. CASE ~IsOver(s.conn[c])
    BY <2>1, <2>3, LetGoFares
  <2>. QED  BY <2>2, <2>3
<1>2. CloseConns(s) = [s EXCEPT !.conn = m]
  BY DEF CloseConns
<1>3. m = [c \in Conns |-> m[c]]
  OBVIOUS
<1> HIDE DEF m
<1>. QED  BY <1>1, <1>2, <1>3, MapHandled

LEMMA RetireHandled ==
    ASSUME NEW s, SrvType(s)
    PROVE  Handled(s, Retire(s))
<1> DEFINE lost == UNION {Lost(s, s.conn[c]) : c \in Conns}
           m == [c \in Conns |-> LetGo(Forgets(s, s.conn[c]), lost)]
<1>1. lost \in SUBSET (1..s.asked) /\ s.asked \in Nat
  BY DEF Lost, SrvType
<1>2. Retire(s) = [s EXCEPT !.conn = m]
  BY DEF Retire
<1> HIDE DEF lost
<1>3. ASSUME NEW c \in Conns
      PROVE  Fares(c, s.conn[c], m[c])
  <2> DEFINE k == Forgets(s, s.conn[c])
  <2>1. s.conn[c] \in ConnOf(c)
    BY DEF SrvType
  <2>2. k \in ConnOf(c) /\ Fares(c, s.conn[c], k)
    BY <1>1, <2>1, ForgetsFares
  <2>3. m[c] = LetGo(k, lost)
    OBVIOUS
  <2> HIDE DEF k, m
  <2>4. Fares(c, k, m[c])
    BY <1>1, <2>2, <2>3, LetGoFares
  <2>. QED  BY <2>1, <2>2, <2>4, FaresOn
<1>4. m = [c \in Conns |-> m[c]]
  OBVIOUS
<1> HIDE DEF m
<1>. QED  BY <1>2, <1>3, <1>4, MapHandled

-----------------------------------------------------------------------------
(* Where a connection is, whatever the server does.                        *)

Good(c, k, p, u, conn) == Lined(c, k, u, conn) /\ Words(c, k, p, conn) /\ Wanted(c, k, p, conn)

LEMMA PosIs ==
    ASSUME NEW c \in Conns, NEW k \in ClientOf(c)
    PROVE  Pos(c, k) \in Int /\ Opening(c) \in {1, 2} /\ Sendings(c, k) \in Nat
<1>1. Sendings(c, k) \in Nat /\ Len(k.inbox) \in Nat
  BY DEF ClientOf, Sendings
<1>. QED  BY <1>1 DEF Pos, Opening

LEMMA MoreExpects ==
    ASSUME NEW S, NEW q \in Seq(S), NEW r \in Seq(S), More(q, r)
    PROVE  /\ Expecting(r) = Expecting(q)
           /\ \A i \in Expecting(q) : r[i] = q[i]
<1>1. Len(q) \in Nat /\ Len(r) \in Nat /\ DOMAIN q = 1..Len(q) /\ DOMAIN r = 1..Len(r)
  OBVIOUS
<1>2. \A i \in 1..Len(q) : i \in 1..Len(r) /\ r[i] = q[i]
  BY <1>1 DEF More
<1>3. \A i \in 1..Len(r) : r[i].m = "expect" => i \in 1..Len(q)
  BY <1>1 DEF More
<1>. QED  BY <1>1, <1>2, <1>3 DEF Expecting

LEMMA LinedOnward ==
    ASSUME NEW c \in Conns, NEW k \in ClientOf(c), NEW u \in UpOf(c), NEW conn \in ConnOf(c), NEW l,
           Lined(c, k, u, conn), Onward(c, conn, l)
    PROVE  Lined(c, k, u, l)
<1>1. l \in ConnOf(c) /\ l.processed = conn.processed
  BY DEF Onward
<1>2. Pos(c, k) \in Int /\ Len(u.frames) \in Nat /\ Len(conn.deco) \in Nat /\ Len(<<>>) = 0
  BY PosIs DEF UpOf, ConnOf
<1>3. l.stage \notin OverStages => conn.stage \notin OverStages
  BY DEF Onward, OverStages, Asking
<1>4. CASE l.stage \in OverStages
  BY <1>4 DEF Lined, Onward, OverStages
<1>5. CASE l.stage \notin OverStages /\ l.deco = conn.deco
  <2>1. At(c, k, u, l) = At(c, k, u, conn) /\ At(c, k, u, conn) \in Int
    BY <1>2, <1>5 DEF At
  <2>2. l.stage = conn.stage \/ {conn.stage, l.stage} \subseteq Asking
    BY <1>5 DEF Onward
  <2>3. k.opened => IsAt(c, l, At(c, k, u, conn))
    BY <1>1, <1>3, <1>5, <2>2 DEF Lined, IsAt, Asking, OverStages
  <2>. QED  BY <1>1, <1>3, <1>5, <2>1, <2>2, <2>3 DEF Lined, Asking, OverStages
<1>6. CASE l.stage \notin OverStages /\ l.deco # conn.deco
  <2>1. l.deco = <<>> /\ {conn.stage, l.stage} \subseteq Asking
    BY <1>6 DEF Onward, OverStages, Asking
  <2>2. k.opened
    BY <2>1 DEF Lined, Asking, OverStages
  <2>3. At(c, k, u, conn) >= 0 /\ At(c, k, u, l) >= At(c, k, u, conn)
    BY <1>2, <2>1, <1>3, <1>6, <2>2 DEF At, Lined, IsAt
  <2>4. At(c, k, u, conn) \in Int /\ At(c, k, u, l) \in Int
    BY <1>2, <2>1 DEF At
  <2>5. IsAt(c, l, At(c, k, u, l))
    BY <2>1, <2>3, <2>4 DEF IsAt, Asking
  <2>6. Numbered(c, l.deco, At(c, k, u, l))
    BY <2>1 DEF Numbered
  <2>. QED  BY <1>3, <1>6, <2>1, <2>2, <2>5, <2>6 DEF Lined, Asking
<1>. QED  BY <1>4, <1>5, <1>6

LEMMA GoodOnward ==
    ASSUME NEW c \in Conns, NEW k \in ClientOf(c), NEW u \in UpOf(c), NEW conn \in ConnOf(c), NEW l,
           NEW p, Good(c, k, p, u, conn), Onward(c, conn, l)
    PROVE  Good(c, k, p, u, l)
<1>1. l \in ConnOf(c) /\ More(conn.down, l.down)
  BY DEF Onward
<1>2. conn.down \in Seq(WordTo(c)) /\ l.down \in Seq(WordTo(c))
  BY <1>1 DEF ConnOf
<1>3. Expecting(l.down) = Expecting(conn.down) /\ \A i \in Expecting(conn.down) : l.down[i] = conn.down[i]
  BY <1>1, <1>2, MoreExpects
<1>4. /\ conn.stage # "hello" => l.stage # "hello"
      /\ conn.stage # "attaching" => l.stage # "attaching"
  BY DEF Onward, OverStages, Asking
<1>5. Lined(c, k, u, l)
  BY LinedOnward DEF Good
<1>6. \A x : Due(c, k, conn, x) => Due(c, k, l, x)
  BY <1>4 DEF Due
<1>7. Words(c, k, p, l)
  BY <1>3, <1>6 DEF Good, Words, Once
<1>8. Wanted(c, k, p, l)
  BY <1>3, <1>4 DEF Good, Wanted
<1>. QED  BY <1>5, <1>7, <1>8 DEF Good

-----------------------------------------------------------------------------
(* It takes a client's frame.                                              *)

\* What becomes of a connection as its frames are taken.
Grows(q, r) == Len(q) <= Len(r) /\ \A j \in 1..Len(q) : r[j] = q[j]
Grown(c, k, l) ==
    /\ l \in ConnOf(c) /\ Grows(k.down, l.down) /\ l.gone = k.gone
    /\ Ends(c, k, l) /\ Lives(c, k, l)

LEMMA GrownFares ==
    ASSUME NEW c \in Conns, NEW k, NEW l, Fares(c, k, l)
    PROVE  Grown(c, k, l)
  BY DEF Fares, Onward, Grown, More, Grows

LEMMA GrownOn ==
    ASSUME NEW c \in Conns, NEW k \in ConnOf(c), NEW l, NEW m, Grown(c, k, l), Grown(c, l, m)
    PROVE  Grown(c, k, m)
<1>0. l \in ConnOf(c) /\ m \in ConnOf(c)
  BY DEF Grown
<1>1. Len(k.down) \in Nat /\ Len(l.down) \in Nat /\ Len(m.down) \in Nat
  BY <1>0 DEF ConnOf
<1>2. Grows(k.down, m.down)
  BY <1>1 DEF Grown, Grows
<1>3. Orderly(k.down, m.down)
  <2> SUFFICES ASSUME NEW j \in 1..Len(m.down), j > Len(k.down), m.down[j].m = "close"
               PROVE  \E i \in 1..(j - 1) : i > Len(k.down) /\ IsExit(m.down[i])
    BY DEF Orderly
  <2>1. Grows(k.down, l.down) /\ Grows(l.down, m.down)
    BY DEF Grown
  <2>2. CASE j > Len(l.down)
    <3>1. PICK i \in 1..(j - 1) : i > Len(l.down) /\ IsExit(m.down[i])
      BY <2>2 DEF Grown, Ends, Orderly
    <3>. QED  BY <1>1, <2>1, <3>1 DEF Grows
  <2>3. CASE j <= Len(l.down)
    <3>1. m.down[j] = l.down[j] /\ j \in 1..Len(l.down)
      BY <1>1, <2>1, <2>3 DEF Grows
    <3>2. PICK i \in 1..(j - 1) : i > Len(k.down) /\ IsExit(l.down[i])
      BY <3>1 DEF Grown, Ends, Orderly
    <3>3. m.down[i] = l.down[i]
      BY <1>1, <2>1, <2>3, <3>2 DEF Grows
    <3>. QED  BY <3>2, <3>3
  <2>. QED  BY <1>1, <2>2, <2>3
<1>4. Ends(c, k, m)
  BY <1>3 DEF Grown, Ends
<1>5. Lives(c, k, m)
  BY <1>1 DEF Grown, Grows, Lives
<1>. QED  BY <1>0, <1>2, <1>4, <1>5 DEF Grown

\* One that lost its first frame.
LEMMA PoppedIs ==
    ASSUME NEW c \in Conns, NEW k \in ConnOf(c), k.deco # <<>>
    PROVE  /\ Popped(k) \in ConnOf(c) /\ Counted(k) \in ConnOf(c)
           /\ Popped(k).deco = Tail(k.deco) /\ Counted(k).deco = Tail(k.deco)
           /\ Popped(k).processed = k.processed /\ Counted(k).processed = k.processed + 1
           /\ Popped(k).stage = k.stage /\ Counted(k).stage = k.stage
           /\ Popped(k).down = k.down /\ Counted(k).down = k.down
           /\ Popped(k).gone = k.gone /\ Counted(k).gone = k.gone
<1> DEFINE q == Tail(k.deco)
           n == k.processed + 1
           l == [k EXCEPT !.deco = q]
           m == [l EXCEPT !.processed = n]
<1>1. q \in Seq(SentBy(c)) /\ n \in Nat
  BY DEF ConnOf
<1>2. Popped(k) = l /\ Counted(k) = m
  BY DEF Popped, Counted
<1> HIDE DEF q, n
<1>3. /\ l \in ConnOf(c) /\ l.deco = q /\ l.processed = k.processed /\ l.stage = k.stage
      /\ l.down = k.down /\ l.gone = k.gone
  BY <1>1 DEF ConnOf
<1> HIDE DEF l
<1>4. /\ m \in ConnOf(c) /\ m.deco = q /\ m.processed = n /\ m.stage = k.stage
      /\ m.down = k.down /\ m.gone = k.gone
  BY <1>1, <1>3 DEF ConnOf
<1>. QED  BY <1>2, <1>3, <1>4 DEF q, n

LEMMA GrownKin ==
    ASSUME NEW c \in Conns, NEW k \in ConnOf(c), NEW l \in ConnOf(c),
           l.down = k.down, l.gone = k.gone, l.stage = k.stage
    PROVE  Grown(c, k, l)
<1>1. Len(k.down) \in Nat
  BY DEF ConnOf
<1>. QED  BY <1>1 DEF Grown, Grows, Ends, Lives, Orderly

\* One that comes to what its client sends next.
LEMMA EnterIs ==
    ASSUME NEW c \in Conns, NEW k \in ConnOf(c), k.stage \in {"hello", "attaching"},
           NEW next \in Expected(c)
    PROVE  /\ Enter(k, next) \in ConnOf(c) /\ Enter(k, next).stage = next
           /\ Enter(k, next).deco = k.deco /\ Enter(k, next).processed = k.processed
           /\ Enter(k, next).down = Append(k.down, Msg("expect", next, 0, None))
           /\ Grown(c, k, Enter(k, next))
<1> DEFINE w == Msg("expect", next, 0, None)
           d == Append(k.down, w)
           a == [k EXCEPT !.stage = next, !.due = FALSE]
           l == [a EXCEPT !.down = d]
<1>1. w \in WordTo(c) /\ w.m = "expect" /\ w.x = next
  BY ExpectIs
<1>2. next \in {"attaching", "command", "attached"} /\ next \in StagesOf(c)
  BY DEF Expected, StagesOf, Asking
<1>3. Enter(k, next) = l
  BY <1>2 DEF Enter, Tell
<1>4. a \in ConnOf(c) /\ a.stage = next /\ a.deco = k.deco /\ a.processed = k.processed
      /\ a.down = k.down /\ a.gone = k.gone
  BY <1>2 DEF ConnOf
<1> HIDE DEF a, w
<1>5. d \in Seq(WordTo(c)) /\ k.down \in Seq(WordTo(c)) /\ Len(d) = Len(k.down) + 1
      /\ d[Len(k.down) + 1] = w /\ \A j \in 1..Len(k.down) : d[j] = k.down[j]
  BY <1>1 DEF ConnOf
<1> HIDE DEF d
<1>6. l \in ConnOf(c) /\ l.stage = next /\ l.deco = k.deco /\ l.processed = k.processed
      /\ l.down = d /\ l.gone = k.gone
  BY <1>4, <1>5 DEF ConnOf
<1> HIDE DEF l
<1>7. \A j \in 1..Len(l.down) : j > Len(k.down) => l.down[j].m = "expect"
  BY <1>1, <1>5, <1>6
<1>8. Grows(k.down, l.down) /\ Orderly(k.down, l.down)
  BY <1>5, <1>6, <1>7 DEF Grows, Orderly
<1>9. Ends(c, k, l) /\ Lives(c, k, l)
  BY <1>2, <1>6, <1>7, <1>8 DEF Ends, Lives, OverStages
<1>. QED  BY <1>3, <1>6, <1>8, <1>9 DEF Grown, d, w

LEMMA LinedPop ==
    ASSUME NEW c \in Conns, NEW k \in ClientOf(c), NEW u \in UpOf(c), NEW conn \in ConnOf(c),
           Lined(c, k, u, conn), conn.deco # <<>>, conn.stage \notin OverStages,
           NEW l \in ConnOf(c), l.deco = Tail(conn.deco)
    PROVE  /\ k.opened /\ Head(conn.deco) \in SentBy(c)
           /\ At(c, k, u, conn) \in Int /\ At(c, k, u, l) = At(c, k, u, conn) + 1
           /\ Numbered(c, l.deco, At(c, k, u, l))
           /\ Right(c, Head(conn.deco), At(c, k, u, conn) + 1)
           /\ IsAt(c, conn, At(c, k, u, conn))
           /\ Numbered(c, u.frames, Pos(c, k) - Len(u.frames))
           /\ Pos(c, k) >= At(c, k, u, conn) + 1
<1>1. conn.deco \in Seq(SentBy(c)) /\ Len(u.frames) \in Nat /\ Pos(c, k) \in Int
  BY PosIs DEF ConnOf, UpOf
<1>2. /\ Len(conn.deco) >= 1 /\ Len(conn.deco) \in Nat /\ Head(conn.deco) = conn.deco[1]
      /\ Len(l.deco) = Len(conn.deco) - 1
      /\ \A j \in 1..Len(l.deco) : l.deco[j] = conn.deco[j + 1]
  BY <1>1
<1>3. k.opened
  BY DEF Lined
<1>4. /\ At(c, k, u, conn) \in Int /\ At(c, k, u, l) = At(c, k, u, conn) + 1
      /\ Pos(c, k) >= At(c, k, u, conn) + 1
  BY <1>1, <1>2 DEF At
<1> DEFINE a == At(c, k, u, conn)
           b == At(c, k, u, l)
<1>5. /\ Numbered(c, u.frames, Pos(c, k) - Len(u.frames))
      /\ Numbered(c, conn.deco, a) /\ IsAt(c, conn, a)
  BY <1>3 DEF Lined
<1>6. a \in Int /\ b = a + 1
  BY <1>4
<1> HIDE DEF a, b
<1>7. Right(c, conn.deco[1], a + 1)
  BY <1>1, <1>2, <1>5 DEF Numbered
<1>8. Numbered(c, l.deco, b)
  <2> SUFFICES ASSUME NEW j \in DOMAIN l.deco
               PROVE  Right(c, l.deco[j], b + j)
    BY DEF Numbered
  <2>1. j \in 1..Len(l.deco)
    BY DEF ConnOf
  <2>2. j + 1 \in DOMAIN conn.deco /\ l.deco[j] = conn.deco[j + 1] /\ b + j = a + (j + 1)
    BY <1>1, <1>2, <1>6, <2>1
  <2>3. Right(c, conn.deco[j + 1], a + (j + 1))
    BY <1>5, <2>2 DEF Numbered
  <2>. QED  BY <2>2, <2>3
<1>. QED  BY <1>1, <1>2, <1>3, <1>4, <1>5, <1>7, <1>8 DEF a, b

\* One that is over, or is to be, is where it was.
LEMMA OverGood ==
    ASSUME NEW c \in Conns, NEW k \in ClientOf(c), NEW u \in UpOf(c), NEW conn \in ConnOf(c),
           NEW p, Good(c, k, p, u, conn), k.opened,
           NEW l \in ConnOf(c), l.stage \in OverStages, More(conn.down, l.down)
    PROVE  Good(c, k, p, u, l)
<1>1. conn.down \in Seq(WordTo(c)) /\ l.down \in Seq(WordTo(c))
  BY DEF ConnOf
<1>2. Expecting(l.down) = Expecting(conn.down) /\ \A i \in Expecting(conn.down) : l.down[i] = conn.down[i]
  BY <1>1, MoreExpects
<1>3. l.stage \notin {"hello", "attaching", "attached"} \union Asking
  BY DEF OverStages, Asking
<1>4. Lined(c, k, u, l)
  BY <1>3 DEF Good, Lined
<1>5. \A x : Due(c, k, conn, x) => Due(c, k, l, x)
  BY <1>3 DEF Due
<1>6. Words(c, k, p, l)
  BY <1>2, <1>5 DEF Good, Words, Once
<1>7. Wanted(c, k, p, l)
  BY <1>2, <1>3 DEF Good, Wanted
<1>. QED  BY <1>4, <1>6, <1>7 DEF Good

\* One that comes to a stage of its client's next frame tells its process.
LEMMA NextGood ==
    ASSUME NEW c \in Conns, NEW k \in ClientOf(c), NEW u \in UpOf(c), NEW conn \in ConnOf(c),
           NEW p \in ProcOf(c), Good(c, k, p, u, conn), conn.deco # <<>>,
           conn.stage \in {"hello", "attaching"}, NEW next \in Expected(c),
           conn.stage = "hello" => next \in {"command", "attaching"},
           conn.stage = "attaching" => next = "attached",
           NEW l \in ConnOf(c), l.deco = Tail(conn.deco), l.stage = next,
           l.processed = conn.processed,
           l.down = Append(conn.down, Msg("expect", next, 0, None))
    PROVE  Good(c, k, p, u, l)
<1>1. conn.stage \notin OverStages /\ next \notin OverStages
  BY DEF OverStages, Expected
<1>2. /\ k.opened
      /\ At(c, k, u, conn) \in Int /\ At(c, k, u, l) = At(c, k, u, conn) + 1
      /\ Numbered(c, l.deco, At(c, k, u, l))
      /\ IsAt(c, conn, At(c, k, u, conn))
      /\ Numbered(c, u.frames, Pos(c, k) - Len(u.frames))
      /\ Pos(c, k) >= At(c, k, u, conn) + 1 /\ Pos(c, k) \in Int
  BY <1>1, LinedPop, PosIs DEF Good
<1>3. conn.processed = 0
  BY DEF Good, Lined
<1>4. c \in Commands => conn.stage = "hello" /\ next = "command"
  BY DEF ConnOf, StagesOf, Expected, Asking, OverStages
<1>5. c \notin Commands => next \in {"attaching", "attached"}
  BY DEF Expected
<1>6. IsAt(c, l, At(c, k, u, l))
  BY <1>2, <1>3, <1>4, <1>5 DEF IsAt, Opening, Asking
<1>7. Lined(c, k, u, l)
  BY <1>1, <1>2, <1>3, <1>6 DEF Good, Lined
<1>8. Due(c, k, l, next)
  <2>1. next = "attaching" => Pos(c, k) = -1
    <3> SUFFICES ASSUME next = "attaching"
                 PROVE  Pos(c, k) = -1
      OBVIOUS
    <3>1. conn.stage = "hello" /\ c \notin Commands
      BY <1>4
    <3>2. Pos(c, k) <= -1 /\ At(c, k, u, conn) = -2
      BY <1>2, <3>1 DEF Good, Wanted, Opening, IsAt
    <3>. QED  BY <1>2, <3>2
  <2>2. next \in {"attached", "command"} => Pos(c, k) >= 0
    <3>1. At(c, k, u, conn) >= -1 \/ next \notin {"attached", "command"}
      BY <1>2, <1>4, <1>5 DEF IsAt, Opening
    <3>. QED  BY <1>2, <3>1
  <2>3. l.stage # "hello" /\ (next = "attached" => l.stage # "attaching")
    BY DEF Expected
  <2>. QED  BY <1>2, <2>1, <2>2, <2>3 DEF Due
<1>9. Expecting(conn.down) = {} /\ Expecting(p.backlog) = {}
  <2>1. conn.stage = "attaching" => Pos(c, k) >= 0
    BY <1>2 DEF IsAt
  <2>2. ASSUME NEW x \in Expected(c), Due(c, k, conn, x)
        PROVE  FALSE
    <3>1. conn.stage = "attaching" /\ Pos(c, k) >= 0
      BY <2>1, <2>2 DEF Due
    <3>2. x \in {"attaching", "attached"}
      BY <1>4, <2>2, <3>1 DEF Expected
    <3>. QED  BY <1>2, <2>2, <3>1, <3>2 DEF Due
  <2>3. \A i \in Expecting(conn.down) : conn.down[i].x \in Expected(c)
    BY DEF Expecting, ConnOf, WordTo
  <2>4. \A i \in Expecting(p.backlog) : p.backlog[i].x \in Expected(c)
    BY DEF Expecting, ProcOf, WordTo
  <2>. QED  BY <2>2, <2>3, <2>4 DEF Good, Words
<1>10. /\ Expecting(l.down) \subseteq {Len(conn.down) + 1}
       /\ l.down[Len(conn.down) + 1].x = next
  <2> DEFINE w == Msg("expect", next, 0, None)
  <2>1. w.x = next
    BY DEF Msg
  <2> HIDE DEF w
  <2>2. conn.down \in Seq(WordTo(c)) /\ l.down = Append(conn.down, w)
    BY DEF ConnOf, w
  <2>3. /\ DOMAIN l.down = 1..(Len(conn.down) + 1) /\ DOMAIN conn.down = 1..Len(conn.down)
        /\ l.down[Len(conn.down) + 1] = w
        /\ \A j \in 1..Len(conn.down) : l.down[j] = conn.down[j]
    BY <2>2, l.down \in Seq(WordTo(c)) DEF ConnOf
  <2>4. \A j \in 1..Len(conn.down) : conn.down[j].m # "expect"
    BY <1>9, <2>3 DEF Expecting
  <2>5. Len(conn.down) \in Nat
    BY <2>2
  <2>. QED  BY <2>1, <2>3, <2>4, <2>5 DEF Expecting
<1>11. Words(c, k, p, l)
  <2>1. Once(p.backlog) /\ Once(l.down)
    BY <1>9, <1>10 DEF Once
  <2>2. \A i \in Expecting(l.down) : Due(c, k, l, l.down[i].x)
    BY <1>8, <1>10
  <2>. QED  BY <1>9, <2>1, <2>2 DEF Words
<1>12. Wanted(c, k, p, l)
  <2>1. p.want # "attaching"
    <3>1. p.want = "attaching" => conn.stage = "attaching" /\ Pos(c, k) = -1
      BY DEF Good, Wanted
    <3>2. conn.stage = "attaching" => Pos(c, k) >= 0
      BY <1>2 DEF IsAt
    <3>. QED  BY <1>2, <3>1, <3>2
  <2>2. l.stage # "hello"
    BY DEF Expected
  <2>. QED  BY <2>1, <2>2 DEF Good, Wanted
<1>. QED  BY <1>7, <1>11, <1>12 DEF Good

LEMMA HelloTaken ==
    ASSUME NEW c \in Conns, NEW k \in ClientOf(c), NEW u \in UpOf(c), NEW conn \in ConnOf(c),
           NEW p \in ProcOf(c), Good(c, k, p, u, conn), conn.deco # <<>>, conn.stage = "hello"
    PROVE  LET l == Enter(Send(Popped(conn), "hello", 0), Head(conn.deco).what)
           IN  Grown(c, conn, l) /\ Good(c, k, p, u, l)
<1> DEFINE frame == Head(conn.deco)
           next == frame.what
           q == Popped(conn)
           m == Send(q, "hello", 0)
           l == Enter(m, next)
<1>1. /\ q \in ConnOf(c) /\ q.deco = Tail(conn.deco) /\ q.processed = conn.processed
      /\ q.stage = "hello" /\ q.down = conn.down /\ q.gone = conn.gone
  BY PoppedIs
<1>2. /\ k.opened /\ frame \in SentBy(c) /\ Right(c, frame, At(c, k, u, conn) + 1)
      /\ IsAt(c, conn, At(c, k, u, conn))
  BY <1>1, LinedPop DEF Good, OverStages
<1> HIDE DEF q
<1>3. next \in Expected(c) /\ next \in {"command", "attaching"}
  <2>1. At(c, k, u, conn) = -Opening(c)
    BY <1>2 DEF IsAt
  <2>2. frame.f = "hello"
    BY <1>2, <2>1 DEF Right, Opening
  <2>. QED  BY <1>2, <2>2 DEF SentBy, Expected
<1> HIDE DEF frame
<1>4. m \in ConnOf(c) /\ Fares(c, q, m)
  BY <1>1, SendFares DEF Texts
\* The same connection, its frame not taken yet.
<1> DEFINE e == Send(conn, "hello", 0)
<1>5. e \in ConnOf(c) /\ Fares(c, conn, e)
  BY SendFares DEF Texts
<1>6. /\ e.deco = conn.deco /\ e.processed = conn.processed /\ e.stage = conn.stage
      /\ e.down = Append(conn.down, Bytes("hello", 0))
  BY DEF Send, Tell, ConnOf
<1>7. /\ m.deco = q.deco /\ m.processed = q.processed /\ m.stage = q.stage
      /\ m.down = Append(q.down, Bytes("hello", 0))
  BY <1>1 DEF Send, Tell, ConnOf
<1> HIDE DEF m, e
<1>8. Good(c, k, p, u, e)
  BY <1>5, GoodOnward DEF Fares
<1>9. /\ l \in ConnOf(c) /\ l.stage = next /\ l.deco = m.deco /\ l.processed = m.processed
      /\ l.down = Append(m.down, Msg("expect", next, 0, None))
      /\ Grown(c, m, l)
  BY <1>1, <1>3, <1>4, <1>7, EnterIs
<1> HIDE DEF l
<1>10. Good(c, k, p, u, l)
  BY <1>1, <1>3, <1>5, <1>6, <1>7, <1>8, <1>9, NextGood
<1>11. Grown(c, conn, l)
  <2>1. Grown(c, conn, q)
    BY <1>1, GrownKin
  <2>2. Grown(c, conn, m)
    BY <1>4, <2>1, GrownFares, GrownOn
  <2>. QED  BY <1>9, <2>2, GrownOn
<1>. QED  BY <1>10, <1>11 DEF l, m, q, frame

LEMMA AttachTaken ==
    ASSUME NEW c \in Conns, NEW k \in ClientOf(c), NEW u \in UpOf(c), NEW conn \in ConnOf(c),
           NEW p \in ProcOf(c), Good(c, k, p, u, conn), conn.deco # <<>>, conn.stage = "attaching"
    PROVE  LET l == Tell(Send(Enter(Popped(conn), "attached"), "welcome", 0), Word("listen"))
           IN  Grown(c, conn, l) /\ Good(c, k, p, u, l)
<1> DEFINE q == Popped(conn)
           e == Enter(q, "attached")
           m == Send(e, "welcome", 0)
           l == Tell(m, Word("listen"))
<1>1. /\ q \in ConnOf(c) /\ q.deco = Tail(conn.deco) /\ q.processed = conn.processed
      /\ q.stage = "attaching" /\ q.down = conn.down /\ q.gone = conn.gone
  BY PoppedIs
<1> HIDE DEF q
<1>2. "attached" \in Expected(c)
  BY DEF Expected, ConnOf, StagesOf, Asking, OverStages
<1>3. /\ e \in ConnOf(c) /\ e.stage = "attached" /\ e.deco = q.deco
      /\ e.processed = q.processed
      /\ e.down = Append(q.down, Msg("expect", "attached", 0, None))
      /\ Grown(c, q, e)
  BY <1>1, <1>2, EnterIs
<1> HIDE DEF e
<1>4. Good(c, k, p, u, e)
  BY <1>1, <1>2, <1>3, NextGood
<1>5. m \in ConnOf(c) /\ Fares(c, e, m)
  BY <1>3, SendFares DEF Texts
<1> HIDE DEF m
<1>6. l \in ConnOf(c) /\ Fares(c, m, l)
  BY <1>5, WordIs, TellFares
<1> HIDE DEF l
<1>7. Fares(c, e, l)
  BY <1>3, <1>5, <1>6, FaresOn
<1>8. Good(c, k, p, u, l)
  BY <1>3, <1>4, <1>7, GoodOnward DEF Fares
<1>9. Grown(c, conn, l)
  <2>1. Grown(c, conn, q)
    BY <1>1, GrownKin
  <2>2. Grown(c, conn, e)
    BY <1>1, <1>3, <2>1, GrownOn
  <2>. QED  BY <1>3, <1>7, <2>2, GrownFares, GrownOn
<1>. QED  BY <1>8, <1>9 DEF l, m, e, q

LEMMA CountedGood ==
    ASSUME NEW c \in Conns, NEW k \in ClientOf(c), NEW u \in UpOf(c), NEW conn \in ConnOf(c),
           NEW p \in ProcOf(c), Good(c, k, p, u, conn), conn.deco # <<>>,
           conn.stage \in {"attached", "command"}, NEW l \in ConnOf(c),
           l.deco = Tail(conn.deco), l.stage = conn.stage, l.down = conn.down,
           conn.stage = "attached" => l.processed = conn.processed + 1
    PROVE  Good(c, k, p, u, l)
<1>1. conn.stage \notin OverStages /\ conn.stage \notin {"hello", "attaching"}
  BY DEF OverStages
<1>2. /\ k.opened
      /\ At(c, k, u, conn) \in Int /\ At(c, k, u, l) = At(c, k, u, conn) + 1
      /\ Numbered(c, l.deco, At(c, k, u, l))
      /\ IsAt(c, conn, At(c, k, u, conn))
      /\ Numbered(c, u.frames, Pos(c, k) - Len(u.frames))
  BY <1>1, LinedPop DEF Good
<1>3. IsAt(c, l, At(c, k, u, l))
  BY <1>2 DEF IsAt, Asking
<1>4. Lined(c, k, u, l)
  BY <1>1, <1>2, <1>3 DEF Good, Lined
<1>5. Words(c, k, p, l) /\ Wanted(c, k, p, l)
  BY DEF Good, Words, Wanted, Due
<1>. QED  BY <1>4, <1>5 DEF Good

\* What a server's taking a frame leaves of it.
Took(s, t, c) ==
    /\ SrvType(t) /\ t.phase = s.phase
    /\ \A d \in Conns : d # c => Fares(d, s.conn[d], t.conn[d])
    /\ Grown(c, s.conn[c], t.conn[c])
    /\ Fenced(s) => Fenced(t)

LEMMA TookOn ==
    ASSUME NEW s, NEW t, NEW v, NEW c \in Conns, SrvType(s), Took(s, t, c), Took(t, v, c)
    PROVE  Took(s, v, c)
<1>1. ASSUME NEW d \in Conns, d # c
      PROVE  Fares(d, s.conn[d], v.conn[d])
  BY <1>1, FaresOn DEF Took, SrvType
<1>2. Grown(c, s.conn[c], v.conn[c])
  BY GrownOn DEF Took, SrvType
<1>. QED  BY <1>1, <1>2 DEF Took

LEMMA TookHandled ==
    ASSUME NEW s, NEW t, NEW c \in Conns, Handled(s, t)
    PROVE  Took(s, t, c)
  BY GrownFares DEF Took, Handled

LEMMA TookPut ==
    ASSUME NEW s, NEW c \in Conns, SrvType(s), NEW l \in ConnOf(c), Grown(c, s.conn[c], l),
           l.processed >= s.conn[c].processed
    PROVE  /\ Took(s, Put(s, c, l), c) /\ SrvType(Put(s, c, l)) /\ Put(s, c, l).conn[c] = l
<1> DEFINE t == Put(s, c, l)
<1>1. /\ SrvType(t) /\ t.conn[c] = l /\ t.ran = s.ran /\ t.phase = s.phase
      /\ \A d \in Conns : d # c => t.conn[d] = s.conn[d]
  BY PutIs
<1> HIDE DEF t
<1>2. \A d \in Conns : s.conn[d] \in ConnOf(d)
  BY DEF SrvType
<1>3. \A d \in Conns : d # c => Fares(d, s.conn[d], t.conn[d])
  BY <1>1, <1>2, FaresSame
<1>4. Fenced(s) => Fenced(t)
  <2> SUFFICES ASSUME Fenced(s), NEW fence \in s.ran
               PROVE  fence[2] <= t.conn[fence[1]].processed
    BY <1>1 DEF Fenced
  <2>1. fence[1] \in Conns /\ fence[2] \in Nat /\ fence[2] <= s.conn[fence[1]].processed
    BY DEF Fenced, SrvType, Conns
  <2>2. s.conn[fence[1]].processed \in Nat /\ l.processed \in Nat
    BY <1>2, <2>1 DEF ConnOf
  <2>. QED  BY <1>1, <2>1, <2>2
<1>. QED  BY <1>1, <1>3, <1>4 DEF Took, t

LEMMA TakeFrameTook ==
    ASSUME NEW s, SrvType(s), NEW c \in Conns, NEW k \in ClientOf(c), NEW u \in UpOf(c),
           NEW p \in ProcOf(c), Good(c, k, p, u, s.conn[c]), s.conn[c].deco # <<>>,
           s.conn[c].stage \notin OverStages
    PROVE  Took(s, TakeFrame(s, c), c) /\ Good(c, k, p, u, TakeFrame(s, c).conn[c])
<1> DEFINE conn == s.conn[c]
           frame == Head(conn.deco)
           q == Popped(conn)
           n == Counted(conn)
<1>0. conn \in ConnOf(c) /\ conn.processed \in Nat /\ conn.stage \in StagesOf(c)
  BY DEF SrvType, ConnOf
<1>1. /\ q \in ConnOf(c) /\ q.deco = Tail(conn.deco) /\ q.processed = conn.processed
      /\ q.stage = conn.stage /\ q.down = conn.down /\ q.gone = conn.gone
      /\ n \in ConnOf(c) /\ n.deco = Tail(conn.deco) /\ n.processed = conn.processed + 1
      /\ n.stage = conn.stage /\ n.down = conn.down /\ n.gone = conn.gone
  BY <1>0, PoppedIs
<1>2. Grown(c, conn, q) /\ Grown(c, conn, n)
  BY <1>0, <1>1, GrownKin
<1>3. /\ k.opened /\ frame \in SentBy(c) /\ Right(c, frame, At(c, k, u, conn) + 1)
      /\ IsAt(c, conn, At(c, k, u, conn)) /\ At(c, k, u, conn) \in Int
  BY <1>0, <1>1, LinedPop DEF Good
<1>4. CASE conn.stage = "hello"
  <2> DEFINE l == Enter(Send(q, "hello", 0), frame.what)
  <2>1. Grown(c, conn, l) /\ Good(c, k, p, u, l)
    BY <1>0, <1>4, HelloTaken
  <2>2. TakeFrame(s, c) = Put(s, c, l)
    BY <1>4 DEF TakeFrame
  <2> HIDE DEF l
  <2>3. l \in ConnOf(c) /\ l.processed >= conn.processed
    <3>1. l \in ConnOf(c) /\ l.processed \in Nat
      BY <2>1 DEF Grown, ConnOf
    <3>2. conn.processed = 0
      BY <1>4 DEF Good, Lined
    <3>. QED  BY <3>1, <3>2
  <2>. QED  BY <2>1, <2>2, <2>3, TookPut
<1>5. CASE conn.stage = "attaching"
  <2> DEFINE l == Tell(Send(Enter(q, "attached"), "welcome", 0), Word("listen"))
  <2>1. Grown(c, conn, l) /\ Good(c, k, p, u, l)
    BY <1>0, <1>5, AttachTaken
  <2>2. TakeFrame(s, c) = Put(s, c, l)
    BY <1>5 DEF TakeFrame
  <2> HIDE DEF l
  <2>3. l \in ConnOf(c) /\ l.processed >= conn.processed
    <3>1. l \in ConnOf(c) /\ l.processed \in Nat
      BY <2>1 DEF Grown, ConnOf
    <3>2. conn.processed = 0
      BY <1>5 DEF Good, Lined
    <3>. QED  BY <3>1, <3>2
  <2>. QED  BY <2>1, <2>2, <2>3, TookPut
<1>6. CASE conn.stage = "attached"
  <2>1. Good(c, k, p, u, n)
    BY <1>0, <1>1, <1>6, CountedGood
  <2>2. Took(s, Put(s, c, n), c) /\ SrvType(Put(s, c, n)) /\ Put(s, c, n).conn[c] = n
    BY <1>0, <1>1, <1>2, TookPut
  <2>3. frame.f \in Acts
    <3>1. c \notin Commands
      BY <1>0, <1>6 DEF StagesOf, OverStages, Asking
    <3>. QED  BY <1>0, <1>3, <1>6, <3>1 DEF Right, IsAt
  <2>4. CASE frame.f = "act"
    <3>1. TakeFrame(s, c) = Put(s, c, n)
      BY <1>6, <2>4 DEF TakeFrame
    <3>. QED  BY <2>1, <2>2, <3>1
  <2>5. CASE frame.f = "detach"
    <3> DEFINE l == End(q)
    <3>1. TakeFrame(s, c) = Put(s, c, l)
      BY <1>6, <2>5 DEF TakeFrame
    <3>2. /\ l \in ConnOf(c) /\ Onward(c, q, l) /\ Ends(c, q, l)
          /\ l.stage = "closing" /\ Lives(c, q, l)
      <4>1. c \notin Commands
        BY <1>0, <1>6 DEF StagesOf, OverStages, Asking
      <4>. QED  BY <1>1, <1>6, <4>1, EndFares
    <3> HIDE DEF l
    <3>3. Grown(c, conn, l)
      <4>1. Grown(c, q, l)
        BY <3>2, GrownFares DEF Fares
      <4>. QED  BY <1>0, <1>2, <4>1, GrownOn
    <3>4. Good(c, k, p, u, l)
      <4>1. More(conn.down, l.down) /\ l.stage \in OverStages
        BY <1>1, <3>2 DEF Onward, OverStages
      <4>. QED  BY <1>0, <1>3, <3>2, <4>1, OverGood
    <3>5. l.processed = conn.processed
      BY <1>1, <3>2 DEF Onward
    <3>. QED  BY <1>0, <3>1, <3>2, <3>3, <3>4, <3>5, TookPut
  <2>6. CASE frame.f = "answer"
    <3> DEFINE t == Put(s, c, n)
               v == Answered(t, c, frame.n)
    <3>1. TakeFrame(s, c) = v
      BY <1>6, <2>6 DEF TakeFrame
    <3>2. frame.n \in Nat
      BY <1>3 DEF SentBy, Sents, Framed
    <3>3. Took(s, t, c) /\ SrvType(t) /\ t.conn[c] = n
      BY <2>2
    <3> HIDE DEF t
    <3>4. Handled(t, v)
      BY <3>2, <3>3, AnsweredHandled
    <3> HIDE DEF v
    <3>5. Took(s, v, c)
      BY <3>3, <3>4, TookHandled, TookOn
    <3>6. Good(c, k, p, u, v.conn[c])
      BY <1>1, <2>1, <3>3, <3>4, GoodOnward DEF Handled, Fares
    <3>. QED  BY <3>1, <3>5, <3>6
  <2>. QED  BY <2>3, <2>4, <2>5, <2>6 DEF Acts
<1>7. CASE conn.stage = "command"
  <2> DEFINE t == Put(s, c, q)
             v == OrderedRequest(t, c, frame)
  <2>1. TakeFrame(s, c) = v
    BY <1>7 DEF TakeFrame
  <2>2. Good(c, k, p, u, q)
    BY <1>0, <1>1, <1>7, CountedGood
  <2>3. Took(s, t, c) /\ SrvType(t) /\ t.conn[c] = q
    BY <1>0, <1>1, <1>2, TookPut
  <2>4. AnAsk(frame)
    <3>1. c \in Commands
      BY <1>0, <1>7 DEF StagesOf, OverStages
    <3>2. At(c, k, u, conn) >= 0
      BY <1>3, <1>7 DEF IsAt, Asking
    <3>3. frame.f = "ask"
      BY <1>3, <3>1, <3>2 DEF Right
    <3>. QED  BY <1>3, <3>1, <3>3 DEF AnAsk, AskOf, SentBy, Sents, Framed
  <2> HIDE DEF t
  <2>5. Handled(t, v)
    <3>1. t.conn[c].stage \in Asking
      BY <1>1, <1>7, <2>3 DEF Asking
    <3>. QED  BY <2>3, <2>4, <3>1, OrderedRequestHandled
  <2> HIDE DEF v
  <2>6. Took(s, v, c)
    BY <2>3, <2>5, TookHandled, TookOn
  <2>7. Good(c, k, p, u, v.conn[c])
    BY <1>1, <2>2, <2>3, <2>5, GoodOnward DEF Handled, Fares
  <2>. QED  BY <2>1, <2>6, <2>7
<1>8. CASE conn.stage \notin {"hello", "attaching", "attached", "command"}
  <2> DEFINE e == <<>>
             l == [conn EXCEPT !.deco = e]
  <2>1. TakeFrame(s, c) = Put(s, c, l)
    BY <1>8 DEF TakeFrame
  <2>2. e \in Seq(SentBy(c)) /\ e = <<>>
    OBVIOUS
  <2> HIDE DEF e
  <2>3. /\ l \in ConnOf(c) /\ l.deco = e /\ l.stage = conn.stage /\ l.down = conn.down
        /\ l.processed = conn.processed /\ l.gone = conn.gone
    <3> HIDE DEF conn
    <3>. QED  BY <1>0, <2>2 DEF ConnOf
  <2> HIDE DEF l
  <2>4. conn.stage \in Asking
    BY <1>0, <1>8 DEF StagesOf, OverStages, Asking
  <2>5. Len(conn.down) \in Nat
    BY <1>0 DEF ConnOf
  <2>6. Onward(c, conn, l)
    BY <2>2, <2>3, <2>4, <2>5 DEF Onward, More
  <2>7. Good(c, k, p, u, l)
    BY <1>0, <2>6, GoodOnward
  <2>8. Grown(c, conn, l)
    BY <1>0, <2>3, GrownKin
  <2>. QED  BY <1>0, <2>1, <2>3, <2>7, <2>8, TookPut
<1>. QED  BY <1>4, <1>5, <1>6, <1>7, <1>8

Servers ==
    {s \in [conn : [Conns -> UNION {ConnOf(c) : c \in Conns}], asked : Nat, last : Nat,
            phase : {"serving", "stopping", "ended", "cut"}, ran : SUBSET (Attachers \X Nat)] :
        \A c \in Conns : s.conn[c] \in ConnOf(c)}

LEMMA ServersAre ==
    ASSUME NEW s
    PROVE  SrvType(s) <=> s \in Servers
<1>1. ASSUME SrvType(s)
      PROVE  s \in Servers
  <2>1. s.conn \in [Conns -> UNION {ConnOf(c) : c \in Conns}]
    BY <1>1 DEF SrvType
  <2>. QED  BY <1>1, <2>1 DEF SrvType, Servers
<1>2. ASSUME s \in Servers
      PROVE  SrvType(s)
  BY <1>2 DEF SrvType, Servers
<1>. QED  BY <1>1, <1>2

LEMMA TakeFramesTook ==
    ASSUME NEW s, SrvType(s), NEW c \in Conns, NEW k \in ClientOf(c), NEW u \in UpOf(c),
           NEW p \in ProcOf(c), Good(c, k, p, u, s.conn[c])
    PROVE  Took(s, TakeFrames(s, c), c) /\ Good(c, k, p, u, TakeFrames(s, c).conn[c])
<1> DEFINE X == {t \in Servers : Took(s, t, c) /\ Good(c, k, p, u, t.conn[c])}
           N == FramesAtOnce
           After(g) == g = [n \in 0..N |-> IF n = 0 THEN s ELSE Taking(g[n - 1], c)]
<1>1. s \in X
  <2>1. Took(s, s, c)
    BY HandledSame, TookHandled
  <2>. QED  BY <2>1, ServersAre
<1>2. ASSUME NEW t \in X
      PROVE  Taking(t, c) \in X
  <2>1. SrvType(t) /\ Took(s, t, c) /\ Good(c, k, p, u, t.conn[c])
    BY <1>2, ServersAre
  <2>2. CASE t.conn[c].deco # <<>> /\ Reads(t, c) /\ ~Held(t, c)
    <3>1. t.conn[c].stage \notin OverStages
      BY <2>2 DEF Reads, Stage, OverStages
    <3> DEFINE v == TakeFrame(t, c)
    <3>2. Took(t, v, c) /\ Good(c, k, p, u, v.conn[c])
      BY <2>1, <2>2, <3>1, TakeFrameTook
    <3>3. Taking(t, c) = v
      BY <2>2 DEF Taking
    <3> HIDE DEF v
    <3>4. Took(s, v, c)
      BY <2>1, <3>2, TookOn
    <3>5. v \in Servers
      BY <3>2, ServersAre DEF Took
    <3>. QED  BY <3>2, <3>3, <3>4, <3>5
  <2>3. CASE ~(t.conn[c].deco # <<>> /\ Reads(t, c) /\ ~Held(t, c))
    BY <1>2, <2>3 DEF Taking
  <2>. QED  BY <2>2, <2>3
<1>3. N \in Nat /\ N \in 0..N
  BY BoundsAssumption
<1> HIDE DEF X, N
<1> DEFINE step == [n \in 1..N |-> [t \in X |-> Taking(t, c)]]
<1>4. step \in [1..N -> [X -> X]]
  BY <1>2
<1>5. Iterated(X, N, s, step)
  <2> HIDE DEF step
  <2>. QED  BY <1>1, <1>3, <1>4, Iterates
<1>6. PICK g \in [0..N -> X] : \A n \in 0..N : g[n] = IF n = 0 THEN s ELSE step[n][g[n - 1]]
  BY <1>5 DEF Iterated
<1>7. After(g)
  <2>1. ASSUME NEW n \in 0..N, n # 0
        PROVE  step[n][g[n - 1]] = Taking(g[n - 1], c)
    <3>1. n \in 1..N /\ n - 1 \in 0..N
      BY <1>3, <2>1
    <3>. QED  BY <1>6, <3>1
  <2>. QED  BY <1>6, <2>1
<1>8. PICK h : After(h) /\ TakeFrames(s, c) = h[N]
  BY <1>7 DEF TakeFrames, N
<1> DEFINE S == {n \in 0..N : h[n] \in X}
<1>9. 0 \in S
  BY <1>1, <1>3, <1>8
<1>10. \A n \in 1..N : n - 1 \in S => n \in S
  BY <1>2, <1>3, <1>8
<1>11. \A n \in 0..N : n \in S
  <2> HIDE DEF S
  <2>. QED  BY <1>3, <1>9, <1>10, Climbs
<1>12. TakeFrames(s, c) \in X
  BY <1>3, <1>8, <1>11
<1>. QED  BY <1>12 DEF X

-----------------------------------------------------------------------------
(* It serves a connection.                                                 *)

LEMMA ConcatIs ==
    ASSUME NEW S, NEW q \in Seq(S), NEW r \in Seq(S)
    PROVE  /\ q \o r \in Seq(S) /\ Len(q \o r) = Len(q) + Len(r)
           /\ \A j \in 1..Len(q) : (q \o r)[j] = q[j]
           /\ \A j \in 1..Len(q \o r) : j > Len(q) =>
                j - Len(q) \in DOMAIN r /\ (q \o r)[j] = r[j - Len(q)]
  OBVIOUS

LEMMA HeardGood ==
    ASSUME NEW c \in Conns, NEW k \in ClientOf(c), NEW u \in UpOf(c), NEW conn \in ConnOf(c),
           NEW p, Good(c, k, p, u, conn), NEW gone \in BOOLEAN
    PROVE  LET l == Heard(conn, u, gone)
           IN  /\ l \in ConnOf(c) /\ Good(c, k, p, Quiet, l)
               /\ l.stage = conn.stage /\ l.down = conn.down /\ l.processed = conn.processed
               /\ l.gone = gone
<1> DEFINE q == conn.deco \o u.frames
           y == conn.pending /\ ~u.flushed
           l == Heard(conn, u, gone)
<1>1. /\ conn.deco \in Seq(SentBy(c)) /\ u.frames \in Seq(SentBy(c)) /\ q \in Seq(SentBy(c))
      /\ y \in BOOLEAN
  BY DEF ConnOf, UpOf
<1>2. /\ Len(q) = Len(conn.deco) + Len(u.frames)
      /\ \A j \in 1..Len(conn.deco) : q[j] = conn.deco[j]
      /\ \A j \in 1..Len(q) : j > Len(conn.deco) =>
            j - Len(conn.deco) \in DOMAIN u.frames /\ q[j] = u.frames[j - Len(conn.deco)]
  <2> DEFINE a == conn.deco
             b == u.frames
  <2>1. a \in Seq(SentBy(c)) /\ b \in Seq(SentBy(c))
    BY <1>1
  <2> HIDE DEF a, b
  <2> DEFINE d == a \o b
  <2>2. /\ Len(d) = Len(a) + Len(b)
        /\ \A j \in 1..Len(a) : d[j] = a[j]
        /\ \A j \in 1..Len(d) : j > Len(a) => j - Len(a) \in DOMAIN b /\ d[j] = b[j - Len(a)]
    BY <2>1, ConcatIs
  <2>3. q = d
    BY DEF a, b
  <2> HIDE DEF d, q
  <2>. QED  BY <2>2, <2>3 DEF a, b
<1>3. l = [conn EXCEPT !.deco = q, !.pending = y, !.gone = gone]
  BY DEF Heard
<1> HIDE DEF q, y, l
<1>4. /\ l \in ConnOf(c) /\ l.stage = conn.stage /\ l.deco = q /\ l.down = conn.down
      /\ l.processed = conn.processed /\ l.gone = gone
  BY <1>1, <1>3 DEF ConnOf
<1>5. Quiet.frames = <<>>
  BY DEF Quiet
<1>6. Pos(c, k) \in Int /\ Len(u.frames) \in Nat /\ Len(conn.deco) \in Nat /\ Len(<<>>) = 0
  BY <1>1, PosIs
<1>7. At(c, k, Quiet, l) = At(c, k, u, conn) /\ At(c, k, u, conn) \in Int
  <2>1. Len(l.deco) = Len(conn.deco) + Len(u.frames) /\ Len(Quiet.frames) = 0
    BY <1>2, <1>4, <1>5, <1>6
  <2> DEFINE x == Pos(c, k)
             y1 == Len(conn.deco)
             y2 == Len(u.frames)
  <2>2. x \in Int /\ y1 \in Int /\ y2 \in Int
    BY <1>6
  <2>3. At(c, k, Quiet, l) = x - 0 - (y1 + y2) /\ At(c, k, u, conn) = x - y2 - y1
    BY <2>1 DEF At
  <2> HIDE DEF x, y1, y2
  <2>. QED  BY <2>2, <2>3
<1>8. ~k.opened => l.deco = <<>>
  BY <1>2, <1>4 DEF Good, Lined, q
<1>9. ASSUME k.opened, conn.stage \notin OverStages
      PROVE  Numbered(c, l.deco, At(c, k, Quiet, l))
  <2> SUFFICES ASSUME NEW j \in DOMAIN q
               PROVE  Right(c, q[j], At(c, k, u, conn) + j)
    BY <1>4, <1>7 DEF Numbered
  <2>1. j \in 1..Len(q) /\ j \in Int
    BY <1>1
  <2>2. /\ Numbered(c, u.frames, Pos(c, k) - Len(u.frames))
        /\ Numbered(c, conn.deco, At(c, k, u, conn))
    BY <1>9 DEF Good, Lined
  <2>3. CASE j <= Len(conn.deco)
    <3>1. j \in 1..Len(conn.deco) /\ DOMAIN conn.deco = 1..Len(conn.deco)
      BY <1>1, <1>6, <2>1, <2>3
    <3>2. j \in DOMAIN conn.deco /\ q[j] = conn.deco[j]
      BY <1>2, <3>1
    <3>. QED  BY <2>2, <3>2 DEF Numbered
  <2>4. CASE j > Len(conn.deco)
    <3> DEFINE i == j - Len(conn.deco)
    <3>1. i \in DOMAIN u.frames /\ q[j] = u.frames[i]
      BY <1>2, <2>1, <2>4
    <3>2. Pos(c, k) - Len(u.frames) + i = At(c, k, u, conn) + j
      BY <1>6, <2>1 DEF At
    <3> HIDE DEF i
    <3>. QED  BY <2>2, <3>1, <3>2 DEF Numbered
  <2>. QED  BY <1>6, <2>1, <2>3, <2>4
<1>10. k.opened /\ l.stage \notin OverStages =>
            Numbered(c, Quiet.frames, Pos(c, k) - Len(Quiet.frames))
  BY <1>5 DEF Numbered
<1>11. IsAt(c, conn, At(c, k, u, conn)) => IsAt(c, l, At(c, k, Quiet, l))
  BY <1>4, <1>7 DEF IsAt
<1>12. Lined(c, k, Quiet, l)
  BY <1>4, <1>5, <1>8, <1>9, <1>10, <1>11 DEF Good, Lined
<1>13. Words(c, k, p, l) /\ Wanted(c, k, p, l)
  BY <1>4 DEF Good, Words, Wanted, Due
<1>. QED  BY <1>4, <1>12, <1>13 DEF Good, l

\* All but what becomes of the connection itself.
Serving(s, t, c) ==
    /\ SrvType(t) /\ t.phase = s.phase
    /\ \A d \in Conns : d # c => Fares(d, s.conn[d], t.conn[d])
    /\ Fenced(s) => Fenced(t)

LEMMA ServingPut ==
    ASSUME NEW s, NEW c \in Conns, SrvType(s), NEW l \in ConnOf(c),
           l.processed = s.conn[c].processed
    PROVE  /\ Serving(s, Put(s, c, l), c) /\ Put(s, c, l).conn[c] = l
<1> DEFINE t == Put(s, c, l)
<1>1. /\ SrvType(t) /\ t.conn[c] = l /\ t.ran = s.ran /\ t.phase = s.phase
      /\ \A d \in Conns : d # c => t.conn[d] = s.conn[d]
  BY PutIs
<1> HIDE DEF t
<1>2. \A d \in Conns : s.conn[d] \in ConnOf(d)
  BY DEF SrvType
<1>3. \A d \in Conns : d # c => Fares(d, s.conn[d], t.conn[d])
  BY <1>1, <1>2, FaresSame
<1>4. Fenced(s) => Fenced(t)
  <2>1. \A d \in Conns : t.conn[d].processed = s.conn[d].processed
    BY <1>1
  <2>2. \A fence \in s.ran : fence[1] \in Conns
    BY DEF SrvType, Conns
  <2>. QED  BY <1>1, <2>1, <2>2 DEF Fenced
<1>. QED  BY <1>1, <1>3, <1>4 DEF Serving, t

LEMMA ServingOn ==
    ASSUME NEW s, NEW t, NEW v, NEW c \in Conns, SrvType(s), Serving(s, t, c), Serving(t, v, c)
    PROVE  Serving(s, v, c)
<1>1. ASSUME NEW d \in Conns, d # c
      PROVE  Fares(d, s.conn[d], v.conn[d])
  BY <1>1, FaresOn DEF Serving, SrvType
<1>. QED  BY <1>1 DEF Serving

LEMMA ReadConnServes ==
    ASSUME NEW s, SrvType(s), NEW c \in Conns, NEW k \in ClientOf(c), NEW u \in UpOf(c),
           NEW p \in ProcOf(c), Good(c, k, p, u, s.conn[c]), NEW gone \in BOOLEAN
    PROVE  LET t == ReadConn(s, c, u, gone)
           IN  /\ Serving(s, t, c) /\ Good(c, k, p, Quiet, t.conn[c])
               /\ ~gone /\ ~s.conn[c].gone /\ ~u.shut => Grown(c, s.conn[c], t.conn[c])
<1> DEFINE conn == s.conn[c]
           l == Heard(conn, u, gone)
           a == Put(s, c, l)
           b == TakeFrames(a, c)
           t == ReadConn(s, c, u, gone)
<1>0. conn \in ConnOf(c)
  BY DEF SrvType
<1>1. /\ l \in ConnOf(c) /\ Good(c, k, p, Quiet, l)
      /\ l.stage = conn.stage /\ l.down = conn.down /\ l.processed = conn.processed
      /\ l.gone = gone
  BY <1>0, HeardGood
<1>2. t = IF gone \/ u.shut THEN Put(b, c, Closed(b.conn[c])) ELSE b
  BY DEF ReadConn
<1> HIDE DEF l, t
<1>3. Serving(s, a, c) /\ a.conn[c] = l /\ SrvType(a)
  BY <1>1, ServingPut DEF Serving
<1> HIDE DEF a
<1>4. Quiet \in UpOf(c)
  BY DEF Quiet, UpOf
<1>5. Took(a, b, c) /\ Good(c, k, p, Quiet, b.conn[c])
  BY <1>1, <1>3, <1>4, TakeFramesTook
<1> HIDE DEF b
<1>6. Serving(s, b, c) /\ SrvType(b) /\ b.conn[c] \in ConnOf(c)
  <2>1. Serving(a, b, c)
    BY <1>5 DEF Took, Serving
  <2>. QED  BY <1>3, <2>1, ServingOn DEF Serving, SrvType
<1>7. CASE gone \/ u.shut
  <2> DEFINE m == Closed(b.conn[c])
  <2>1. m \in ConnOf(c) /\ Onward(c, b.conn[c], m)
    BY <1>6, ClosedIs
  <2> HIDE DEF m
  <2>2. Serving(b, Put(b, c, m), c) /\ Put(b, c, m).conn[c] = m
    BY <1>6, <2>1, ServingPut DEF Onward
  <2>3. t = Put(b, c, m)
    BY <1>2, <1>7 DEF m
  <2>4. Serving(s, t, c) /\ t.conn[c] = m
    BY <1>6, <2>2, <2>3, ServingOn
  <2>5. Good(c, k, p, Quiet, m)
    BY <1>4, <1>5, <1>6, <2>1, GoodOnward
  <2>. QED  BY <1>7, <2>4, <2>5 DEF t
<1>8. CASE ~gone /\ ~u.shut
  <2>1. t = b
    BY <1>2, <1>8
  <2>2. ASSUME ~conn.gone
        PROVE  Grown(c, conn, b.conn[c])
    <3>1. Grown(c, conn, l)
      <4>1. l.gone = conn.gone
        BY <1>0, <1>1, <1>8, <2>2 DEF ConnOf
      <4>. QED  BY <1>0, <1>1, <4>1, GrownKin
    <3>2. Grown(c, l, b.conn[c])
      BY <1>3, <1>5 DEF Took
    <3>. QED  BY <1>0, <3>1, <3>2, GrownOn
  <2>. QED  BY <1>5, <1>6, <2>1, <2>2 DEF t
<1>. QED  BY <1>7, <1>8

LEMMA ServedServes ==
    ASSUME NEW s, SrvType(s), NEW c \in Conns, NEW k \in ClientOf(c), NEW u \in UpOf(c),
           NEW p \in ProcOf(c), Good(c, k, p, u, s.conn[c]), NEW gone \in BOOLEAN
    PROVE  LET t == Served(s, c, u, gone)
           IN  /\ Serving(s, t, c) /\ Good(c, k, p, Quiet, t.conn[c])
               /\ ~gone /\ ~s.conn[c].gone /\ ~u.shut => Grown(c, s.conn[c], t.conn[c])
<1> DEFINE r == ReadConn(s, c, u, gone)
           t == Served(s, c, u, gone)
<1>1. /\ Serving(s, r, c) /\ Good(c, k, p, Quiet, r.conn[c])
      /\ ~gone /\ ~s.conn[c].gone /\ ~u.shut => Grown(c, s.conn[c], r.conn[c])
  BY ReadConnServes
<1>2. CASE ~Eligible(r, c)
  <2>1. t = r
    BY <1>2 DEF Served
  <2> HIDE DEF r, t
  <2>. QED  BY <1>1, <2>1 DEF t
<1>3. CASE Eligible(r, c)
  <2> DEFINE ask == r.conn[c].asked
             st == "command"
             q == [r.conn[c] EXCEPT !.stage = st]
             m == Put(r, c, q)
             v == OrderedRequest(m, c, ask)
  <2>1. t = v
    BY <1>3 DEF Served
  <2> HIDE DEF r, t
  <2>2. r.conn[c] \in ConnOf(c) /\ r.conn[c].stage = "blocked" /\ SrvType(r)
    BY <1>1, <1>3 DEF Serving, SrvType, Eligible, Stage
  <2>3. AnAsk(ask)
    BY <2>2 DEF AnAsk, ConnOf
  <2>4. st \in StagesOf(c) /\ st = "command"
    BY <2>2 DEF ConnOf, StagesOf, OverStages, Asking
  <2> HIDE DEF st
  <2>5. /\ q \in ConnOf(c) /\ q.stage = "command" /\ q.deco = r.conn[c].deco
        /\ q.processed = r.conn[c].processed /\ q.gone = r.conn[c].gone
        /\ q.down = r.conn[c].down
    BY <2>2, <2>4 DEF ConnOf
  <2> HIDE DEF q
  <2>6. Len(q.down) \in Nat
    BY <2>5 DEF ConnOf
  <2>7. Fares(c, r.conn[c], q)
    <3>1. Onward(c, r.conn[c], q)
      BY <2>2, <2>5, <2>6 DEF Onward, More, Asking
    <3>2. Ends(c, r.conn[c], q) /\ Lives(c, r.conn[c], q)
      BY <2>5, <2>6 DEF Ends, Orderly, Lives, OverStages
    <3>. QED  BY <3>1, <3>2 DEF Fares
  <2>8. Handled(r, m) /\ m.conn[c] = q
    BY <2>2, <2>5, <2>7, PutHandled, PutIs
  <2> HIDE DEF m, ask
  <2>9. Handled(m, v)
    <3>1. m.conn[c].stage \in Asking
      BY <2>5, <2>8 DEF Asking
    <3>. QED  BY <2>3, <2>8, <3>1, OrderedRequestHandled DEF Handled
  <2> HIDE DEF v
  <2>10. Handled(r, v)
    BY <2>2, <2>8, <2>9, HandledOn
  <2>11. Serving(s, t, c)
    <3>1. Serving(r, t, c)
      BY <2>1, <2>10 DEF Handled, Serving
    <3>. QED  BY <1>1, <3>1, ServingOn
  <2>12. Good(c, k, p, Quiet, t.conn[c])
    <3>1. Quiet \in UpOf(c)
      BY DEF Quiet, UpOf
    <3>. QED  BY <1>1, <2>1, <2>2, <2>10, <3>1, GoodOnward DEF Handled, Fares
  <2>13. ~gone /\ ~s.conn[c].gone /\ ~u.shut => Grown(c, s.conn[c], t.conn[c])
    <3>1. Grown(c, r.conn[c], t.conn[c])
      BY <2>1, <2>10, GrownFares DEF Handled
    <3>2. s.conn[c] \in ConnOf(c)
      BY DEF SrvType
    <3>. QED  BY <1>1, <3>1, <3>2, GrownOn
  <2>. QED  BY <2>11, <2>12, <2>13 DEF t
<1>. QED  BY <1>2, <1>3

-----------------------------------------------------------------------------
(* Its turn, and its stop.                                                 *)

LEMMA TurnedIs ==
    ASSUME NEW s, SrvType(s)
    PROVE  LET t == Turned(s)
           IN  /\ SrvType(t) /\ \A c \in Conns : Fares(c, s.conn[c], t.conn[c])
               /\ Fenced(s) => Fenced(t)
               /\ t.phase = s.phase \/ (s.phase = "stopping" /\ t.phase = "ended")
<1> DEFINE a == AnswerWaits(s)
           b == CloseConns(a)
           r == Retire(b)
           v == [r EXCEPT !.last = 0]
           w == [v EXCEPT !.phase = "ended"]
           t == Turned(s)
<1>1. t = IF v.phase = "stopping" /\ (\A c \in Conns : Stage(v, c) = "closed") THEN w ELSE v
  BY DEF Turned
<1> HIDE DEF t
<1>2. Handled(s, a) /\ SrvType(a)
  BY AnswerWaitsHandled DEF Handled
<1> HIDE DEF a
<1>3. Handled(s, b) /\ SrvType(b)
  <2>1. Handled(a, b)
    BY <1>2, CloseConnsHandled
  <2>. QED  BY <1>2, <2>1, HandledOn DEF Handled
<1> HIDE DEF b
<1>4. Handled(s, r) /\ SrvType(r)
  <2>1. Handled(b, r)
    BY <1>3, RetireHandled
  <2>. QED  BY <1>3, <2>1, HandledOn DEF Handled
<1> HIDE DEF r
<1>5. /\ r = [conn |-> r.conn, asked |-> r.asked, last |-> r.last, phase |-> r.phase,
              ran |-> r.ran]
      /\ r.phase \in {"serving", "stopping", "ended", "cut"}
  BY <1>4 DEF SrvType
<1>6. v = [conn |-> r.conn, asked |-> r.asked, last |-> 0, phase |-> r.phase, ran |-> r.ran]
  BY <1>5
<1>7. w = [conn |-> r.conn, asked |-> r.asked, last |-> 0, phase |-> "ended", ran |-> r.ran]
  <2> HIDE DEF v
  <2>. QED  BY <1>6
<1>8. /\ v.conn = r.conn /\ v.ran = r.ran /\ v.phase = r.phase /\ v.asked = r.asked /\ v.last = 0
      /\ w.conn = r.conn /\ w.ran = r.ran /\ w.phase = "ended" /\ w.asked = r.asked /\ w.last = 0
  BY <1>6, <1>7
<1> HIDE DEF v, w
<1>9. SrvType(v) /\ SrvType(w)
  BY <1>4, <1>6, <1>7, <1>8 DEF SrvType
<1>10. \A c \in Conns : Fares(c, s.conn[c], r.conn[c])
  BY <1>4 DEF Handled
<1>11. Fenced(s) => Fenced(v) /\ Fenced(w)
  BY <1>4, <1>8 DEF Handled, Fenced
<1>12. v.phase = s.phase
  BY <1>4, <1>8 DEF Handled
<1>13. CASE t = v
  BY <1>8, <1>9, <1>10, <1>11, <1>12, <1>13 DEF t
<1>14. CASE t = w /\ v.phase = "stopping"
  BY <1>8, <1>9, <1>10, <1>11, <1>12, <1>14 DEF t
<1>. QED  BY <1>1, <1>13, <1>14

\* Every connection goes on to its end, or stays.
Ending(c, k, l) == Onward(c, k, l) /\ Ends(c, k, l)

LEMMA EndingOn ==
    ASSUME NEW c \in Conns, NEW k \in ConnOf(c), NEW l, NEW m, Ending(c, k, l), Ending(c, l, m)
    PROVE  Ending(c, k, m)
  BY OnwardOn, EndsOn DEF Ending

LEMMA StoppedIs ==
    ASSUME NEW s, SrvType(s)
    PROVE  LET t == Stopped(s)
           IN  /\ SrvType(t) /\ \A c \in Conns : Ending(c, s.conn[c], t.conn[c])
               /\ t.ran = s.ran /\ t.phase = "stopping"
<1> DEFINE m == [c \in Conns |-> IF Stage(s, c) = "attached" THEN End(s.conn[c]) ELSE s.conn[c]]
           x == [s EXCEPT !.phase = "stopping"]
           a == Exited(s)
           b == AnswerWaits(a)
           n == [c \in Conns |-> IF Stage(b, c) \in {"closing", "dead", "closed"} THEN b.conn[c]
                                 ELSE End(b.conn[c])]
           t == Stopped(s)
<1>1. s = [conn |-> s.conn, asked |-> s.asked, last |-> s.last, phase |-> s.phase,
           ran |-> s.ran]
  BY DEF SrvType
<1>2. x = [conn |-> s.conn, asked |-> s.asked, last |-> s.last, phase |-> "stopping",
           ran |-> s.ran]
  BY <1>1
<1>3. /\ x.conn = s.conn /\ x.asked = s.asked /\ x.last = s.last /\ x.phase = "stopping"
      /\ x.ran = s.ran
  BY <1>2
<1>4. a = [x EXCEPT !.conn = m]
  BY DEF Exited
<1> HIDE DEF x, a
<1>5. SrvType(x)
  BY <1>2, <1>3 DEF SrvType
<1>6. ASSUME NEW c \in Conns
      PROVE  Ending(c, s.conn[c], m[c])
  <2>1. s.conn[c] \in ConnOf(c)
    BY DEF SrvType
  <2>. QED  BY <2>1, EndFares, FaresSame DEF Ending, Fares
<1>7. m = [c \in Conns |-> m[c]] /\ \A c \in Conns : m[c] \in ConnOf(c)
  BY <1>6 DEF Ending, Onward
<1> HIDE DEF m
<1>8. SrvType(a) /\ a.conn = m /\ a.ran = s.ran /\ a.phase = "stopping"
  BY <1>3, <1>4, <1>5, <1>7, MapIs
<1>9. Handled(a, b) /\ SrvType(b) /\ b.phase = "stopping"
  BY <1>8, AnswerWaitsHandled DEF Handled
<1>9a. b.ran = a.ran
  <2> DEFINE y == [c \in Conns |->
        IF Waited(a, c) THEN Answer(a.conn[c], IF a.conn[c].due THEN "done" ELSE "refused")
        ELSE a.conn[c]]
  <2>1. b = [a EXCEPT !.conn = y]
    BY DEF AnswerWaits
  <2> HIDE DEF y, b
  <2>2. a = [conn |-> a.conn, asked |-> a.asked, last |-> a.last, phase |-> a.phase,
             ran |-> a.ran]
    BY <1>8 DEF SrvType
  <2>. QED  BY <2>1, <2>2
<1>10. t = [b EXCEPT !.conn = n]
  BY DEF Stopped, AllEnded, a
<1> HIDE DEF b, t
<1>11. ASSUME NEW c \in Conns
       PROVE  Ending(c, b.conn[c], n[c])
  <2>1. b.conn[c] \in ConnOf(c)
    BY <1>9 DEF SrvType
  <2>. QED  BY <2>1, EndFares, FaresSame DEF Ending, Fares
<1>12. n = [c \in Conns |-> n[c]] /\ \A c \in Conns : n[c] \in ConnOf(c)
  BY <1>11 DEF Ending, Onward
<1> HIDE DEF n
<1>13. SrvType(t) /\ t.conn = n /\ t.ran = s.ran /\ t.phase = "stopping"
  BY <1>8, <1>9, <1>9a, <1>10, <1>12, MapIs
<1>14. ASSUME NEW c \in Conns
       PROVE  Ending(c, s.conn[c], t.conn[c])
  <2>1. s.conn[c] \in ConnOf(c)
    BY DEF SrvType
  <2>2. Ending(c, s.conn[c], a.conn[c])
    BY <1>6, <1>8
  <2>3. Ending(c, a.conn[c], b.conn[c])
    BY <1>9 DEF Handled, Fares, Ending
  <2>4. Ending(c, s.conn[c], b.conn[c])
    BY <2>1, <2>2, <2>3, EndingOn
  <2>. QED  BY <1>11, <1>13, <2>1, <2>4, EndingOn
<1>. QED  BY <1>13, <1>14 DEF t

-----------------------------------------------------------------------------
(* What its client does.                                                   *)

\* What is neither its frames nor what its process expects of it.
LEMMA SameGood ==
    ASSUME NEW c \in Conns, NEW k, NEW p, NEW u, NEW conn, Good(c, k, p, u, conn),
           NEW l, l.opened = k.opened, l.inbox = k.inbox, l.sent = k.sent, l.asked = k.asked,
           NEW q, q.backlog = p.backlog,
           q.want = p.want \/ (p.want = "answer" /\ q.want = "command"),
           NEW v, v.frames = u.frames
    PROVE  Good(c, l, q, v, conn)
<1>1. Sendings(c, l) = Sendings(c, k)
  BY DEF Sendings
<1>2. Pos(c, l) = Pos(c, k)
  BY <1>1 DEF Pos
<1>3. At(c, l, v, conn) = At(c, k, u, conn)
  BY <1>2 DEF At
<1>4. Lined(c, l, v, conn)
  BY <1>1, <1>2, <1>3 DEF Good, Lined
<1>5. \A x : Due(c, k, conn, x) => Due(c, l, conn, x)
  BY <1>2 DEF Due
<1>6. Words(c, l, q, conn)
  BY <1>5 DEF Good, Words
<1>7. Wanted(c, l, q, conn)
  BY <1>2 DEF Good, Wanted
<1>. QED  BY <1>4, <1>6, <1>7 DEF Good

\* It sends what is right to send next.
LEMMA SentGood ==
    ASSUME NEW c \in Conns, NEW k \in ClientOf(c), NEW p, NEW u, NEW conn,
           Good(c, k, p, u, conn), k.opened, NEW l \in ClientOf(c), l.opened,
           NEW frame \in SentBy(c), Right(c, frame, Sendings(c, k) + 1),
           Sendings(c, l) = Sendings(c, k) + 1, l.inbox = Append(k.inbox, frame)
    PROVE  Good(c, l, p, u, conn)
<1>1. k.inbox \in Seq(SentBy(c)) /\ Sendings(c, k) \in Nat
  BY PosIs DEF ClientOf
<1>2. /\ Len(l.inbox) = Len(k.inbox) + 1 /\ Len(k.inbox) \in Nat
      /\ \A j \in 1..Len(k.inbox) : l.inbox[j] = k.inbox[j]
      /\ l.inbox[Len(k.inbox) + 1] = frame
      /\ DOMAIN l.inbox = 1..(Len(k.inbox) + 1) /\ DOMAIN k.inbox = 1..Len(k.inbox)
  BY <1>1
<1>3. Pos(c, l) = Pos(c, k) /\ Pos(c, k) \in Int /\ Pos(c, k) + (Len(k.inbox) + 1) = Sendings(c, k) + 1
  <2> DEFINE x == Sendings(c, k)
             y == Len(k.inbox)
  <2>1. x \in Nat /\ y \in Nat
    BY <1>1, <1>2
  <2>2. Pos(c, k) = x - y /\ Pos(c, l) = (x + 1) - (y + 1)
    BY <1>2 DEF Pos
  <2> HIDE DEF x, y
  <2>3. Pos(c, l) = Pos(c, k) /\ Pos(c, k) \in Int /\ Pos(c, k) + (y + 1) = x + 1
    BY <2>1, <2>2
  <2>. QED  BY <2>3 DEF x, y
<1>4. At(c, l, u, conn) = At(c, k, u, conn)
  BY <1>3 DEF At
<1>5. Numbered(c, l.inbox, Pos(c, l))
  <2> SUFFICES ASSUME NEW j \in 1..(Len(k.inbox) + 1)
               PROVE  Right(c, l.inbox[j], Pos(c, k) + j)
    BY <1>2, <1>3 DEF Numbered
  <2>1. CASE j = Len(k.inbox) + 1
    BY <1>2, <1>3, <2>1
  <2>2. CASE j # Len(k.inbox) + 1
    <3>1. j \in 1..Len(k.inbox)
      BY <1>2, <2>2
    <3>2. Numbered(c, k.inbox, Pos(c, k))
      BY DEF Good, Lined
    <3>. QED  BY <1>2, <3>1, <3>2 DEF Numbered
  <2>. QED  BY <2>1, <2>2
<1>6. Lined(c, l, u, conn)
  BY <1>3, <1>4, <1>5 DEF Good, Lined
<1>7. \A x : Due(c, k, conn, x) => Due(c, l, conn, x)
  BY <1>3 DEF Due
<1>8. Words(c, l, p, conn)
  BY <1>7 DEF Good, Words
<1>9. Wanted(c, l, p, conn)
  BY <1>3 DEF Good, Wanted
<1>. QED  BY <1>6, <1>8, <1>9 DEF Good

\* It opens.
LEMMA OpenedGood ==
    ASSUME NEW c \in Conns, NEW k \in ClientOf(c), NEW p \in ProcOf(c), NEW u, NEW conn \in ConnOf(c),
           Good(c, k, p, u, conn), ~k.opened, NEW l \in ClientOf(c), l.opened,
           l.sent = k.sent, l.asked = k.asked, Len(l.inbox) = Opening(c),
           Numbered(c, l.inbox, -Opening(c))
    PROVE  Good(c, l, p, u, conn)
<1>1. /\ Sendings(c, k) = 0 /\ u.frames = <<>> /\ conn.deco = <<>>
      /\ conn.stage \in {"hello"} \union OverStages
  BY DEF Good, Lined
<1>2. Sendings(c, l) = 0
  BY <1>1 DEF Sendings
<1>3. Opening(c) \in {1, 2}
  BY PosIs
<1>4. Pos(c, l) = -Opening(c)
  BY <1>2, <1>3 DEF Pos
<1>5. Len(<<>>) = 0 /\ DOMAIN <<>> = {}
  OBVIOUS
<1>6. At(c, l, u, conn) = -Opening(c)
  BY <1>1, <1>3, <1>4, <1>5 DEF At
<1>7. Numbered(c, u.frames, Pos(c, l) - Len(u.frames)) /\ Numbered(c, conn.deco, At(c, l, u, conn))
  BY <1>1, <1>5 DEF Numbered
<1>8. conn.stage \notin OverStages => IsAt(c, conn, At(c, l, u, conn))
  BY <1>1, <1>6 DEF IsAt, Asking, OverStages
<1>9. Lined(c, l, u, conn)
  BY <1>3, <1>4, <1>7, <1>8 DEF Good, Lined
<1>10. Expecting(p.backlog) = {} /\ Expecting(conn.down) = {}
  BY DEF Good, Words, Due
<1>11. Words(c, l, p, conn)
  BY <1>10 DEF Words, Once
<1>12. p.want \in {"hello", "nothing"}
  <2>1. p.want \in WantsOf(c)
    BY DEF ProcOf
  <2>. QED  BY <2>1 DEF Good, Wanted, WantsOf
<1>13. Wanted(c, l, p, conn)
  BY <1>3, <1>4, <1>12 DEF Wanted
<1>. QED  BY <1>9, <1>11, <1>13 DEF Good

LEMMA FrameIs ==
    ASSUME NEW f \in {"hello", "attach", "act", "detach", "answer", "ask"},
           NEW what \in AllAsks \union {"attaching", "command", "none"},
           NEW to \in Conns \union {None}, NEW n \in Nat, NEW i \in Nat
    PROVE  /\ Frame(f, what, to, n, i) \in Sents
           /\ Frame(f, what, to, n, i).f = f /\ Frame(f, what, to, n, i).i = i
           /\ Frame(f, what, to, n, i).what = what /\ Frame(f, what, to, n, i).to = to
  BY DEF Frame, Sents, Framed

LEMMA ActIs ==
    ASSUME NEW c \in Attachers, NEW f \in Acts, NEW n \in Nat, NEW i \in Nat \ {0}
    PROVE  /\ Frame(f, "none", None, n, i) \in SentBy(c)
           /\ Right(c, Frame(f, "none", None, n, i), i)
<1>1. c \notin Commands
  BY ConnsAssumption
<1>2. /\ Frame(f, "none", None, n, i) \in Sents
      /\ Frame(f, "none", None, n, i).f = f /\ Frame(f, "none", None, n, i).i = i
  <2>1. f \in {"hello", "attach", "act", "detach", "answer", "ask"} /\ i \in Nat
    BY DEF Acts
  <2>2. None \in Conns \union {None} /\ "none" \in AllAsks \union {"attaching", "command", "none"}
    OBVIOUS
  <2>. QED  BY <2>1, <2>2 DEF Frame, Sents, Framed
<1>3. f \notin {"hello", "attach", "ask"}
  BY DEF Acts
<1>. QED  BY <1>1, <1>2, <1>3 DEF SentBy, Right

LEMMA SpeaksKeeps ==
    ASSUME IInv, NEW c \in Conns, NEW k \in ClientOf(c),
           Good(c, k, proc[c], up[c], srv.conn[c]),
           client' = [client EXCEPT ![c] = k], UNCHANGED <<proc, up, coming, srv>>
    PROVE  IInv'
<1>1. /\ client = [d \in Conns |-> client[d]] /\ \A d \in Conns : client[d] \in ClientOf(d)
  BY DEF IInv, Types
<1>2. /\ client' = [d \in Conns |-> client'[d]] /\ client'[c] = k
      /\ \A d \in Conns : d # c => client'[d] = client[d]
  BY <1>1
<1>3. Types'
  BY <1>1, <1>2 DEF IInv, Types, SrvType
<1>4. ASSUME NEW d \in Conns
      PROVE  Good(d, client'[d], proc'[d], up'[d], srv'.conn[d])
  BY <1>2 DEF IInv, Good
<1>. QED  BY <1>3, <1>4 DEF IInv, Good

LEMMA ClientKeeps ==
    ASSUME IInv, NEW c \in Conns, Client(c) \/ Leaves(c)
    PROVE  IInv'
<1> DEFINE k == client[c]
           G(l) == Good(c, l, proc[c], up[c], srv.conn[c])
<1>1. k \in ClientOf(c) /\ proc[c] \in ProcOf(c) /\ srv.conn[c] \in ConnOf(c) /\ G(k)
  BY DEF IInv, Types, SrvType, Good
<1>2. ASSUME NEW l \in ClientOf(c), l.opened = k.opened, l.inbox = k.inbox, l.sent = k.sent,
             l.asked = k.asked
      PROVE  G(l)
  BY <1>1, <1>2, SameGood
<1>3. ASSUME NEW side \in {"open", "shut", "gone"}
      PROVE  /\ [k EXCEPT !.side = side] \in ClientOf(c)
             /\ G([k EXCEPT !.side = side])
  <2> DEFINE l == [k EXCEPT !.side = side]
  <2>1. /\ l \in ClientOf(c) /\ l.opened = k.opened /\ l.inbox = k.inbox /\ l.sent = k.sent
        /\ l.asked = k.asked
    <3> HIDE DEF k
    <3>. QED  BY <1>1 DEF ClientOf
  <2> HIDE DEF l, k
  <2>2. G(l)
    BY <2>1, <1>2
  <2>. QED  BY <2>1, <2>2 DEF l
<1>4. ASSUME Attaches(c), NEW f \in Acts, NEW n \in Nat, NEW l,
             l \in ClientOf(c), l.opened, l.sent = k.sent + 1,
             l.inbox = Append(k.inbox, Frame(f, "none", None, n, k.sent + 1))
      PROVE  G(l)
  <2>1. c \in Attachers /\ c \notin Commands /\ k.opened
    BY <1>4, ConnsAssumption DEF Attaches
  <2>2. k.sent \in Nat /\ Sendings(c, k) = k.sent /\ Sendings(c, l) = k.sent + 1
    BY <1>1, <1>4, <2>1 DEF Sendings, ClientOf
  <2> DEFINE i == k.sent + 1
  <2>3. i \in Nat \ {0}
    BY <2>2
  <2> DEFINE frame == Frame(f, "none", None, n, i)
  <2>4. frame \in SentBy(c) /\ Right(c, frame, i)
    <3> HIDE DEF i
    <3>. QED  BY <2>1, <2>3, ActIs
  <2> HIDE DEF frame
  <2>. QED  BY <1>1, <1>4, <2>1, <2>2, <2>4, SentGood DEF frame
<1>5. CASE Open(c)
  <2> DEFINE hello == Frame("hello", "command", None, 0, 0)
             hallo == Frame("hello", "attaching", None, 0, 0)
             attach == Frame("attach", "none", None, 0, 0)
             opening == IF c \in Commands THEN <<hello>> ELSE <<hallo, attach>>
             l == [k EXCEPT !.inbox = opening, !.opened = TRUE]
  <2>1. /\ client' = [client EXCEPT ![c] = l] /\ ~k.opened
        /\ UNCHANGED <<proc, up, coming, srv>>
    BY <1>5 DEF Open, Speaks
  <2>2. /\ hello \in Sents /\ hello.f = "hello" /\ hello.what = "command" /\ hello.i = 0
        /\ hallo \in Sents /\ hallo.f = "hello" /\ hallo.what = "attaching" /\ hallo.i = 0
        /\ attach \in Sents /\ attach.f = "attach" /\ attach.i = 0
    <3>1. None \in Conns \union {None} /\ 0 \in Nat
      OBVIOUS
    <3>2. {"attaching", "command", "none"} \subseteq AllAsks \union {"attaching", "command", "none"}
      OBVIOUS
    <3>3. hello \in Sents /\ hello.f = "hello" /\ hello.what = "command" /\ hello.i = 0
      BY <3>1, <3>2 DEF Frame, Sents, Framed
    <3>4. hallo \in Sents /\ hallo.f = "hello" /\ hallo.what = "attaching" /\ hallo.i = 0
      BY <3>1, <3>2 DEF Frame, Sents, Framed
    <3>5. attach \in Sents /\ attach.f = "attach" /\ attach.i = 0
      BY <3>1, <3>2 DEF Frame, Sents, Framed
    <3>. QED  BY <3>3, <3>4, <3>5
  <2> HIDE DEF hello, hallo, attach
  <2>3. /\ c \in Commands => hello \in SentBy(c)
        /\ c \notin Commands => hallo \in SentBy(c) /\ attach \in SentBy(c)
    BY <2>2 DEF SentBy
  <2>4. opening \in Seq(SentBy(c)) /\ Len(opening) = Opening(c)
    BY <2>3 DEF Opening
  <2>5. Numbered(c, opening, -Opening(c))
    <3>1. CASE c \in Commands
      <4>1. DOMAIN opening = {1} /\ opening[1] = hello
        BY <3>1
      <4>. QED  BY <2>2, <3>1, <4>1 DEF Numbered, Right, Opening
    <3>2. CASE c \notin Commands
      <4>1. DOMAIN opening = {1, 2} /\ opening[1] = hallo /\ opening[2] = attach
        BY <3>2
      <4>. QED  BY <2>2, <3>2, <4>1 DEF Numbered, Right, Opening
    <3>. QED  BY <3>1, <3>2
  <2> HIDE DEF opening
  <2>6. /\ l \in ClientOf(c) /\ l.opened /\ l.sent = k.sent /\ l.asked = k.asked
        /\ l.inbox = opening
    <3> HIDE DEF k
    <3>. QED  BY <1>1, <2>4 DEF ClientOf
  <2> HIDE DEF l
  <2>7. G(l)
    BY <1>1, <2>1, <2>4, <2>5, <2>6, OpenedGood
  <2>. QED  BY <2>1, <2>6, <2>7, SpeaksKeeps
<1>6. CASE Ask(c)
  <2>1. PICK what \in Asks, to \in Attachers :
            LET n == IF what = "fenced" THEN client[to].sent ELSE 0
            IN  Speaks(c, [Says(c, Frame("ask", what, to, n, 0))
                            EXCEPT !.asked = Append(client[c].asked, what)])
    BY <1>6 DEF Ask
  <2> DEFINE n == IF what = "fenced" THEN client[to].sent ELSE 0
             frame == Frame("ask", what, to, n, 0)
             inbox == Append(k.inbox, frame)
             asked == Append(k.asked, what)
             l == [[k EXCEPT !.inbox = inbox] EXCEPT !.asked = asked]
  <2>2. client' = [client EXCEPT ![c] = l] /\ UNCHANGED <<proc, up, coming, srv>>
    BY <2>1 DEF Speaks, Says
  <2>3. c \in Commands /\ k.opened /\ what \in AllAsks /\ to \in Conns
    BY <1>6, BoundsAssumption DEF Ask, Conns
  <2>4. n \in Nat
    BY <2>3 DEF IInv, Types, ClientOf
  <2> HIDE DEF n
  <2>5. frame \in SentBy(c) /\ frame.f = "ask"
    <3>1. /\ frame \in Sents /\ frame.f = "ask" /\ frame.i = 0 /\ frame.what = what
          /\ frame.to = to
      BY <2>3, <2>4, FrameIs
    <3>. QED  BY <2>3, <3>1 DEF SentBy
  <2> HIDE DEF frame
  <2>6. inbox \in Seq(SentBy(c)) /\ asked \in Seq(AllAsks) /\ Len(asked) = Len(k.asked) + 1
    BY <1>1, <2>3, <2>5 DEF ClientOf
  <2> HIDE DEF inbox, asked
  <2>7. l \in ClientOf(c) /\ l.opened = k.opened /\ l.inbox = inbox /\ l.asked = asked
    <3> HIDE DEF k
    <3>. QED  BY <1>1, <2>6 DEF ClientOf
  <2>8. /\ Sendings(c, l) = Sendings(c, k) + 1 /\ Sendings(c, k) \in Nat
        /\ Right(c, frame, Sendings(c, k) + 1)
    <3>1. Sendings(c, k) \in Nat
      BY <1>1, PosIs
    <3>2. Sendings(c, l) = Len(asked) /\ Sendings(c, k) = Len(k.asked)
      BY <2>3, <2>7 DEF Sendings
    <3>. QED  BY <2>3, <2>5, <2>6, <3>1, <3>2 DEF Right
  <2> HIDE DEF l
  <2>9. G(l)
    BY <1>1, <2>3, <2>5, <2>7, <2>8, SentGood DEF inbox
  <2>. QED  BY <2>2, <2>7, <2>9, SpeaksKeeps
<1>7. CASE Act(c) \/ Detach(c) \/ Replies(c)
  <2> DEFINE i == k.sent + 1
  <2>0. Attaches(c) /\ c \in Attachers /\ k.opened /\ c \notin Commands
    BY <1>7, ConnsAssumption DEF Act, Detach, Replies, Attaches
  <2>1. i \in Nat \ {0} /\ k.inbox \in Seq(SentBy(c)) /\ k.owed \in Seq(Nat)
    BY <1>1 DEF ClientOf
  <2>2. CASE Act(c)
    <3> DEFINE frame == Frame("act", "none", None, 0, i)
               inbox == Append(k.inbox, frame)
               l == [[k EXCEPT !.inbox = inbox] EXCEPT !.sent = i]
    <3>1. client' = [client EXCEPT ![c] = l] /\ UNCHANGED <<proc, up, coming, srv>>
      BY <2>2 DEF Act, Speaks, Says
    <3>2. inbox \in Seq(SentBy(c))
      <4> HIDE DEF i
      <4>1. frame \in SentBy(c)
        BY <2>0, <2>1, ActIs DEF Acts
      <4> HIDE DEF frame
      <4>. QED  BY <2>1, <4>1
    <3> HIDE DEF inbox, i
    <3>3. l \in ClientOf(c) /\ l.opened = k.opened /\ l.inbox = inbox /\ l.sent = i
      <4> HIDE DEF k
      <4>. QED  BY <1>1, <2>1, <3>2 DEF ClientOf
    <3> HIDE DEF l
    <3>4. G(l)
      BY <1>4, <2>0, <3>3 DEF inbox, i, Acts
    <3>. QED  BY <3>1, <3>3, <3>4, SpeaksKeeps
  <2>3. CASE Detach(c)
    <3> DEFINE frame == Frame("detach", "none", None, 0, i)
               inbox == Append(k.inbox, frame)
               l == [[k EXCEPT !.inbox = inbox] EXCEPT !.sent = i, !.left = TRUE]
    <3>1. client' = [client EXCEPT ![c] = l] /\ UNCHANGED <<proc, up, coming, srv>>
      BY <2>3 DEF Detach, Speaks, Says
    <3>2. inbox \in Seq(SentBy(c))
      <4> HIDE DEF i
      <4>1. frame \in SentBy(c)
        BY <2>0, <2>1, ActIs DEF Acts
      <4> HIDE DEF frame
      <4>. QED  BY <2>1, <4>1
    <3> HIDE DEF inbox, i
    <3>3. l \in ClientOf(c) /\ l.opened = k.opened /\ l.inbox = inbox /\ l.sent = i
      <4> HIDE DEF k
      <4>. QED  BY <1>1, <2>1, <3>2 DEF ClientOf
    <3> HIDE DEF l
    <3>4. G(l)
      BY <1>4, <2>0, <3>3 DEF inbox, i, Acts
    <3>. QED  BY <3>1, <3>3, <3>4, SpeaksKeeps
  <2>4. CASE Replies(c)
    <3> DEFINE n == Head(k.owed)
               rest == Tail(k.owed)
               frame == Frame("answer", "none", None, n, i)
               inbox == Append(k.inbox, frame)
               l == [[k EXCEPT !.inbox = inbox] EXCEPT !.sent = i, !.owed = rest]
    <3>1. client' = [client EXCEPT ![c] = l] /\ UNCHANGED <<proc, up, coming, srv>>
      BY <2>4 DEF Replies, Speaks, Says
    <3>2. n \in Nat /\ rest \in Seq(Nat)
      BY <2>1, <2>4 DEF Replies
    <3> HIDE DEF n, rest
    <3>3. inbox \in Seq(SentBy(c))
      <4> HIDE DEF i
      <4>1. frame \in SentBy(c)
        BY <2>0, <2>1, <3>2, ActIs DEF Acts
      <4> HIDE DEF frame
      <4>. QED  BY <2>1, <4>1
    <3> HIDE DEF inbox, i
    <3>4. l \in ClientOf(c) /\ l.opened = k.opened /\ l.inbox = inbox /\ l.sent = i
      <4> HIDE DEF k
      <4>. QED  BY <1>1, <2>1, <3>2, <3>3 DEF ClientOf
    <3> HIDE DEF l
    <3>5. G(l)
      BY <1>4, <2>0, <3>2, <3>4 DEF inbox, i, Acts
    <3>. QED  BY <3>1, <3>4, <3>5, SpeaksKeeps
  <2>. QED  BY <1>7, <2>2, <2>3, <2>4
<1>8. CASE Shut(c)
  <2> DEFINE l == [k EXCEPT !.side = "shut"]
  <2>1. client' = [client EXCEPT ![c] = l] /\ UNCHANGED <<proc, up, coming, srv>>
    BY <1>8 DEF Shut, Speaks
  <2>2. l \in ClientOf(c) /\ G(l)
    BY <1>3
  <2> HIDE DEF l
  <2>. QED  BY <2>1, <2>2, SpeaksKeeps
<1>9. CASE Leaves(c)
  <2> DEFINE l == [k EXCEPT !.side = "gone"]
  <2>1. client' = [client EXCEPT ![c] = l] /\ UNCHANGED <<proc, up, coming, srv>>
    BY <1>9 DEF Leaves
  <2>2. l \in ClientOf(c) /\ G(l)
    BY <1>3
  <2> HIDE DEF l
  <2>. QED  BY <2>1, <2>2, SpeaksKeeps
<1>. QED  BY <1>5, <1>6, <1>7, <1>8, <1>9 DEF Client, Done

-----------------------------------------------------------------------------
(* What its process does.                                                  *)

\* What a client is sent changes nothing of what it sends.
Still(k, l) ==
    /\ l.side = k.side /\ l.opened = k.opened /\ l.inbox = k.inbox /\ l.sent = k.sent
    /\ l.asked = k.asked /\ l.left = k.left /\ (k.exited => l.exited)

LEMMA TakenIs ==
    ASSUME NEW c \in Conns, NEW k \in ClientOf(c), NEW word \in WordTo(c)
    PROVE  /\ Taken(k, word) \in ClientOf(c) /\ Still(k, Taken(k, word))
           /\ word.x = "exit" => Taken(k, word).exited
<1>0. word.n \in Nat /\ k.typed \in SUBSET Nat /\ k.owed \in Seq(Nat)
      /\ k.results \in Seq(Answers \X Nat)
  BY DEF WordTo, Said, ClientOf
<1>1. CASE word.x = "keys"
  <2> DEFINE t == k.typed \union {word.n}
             l == [k EXCEPT !.typed = t]
  <2>1. t \in SUBSET Nat
    BY <1>0
  <2>2. Taken(k, word) = l
    BY <1>1 DEF Taken
  <2> HIDE DEF t
  <2>3. l \in ClientOf(c) /\ Still(k, l)
    BY <2>1 DEF ClientOf, Still
  <2>. QED  BY <1>1, <2>2, <2>3
<1>2. CASE word.x = "read"
  <2> DEFINE t == Append(k.owed, word.n)
             l == [k EXCEPT !.owed = t]
  <2>1. t \in Seq(Nat)
    BY <1>0
  <2>2. Taken(k, word) = l
    BY <1>2 DEF Taken
  <2> HIDE DEF t
  <2>3. l \in ClientOf(c) /\ Still(k, l)
    BY <2>1 DEF ClientOf, Still
  <2>. QED  BY <1>2, <2>2, <2>3
<1>3. CASE word.x \in {"done", "refused", "typed", "lost"}
  <2> DEFINE r == <<word.x, word.n>>
             t == Append(k.results, r)
             l == [k EXCEPT !.results = t]
  <2>0. r \in Answers \X Nat
    BY <1>0, <1>3 DEF Answers
  <2>1. t \in Seq(Answers \X Nat)
    <3> HIDE DEF r
    <3>. QED  BY <1>0, <2>0
  <2>2. Taken(k, word) = l
    BY <1>3 DEF Taken
  <2> HIDE DEF t
  <2>3. l \in ClientOf(c) /\ Still(k, l)
    BY <2>1 DEF ClientOf, Still
  <2>. QED  BY <1>3, <2>2, <2>3
<1>4. CASE word.x = "exit"
  <2> DEFINE l == [k EXCEPT !.exited = TRUE]
  <2>2. Taken(k, word) = l
    BY <1>4 DEF Taken
  <2>3. l \in ClientOf(c) /\ Still(k, l) /\ l.exited
    BY DEF ClientOf, Still
  <2>. QED  BY <1>4, <2>2, <2>3
<1>5. CASE word.x \notin {"keys", "read", "done", "refused", "typed", "lost", "exit"}
  BY <1>5 DEF Taken, Still
<1>. QED  BY <1>1, <1>2, <1>3, <1>4, <1>5

LEMMA TakenAllIs ==
    ASSUME NEW c \in Conns, NEW k \in ClientOf(c), NEW sent \in Seq(WordTo(c))
    PROVE  /\ TakenAll(k, sent) \in ClientOf(c) /\ Still(k, TakenAll(k, sent))
           /\ \A j \in 1..Len(sent) : sent[j].x = "exit" => TakenAll(k, sent).exited
<1> DEFINE X == ClientOf(c)
           N == Len(sent)
           After(g) == g = [n \in 0..N |-> IF n = 0 THEN k ELSE Taken(g[n - 1], sent[n])]
           step == [n \in 1..N |-> [l \in X |-> Taken(l, sent[n])]]
<1>1. N \in Nat /\ N \in 0..N /\ \A n \in 1..N : sent[n] \in WordTo(c)
  OBVIOUS
<1>2. \A n \in 1..N : \A l \in X : Taken(l, sent[n]) \in X
  BY <1>1, TakenIs
<1>3. k \in X
  OBVIOUS
<1> HIDE DEF X, N
<1>4. step \in [1..N -> [X -> X]]
  BY <1>2
<1>5. Iterated(X, N, k, step)
  <2> HIDE DEF step
  <2>. QED  BY <1>1, <1>3, <1>4, Iterates
<1>6. PICK g \in [0..N -> X] : \A n \in 0..N : g[n] = IF n = 0 THEN k ELSE step[n][g[n - 1]]
  BY <1>5 DEF Iterated
<1>7. After(g)
  <2>1. ASSUME NEW n \in 0..N, n # 0
        PROVE  step[n][g[n - 1]] = Taken(g[n - 1], sent[n])
    <3>1. n \in 1..N /\ n - 1 \in 0..N
      BY <1>1, <2>1
    <3>. QED  BY <1>6, <3>1
  <2>. QED  BY <1>6, <2>1
<1>8. PICK h : After(h) /\ TakenAll(k, sent) = h[N]
  BY <1>7 DEF TakenAll, N
<1> DEFINE Fine(l, n) == /\ l \in X /\ Still(k, l)
                         /\ \A j \in 1..n : sent[j].x = "exit" => l.exited
           S == {n \in 0..N : Fine(h[n], n)}
<1>9. 0 \in S
  <2>1. h[0] = k /\ 0 \in 0..N
    BY <1>1, <1>8
  <2>. QED  BY <1>3, <2>1 DEF Still
<1>10. ASSUME NEW n \in 1..N, n - 1 \in S
       PROVE  n \in S
  <2>1. Fine(h[n - 1], n - 1) /\ n \in 0..N /\ h[n] = Taken(h[n - 1], sent[n])
    BY <1>1, <1>8, <1>10
  <2>2. /\ h[n] \in X /\ Still(h[n - 1], h[n])
        /\ sent[n].x = "exit" => h[n].exited
    BY <1>1, <2>1, TakenIs DEF X
  <2>3. Still(k, h[n])
    BY <2>1, <2>2 DEF Still
  <2>4. \A j \in 1..n : sent[j].x = "exit" => h[n].exited
    <3> SUFFICES ASSUME NEW j \in 1..n, sent[j].x = "exit"
                 PROVE  h[n].exited
      OBVIOUS
    <3>1. j = n \/ j \in 1..(n - 1)
      BY <1>1
    <3>. QED  BY <2>1, <2>2, <3>1 DEF Still
  <2>. QED  BY <2>1, <2>2, <2>3, <2>4
<1>11. \A n \in 0..N : n \in S
  <2> HIDE DEF S
  <2>. QED  BY <1>1, <1>9, <1>10, Climbs
<1>12. Fine(TakenAll(k, sent), N)
  BY <1>1, <1>8, <1>11
<1>. QED  BY <1>12 DEF X, N

\* One of a process's words kept is let go.
Shortened(b, r) ==
    \E i \in 1..Len(b) :
        /\ b[i].m = "keys" /\ Len(r) = Len(b) - 1
        /\ \A j \in 1..Len(r) : r[j] = b[IF j < i THEN j ELSE j + 1]

LEMMA RemoveAtIs ==
    ASSUME NEW S, NEW q \in Seq(S), NEW i \in 1..Len(q)
    PROVE  /\ RemoveAt(q, i) \in Seq(S) /\ Len(RemoveAt(q, i)) = Len(q) - 1
           /\ \A j \in 1..Len(RemoveAt(q, i)) :
                RemoveAt(q, i)[j] = q[IF j < i THEN j ELSE j + 1]
<1> DEFINE a == SubSeq(q, 1, i - 1)
           b == SubSeq(q, i + 1, Len(q))
           r == a \o b
<1>0. Len(q) \in Nat /\ i \in Nat /\ i >= 1 /\ i <= Len(q)
  OBVIOUS
<1>1. a \in Seq(S) /\ Len(a) = i - 1 /\ \A j \in 1..(i - 1) : a[j] = q[j]
  OBVIOUS
<1>2. b \in Seq(S) /\ Len(b) = Len(q) - i /\ \A j \in 1..(Len(q) - i) : b[j] = q[i + j]
  OBVIOUS
<1>3. RemoveAt(q, i) = r
  BY DEF RemoveAt
<1> HIDE DEF a, b
<1>4. r \in Seq(S) /\ Len(r) = Len(a) + Len(b)
      /\ (\A j \in 1..Len(a) : r[j] = a[j])
      /\ \A j \in 1..Len(r) : j > Len(a) => r[j] = b[j - Len(a)]
  BY <1>1, <1>2, ConcatIs
<1> HIDE DEF r
<1>5. Len(r) = Len(q) - 1
  BY <1>0, <1>1, <1>2, <1>4
<1>6. ASSUME NEW j \in 1..Len(r)
      PROVE  r[j] = q[IF j < i THEN j ELSE j + 1]
  <2>1. CASE j < i
    <3>1. j \in 1..(i - 1)
      BY <1>0, <1>5, <2>1
    <3>. QED  BY <1>1, <1>4, <2>1, <3>1
  <2>2. CASE ~(j < i)
    <3>1. j - (i - 1) \in 1..(Len(q) - i) /\ i + (j - (i - 1)) = j + 1 /\ j > Len(a)
      BY <1>0, <1>1, <1>5, <2>2
    <3>. QED  BY <1>1, <1>2, <1>4, <2>2, <3>1
  <2>. QED  BY <2>1, <2>2
<1>. QED  BY <1>3, <1>4, <1>5, <1>6

LEMMA LetsGoIs ==
    ASSUME NEW c \in Conns, NEW p \in ProcOf(c), NEW n \in Nat
    PROVE  LET q == LetsGo(p, n)
           IN  /\ q \in ProcOf(c) /\ q.want = p.want /\ q.on = p.on /\ q.closing = p.closing
               /\ q.out = p.out /\ q.typing = p.typing
               /\ q.backlog = p.backlog \/ Shortened(p.backlog, q.backlog)
<1> DEFINE at == {i \in DOMAIN p.backlog : p.backlog[i] = About("keys", n)}
           i == CHOOSE i \in at : TRUE
           rest == p.received \ {n}
           b == IF at = {} THEN p.backlog ELSE RemoveAt(p.backlog, i)
           ks == IF p.keys = n THEN None ELSE p.keys
           q == [p EXCEPT !.received = rest, !.backlog = b, !.keys = ks]
<1>1. q = LetsGo(p, n)
  BY DEF LetsGo
<1>2. p.backlog \in Seq(WordTo(c)) /\ rest \in SUBSET Nat /\ ks \in Nat
  BY DEF ProcOf, None
<1>3. b \in Seq(WordTo(c)) /\ (b = p.backlog \/ Shortened(p.backlog, b))
  <2>1. CASE at = {}
    BY <1>2, <2>1
  <2>2. CASE at # {}
    <3>1. i \in at
      BY <2>2
    <3>2. i \in 1..Len(p.backlog) /\ p.backlog[i].m = "keys"
      BY <1>2, <3>1 DEF About, Msg
    <3>3. b = RemoveAt(p.backlog, i)
      BY <2>2
    <3> HIDE DEF i, b
    <3>. QED  BY <1>2, <3>2, <3>3, RemoveAtIs DEF Shortened
  <2>. QED  BY <2>1, <2>2
<1> HIDE DEF rest, b, ks
<1>4. /\ q \in ProcOf(c) /\ q.want = p.want /\ q.on = p.on /\ q.closing = p.closing
      /\ q.out = p.out /\ q.typing = p.typing /\ q.backlog = b
  BY <1>2, <1>3 DEF ProcOf
<1> HIDE DEF q
<1>. QED  BY <1>1, <1>3, <1>4

LEMMA RepliedIs ==
    ASSUME NEW c \in Conns, NEW p \in ProcOf(c), NEW x \in {"typed", "lost"}
    PROVE  LET q == Replied(p, x)
           IN  /\ q \in ProcOf(c) /\ q.want = p.want /\ q.on = p.on /\ q.closing = p.closing
               /\ q.backlog = p.backlog /\ Grows(p.out, q.out) /\ q.errand = p.errand
               /\ q.keys = p.keys /\ q.received = p.received
<1> DEFINE w == Bytes(x, p.typing)
           out == Append(p.out, w)
           q == [p EXCEPT !.out = out, !.typing = None, !.making = FALSE]
<1>1. q = Replied(p, x)
  BY DEF Replied
<1>2. w \in WordTo(c) /\ p.out \in Seq(WordTo(c)) /\ None \in Nat
  <2>1. p.typing \in Nat /\ x \in Texts
    BY DEF ProcOf, Texts, Answers
  <2>. QED  BY <2>1, BytesIs DEF ProcOf, None
<1> HIDE DEF w
<1>3. out \in Seq(WordTo(c)) /\ Grows(p.out, out)
  BY <1>2 DEF Grows
<1> HIDE DEF out
<1>4. /\ q \in ProcOf(c) /\ q.want = p.want /\ q.on = p.on /\ q.closing = p.closing
      /\ q.out = out /\ q.backlog = p.backlog /\ q.errand = p.errand
      /\ q.keys = p.keys /\ q.received = p.received
  BY <1>2, <1>3 DEF ProcOf
<1> HIDE DEF q
<1>. QED  BY <1>1, <1>3, <1>4

LEMMA UrgentIs ==
    ASSUME NEW c \in Conns, NEW p \in ProcOf(c), NEW word \in WordTo(c)
    PROVE  LET q == Urgent(p, word)
           IN  /\ q \in ProcOf(c) /\ q.want = p.want /\ q.on = p.on /\ q.closing = p.closing
               /\ Grows(p.out, q.out)
               /\ word.m \in {"drop", "typed"} =>
                    q.backlog = p.backlog \/ Shortened(p.backlog, q.backlog)
               /\ word.m \notin {"drop", "typed"} => q.backlog = Append(p.backlog, word)
<1> DEFINE q == Urgent(p, word)
<1>0. word.n \in Nat /\ p.backlog \in Seq(WordTo(c)) /\ Grows(p.out, p.out)
  BY DEF WordTo, Said, ProcOf, Grows
<1>1. CASE word.m = "drop" /\ p.typing = word.n
  <2> DEFINE a == LetsGo(p, word.n)
             b == [a EXCEPT !.errand = None]
  <2>1. q = Replied(b, "lost")
    BY <1>1 DEF Urgent
  <2>2. /\ a \in ProcOf(c) /\ a.want = p.want /\ a.on = p.on /\ a.closing = p.closing
        /\ a.out = p.out /\ (a.backlog = p.backlog \/ Shortened(p.backlog, a.backlog))
    BY <1>0, LetsGoIs
  <2> HIDE DEF a
  <2>3. /\ b \in ProcOf(c) /\ b.want = a.want /\ b.on = a.on /\ b.closing = a.closing
        /\ b.out = a.out /\ b.backlog = a.backlog
    BY <2>2 DEF ProcOf, None
  <2> HIDE DEF b, q
  <2>4. /\ q \in ProcOf(c) /\ q.want = b.want /\ q.on = b.on /\ q.closing = b.closing
        /\ q.backlog = b.backlog /\ Grows(b.out, q.out)
    BY <2>1, <2>3, RepliedIs
  <2>5. /\ q \in ProcOf(c) /\ q.want = p.want /\ q.on = p.on /\ q.closing = p.closing
        /\ Grows(p.out, q.out)
        /\ q.backlog = p.backlog \/ Shortened(p.backlog, q.backlog)
    BY <2>2, <2>3, <2>4
  <2>. QED  BY <1>1, <2>5 DEF q
<1>2. CASE word.m = "drop" /\ p.typing # word.n
  <2>1. q = LetsGo(p, word.n)
    BY <1>2 DEF Urgent
  <2> HIDE DEF q
  <2>2. /\ q \in ProcOf(c) /\ q.want = p.want /\ q.on = p.on /\ q.closing = p.closing
        /\ q.out = p.out /\ (q.backlog = p.backlog \/ Shortened(p.backlog, q.backlog))
    BY <1>0, <2>1, LetsGoIs
  <2>3. Grows(p.out, q.out)
    BY <1>0, <2>2
  <2>. QED  BY <1>2, <2>2, <2>3 DEF q
<1>3. CASE word.m = "typed" /\ p.typing = word.n
  <2>1. q = Replied(p, "typed")
    BY <1>3 DEF Urgent
  <2>. QED  BY <1>0, <1>3, <2>1, RepliedIs
<1>4. CASE word.m = "typed" /\ p.typing # word.n
  <2>1. q = p
    BY <1>4 DEF Urgent
  <2>. QED  BY <1>0, <1>4, <2>1
<1>5. CASE word.m \notin {"drop", "typed"}
  <2> DEFINE b == Append(p.backlog, word)
             l == [p EXCEPT !.backlog = b]
  <2>1. q = l
    BY <1>5 DEF Urgent
  <2>2. b \in Seq(WordTo(c))
    BY <1>0
  <2> HIDE DEF b, q
  <2>3. /\ l \in ProcOf(c) /\ l.want = p.want /\ l.on = p.on /\ l.closing = p.closing
        /\ l.out = p.out /\ l.backlog = b
    BY <2>2 DEF ProcOf
  <2>. QED  BY <1>0, <1>5, <2>1, <2>3 DEF b, q
<1>. QED  BY <1>1, <1>2, <1>3, <1>4, <1>5

\* A process tells its words apart one by one.
LEMMA ToldRuns ==
    ASSUME NEW c \in Conns, NEW p \in ProcOf(c), NEW words \in Seq(WordTo(c))
    PROVE  \E h : /\ h[0] = p /\ Told(p, words) = h[Len(words)]
                  /\ \A n \in 1..Len(words) : h[n] = Urgent(h[n - 1], words[n])
                  /\ \A n \in 0..Len(words) : h[n] \in ProcOf(c)
<1> DEFINE X == ProcOf(c)
           N == Len(words)
           After(g) == g = [n \in 0..N |-> IF n = 0 THEN p ELSE Urgent(g[n - 1], words[n])]
           step == [n \in 1..N |-> [q \in X |-> Urgent(q, words[n])]]
<1>1. N \in Nat /\ N \in 0..N /\ \A n \in 1..N : words[n] \in WordTo(c)
  OBVIOUS
<1>2. \A n \in 1..N : \A q \in X : Urgent(q, words[n]) \in X
  BY <1>1, UrgentIs
<1>3. p \in X
  OBVIOUS
<1> HIDE DEF X, N
<1>4. step \in [1..N -> [X -> X]]
  BY <1>2
<1>5. Iterated(X, N, p, step)
  <2> HIDE DEF step
  <2>. QED  BY <1>1, <1>3, <1>4, Iterates
<1>6. PICK g \in [0..N -> X] : \A n \in 0..N : g[n] = IF n = 0 THEN p ELSE step[n][g[n - 1]]
  BY <1>5 DEF Iterated
<1>7. After(g)
  <2>1. ASSUME NEW n \in 0..N, n # 0
        PROVE  step[n][g[n - 1]] = Urgent(g[n - 1], words[n])
    <3>1. n \in 1..N /\ n - 1 \in 0..N
      BY <1>1, <2>1
    <3>. QED  BY <1>6, <3>1
  <2>. QED  BY <1>6, <2>1
<1>8. PICK h : After(h) /\ Told(p, words) = h[N]
  BY <1>7 DEF Told, N
<1>9. h[0] = p /\ \A n \in 1..N : h[n] = Urgent(h[n - 1], words[n])
  BY <1>1, <1>8
<1> DEFINE S == {n \in 0..N : h[n] \in X}
<1>10. 0 \in S /\ \A n \in 1..N : n - 1 \in S => n \in S
  BY <1>1, <1>2, <1>3, <1>9
<1>11. \A n \in 0..N : n \in S
  <2> HIDE DEF S
  <2>. QED  BY <1>1, <1>10, Climbs
<1>. QED  BY <1>8, <1>9, <1>11 DEF X, N

\* What a process keeps of what it is to expect.
Heeds(c, k, conn, b) ==
    Once(b) /\ \A i \in Expecting(b) : Due(c, k, conn, b[i].x)

LEMMA HeedsShortened ==
    ASSUME NEW c, NEW k, NEW conn, NEW S, NEW b \in Seq(S), NEW r \in Seq(S),
           Shortened(b, r), Heeds(c, k, conn, b)
    PROVE  Heeds(c, k, conn, r) /\ (Expecting(b) = {} => Expecting(r) = {})
<1>1. PICK i \in 1..Len(b) :
        /\ b[i].m = "keys" /\ Len(r) = Len(b) - 1
        /\ \A j \in 1..Len(r) : r[j] = b[IF j < i THEN j ELSE j + 1]
  BY DEF Shortened
<1> DEFINE at(j) == IF j < i THEN j ELSE j + 1
<1>2. /\ Len(b) \in Nat /\ DOMAIN b = 1..Len(b) /\ DOMAIN r = 1..Len(r) /\ i \in Nat
      /\ Len(r) = Len(b) - 1
  BY <1>1
<1>3. \A j \in 1..Len(r) : at(j) \in 1..Len(b)
  BY <1>2
<1>4. \A j, l \in 1..Len(r) : at(j) = at(l) => j = l
  BY <1>2
<1>5. \A j \in 1..Len(r) : r[j] = b[at(j)]
  BY <1>1
<1> HIDE DEF at
<1>6. \A j \in Expecting(r) : j \in 1..Len(r) /\ at(j) \in Expecting(b) /\ r[j] = b[at(j)]
  BY <1>2, <1>3, <1>5 DEF Expecting
<1>7. Once(r)
  BY <1>4, <1>6 DEF Once, Heeds
<1>. QED  BY <1>6, <1>7 DEF Heeds

LEMMA HeedsMore ==
    ASSUME NEW c, NEW k, NEW conn, NEW b \in Seq(WordTo(c)), NEW word \in WordTo(c),
           Heeds(c, k, conn, b),
           word.m = "expect" => Expecting(b) = {} /\ Due(c, k, conn, word.x)
    PROVE  /\ Heeds(c, k, conn, Append(b, word))
           /\ word.m # "expect" /\ Expecting(b) = {} => Expecting(Append(b, word)) = {}
<1> DEFINE r == Append(b, word)
<1>1. /\ Len(b) \in Nat /\ DOMAIN b = 1..Len(b) /\ DOMAIN r = 1..(Len(b) + 1)
      /\ r[Len(b) + 1] = word /\ \A j \in 1..Len(b) : r[j] = b[j]
  OBVIOUS
<1> HIDE DEF r
<1>2. CASE word.m = "expect"
  <2>1. Expecting(r) \subseteq {Len(b) + 1}
    BY <1>1, <1>2 DEF Expecting
  <2>. QED  BY <1>1, <1>2, <2>1 DEF Heeds, Once, r
<1>3. CASE word.m # "expect"
  <2>1. Expecting(r) = Expecting(b) /\ \A i \in Expecting(b) : r[i] = b[i]
    BY <1>1, <1>3 DEF Expecting
  <2>. QED  BY <1>3, <2>1 DEF Heeds, Once, r
<1>. QED  BY <1>2, <1>3

LEMMA ToldGood ==
    ASSUME NEW c \in Conns, NEW k, NEW p \in ProcOf(c), NEW conn \in ConnOf(c),
           Words(c, k, p, conn), Wanted(c, k, p, conn),
           NEW l, l.stage = conn.stage, l.down = <<>>
    PROVE  LET q == Told(p, conn.down)
           IN  q \in ProcOf(c) /\ Words(c, k, q, l) /\ Wanted(c, k, q, l)
<1> DEFINE words == conn.down
           q == Told(p, words)
<1>0. words \in Seq(WordTo(c)) /\ p.backlog \in Seq(WordTo(c)) /\ Len(words) \in Nat
      /\ DOMAIN words = 1..Len(words)
  BY DEF ConnOf, ProcOf
<1>1. PICK h : /\ h[0] = p /\ q = h[Len(words)]
               /\ \A n \in 1..Len(words) : h[n] = Urgent(h[n - 1], words[n])
               /\ \A n \in 0..Len(words) : h[n] \in ProcOf(c)
  BY <1>0, ToldRuns
<1> HIDE DEF q
<1> DEFINE Fine(x, n) ==
            /\ x.want = p.want /\ Heeds(c, k, conn, x.backlog)
            /\ Expecting(x.backlog) # {} => \A j \in Expecting(words) : j <= n
            /\ Expecting(p.backlog) = {} /\ Expecting(words) = {} => Expecting(x.backlog) = {}
           S == {n \in 0..Len(words) : Fine(h[n], n)}
<1>2. 0 \in S
  <2>1. Heeds(c, k, conn, p.backlog)
    BY DEF Words, Heeds
  <2>2. Expecting(p.backlog) # {} => Expecting(words) = {}
    BY DEF Words
  <2>. QED  BY <1>0, <1>1, <2>1, <2>2
<1>3. ASSUME NEW n \in 1..Len(words), n - 1 \in S
      PROVE  n \in S
  <2> DEFINE x == h[n - 1]
             y == h[n]
             word == words[n]
  <2>1. Fine(x, n - 1) /\ y = Urgent(x, word) /\ x \in ProcOf(c) /\ n - 1 \in 0..Len(words)
    BY <1>0, <1>1, <1>3
  <2>2. word \in WordTo(c) /\ n \in 0..Len(words) /\ n \in DOMAIN words
    BY <1>0
  <2> HIDE DEF x, y, word
  <2>3. /\ y \in ProcOf(c) /\ y.want = x.want
        /\ word.m \in {"drop", "typed"} =>
            y.backlog = x.backlog \/ Shortened(x.backlog, y.backlog)
        /\ word.m \notin {"drop", "typed"} => y.backlog = Append(x.backlog, word)
    BY <2>1, <2>2, UrgentIs
  <2>4. x.backlog \in Seq(WordTo(c)) /\ y.backlog \in Seq(WordTo(c))
    BY <2>1, <2>3 DEF ProcOf
  <2>5. CASE word.m \in {"drop", "typed"}
    <3>1. Heeds(c, k, conn, y.backlog) /\ (Expecting(x.backlog) = {} => Expecting(y.backlog) = {})
      BY <2>1, <2>3, <2>4, <2>5, HeedsShortened
    <3>2. \A j \in Expecting(words) : j \in Int
      BY <1>0 DEF Expecting
    <3>. QED  BY <1>0, <2>1, <2>2, <2>3, <3>1, <3>2 DEF y
  <2>6. CASE word.m \notin {"drop", "typed", "expect"}
    <3>0. word.m # "expect" /\ y.backlog = Append(x.backlog, word) /\ Heeds(c, k, conn, x.backlog)
      BY <2>1, <2>3, <2>6
    <3>4. /\ Heeds(c, k, conn, Append(x.backlog, word))
          /\ Expecting(x.backlog) = {} => Expecting(Append(x.backlog, word)) = {}
      BY <2>2, <2>4, <3>0, HeedsMore
    <3>1. Heeds(c, k, conn, y.backlog) /\ (Expecting(x.backlog) = {} => Expecting(y.backlog) = {})
      BY <3>0, <3>4
    <3>2. \A j \in Expecting(words) : j \in Int
      BY <1>0 DEF Expecting
    <3>. QED  BY <1>0, <2>1, <2>2, <2>3, <3>1, <3>2 DEF y
  <2>7. CASE word.m = "expect"
    <3>1. n \in Expecting(words)
      BY <2>2, <2>7 DEF Expecting, word
    <3>2. Expecting(x.backlog) = {}
      BY <1>0, <2>1, <3>1
    <3>3. Due(c, k, conn, word.x)
      BY <3>1 DEF Words, word
    <3>4. Heeds(c, k, conn, y.backlog)
      BY <2>1, <2>2, <2>3, <2>4, <2>7, <3>2, <3>3, HeedsMore
    <3>5. \A j \in Expecting(words) : j = n
      BY <3>1 DEF Words, Once
    <3>. QED  BY <1>0, <2>1, <2>2, <2>3, <3>1, <3>4, <3>5 DEF y
  <2>. QED  BY <2>5, <2>6, <2>7
<1>4. \A n \in 0..Len(words) : n \in S
  <2> HIDE DEF S
  <2>. QED  BY <1>0, <1>2, <1>3, Climbs
<1>5. Fine(q, Len(words)) /\ q \in ProcOf(c)
  <2>1. Len(words) \in S /\ Len(words) \in 0..Len(words)
    <3> HIDE DEF S
    <3>. QED  BY <1>0, <1>4
  <2>2. h[Len(words)] = q /\ h[Len(words)] \in ProcOf(c)
    BY <1>1, <2>1
  <2>3. Fine(h[Len(words)], Len(words))
    BY <2>1
  <2>. QED  BY <2>2, <2>3
<1>6. Expecting(l.down) = {}
  BY DEF Expecting
<1>7. \A x : Due(c, k, conn, x) <=> Due(c, k, l, x)
  BY DEF Due
<1>8. Words(c, k, q, l)
  BY <1>5, <1>6, <1>7 DEF Words, Heeds, Once
<1>9. Wanted(c, k, q, l)
  BY <1>5, <1>6 DEF Wanted
<1>. QED  BY <1>5, <1>8, <1>9 DEF q

\* What it does of a word, once nothing holds it back.
LEMMA UnheldIs ==
    ASSUME NEW c \in Conns, NEW p \in ProcOf(c)
    PROVE  LET u == Unheld(p)
           IN  /\ u \in ProcOf(c) /\ u.want = p.want /\ u.on = p.on /\ u.closing = p.closing
               /\ u.backlog = p.backlog /\ Grows(p.out, u.out)
               /\ u.keys # None => u.keys \notin u.received
               /\ p.keys # None /\ p.keys \notin p.received => u = p
<1> DEFINE u == Unheld(p)
<1>1. p.out \in Seq(WordTo(c)) /\ p.keys \in Nat /\ p.received \in SUBSET Nat /\ Grows(p.out, p.out)
  BY DEF ProcOf, Grows
<1>2. CASE p.keys # None /\ p.keys \in p.received
  <2> DEFINE w == Bytes("keys", p.keys)
             out == Append(p.out, w)
             rest == p.received \ {p.keys}
             q == [p EXCEPT !.out = out, !.received = rest, !.keys = None]
  <2>1. u = q
    BY <1>2 DEF Unheld
  <2>2. w \in WordTo(c) /\ None \in Nat /\ rest \in SUBSET Nat
    <3>1. "keys" \in Texts
      BY DEF Texts
    <3>. QED  BY <1>1, <3>1, BytesIs DEF None
  <2> HIDE DEF w
  <2>3. out \in Seq(WordTo(c)) /\ Grows(p.out, out)
    BY <1>1, <2>2 DEF Grows
  <2> HIDE DEF out, rest, u
  <2>4. /\ q \in ProcOf(c) /\ q.want = p.want /\ q.on = p.on /\ q.closing = p.closing
        /\ q.out = out /\ q.backlog = p.backlog /\ q.keys = None
    BY <2>2, <2>3 DEF ProcOf
  <2> HIDE DEF q
  <2>. QED  BY <1>2, <2>1, <2>3, <2>4 DEF u
<1>3. CASE ~(p.keys # None /\ p.keys \in p.received)
  <2>1. u = p
    BY <1>3 DEF Unheld
  <2> HIDE DEF u
  <2>. QED  BY <1>1, <1>3, <2>1 DEF u
<1>. QED  BY <1>2, <1>3

LEMMA DoesIs ==
    ASSUME NEW c \in Conns, NEW p \in ProcOf(c), NEW word \in WordTo(c),
           NEW reaches, reaches \subseteq Attachers
    PROVE  LET q == Does(p, word, reaches)
           IN  /\ q \in ProcOf(c) /\ q.on = p.on /\ q.backlog = p.backlog
               /\ Grows(p.out, q.out)
               /\ IsExit(word) => Len(q.out) = Len(p.out) + 1 /\ q.out[Len(q.out)] = word
               /\ word.m = "expect" => q.want = word.x
               /\ word.m = "close" => q.want = "nothing"
               /\ word.m \notin {"expect", "close"} => q.want = p.want
               /\ word.m # "close" => q.closing = p.closing
<1> DEFINE q == Does(p, word, reaches)
<1>1. p.out \in Seq(WordTo(c)) /\ Grows(p.out, p.out) /\ word.n \in Nat /\ ~(p.reached /\ p.to \notin Attachers)
  BY DEF ProcOf, Grows, WordTo, Said
<1>2. CASE word.m = "bytes"
  <2> DEFINE out == Append(p.out, word)
             r == [p EXCEPT !.out = out, !.unflushed = TRUE]
  <2>1. q = r
    BY <1>2 DEF Does
  <2>2. /\ out \in Seq(WordTo(c)) /\ Grows(p.out, out)
        /\ Len(out) = Len(p.out) + 1 /\ out[Len(out)] = word
    BY <1>1 DEF Grows
  <2> HIDE DEF out, q
  <2>3. /\ r \in ProcOf(c) /\ r.want = p.want /\ r.on = p.on /\ r.closing = p.closing
        /\ r.out = out /\ r.backlog = p.backlog
    BY <2>2 DEF ProcOf
  <2> HIDE DEF r
  <2>. QED  BY <1>2, <2>1, <2>2, <2>3 DEF q
<1>3. CASE word.m = "expect"
  <2> DEFINE r == [p EXCEPT !.want = word.x]
  <2>1. q = r
    BY <1>3 DEF Does
  <2>2. word.x \in WantsOf(c)
    BY <1>3 DEF WordTo, Expected, WantsOf
  <2> HIDE DEF q
  <2>3. /\ r \in ProcOf(c) /\ r.want = word.x /\ r.on = p.on /\ r.closing = p.closing
        /\ r.out = p.out /\ r.backlog = p.backlog
    BY <2>2 DEF ProcOf
  <2> HIDE DEF r
  <2>. QED  BY <1>1, <1>3, <2>1, <2>3 DEF q, IsExit
<1>4. CASE word.m = "close"
  <2> DEFINE r == [p EXCEPT !.closing = TRUE, !.want = "nothing"]
  <2>1. q = r
    BY <1>4 DEF Does
  <2> HIDE DEF q
  <2>3. /\ r \in ProcOf(c) /\ r.want = "nothing" /\ r.on = p.on
        /\ r.out = p.out /\ r.backlog = p.backlog
    BY DEF ProcOf, WantsOf
  <2> HIDE DEF r
  <2>. QED  BY <1>1, <1>4, <2>1, <2>3 DEF q, IsExit
<1>5. CASE word.m = "make"
  <2> DEFINE reached == word.to \in reaches
             r == [p EXCEPT !.typing = word.n, !.errand = word.n, !.to = word.to,
                      !.reached = reached, !.making = TRUE]
  <2>1. q = r
    BY <1>5 DEF Does
  <2>2. word.to \in Attachers /\ reached \in BOOLEAN
    BY <1>5 DEF WordTo
  <2> HIDE DEF q, reached
  <2>3. /\ r \in ProcOf(c) /\ r.want = p.want /\ r.on = p.on /\ r.closing = p.closing
        /\ r.out = p.out /\ r.backlog = p.backlog
    BY <1>1, <2>2 DEF ProcOf
  <2> HIDE DEF r
  <2>. QED  BY <1>1, <1>5, <2>1, <2>3 DEF q, IsExit
<1>6. CASE word.m = "answered"
  <2> DEFINE r == [p EXCEPT !.answered = TRUE]
  <2>1. q = r
    BY <1>6 DEF Does
  <2> HIDE DEF q
  <2>3. /\ r \in ProcOf(c) /\ r.want = p.want /\ r.on = p.on /\ r.closing = p.closing
        /\ r.out = p.out /\ r.backlog = p.backlog
    BY DEF ProcOf
  <2> HIDE DEF r
  <2>. QED  BY <1>1, <1>6, <2>1, <2>3 DEF q, IsExit
<1>7. CASE word.m = "listen"
  <2> DEFINE r == [p EXCEPT !.listening = TRUE]
  <2>1. q = r
    BY <1>7 DEF Does
  <2> HIDE DEF q
  <2>3. /\ r \in ProcOf(c) /\ r.want = p.want /\ r.on = p.on /\ r.closing = p.closing
        /\ r.out = p.out /\ r.backlog = p.backlog
    BY DEF ProcOf
  <2> HIDE DEF r
  <2>. QED  BY <1>1, <1>7, <2>1, <2>3 DEF q, IsExit
<1>8. CASE word.m = "keys"
  <2> DEFINE r == [p EXCEPT !.keys = word.n]
  <2>1. q = r
    BY <1>8 DEF Does
  <2> HIDE DEF q
  <2>3. /\ r \in ProcOf(c) /\ r.want = p.want /\ r.on = p.on /\ r.closing = p.closing
        /\ r.out = p.out /\ r.backlog = p.backlog
    BY <1>1 DEF ProcOf
  <2> HIDE DEF r
  <2>. QED  BY <1>1, <1>8, <2>1, <2>3 DEF q, IsExit
<1>9. CASE word.m \notin {"bytes", "expect", "close", "make", "answered", "listen", "keys"}
  <2>1. q = p
    BY <1>9 DEF Does
  <2> HIDE DEF q
  <2>. QED  BY <1>1, <1>9, <2>1 DEF q, IsExit
<1>. QED  BY <1>2, <1>3, <1>4, <1>5, <1>6, <1>7, <1>8, <1>9

\* Its word is kept or done.
IsKept(p, word, q) ==
    /\ q.backlog = Append(p.backlog, word) /\ q.want = p.want /\ q.closing = p.closing
    /\ q.keys # None /\ q.keys \notin q.received
IsDone(p, word, q) ==
    /\ q.backlog = p.backlog /\ ~(p.keys # None /\ p.keys \notin p.received)
    /\ word.m = "expect" => q.want = word.x
    /\ word.m = "close" => q.want = "nothing"
    /\ word.m \notin {"expect", "close"} => q.want = p.want
    /\ word.m # "close" => q.closing = p.closing
    /\ IsExit(word) => \E i \in 1..Len(q.out) : IsExit(q.out[i])

LEMMA EachIs ==
    ASSUME NEW c \in Conns, NEW p \in ProcOf(c), NEW word \in WordTo(c),
           NEW reaches, reaches \subseteq Attachers
    PROVE  LET q == Each(p, word, reaches)
           IN  /\ q \in ProcOf(c) /\ q.on = p.on /\ Grows(p.out, q.out)
               /\ IsKept(p, word, q) \/ IsDone(p, word, q)
<1> DEFINE u == Unheld(p)
           q == Each(p, word, reaches)
<1>1. /\ u \in ProcOf(c) /\ u.want = p.want /\ u.on = p.on /\ u.closing = p.closing
      /\ u.backlog = p.backlog /\ Grows(p.out, u.out)
      /\ u.keys # None => u.keys \notin u.received
      /\ p.keys # None /\ p.keys \notin p.received => u = p
  BY UnheldIs
<1>2. q = IF u.keys # None THEN [u EXCEPT !.backlog = Append(u.backlog, word)]
          ELSE Does(u, word, reaches)
  BY DEF Each
<1> HIDE DEF u, q
<1>3. CASE u.keys # None
  <2> DEFINE b == Append(u.backlog, word)
             r == [u EXCEPT !.backlog = b]
  <2>1. q = r
    BY <1>2, <1>3
  <2>2. b \in Seq(WordTo(c))
    BY <1>1 DEF ProcOf
  <2> HIDE DEF b
  <2>3. /\ r \in ProcOf(c) /\ r.want = u.want /\ r.on = u.on /\ r.closing = u.closing
        /\ r.out = u.out /\ r.backlog = b /\ r.keys = u.keys /\ r.received = u.received
    BY <1>1, <2>2 DEF ProcOf
  <2> HIDE DEF r
  <2>4. q \in ProcOf(c) /\ q.on = p.on /\ Grows(p.out, q.out) /\ IsKept(p, word, q)
    BY <1>1, <1>3, <2>1, <2>3 DEF IsKept, b
  <2>. QED  BY <2>4 DEF q
<1>4. CASE u.keys = None
  <2>1. q = Does(u, word, reaches)
    BY <1>2, <1>4
  <2>2. /\ q \in ProcOf(c) /\ q.on = u.on /\ q.backlog = u.backlog
        /\ Grows(u.out, q.out)
        /\ IsExit(word) => Len(q.out) = Len(u.out) + 1 /\ q.out[Len(q.out)] = word
        /\ word.m = "expect" => q.want = word.x
        /\ word.m = "close" => q.want = "nothing"
        /\ word.m \notin {"expect", "close"} => q.want = u.want
        /\ word.m # "close" => q.closing = u.closing
    BY <1>1, <2>1, DoesIs
  <2>3. Len(p.out) \in Nat /\ Len(u.out) \in Nat /\ Len(q.out) \in Nat
    BY <1>1, <2>2 DEF ProcOf
  <2>4. Grows(p.out, q.out)
    BY <1>1, <2>2, <2>3 DEF Grows
  <2>5. IsExit(word) => \E i \in 1..Len(q.out) : IsExit(q.out[i])
    BY <2>2, <2>3
  <2>6. IsDone(p, word, q)
    BY <1>1, <1>4, <2>2, <2>5 DEF IsDone
  <2>. QED  BY <1>1, <2>2, <2>4, <2>6 DEF q
<1>. QED  BY <1>3, <1>4

\* A process does its words, one by one, till one is held back.
LEMMA BacklogRuns ==
    ASSUME NEW c \in Conns, NEW p \in ProcOf(c), NEW reaches, reaches \subseteq Attachers
    PROVE  \E h : /\ Backlog(p, reaches) = Unheld(h[Len(p.backlog)])
                  /\ h[0] \in ProcOf(c) /\ h[0].backlog = <<>> /\ h[0].want = p.want
                  /\ h[0].on = p.on /\ h[0].closing = p.closing /\ h[0].out = p.out
                  /\ \A n \in 1..Len(p.backlog) : h[n] = Each(h[n - 1], p.backlog[n], reaches)
                  /\ \A n \in 0..Len(p.backlog) : h[n] \in ProcOf(c)
<1> DEFINE X == ProcOf(c)
           N == Len(p.backlog)
           words == p.backlog
           base == [p EXCEPT !.backlog = <<>>]
           After(g) == g = [n \in 0..N |-> IF n = 0 THEN base ELSE Each(g[n - 1], words[n], reaches)]
           step == [n \in 1..N |-> [q \in X |-> Each(q, words[n], reaches)]]
<1>0. words \in Seq(WordTo(c))
  BY DEF ProcOf
<1>1. N \in Nat /\ N \in 0..N /\ \A n \in 1..N : words[n] \in WordTo(c)
  BY <1>0
<1>2. \A n \in 1..N : \A q \in X : Each(q, words[n], reaches) \in X
  BY <1>1, EachIs
<1>3. /\ base \in X /\ base.backlog = <<>> /\ base.want = p.want /\ base.on = p.on
      /\ base.closing = p.closing /\ base.out = p.out
  <2>1. <<>> \in Seq(WordTo(c))
    OBVIOUS
  <2> HIDE DEF N, words
  <2>. QED  BY <2>1 DEF ProcOf
<1> HIDE DEF X
<1>4. step \in [1..N -> [X -> X]]
  BY <1>2
<1>5. Iterated(X, N, base, step)
  <2> HIDE DEF step, base, N
  <2>. QED  BY <1>1, <1>3, <1>4, Iterates
<1>6. PICK g \in [0..N -> X] : \A n \in 0..N : g[n] = IF n = 0 THEN base ELSE step[n][g[n - 1]]
  BY <1>5 DEF Iterated
<1>7. After(g)
  <2>1. ASSUME NEW n \in 0..N, n # 0
        PROVE  step[n][g[n - 1]] = Each(g[n - 1], words[n], reaches)
    <3>1. n \in 1..N /\ n - 1 \in 0..N
      BY <1>1, <2>1
    <3>. QED  BY <1>6, <3>1
  <2>. QED  BY <1>6, <2>1
<1>8. PICK h : After(h) /\ Backlog(p, reaches) = Unheld(h[N])
  BY <1>7 DEF Backlog
<1>9. h[0] = base /\ \A n \in 1..N : h[n] = Each(h[n - 1], words[n], reaches)
  <2> HIDE DEF base, words, N
  <2>. QED  BY <1>1, <1>8
<1> HIDE DEF base
<1> DEFINE S == {n \in 0..N : h[n] \in X}
<1>10. 0 \in S /\ \A n \in 1..N : n - 1 \in S => n \in S
  <2> HIDE DEF N, words
  <2>. QED  BY <1>1, <1>2, <1>3, <1>9
<1>11. \A n \in 0..N : n \in S
  <2> HIDE DEF S, N
  <2>. QED  BY <1>1, <1>10, Climbs
<1>12. \A n \in 0..N : h[n] \in X
  BY <1>11
<1>. QED  BY <1>3, <1>8, <1>9, <1>12 DEF X

LEMMA BacklogGood ==
    ASSUME NEW c \in Conns, NEW k, NEW p \in ProcOf(c), NEW conn \in ConnOf(c),
           NEW reaches, reaches \subseteq Attachers,
           Words(c, k, p, conn), Wanted(c, k, p, conn)
    PROVE  LET q == Backlog(p, reaches)
           IN  q \in ProcOf(c) /\ Words(c, k, q, conn) /\ Wanted(c, k, q, conn)
<1> DEFINE words == p.backlog
           N == Len(words)
           q == Backlog(p, reaches)
<1>0. words \in Seq(WordTo(c)) /\ N \in Nat /\ DOMAIN words = 1..N
  BY DEF ProcOf
<1>1. PICK h : /\ q = Unheld(h[N])
               /\ h[0] \in ProcOf(c) /\ h[0].backlog = <<>> /\ h[0].want = p.want
               /\ \A n \in 1..N : h[n] = Each(h[n - 1], words[n], reaches)
               /\ \A n \in 0..N : h[n] \in ProcOf(c)
  BY BacklogRuns
<1> HIDE DEF q
<1> DEFINE Fine(x, n) ==
            /\ Heeds(c, k, conn, x.backlog)
            /\ Expecting(x.backlog) # {} => \A j \in Expecting(words) : j <= n
            /\ Expecting(words) = {} => Expecting(x.backlog) = {}
            /\ Wanted(c, k, [want |-> x.want, backlog |-> x.backlog], conn)
            /\ x.want = "attaching" => \A j \in Expecting(words) : j <= n
           S == {n \in 0..N : Fine(h[n], n)}
<1>2. 0 \in S
  <2>1. Expecting(h[0].backlog) = {} /\ Heeds(c, k, conn, h[0].backlog)
    BY <1>1 DEF Heeds, Expecting, Once
  <2>2. p.want = "attaching" => Expecting(words) = {}
    BY DEF Wanted
  <2>3. Wanted(c, k, [want |-> p.want, backlog |-> h[0].backlog], conn)
    BY <2>1 DEF Wanted
  <2> HIDE DEF words
  <2>. QED  BY <1>0, <1>1, <2>1, <2>2, <2>3
<1>3. ASSUME NEW n \in 1..N, n - 1 \in S
      PROVE  n \in S
  <2> DEFINE x == h[n - 1]
             y == h[n]
             word == words[n]
  <2>1. Fine(x, n - 1) /\ y = Each(x, word, reaches) /\ x \in ProcOf(c) /\ n - 1 \in 0..N
    BY <1>0, <1>1, <1>3
  <2>2. word \in WordTo(c) /\ n \in 0..N /\ n \in DOMAIN words
    BY <1>0
  <2>2a. word.m = "expect" =>
            /\ n \in Expecting(words) /\ Due(c, k, conn, word.x) /\ Expecting(x.backlog) = {}
            /\ \A j \in Expecting(words) : j = n
            /\ Expecting(conn.down) = {}
            /\ x.want # "attaching"
    <3> SUFFICES ASSUME word.m = "expect"
                 PROVE  /\ n \in Expecting(words) /\ Due(c, k, conn, word.x) /\ Expecting(x.backlog) = {}
                        /\ \A j \in Expecting(words) : j = n
                        /\ Expecting(conn.down) = {}
                        /\ x.want # "attaching"
      OBVIOUS
    <3>1. n \in Expecting(words)
      BY <2>2 DEF Expecting
    <3>2. Due(c, k, conn, word.x) /\ Expecting(conn.down) = {} /\ \A j \in Expecting(words) : j = n
      BY <3>1 DEF Words, Once
    <3>3. ~(n <= n - 1)
      BY <1>0
    <3>. QED  BY <2>1, <3>1, <3>2, <3>3
  <2>2b. (\A j \in Expecting(words) : j <= n - 1) => \A j \in Expecting(words) : j <= n
    <3>1. \A j \in Expecting(words) : j \in Int
      BY <1>0 DEF Expecting
    <3>. QED  BY <3>1
  <2> HIDE DEF x, y, word, words, N
  <2>3. y \in ProcOf(c) /\ (IsKept(x, word, y) \/ IsDone(x, word, y))
    BY <2>1, <2>2, EachIs
  <2>4. x.backlog \in Seq(WordTo(c)) /\ y.backlog \in Seq(WordTo(c))
    BY <2>1, <2>3 DEF ProcOf
  <2>5. CASE IsKept(x, word, y)
    <3>0. y.backlog = Append(x.backlog, word) /\ y.want = x.want
      BY <2>5 DEF IsKept
    <3>1. /\ Heeds(c, k, conn, Append(x.backlog, word))
          /\ word.m # "expect" /\ Expecting(x.backlog) = {} => Expecting(Append(x.backlog, word)) = {}
      BY <2>1, <2>2, <2>2a, <2>4, HeedsMore
    <3>2. CASE word.m = "expect"
      <4>1. Wanted(c, k, [want |-> y.want, backlog |-> y.backlog], conn)
        BY <2>1, <2>2a, <3>0, <3>2 DEF Wanted
      <4>2. \A j \in Expecting(words) : j <= n
        BY <1>0, <2>2a, <3>2
      <4>. QED  BY <2>2, <2>2a, <3>0, <3>1, <3>2, <4>1, <4>2 DEF y
    <3>3. CASE word.m # "expect"
      <4>1. Expecting(x.backlog) = {} => Expecting(y.backlog) = {}
        BY <3>0, <3>1, <3>3
      <4>2. Wanted(c, k, [want |-> y.want, backlog |-> y.backlog], conn)
        BY <2>1, <3>0, <4>1 DEF Wanted
      <4>. QED  BY <2>1, <2>2, <2>2b, <3>0, <3>1, <4>1, <4>2 DEF y
    <3>. QED  BY <3>2, <3>3
  <2>6. CASE IsDone(x, word, y)
    <3>0. y.backlog = x.backlog
      BY <2>6 DEF IsDone
    <3>1. CASE word.m = "expect"
      <4>0. y.want = word.x /\ word.x \in Expected(c)
        BY <2>2, <2>6, <3>1 DEF IsDone, WordTo
      <4>1. Wanted(c, k, [want |-> y.want, backlog |-> y.backlog], conn)
        BY <2>2a, <3>0, <3>1, <4>0 DEF Wanted, Due, Expected
      <4>2. \A j \in Expecting(words) : j <= n
        BY <1>0, <2>2a, <3>1
      <4>. QED  BY <2>1, <2>2, <2>2a, <3>0, <3>1, <4>1, <4>2 DEF y
    <3>2. CASE word.m = "close"
      <4>0. y.want = "nothing"
        BY <2>6, <3>2 DEF IsDone
      <4>1. Wanted(c, k, [want |-> y.want, backlog |-> y.backlog], conn)
        BY <2>1, <3>0, <4>0 DEF Wanted
      <4>. QED  BY <2>1, <2>2, <2>2b, <3>0, <4>0, <4>1 DEF y
    <3>3. CASE word.m \notin {"expect", "close"}
      <4>0. y.want = x.want
        BY <2>6, <3>3 DEF IsDone
      <4>. QED  BY <2>1, <2>2, <2>2b, <3>0, <4>0 DEF y
    <3>. QED  BY <3>1, <3>2, <3>3
  <2>. QED  BY <2>3, <2>5, <2>6
<1>4. \A n \in 0..N : n \in S
  <2> HIDE DEF S, N
  <2>. QED  BY <1>0, <1>2, <1>3, Climbs
<1>5. Fine(h[N], N) /\ h[N] \in ProcOf(c)
  <2>1. N \in S /\ N \in 0..N
    <3> HIDE DEF S, N
    <3>. QED  BY <1>0, <1>4
  <2>. QED  BY <1>1, <2>1
<1>6. q \in ProcOf(c) /\ q.want = h[N].want /\ q.backlog = h[N].backlog
  BY <1>1, <1>5, UnheldIs
<1>7. Expecting(conn.down) # {} => Expecting(words) = {}
  BY DEF Words
<1>8. Words(c, k, q, conn)
  <2>1. Once(conn.down) /\ \A i \in Expecting(conn.down) : Due(c, k, conn, conn.down[i].x)
    BY DEF Words
  <2>. QED  BY <1>5, <1>6, <1>7, <2>1 DEF Words, Heeds
<1>9. Wanted(c, k, q, conn)
  BY <1>5, <1>6 DEF Wanted
<1>. QED  BY <1>6, <1>8, <1>9 DEF q

-----------------------------------------------------------------------------
(* The server's steps keep the invariant.                                  *)

LEMMA ServerKeeps ==
    ASSUME IInv, UNCHANGED <<client, proc, coming>>, SrvType(srv'), Fenced(srv'),
           up' = [c \in Conns |-> up'[c]],
           \A c \in Conns : /\ up'[c] \in UpOf(c)
                            /\ Good(c, client[c], proc[c], up'[c], srv'.conn[c])
    PROVE  IInv'
<1>1. Types'
  BY DEF IInv, Types, SrvType
<1>2. ASSUME NEW c \in Conns
      PROVE  Good(c, client'[c], proc'[c], up'[c], srv'.conn[c])
  OBVIOUS
<1>3. Fenced(srv)'
  BY DEF Fenced
<1>. QED  BY <1>1, <1>2, <1>3 DEF IInv, Good

LEMMA TypesAre ==
    ASSUME Types, NEW c \in Conns
    PROVE  /\ client[c] \in ClientOf(c) /\ proc[c] \in ProcOf(c) /\ up[c] \in UpOf(c)
           /\ srv.conn[c] \in ConnOf(c) /\ up = [d \in Conns |-> up[d]] /\ SrvType(srv)
           /\ coming[c] \in SUBSET Nat
  BY DEF Types, SrvType

LEMMA OnwardKeeps ==
    ASSUME IInv, UNCHANGED <<client, proc, up, coming>>, SrvType(srv'), Fenced(srv'),
           \A c \in Conns : Onward(c, srv.conn[c], srv'.conn[c])
    PROVE  IInv'
<1>1. \A c \in Conns : /\ up'[c] \in UpOf(c)
                       /\ Good(c, client[c], proc[c], up'[c], srv'.conn[c])
  <2> SUFFICES ASSUME NEW c \in Conns
               PROVE  /\ up'[c] \in UpOf(c)
                      /\ Good(c, client[c], proc[c], up'[c], srv'.conn[c])
    OBVIOUS
  <2>1. /\ client[c] \in ClientOf(c) /\ up[c] \in UpOf(c) /\ srv.conn[c] \in ConnOf(c)
        /\ Good(c, client[c], proc[c], up[c], srv.conn[c])
    BY TypesAre DEF IInv, Good
  <2>. QED  BY <2>1, GoodOnward
<1>2. up' = [c \in Conns |-> up'[c]]
  BY DEF IInv, Types
<1>. QED  BY <1>1, <1>2, ServerKeeps

\* What waits for comes, and a pane that takes no more takes it again.
LEMMA KinKeeps ==
    ASSUME IInv, NEW c \in Conns, Happens(c) \/ Stick(c) \/ GoOn(c)
    PROVE  /\ IInv' /\ UNCHANGED <<client, proc, up, coming>>
           /\ SrvType(srv') /\ srv'.phase = srv.phase
           /\ \A d \in Conns : Fares(d, srv.conn[d], srv'.conn[d])
<1> DEFINE k == srv.conn[c]
<1>1. SrvType(srv) /\ k \in ConnOf(c) /\ UNCHANGED <<client, proc, up, coming>>
  BY TypesAre DEF IInv, Happens, Stick, GoOn
<1>2. PICK l \in ConnOf(c) : srv' = Put(srv, c, l) /\ Fares(c, k, l)
  <2>1. CASE Happens(c)
    <3> DEFINE l == [k EXCEPT !.due = TRUE]
    <3>1. srv' = Put(srv, c, l)
      BY <2>1 DEF Happens, Put
    <3> HIDE DEF k
    <3>2. /\ l \in ConnOf(c) /\ l.stage = k.stage /\ l.deco = k.deco
          /\ l.processed = k.processed /\ l.gone = k.gone /\ l.down = k.down
      BY <1>1 DEF ConnOf
    <3> HIDE DEF l
    <3>. QED  BY <1>1, <3>1, <3>2, KinFare
  <2>2. CASE Stick(c)
    <3> DEFINE l == [k EXCEPT !.stuck = "stuck"]
    <3>1. srv' = Put(srv, c, l)
      BY <2>2 DEF Stick, Put
    <3> HIDE DEF k
    <3>2. /\ l \in ConnOf(c) /\ l.stage = k.stage /\ l.deco = k.deco
          /\ l.processed = k.processed /\ l.gone = k.gone /\ l.down = k.down
      BY <1>1 DEF ConnOf
    <3> HIDE DEF l
    <3>. QED  BY <1>1, <3>1, <3>2, KinFare
  <2>3. CASE GoOn(c)
    <3> DEFINE l == [k EXCEPT !.stuck = "over"]
    <3>1. srv' = Put(srv, c, l)
      BY <2>3 DEF GoOn, Put
    <3> HIDE DEF k
    <3>2. /\ l \in ConnOf(c) /\ l.stage = k.stage /\ l.deco = k.deco
          /\ l.processed = k.processed /\ l.gone = k.gone /\ l.down = k.down
      BY <1>1 DEF ConnOf
    <3> HIDE DEF l
    <3>. QED  BY <1>1, <3>1, <3>2, KinFare
  <2>. QED  BY <2>1, <2>2, <2>3
<1>3. Handled(srv, srv')
  BY <1>1, <1>2, PutHandled
<1>4. /\ SrvType(srv') /\ srv'.phase = srv.phase /\ Fenced(srv')
      /\ \A d \in Conns : Fares(d, srv.conn[d], srv'.conn[d])
  BY <1>1, <1>2, <1>3, PutIs DEF Handled, IInv
<1>5. IInv'
  <2>1. \A d \in Conns : Onward(d, srv.conn[d], srv'.conn[d])
    BY <1>4 DEF Fares
  <2>. QED  BY <1>1, <1>4, <2>1, OnwardKeeps
<1>. QED  BY <1>1, <1>4, <1>5

LEMMA TurnKeeps ==
    ASSUME IInv, Turn
    PROVE  IInv'
<1>1. SrvType(srv) /\ UNCHANGED <<client, proc, up, coming>> /\ srv' = Turned(srv) /\ Fenced(srv)
  BY DEF IInv, Types, Turn
<1>2. /\ SrvType(srv') /\ (\A c \in Conns : Fares(c, srv.conn[c], srv'.conn[c])) /\ Fenced(srv')
  BY <1>1, TurnedIs
<1>3. \A c \in Conns : Onward(c, srv.conn[c], srv'.conn[c])
  BY <1>2 DEF Fares
<1>. QED  BY <1>1, <1>2, <1>3, OnwardKeeps

LEMMA StopKeeps ==
    ASSUME IInv, Stop
    PROVE  IInv'
<1>1. SrvType(srv) /\ UNCHANGED <<client, proc, up, coming>> /\ srv' = Stopped(srv) /\ Fenced(srv)
  BY DEF IInv, Types, Stop
<1>2. /\ SrvType(srv') /\ (\A c \in Conns : Ending(c, srv.conn[c], srv'.conn[c]))
      /\ srv'.ran = srv.ran
  BY <1>1, StoppedIs
<1>3. \A c \in Conns : Onward(c, srv.conn[c], srv'.conn[c])
  BY <1>2 DEF Ending
<1>4. Fenced(srv')
  <2>1. \A d \in Conns : srv'.conn[d].processed = srv.conn[d].processed
    BY <1>3 DEF Onward
  <2>2. \A fence \in srv.ran : fence[1] \in Conns
    BY <1>1 DEF Conns, SrvType
  <2>. QED  BY <1>1, <1>2, <2>1, <2>2 DEF Fenced
<1>. QED  BY <1>1, <1>2, <1>3, <1>4, OnwardKeeps

LEMMA StopOverIs ==
    ASSUME Types, StopOver
    PROVE  /\ SrvType(srv') /\ srv'.phase = "cut" /\ srv'.ran = srv.ran
           /\ \A c \in Conns : Onward(c, srv.conn[c], srv'.conn[c])
<1> DEFINE n == [c \in Conns |-> [srv.conn[c] EXCEPT !.stage = "closed"]]
<1>1. /\ srv = [conn |-> srv.conn, asked |-> srv.asked, last |-> srv.last, phase |-> srv.phase,
                ran |-> srv.ran]
      /\ srv.asked \in Nat /\ srv.last \in Nat /\ srv.ran \subseteq Attachers \X Nat
  BY DEF Types, SrvType
<1>2. srv' = [srv EXCEPT !.phase = "cut", !.conn = n]
  BY DEF StopOver
<1>3. ASSUME NEW c \in Conns
      PROVE  n[c] \in ConnOf(c) /\ Onward(c, srv.conn[c], n[c])
  <2> DEFINE k == srv.conn[c]
             l == [k EXCEPT !.stage = "closed"]
  <2>1. k \in ConnOf(c) /\ n[c] = l
    BY TypesAre
  <2> HIDE DEF k, n
  <2>2. "closed" \in StagesOf(c)
    BY DEF StagesOf, OverStages
  <2>3. /\ l \in ConnOf(c) /\ l.stage = "closed" /\ l.deco = k.deco /\ l.processed = k.processed
        /\ l.gone = k.gone /\ l.down = k.down /\ Len(k.down) \in Nat
    BY <2>1, <2>2 DEF ConnOf
  <2> HIDE DEF l
  <2>4. Onward(c, k, l)
    BY <2>3 DEF Onward, More, OverStages
  <2>. QED  BY <2>1, <2>3, <2>4 DEF k
<1>4. n = [c \in Conns |-> n[c]]
  OBVIOUS
<1> HIDE DEF n
<1>5. /\ srv'.conn = n /\ srv'.asked = srv.asked /\ srv'.last = srv.last /\ srv'.phase = "cut"
      /\ srv'.ran = srv.ran
      /\ srv' = [conn |-> srv'.conn, asked |-> srv'.asked, last |-> srv'.last,
                 phase |-> srv'.phase, ran |-> srv'.ran]
  BY <1>1, <1>2
<1>. QED  BY <1>1, <1>3, <1>4, <1>5 DEF SrvType

LEMMA StopOverKeeps ==
    ASSUME IInv, StopOver
    PROVE  IInv'
<1>1. SrvType(srv) /\ UNCHANGED <<client, proc, up, coming>> /\ Fenced(srv) /\ Types
  BY DEF IInv, Types, StopOver
<1>2. /\ SrvType(srv') /\ srv'.ran = srv.ran
      /\ \A c \in Conns : Onward(c, srv.conn[c], srv'.conn[c])
  BY <1>1, StopOverIs
<1>4. Fenced(srv')
  <2>1. \A d \in Conns : srv'.conn[d].processed = srv.conn[d].processed
    BY <1>2 DEF Onward
  <2>2. \A fence \in srv.ran : fence[1] \in Conns
    BY <1>1 DEF Conns, SrvType
  <2>. QED  BY <1>1, <1>2, <2>1, <2>2 DEF Fenced
<1>. QED  BY <1>1, <1>2, <1>4, OnwardKeeps

LEMMA ServeKeeps ==
    ASSUME IInv, NEW c \in Conns, ServeConn(c)
    PROVE  /\ IInv' /\ UNCHANGED <<client, proc, coming>>
           /\ SrvType(srv') /\ srv'.phase = srv.phase
           /\ up'[c] = Quiet /\ \A d \in Conns : d # c => up'[d] = up[d]
           /\ \A d \in Conns : d # c => Fares(d, srv.conn[d], srv'.conn[d])
           /\ proc[c].on /\ ~srv.conn[c].gone /\ ~up[c].shut
                => Grown(c, srv.conn[c], srv'.conn[c])
<1> DEFINE gone == ~proc[c].on
           t == Served(srv, c, up[c], gone)
<1>1. /\ SrvType(srv) /\ UNCHANGED <<client, proc, coming>> /\ Fenced(srv) /\ Types
      /\ srv' = [t EXCEPT !.last = c] /\ up' = [up EXCEPT ![c] = Quiet]
  BY DEF IInv, Types, ServeConn
<1>2. ASSUME NEW d \in Conns
      PROVE  /\ client[d] \in ClientOf(d) /\ proc[d] \in ProcOf(d) /\ up[d] \in UpOf(d)
             /\ srv.conn[d] \in ConnOf(d) /\ up = [e \in Conns |-> up[e]]
             /\ Good(d, client[d], proc[d], up[d], srv.conn[d])
  BY TypesAre DEF IInv, Good
<1>3. gone \in BOOLEAN
  BY <1>2 DEF ProcOf
<1>4. /\ Serving(srv, t, c) /\ Good(c, client[c], proc[c], Quiet, t.conn[c])
      /\ ~gone /\ ~srv.conn[c].gone /\ ~up[c].shut => Grown(c, srv.conn[c], t.conn[c])
  BY <1>1, <1>2, <1>3, ServedServes
<1> HIDE DEF t
<1>5. c \in Nat
  BY ConnsAssumption
<1>6. /\ SrvType(srv') /\ srv'.conn = t.conn /\ srv'.phase = t.phase /\ srv'.ran = t.ran
  <2>1. /\ t = [conn |-> t.conn, asked |-> t.asked, last |-> t.last, phase |-> t.phase,
                ran |-> t.ran]
        /\ t.conn = [d \in Conns |-> t.conn[d]]
        /\ \A d \in Conns : t.conn[d] \in ConnOf(d)
        /\ t.asked \in Nat
        /\ t.phase \in {"serving", "stopping", "ended", "cut"}
        /\ t.ran \subseteq Attachers \X Nat
    BY <1>4 DEF Serving, SrvType
  <2>2. /\ srv' = [conn |-> srv'.conn, asked |-> srv'.asked, last |-> srv'.last,
                   phase |-> srv'.phase, ran |-> srv'.ran]
        /\ srv'.conn = t.conn /\ srv'.asked = t.asked /\ srv'.last = c
        /\ srv'.phase = t.phase /\ srv'.ran = t.ran
    BY <1>1, <2>1
  <2>. QED  BY <1>5, <2>1, <2>2 DEF SrvType
<1>7. /\ up' = [d \in Conns |-> up'[d]] /\ up'[c] = Quiet
      /\ \A d \in Conns : d # c => up'[d] = up[d]
  <2>1. up = [e \in Conns |-> up[e]]
    BY <1>2
  <2>. QED  BY <1>1, <2>1
<1>8. Quiet \in UpOf(c)
  BY DEF Quiet, UpOf
<1>9. ASSUME NEW d \in Conns
      PROVE  /\ up'[d] \in UpOf(d)
             /\ Good(d, client[d], proc[d], up'[d], srv'.conn[d])
  <2>1. CASE d = c
    BY <1>4, <1>6, <1>7, <1>8, <2>1
  <2>2. CASE d # c
    <3>1. Onward(d, srv.conn[d], t.conn[d])
      BY <1>4, <2>2 DEF Serving, Fares
    <3>2. Good(d, client[d], proc[d], up[d], t.conn[d])
      BY <1>2, <3>1, GoodOnward
    <3>. QED  BY <1>2, <1>6, <1>7, <2>2, <3>2
  <2>. QED  BY <2>1, <2>2
<1>10. Fenced(srv')
  BY <1>1, <1>4, <1>6 DEF Serving, Fenced
<1>11. IInv'
  BY <1>1, <1>6, <1>7, <1>9, <1>10, ServerKeeps
<1>. QED  BY <1>1, <1>4, <1>6, <1>7, <1>11 DEF Serving

-----------------------------------------------------------------------------
(* A process's steps keep the invariant.                                   *)

\* All a step of a process changes.
Steps(c, conn) ==
    /\ client' = [client EXCEPT ![c] = client'[c]] /\ client'[c] \in ClientOf(c)
    /\ proc' = [proc EXCEPT ![c] = proc'[c]] /\ proc'[c] \in ProcOf(c)
    /\ up' = [up EXCEPT ![c] = up'[c]] /\ up'[c] \in UpOf(c)
    /\ coming' \in [Conns -> SUBSET Nat]
    /\ srv' = Put(srv, c, conn) /\ conn \in ConnOf(c) /\ conn.processed = srv.conn[c].processed

LEMMA StepKeeps ==
    ASSUME IInv, NEW c \in Conns, NEW conn, Steps(c, conn),
           Good(c, client'[c], proc'[c], up'[c], conn)
    PROVE  IInv'
<1>1. Types /\ SrvType(srv) /\ Fenced(srv)
  BY DEF IInv, Types
<1>2. /\ SrvType(srv') /\ srv'.conn[c] = conn /\ srv'.ran = srv.ran
      /\ \A d \in Conns : d # c => srv'.conn[d] = srv.conn[d]
  BY <1>1, PutIs DEF Steps
<1>3. /\ client = [d \in Conns |-> client[d]] /\ \A d \in Conns : client[d] \in ClientOf(d)
  BY <1>1 DEF Types
<1>4. /\ proc = [d \in Conns |-> proc[d]] /\ \A d \in Conns : proc[d] \in ProcOf(d)
  BY <1>1 DEF Types
<1>5. /\ up = [d \in Conns |-> up[d]] /\ \A d \in Conns : up[d] \in UpOf(d)
  BY <1>1 DEF Types
<1>6. /\ client' = [d \in Conns |-> client'[d]] /\ \A d \in Conns : d # c => client'[d] = client[d]
  BY <1>3 DEF Steps
<1>7. /\ proc' = [d \in Conns |-> proc'[d]] /\ \A d \in Conns : d # c => proc'[d] = proc[d]
  BY <1>4 DEF Steps
<1>8. /\ up' = [d \in Conns |-> up'[d]] /\ \A d \in Conns : d # c => up'[d] = up[d]
  BY <1>5 DEF Steps
<1>9. ASSUME NEW d \in Conns
      PROVE  /\ client'[d] \in ClientOf(d) /\ proc'[d] \in ProcOf(d) /\ up'[d] \in UpOf(d)
             /\ Good(d, client'[d], proc'[d], up'[d], srv'.conn[d])
  <2>1. CASE d = c
    BY <1>2, <2>1 DEF Steps
  <2>2. CASE d # c
    BY <1>2, <1>3, <1>4, <1>5, <1>6, <1>7, <1>8, <2>2 DEF IInv, Good
  <2>. QED  BY <2>1, <2>2
<1>10. Types'
  BY <1>2, <1>6, <1>7, <1>8, <1>9 DEF Types, Steps, SrvType
<1>11. Fenced(srv')
  <2>1. \A d \in Conns : srv'.conn[d].processed = srv.conn[d].processed
    BY <1>2 DEF Steps
  <2>2. \A fence \in srv.ran : fence[1] \in Conns
    BY <1>1 DEF Conns, SrvType
  <2>. QED  BY <1>1, <1>2, <2>1, <2>2 DEF Fenced
<1>. QED  BY <1>9, <1>10, <1>11 DEF IInv, Good, Fenced

LEMMA SamePut ==
    ASSUME SrvType(srv), NEW c \in Conns
    PROVE  srv = Put(srv, c, srv.conn[c]) /\ srv.conn[c] \in ConnOf(c)
<1>1. /\ srv = [conn |-> srv.conn, asked |-> srv.asked, last |-> srv.last, phase |-> srv.phase,
                ran |-> srv.ran]
      /\ srv.conn = [d \in Conns |-> srv.conn[d]]
  BY DEF SrvType
<1>2. [srv.conn EXCEPT ![c] = srv.conn[c]] = srv.conn
  BY <1>1
<1> DEFINE m == [srv.conn EXCEPT ![c] = srv.conn[c]]
<1>3. Put(srv, c, srv.conn[c]) = [srv EXCEPT !.conn = m]
  BY DEF Put
<1> HIDE DEF m
<1>4. [srv EXCEPT !.conn = srv.conn] = srv
  BY <1>1
<1>5. m = srv.conn
  BY <1>2 DEF m
<1>. QED  BY <1>3, <1>4, <1>5 DEF SrvType

\* It goes on with what it wrote, or ends.
Went(c, p, q) ==
    /\ q.backlog = p.backlog /\ q.out = p.out /\ q.closing = p.closing /\ q.on = p.on
    /\ q.want = p.want \/ (p.want = "answer" /\ q.want = "command")
    /\ q.told = p.told
Quit(c, q) ==
    /\ q.backlog = proc[c].backlog /\ q.out = proc[c].out /\ q.closing = proc[c].closing
    /\ q.want = proc[c].want /\ ~q.on /\ q.told = proc[c].told

LEMMA ExitsIs ==
    ASSUME Types, NEW c \in Conns, NEW said \in BOOLEAN, NEW came \in [Conns -> SUBSET Nat],
           Exits(c, said, came)
    PROVE  /\ proc' = [proc EXCEPT ![c] = proc'[c]] /\ proc'[c] \in ProcOf(c) /\ Quit(c, proc'[c])
           /\ up' = [up EXCEPT ![c] = up'[c]] /\ up'[c] \in UpOf(c)
           /\ up'[c].frames = up[c].frames /\ up'[c].shut = up[c].shut
           /\ coming' \in [Conns -> SUBSET Nat]
<1> DEFINE p == proc[c]
           q == [p EXCEPT !.on = FALSE, !.received = {}, !.listening = FALSE]
           u == up[c]
           flushed == u.flushed \/ said
           v == [u EXCEPT !.flushed = flushed]
<1>1. p \in ProcOf(c) /\ u \in UpOf(c)
  BY TypesAre
<1>2. proc = [d \in Conns |-> proc[d]] /\ up = [d \in Conns |-> up[d]]
  BY DEF Types
<1>3. proc' = [proc EXCEPT ![c] = q] /\ up' = [up EXCEPT ![c] = v] /\ coming' = [came EXCEPT ![c] = {}]
  BY DEF Exits
<1>4. proc'[c] = q /\ proc' = [proc EXCEPT ![c] = proc'[c]]
  <2> HIDE DEF q
  <2>. QED  BY <1>2, <1>3
<1>5. up'[c] = v /\ up' = [up EXCEPT ![c] = up'[c]]
  <2> HIDE DEF v
  <2>. QED  BY <1>2, <1>3
<1>6. /\ q \in ProcOf(c) /\ q.backlog = p.backlog /\ q.out = p.out /\ q.closing = p.closing
      /\ q.want = p.want /\ ~q.on /\ q.told = p.told
  <2> HIDE DEF p
  <2>. QED  BY <1>1 DEF ProcOf
<1>7. flushed \in BOOLEAN
  BY <1>1 DEF UpOf
<1>8. v \in UpOf(c) /\ v.frames = u.frames /\ v.shut = u.shut
  <2> HIDE DEF u, flushed
  <2>. QED  BY <1>1, <1>7 DEF UpOf
<1>9. coming' \in [Conns -> SUBSET Nat]
  BY <1>3
<1>. QED  BY <1>4, <1>5, <1>6, <1>8, <1>9 DEF Quit

LEMMA GoesIs ==
    ASSUME Types, NEW c \in Conns, NEW p \in ProcOf(c), NEW came \in [Conns -> SUBSET Nat],
           Goes(c, p, came)
    PROVE  /\ proc' = [proc EXCEPT ![c] = proc'[c]] /\ proc'[c] \in ProcOf(c)
           /\ Went(c, p, proc'[c]) \/ (Quit(c, proc'[c]) /\ p.out = <<>> /\ p.closing)
           /\ up' = [up EXCEPT ![c] = up'[c]] /\ up'[c] \in UpOf(c)
           /\ up'[c].frames = up[c].frames /\ up'[c].shut = up[c].shut
           /\ coming' \in [Conns -> SUBSET Nat]
<1>1. up[c] \in UpOf(c) /\ up = [d \in Conns |-> up[d]] /\ proc = [d \in Conns |-> proc[d]]
  BY DEF Types
<1>2. CASE p.out # <<>>
  <2>1. proc' = [proc EXCEPT ![c] = p] /\ up' = up /\ coming' = came
    BY <1>2 DEF Goes
  <2>2. proc'[c] = p /\ proc' = [proc EXCEPT ![c] = proc'[c]] /\ up' = [up EXCEPT ![c] = up'[c]]
    BY <1>1, <2>1
  <2>. QED  BY <1>1, <2>1, <2>2 DEF Went
<1>3. CASE p.out = <<>> /\ p.closing /\ p.errand = None
  <2>1. Exits(c, p.unflushed, came) /\ p.unflushed \in BOOLEAN
    BY <1>3 DEF Goes, ProcOf
  <2>. QED  BY <1>3, <2>1, ExitsIs
<1>4. CASE p.out = <<>> /\ ~(p.closing /\ p.errand = None)
  <2> DEFINE next == p.want = "answer" /\ p.answered /\ ~p.making
             want == IF next THEN "command" ELSE p.want
             q == [p EXCEPT !.unflushed = FALSE, !.want = want]
             u == up[c]
             flushed == u.flushed \/ p.unflushed
             v == [u EXCEPT !.flushed = flushed]
  <2>1. proc' = [proc EXCEPT ![c] = q] /\ up' = [up EXCEPT ![c] = v] /\ coming' = came
    BY <1>4 DEF Goes
  <2>2. /\ want \in WantsOf(c) /\ flushed \in BOOLEAN
        /\ want = p.want \/ (p.want = "answer" /\ want = "command")
    <3>1. p.want \in WantsOf(c)
      BY DEF ProcOf
    <3>2. next => "command" \in WantsOf(c)
      BY <3>1 DEF WantsOf
    <3>3. flushed \in BOOLEAN
      BY <1>1 DEF UpOf, ProcOf
    <3>. QED  BY <3>1, <3>2, <3>3
  <2> HIDE DEF want, flushed
  <2>3. /\ q \in ProcOf(c) /\ q.backlog = p.backlog /\ q.out = p.out /\ q.closing = p.closing
        /\ q.want = want /\ q.on = p.on /\ q.told = p.told
    BY <2>2 DEF ProcOf
  <2>4. v \in UpOf(c) /\ v.frames = u.frames /\ v.shut = u.shut
    <3>1. u \in UpOf(c)
      BY <1>1
    <3> HIDE DEF u
    <3>. QED  BY <2>2, <3>1 DEF UpOf
  <2> HIDE DEF q, v
  <2>5. proc'[c] = q /\ proc' = [proc EXCEPT ![c] = proc'[c]]
        /\ up'[c] = v /\ up' = [up EXCEPT ![c] = up'[c]]
    BY <1>1, <2>1
  <2>. QED  BY <2>1, <2>2, <2>3, <2>4, <2>5 DEF Went
<1>. QED  BY <1>2, <1>3, <1>4

\* What a process has before it goes on, it has as it goes on or ends.
LEMMA GoesKeeps ==
    ASSUME IInv, NEW c \in Conns, NEW conn, NEW p \in ProcOf(c),
           NEW came \in [Conns -> SUBSET Nat], Goes(c, p, came),
           client' = [client EXCEPT ![c] = client'[c]], client'[c] \in ClientOf(c),
           Still(client[c], client'[c]),
           srv' = Put(srv, c, conn), conn \in ConnOf(c), conn.processed = srv.conn[c].processed,
           Good(c, client[c], p, up[c], conn), Good(c, client[c], proc[c], up[c], conn)
    PROVE  IInv'
<1>1. /\ proc' = [proc EXCEPT ![c] = proc'[c]] /\ proc'[c] \in ProcOf(c)
      /\ Went(c, p, proc'[c]) \/ (Quit(c, proc'[c]) /\ p.out = <<>> /\ p.closing)
      /\ up' = [up EXCEPT ![c] = up'[c]] /\ up'[c] \in UpOf(c)
      /\ up'[c].frames = up[c].frames /\ up'[c].shut = up[c].shut
      /\ coming' \in [Conns -> SUBSET Nat]
  BY GoesIs DEF IInv
<1>2. Good(c, client'[c], proc'[c], up'[c], conn)
  <2> DEFINE q == proc'[c]
             k == client[c]
             l == client'[c]
             u == up[c]
             v == up'[c]
  <2>1. l.opened = k.opened /\ l.inbox = k.inbox /\ l.sent = k.sent /\ l.asked = k.asked
    BY DEF Still
  <2>2. CASE Went(c, p, q)
    <3>1. q.backlog = p.backlog /\ (q.want = p.want \/ (p.want = "answer" /\ q.want = "command"))
      BY <2>2 DEF Went
    <3>2. Good(c, k, p, u, conn) /\ v.frames = u.frames
      BY <1>1
    <3> HIDE DEF q, k, l, u, v
    <3>3. Good(c, l, q, v, conn)
      BY <2>1, <3>1, <3>2, SameGood
    <3>. QED  BY <3>3 DEF q, l, v
  <2>3. CASE Quit(c, q)
    <3> DEFINE o == proc[c]
    <3>1. q.backlog = o.backlog /\ q.want = o.want
      BY <2>3 DEF Quit
    <3>2. Good(c, k, o, u, conn) /\ v.frames = u.frames
      BY <1>1
    <3> HIDE DEF q, k, l, u, v, o
    <3>3. Good(c, l, q, v, conn)
      BY <2>1, <3>1, <3>2, SameGood
    <3>. QED  BY <3>3 DEF q, l, v
  <2>. QED  BY <1>1, <2>2, <2>3
<1>3. Steps(c, conn)
  BY <1>1 DEF Steps
<1>. QED  BY <1>2, <1>3, StepKeeps

LEMMA ExitsKeeps ==
    ASSUME IInv, NEW c \in Conns, NEW conn, NEW said \in BOOLEAN,
           NEW came \in [Conns -> SUBSET Nat], Exits(c, said, came),
           client' = [client EXCEPT ![c] = client'[c]], client'[c] \in ClientOf(c),
           Still(client[c], client'[c]),
           srv' = Put(srv, c, conn), conn \in ConnOf(c), conn.processed = srv.conn[c].processed,
           Good(c, client[c], proc[c], up[c], conn)
    PROVE  IInv'
<1>1. /\ proc' = [proc EXCEPT ![c] = proc'[c]] /\ proc'[c] \in ProcOf(c)
      /\ Quit(c, proc'[c])
      /\ up' = [up EXCEPT ![c] = up'[c]] /\ up'[c] \in UpOf(c)
      /\ up'[c].frames = up[c].frames /\ up'[c].shut = up[c].shut
      /\ coming' \in [Conns -> SUBSET Nat]
  BY ExitsIs DEF IInv
<1>2. Good(c, client'[c], proc'[c], up'[c], conn)
  <2> DEFINE q == proc'[c]
             k == client[c]
             l == client'[c]
             u == up[c]
             v == up'[c]
             o == proc[c]
  <2>1. l.opened = k.opened /\ l.inbox = k.inbox /\ l.sent = k.sent /\ l.asked = k.asked
    BY DEF Still
  <2>2. q.backlog = o.backlog /\ q.want = o.want
    BY <1>1 DEF Quit
  <2>3. Good(c, k, o, u, conn) /\ v.frames = u.frames
    BY <1>1
  <2> HIDE DEF q, k, l, u, v, o
  <2>4. Good(c, l, q, v, conn)
    BY <2>1, <2>2, <2>3, SameGood
  <2>. QED  BY <2>4 DEF q, l, v
<1>3. Steps(c, conn)
  BY <1>1 DEF Steps
<1>. QED  BY <1>2, <1>3, StepKeeps

LEMMA SameClient ==
    ASSUME Types, NEW c \in Conns
    PROVE  client = [client EXCEPT ![c] = client[c]] /\ Still(client[c], client[c])
  BY DEF Types, Still

\* It is told all it was to be told.
LEMMA AllTold ==
    ASSUME NEW c \in Conns, NEW k, NEW p, NEW u, NEW conn \in ConnOf(c), Good(c, k, p, u, conn)
    PROVE  LET l == [conn EXCEPT !.down = <<>>]
           IN  /\ l \in ConnOf(c) /\ l.stage = conn.stage /\ l.processed = conn.processed
               /\ l.down = <<>> /\ l.gone = conn.gone /\ Good(c, k, p, u, l)
<1> DEFINE l == [conn EXCEPT !.down = <<>>]
<1>1. <<>> \in Seq(WordTo(c))
  OBVIOUS
<1>2. /\ l \in ConnOf(c) /\ l.stage = conn.stage /\ l.processed = conn.processed
      /\ l.down = <<>> /\ l.gone = conn.gone /\ l.deco = conn.deco
  BY <1>1 DEF ConnOf
<1> HIDE DEF l
<1>3. Lined(c, k, u, l)
  BY <1>2 DEF Good, Lined, At, IsAt
<1>4. Expecting(l.down) = {}
  BY <1>2 DEF Expecting
<1>5. Words(c, k, p, l) /\ Wanted(c, k, p, l)
  BY <1>2, <1>4 DEF Good, Words, Wanted, Due, Once
<1>. QED  BY <1>2, <1>3, <1>5 DEF Good, l

LEMMA HearServerKeeps ==
    ASSUME IInv, NEW c \in Conns, HearServer(c)
    PROVE  IInv'
<1> DEFINE k == client[c]
           p == proc[c]
           u == up[c]
           conn == srv.conn[c]
           l == [conn EXCEPT !.down = <<>>]
           told == Told(p, conn.down)
           q == Backlog(told, Reaches)
<1>0. Types
  BY DEF IInv
<1>1. /\ k \in ClientOf(c) /\ p \in ProcOf(c) /\ u \in UpOf(c) /\ conn \in ConnOf(c)
      /\ SrvType(srv) /\ Good(c, k, p, u, conn) /\ coming \in [Conns -> SUBSET Nat]
  BY <1>0, TypesAre DEF IInv, Good, Types
<1>2. srv' = Put(srv, c, l)
  BY DEF HearServer, Put
<1>2a. /\ Stage(srv, c) = "closed" =>
            /\ Exits(c, FALSE, coming)
            /\ client' = IF client[c].side = "gone" THEN client
                         ELSE [client EXCEPT ![c] = TakenAll(client[c], q.out)]
       /\ Stage(srv, c) # "closed" => Goes(c, q, coming) /\ UNCHANGED client
  BY DEF HearServer
<1>3. Reaches \subseteq Attachers
  BY DEF Reaches
<1>4. /\ l \in ConnOf(c) /\ l.stage = conn.stage /\ l.processed = conn.processed
      /\ l.down = <<>> /\ l.gone = conn.gone /\ Good(c, k, p, u, l)
  BY <1>1, AllTold
<1> HIDE DEF k, p, u, conn, l
<1>5. told \in ProcOf(c) /\ Words(c, k, told, l) /\ Wanted(c, k, told, l)
  BY <1>1, <1>4, ToldGood DEF Good
<1> HIDE DEF told
<1>6. q \in ProcOf(c) /\ Good(c, k, q, u, l)
  <2>1. q \in ProcOf(c) /\ Words(c, k, q, l) /\ Wanted(c, k, q, l)
    BY <1>3, <1>4, <1>5, BacklogGood
  <2>. QED  BY <1>4, <2>1 DEF Good
<1> HIDE DEF q
<1>7. CASE Stage(srv, c) = "closed"
  <2>1. Exits(c, FALSE, coming)
    BY <1>2a, <1>7
  <2>2. client' = [client EXCEPT ![c] = client'[c]] /\ client'[c] \in ClientOf(c) /\ Still(k, client'[c])
    <3>1. CASE client[c].side = "gone"
      BY <1>0, <1>1, <1>2a, <1>7, <3>1, SameClient DEF k
    <3>2. CASE client[c].side # "gone"
      <4> DEFINE m == TakenAll(k, q.out)
      <4>1. client' = [client EXCEPT ![c] = m]
        BY <1>2a, <1>7, <3>2 DEF k
      <4>2. q.out \in Seq(WordTo(c))
        BY <1>6 DEF ProcOf
      <4>3. m \in ClientOf(c) /\ Still(k, m)
        BY <1>1, <4>2, TakenAllIs
      <4> HIDE DEF m
      <4>4. client'[c] = m
        BY <1>0, <4>1 DEF Types
      <4>. QED  BY <4>1, <4>3, <4>4
    <3>. QED  BY <3>1, <3>2
  <2>3. /\ l.processed = srv.conn[c].processed /\ FALSE \in BOOLEAN
        /\ Good(c, client[c], proc[c], up[c], l) /\ Still(client[c], client'[c])
    BY <1>4, <2>2 DEF k, p, u, conn
  <2>. QED  BY <1>1, <1>2, <1>4, <2>1, <2>2, <2>3, ExitsKeeps
<1>8. CASE Stage(srv, c) # "closed"
  <2>1. Goes(c, q, coming) /\ client' = client
    BY <1>2a, <1>8
  <2>2. client' = [client EXCEPT ![c] = client'[c]] /\ client'[c] \in ClientOf(c)
        /\ Still(client[c], client'[c])
    BY <1>0, <1>1, <2>1, SameClient DEF k
  <2>3. /\ l.processed = srv.conn[c].processed
        /\ Good(c, client[c], proc[c], up[c], l) /\ Good(c, client[c], q, up[c], l)
    BY <1>4, <1>6 DEF k, p, u, conn
  <2>. QED  BY <1>1, <1>2, <1>4, <1>6, <2>1, <2>2, <2>3, GoesKeeps
<1>. QED  BY <1>7, <1>8

\* Where its state is what it was but for what no frame and no word to
\* expect depends on.
LEMMA KinGoesKeeps ==
    ASSUME IInv, NEW c \in Conns, NEW p \in ProcOf(c), p.backlog = proc[c].backlog,
           p.want = proc[c].want, NEW came \in [Conns -> SUBSET Nat], Goes(c, p, came),
           client' = [client EXCEPT ![c] = client'[c]], client'[c] \in ClientOf(c),
           Still(client[c], client'[c]), srv' = srv
    PROVE  IInv'
<1> DEFINE k == client[c]
           u == up[c]
           o == proc[c]
           conn == srv.conn[c]
<1>1. Types /\ SrvType(srv) /\ Good(c, k, o, u, conn)
  BY DEF IInv, Good, Types
<1>2. p.backlog = o.backlog /\ p.want = o.want
  OBVIOUS
<1>3. srv' = Put(srv, c, conn) /\ conn \in ConnOf(c)
  BY <1>1, SamePut
<1> HIDE DEF k, u, o
<1>4. Good(c, k, p, u, conn)
  BY <1>1, <1>2, SameGood
<1>. QED  BY <1>1, <1>3, <1>4, GoesKeeps DEF k, u, o

LEMMA WriteKeeps ==
    ASSUME IInv, NEW c \in Conns, Write(c)
    PROVE  IInv'
<1> DEFINE k == client[c]
           o == proc[c]
           p == [o EXCEPT !.out = <<>>]
           conn == srv.conn[c]
<1>0. Types /\ SrvType(srv) /\ srv' = srv /\ coming \in [Conns -> SUBSET Nat]
  BY DEF IInv, Types, Write
<1>1. k \in ClientOf(c) /\ o \in ProcOf(c) /\ Good(c, k, o, up[c], conn)
  BY <1>0, TypesAre DEF IInv, Good
<1>2. CASE client[c].side = "gone"
  <2>1. Exits(c, FALSE, coming) /\ client' = client
    BY <1>2 DEF Write
  <2>2. srv' = Put(srv, c, conn) /\ conn \in ConnOf(c)
    BY <1>0, SamePut
  <2>3. client' = [client EXCEPT ![c] = client'[c]] /\ client'[c] \in ClientOf(c)
        /\ Still(client[c], client'[c])
    BY <1>0, <1>1, <2>1, SameClient
  <2>. QED  BY <1>0, <1>1, <2>1, <2>2, <2>3, ExitsKeeps
<1>3. CASE client[c].side # "gone"
  <2> DEFINE m == TakenAll(k, o.out)
  <2>1. client' = [client EXCEPT ![c] = m] /\ Goes(c, p, coming)
    BY <1>3 DEF Write
  <2>2. o.out \in Seq(WordTo(c)) /\ <<>> \in Seq(WordTo(c))
    BY <1>1 DEF ProcOf
  <2> HIDE DEF o, k
  <2>3. m \in ClientOf(c) /\ Still(k, m)
    BY <1>1, <2>2, TakenAllIs
  <2>4. p \in ProcOf(c) /\ p.backlog = o.backlog /\ p.want = o.want
    BY <1>1, <2>2 DEF ProcOf
  <2> HIDE DEF m, p
  <2>5. client'[c] = m
    BY <1>0, <2>1 DEF Types
  <2>. QED  BY <1>0, <1>1, <2>1, <2>3, <2>4, <2>5, KinGoesKeeps DEF o, k
<1>. QED  BY <1>2, <1>3

LEMMA CarryKeeps ==
    ASSUME IInv, NEW c \in Conns, Carry(c)
    PROVE  IInv'
<1> DEFINE o == proc[c]
           p == [o EXCEPT !.errand = None]
           q == Replied(p, "lost")
           n == o.errand
           to == o.to
           came == [coming EXCEPT ![to] = coming[to] \union {n}]
<1>0. Types /\ SrvType(srv) /\ srv' = srv /\ coming \in [Conns -> SUBSET Nat] /\ client' = client
  BY DEF IInv, Types, Carry
<1>1. client[c] \in ClientOf(c) /\ o \in ProcOf(c)
  BY <1>0, TypesAre DEF IInv
<1>2. client' = [client EXCEPT ![c] = client'[c]] /\ client'[c] \in ClientOf(c)
      /\ Still(client[c], client'[c])
  BY <1>0, <1>1, SameClient
<1>3. Goes(c, p, came) \/ Goes(c, q, coming)
  BY DEF Carry
<1>4. p \in ProcOf(c) /\ p.backlog = o.backlog /\ p.want = o.want
  <2> HIDE DEF o
  <2>. QED  BY <1>1 DEF ProcOf, None
<1>5. n \in Nat
  BY <1>1 DEF ProcOf
<1>6. came \in [Conns -> SUBSET Nat]
  <2>1. to \in Conns => coming[to] \union {n} \in SUBSET Nat
    BY <1>0, <1>5
  <2>. QED  BY <1>0, <2>1
<1> HIDE DEF p, came, n, to
<1>7. q \in ProcOf(c) /\ q.backlog = p.backlog /\ q.want = p.want
  BY <1>4, RepliedIs
<1> HIDE DEF q
<1>8. CASE Goes(c, p, came)
  BY <1>0, <1>2, <1>4, <1>6, <1>8, KinGoesKeeps
<1>9. CASE Goes(c, q, coming)
  BY <1>0, <1>2, <1>4, <1>7, <1>9, KinGoesKeeps
<1>. QED  BY <1>3, <1>8, <1>9

LEMMA TakeBodiesKeeps ==
    ASSUME IInv, NEW c \in Conns, TakeBodies(c)
    PROVE  IInv'
<1> DEFINE k == client[c]
           u == up[c]
           conn == srv.conn[c]
           o == proc[c]
           r == o.received \union coming[c]
           p == [o EXCEPT !.received = r]
           q == Backlog(p, Reaches)
           came == [coming EXCEPT ![c] = {}]
<1>0. Types /\ SrvType(srv) /\ srv' = srv /\ coming \in [Conns -> SUBSET Nat] /\ client' = client
  BY DEF IInv, Types, TakeBodies
<1>1. k \in ClientOf(c) /\ o \in ProcOf(c) /\ Good(c, k, o, u, conn)
      /\ coming[c] \in SUBSET Nat
  BY <1>0, TypesAre DEF IInv, Good
<1>2. client' = [client EXCEPT ![c] = client'[c]] /\ client'[c] \in ClientOf(c)
      /\ Still(client[c], client'[c])
  BY <1>0, <1>1, SameClient
<1>3. Goes(c, q, came)
  BY DEF TakeBodies
<1>4. came \in [Conns -> SUBSET Nat]
  BY <1>0
<1>5. r \in SUBSET Nat
  BY <1>1 DEF ProcOf
<1>6. p \in ProcOf(c) /\ p.backlog = o.backlog /\ p.want = o.want
  <2> HIDE DEF o, r
  <2>. QED  BY <1>1, <1>5 DEF ProcOf
<1>7. Reaches \subseteq Attachers /\ srv' = Put(srv, c, conn) /\ conn \in ConnOf(c)
  BY <1>0, SamePut DEF Reaches
<1> HIDE DEF k, u, conn, o, p, came
<1>8. Good(c, k, p, u, conn)
  BY <1>1, <1>6, SameGood
<1>9. q \in ProcOf(c) /\ Good(c, k, q, u, conn)
  <2>1. q \in ProcOf(c) /\ Words(c, k, q, conn) /\ Wanted(c, k, q, conn)
    BY <1>6, <1>7, <1>8, BacklogGood DEF Good
  <2>. QED  BY <1>8, <2>1 DEF Good
<1> HIDE DEF q
<1>10. /\ Good(c, client[c], q, up[c], conn) /\ Good(c, client[c], proc[c], up[c], conn)
       /\ conn.processed = srv.conn[c].processed
  BY <1>1, <1>9 DEF k, u, conn, o
<1>. QED  BY <1>2, <1>3, <1>4, <1>7, <1>9, <1>10, GoesKeeps

LEMMA TellShutKeeps ==
    ASSUME IInv, NEW c \in Conns, TellShut(c)
    PROVE  IInv'
<1> DEFINE k == client[c]
           u == up[c]
           o == proc[c]
           conn == srv.conn[c]
           q == [o EXCEPT !.told = TRUE]
           v == [u EXCEPT !.shut = TRUE]
<1>0. Types /\ SrvType(srv) /\ srv' = srv /\ coming' = coming /\ client' = client
      /\ coming \in [Conns -> SUBSET Nat]
      /\ proc = [d \in Conns |-> proc[d]] /\ up = [d \in Conns |-> up[d]]
  BY DEF IInv, Types, TellShut
<1>1. k \in ClientOf(c) /\ o \in ProcOf(c) /\ u \in UpOf(c) /\ Good(c, k, o, u, conn)
  BY <1>0, TypesAre DEF IInv, Good
<1>2. proc' = [proc EXCEPT ![c] = q] /\ up' = [up EXCEPT ![c] = v]
  BY DEF TellShut
<1>3. q \in ProcOf(c) /\ q.backlog = o.backlog /\ q.want = o.want
  <2> HIDE DEF o
  <2>. QED  BY <1>1 DEF ProcOf
<1>4. v \in UpOf(c) /\ v.frames = u.frames
  <2> HIDE DEF u
  <2>. QED  BY <1>1 DEF UpOf
<1>5. srv' = Put(srv, c, conn) /\ conn \in ConnOf(c)
  BY <1>0, SamePut
<1> HIDE DEF k, u, o, q, v
<1>6. Good(c, k, q, v, conn)
  BY <1>1, <1>3, <1>4, SameGood
<1>7. proc'[c] = q /\ up'[c] = v /\ client'[c] = k
  BY <1>0, <1>2 DEF k
<1>8. client' = [client EXCEPT ![c] = client'[c]]
  BY <1>0, SameClient
<1>9. Steps(c, conn)
  BY <1>0, <1>1, <1>2, <1>3, <1>4, <1>5, <1>7, <1>8 DEF Steps
<1>. QED  BY <1>6, <1>7, <1>9, StepKeeps

\* Its process takes a frame, and expects what it then does.
LEMMA ForwardGood ==
    ASSUME NEW c \in Conns, NEW k \in ClientOf(c), NEW p \in ProcOf(c), NEW u \in UpOf(c),
           NEW conn \in ConnOf(c), Good(c, k, p, u, conn), p.want \in Wants, k.inbox # <<>>,
           NEW l \in ClientOf(c), l.opened = k.opened, l.sent = k.sent, l.asked = k.asked,
           l.inbox = Tail(k.inbox),
           NEW v \in UpOf(c), v.frames = Append(u.frames, Head(k.inbox)),
           NEW q, q.backlog = p.backlog,
           p.want \in {"hello", "attaching"} => q.want = "nothing",
           p.want = "command" => q.want = "answer", p.want = "attached" => q.want = "attached"
    PROVE  Good(c, l, q, v, conn)
<1> DEFINE a == Pos(c, k)
           b == Pos(c, l)
           x == Len(u.frames)
           y == Len(conn.deco)
           frame == Head(k.inbox)
<1>1. k.opened
  BY DEF Good, Lined
<1>2. k.inbox \in Seq(SentBy(c)) /\ u.frames \in Seq(SentBy(c)) /\ x \in Nat /\ y \in Nat
  BY DEF ClientOf, UpOf, ConnOf
<1>3. /\ Len(l.inbox) = Len(k.inbox) - 1 /\ Len(k.inbox) \in Nat /\ Len(k.inbox) >= 1
      /\ DOMAIN l.inbox = 1..(Len(k.inbox) - 1) /\ DOMAIN k.inbox = 1..Len(k.inbox)
      /\ \A j \in 1..(Len(k.inbox) - 1) : l.inbox[j] = k.inbox[j + 1]
      /\ frame = k.inbox[1] /\ frame \in SentBy(c)
  BY <1>2
<1>4. b = a + 1 /\ a \in Int
  <2> DEFINE n == Len(k.inbox)
             s == Sendings(c, k)
  <2>1. s \in Nat /\ n \in Nat /\ Sendings(c, l) = s
    BY <1>3, PosIs DEF Sendings
  <2>2. a = s - n /\ b = s - (n - 1)
    BY <1>3, <2>1 DEF Pos
  <2> HIDE DEF n, s, a, b
  <2>. QED  BY <2>1, <2>2
<1>5. /\ Len(v.frames) = x + 1 /\ DOMAIN v.frames = 1..(x + 1) /\ DOMAIN u.frames = 1..x
      /\ v.frames[x + 1] = frame /\ \A j \in 1..x : v.frames[j] = u.frames[j]
  <2> HIDE DEF frame
  <2>. QED  BY <1>2, <1>3
<1>6. At(c, l, v, conn) = At(c, k, u, conn)
  <2>1. At(c, k, u, conn) = a - x - y /\ At(c, l, v, conn) = b - (x + 1) - y
    BY <1>5 DEF At
  <2> HIDE DEF a, b, x, y
  <2>. QED  BY <1>2, <1>4, <2>1
<1>7. Numbered(c, l.inbox, b)
  <2> SUFFICES ASSUME NEW j \in 1..(Len(k.inbox) - 1)
               PROVE  Right(c, l.inbox[j], b + j)
    BY <1>3 DEF Numbered
  <2>1. Numbered(c, k.inbox, a) /\ j + 1 \in 1..Len(k.inbox)
    BY <1>1, <1>3 DEF Good, Lined
  <2>2. Right(c, k.inbox[j + 1], a + (j + 1))
    BY <1>3, <2>1 DEF Numbered
  <2>3. a + (j + 1) = b + j
    <3> HIDE DEF a, b
    <3>. QED  BY <1>4
  <2>. QED  BY <1>3, <2>2, <2>3
<1>8. Right(c, frame, a + 1)
  <2>1. Numbered(c, k.inbox, a) /\ 1 \in DOMAIN k.inbox
    BY <1>1, <1>3 DEF Good, Lined
  <2>. QED  BY <1>3, <2>1 DEF Numbered
<1>9. conn.stage \notin OverStages => Numbered(c, v.frames, b - Len(v.frames))
  <2> SUFFICES ASSUME conn.stage \notin OverStages, NEW j \in 1..(x + 1)
               PROVE  Right(c, v.frames[j], (b - (x + 1)) + j)
    BY <1>5 DEF Numbered
  <2>1. CASE j = x + 1
    <3>1. (b - (x + 1)) + j = a + 1
      <4> HIDE DEF a, b, x
      <4>. QED  BY <1>2, <1>4, <2>1
    <3>. QED  BY <1>5, <1>8, <2>1, <3>1
  <2>2. CASE j # x + 1
    <3>1. j \in 1..x
      <4> HIDE DEF x
      <4>. QED  BY <1>2, <2>2
    <3>2. Numbered(c, u.frames, a - x)
      BY <1>1 DEF Good, Lined
    <3>3. (a - x) + j = (b - (x + 1)) + j
      <4> HIDE DEF a, b, x
      <4>. QED  BY <1>2, <1>4
    <3>. QED  BY <1>5, <3>1, <3>2, <3>3 DEF Numbered
  <2>. QED  BY <2>1, <2>2
<1>10. b >= -Opening(c)
  <2>1. a >= -Opening(c) /\ Opening(c) \in {1, 2}
    BY <1>1, PosIs DEF Good, Lined
  <2> HIDE DEF a, b
  <2>. QED  BY <1>4, <2>1
<1>11. Lined(c, l, v, conn)
  <2>1. /\ conn.stage \notin OverStages =>
            /\ Numbered(c, conn.deco, At(c, l, v, conn)) /\ IsAt(c, conn, At(c, l, v, conn))
        /\ conn.stage \in {"hello", "attaching"} => conn.processed = 0
    BY <1>1, <1>6 DEF Good, Lined
  <2>. QED  BY <1>1, <1>7, <1>9, <1>10, <2>1 DEF Lined
<1>12. p.want \in WantsOf(c) /\ p.backlog \in Seq(WordTo(c)) /\ conn.down \in Seq(WordTo(c))
  BY DEF ProcOf, ConnOf
<1>13. ASSUME NEW y0 \in Expected(c), Due(c, k, conn, y0), p.want # "attaching"
       PROVE  Due(c, l, conn, y0)
  <2>1. y0 \in {"attached", "command"} => b >= 0
    <3>1. y0 \in {"attached", "command"} => a >= 0
      BY <1>13 DEF Due
    <3> HIDE DEF a, b
    <3>. QED  BY <1>4, <3>1
  <2>2. y0 # "attaching"
    <3> SUFFICES ASSUME y0 = "attaching"
                 PROVE  FALSE
      OBVIOUS
    <3>1. a = -1 /\ c \notin Commands
      BY <1>13 DEF Due, Expected
    <3>2. p.want = "hello" => a = -2
      BY <1>1, <3>1 DEF Good, Wanted, Opening
    <3>3. p.want \in {"attached", "command"} => a >= 0
      BY DEF Good, Wanted
    <3> HIDE DEF a
    <3>. QED  BY <1>13, <3>1, <3>2, <3>3 DEF Wants
  <2>. QED  BY <1>1, <1>13, <2>1, <2>2 DEF Due
<1>14. p.want = "attaching" => Expecting(p.backlog) = {} /\ Expecting(conn.down) = {}
  BY DEF Good, Wanted
<1>15. Words(c, l, q, conn)
  <2>1. /\ \A i \in Expecting(p.backlog) : p.backlog[i].x \in Expected(c)
        /\ \A i \in Expecting(conn.down) : conn.down[i].x \in Expected(c)
    BY <1>12 DEF Expecting, WordTo
  <2>2. Words(c, k, p, conn)
    BY DEF Good
  <2>. QED  BY <1>13, <1>14, <2>1, <2>2 DEF Words
<1>16. Wanted(c, l, q, conn)
  <2>1. Wanted(c, k, p, conn) /\ Opening(c) \in {1, 2}
    BY PosIs DEF Good
  <2>2. CASE p.want = "hello"
    <3>1. q.want = "nothing" /\ a = -Opening(c)
      BY <1>1, <2>1, <2>2 DEF Wanted
    <3>2. b <= 1 - Opening(c)
      <4> HIDE DEF a, b
      <4>. QED  BY <1>4, <2>1, <3>1
    <3>. QED  BY <3>1, <3>2 DEF Wanted
  <2>3. CASE p.want = "attaching"
    <3>1. q.want = "nothing" /\ conn.stage # "hello"
      BY <2>1, <2>3 DEF Wanted
    <3>. QED  BY <3>1 DEF Wanted
  <2>4. CASE p.want \in {"command", "attached"}
    <3>1. q.want \in {"answer", "attached"} /\ a >= 0 /\ conn.stage # "hello"
      BY <2>1, <2>4 DEF Wanted
    <3>2. b >= 0
      <4> HIDE DEF a, b
      <4>. QED  BY <1>4, <3>1
    <3>. QED  BY <1>1, <3>1, <3>2 DEF Wanted
  <2>. QED  BY <2>2, <2>3, <2>4 DEF Wants
<1>. QED  BY <1>11, <1>15, <1>16 DEF Good

LEMMA ForwardKeeps ==
    ASSUME IInv, NEW c \in Conns, Forward(c)
    PROVE  IInv'
<1> DEFINE k == client[c]
           u == up[c]
           o == proc[c]
           conn == srv.conn[c]
           frame == Head(k.inbox)
           rest == Tail(k.inbox)
           frames == Append(u.frames, frame)
           want == CASE o.want \in {"hello", "attaching"} -> "nothing"
                     [] o.want = "command" -> "answer"
                     [] o.want = "attached" -> "attached"
           answered == o.answered /\ o.want # "command"
           l == [k EXCEPT !.inbox = rest]
           q == [o EXCEPT !.want = want, !.answered = answered]
           v == [u EXCEPT !.frames = frames]
<1>0. Types /\ SrvType(srv) /\ srv' = srv /\ coming' = coming
      /\ coming \in [Conns -> SUBSET Nat] /\ client = [d \in Conns |-> client[d]]
      /\ proc = [d \in Conns |-> proc[d]] /\ up = [d \in Conns |-> up[d]]
  BY DEF IInv, Types, Forward
<1>1. k \in ClientOf(c) /\ o \in ProcOf(c) /\ u \in UpOf(c) /\ Good(c, k, o, u, conn)
  BY <1>0, TypesAre DEF IInv, Good
<1>2. o.want \in Wants /\ k.inbox # <<>>
  BY DEF Forward, Forwards
<1>3. client' = [client EXCEPT ![c] = l] /\ proc' = [proc EXCEPT ![c] = q]
      /\ up' = [up EXCEPT ![c] = v]
  <2>1. client' = [client EXCEPT ![c] = l] /\ up' = [up EXCEPT ![c] = v]
    BY DEF Forward
  <2>2. proc' = [proc EXCEPT ![c].want = want, ![c].answered = answered]
    BY DEF Forward
  <2>3. [proc EXCEPT ![c].want = want, ![c].answered = answered] = [proc EXCEPT ![c] = q]
    <3> HIDE DEF want, answered
    <3>. QED  BY <1>0
  <2>. QED  BY <2>1, <2>2, <2>3
<1>4. k.inbox \in Seq(SentBy(c)) /\ u.frames \in Seq(SentBy(c)) /\ o.want \in WantsOf(c)
      /\ answered \in BOOLEAN
  BY <1>1 DEF ClientOf, UpOf, ProcOf
<1> HIDE DEF answered, k, u, o
<1>5. rest \in Seq(SentBy(c)) /\ frame \in SentBy(c)
  BY <1>2, <1>4
<1>6. frames \in Seq(SentBy(c))
  <2> HIDE DEF frame
  <2>. QED  BY <1>4, <1>5
<1>7. /\ want \in WantsOf(c)
      /\ o.want \in {"hello", "attaching"} => want = "nothing"
      /\ o.want = "command" => want = "answer"
      /\ o.want = "attached" => want = "attached"
  <2>1. o.want \in {"hello", "attaching", "command", "attached"}
    BY <1>2 DEF Wants
  <2>2. /\ o.want \in {"hello", "attaching"} => want = "nothing"
        /\ o.want = "command" => want = "answer"
        /\ o.want = "attached" => want = "attached"
    OBVIOUS
  <2> HIDE DEF want
  <2>. QED  BY <1>4, <2>1, <2>2 DEF WantsOf
<1> HIDE DEF rest, frames, want
<1>8. l \in ClientOf(c) /\ l.opened = k.opened /\ l.sent = k.sent /\ l.asked = k.asked
      /\ l.inbox = rest
  BY <1>1, <1>5 DEF ClientOf
<1>9. q \in ProcOf(c) /\ q.want = want /\ q.backlog = o.backlog
  BY <1>1, <1>4, <1>7 DEF ProcOf
<1>10. v \in UpOf(c) /\ v.frames = frames
  BY <1>1, <1>6 DEF UpOf
<1> HIDE DEF l, q, v
<1>11. conn \in ConnOf(c) /\ srv' = Put(srv, c, conn)
  BY <1>0, SamePut
<1>12. Good(c, l, q, v, conn)
  <2>1. l.inbox = Tail(k.inbox) /\ v.frames = Append(u.frames, Head(k.inbox))
    BY <1>8, <1>10 DEF rest, frames
  <2> HIDE DEF conn
  <2>. QED  BY <1>1, <1>2, <1>7, <1>8, <1>9, <1>10, <1>11, <2>1, ForwardGood
<1>13. proc'[c] = q /\ up'[c] = v /\ client'[c] = l
  BY <1>0, <1>3
<1>14. Steps(c, conn)
  BY <1>0, <1>3, <1>8, <1>9, <1>10, <1>11, <1>13 DEF Steps
<1>. QED  BY <1>12, <1>13, <1>14, StepKeeps

-----------------------------------------------------------------------------
(* The invariant holds.                                                    *)

LEMMA BeginsGood ==
    ASSUME NEW c \in Conns, NEW k \in ClientOf(c), NEW p \in ProcOf(c), NEW u \in UpOf(c),
           NEW conn \in ConnOf(c), k.opened <=> c \in Begun, k.inbox = <<>>, k.sent = 0,
           k.asked = <<>>, p.want = First(c), p.backlog = <<>>, u.frames = <<>>,
           conn.stage = First(c), conn.deco = <<>>, conn.processed = 0, conn.down = <<>>
    PROVE  Good(c, k, p, u, conn)
<1>1. Len(<<>>) = 0 /\ DOMAIN <<>> = {}
  OBVIOUS
<1>2. Sendings(c, k) = 0
  BY <1>1 DEF Sendings
<1>3. Pos(c, k) = 0 /\ At(c, k, u, conn) = 0
  <2> DEFINE s == Sendings(c, k)
             w == Len(k.inbox)
             x == Len(u.frames)
             y == Len(conn.deco)
  <2>1. s = 0 /\ w = 0 /\ x = 0 /\ y = 0
    BY <1>1, <1>2
  <2>2. Pos(c, k) = s - w /\ At(c, k, u, conn) = Pos(c, k) - x - y
    BY DEF Pos, At
  <2> HIDE DEF s, w, x, y
  <2>. QED  BY <2>1, <2>2
<1>4. Expecting(p.backlog) = {} /\ Expecting(conn.down) = {}
  BY <1>1 DEF Expecting
<1>5. Words(c, k, p, conn)
  BY <1>4 DEF Words, Once
<1>6. \A q, n : q = <<>> => Numbered(c, q, n)
  BY <1>1 DEF Numbered
<1>7. Opening(c) \in {1, 2} /\ 0 >= -Opening(c)
  BY PosIs
<1>8. CASE c \in Begun
  <2>1. k.opened /\ conn.stage \in {"attached", "command"} /\ p.want = conn.stage
    BY <1>8 DEF First
  <2>2. IsAt(c, conn, At(c, k, u, conn))
    BY <1>3, <2>1 DEF IsAt
  <2>3. Lined(c, k, u, conn)
    BY <1>1, <1>3, <1>6, <1>7, <2>1, <2>2 DEF Lined
  <2>4. Wanted(c, k, p, conn)
    BY <1>3, <2>1 DEF Wanted
  <2>. QED  BY <1>5, <2>3, <2>4 DEF Good
<1>9. CASE c \notin Begun
  <2>1. ~k.opened /\ conn.stage = "hello" /\ p.want = "hello"
    BY <1>9 DEF First
  <2>2. Lined(c, k, u, conn)
    BY <1>2, <2>1 DEF Lined
  <2>4. Wanted(c, k, p, conn)
    BY <2>1 DEF Wanted
  <2>. QED  BY <1>5, <2>2, <2>4 DEF Good
<1>. QED  BY <1>8, <1>9

LEMMA InitHolds ==
    ASSUME Init
    PROVE  IInv
<1>1. ASSUME NEW c \in Conns
      PROVE  /\ First(c) \in WantsOf(c) /\ First(c) \in StagesOf(c)
             /\ First(c) \notin {"blocked", "waiting"}
  BY ConnsAssumption DEF First, WantsOf, StagesOf, Conns, Asking
<1>2. Frame("none", "none", None, 0, 0) \in AskOf
  BY DEF Frame, AskOf, None
<1>3. \A S : <<>> \in Seq(S)
  OBVIOUS
<1>4. client = [c \in Conns |-> client[c]]
  BY DEF Init
<1>5. ASSUME NEW c \in Conns
      PROVE  /\ client[c] \in ClientOf(c) /\ (client[c].opened <=> c \in Begun)
             /\ client[c].inbox = <<>> /\ client[c].sent = 0 /\ client[c].asked = <<>>
  <2> DEFINE opened == c \in Begun
  <2>1. client[c] = [side |-> "open", opened |-> opened, inbox |-> <<>>, sent |-> 0,
                     asked |-> <<>>, left |-> FALSE, owed |-> <<>>, typed |-> {},
                     results |-> <<>>, exited |-> FALSE]
    BY DEF Init
  <2>2. opened \in BOOLEAN
    OBVIOUS
  <2> HIDE DEF opened
  <2>3. /\ client[c] \in ClientOf(c) /\ client[c].opened = opened
        /\ client[c].inbox = <<>> /\ client[c].sent = 0 /\ client[c].asked = <<>>
    BY <1>3, <2>1, <2>2 DEF ClientOf
  <2>. QED  BY <2>3 DEF opened
<1>6. proc = [c \in Conns |-> proc[c]]
  BY DEF Init
<1>7. ASSUME NEW c \in Conns
      PROVE  /\ proc[c] \in ProcOf(c) /\ proc[c].want = First(c) /\ proc[c].backlog = <<>>
  <2> DEFINE listening == c \in Begun \intersect Attachers
             want == First(c)
  <2>1. proc[c] = [on |-> TRUE, want |-> want, told |-> FALSE,
                   answered |-> FALSE, making |-> FALSE, closing |-> FALSE,
                   unflushed |-> FALSE, out |-> <<>>,
                   typing |-> None, errand |-> None, to |-> None,
                   reached |-> FALSE, listening |-> listening,
                   received |-> {}, keys |-> None, backlog |-> <<>>]
    BY DEF Init
  <2>2. listening \in BOOLEAN /\ want \in WantsOf(c) /\ None \in Nat /\ {} \in SUBSET Nat
    BY <1>1 DEF None
  <2> HIDE DEF listening, want
  <2>3. proc[c] \in ProcOf(c) /\ proc[c].want = want /\ proc[c].backlog = <<>>
    BY <1>3, <2>1, <2>2 DEF ProcOf
  <2>. QED  BY <2>3 DEF want
<1>8. up = [c \in Conns |-> up[c]] /\ \A c \in Conns : up[c] = Quiet /\ up[c] \in UpOf(c)
  BY <1>3 DEF Init, Quiet, UpOf
<1>9. coming \in [Conns -> SUBSET Nat]
  BY DEF Init
<1>10. /\ srv.conn = [c \in Conns |-> srv.conn[c]]
       /\ srv = [conn |-> srv.conn, asked |-> 0, last |-> 0, phase |-> "serving", ran |-> {}]
  BY DEF Init
<1>11. ASSUME NEW c \in Conns
       PROVE  /\ srv.conn[c] \in ConnOf(c) /\ srv.conn[c].stage = First(c)
              /\ srv.conn[c].deco = <<>> /\ srv.conn[c].processed = 0
              /\ srv.conn[c].down = <<>>
  <2> DEFINE stage == First(c)
             ask == Frame("none", "none", None, 0, 0)
  <2>1. srv.conn[c] = [stage |-> stage, deco |-> <<>>, pending |-> FALSE, asked |-> ask,
                       due |-> FALSE, stuck |-> "no", gone |-> FALSE, processed |-> 0,
                       tokens |-> {}, keys |-> {}, down |-> <<>>]
    BY DEF Init
  <2>2. stage \in StagesOf(c) /\ stage \notin {"blocked", "waiting"} /\ ask \in AskOf
    BY <1>1, <1>2
  <2> HIDE DEF stage, ask
  <2>3. {} \in SUBSET (Attachers \X Nat) /\ {} \in SUBSET Nat
    OBVIOUS
  <2>4. /\ srv.conn[c] \in ConnOf(c) /\ srv.conn[c].stage = stage
        /\ srv.conn[c].deco = <<>> /\ srv.conn[c].processed = 0
        /\ srv.conn[c].down = <<>>
    BY <1>3, <2>1, <2>2, <2>3 DEF ConnOf
  <2>. QED  BY <2>4 DEF stage
<1>12. SrvType(srv) /\ srv.ran = {}
  BY <1>10, <1>11 DEF SrvType
<1>13. \A c \in Conns : Good(c, client[c], proc[c], up[c], srv.conn[c])
  <2> SUFFICES ASSUME NEW c \in Conns
               PROVE  Good(c, client[c], proc[c], up[c], srv.conn[c])
    OBVIOUS
  <2> DEFINE k == client[c]
             p == proc[c]
             u == up[c]
             conn == srv.conn[c]
  <2>1. u.frames = <<>> /\ u \in UpOf(c)
    BY <1>8 DEF Quiet
  <2>2. /\ k \in ClientOf(c) /\ (k.opened <=> c \in Begun) /\ k.inbox = <<>> /\ k.sent = 0
        /\ k.asked = <<>>
    BY <1>5
  <2>3. p \in ProcOf(c) /\ p.want = First(c) /\ p.backlog = <<>>
    BY <1>7
  <2>4. /\ conn \in ConnOf(c) /\ conn.stage = First(c) /\ conn.deco = <<>>
        /\ conn.processed = 0 /\ conn.down = <<>>
    BY <1>11
  <2> HIDE DEF k, p, u, conn
  <2>5. Good(c, k, p, u, conn)
    BY <2>1, <2>2, <2>3, <2>4, BeginsGood
  <2>. QED  BY <2>5 DEF k, p, u, conn
<1>. QED  BY <1>4, <1>5, <1>6, <1>7, <1>8, <1>9, <1>12, <1>13 DEF IInv, Types, Fenced, Good

LEMMA NextKeeps ==
    ASSUME IInv, [Next]_vars
    PROVE  IInv'
<1>1. CASE UNCHANGED vars
  BY <1>1 DEF vars, IInv, Types, Fenced, SrvType
<1>2. CASE Server
  BY <1>2, TurnKeeps, StopKeeps, StopOverKeeps, ServeKeeps DEF Server
<1>3. ASSUME NEW c \in Conns, Process(c)
      PROVE  IInv'
  BY <1>3, ForwardKeeps, TellShutKeeps, WriteKeeps, HearServerKeeps, CarryKeeps, TakeBodiesKeeps
     DEF Process
<1>4. ASSUME NEW c \in Conns, Client(c)
      PROVE  IInv'
  BY <1>4, ClientKeeps
<1>5. ASSUME NEW c \in Conns, Happens(c) \/ Stick(c) \/ GoOn(c)
      PROVE  IInv'
  BY <1>5, KinKeeps
<1>. QED  BY <1>1, <1>2, <1>3, <1>4, <1>5 DEF Next

\* Each connection's stage, what its process wants and what its client is at
\* go together, whatever is on its way between them (struct Conn, enum Stage,
\* enum Want).
THEOREM InvariantHolds == Spec => []IInv
<1>1. Init => IInv
  BY InitHolds
<1>2. IInv /\ [Next]_vars => IInv'
  BY NextKeeps
<1>. QED  BY <1>1, <1>2, PTL DEF Spec

LEMMA FramesFit ==
    ASSUME IInv
    PROVE  EveryFrameFits
<1> SUFFICES ASSUME NEW c \in Conns
             PROVE  /\ proc[c].on /\ client[c].inbox # <<>> /\ proc[c].want \in Wants
                        => Fits(proc[c].want, Head(client[c].inbox).f)
                    /\ srv.conn[c].deco # <<>> /\ Stage(srv, c) \in Wants
                        => Fits(Stage(srv, c), Head(srv.conn[c].deco).f)
  BY DEF EveryFrameFits
<1> DEFINE k == client[c]
           p == proc[c]
           u == up[c]
           conn == srv.conn[c]
<1>1. /\ k \in ClientOf(c) /\ p \in ProcOf(c) /\ u \in UpOf(c) /\ conn \in ConnOf(c)
      /\ Lined(c, k, u, conn) /\ Wanted(c, k, p, conn)
  BY TypesAre DEF IInv
<1>2. /\ k.inbox \in Seq(SentBy(c)) /\ conn.deco \in Seq(SentBy(c)) /\ p.want \in WantsOf(c)
      /\ conn.stage \in StagesOf(c) /\ conn.processed \in Nat
  BY <1>1 DEF ClientOf, ConnOf, ProcOf
<1>3. \A d \in Commands : d \notin Attachers
  BY ConnsAssumption
<1>4. ASSUME k.inbox # <<>>, p.want \in Wants
      PROVE  Fits(p.want, Head(k.inbox).f)
  <2>1. k.opened /\ 1 \in DOMAIN k.inbox /\ Head(k.inbox) = k.inbox[1]
    BY <1>1, <1>2, <1>4 DEF Lined
  <2> DEFINE a == Pos(c, k)
             frame == k.inbox[1]
  <2>2. Right(c, frame, a + 1) /\ a \in Int
    BY <1>1, <2>1, PosIs DEF Lined, Numbered
  <2>3. /\ p.want = "hello" => a = -Opening(c)
        /\ p.want = "attaching" => a = -1
        /\ p.want \in {"attached", "command"} => a >= 0
    BY <1>1, <2>1 DEF Wanted
  <2> HIDE DEF a, frame, p
  <2>4. Fits(p.want, frame.f)
    BY <1>2, <1>3, <1>4, <2>2, <2>3 DEF Right, Fits, Wants, WantsOf, Opening, Acts
  <2>. QED  BY <2>1, <2>4 DEF frame
<1>5. ASSUME conn.deco # <<>>, conn.stage \in Wants
      PROVE  Fits(conn.stage, Head(conn.deco).f)
  <2>1. k.opened /\ 1 \in DOMAIN conn.deco /\ Head(conn.deco) = conn.deco[1]
    BY <1>1, <1>2, <1>5 DEF Lined
  <2> DEFINE a == At(c, k, u, conn)
             frame == conn.deco[1]
  <2>2. conn.stage \notin OverStages
    BY <1>5 DEF Wants, OverStages
  <2>3. Right(c, frame, a + 1) /\ a \in Int /\ IsAt(c, conn, a)
    <3>1. Pos(c, k) \in Int /\ Len(u.frames) \in Nat /\ Len(conn.deco) \in Nat
      BY <1>1, PosIs DEF UpOf, ConnOf
    <3>2. a \in Int
      <4> DEFINE b == Pos(c, k)
                 x == Len(u.frames)
                 y == Len(conn.deco)
      <4>1. a = b - x - y
        BY DEF At
      <4> HIDE DEF a, b, x, y
      <4>2. b \in Int /\ x \in Nat /\ y \in Nat
        BY <3>1 DEF b, x, y
      <4>. QED  BY <4>1, <4>2
    <3>. QED  BY <1>1, <2>1, <2>2, <3>2 DEF Lined, Numbered
  <2> HIDE DEF a, frame, conn
  <2>4. Fits(conn.stage, frame.f)
    BY <1>2, <1>3, <1>5, <2>3 DEF Right, Fits, Wants, StagesOf, Opening, Acts, IsAt, Asking, OverStages
  <2>. QED  BY <2>1, <2>4 DEF frame
<1>. QED  BY <1>4, <1>5 DEF Stage

LEMMA TypesFit ==
    ASSUME Types
    PROVE  TypeOK
<1> SUFFICES ASSUME NEW c \in Conns
             PROVE  /\ client[c].side \in {"open", "shut", "gone"}
                    /\ client[c].inbox \in Seq(Sents)
                    /\ up[c] \in [frames : Seq(Sents), flushed : BOOLEAN, shut : BOOLEAN]
                    /\ proc[c].want \in Wants \union {"answer", "nothing"}
                    /\ {proc[c].on, proc[c].told, proc[c].answered, proc[c].making,
                        proc[c].closing, proc[c].unflushed, proc[c].reached,
                        proc[c].listening} \subseteq BOOLEAN
                    /\ proc[c].out \in Seq(Said) /\ proc[c].backlog \in Seq(Said)
                    /\ srv.conn[c].stage \in
                        Wants \union {"blocked", "waiting", "closing", "dead", "closed"}
                    /\ srv.conn[c].deco \in Seq(Sents) /\ srv.conn[c].down \in Seq(Said)
                    /\ srv.conn[c].tokens \subseteq Attachers \X Nat
                    /\ coming[c] \union srv.conn[c].keys \union proc[c].received \subseteq Nat
  BY DEF TypeOK, Types, SrvType
<1>1. /\ client[c] \in ClientOf(c) /\ proc[c] \in ProcOf(c) /\ up[c] \in UpOf(c)
      /\ srv.conn[c] \in ConnOf(c) /\ coming[c] \in SUBSET Nat
  BY TypesAre
<1>2. SentBy(c) \subseteq Sents /\ WordTo(c) \subseteq Said
  BY DEF SentBy, WordTo
<1>3. (\A q : q \in Seq(SentBy(c)) => q \in Seq(Sents)) /\ \A q : q \in Seq(WordTo(c)) => q \in Seq(Said)
  BY <1>2
<1>4. client[c].side \in {"open", "shut", "gone"} /\ client[c].inbox \in Seq(SentBy(c))
  BY <1>1 DEF ClientOf
<1>5. up[c] \in [frames : Seq(Sents), flushed : BOOLEAN, shut : BOOLEAN]
  BY <1>1, <1>3 DEF UpOf
<1>6. /\ proc[c].want \in WantsOf(c) /\ proc[c].out \in Seq(WordTo(c))
      /\ proc[c].backlog \in Seq(WordTo(c)) /\ proc[c].received \in SUBSET Nat
      /\ {proc[c].on, proc[c].told, proc[c].answered, proc[c].making,
          proc[c].closing, proc[c].unflushed, proc[c].reached,
          proc[c].listening} \subseteq BOOLEAN
  BY <1>1 DEF ProcOf
<1>7. /\ srv.conn[c].stage \in StagesOf(c) /\ srv.conn[c].deco \in Seq(SentBy(c))
      /\ srv.conn[c].down \in Seq(WordTo(c)) /\ srv.conn[c].tokens \subseteq Attachers \X Nat
      /\ srv.conn[c].keys \in SUBSET Nat
  BY <1>1 DEF ConnOf
<1>8. WantsOf(c) \subseteq Wants \union {"answer", "nothing"}
  BY DEF WantsOf, Wants
<1>9. StagesOf(c) \subseteq Wants \union {"blocked", "waiting", "closing", "dead", "closed"}
  BY DEF StagesOf, Wants, OverStages, Asking
<1>. QED  BY <1>1, <1>3, <1>4, <1>5, <1>6, <1>7, <1>8, <1>9

\* A frame is decoded as what its client sends then, by its process and by
\* its server, however much of it comes before it is asked for (Expect, Want,
\* Server::take_frame): any other frame is a bad one.
THEOREM StagesSound == Spec => []StagesAreSound
<1>1. IInv => StagesAreSound
  BY FramesFit, TypesFit DEF StagesAreSound, IInv
<1>. QED  BY <1>1, InvariantHolds, PTL

LEMMA FencesFollow ==
    ASSUME IInv
    PROVE  FencesHold
<1> SUFFICES ASSUME NEW fence \in srv.ran, Stage(srv, fence[1]) = "attached",
                    NEW f, \E q \in {client[fence[1]].inbox, up[fence[1]].frames,
                                     srv.conn[fence[1]].deco} : \E j \in DOMAIN q : f = q[j]
             PROVE  f.i = 0 \/ f.i > fence[2]
  BY DEF FencesHold
<1> DEFINE c == fence[1]
           k == client[c]
           u == up[c]
           conn == srv.conn[c]
<1>1. c \in Attachers /\ c \in Conns /\ fence[2] \in Nat /\ fence[2] <= conn.processed
  BY DEF IInv, Types, SrvType, Fenced, Conns
<1> HIDE DEF c
<1>2. /\ k \in ClientOf(c) /\ u \in UpOf(c) /\ conn \in ConnOf(c) /\ Lined(c, k, u, conn)
  BY <1>1, TypesAre DEF IInv
<1>3. conn.stage = "attached" /\ c \notin Commands
  BY <1>1, ConnsAssumption DEF Stage, c
<1> DEFINE a == Pos(c, k)
           x == Len(u.frames)
           y == Len(conn.deco)
           n == conn.processed
<1>4. /\ k.opened /\ Numbered(c, k.inbox, a) /\ Numbered(c, u.frames, a - x)
      /\ Numbered(c, conn.deco, a - x - y) /\ a - x - y = n
  BY <1>2, <1>3 DEF Lined, OverStages, At, IsAt
<1>5. a \in Int /\ x \in Nat /\ y \in Nat /\ n \in Nat
  BY <1>1, <1>2, PosIs DEF UpOf, ConnOf
<1>6. /\ k.inbox \in Seq(SentBy(c)) /\ u.frames \in Seq(SentBy(c))
      /\ conn.deco \in Seq(SentBy(c))
  BY <1>2 DEF ClientOf, UpOf, ConnOf
<1>7. \E m \in Int : m > n /\ Right(c, f, m)
  <2>1. PICK q \in {k.inbox, u.frames, conn.deco} : \E j \in DOMAIN q : f = q[j]
    BY DEF c
  <2>2. PICK j \in DOMAIN q : f = q[j]
    BY <2>1
  <2>3. j \in Nat /\ j >= 1
    BY <1>6, <2>1, <2>2
  <2>4. CASE q = k.inbox
    <3>1. Right(c, f, a + j)
      BY <1>4, <2>2, <2>4 DEF Numbered
    <3> HIDE DEF a, x, y, n
    <3>2. a + j > n /\ a + j \in Int
      BY <1>4, <1>5, <2>3
    <3>. QED  BY <3>1, <3>2
  <2>5. CASE q = u.frames
    <3>1. Right(c, f, (a - x) + j)
      BY <1>4, <2>2, <2>5 DEF Numbered
    <3> HIDE DEF a, x, y, n
    <3>2. (a - x) + j > n /\ (a - x) + j \in Int
      BY <1>4, <1>5, <2>3
    <3>. QED  BY <3>1, <3>2
  <2>6. CASE q = conn.deco
    <3>1. Right(c, f, (a - x - y) + j)
      BY <1>4, <2>2, <2>6 DEF Numbered
    <3> HIDE DEF a, x, y, n
    <3>2. (a - x - y) + j > n /\ (a - x - y) + j \in Int
      BY <1>4, <1>5, <2>3
    <3>. QED  BY <3>1, <3>2
  <2>. QED  BY <2>1, <2>4, <2>5, <2>6
<1>8. PICK m \in Int : m > n /\ Right(c, f, m)
  BY <1>7
<1> HIDE DEF n
<1>9. m >= 1
  BY <1>5, <1>8
<1>10. f.i = m
  BY <1>3, <1>8, <1>9 DEF Right
<1>. QED  BY <1>1, <1>5, <1>8, <1>10 DEF n

\* A fenced request runs once none of the frames it follows is on its way
\* (Server::ordered_request): a key's program acts after the key.
THEOREM FencesAreHeld == Spec => []FencesHold
<1>1. IInv => FencesHold
  BY FencesFollow
<1>. QED  BY <1>1, InvariantHolds, PTL

-----------------------------------------------------------------------------
(* Its end: the inductive invariant.                                       *)

SaysExit(q) == \E i \in 1..Len(q) : IsExit(q[i])
ExitBefore(q, n) == \E i \in 1..(n - 1) : IsExit(q[i])

\* Where its process is told to close, its client had its last word, or it
\* is on its way ahead of that.
Heralded(k, out, b) ==
    \A i \in 1..Len(b) : b[i].m = "close" => k.exited \/ SaysExit(out) \/ ExitBefore(b, i)
Ordered(k, p, conn) ==
    /\ ~p.on => k.exited
    /\ p.closing => k.exited \/ SaysExit(p.out)
    /\ Heralded(k, p.out, p.backlog)
    /\ SaysExit(p.backlog) \/ Heralded(k, p.out, conn.down)
    /\ conn.gone \/ conn.stage \in {"dead", "closed"} => ~p.on

\* Nothing on its way ends it.
Closeless(q) == \A i \in 1..Len(q) : q[i].m # "close"
Living(p, conn) ==
    /\ p.on /\ ~p.closing /\ ~conn.gone /\ conn.stage \notin OverStages
    /\ Closeless(p.backlog) /\ Closeless(conn.down)

\* While a connection's client still reads and writes.
EndsWell(c, k, p, u, conn, phase) ==
    k.side = "open" =>
        /\ ~u.shut
        /\ phase # "cut" => Ordered(k, p, conn)
        /\ phase = "serving" /\ c \in Commands => Living(p, conn)
EndInv == \A c \in Conns : EndsWell(c, client[c], proc[c], up[c], srv.conn[c], srv.phase)

LEMMA GrowsExits ==
    ASSUME NEW S, NEW q \in Seq(S), NEW r \in Seq(S), Grows(q, r), SaysExit(q)
    PROVE  SaysExit(r)
<1>1. Len(q) \in Nat /\ Len(r) \in Nat
  OBVIOUS
<1>2. PICK i \in 1..Len(q) : IsExit(q[i])
  BY DEF SaysExit
<1>3. i \in 1..Len(r) /\ r[i] = q[i]
  BY <1>1 DEF Grows
<1>. QED  BY <1>2, <1>3 DEF SaysExit

LEMMA HeraldedOn ==
    ASSUME NEW k, NEW l, k.exited => l.exited, NEW out, NEW more, NEW b, Heralded(k, out, b),
           SaysExit(out) => SaysExit(more) \/ l.exited
    PROVE  Heralded(l, more, b)
  BY DEF Heralded

\* Words kept are let go, or another is kept.
LEMMA ShortenedExits ==
    ASSUME NEW S, NEW b \in Seq(S), NEW r \in Seq(S), Shortened(b, r), NEW k, NEW out
    PROVE  /\ SaysExit(b) => SaysExit(r)
           /\ Heralded(k, out, b) => Heralded(k, out, r)
           /\ Closeless(b) => Closeless(r)
<1>1. PICK i \in 1..Len(b) :
        /\ b[i].m = "keys" /\ Len(r) = Len(b) - 1
        /\ \A j \in 1..Len(r) : r[j] = b[IF j < i THEN j ELSE j + 1]
  BY DEF Shortened
<1> DEFINE at(j) == IF j < i THEN j ELSE j + 1
           from(j) == IF j < i THEN j ELSE j - 1
<1>2. Len(b) \in Nat /\ Len(r) \in Nat /\ i \in Nat /\ Len(r) = Len(b) - 1
  BY <1>1
<1>3. \A j \in 1..Len(r) : at(j) \in 1..Len(b) /\ r[j] = b[at(j)]
  BY <1>1, <1>2
<1>4. \A j \in 1..Len(b) : j # i => from(j) \in 1..Len(r) /\ r[from(j)] = b[j]
  <2> SUFFICES ASSUME NEW j \in 1..Len(b), j # i
               PROVE  from(j) \in 1..Len(r) /\ r[from(j)] = b[j]
    OBVIOUS
  <2>1. from(j) \in 1..Len(r) /\ at(from(j)) = j
    BY <1>2
  <2> HIDE DEF at, from
  <2>. QED  BY <1>3, <2>1
<1>5. \A n \in 1..Len(r) : \A j \in 1..(at(n) - 1) :
        j \in 1..Len(b) /\ (j # i => from(j) \in 1..(n - 1))
  BY <1>2
<1> HIDE DEF at, from
<1>6. ~IsExit(b[i])
  BY <1>1 DEF IsExit
<1>7. SaysExit(b) => SaysExit(r)
  BY <1>4, <1>6 DEF SaysExit
<1>8. \A n \in 1..Len(r) : ExitBefore(b, at(n)) => ExitBefore(r, n)
  <2> SUFFICES ASSUME NEW n \in 1..Len(r), ExitBefore(b, at(n))
               PROVE  ExitBefore(r, n)
    OBVIOUS
  <2>1. PICK j \in 1..(at(n) - 1) : IsExit(b[j])
    BY DEF ExitBefore
  <2>2. j \in 1..Len(b) /\ from(j) \in 1..(n - 1) /\ r[from(j)] = b[j]
    BY <1>4, <1>5, <1>6, <2>1
  <2>. QED  BY <2>1, <2>2 DEF ExitBefore
<1>9. Heralded(k, out, b) => Heralded(k, out, r)
  BY <1>3, <1>8 DEF Heralded
<1>10. Closeless(b) => Closeless(r)
  BY <1>3 DEF Closeless
<1>. QED  BY <1>7, <1>9, <1>10

LEMMA AppendExits ==
    ASSUME NEW S, NEW b \in Seq(S), NEW word \in S, NEW k, NEW out
    PROVE  LET r == Append(b, word)
           IN  /\ SaysExit(b) \/ IsExit(word) => SaysExit(r)
               /\ Heralded(k, out, b)
                    /\ (word.m = "close" => k.exited \/ SaysExit(out) \/ SaysExit(b))
                    => Heralded(k, out, r)
               /\ Closeless(b) /\ word.m # "close" => Closeless(r)
<1> DEFINE r == Append(b, word)
<1>1. /\ Len(b) \in Nat /\ Len(r) = Len(b) + 1 /\ r[Len(b) + 1] = word
      /\ \A j \in 1..Len(b) : r[j] = b[j]
  OBVIOUS
<1> HIDE DEF r
<1>2. \A j \in 1..Len(b) : j \in 1..Len(r)
  BY <1>1
<1>3. \A j \in 1..Len(r) : j = Len(b) + 1 \/ j \in 1..Len(b)
  BY <1>1
<1>4. SaysExit(b) \/ IsExit(word) => SaysExit(r)
  <2>1. Len(b) + 1 \in 1..Len(r)
    BY <1>1
  <2>. QED  BY <1>1, <1>2, <2>1 DEF SaysExit
<1>5. \A n \in 1..Len(b) : ExitBefore(b, n) => ExitBefore(r, n)
  <2> SUFFICES ASSUME NEW n \in 1..Len(b), NEW j \in 1..(n - 1), IsExit(b[j])
               PROVE  IsExit(r[j])
    BY DEF ExitBefore
  <2>1. j \in 1..Len(b)
    BY <1>1
  <2>. QED  BY <1>1, <2>1
<1>6. SaysExit(b) => ExitBefore(r, Len(b) + 1)
  <2> SUFFICES ASSUME NEW j \in 1..Len(b), IsExit(b[j])
               PROVE  ExitBefore(r, Len(b) + 1)
    BY DEF SaysExit
  <2>1. j \in 1..((Len(b) + 1) - 1) /\ r[j] = b[j]
    BY <1>1
  <2>. QED  BY <2>1 DEF ExitBefore
<1>7. ASSUME Heralded(k, out, b), word.m = "close" => k.exited \/ SaysExit(out) \/ SaysExit(b)
      PROVE  Heralded(k, out, r)
  BY <1>1, <1>3, <1>5, <1>6, <1>7 DEF Heralded
<1>8. Closeless(b) /\ word.m # "close" => Closeless(r)
  BY <1>1, <1>3 DEF Closeless
<1>. QED  BY <1>4, <1>7, <1>8 DEF r

\* What its server does to a connection that goes on.
LEMMA ConnOrdered ==
    ASSUME NEW c \in Conns, NEW k, NEW p, NEW conn \in ConnOf(c), Ordered(k, p, conn),
           NEW l \in ConnOf(c), Grows(conn.down, l.down), Ends(c, conn, l), l.gone = conn.gone
    PROVE  Ordered(k, p, l)
<1>1. Len(conn.down) \in Nat /\ Len(l.down) \in Nat
  BY DEF ConnOf
<1>2. Heralded(k, p.out, conn.down) => Heralded(k, p.out, l.down)
  <2> SUFFICES ASSUME Heralded(k, p.out, conn.down), NEW j \in 1..Len(l.down),
                      l.down[j].m = "close"
               PROVE  k.exited \/ SaysExit(p.out) \/ ExitBefore(l.down, j)
    BY DEF Heralded
  <2>1. CASE j > Len(conn.down)
    BY <2>1 DEF Ends, Orderly, ExitBefore
  <2>2. CASE ~(j > Len(conn.down))
    <3>1. j \in 1..Len(conn.down) /\ l.down[j] = conn.down[j]
      BY <1>1, <2>2 DEF Grows
    <3>2. ExitBefore(conn.down, j) => ExitBefore(l.down, j)
      <4>1. \A i \in 1..(j - 1) : i \in 1..Len(conn.down)
        BY <1>1, <3>1
      <4>. QED  BY <4>1 DEF ExitBefore, Grows
    <3>. QED  BY <3>1, <3>2 DEF Heralded
  <2>. QED  BY <2>1, <2>2
<1>. QED  BY <1>2 DEF Ordered, Ends

LEMMA LivingOn ==
    ASSUME NEW c \in Commands, NEW p, NEW conn \in ConnOf(c), Living(p, conn),
           NEW l \in ConnOf(c), Grows(conn.down, l.down), Lives(c, conn, l), l.gone = conn.gone
    PROVE  Living(p, l)
<1>1. Len(conn.down) \in Nat /\ Len(l.down) \in Nat
  BY DEF ConnOf
<1>2. ASSUME NEW j \in 1..Len(l.down)
      PROVE  l.down[j].m # "close"
  <2>1. CASE j > Len(conn.down)
    BY <2>1 DEF Lives, Living
  <2>2. CASE ~(j > Len(conn.down))
    <3>1. j \in 1..Len(conn.down) /\ l.down[j] = conn.down[j]
      BY <1>1, <2>2 DEF Grows
    <3>. QED  BY <3>1 DEF Living, Closeless
  <2>. QED  BY <2>1, <2>2
<1>. QED  BY <1>2 DEF Living, Lives, Closeless

\* It is told what it was to be told.
LEMMA ToldOrdered ==
    ASSUME NEW c \in Conns, NEW k, NEW p \in ProcOf(c), NEW conn \in ConnOf(c),
           Ordered(k, p, conn),
           NEW l, l.stage = conn.stage, l.gone = conn.gone, l.down = <<>>
    PROVE  LET q == Told(p, conn.down)
           IN  /\ q \in ProcOf(c) /\ Ordered(k, q, l)
               /\ Living(p, conn) => Living(q, l)
<1> DEFINE words == conn.down
           N == Len(words)
           q == Told(p, words)
<1>0. words \in Seq(WordTo(c)) /\ N \in Nat
  BY DEF ConnOf
<1>1. PICK h : /\ h[0] = p /\ q = h[N]
               /\ \A n \in 1..N : h[n] = Urgent(h[n - 1], words[n])
               /\ \A n \in 0..N : h[n] \in ProcOf(c)
  <2> HIDE DEF words
  <2>. QED  BY <1>0, ToldRuns
<1> HIDE DEF q
<1> DEFINE Fine(x, n) ==
            /\ x.on = p.on /\ x.closing = p.closing
            /\ SaysExit(p.out) => SaysExit(x.out)
            /\ SaysExit(p.backlog) => SaysExit(x.backlog)
            /\ Heralded(k, x.out, x.backlog)
            /\ \A j \in 1..n : IsExit(words[j]) => SaysExit(x.backlog)
            /\ Closeless(p.backlog) /\ Closeless(words) => Closeless(x.backlog)
           S == {n \in 0..N : Fine(h[n], n)}
<1>2. 0 \in S
  BY <1>0, <1>1 DEF Ordered
<1>3. ASSUME NEW n \in 1..N, n - 1 \in S
      PROVE  n \in S
  <2> DEFINE x == h[n - 1]
             y == h[n]
             word == words[n]
  <2>1. Fine(x, n - 1) /\ y = Urgent(x, word) /\ x \in ProcOf(c) /\ n - 1 \in 0..N
    BY <1>0, <1>1, <1>3
  <2>2. word \in WordTo(c) /\ n \in 0..N
    BY <1>0
  <2>3. word.m = "close" => k.exited \/ SaysExit(x.out) \/ SaysExit(x.backlog)
    <3>1. SaysExit(p.backlog) \/ Heralded(k, p.out, words)
      BY DEF Ordered
    <3>2. ExitBefore(words, n) => SaysExit(x.backlog)
      BY <2>1 DEF ExitBefore
    <3>. QED  BY <2>1, <3>1, <3>2 DEF Heralded
  <2>3a. Closeless(words) => word.m # "close"
    BY DEF Closeless
  <2>3b. \A j \in 1..n : j = n \/ j \in 1..(n - 1)
    BY <1>0
  <2> HIDE DEF x, y, word
  <2>4. /\ y \in ProcOf(c) /\ y.on = x.on /\ y.closing = x.closing /\ Grows(x.out, y.out)
        /\ word.m \in {"drop", "typed"} =>
            y.backlog = x.backlog \/ Shortened(x.backlog, y.backlog)
        /\ word.m \notin {"drop", "typed"} => y.backlog = Append(x.backlog, word)
    BY <2>1, <2>2, UrgentIs
  <2>5. /\ x.backlog \in Seq(WordTo(c)) /\ y.backlog \in Seq(WordTo(c))
        /\ x.out \in Seq(WordTo(c)) /\ y.out \in Seq(WordTo(c))
    BY <2>1, <2>4 DEF ProcOf
  <2>6. SaysExit(x.out) => SaysExit(y.out)
    BY <2>4, <2>5, GrowsExits
  <2>7. Heralded(k, y.out, x.backlog)
    BY <2>1, <2>6, HeraldedOn
  <2>8. /\ SaysExit(x.backlog) \/ IsExit(word) => SaysExit(y.backlog)
        /\ Heralded(k, y.out, y.backlog)
        /\ Closeless(x.backlog) /\ word.m # "close" => Closeless(y.backlog)
    <3>1. CASE word.m \in {"drop", "typed"}
      <4>1. ~IsExit(word)
        BY <3>1 DEF IsExit
      <4>2. y.backlog = x.backlog \/ Shortened(x.backlog, y.backlog)
        BY <2>4, <3>1
      <4>3. CASE y.backlog = x.backlog
        BY <2>7, <4>1, <4>3
      <4>4. CASE Shortened(x.backlog, y.backlog)
        BY <2>5, <2>7, <4>1, <4>4, ShortenedExits
      <4>. QED  BY <4>2, <4>3, <4>4
    <3>2. CASE word.m \notin {"drop", "typed"}
      <4>1. y.backlog = Append(x.backlog, word)
        BY <2>4, <3>2
      <4>2. word.m = "close" => k.exited \/ SaysExit(y.out) \/ SaysExit(x.backlog)
        BY <2>3, <2>6 DEF x, word
      <4>. QED  BY <2>2, <2>5, <2>7, <4>1, <4>2, AppendExits
    <3>. QED  BY <3>1, <3>2
  <2>9. \A j \in 1..n : IsExit(words[j]) => SaysExit(y.backlog)
    BY <2>1, <2>3b, <2>8 DEF word
  <2>10. Fine(y, n)
    BY <2>1, <2>3a, <2>4, <2>6, <2>8, <2>9 DEF word
  <2>. QED  BY <2>2, <2>10 DEF y
<1>4. \A n \in 0..N : n \in S
  <2> HIDE DEF S, N
  <2>. QED  BY <1>0, <1>2, <1>3, Climbs
<1>5. Fine(q, N) /\ q \in ProcOf(c)
  <2>1. N \in S /\ N \in 0..N
    <3> HIDE DEF S, N
    <3>. QED  BY <1>0, <1>4
  <2>. QED  BY <1>1, <2>1
<1>6. Heralded(k, q.out, l.down) /\ Closeless(l.down)
  BY DEF Heralded, Closeless
<1>7. Ordered(k, q, l)
  BY <1>5, <1>6 DEF Ordered
<1>8. Living(p, conn) => Living(q, l)
  BY <1>5, <1>6 DEF Living
<1>. QED  BY <1>5, <1>7, <1>8 DEF q

\* It does what it kept, till it keeps what is left.
LEMMA BacklogOrdered ==
    ASSUME NEW c \in Conns, NEW k, NEW p \in ProcOf(c), NEW conn \in ConnOf(c),
           NEW reaches, reaches \subseteq Attachers, Ordered(k, p, conn)
    PROVE  LET q == Backlog(p, reaches)
           IN  /\ q \in ProcOf(c) /\ Ordered(k, q, conn)
               /\ Living(p, conn) => Living(q, conn)
<1> DEFINE words == p.backlog
           N == Len(words)
           q == Backlog(p, reaches)
<1>0. words \in Seq(WordTo(c)) /\ N \in Nat /\ p.out \in Seq(WordTo(c))
  BY DEF ProcOf
<1>1. PICK h : /\ q = Unheld(h[N])
               /\ h[0] \in ProcOf(c) /\ h[0].backlog = <<>> /\ h[0].on = p.on
               /\ h[0].closing = p.closing /\ h[0].out = p.out
               /\ \A n \in 1..N : h[n] = Each(h[n - 1], words[n], reaches)
               /\ \A n \in 0..N : h[n] \in ProcOf(c)
  <2>1. \E g : /\ Backlog(p, reaches) = Unheld(g[Len(p.backlog)])
               /\ g[0] \in ProcOf(c) /\ g[0].backlog = <<>> /\ g[0].want = p.want
               /\ g[0].on = p.on /\ g[0].closing = p.closing /\ g[0].out = p.out
               /\ \A n \in 1..Len(p.backlog) : g[n] = Each(g[n - 1], p.backlog[n], reaches)
               /\ \A n \in 0..Len(p.backlog) : g[n] \in ProcOf(c)
    BY BacklogRuns
  <2>. QED  BY <2>1
<1> HIDE DEF q
<1> DEFINE Fine(x, n) ==
            /\ x.on = p.on /\ (x.closing => k.exited \/ SaysExit(x.out))
            /\ SaysExit(p.out) => SaysExit(x.out)
            /\ Heralded(k, x.out, x.backlog)
            /\ \A j \in 1..n : IsExit(words[j]) => SaysExit(x.out) \/ SaysExit(x.backlog)
            /\ x.backlog # <<>> => x.keys # None /\ x.keys \notin x.received
            /\ ~p.closing /\ Closeless(words) => ~x.closing /\ Closeless(x.backlog)
           S == {n \in 0..N : Fine(h[n], n)}
<1>2. 0 \in S
  <2>1. Heralded(k, h[0].out, h[0].backlog) /\ Closeless(h[0].backlog)
    BY <1>1 DEF Heralded, Closeless
  <2>. QED  BY <1>0, <1>1, <2>1 DEF Ordered
<1>3. ASSUME NEW n \in 1..N, n - 1 \in S
      PROVE  n \in S
  <2> DEFINE x == h[n - 1]
             y == h[n]
             word == words[n]
  <2>1. Fine(x, n - 1) /\ y = Each(x, word, reaches) /\ x \in ProcOf(c) /\ n - 1 \in 0..N
    BY <1>0, <1>1, <1>3
  <2>2. word \in WordTo(c) /\ n \in 0..N
    BY <1>0
  <2>3. word.m = "close" => k.exited \/ SaysExit(x.out) \/ SaysExit(x.backlog)
    <3>1. Heralded(k, p.out, words)
      BY DEF Ordered
    <3>2. ExitBefore(words, n) => SaysExit(x.out) \/ SaysExit(x.backlog)
      BY <2>1 DEF ExitBefore
    <3>. QED  BY <2>1, <3>1, <3>2 DEF Heralded
  <2>4. Closeless(words) => word.m # "close"
    BY DEF Closeless
  <2>5. \A j \in 1..n : j = n \/ j \in 1..(n - 1)
    BY <1>0
  <2> HIDE DEF x, y, word
  <2>6. /\ y \in ProcOf(c) /\ y.on = x.on /\ Grows(x.out, y.out)
        /\ IsKept(x, word, y) \/ IsDone(x, word, y)
    BY <2>1, <2>2, EachIs
  <2>7. /\ x.backlog \in Seq(WordTo(c)) /\ y.backlog \in Seq(WordTo(c))
        /\ x.out \in Seq(WordTo(c)) /\ y.out \in Seq(WordTo(c))
    BY <2>1, <2>6 DEF ProcOf
  <2>8. SaysExit(x.out) => SaysExit(y.out)
    BY <2>6, <2>7, GrowsExits
  <2>9. Heralded(k, y.out, x.backlog)
    BY <2>1, <2>8, HeraldedOn
  <2>10. CASE IsKept(x, word, y)
    <3>1. /\ y.backlog = Append(x.backlog, word) /\ y.closing = x.closing
          /\ y.keys # None /\ y.keys \notin y.received
      BY <2>10 DEF IsKept
    <3>2. word.m = "close" => k.exited \/ SaysExit(y.out) \/ SaysExit(x.backlog)
      BY <2>3, <2>8 DEF x, word
    <3>3. /\ SaysExit(x.backlog) \/ IsExit(word) => SaysExit(y.backlog)
          /\ Heralded(k, y.out, y.backlog)
          /\ Closeless(x.backlog) /\ word.m # "close" => Closeless(y.backlog)
      BY <2>2, <2>7, <2>9, <3>1, <3>2, AppendExits
    <3>4. \A j \in 1..n : IsExit(words[j]) => SaysExit(y.out) \/ SaysExit(y.backlog)
      BY <2>1, <2>5, <2>8, <3>3 DEF word
    <3>5. Fine(y, n)
      BY <2>1, <2>4, <2>6, <2>8, <3>1, <3>3, <3>4 DEF word
    <3>. QED  BY <2>2, <3>5 DEF y
  <2>11. CASE IsDone(x, word, y)
    <3>1. /\ y.backlog = <<>> /\ x.backlog = <<>>
          /\ word.m # "close" => y.closing = x.closing
          /\ IsExit(word) => SaysExit(y.out)
      BY <2>1, <2>11 DEF IsDone, SaysExit
    <3>2. ~SaysExit(x.backlog) /\ Closeless(y.backlog)
      BY <3>1 DEF SaysExit, Closeless
    <3>3. y.closing => k.exited \/ SaysExit(y.out)
      BY <2>1, <2>3, <2>8, <3>1, <3>2 DEF x, word
    <3>4. \A j \in 1..n : IsExit(words[j]) => SaysExit(y.out)
      BY <2>1, <2>5, <2>8, <3>1, <3>2 DEF word
    <3>5. ~p.closing /\ Closeless(words) => ~y.closing
      BY <2>1, <2>4, <3>1 DEF word
    <3>6. Heralded(k, y.out, y.backlog)
      BY <2>9, <3>1
    <3>7. Fine(y, n)
      BY <2>1, <2>6, <2>8, <3>1, <3>2, <3>3, <3>4, <3>5, <3>6
    <3>. QED  BY <2>2, <3>7 DEF y
  <2>. QED  BY <2>6, <2>10, <2>11
<1>4. \A n \in 0..N : n \in S
  <2> HIDE DEF S, N
  <2>. QED  BY <1>0, <1>2, <1>3, Climbs
<1>5. Fine(h[N], N) /\ h[N] \in ProcOf(c)
  <2>1. N \in S /\ N \in 0..N
    <3> HIDE DEF S, N
    <3>. QED  BY <1>0, <1>4
  <2>. QED  BY <1>1, <2>1
<1> DEFINE x == h[N]
<1>6. /\ q \in ProcOf(c) /\ q.on = x.on /\ q.closing = x.closing
      /\ q.backlog = x.backlog /\ Grows(x.out, q.out)
  BY <1>1, <1>5, UnheldIs
<1>7. Fine(x, N) /\ x \in ProcOf(c)
  BY <1>5
<1> HIDE DEF x
<1>8. SaysExit(x.out) => SaysExit(q.out)
  <2>1. x.out \in Seq(WordTo(c)) /\ q.out \in Seq(WordTo(c))
    BY <1>6, <1>7 DEF ProcOf
  <2>. QED  BY <1>6, <2>1, GrowsExits
<1>9. Heralded(k, q.out, q.backlog)
  BY <1>6, <1>7, <1>8, HeraldedOn
<1>10. SaysExit(q.backlog) \/ Heralded(k, q.out, conn.down)
  <2>1. CASE SaysExit(words)
    <3>1. SaysExit(q.out) \/ SaysExit(q.backlog)
      BY <1>6, <1>7, <1>8, <2>1 DEF SaysExit
    <3>2. SaysExit(q.out) => Heralded(k, q.out, conn.down)
      BY DEF Heralded
    <3>. QED  BY <3>1, <3>2
  <2>2. CASE ~SaysExit(words)
    <3>1. Heralded(k, p.out, conn.down)
      BY <2>2 DEF Ordered
    <3>2. SaysExit(p.out) => SaysExit(q.out)
      BY <1>7, <1>8
    <3>. QED  BY <3>1, <3>2, HeraldedOn
  <2>. QED  BY <2>1, <2>2
<1>11. q.closing => k.exited \/ SaysExit(q.out)
  BY <1>6, <1>7, <1>8
<1>12. Ordered(k, q, conn)
  BY <1>6, <1>7, <1>9, <1>10, <1>11 DEF Ordered
<1>13. Living(p, conn) => Living(q, conn)
  BY <1>6, <1>7 DEF Living
<1>. QED  BY <1>6, <1>12, <1>13 DEF q

\* What no end depends on.
LEMMA SameEnds ==
    ASSUME NEW c, NEW k, NEW p, NEW u, NEW conn, NEW phase, EndsWell(c, k, p, u, conn, phase),
           NEW l, l.side = "open" => k.side = "open", k.exited => l.exited,
           NEW q, q.on = p.on, q.closing = p.closing, q.backlog = p.backlog, q.out = p.out,
           NEW v, v.shut = u.shut
    PROVE  EndsWell(c, l, q, v, conn, phase)
<1>1. Ordered(k, p, conn) => Ordered(l, q, conn)
  BY DEF Ordered, Heralded
<1>2. Living(p, conn) => Living(q, conn)
  BY DEF Living
<1>. QED  BY <1>1, <1>2 DEF EndsWell

-----------------------------------------------------------------------------
(* The server's steps end them well.                                       *)

LEMMA ServerEnds ==
    ASSUME Types, EndInv, UNCHANGED <<client, proc>>, NEW phase, srv'.phase = phase,
           phase = "serving" => srv.phase = "serving", phase # "cut" => srv.phase # "cut",
           \A c \in Conns : /\ up'[c].shut => up[c].shut
                            /\ phase # "cut" /\ client[c].side = "open" =>
                                /\ Ordered(client[c], proc[c], srv'.conn[c])
                                /\ phase = "serving" /\ c \in Commands =>
                                        Living(proc[c], srv'.conn[c])
    PROVE  EndInv'
<1> SUFFICES ASSUME NEW c \in Conns
             PROVE  EndsWell(c, client[c], proc[c], up'[c], srv'.conn[c], phase)
  BY DEF EndInv
<1>. QED  BY DEF EndInv, EndsWell

LEMMA FaresEnds ==
    ASSUME Types, EndInv, UNCHANGED <<client, proc, up>>, NEW phase, srv'.phase = phase,
           phase = "serving" => srv.phase = "serving", phase # "cut" => srv.phase # "cut",
           \A c \in Conns : Ending(c, srv.conn[c], srv'.conn[c]),
           phase = "serving" => \A c \in Conns : Fares(c, srv.conn[c], srv'.conn[c])
    PROVE  EndInv'
<1>1. ASSUME NEW c \in Conns, phase # "cut", client[c].side = "open"
      PROVE  /\ Ordered(client[c], proc[c], srv'.conn[c])
             /\ phase = "serving" /\ c \in Commands => Living(proc[c], srv'.conn[c])
  <2> DEFINE conn == srv.conn[c]
             l == srv'.conn[c]
             k == client[c]
             p == proc[c]
  <2>1. /\ conn \in ConnOf(c) /\ Ending(c, conn, l) /\ Ordered(k, p, conn)
        /\ phase = "serving" => Fares(c, conn, l)
        /\ phase = "serving" /\ c \in Commands => Living(p, conn)
    BY <1>1, TypesAre DEF EndInv, EndsWell
  <2> HIDE DEF conn, l, k, p
  <2>2. l \in ConnOf(c) /\ Grows(conn.down, l.down) /\ Ends(c, conn, l) /\ l.gone = conn.gone
    BY <2>1 DEF Ending, Onward, More, Grows
  <2>3. Ordered(k, p, l)
    BY <2>1, <2>2, ConnOrdered
  <2>4. phase = "serving" /\ c \in Commands => Living(p, l)
    BY <2>1, <2>2, LivingOn DEF Fares
  <2>. QED  BY <2>3, <2>4 DEF l, k, p
<1>. QED  BY <1>1, ServerEnds

LEMMA KinEnds ==
    ASSUME IInv, EndInv, NEW c \in Conns, Happens(c) \/ Stick(c) \/ GoOn(c)
    PROVE  EndInv'
<1>1. /\ UNCHANGED <<client, proc, up>> /\ srv'.phase = srv.phase
      /\ \A d \in Conns : Fares(d, srv.conn[d], srv'.conn[d])
  BY KinKeeps
<1>2. \A d \in Conns : Ending(d, srv.conn[d], srv'.conn[d])
  BY <1>1 DEF Fares, Ending
<1>. QED  BY <1>1, <1>2, FaresEnds DEF IInv

LEMMA TurnEnds ==
    ASSUME IInv, EndInv, Turn
    PROVE  EndInv'
<1>1. Types /\ SrvType(srv) /\ UNCHANGED <<client, proc, up>> /\ srv' = Turned(srv)
  BY DEF IInv, Types, Turn
<1>2. /\ \A c \in Conns : Fares(c, srv.conn[c], srv'.conn[c])
      /\ srv'.phase = srv.phase \/ (srv.phase = "stopping" /\ srv'.phase = "ended")
  BY <1>1, TurnedIs
<1>3. \A c \in Conns : Ending(c, srv.conn[c], srv'.conn[c])
  BY <1>2 DEF Fares, Ending
<1>4. /\ srv'.phase = "serving" => srv.phase = "serving"
      /\ srv'.phase # "cut" => srv.phase # "cut"
  BY <1>2
<1>. QED  BY <1>1, <1>2, <1>3, <1>4, FaresEnds

LEMMA StopEnds ==
    ASSUME IInv, EndInv, Stop
    PROVE  EndInv'
<1>1. Types /\ SrvType(srv) /\ UNCHANGED <<client, proc, up>> /\ srv' = Stopped(srv)
      /\ srv.phase = "serving"
  BY DEF IInv, Types, Stop
<1>2. (\A c \in Conns : Ending(c, srv.conn[c], srv'.conn[c])) /\ srv'.phase = "stopping"
  BY <1>1, StoppedIs
<1>. QED  BY <1>1, <1>2, FaresEnds

LEMMA StopOverEnds ==
    ASSUME IInv, EndInv, StopOver
    PROVE  EndInv'
<1>1. Types /\ UNCHANGED <<client, proc, up>>
  BY DEF IInv, StopOver
<1>2. srv'.phase = "cut"
  BY <1>1, StopOverIs
<1>. QED  BY <1>1, <1>2, ServerEnds

\* One whose process ended, its client still reading, had its last word.
LEMMA ServeEnds ==
    ASSUME IInv, EndInv, NEW c \in Conns, ServeConn(c)
    PROVE  EndInv'
<1>1. /\ Types /\ UNCHANGED <<client, proc>> /\ srv'.phase = srv.phase
      /\ up'[c] = Quiet /\ (\A d \in Conns : d # c => up'[d] = up[d])
      /\ \A d \in Conns : d # c => Fares(d, srv.conn[d], srv'.conn[d])
      /\ proc[c].on /\ ~srv.conn[c].gone /\ ~up[c].shut => Grown(c, srv.conn[c], srv'.conn[c])
  BY ServeKeeps DEF IInv
<1>2. ASSUME NEW d \in Conns
      PROVE  up'[d].shut => up[d].shut
  BY <1>1 DEF Quiet
<1>3. ASSUME NEW d \in Conns, srv.phase # "cut", client[d].side = "open"
      PROVE  /\ Ordered(client[d], proc[d], srv'.conn[d])
             /\ srv.phase = "serving" /\ d \in Commands => Living(proc[d], srv'.conn[d])
  <2> DEFINE conn == srv.conn[d]
             l == srv'.conn[d]
             k == client[d]
             p == proc[d]
  <2>1. /\ conn \in ConnOf(d) /\ Ordered(k, p, conn) /\ ~up[d].shut
        /\ srv.phase = "serving" /\ d \in Commands => Living(p, conn)
    BY <1>1, <1>3, TypesAre DEF EndInv, EndsWell
  <2>2. CASE p.on
    <3>1. ~conn.gone
      BY <2>1, <2>2 DEF Ordered
    <3>2. Grown(d, conn, l)
      <4>1. CASE d = c
        BY <1>1, <2>1, <2>2, <3>1, <4>1
      <4>2. CASE d # c
        BY <1>1, <4>2, GrownFares
      <4>. QED  BY <4>1, <4>2
    <3> HIDE DEF conn, l, k, p
    <3>3. /\ l \in ConnOf(d) /\ Grows(conn.down, l.down) /\ Ends(d, conn, l) /\ l.gone = conn.gone
          /\ Lives(d, conn, l)
      BY <3>2 DEF Grown
    <3>4. Ordered(k, p, l)
      BY <2>1, <3>3, ConnOrdered
    <3>5. srv.phase = "serving" /\ d \in Commands => Living(p, l)
      BY <2>1, <3>3, LivingOn
    <3>. QED  BY <3>4, <3>5 DEF l, k, p
  <2>3. CASE ~p.on
    <3> HIDE DEF conn, l, k, p
    <3>1. k.exited
      BY <2>1, <2>3 DEF Ordered
    <3>2. Ordered(k, p, l)
      BY <2>3, <3>1 DEF Ordered, Heralded
    <3>3. ~Living(p, conn)
      BY <2>3 DEF Living
    <3>. QED  BY <2>1, <3>2, <3>3 DEF l, k, p
  <2>. QED  BY <2>2, <2>3
<1>. QED  BY <1>1, <1>2, <1>3, ServerEnds

-----------------------------------------------------------------------------
(* A process's steps, and its client's, end it well.                       *)

LEMMA StepEnds ==
    ASSUME Types, EndInv, NEW c \in Conns,
           client' = [client EXCEPT ![c] = client'[c]], proc' = [proc EXCEPT ![c] = proc'[c]],
           up' = [up EXCEPT ![c] = up'[c]], NEW conn \in ConnOf(c), srv' = Put(srv, c, conn),
           EndsWell(c, client'[c], proc'[c], up'[c], conn, srv.phase)
    PROVE  EndInv'
<1>1. /\ srv'.conn[c] = conn /\ srv'.phase = srv.phase
      /\ \A d \in Conns : d # c => srv'.conn[d] = srv.conn[d]
  BY PutIs DEF Types
<1>2. ASSUME NEW d \in Conns, d # c
      PROVE  client'[d] = client[d] /\ proc'[d] = proc[d] /\ up'[d] = up[d]
  <2>1. /\ client = [e \in Conns |-> client[e]] /\ proc = [e \in Conns |-> proc[e]]
        /\ up = [e \in Conns |-> up[e]]
    BY DEF Types
  <2>. QED  BY <1>2, <2>1
<1> SUFFICES ASSUME NEW d \in Conns
             PROVE  EndsWell(d, client'[d], proc'[d], up'[d], srv'.conn[d], srv'.phase)
  BY DEF EndInv
<1>3. CASE d = c
  BY <1>1, <1>3
<1>4. CASE d # c
  BY <1>1, <1>2, <1>4 DEF EndInv
<1>. QED  BY <1>3, <1>4

LEMMA GoesEnds ==
    ASSUME IInv, EndInv, NEW c \in Conns, NEW p \in ProcOf(c), NEW came \in [Conns -> SUBSET Nat],
           Goes(c, p, came), client' = [client EXCEPT ![c] = client'[c]],
           NEW conn \in ConnOf(c), srv' = Put(srv, c, conn),
           EndsWell(c, client'[c], p, up[c], conn, srv.phase)
    PROVE  EndInv'
<1> DEFINE k == client'[c]
           q == proc'[c]
           v == up'[c]
           u == up[c]
<1>1. /\ Types /\ proc' = [proc EXCEPT ![c] = proc'[c]] /\ up' = [up EXCEPT ![c] = up'[c]]
      /\ Went(c, p, q) \/ (~q.on /\ p.out = <<>> /\ p.closing)
      /\ v.shut = u.shut
  BY GoesIs DEF IInv, Quit
<1>2. EndsWell(c, k, p, u, conn, srv.phase)
  OBVIOUS
<1>3. EndsWell(c, k, q, v, conn, srv.phase)
  <2> HIDE DEF k, q, u, v
  <2>1. CASE Went(c, p, q)
    BY <1>1, <1>2, <2>1, SameEnds DEF Went
  <2>2. CASE ~q.on /\ p.out = <<>> /\ p.closing
    <3>1. Len(p.out) = 0
      BY <2>2
    <3>2. ~SaysExit(p.out)
      BY <3>1 DEF SaysExit
    <3>3. Ordered(k, p, conn) => Ordered(k, q, conn)
      BY <2>2, <3>2 DEF Ordered, Heralded
    <3>4. ~Living(p, conn)
      BY <2>2 DEF Living
    <3>. QED  BY <1>1, <1>2, <3>3, <3>4 DEF EndsWell
  <2>. QED  BY <1>1, <2>1, <2>2
<1>. QED  BY <1>1, <1>3, StepEnds

\* A connection the server closed ends: its process had ended, or its client
\* reads no more.
LEMMA HearServerEnds ==
    ASSUME IInv, EndInv, NEW c \in Conns, HearServer(c)
    PROVE  EndInv'
<1> DEFINE k == client[c]
           p == proc[c]
           u == up[c]
           conn == srv.conn[c]
           l == [conn EXCEPT !.down = <<>>]
           told == Told(p, conn.down)
           q == Backlog(told, Reaches)
<1>0. Types
  BY DEF IInv
<1>1. /\ k \in ClientOf(c) /\ p \in ProcOf(c) /\ u \in UpOf(c) /\ conn \in ConnOf(c)
      /\ SrvType(srv) /\ Good(c, k, p, u, conn) /\ coming \in [Conns -> SUBSET Nat]
      /\ EndsWell(c, k, p, u, conn, srv.phase)
  BY <1>0, TypesAre DEF IInv, Good, Types, EndInv
<1>2. srv' = Put(srv, c, l) /\ p.on
  BY DEF HearServer, Put, Hears
<1>2a. /\ Stage(srv, c) = "closed" =>
            /\ Exits(c, FALSE, coming)
            /\ client' = IF client[c].side = "gone" THEN client
                         ELSE [client EXCEPT ![c] = TakenAll(client[c], q.out)]
       /\ Stage(srv, c) # "closed" => Goes(c, q, coming) /\ UNCHANGED client
  BY DEF HearServer
<1>3. Reaches \subseteq Attachers
  BY DEF Reaches
<1>4. /\ l \in ConnOf(c) /\ l.stage = conn.stage /\ l.down = <<>> /\ l.gone = conn.gone
  BY <1>1, AllTold
<1>5. conn.stage = Stage(srv, c)
  BY DEF Stage
<1> HIDE DEF k, p, u, conn, l
<1>6. /\ told \in ProcOf(c)
      /\ Ordered(k, p, conn) => Ordered(k, told, l) /\ (Living(p, conn) => Living(told, l))
  BY <1>1, <1>4, ToldGood, ToldOrdered DEF Good
<1> HIDE DEF told
<1>7. /\ q \in ProcOf(c)
      /\ Ordered(k, told, l) => Ordered(k, q, l) /\ (Living(told, l) => Living(q, l))
  <2>1. Words(c, k, told, l) /\ Wanted(c, k, told, l)
    <3>1. Good(c, k, p, u, l)
      BY <1>1, <1>4, AllTold DEF l
    <3>. QED  BY <1>1, <1>4, ToldGood DEF Good, told
  <2>. QED  BY <1>3, <1>4, <1>6, <2>1, BacklogGood, BacklogOrdered
<1> HIDE DEF q
<1>8. CASE Stage(srv, c) = "closed"
  <2>1. /\ proc' = [proc EXCEPT ![c] = proc'[c]] /\ up' = [up EXCEPT ![c] = up'[c]]
        /\ up'[c].shut = up[c].shut
    BY <1>0, <1>1, <1>2a, <1>8, ExitsIs
  <2>2. client' = [client EXCEPT ![c] = client'[c]] /\ client'[c].side = k.side
    <3>1. CASE client[c].side = "gone"
      BY <1>0, <1>2a, <1>8, <3>1, SameClient DEF k
    <3>2. CASE client[c].side # "gone"
      <4> DEFINE m == TakenAll(k, q.out)
      <4>1. client' = [client EXCEPT ![c] = m]
        BY <1>2a, <1>8, <3>2 DEF k
      <4>2. q.out \in Seq(WordTo(c))
        BY <1>7 DEF ProcOf
      <4>3. Still(k, m)
        BY <1>1, <4>2, TakenAllIs
      <4> HIDE DEF m
      <4>4. client'[c] = m
        BY <1>0, <4>1 DEF Types
      <4>. QED  BY <4>1, <4>3, <4>4 DEF Still
    <3>. QED  BY <3>1, <3>2
  <2>3. k.side = "open" => ~u.shut /\ srv.phase = "cut"
    BY <1>1, <1>2, <1>5, <1>8 DEF EndsWell, Ordered
  <2>4. EndsWell(c, client'[c], proc'[c], up'[c], l, srv.phase)
    BY <2>1, <2>2, <2>3 DEF EndsWell, k, u
  <2>. QED  BY <1>0, <1>2, <1>4, <2>1, <2>2, <2>4, StepEnds
<1>9. CASE Stage(srv, c) # "closed"
  <2>1. Goes(c, q, coming) /\ client' = client
    BY <1>2a, <1>9
  <2>2. client' = [client EXCEPT ![c] = client'[c]]
    BY <1>0, <2>1, SameClient
  <2>3. EndsWell(c, k, q, u, l, srv.phase)
    BY <1>1, <1>6, <1>7 DEF EndsWell
  <2>4. EndsWell(c, client'[c], q, up[c], l, srv.phase)
    BY <2>1, <2>3 DEF k, u
  <2>. QED  BY <1>1, <1>2, <1>4, <1>7, <2>1, <2>2, <2>4, GoesEnds
<1>. QED  BY <1>8, <1>9

LEMMA TakeBodiesEnds ==
    ASSUME IInv, EndInv, NEW c \in Conns, TakeBodies(c)
    PROVE  EndInv'
<1> DEFINE k == client[c]
           u == up[c]
           o == proc[c]
           conn == srv.conn[c]
           received == o.received \union coming[c]
           p == [o EXCEPT !.received = received]
           q == Backlog(p, Reaches)
           came == [coming EXCEPT ![c] = {}]
<1>0. Types /\ SrvType(srv) /\ coming \in [Conns -> SUBSET Nat]
  BY DEF IInv, Types
<1>1. /\ k \in ClientOf(c) /\ o \in ProcOf(c) /\ conn \in ConnOf(c) /\ Good(c, k, o, u, conn)
      /\ EndsWell(c, k, o, u, conn, srv.phase)
  BY <1>0, TypesAre DEF IInv, Good, EndInv
<1>2. Goes(c, q, came) /\ client' = client /\ srv' = srv
  BY DEF TakeBodies
<1>3. came \in [Conns -> SUBSET Nat] /\ received \in SUBSET Nat
  BY <1>0, <1>1 DEF ProcOf
<1> HIDE DEF received, came
<1>4. /\ p \in ProcOf(c) /\ p.on = o.on /\ p.closing = o.closing /\ p.backlog = o.backlog
      /\ p.out = o.out /\ p.want = o.want
  <2> HIDE DEF o
  <2>. QED  BY <1>1, <1>3 DEF ProcOf
<1> HIDE DEF k, u, o, conn, p
<1>5. EndsWell(c, k, p, u, conn, srv.phase) /\ Good(c, k, p, u, conn)
  BY <1>1, <1>4, SameEnds, SameGood
<1>6. Reaches \subseteq Attachers
  BY DEF Reaches
<1>7. /\ q \in ProcOf(c)
      /\ Ordered(k, p, conn) => Ordered(k, q, conn) /\ (Living(p, conn) => Living(q, conn))
  BY <1>1, <1>4, <1>5, <1>6, BacklogGood, BacklogOrdered DEF Good
<1> HIDE DEF q
<1>8. EndsWell(c, k, q, u, conn, srv.phase)
  BY <1>5, <1>7 DEF EndsWell
<1>9. client' = [client EXCEPT ![c] = client'[c]] /\ client'[c] = k
  BY <1>0, <1>2, SameClient DEF k
<1>10. srv' = Put(srv, c, conn)
  BY <1>0, <1>2, SamePut DEF conn
<1>. QED  BY <1>1, <1>2, <1>3, <1>7, <1>8, <1>9, <1>10, GoesEnds DEF u

LEMMA WriteEnds ==
    ASSUME IInv, EndInv, NEW c \in Conns, Write(c)
    PROVE  EndInv'
<1> DEFINE k == client[c]
           o == proc[c]
           u == up[c]
           p == [o EXCEPT !.out = <<>>]
           conn == srv.conn[c]
<1>0. Types /\ SrvType(srv) /\ srv' = srv /\ coming \in [Conns -> SUBSET Nat]
  BY DEF IInv, Types, Write
<1>1. k \in ClientOf(c) /\ o \in ProcOf(c) /\ EndsWell(c, k, o, u, conn, srv.phase)
  BY <1>0, TypesAre DEF EndInv
<1>1a. srv' = Put(srv, c, conn) /\ conn \in ConnOf(c)
  BY <1>0, SamePut
<1>2. CASE client[c].side = "gone"
  <2>1. Exits(c, FALSE, coming) /\ client' = client
    BY <1>2 DEF Write
  <2>2. proc' = [proc EXCEPT ![c] = proc'[c]] /\ up' = [up EXCEPT ![c] = up'[c]]
    BY <1>0, <2>1, ExitsIs
  <2>3. client' = [client EXCEPT ![c] = client'[c]]
    BY <1>0, <2>1, SameClient
  <2>4. EndsWell(c, client'[c], proc'[c], up'[c], conn, srv.phase)
    BY <1>2, <2>1 DEF EndsWell
  <2>. QED  BY <1>0, <1>1a, <2>2, <2>3, <2>4, StepEnds
<1>3. CASE client[c].side # "gone"
  <2> DEFINE m == TakenAll(k, o.out)
  <2>1. client' = [client EXCEPT ![c] = m] /\ Goes(c, p, coming)
    BY <1>3 DEF Write
  <2>2. o.out \in Seq(WordTo(c)) /\ <<>> \in Seq(WordTo(c))
    BY <1>1 DEF ProcOf
  <2> HIDE DEF o, k, u, conn
  <2>3. /\ m \in ClientOf(c) /\ Still(k, m)
        /\ \A j \in 1..Len(o.out) : o.out[j].x = "exit" => m.exited
    BY <1>1, <2>2, TakenAllIs
  <2>4. /\ p \in ProcOf(c) /\ p.on = o.on /\ p.closing = o.closing /\ p.backlog = o.backlog
        /\ p.out = <<>>
    BY <1>1, <2>2 DEF ProcOf
  <2> HIDE DEF m, p
  <2>5. SaysExit(o.out) => m.exited
    BY <2>3 DEF SaysExit, IsExit
  <2>6. m.side = k.side /\ (k.exited => m.exited)
    BY <2>3 DEF Still
  <2>7. Ordered(k, o, conn) => Ordered(m, p, conn)
    BY <2>4, <2>5, <2>6 DEF Ordered, Heralded
  <2>8. Living(o, conn) => Living(p, conn)
    BY <2>4 DEF Living
  <2>9. EndsWell(c, m, p, u, conn, srv.phase)
    BY <1>1, <2>6, <2>7, <2>8 DEF EndsWell
  <2>10. client'[c] = m
    BY <1>0, <2>1 DEF Types
  <2>. QED  BY <1>0, <1>1a, <2>1, <2>4, <2>9, <2>10, GoesEnds DEF u
<1>. QED  BY <1>2, <1>3

LEMMA CarryEnds ==
    ASSUME IInv, EndInv, NEW c \in Conns, Carry(c)
    PROVE  EndInv'
<1> DEFINE k == client[c]
           u == up[c]
           o == proc[c]
           conn == srv.conn[c]
           p == [o EXCEPT !.errand = None]
           q == Replied(p, "lost")
           n == o.errand
           to == o.to
           came == [coming EXCEPT ![to] = coming[to] \union {n}]
<1>0. Types /\ SrvType(srv) /\ srv' = srv /\ coming \in [Conns -> SUBSET Nat] /\ client' = client
  BY DEF IInv, Types, Carry
<1>1. o \in ProcOf(c) /\ EndsWell(c, k, o, u, conn, srv.phase)
  BY <1>0, TypesAre DEF EndInv
<1>2. client' = [client EXCEPT ![c] = client'[c]] /\ client'[c] = k
  BY <1>0, SameClient
<1>3. Goes(c, p, came) \/ Goes(c, q, coming)
  BY DEF Carry
<1>4. /\ p \in ProcOf(c) /\ p.on = o.on /\ p.closing = o.closing /\ p.backlog = o.backlog
      /\ p.out = o.out
  <2> HIDE DEF o
  <2>. QED  BY <1>1 DEF ProcOf, None
<1>5. n \in Nat
  BY <1>1 DEF ProcOf
<1>6. came \in [Conns -> SUBSET Nat]
  <2>1. to \in Conns => coming[to] \union {n} \in SUBSET Nat
    BY <1>0, <1>5
  <2>. QED  BY <1>0, <2>1
<1>7. srv' = Put(srv, c, conn) /\ conn \in ConnOf(c)
  BY <1>0, SamePut
<1> HIDE DEF k, u, o, conn, p, came, n, to
<1>8. EndsWell(c, k, p, u, conn, srv.phase)
  BY <1>1, <1>4, SameEnds
<1>9. /\ q \in ProcOf(c) /\ q.on = p.on /\ q.closing = p.closing /\ q.backlog = p.backlog
      /\ Grows(p.out, q.out)
  BY <1>4, RepliedIs
<1> HIDE DEF q
<1>10. SaysExit(p.out) => SaysExit(q.out)
  <2>1. p.out \in Seq(WordTo(c)) /\ q.out \in Seq(WordTo(c))
    BY <1>4, <1>9 DEF ProcOf
  <2>. QED  BY <1>9, <2>1, GrowsExits
<1>11. EndsWell(c, k, q, u, conn, srv.phase)
  <2>1. Ordered(k, p, conn) => Ordered(k, q, conn)
    BY <1>9, <1>10 DEF Ordered, Heralded
  <2>2. Living(p, conn) => Living(q, conn)
    BY <1>9 DEF Living
  <2>. QED  BY <1>8, <2>1, <2>2 DEF EndsWell
<1>12. CASE Goes(c, p, came)
  BY <1>0, <1>2, <1>4, <1>6, <1>7, <1>8, <1>12, GoesEnds DEF u
<1>13. CASE Goes(c, q, coming)
  BY <1>0, <1>2, <1>7, <1>9, <1>11, <1>13, GoesEnds DEF u
<1>. QED  BY <1>3, <1>12, <1>13

LEMMA ForwardEnds ==
    ASSUME IInv, EndInv, NEW c \in Conns, Forward(c)
    PROVE  EndInv'
<1> DEFINE k == client[c]
           u == up[c]
           o == proc[c]
           conn == srv.conn[c]
           frame == Head(k.inbox)
           rest == Tail(k.inbox)
           frames == Append(u.frames, frame)
           want == CASE o.want \in {"hello", "attaching"} -> "nothing"
                     [] o.want = "command" -> "answer"
                     [] o.want = "attached" -> "attached"
           answered == o.answered /\ o.want # "command"
           l == [k EXCEPT !.inbox = rest]
           q == [o EXCEPT !.want = want, !.answered = answered]
           v == [u EXCEPT !.frames = frames]
<1>0. Types /\ SrvType(srv) /\ srv' = srv
      /\ client = [d \in Conns |-> client[d]] /\ proc = [d \in Conns |-> proc[d]]
      /\ up = [d \in Conns |-> up[d]]
  BY DEF IInv, Types, Forward
<1>1. /\ k \in ClientOf(c) /\ o \in ProcOf(c) /\ u \in UpOf(c)
      /\ EndsWell(c, k, o, u, conn, srv.phase)
  BY <1>0, TypesAre DEF EndInv
<1>2. client' = [client EXCEPT ![c] = l]
  BY DEF Forward
<1>3. up' = [up EXCEPT ![c] = v]
  BY DEF Forward
<1>4. proc' = [proc EXCEPT ![c] = q]
  <2>1. proc' = [proc EXCEPT ![c].want = want, ![c].answered = answered]
    BY DEF Forward
  <2> HIDE DEF want, answered
  <2>. QED  BY <1>0, <2>1
<1> HIDE DEF rest, frames, want, answered, k, o, u
<1>5. l.side = k.side /\ l.exited = k.exited
  BY <1>1 DEF ClientOf
<1>6. q.on = o.on /\ q.closing = o.closing /\ q.backlog = o.backlog /\ q.out = o.out
  BY <1>1 DEF ProcOf
<1>7. v.shut = u.shut
  BY <1>1 DEF UpOf
<1> HIDE DEF l, q, v
<1>8. EndsWell(c, l, q, v, conn, srv.phase)
  BY <1>1, <1>5, <1>6, <1>7, SameEnds
<1>9. /\ client'[c] = l /\ client' = [client EXCEPT ![c] = client'[c]]
      /\ proc'[c] = q /\ proc' = [proc EXCEPT ![c] = proc'[c]]
      /\ up'[c] = v /\ up' = [up EXCEPT ![c] = up'[c]]
  BY <1>0, <1>2, <1>3, <1>4
<1>10. srv' = Put(srv, c, conn) /\ conn \in ConnOf(c)
  BY <1>0, SamePut
<1> HIDE DEF conn
<1>. QED  BY <1>0, <1>8, <1>9, <1>10, StepEnds

\* Only one that sends no more is said to.
LEMMA TellShutEnds ==
    ASSUME IInv, EndInv, NEW c \in Conns, TellShut(c)
    PROVE  EndInv'
<1>1. /\ UNCHANGED <<client, srv>> /\ client[c].side # "open"
      /\ proc' = [proc EXCEPT ![c].told = TRUE] /\ up' = [up EXCEPT ![c].shut = TRUE]
  BY DEF TellShut, TellsShut, Ended
<1>2. proc = [d \in Conns |-> proc[d]] /\ up = [d \in Conns |-> up[d]]
  BY DEF IInv, Types
<1>3. ASSUME NEW d \in Conns, d # c
      PROVE  proc'[d] = proc[d] /\ up'[d] = up[d]
  BY <1>1, <1>2, <1>3
<1> SUFFICES ASSUME NEW d \in Conns
             PROVE  EndsWell(d, client[d], proc'[d], up'[d], srv.conn[d], srv.phase)
  BY <1>1 DEF EndInv
<1>4. CASE d = c
  BY <1>1, <1>4 DEF EndsWell
<1>5. CASE d # c
  BY <1>3, <1>5 DEF EndInv
<1>. QED  BY <1>4, <1>5

\* What a client does ends nothing.
LEMMA ClientEnds ==
    ASSUME IInv, EndInv, NEW c \in Conns, Client(c)
    PROVE  EndInv'
<1> DEFINE k == client[c]
<1>1. client = [d \in Conns |-> client[d]] /\ k \in ClientOf(c)
  BY DEF IInv, Types
<1>2. PICK l : /\ client' = [client EXCEPT ![c] = l] /\ UNCHANGED <<proc, up, coming, srv>>
               /\ l.side = "open" => k.side = "open"
               /\ k.exited => l.exited
  <2>1. CASE Open(c)
    <3> DEFINE hello(what) == Frame("hello", what, None, 0, 0)
               opening == IF c \in Commands THEN <<hello("command")>>
                          ELSE <<hello("attaching"), Frame("attach", "none", None, 0, 0)>>
               l == [k EXCEPT !.inbox = opening, !.opened = TRUE]
    <3>1. client' = [client EXCEPT ![c] = l] /\ UNCHANGED <<proc, up, coming, srv>>
      BY <2>1 DEF Open, Speaks
    <3> HIDE DEF opening, k
    <3>2. l.side = k.side /\ l.exited = k.exited
      BY <1>1 DEF ClientOf
    <3>. QED  BY <3>1, <3>2
  <2>2. CASE Ask(c)
    <3>1. PICK what \in Asks, to \in Attachers :
              LET n == IF what = "fenced" THEN client[to].sent ELSE 0
              IN  Speaks(c, [Says(c, Frame("ask", what, to, n, 0))
                              EXCEPT !.asked = Append(client[c].asked, what)])
      BY <2>2 DEF Ask
    <3> DEFINE n == IF what = "fenced" THEN client[to].sent ELSE 0
               inbox == Append(k.inbox, Frame("ask", what, to, n, 0))
               asked == Append(k.asked, what)
               l == [[k EXCEPT !.inbox = inbox] EXCEPT !.asked = asked]
    <3>2. client' = [client EXCEPT ![c] = l] /\ UNCHANGED <<proc, up, coming, srv>>
      BY <3>1 DEF Speaks, Says
    <3> HIDE DEF inbox, asked, k
    <3>3. l.side = k.side /\ l.exited = k.exited
      BY <1>1 DEF ClientOf
    <3>. QED  BY <3>2, <3>3
  <2>3. CASE Act(c)
    <3> DEFINE i == k.sent + 1
               inbox == Append(k.inbox, Frame("act", "none", None, 0, i))
               l == [[k EXCEPT !.inbox = inbox] EXCEPT !.sent = i]
    <3>1. client' = [client EXCEPT ![c] = l] /\ UNCHANGED <<proc, up, coming, srv>>
      BY <2>3 DEF Act, Speaks, Says
    <3> HIDE DEF inbox, i, k
    <3>2. l.side = k.side /\ l.exited = k.exited
      BY <1>1 DEF ClientOf
    <3>. QED  BY <3>1, <3>2
  <2>4. CASE Detach(c)
    <3> DEFINE i == k.sent + 1
               inbox == Append(k.inbox, Frame("detach", "none", None, 0, i))
               l == [[k EXCEPT !.inbox = inbox] EXCEPT !.sent = i, !.left = TRUE]
    <3>1. client' = [client EXCEPT ![c] = l] /\ UNCHANGED <<proc, up, coming, srv>>
      BY <2>4 DEF Detach, Speaks, Says
    <3> HIDE DEF inbox, i, k
    <3>2. l.side = k.side /\ l.exited = k.exited
      BY <1>1 DEF ClientOf
    <3>. QED  BY <3>1, <3>2
  <2>5. CASE Replies(c)
    <3> DEFINE i == k.sent + 1
               rest == Tail(k.owed)
               inbox == Append(k.inbox, Frame("answer", "none", None, Head(k.owed), i))
               l == [[k EXCEPT !.inbox = inbox] EXCEPT !.sent = i, !.owed = rest]
    <3>1. client' = [client EXCEPT ![c] = l] /\ UNCHANGED <<proc, up, coming, srv>>
      BY <2>5 DEF Replies, Speaks, Says
    <3> HIDE DEF inbox, i, k, rest
    <3>2. l.side = k.side /\ l.exited = k.exited
      BY <1>1 DEF ClientOf
    <3>. QED  BY <3>1, <3>2
  <2>6. CASE Shut(c)
    <3> DEFINE l == [k EXCEPT !.side = "shut"]
    <3>1. client' = [client EXCEPT ![c] = l] /\ UNCHANGED <<proc, up, coming, srv>>
      BY <2>6 DEF Shut, Speaks
    <3> HIDE DEF k
    <3>2. l.side = "shut" /\ l.exited = k.exited
      BY <1>1 DEF ClientOf
    <3>. QED  BY <3>1, <3>2
  <2>7. CASE Leaves(c)
    <3> DEFINE l == [k EXCEPT !.side = "gone"]
    <3>1. client' = [client EXCEPT ![c] = l] /\ UNCHANGED <<proc, up, coming, srv>>
      BY <2>7 DEF Leaves
    <3> HIDE DEF k
    <3>2. l.side = "gone" /\ l.exited = k.exited
      BY <1>1 DEF ClientOf
    <3>. QED  BY <3>1, <3>2
  <2>. QED  BY <2>1, <2>2, <2>3, <2>4, <2>5, <2>6, <2>7 DEF Client, Done
<1>3. client'[c] = l /\ \A d \in Conns : d # c => client'[d] = client[d]
  BY <1>1, <1>2
<1> SUFFICES ASSUME NEW d \in Conns
             PROVE  EndsWell(d, client'[d], proc[d], up[d], srv.conn[d], srv.phase)
  BY <1>2 DEF EndInv
<1>4. EndsWell(d, client[d], proc[d], up[d], srv.conn[d], srv.phase)
  BY DEF EndInv
<1>5. CASE d = c
  BY <1>2, <1>3, <1>4, <1>5, SameEnds
<1>6. CASE d # c
  BY <1>3, <1>4, <1>6
<1>. QED  BY <1>5, <1>6

LEMMA InitEnds ==
    ASSUME Init
    PROVE  EndInv
<1> SUFFICES ASSUME NEW c \in Conns
             PROVE  EndsWell(c, client[c], proc[c], up[c], srv.conn[c], srv.phase)
  BY DEF EndInv
<1>2. ~up[c].shut
  BY DEF Init, Quiet
<1>3. /\ proc[c].on = TRUE /\ proc[c].closing = FALSE /\ proc[c].out = <<>>
      /\ proc[c].backlog = <<>>
  BY DEF Init
<1>4. srv.conn[c].gone = FALSE /\ srv.conn[c].down = <<>> /\ srv.conn[c].stage = First(c)
  BY DEF Init
<1>5. First(c) \in {"hello", "attached", "command"}
  BY DEF First
<1>6. Len(<<>>) = 0
  OBVIOUS
<1>7. Closeless(proc[c].backlog) /\ Closeless(srv.conn[c].down)
  BY <1>3, <1>4, <1>6 DEF Closeless
<1>8. /\ Heralded(client[c], proc[c].out, proc[c].backlog)
      /\ Heralded(client[c], proc[c].out, srv.conn[c].down)
  BY <1>3, <1>4, <1>6 DEF Heralded
<1>9. Ordered(client[c], proc[c], srv.conn[c])
  BY <1>3, <1>4, <1>5, <1>8 DEF Ordered
<1>10. Living(proc[c], srv.conn[c])
  BY <1>3, <1>4, <1>5, <1>7 DEF Living, OverStages
<1>. QED  BY <1>2, <1>9, <1>10 DEF EndsWell

LEMMA NextEnds ==
    ASSUME IInv, EndInv, [Next]_vars
    PROVE  EndInv'
<1>1. CASE UNCHANGED vars
  BY <1>1 DEF vars, EndInv
<1>2. CASE Server
  BY <1>2, TurnEnds, StopEnds, StopOverEnds, ServeEnds DEF Server
<1>3. ASSUME NEW c \in Conns, Process(c)
      PROVE  EndInv'
  BY <1>3, ForwardEnds, TellShutEnds, WriteEnds, HearServerEnds, CarryEnds, TakeBodiesEnds
     DEF Process
<1>4. ASSUME NEW c \in Conns, Client(c)
      PROVE  EndInv'
  BY <1>4, ClientEnds
<1>5. ASSUME NEW c \in Conns, Happens(c) \/ Stick(c) \/ GoOn(c)
      PROVE  EndInv'
  BY <1>5, KinEnds
<1>. QED  BY <1>1, <1>2, <1>3, <1>4, <1>5 DEF Next

LEMMA EndsFollow ==
    ASSUME EndInv
    PROVE  EndsAreOrderly
<1>1. OnlyTheDoneEnd
  <2> SUFFICES ASSUME srv.phase = "serving", NEW c \in Commands, client[c].side = "open"
               PROVE  proc[c].on
    BY DEF OnlyTheDoneEnd
  <2>1. c \in Conns
    BY DEF Conns
  <2>. QED  BY <2>1 DEF EndInv, EndsWell, Living
<1>2. LastWordIsHeard
  <2> SUFFICES ASSUME NEW c \in Conns, ~proc[c].on, client[c].side = "open", srv.phase # "cut"
               PROVE  client[c].exited
    BY DEF LastWordIsHeard
  <2>. QED  BY DEF EndInv, EndsWell, Ordered
<1>. QED  BY <1>1, <1>2 DEF EndsAreOrderly

\* While its client still reads and writes, a command's connection ends by
\* nothing but the server's stop, and every connection once its client had its
\* last word, but where a stopping server's time runs out (Conn::end, Close,
\* and what the process does of them).
THEOREM EndsOrderly == Spec => []EndsAreOrderly
<1>1. Init => EndInv
  BY InitEnds
<1>2. IInv /\ EndInv /\ [Next]_vars => EndInv'
  BY NextEnds
<1>3. EndInv => EndsAreOrderly
  BY EndsFollow
<1>. QED  BY <1>1, <1>2, <1>3, InvariantHolds, PTL DEF Spec

================================================================================
