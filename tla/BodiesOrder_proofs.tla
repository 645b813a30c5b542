-------------------------- MODULE BodiesOrder_proofs --------------------------
(***************************************************************************)
(* Proof that a client's pastes reach the pane it looks at in the order it *)
(* made them (Bodies' PastesInOrder): their bodies keep that order all the *)
(* way there, and a pane writes its program nothing out of it.             *)
(***************************************************************************)
EXTENDS Bodies_proofs

USE ConnsAssumption, PanesAssumption, BoundsAssumption

-----------------------------------------------------------------------------
(* The order in which bodies come.                                         *)

\* Numbers grow along a sequence.
Rises(s) == \A i, j \in DOMAIN s : i < j => s[i] < s[j]

\* What a connection's process is told to send,
Delivers(c) == {word.n : word \in {w \in ToSet(told[c]) : w.say = "deliver"}}

\* of what is told it, later inputs later.
ToldRise(c) ==
    \A i, j \in DOMAIN told[c] :
        i < j /\ told[c][j].say = "deliver" => told[c][i].n < told[c][j].n

\* What it sends is its own, and goes in the order it was taken.
SentInOrder(c, p) ==
    /\ \A n \in ToSet(out[c][p]) \union ToSet(wire[c][p]) :
          From(n) = c /\ \A k \in Delivers(c) : n < k
    /\ Rises(out[c][p]) /\ Rises(wire[c][p])
    /\ \A m \in ToSet(wire[c][p]), n \in ToSet(out[c][p]) : m < n
    /\ proc[c] = "gone" => out[c][p] = <<>> /\ wire[c][p] = <<>>

WaySound(c) ==
    /\ \A n \in Delivers(c) : From(n) = c
    /\ ToldRise(c)
    /\ \A p \in Panes : SentInOrder(c, p)

\* What was left on a link is of one connection, in its order.
LeftSound(s) ==
    s # <<>> /\ Rises(s) /\ \A m, n \in ToSet(s) : From(m) = From(n)

WaysSound ==
    /\ \A c \in Conns : WaySound(c)
    /\ \A p \in Panes : \A s \in loose[p] : LeftSound(s)

\* Bodies of c's are in s.
Its(c, s) == \E n \in ToSet(s) : From(n) = c

\* While c looks at p alone, p is what it types for, and its bodies go to p
\* on one link, unless either is gone.
Watches(c, p) ==
    /\ focus[c] = p /\ views[c].told = 0
    /\ \A word \in ToSet(told[c]) : word.say # "scene"
    /\ p \in side[c] \/ proc[c] = "gone" \/ life[p] = "gone"
    /\ \A n \in Given : From(n) = c => inputs[n].to = {p} /\ <<p, n>> \notin posts

\* What it left on a link let go is on one, and it has no other then.
LeftIsOne(c, p) ==
    /\ \A s \in loose[p] : Its(c, s) =>
          proc[c] = "gone" /\ \A m \in ToSet(s), k \in Delivers(c) : m < k
    /\ \A s, t \in loose[p] : Its(c, s) /\ Its(c, t) => s = t

\* Bodies of c's on their way to p, and its pastes that came.
OnWay(c, p) ==
    {n \in Given :
        /\ From(n) = c
        /\ \/ n \in Delivers(c) \union ToSet(out[c][p]) \union ToSet(wire[c][p])
           \/ \E s \in loose[p] : n \in ToSet(s)}

PasteOf(c, n) == From(n) = c /\ inputs[n].what = "paste"

Arrived(c, p) == {n \in bodies[p] \union ToSet(taken[p]) : PasteOf(c, n)}

\* They come, and are typed, in the order they were made.
ArrivesInOrder(c, p) ==
    /\ \A m \in Arrived(c, p), n \in OnWay(c, p) : m < n
    /\ TypedAsMade(c, p, {"paste"})

Orderly ==
    \A c \in Typists : views[c].looked = 0 =>
        \E p \in Panes : Watches(c, p) /\ LeftIsOne(c, p) /\ ArrivesInOrder(c, p)

\* A pane types what is for it.
TakenIsForIt ==
    \A p \in Panes : \A n \in ToSet(taken[p]) : p \in inputs[n].to

OrderInv == IInv /\ WaysSound /\ TakenIsForIt /\ Orderly

-----------------------------------------------------------------------------
(* Sequences whose numbers grow.                                           *)

\* With one greater put at the end they still do.
LEMMA RisesMore ==
    ASSUME NEW s \in Seq(Nat), NEW e \in Nat, Rises(s), \A n \in ToSet(s) : n < e
    PROVE  Rises(Append(s, e))
<1>1. /\ DOMAIN Append(s, e) = 1..(Len(s) + 1) /\ Len(s) \in Nat
      /\ \A i \in 1..Len(s) : Append(s, e)[i] = s[i] /\ s[i] \in ToSet(s)
      /\ Append(s, e)[Len(s) + 1] = e
      /\ DOMAIN s = 1..Len(s)
  BY AppendProperties, LenProperties DEF ToSet
<1> QED
  BY <1>1 DEF Rises

\* Without the first too, and what is left is greater than it.
LEMMA RisesLess ==
    ASSUME NEW s \in Seq(Nat), s # <<>>, Rises(s)
    PROVE  Rises(Tail(s)) /\ \A n \in ToSet(Tail(s)) : Head(s) < n
<1>1. /\ Head(s) = s[1] /\ Tail(s) \in Seq(Nat)
      /\ \A i \in DOMAIN Tail(s) : i + 1 \in DOMAIN s /\ Tail(s)[i] = s[i + 1]
  BY InTail
<1>2. /\ DOMAIN Tail(s) = 1..Len(Tail(s)) /\ Len(Tail(s)) \in Nat
      /\ DOMAIN s = 1..Len(s) /\ Len(s) \in Nat \ {0}
  BY <1>1, LenProperties, EmptySeq
<1>3. \A i \in DOMAIN Tail(s) : 1 < i + 1 /\ 1 \in DOMAIN s
  BY <1>2
<1>4. \A i \in DOMAIN Tail(s) : Head(s) < Tail(s)[i]
  BY <1>1, <1>3 DEF Rises
<1>5. Rises(Tail(s))
  BY <1>1, <1>2 DEF Rises
<1> QED
  BY <1>4, <1>5 DEF ToSet

\* A sequence that is left as it is, without its first, or empty.
Less(s, t) == s = t \/ s = <<>> \/ (t # <<>> /\ s = Tail(t))

\* It has nothing new in it,
LEMMA LessIn ==
    ASSUME NEW S, NEW t \in Seq(S), NEW s, Less(s, t)
    PROVE  s \in Seq(S) /\ ToSet(s) \subseteq ToSet(t)
<1>1. CASE s = t
  BY <1>1
<1>2. CASE s = <<>>
  BY <1>2, InSeq, EmptySeq
<1>3. CASE t # <<>> /\ s = Tail(t)
  BY <1>3, InTail
<1> QED
  BY <1>1, <1>2, <1>3 DEF Less

\* and its numbers grow as before.
LEMMA LessRises ==
    ASSUME NEW t \in Seq(Nat), NEW s, Less(s, t), Rises(t)
    PROVE  Rises(s)
<1>1. Rises(<<>>)
  BY DEF Rises
<1> QED
  BY <1>1, RisesLess DEF Less

\* What a connection holds, as sets.
LEMMA WayTyped ==
    ASSUME TypesHold, NEW c \in Conns
    PROVE  /\ told[c] \in Seq(WordsToConn(Given)) /\ ToSet(told[c]) \subseteq WordsToConn(Given)
           /\ Delivers(c) \subseteq Given
           /\ Given \subseteq Nat
           /\ \A p \in Panes : /\ out[c][p] \in Seq(Given) /\ wire[c][p] \in Seq(Given)
                              /\ out[c][p] \in Seq(Nat) /\ wire[c][p] \in Seq(Nat)
                              /\ ToSet(out[c][p]) \subseteq Given
                              /\ ToSet(wire[c][p]) \subseteq Given
<1>1. told[c] \in Seq(WordsToConn(Given)) /\ ToSet(told[c]) \subseteq WordsToConn(Given)
  BY InSeq DEF TypesHold, ConnsTyped
<1>2. Delivers(c) \subseteq Given
  BY <1>1, WordsAre DEF Delivers
<1>3. Given \subseteq Nat
  BY LenProperties DEF TypesHold, Given
<1>4. \A p \in Panes : /\ out[c][p] \in Seq(Given) /\ wire[c][p] \in Seq(Given)
                      /\ out[c][p] \in Seq(Nat) /\ wire[c][p] \in Seq(Nat)
                      /\ ToSet(out[c][p]) \subseteq Given
                      /\ ToSet(wire[c][p]) \subseteq Given
  <2>1. \A p \in Panes : out[c][p] \in Seq(Given) /\ wire[c][p] \in Seq(Given)
    BY DEF TypesHold, ConnsTyped
  <2>2. Seq(Given) \subseteq Seq(Nat)
    BY <1>3, SeqMonotonic
  <2>3. \A s \in Seq(Given) : ToSet(s) \subseteq Given
    BY InSeq
  <2> QED
    BY <2>1, <2>2, <2>3
<1> QED
  BY <1>1, <1>2, <1>3, <1>4

-----------------------------------------------------------------------------
(* What a step does to what a connection sends.                            *)

\* Nothing comes to it; or it is told more; or it takes a body to be sent; or
\* one of its links takes a body.
WayLess(c) ==
    /\ Less(told'[c], told[c])
    /\ \A p \in Panes : Less(out'[c][p], out[c][p]) /\ Less(wire'[c][p], wire[c][p])
    /\ proc'[c] = "gone" => \/ proc[c] = "gone"
                           \/ \A p \in Panes : out'[c][p] = <<>> /\ wire'[c][p] = <<>>

WayTold(c) ==
    /\ \E word \in WordsToConn(Given') :
          /\ told'[c] = Append(told[c], word)
          /\ word.say = "deliver" => word.n = Len(inputs) + 1 /\ inputs'[word.n].from = c
          /\ word.say = "scene" => views[c].told # views[c].looked
    /\ \A p \in Panes : out'[c][p] = out[c][p] /\ wire'[c][p] = wire[c][p]
    /\ proc'[c] = proc[c]

WayTakes(c) ==
    /\ told[c] # <<>> /\ told'[c] = Tail(told[c]) /\ Head(told[c]).say = "deliver"
    /\ \A p \in Panes : /\ out'[c][p] \in {out[c][p], Append(out[c][p], Head(told[c]).n)}
                        /\ wire'[c][p] = wire[c][p]
    /\ proc'[c] = proc[c] /\ proc[c] # "gone"

WayFlushes(c) ==
    /\ told'[c] = told[c] /\ proc'[c] = proc[c]
    /\ \E q \in Panes :
          /\ out[c][q] # <<>> /\ out'[c][q] = Tail(out[c][q])
          /\ wire'[c][q] = Append(wire[c][q], Head(out[c][q]))
          /\ \A p \in Panes \ {q} : out'[c][p] = out[c][p] /\ wire'[c][p] = wire[c][p]

WaySteps(c) == WayLess(c) \/ WayTold(c) \/ WayTakes(c) \/ WayFlushes(c)

\* It hears its server say so.
Hears(c, say) == told[c] # <<>> /\ Head(told[c]).say = say /\ proc[c] # "gone"

\* Of what links let go hold one is read; or they hold what they held, a link
\* let go by its connection, or a body that had one of its own.
LeftSteps(p) ==
    \/ \E t \in loose[p] :
          loose'[p] = (loose[p] \ {t}) \union (IF Len(t) = 1 THEN {} ELSE {Tail(t)})
    \/ \A s \in loose'[p] :
          \/ s \in loose[p]
          \/ \E c \in Conns : /\ s = wire[c][p] /\ s # <<>>
                              /\ Hears(c, "scene") \/ proc'[c] = "gone"
          \/ \E n \in Given : <<p, n>> \in posts /\ s = <<n>>

\* A connection stops to show a pane only as it is told to, or either is gone,
SideSteps(c, p) ==
    p \in side[c] => \/ p \in side'[c]
                     \/ Hears(c, "scene")
                     \/ proc'[c] = "gone"
                     \/ life'[p] = "gone"

\* and sends a body on a link of its own only to a pane it does not show.
PostSteps(p) ==
    \A n \in Given' : <<p, n>> \in posts' =>
        \/ <<p, n>> \in posts
        \/ \E c \in Conns : /\ Hears(c, "deliver") /\ Head(told[c]).n = n
                            /\ p \notin side[c] /\ life[p] # "gone"

\* What every step does to bodies on their way.
WaysGo ==
    /\ \A c \in Conns : WaySteps(c) /\ (proc[c] = "gone" => proc'[c] = "gone")
    /\ \A p \in Panes : /\ LeftSteps(p) /\ PostSteps(p)
                        /\ life[p] = "gone" => life'[p] = "gone"
                        /\ \A c \in Conns : SideSteps(c, p)

\* In what is left is nothing new.
LEMMA LessKept ==
    ASSUME TypesHold, NEW c \in Conns, WaySound(c), WayLess(c),
           \A n \in Given : inputs'[n] = inputs[n]
    PROVE  WaySound(c)'
<1>1. ToSet(told'[c]) \subseteq ToSet(told[c])
  BY WayTyped, LessIn DEF WayLess
<1>2. Delivers(c)' \subseteq Delivers(c)
  BY <1>1 DEF Delivers
<1>3. \A n \in Given : From(n)' = From(n)
  BY DEF From
<1>4. ToldRise(c)'
  <2>1. CASE told'[c] = told[c]
    BY <2>1 DEF ToldRise, WaySound
  <2>2. CASE told'[c] = <<>>
    BY <2>2 DEF ToldRise
  <2>3. CASE told[c] # <<>> /\ told'[c] = Tail(told[c])
    <3>1. /\ \A i \in DOMAIN told'[c] :
                i + 1 \in DOMAIN told[c] /\ told'[c][i] = told[c][i + 1]
          /\ DOMAIN told'[c] \subseteq Int
      BY <2>3, WayTyped, InTail, InSeq
    <3> QED
      BY <3>1 DEF ToldRise, WaySound
  <2> QED
    BY <2>1, <2>2, <2>3 DEF WayLess, Less
<1>5. ASSUME NEW p \in Panes PROVE SentInOrder(c, p)'
  <2>1. SentInOrder(c, p) /\ Less(out'[c][p], out[c][p]) /\ Less(wire'[c][p], wire[c][p])
    BY DEF WaySound, WayLess
  <2>2. ToSet(out'[c][p]) \subseteq ToSet(out[c][p]) /\ ToSet(wire'[c][p]) \subseteq ToSet(wire[c][p])
    BY <2>1, WayTyped, LessIn
  <2>3. Rises(out'[c][p]) /\ Rises(wire'[c][p])
    BY <2>1, WayTyped, LessRises DEF SentInOrder
  <2>4. proc'[c] = "gone" => out'[c][p] = <<>> /\ wire'[c][p] = <<>>
    BY <2>1 DEF WayLess, SentInOrder, Less
  <2>5. \A n \in ToSet(out'[c][p]) \union ToSet(wire'[c][p]) :
          From(n)' = c /\ \A k \in Delivers(c)' : n < k
    BY <1>2, <1>3, <2>1, <2>2, WayTyped DEF SentInOrder
  <2>6. \A m \in ToSet(wire'[c][p]), n \in ToSet(out'[c][p]) : m < n
    BY <2>1, <2>2 DEF SentInOrder
  <2> QED
    BY <2>3, <2>4, <2>5, <2>6 DEF SentInOrder
<1>6. \A n \in Delivers(c)' : From(n)' = c
  BY <1>2, <1>3, WayTyped DEF WaySound
<1> QED
  BY <1>4, <1>5, <1>6 DEF WaySound

\* What it is told more is later than all.
LEMMA ToldKept ==
    ASSUME TypesHold, NEW c \in Conns, WaySound(c), WayTold(c),
           \A n \in Given : inputs'[n] = inputs[n]
    PROVE  WaySound(c)'
<1>1. PICK word \in WordsToConn(Given') :
        /\ told'[c] = Append(told[c], word)
        /\ word.say = "deliver" => word.n = Len(inputs) + 1 /\ inputs'[word.n].from = c
  BY DEF WayTold
<1>0. Len(inputs) \in Nat /\ \A n \in Given \union {0} : n < Len(inputs) + 1
  BY LenProperties DEF TypesHold, Given
<1>2. ToSet(told'[c]) = ToSet(told[c]) \union {word}
  BY <1>1, WayTyped, AskedIn
<1>3. Delivers(c)' \subseteq Delivers(c) \union {Len(inputs) + 1}
      /\ (Len(inputs) + 1 \in Delivers(c)' => inputs'[Len(inputs) + 1].from = c)
  <2>1. Len(inputs) + 1 \notin Delivers(c)
    BY WayTyped, LenProperties DEF TypesHold, Given
  <2> QED
    BY <1>1, <1>2, <2>1 DEF Delivers
<1>4. ToldRise(c)'
  <2>1. /\ DOMAIN told'[c] = 1..(Len(told[c]) + 1)
        /\ \A i \in 1..Len(told[c]) : told'[c][i] = told[c][i]
        /\ told'[c][Len(told[c]) + 1] = word
        /\ DOMAIN told[c] = 1..Len(told[c]) /\ Len(told[c]) \in Nat
    BY <1>1, WayTyped, LenProperties
  <2>2. \A i \in 1..Len(told[c]) : told[c][i].n \in Given \union {0}
    <3>1. \A i \in 1..Len(told[c]) : told[c][i] \in WordsToConn(Given)
      BY WayTyped, ElementOfSeq
    <3>2. \A w \in WordsToConn(Given) : w.n \in Given \union {0}
      BY DEF WordsToConn, Word
    <3> QED
      BY <3>1, <3>2
  <2>3. word.say = "deliver" => \A i \in 1..Len(told[c]) : told[c][i].n < word.n
    BY <1>0, <1>1, <2>2
  <2> QED
    BY <2>1, <2>3 DEF ToldRise, WaySound
<1>5. ASSUME NEW p \in Panes PROVE SentInOrder(c, p)'
  <2>1. SentInOrder(c, p) /\ out'[c][p] = out[c][p] /\ wire'[c][p] = wire[c][p] /\ proc'[c] = proc[c]
    BY DEF WaySound, WayTold
  <2>2. \A n \in ToSet(out[c][p]) \union ToSet(wire[c][p]) : n \in Given /\ n < Len(inputs) + 1
    BY <1>0, WayTyped
  <2>3. \A n \in ToSet(out[c][p]) \union ToSet(wire[c][p]) :
           From(n)' = c /\ \A k \in Delivers(c)' : n < k
    BY <1>3, <2>1, <2>2 DEF SentInOrder, From
  <2> QED
    BY <2>1, <2>3 DEF SentInOrder
<1>6. \A n \in Delivers(c)' : From(n)' = c
  BY <1>3, WayTyped DEF WaySound, From
<1> QED
  BY <1>4, <1>5, <1>6 DEF WaySound

\* What it takes of it to send.
LEMMA TakesKept ==
    ASSUME TypesHold, NEW c \in Conns, WaySound(c), WayTakes(c),
           \A n \in Given : inputs'[n] = inputs[n]
    PROVE  WaySound(c)'
<1>1. PICK n \in Given : n = Head(told[c]).n
  BY WayTyped, InTail, WordsAre DEF WayTakes
<1>2. /\ \A i \in DOMAIN told'[c] : i + 1 \in DOMAIN told[c] /\ told'[c][i] = told[c][i + 1]
      /\ DOMAIN told'[c] = 1..Len(told'[c]) /\ Len(told'[c]) \in Nat
      /\ DOMAIN told[c] = 1..Len(told[c]) /\ Len(told[c]) \in Nat \ {0}
      /\ Head(told[c]) = told[c][1]
      /\ ToSet(told[c]) = {Head(told[c])} \union ToSet(told'[c])
      /\ told'[c] \in Seq(WordsToConn(Given))
  BY WayTyped, InTail, InSeq, EmptySeq DEF WayTakes
<1>3. ToldRise(c)'
  <2>1. \A i, j \in DOMAIN told'[c] : i < j => i + 1 < j + 1
    BY <1>2
  <2>2. ToldRise(c)
    BY DEF WaySound
  <2> QED
    BY <1>2, <2>1, <2>2 DEF ToldRise
<1>4. n \in Delivers(c) /\ Delivers(c)' \subseteq Delivers(c)
  BY <1>1, <1>2 DEF Delivers, WayTakes
<1>5. \A k \in Delivers(c)' : n < k
  <2> SUFFICES ASSUME NEW word \in ToSet(told'[c]), word.say = "deliver"
               PROVE  n < word.n
    BY DEF Delivers
  <2>1. PICK i \in DOMAIN told'[c] : told'[c][i] = word
    BY <1>2, InSeq
  <2>2. 1 \in DOMAIN told[c] /\ 1 < i + 1 /\ i + 1 \in DOMAIN told[c]
    BY <1>2, <2>1
  <2> QED
    BY <1>1, <1>2, <2>1, <2>2 DEF ToldRise, WaySound
<1>6. \A k \in Given : From(k)' = From(k)
  BY DEF From
<1>7. ASSUME NEW p \in Panes PROVE SentInOrder(c, p)'
  <2>1. /\ SentInOrder(c, p) /\ wire'[c][p] = wire[c][p] /\ proc'[c] # "gone"
        /\ out'[c][p] = out[c][p] \/ out'[c][p] = Append(out[c][p], n)
    BY <1>1 DEF WaySound, WayTakes
  <2>2. /\ out[c][p] \in Seq(Nat) /\ ToSet(out[c][p]) \subseteq Given
        /\ ToSet(wire[c][p]) \subseteq Given /\ n \in Nat
    BY <1>1, WayTyped
  <2>3. ToSet(out'[c][p]) \subseteq ToSet(out[c][p]) \union {n}
    <3>1. ToSet(Append(out[c][p], n)) = ToSet(out[c][p]) \union {n}
      BY <2>2, InAppended
    <3> QED
      BY <2>1, <3>1
  <2>4. \A m \in ToSet(out[c][p]) \union ToSet(wire[c][p]) : m < n
    BY <1>4, <2>1 DEF SentInOrder
  <2>5. Rises(out'[c][p])
    BY <2>1, <2>2, <2>4, RisesMore DEF SentInOrder
  <2>6. \A m \in ToSet(wire'[c][p]), k \in ToSet(out'[c][p]) : m < k
    BY <2>1, <2>3, <2>4 DEF SentInOrder
  <2>7. From(n) = c
    BY <1>4 DEF WaySound
  <2>8. \A m \in ToSet(out'[c][p]) \union ToSet(wire'[c][p]) :
          From(m)' = c /\ \A k \in Delivers(c)' : m < k
    BY <1>1, <1>4, <1>5, <1>6, <2>1, <2>2, <2>3, <2>7 DEF SentInOrder
  <2> QED
    BY <2>1, <2>5, <2>6, <2>8 DEF SentInOrder
<1>8. \A k \in Delivers(c)' : From(k)' = c
  BY <1>4, <1>6, WayTyped DEF WaySound
<1> QED
  BY <1>3, <1>7, <1>8 DEF WaySound

\* A body its link takes is before those that wait.
LEMMA FlushesKept ==
    ASSUME TypesHold, NEW c \in Conns, WaySound(c), WayFlushes(c),
           \A n \in Given : inputs'[n] = inputs[n]
    PROVE  WaySound(c)'
<1>1. PICK q \in Panes :
        /\ out[c][q] # <<>> /\ out'[c][q] = Tail(out[c][q])
        /\ wire'[c][q] = Append(wire[c][q], Head(out[c][q]))
        /\ \A p \in Panes \ {q} : out'[c][p] = out[c][p] /\ wire'[c][p] = wire[c][p]
  BY DEF WayFlushes
<1>2. Delivers(c)' = Delivers(c) /\ told'[c] = told[c] /\ proc'[c] = proc[c]
  BY DEF WayFlushes, Delivers
<1>3. \A n \in Given : From(n)' = From(n)
  BY DEF From
<1>4. ToldRise(c)' /\ \A n \in Delivers(c)' : From(n)' = c
  BY <1>2, <1>3, WayTyped DEF WaySound, ToldRise
<1>5. ASSUME NEW p \in Panes \ {q} PROVE SentInOrder(c, p)'
  <2>1. SentInOrder(c, p) /\ out'[c][p] = out[c][p] /\ wire'[c][p] = wire[c][p]
    BY <1>1 DEF WaySound
  <2> QED
    BY <1>2, <1>3, <2>1, WayTyped DEF SentInOrder
<1>6. SentInOrder(c, q)'
  <2>1. /\ SentInOrder(c, q) /\ out[c][q] \in Seq(Nat) /\ wire[c][q] \in Seq(Nat)
        /\ ToSet(out[c][q]) \subseteq Given /\ ToSet(wire[c][q]) \subseteq Given
    BY WayTyped DEF WaySound
  <2>2. /\ Head(out[c][q]) \in Nat
        /\ ToSet(out[c][q]) = {Head(out[c][q])} \union ToSet(out'[c][q])
        /\ Rises(out'[c][q]) /\ \A n \in ToSet(out'[c][q]) : Head(out[c][q]) < n
    BY <1>1, <2>1, InTail, RisesLess DEF SentInOrder
  <2>3. ToSet(wire'[c][q]) = ToSet(wire[c][q]) \union {Head(out[c][q])}
    BY <1>1, <2>1, <2>2, InAppended
  <2>4. Rises(wire'[c][q])
    BY <1>1, <2>1, <2>2, RisesMore DEF SentInOrder
  <2>5. \A m \in ToSet(wire'[c][q]), n \in ToSet(out'[c][q]) : m < n
    BY <2>1, <2>2, <2>3 DEF SentInOrder
  <2>6. ToSet(out'[c][q]) \union ToSet(wire'[c][q]) \subseteq ToSet(out[c][q]) \union ToSet(wire[c][q])
    BY <2>2, <2>3
  <2>7. \A n \in ToSet(out'[c][q]) \union ToSet(wire'[c][q]) :
          From(n)' = c /\ \A k \in Delivers(c)' : n < k
    BY <1>2, <1>3, <2>1, <2>6 DEF SentInOrder
  <2>8. proc'[c] # "gone"
    BY <1>1, <1>2, <2>1 DEF SentInOrder
  <2> QED
    BY <2>2, <2>4, <2>5, <2>7, <2>8 DEF SentInOrder
<1> QED
  BY <1>4, <1>5, <1>6 DEF WaySound

\* What is left on links let go keeps its order.
LEMMA LeftKept ==
    ASSUME TypesHold, WaysSound, NEW p \in Panes, LeftSteps(p),
           \A n \in Given : inputs'[n] = inputs[n], NEW s \in loose'[p]
    PROVE  LeftSound(s)'
<1>1. \A n \in Given : From(n)' = From(n)
  BY DEF From
<1>2. \A t \in loose[p] : t \in Seq(Given) /\ LeftSound(t)
  BY DEF TypesHold, ConnsTyped, WaysSound
<1>3. Given \subseteq Nat /\ Seq(Given) \subseteq Seq(Nat)
  BY SeqMonotonic, LenProperties DEF TypesHold, Given
<1>4. ASSUME s \in Seq(Given), LeftSound(s) PROVE LeftSound(s)'
  <2>1. ToSet(s) \subseteq Given
    BY <1>4, InSeq
  <2> QED
    BY <1>1, <1>4, <2>1 DEF LeftSound
<1>5. CASE s \in loose[p]
  BY <1>2, <1>4, <1>5
<1>6. ASSUME NEW t \in loose[p], Len(t) # 1, s = Tail(t)
      PROVE  LeftSound(s)'
  <2>1. /\ t # <<>> /\ t \in Seq(Nat) /\ t \in Seq(Given)
        /\ Rises(t) /\ \A m, n \in ToSet(t) : From(m) = From(n)
    BY <1>2, <1>3 DEF LeftSound
  <2>2. s \in Seq(Given) /\ ToSet(s) \subseteq ToSet(t) /\ Rises(s)
    BY <1>6, <2>1, InTail, RisesLess
  <2>3. s # <<>>
    <3>1. Len(t) \in Nat \ {0} /\ Len(s) = Len(t) - 1
      BY <1>6, <2>1, HeadTailProperties, EmptySeq, LenProperties
    <3>2. Len(<<>>) = 0
      OBVIOUS
    <3> QED
      BY <1>6, <3>1, <3>2
  <2> QED
    BY <1>4, <2>1, <2>2, <2>3 DEF LeftSound
<1>7. ASSUME NEW c \in Conns, s = wire[c][p], s # <<>> PROVE LeftSound(s)'
  <2>1. SentInOrder(c, p) /\ s \in Seq(Given)
    BY <1>7, WayTyped DEF WaysSound, WaySound
  <2> QED
    BY <1>4, <1>7, <2>1 DEF SentInOrder, LeftSound
<1>8. ASSUME NEW n \in Given, s = <<n>> PROVE LeftSound(s)'
  <2>1. s \in Seq(Given) /\ ToSet(s) = {n} /\ DOMAIN s = {1} /\ s # <<>>
    BY <1>8, InShort
  <2> QED
    BY <1>4, <2>1 DEF LeftSound, Rises
<1>9. \/ s \in loose[p]
      \/ \E t \in loose[p] : Len(t) # 1 /\ s = Tail(t)
      \/ \E c \in Conns : s = wire[c][p] /\ s # <<>>
      \/ \E n \in Given : s = <<n>>
  <2>1. CASE \E t \in loose[p] :
               loose'[p] = (loose[p] \ {t}) \union (IF Len(t) = 1 THEN {} ELSE {Tail(t)})
    <3>1. PICK t \in loose[p] :
            loose'[p] = (loose[p] \ {t}) \union (IF Len(t) = 1 THEN {} ELSE {Tail(t)})
      BY <2>1
    <3>2. CASE Len(t) = 1
      BY <3>1, <3>2
    <3>3. CASE Len(t) # 1
      BY <3>1, <3>3
    <3> QED
      BY <3>2, <3>3
  <2> QED
    BY <2>1 DEF LeftSteps
<1> QED
  BY <1>5, <1>6, <1>7, <1>8, <1>9

\* One that stays is no longer.
LEMMA SameIsLess ==
    \A s : Less(s, s)
BY DEF Less

\* Where nothing on its way moves.
LEMMA StillWays ==
    ASSUME TypesHold, UNCHANGED <<told, conns, sockets>>,
           \A p \in Panes : life[p] = "gone" => life'[p] = "gone"
    PROVE  WaysGo
<1>1. UNCHANGED <<told, proc, side, out, posts, wire, loose>>
  BY DEF conns, sockets
<1>2. \A c \in Conns : WaySteps(c)
  BY <1>1, SameIsLess DEF WaySteps, WayLess
<1>3. \A p \in Panes : LeftSteps(p) /\ PostSteps(p) /\ \A c \in Conns : SideSteps(c, p)
  BY <1>1 DEF LeftSteps, PostSteps, SideSteps
<1> QED
  BY <1>1, <1>2, <1>3 DEF WaysGo

\* Where the server tells one connection something.
LEMMA ToldWays ==
    ASSUME TypesHold, UNCHANGED <<conns, sockets, life>>, NEW c \in Conns,
           NEW word \in WordsToConn(Given'), told' = [told EXCEPT ![c] = Append(@, word)],
           word.say = "deliver" => word.n = Len(inputs) + 1 /\ inputs'[word.n].from = c,
           word.say = "scene" => views[c].told # views[c].looked
    PROVE  WaysGo
<1>1. UNCHANGED <<proc, side, out, posts, wire, loose, life>>
  BY DEF conns, sockets
<1>2. told'[c] = Append(told[c], word) /\ \A d \in Conns \ {c} : told'[d] = told[d]
  BY DEF TypesHold, ConnsTyped
<1>3. WaySteps(c)
  BY <1>1, <1>2 DEF WaySteps, WayTold
<1>4. \A d \in Conns \ {c} : WaySteps(d)
  BY <1>1, <1>2, SameIsLess DEF WaySteps, WayLess
<1>5. \A p \in Panes : LeftSteps(p) /\ PostSteps(p) /\ \A d \in Conns : SideSteps(d, p)
  BY <1>1 DEF LeftSteps, PostSteps, SideSteps
<1> QED
  BY <1>1, <1>3, <1>4, <1>5 DEF WaysGo

\* Where a connection takes what it was told.
LEMMA HearServerWays ==
    ASSUME TypesHold, NEW c \in Conns, HearServer(c)
    PROVE  WaysGo
<1> DEFINE word == Head(told[c])
<1>1. /\ proc[c] # "gone" /\ told[c] # <<>> /\ told' = [told EXCEPT ![c] = Tail(@)]
      /\ UNCHANGED <<inputs, server, panes>>
      /\ \/ word.say = "deliver" /\ TakeDeliver(c, word.n)
         \/ word.say = "scene" /\ TakeScene(c, word.shows)
         \/ word.say = "close" /\ TakeClose(c)
  BY DEF HearServer
<1>2. told'[c] = Tail(told[c]) /\ \A d \in Conns \ {c} : told'[d] = told[d]
  BY <1>1 DEF TypesHold, ConnsTyped
<1>3. UNCHANGED life
  BY <1>1 DEF panes
<1>4. Less(told'[c], told[c])
  BY <1>1, <1>2 DEF Less
<1>5. CASE word.say = "deliver" /\ TakeDeliver(c, word.n)
  <2>1. /\ UNCHANGED <<proc, side, wire, loose>>
        /\ out' = [out EXCEPT ![c] = [p \in Panes |->
                      IF p \in inputs[word.n].to \intersect side[c]
                      THEN Append(@[p], word.n) ELSE @[p]]]
        /\ posts' = posts \union {<<p, word.n>> :
                                     p \in {q \in inputs[word.n].to \ side[c] : Listening(q)}}
    BY <1>5 DEF TakeDeliver, sockets
  <2>2. /\ \A p \in Panes : out'[c][p] \in {out[c][p], Append(out[c][p], word.n)}
        /\ \A d \in Conns \ {c} : out'[d] = out[d]
    BY <2>1 DEF TypesHold, ConnsTyped
  <2>3. WaySteps(c)
    BY <1>1, <1>2, <1>5, <2>1, <2>2 DEF WaySteps, WayTakes
  <2>4. \A d \in Conns \ {c} : WaySteps(d)
    BY <1>2, <2>1, <2>2, SameIsLess DEF WaySteps, WayLess
  <2>5. \A p \in Panes : LeftSteps(p) /\ \A d \in Conns : SideSteps(d, p)
    BY <2>1 DEF LeftSteps, SideSteps
  <2>6. ASSUME NEW p \in Panes, NEW n \in Given', <<p, n>> \in posts', <<p, n>> \notin posts
        PROVE  word.n = n /\ p \notin side[c] /\ life[p] # "gone"
    <3>1. PICK q \in inputs[word.n].to \ side[c] : <<p, n>> = <<q, word.n>> /\ Listening(q)
      BY <2>1, <2>6
    <3>2. q = p /\ n = word.n
      BY <3>1
    <3> QED
      BY <3>1, <3>2 DEF Listening
  <2>7. \A p \in Panes : PostSteps(p)
    BY <1>1, <1>5, <2>6 DEF PostSteps, Hears
  <2> QED
    BY <1>3, <2>1, <2>3, <2>4, <2>5, <2>7 DEF WaysGo
<1>6. CASE word.say = "scene" /\ TakeScene(c, word.shows)
  <2> DEFINE from == Panes \ word.shows
  <2>1. /\ UNCHANGED <<proc, posts>> /\ LetGo(c, from)
        /\ side' = [side EXCEPT ![c] = {p \in word.shows : p \in @ \/ Listening(p)}]
    BY <1>6 DEF TakeScene
  <2> HIDE DEF from
  <2>2. /\ \A p \in Panes : out'[c][p] \in {out[c][p], <<>>} /\ wire'[c][p] \in {wire[c][p], <<>>}
        /\ \A d \in Conns \ {c} : out'[d] = out[d] /\ wire'[d] = wire[d] /\ side'[d] = side[d]
        /\ \A p \in Panes : loose'[p] = IF p \in from /\ wire[c][p] # <<>>
                                        THEN loose[p] \union {wire[c][p]} ELSE loose[p]
    BY <2>1 DEF LetGo, TypesHold, ConnsTyped
  <2>3. Hears(c, "scene")
    BY <1>1, <1>6 DEF Hears
  <2>4. WaySteps(c)
    BY <1>1, <1>4, <2>1, <2>2 DEF WaySteps, WayLess, Less
  <2>5. \A d \in Conns \ {c} : WaySteps(d)
    BY <1>2, <2>1, <2>2, SameIsLess DEF WaySteps, WayLess
  <2>6. ASSUME NEW p \in Panes PROVE LeftSteps(p)
    <3>1. \A s \in loose'[p] : s \in loose[p] \/ (s = wire[c][p] /\ s # <<>>)
      BY <2>2
    <3> QED
      BY <2>3, <3>1 DEF LeftSteps
  <2>7. \A p \in Panes : PostSteps(p) /\ \A d \in Conns : SideSteps(d, p)
    BY <2>1, <2>2, <2>3 DEF PostSteps, SideSteps
  <2> QED
    BY <1>3, <2>1, <2>4, <2>5, <2>6, <2>7 DEF WaysGo
<1>7. CASE word.say = "close" /\ TakeClose(c)
  <2>1. /\ UNCHANGED <<side, out, posts, wire, loose>>
        /\ proc'[c] = "closing" /\ \A d \in Conns \ {c} : proc'[d] = proc[d]
    BY <1>7 DEF TakeClose, sockets, TypesHold, ConnsTyped
  <2>2. WaySteps(c)
    BY <1>4, <2>1, SameIsLess DEF WaySteps, WayLess
  <2>3. \A d \in Conns \ {c} : WaySteps(d)
    BY <1>2, <2>1, SameIsLess DEF WaySteps, WayLess
  <2>4. \A p \in Panes : LeftSteps(p) /\ PostSteps(p) /\ \A d \in Conns : SideSteps(d, p)
    BY <2>1 DEF LeftSteps, PostSteps, SideSteps
  <2> QED
    BY <1>1, <1>3, <2>1, <2>2, <2>3, <2>4 DEF WaysGo
<1> QED
  BY <1>1, <1>5, <1>6, <1>7

\* Where a link takes a body queued on it.
LEMMA FlushSideWays ==
    ASSUME TypesHold, NEW c \in Conns, NEW q \in Panes, FlushSide(c, q)
    PROVE  WaysGo
<1>1. /\ UNCHANGED <<proc, side, posts, life, loose, told>> /\ out[c][q] # <<>>
      /\ out' = [out EXCEPT ![c][q] = Tail(@)]
      /\ wire' = [wire EXCEPT ![c][q] = Append(@, Head(out[c][q]))]
  BY DEF FlushSide, panes
<1>2. /\ out'[c][q] = Tail(out[c][q]) /\ wire'[c][q] = Append(wire[c][q], Head(out[c][q]))
      /\ \A p \in Panes \ {q} : out'[c][p] = out[c][p] /\ wire'[c][p] = wire[c][p]
      /\ \A d \in Conns \ {c} : out'[d] = out[d] /\ wire'[d] = wire[d]
  BY <1>1 DEF TypesHold, ConnsTyped
<1>3. WaySteps(c)
  BY <1>1, <1>2 DEF WaySteps, WayFlushes
<1>4. \A d \in Conns \ {c} : WaySteps(d)
  BY <1>1, <1>2, SameIsLess DEF WaySteps, WayLess
<1>5. \A p \in Panes : LeftSteps(p) /\ PostSteps(p) /\ \A d \in Conns : SideSteps(d, p)
  BY <1>1 DEF LeftSteps, PostSteps, SideSteps
<1> QED
  BY <1>1, <1>3, <1>4, <1>5 DEF WaysGo

\* Where a link of its own takes one.
LEMMA FlushPostWays ==
    ASSUME TypesHold, NEW q, NEW n, FlushPost(q, n)
    PROVE  WaysGo
<1>1. /\ UNCHANGED <<proc, side, out, life, wire, told>> /\ <<q, n>> \in posts
      /\ posts' = posts \ {<<q, n>>} /\ loose' = [loose EXCEPT ![q] = @ \union {<<n>>}]
  BY DEF FlushPost, panes
<1>2. q \in Panes /\ n \in Given
  BY <1>1 DEF TypesHold, ConnsTyped
<1>3. \A c \in Conns : WaySteps(c)
  BY <1>1, SameIsLess DEF WaySteps, WayLess
<1>4. /\ loose'[q] = loose[q] \union {<<n>>}
      /\ \A p \in Panes \ {q} : loose'[p] = loose[p]
  BY <1>1, <1>2 DEF TypesHold, ConnsTyped
<1>5. \A p \in Panes : LeftSteps(p)
  BY <1>1, <1>2, <1>4 DEF LeftSteps
<1>6. \A p \in Panes : PostSteps(p) /\ \A c \in Conns : SideSteps(c, p)
  BY <1>1 DEF PostSteps, SideSteps
<1> QED
  BY <1>1, <1>3, <1>5, <1>6 DEF WaysGo

\* Where a connection's process ends.
LEMMA EndConnWays ==
    ASSUME TypesHold, NEW c \in Conns, EndConn(c)
    PROVE  WaysGo
<1>1. /\ UNCHANGED life /\ proc' = [proc EXCEPT ![c] = "gone"]
      /\ side' = [side EXCEPT ![c] = {}] /\ LetGo(c, Panes)
      /\ posts' = posts \ Of(c, posts) /\ told' = [told EXCEPT ![c] = <<>>]
  BY DEF EndConn, panes
<1>2. /\ proc'[c] = "gone" /\ told'[c] = <<>>
      /\ \A p \in Panes : out'[c][p] = <<>> /\ wire'[c][p] = <<>>
      /\ \A d \in Conns \ {c} : /\ out'[d] = out[d] /\ wire'[d] = wire[d] /\ side'[d] = side[d]
                               /\ proc'[d] = proc[d] /\ told'[d] = told[d]
      /\ \A p \in Panes : loose'[p] = IF wire[c][p] # <<>>
                                      THEN loose[p] \union {wire[c][p]} ELSE loose[p]
  BY <1>1 DEF LetGo, TypesHold, ConnsTyped
<1>3. WaySteps(c)
  BY <1>2 DEF WaySteps, WayLess, Less
<1>4. \A d \in Conns \ {c} : WaySteps(d)
  BY <1>2, SameIsLess DEF WaySteps, WayLess
<1>5. ASSUME NEW p \in Panes PROVE LeftSteps(p)
  <2>1. \A s \in loose'[p] : s \in loose[p] \/ (s = wire[c][p] /\ s # <<>>)
    BY <1>2
  <2> QED
    BY <1>2, <2>1 DEF LeftSteps
<1>6. \A p \in Panes : PostSteps(p) /\ \A d \in Conns : SideSteps(d, p)
  BY <1>1, <1>2 DEF PostSteps, SideSteps
<1> QED
  BY <1>1, <1>2, <1>3, <1>4, <1>5, <1>6 DEF WaysGo

\* Where a body is read from a link.
LEMMA ReadSideWays ==
    ASSUME TypesHold, NEW q \in Panes, NEW c \in Conns, ReadSide(q, c)
    PROVE  WaysGo
<1>1. /\ UNCHANGED <<told, proc, side, out, posts, loose, life>> /\ wire[c][q] # <<>>
      /\ wire' = [wire EXCEPT ![c][q] = Tail(@)]
  BY DEF ReadSide, Body, conns
<1>2. /\ wire'[c][q] = Tail(wire[c][q])
      /\ \A p \in Panes \ {q} : wire'[c][p] = wire[c][p]
      /\ \A d \in Conns \ {c} : wire'[d] = wire[d]
  BY <1>1 DEF TypesHold, ConnsTyped
<1>3. \A d \in Conns, p \in Panes : Less(wire'[d][p], wire[d][p])
  BY <1>1, <1>2 DEF Less
<1>4. \A d \in Conns : WaySteps(d)
  BY <1>1, <1>3, SameIsLess DEF WaySteps, WayLess
<1>5. \A p \in Panes : LeftSteps(p) /\ PostSteps(p) /\ \A d \in Conns : SideSteps(d, p)
  BY <1>1 DEF LeftSteps, PostSteps, SideSteps
<1> QED
  BY <1>1, <1>4, <1>5 DEF WaysGo

\* Where one is read from a link let go.
LEMMA ReadLooseWays ==
    ASSUME TypesHold, NEW q \in Panes, NEW t \in loose[q], ReadLoose(q, t)
    PROVE  WaysGo
<1>1. /\ UNCHANGED <<told, proc, side, out, posts, wire, life>>
      /\ loose' = [loose EXCEPT ![q] = (@ \ {t}) \union
                      (IF Len(t) = 1 THEN {} ELSE {Tail(t)})]
  BY DEF ReadLoose, Body, conns
<1>2. /\ loose'[q] = (loose[q] \ {t}) \union (IF Len(t) = 1 THEN {} ELSE {Tail(t)})
      /\ \A p \in Panes \ {q} : loose'[p] = loose[p]
  BY <1>1 DEF TypesHold, ConnsTyped
<1>3. \A d \in Conns : WaySteps(d)
  BY <1>1, SameIsLess DEF WaySteps, WayLess
<1>4. \A p \in Panes : LeftSteps(p)
  BY <1>2 DEF LeftSteps
<1>5. \A p \in Panes : PostSteps(p) /\ \A d \in Conns : SideSteps(d, p)
  BY <1>1 DEF PostSteps, SideSteps
<1> QED
  BY <1>1, <1>3, <1>4, <1>5 DEF WaysGo

\* Where a pane's process ends.
LEMMA EndPaneWays ==
    ASSUME TypesHold, NEW q \in Panes, EndPane(q)
    PROVE  WaysGo
<1>1. /\ UNCHANGED <<told, proc>> /\ life' = [life EXCEPT ![q] = "gone"]
      /\ loose' = [loose EXCEPT ![q] = {}]
      /\ wire' = [c \in Conns |-> [wire[c] EXCEPT ![q] = <<>>]]
      /\ out' = [c \in Conns |-> [out[c] EXCEPT ![q] = <<>>]]
      /\ side' = [c \in Conns |-> side[c] \ {q}]
      /\ posts' = {post \in posts : post[1] # q}
  BY DEF EndPane
<1>2. /\ \A c \in Conns : /\ wire'[c][q] = <<>> /\ out'[c][q] = <<>>
                          /\ \A p \in Panes \ {q} : wire'[c][p] = wire[c][p] /\ out'[c][p] = out[c][p]
                          /\ side'[c] = side[c] \ {q}
      /\ loose'[q] = {} /\ \A p \in Panes \ {q} : loose'[p] = loose[p]
      /\ life'[q] = "gone" /\ \A p \in Panes \ {q} : life'[p] = life[p]
  BY <1>1 DEF TypesHold, ConnsTyped, PanesTyped
<1>3. \A c \in Conns, p \in Panes : Less(wire'[c][p], wire[c][p]) /\ Less(out'[c][p], out[c][p])
  BY <1>2 DEF Less
<1>4. \A c \in Conns : WaySteps(c)
  BY <1>1, <1>3, SameIsLess DEF WaySteps, WayLess
<1>5. \A p \in Panes : LeftSteps(p) /\ PostSteps(p) /\ \A c \in Conns : SideSteps(c, p)
  BY <1>1, <1>2 DEF LeftSteps, PostSteps, SideSteps
<1> QED
  BY <1>1, <1>2, <1>4, <1>5 DEF WaysGo

\* Every step moves bodies only along their way.
LEMMA NextWays ==
    ASSUME TypesHold, TypesHold', [Next]_vars
    PROVE  WaysGo
<1>1. ASSUME NEW c \in Typists, TypeKey(c) \/ (\E p \in Panes : LookAt(c, p)) PROVE WaysGo
  <2>1. UNCHANGED <<told, conns, sockets, life>>
    BY <1>1 DEF TypeKey, LookAt, panes
  <2> QED
    BY <2>1, StillWays
<1>2. ASSUME NEW c \in Conns, NEW what \in {"paste", "keys"}, NEW to \in SUBSET Panes,
             Input(c, what, to), told' = [told EXCEPT ![c] = Append(@, Word("deliver", Len(inputs) + 1))],
             UNCHANGED <<conns, sockets, life>>
      PROVE  WaysGo
  <2>0. what \in {"key", "paste", "keys"}
    OBVIOUS
  <2> DEFINE word == Word("deliver", Len(inputs) + 1)
  <2>1. Len(inputs) + 1 \in Given' /\ inputs'[Len(inputs) + 1].from = c
    <3>1. /\ Len(inputs) + 1 \in Given'
          /\ inputs'[Len(inputs) + 1] = [from |-> c, what |-> what, to |-> to]
      BY <1>2, <2>0, MoreGiven
    <3> QED
      BY <3>1
  <2>2. word \in WordsToConn(Given') /\ word.say = "deliver" /\ word.n = Len(inputs) + 1
    BY <2>1 DEF WordsToConn, Word
  <2> HIDE DEF word
  <2>3. told' = [told EXCEPT ![c] = Append(@, word)]
    BY <1>2 DEF word
  <2> QED
    BY <1>2, <2>1, <2>2, <2>3, ToldWays
<1>3. ASSUME NEW c \in Typists, Paste(c) PROVE WaysGo
  <2>1. /\ Input(c, "paste", {focus[c]}) /\ UNCHANGED <<conns, sockets, life>>
        /\ told' = [told EXCEPT ![c] = Append(@, Word("deliver", Len(inputs) + 1))]
    BY <1>3 DEF Paste, Deliver, panes
  <2>2. c \in Conns /\ {focus[c]} \in SUBSET Panes
    BY <1>3 DEF Paste, TypesHold, ServerTyped, Conns
  <2> QED
    BY <1>2, <2>1, <2>2
<1>4. ASSUME NEW c \in Askers, NEW to \in SUBSET Panes, SendKeys(c, to) PROVE WaysGo
  <2>1. /\ Input(c, "keys", to) /\ UNCHANGED <<conns, sockets, life>>
        /\ told' = [told EXCEPT ![c] = Append(@, Word("deliver", Len(inputs) + 1))]
    BY <1>4 DEF SendKeys, Deliver, panes
  <2>2. c \in Conns
    BY DEF Conns
  <2> QED
    BY <1>2, <2>1, <2>2
<1>5. ASSUME NEW c \in Typists, Detach(c) PROVE WaysGo
  <2> DEFINE word == Word("close", 0)
  <2>1. /\ told' = [told EXCEPT ![c] = Append(@, word)] /\ UNCHANGED <<conns, sockets, life>>
    BY <1>5 DEF Detach, panes
  <2>2. word \in WordsToConn(Given') /\ word.say = "close" /\ c \in Conns
    BY DEF WordsToConn, Word, Conns
  <2> HIDE DEF word
  <2> QED
    BY <2>1, <2>2, ToldWays
<1>6. ASSUME NEW c \in Typists, SendScene(c) PROVE WaysGo
  <2> DEFINE word == [say |-> "scene", n |-> 0, shows |-> {focus[c]} \ {Nowhere}]
  <2>1. /\ told' = [told EXCEPT ![c] = Append(@, word)] /\ UNCHANGED <<conns, sockets, life>>
        /\ views[c].told # views[c].looked
    BY <1>6 DEF SendScene, panes
  <2>2. {focus[c]} \ {Nowhere} \in SUBSET Panes /\ c \in Conns
    BY DEF TypesHold, ServerTyped, Conns
  <2>3. word \in WordsToConn(Given') /\ word.say = "scene"
    BY <2>2 DEF WordsToConn
  <2> HIDE DEF word
  <2> QED
    BY <2>1, <2>2, <2>3, ToldWays
<1>7. ASSUME NEW c \in Conns, AnswerWait(c) \/ DropConn(c) PROVE WaysGo
  <2>1. UNCHANGED <<told, conns, sockets, life>>
    BY <1>7 DEF AnswerWait, DropConn, panes
  <2> QED
    BY <2>1, StillWays
<1>8. ASSUME NEW p \in Panes, HearPane(p) \/ PaneGone(p) \/ ClosePane(p) PROVE WaysGo
  <2>1. UNCHANGED <<told, conns, sockets, life>>
    BY <1>8 DEF HearPane, PaneGone, ClosePane, panes
  <2> QED
    BY <2>1, StillWays
<1>9. ASSUME NEW p \in Panes, Program(p) PROVE WaysGo
  <2>1. /\ UNCHANGED <<told, conns, sockets>> /\ life[p] # "gone"
        /\ \A q \in Panes \ {p} : life'[q] = life[q]
    BY <1>9 DEF Program, Listening, TypesHold, PanesTyped
  <2> QED
    BY <2>1, StillWays
<1>10. ASSUME NEW p \in Panes, Handle(p) PROVE WaysGo
  <2>1. UNCHANGED <<told, conns, sockets>>
    BY <1>10 DEF Handle
  <2>2. life[p] # "gone" /\ \A q \in Panes \ {p} : life'[q] = life[q]
    BY <1>10 DEF Handle, HandleKey, HandlePaste, HandleKeys, HandleDrop, HandleClose,
                 TypesHold, PanesTyped
  <2> QED
    BY <2>1, <2>2, StillWays
<1>11. CASE UNCHANGED vars
  <2>1. UNCHANGED <<told, conns, sockets, life>>
    BY <1>11 DEF vars, panes
  <2> QED
    BY <2>1, StillWays
<1>12. CASE Server
  <2>1. CASE \E c \in Typists : TypeKey(c) \/ Paste(c) \/ Detach(c) \/ SendScene(c)
                                \/ \E p \in Panes : LookAt(c, p)
    BY <1>1, <1>3, <1>5, <1>6, <2>1
  <2>2. CASE \E c \in Askers, to \in (SUBSET Panes) \ {{}} : SendKeys(c, to)
    BY <1>4, <2>2
  <2>3. CASE \E c \in Conns : AnswerWait(c) \/ DropConn(c)
    BY <1>7, <2>3
  <2>4. CASE \E p \in Panes : HearPane(p) \/ PaneGone(p) \/ ClosePane(p)
    BY <1>8, <2>4
  <2> QED
    BY <1>12, <2>1, <2>2, <2>3, <2>4 DEF Server
<1>13. CASE Connection
  BY <1>13, HearServerWays, EndConnWays, FlushSideWays, FlushPostWays DEF Connection, Close, Die
<1>14. CASE Pane
  BY <1>9, <1>10, <1>14, ReadSideWays, ReadLooseWays, EndPaneWays DEF Pane, Finish, Crash
<1> QED
  BY <1>11, <1>12, <1>13, <1>14 DEF Next

\* Bodies on their way are sound at the start,
LEMMA WaysInit ==
    ASSUME Init PROVE WaysSound
<1>1. /\ \A c \in Conns : told[c] = <<>> /\ \A p \in Panes : out[c][p] = <<>> /\ wire[c][p] = <<>>
      /\ \A p \in Panes : loose[p] = {}
  BY DEF Init
<1>2. ToSet(<<>>) = {} /\ Rises(<<>>)
  BY DEF Rises, ToSet
<1>3. \A c \in Conns : Delivers(c) = {} /\ ToldRise(c)
  BY <1>1, <1>2 DEF Delivers, ToldRise
<1>4. \A c \in Conns, p \in Panes : SentInOrder(c, p)
  BY <1>1, <1>2 DEF SentInOrder
<1> QED
  BY <1>1, <1>3, <1>4 DEF WaysSound, WaySound

\* and every step keeps them so.
LEMMA WaysKept ==
    ASSUME TypesHold, TypesHold', WaysSound, [Next]_vars
    PROVE  WaysSound'
<1>1. WaysGo /\ \A n \in Given : inputs'[n] = inputs[n]
  BY NextWays, NextSteps
<1>2. \A c \in Conns : WaySound(c)'
  BY <1>1, LessKept, ToldKept, TakesKept, FlushesKept DEF WaysGo, WaySteps, WaysSound
<1>3. \A p \in Panes : \A s \in loose'[p] : LeftSound(s)'
  BY <1>1, LeftKept DEF WaysGo
<1> QED
  BY <1>2, <1>3 DEF WaysSound

-----------------------------------------------------------------------------
(* While a client looks at one pane.                                       *)

\* Until it looks elsewhere its focus stays, and is what it types for.
LEMMA NextViews ==
    ASSUME TypesHold, [Next]_vars, NEW c \in Typists, views'[c].looked = 0
    PROVE  /\ views[c].looked = 0 /\ focus'[c] = focus[c]
           /\ views[c].told = 0 => views'[c].told = 0
           /\ \A n \in Given' \ Given : inputs'[n].from = c => inputs'[n].to = {focus[c]}
<1> DEFINE Looks == /\ views[c].looked = 0 /\ focus'[c] = focus[c]
                    /\ views[c].told = 0 => views'[c].told = 0
           Makes == \A n \in Given' \ Given : inputs'[n].from = c => inputs'[n].to = {focus[c]}
<1>1. /\ views \in [Typists -> [looked : Nat, told : Nat]]
      /\ focus \in [Typists -> Panes \union {Nowhere}]
  BY DEF TypesHold, ServerTyped
<1>2. ASSUME UNCHANGED <<views, focus>> PROVE Looks
  BY <1>2
<1>3. ASSUME UNCHANGED inputs PROVE Makes
  BY <1>3 DEF Given
<1>4. ASSUME NEW d \in Typists, NEW p \in Panes, LookAt(d, p) PROVE Looks /\ Makes
  <2>1. /\ UNCHANGED inputs /\ focus' = [focus EXCEPT ![d] = p]
        /\ views' = [views EXCEPT ![d].looked = @ + 1]
    BY <1>4 DEF LookAt
  <2>2. views[d].looked \in Nat /\ views'[d].looked = views[d].looked + 1
    BY <1>1, <2>1
  <2>3. d # c
    BY <2>2
  <2>4. views'[c] = views[c] /\ focus'[c] = focus[c]
    BY <1>1, <2>1, <2>3
  <2> QED
    BY <1>3, <2>1, <2>4
<1>5. ASSUME NEW p \in Panes, ClosePane(p) PROVE Looks /\ Makes
  <2>1. /\ UNCHANGED inputs
        /\ views' = [d \in Typists |-> [views[d] EXCEPT
                        !.looked = IF focus[d] = p THEN @ + 1 ELSE @]]
    BY <1>5 DEF ClosePane
  <2>2. PICK q : focus' = [d \in Typists |-> IF focus[d] = p THEN q ELSE focus[d]]
    BY <1>5 DEF ClosePane
  <2>3. focus[c] # p
    <3>1. CASE focus[c] = p
      <4>1. views'[c].looked = views[c].looked + 1 /\ views[c].looked \in Nat
        BY <1>1, <2>1, <3>1
      <4> QED
        BY <4>1
    <3> QED
      BY <3>1
  <2>4. focus'[c] = focus[c] /\ views'[c].looked = views[c].looked /\ views'[c].told = views[c].told
    BY <1>1, <2>1, <2>2, <2>3
  <2> QED
    BY <1>3, <2>1, <2>4
<1>6. ASSUME NEW d \in Typists, SendScene(d) PROVE Looks /\ Makes
  <2>1. /\ UNCHANGED <<inputs, focus>> /\ views[d].told # views[d].looked
        /\ views' = [views EXCEPT ![d].told = views[d].looked]
    BY <1>6 DEF SendScene
  <2>2. CASE d = c
    <3>1. views'[c].looked = views[c].looked /\ views'[c].told = views[c].looked
      BY <1>1, <2>1, <2>2
    <3> QED
      BY <1>3, <2>1, <2>2, <3>1
  <2>3. CASE d # c
    <3>1. views'[c] = views[c]
      BY <1>1, <2>1, <2>3
    <3> QED
      BY <1>3, <2>1, <3>1
  <2> QED
    BY <2>2, <2>3
<1>7. ASSUME NEW d \in Conns, NEW what \in {"key", "paste", "keys"}, NEW to \in SUBSET Panes,
             Input(d, what, to), d = c => to = {focus[c]}
      PROVE  Makes
  <2>1. /\ Given' = Given \union {Len(inputs) + 1}
        /\ inputs'[Len(inputs) + 1] = [from |-> d, what |-> what, to |-> to]
    BY <1>7, MoreGiven
  <2> QED
    BY <1>7, <2>1
<1>8. ASSUME NEW d \in Typists, TypeKey(d) PROVE Looks /\ Makes
  <2>1. Input(d, "key", {focus[d]}) /\ UNCHANGED <<views, focus>> /\ focus[d] # Nowhere
    BY <1>8 DEF TypeKey, server
  <2>2. d \in Conns /\ {focus[d]} \in SUBSET Panes
    BY <1>1, <2>1 DEF Conns
  <2> QED
    BY <1>2, <1>7, <2>1, <2>2
<1>9. ASSUME NEW d \in Typists, Paste(d) PROVE Looks /\ Makes
  <2>1. Input(d, "paste", {focus[d]}) /\ UNCHANGED <<views, focus>> /\ focus[d] # Nowhere
    BY <1>9 DEF Paste
  <2>2. d \in Conns /\ {focus[d]} \in SUBSET Panes
    BY <1>1, <2>1 DEF Conns
  <2> QED
    BY <1>2, <1>7, <2>1, <2>2
<1>10. ASSUME NEW d \in Askers, NEW to \in SUBSET Panes, SendKeys(d, to) PROVE Looks /\ Makes
  <2>1. Input(d, "keys", to) /\ UNCHANGED <<views, focus>>
    BY <1>10 DEF SendKeys
  <2>2. d \in Conns /\ d # c
    BY DEF Conns
  <2> QED
    BY <1>2, <1>7, <2>1, <2>2
<1>11. ASSUME NEW d, Detach(d) \/ AnswerWait(d) \/ DropConn(d) PROVE Looks /\ Makes
  <2>1. UNCHANGED <<inputs, views, focus>>
    BY <1>11 DEF Detach, AnswerWait, DropConn
  <2> QED
    BY <1>2, <1>3, <2>1
<1>12. ASSUME NEW p, HearPane(p) \/ PaneGone(p) PROVE Looks /\ Makes
  <2>1. UNCHANGED <<inputs, views, focus>>
    BY <1>12 DEF HearPane, PaneGone
  <2> QED
    BY <1>2, <1>3, <2>1
<1>13. ASSUME UNCHANGED <<inputs, server>> PROVE Looks /\ Makes
  BY <1>2, <1>3, <1>13 DEF server
<1> SUFFICES Looks /\ Makes
  OBVIOUS
<1> HIDE DEF Looks, Makes
<1>14. CASE Server
  <2>1. CASE \E d \in Typists : TypeKey(d) \/ Paste(d) \/ Detach(d) \/ SendScene(d)
                                \/ \E p \in Panes : LookAt(d, p)
    BY <1>4, <1>6, <1>8, <1>9, <1>11, <2>1
  <2>2. CASE \E d \in Askers, to \in (SUBSET Panes) \ {{}} : SendKeys(d, to)
    BY <1>10, <2>2
  <2>3. CASE \E d \in Conns : AnswerWait(d) \/ DropConn(d)
    BY <1>11, <2>3
  <2>4. CASE \E p \in Panes : HearPane(p) \/ PaneGone(p) \/ ClosePane(p)
    BY <1>5, <1>12, <2>4
  <2> QED
    BY <1>14, <2>1, <2>2, <2>3, <2>4 DEF Server
<1>15. CASE Connection
  <2>1. ASSUME NEW d, HearServer(d) \/ EndConn(d) PROVE UNCHANGED <<inputs, server>>
    BY <2>1 DEF HearServer, EndConn
  <2>2. ASSUME NEW d, NEW p, FlushSide(d, p) \/ FlushPost(d, p) PROVE UNCHANGED <<inputs, server>>
    BY <2>2 DEF FlushSide, FlushPost
  <2> QED
    BY <1>13, <1>15, <2>1, <2>2 DEF Connection, Close, Die
<1>16. CASE Pane
  <2>1. ASSUME NEW p, Handle(p) \/ Program(p) \/ Finish(p) \/ Crash(p)
        PROVE  UNCHANGED <<inputs, server>>
    BY <2>1 DEF Handle, Program, Finish, Crash, EndPane
  <2>2. ASSUME NEW p, NEW e, ReadSide(p, e) \/ ReadLoose(p, e) PROVE UNCHANGED <<inputs, server>>
    BY <2>2 DEF ReadSide, ReadLoose, Body
  <2> QED
    BY <1>13, <1>16, <2>1, <2>2 DEF Pane
<1>17. CASE UNCHANGED vars
  BY <1>13, <1>17 DEF vars
<1> QED
  BY <1>14, <1>15, <1>16, <1>17 DEF Next

\* What it is to send more is new.
LEMMA DeliversGo ==
    ASSUME TypesHold, NEW c \in Conns, WaySteps(c)
    PROVE  Delivers(c)' \subseteq Delivers(c) \union {Len(inputs) + 1}
<1>1. told[c] \in Seq(WordsToConn(Given))
  BY WayTyped
<1>2. CASE WayLess(c)
  BY <1>1, <1>2, LessIn DEF WayLess, Delivers
<1>3. CASE WayTold(c)
  <2>1. PICK word \in WordsToConn(Given') :
          told'[c] = Append(told[c], word) /\ (word.say = "deliver" => word.n = Len(inputs) + 1)
    BY <1>3 DEF WayTold
  <2>2. ToSet(told'[c]) = ToSet(told[c]) \union {word}
    BY <1>1, <2>1, AskedIn
  <2> QED
    BY <2>1, <2>2 DEF Delivers
<1>4. CASE WayTakes(c)
  <2>1. ToSet(told'[c]) \subseteq ToSet(told[c])
    BY <1>1, <1>4, InTail DEF WayTakes
  <2> QED
    BY <2>1 DEF Delivers
<1>5. CASE WayFlushes(c)
  BY <1>5 DEF WayFlushes, Delivers
<1> QED
  BY <1>2, <1>3, <1>4, <1>5 DEF WaySteps

\* While a client looks at one pane, its bodies go there on one link.
LEMMA WatchesKept ==
    ASSUME TypesHold, WaysSound, WaysGo, \A n \in Given : inputs'[n] = inputs[n],
           NEW c \in Typists, NEW p \in Panes, Watches(c, p), views[c].looked = 0,
           focus'[c] = focus[c], views'[c].told = 0,
           \A n \in Given' \ Given : inputs'[n].from = c => inputs'[n].to = {focus[c]}
    PROVE  Watches(c, p)' /\ (Hears(c, "scene") => FALSE)
<1>1. /\ c \in Conns /\ WaySteps(c) /\ (proc[c] = "gone" => proc'[c] = "gone")
      /\ SideSteps(c, p) /\ PostSteps(p) /\ (life[p] = "gone" => life'[p] = "gone")
  BY DEF WaysGo, Conns
<1>2. told[c] \in Seq(WordsToConn(Given))
  BY <1>1, WayTyped
<1>3. ~Hears(c, "scene")
  BY <1>2, InTail DEF Watches, Hears
<1>4. \A word \in ToSet(told'[c]) : word.say # "scene"
  <2>1. CASE WayLess(c)
    BY <1>2, <2>1, LessIn DEF WayLess, Watches
  <2>2. CASE WayTold(c)
    <3>1. PICK word \in WordsToConn(Given') :
            told'[c] = Append(told[c], word) /\ word.say # "scene"
      BY <2>2 DEF WayTold, Watches
    <3> QED
      BY <1>2, <3>1, AskedIn DEF Watches
  <2>3. CASE WayTakes(c)
    BY <1>2, <2>3, InTail DEF WayTakes, Watches
  <2>4. CASE WayFlushes(c)
    BY <2>4 DEF WayFlushes, Watches
  <2> QED
    BY <1>1, <2>1, <2>2, <2>3, <2>4 DEF WaySteps
<1>5. p \in side'[c] \/ proc'[c] = "gone" \/ life'[p] = "gone"
  BY <1>1, <1>3 DEF Watches, SideSteps
<1>6. ASSUME NEW n \in Given', From(n)' = c PROVE inputs'[n].to = {p} /\ <<p, n>> \notin posts'
  <2>1. inputs'[n].to = {p}
    <3>1. CASE n \in Given
      BY <1>6, <3>1 DEF Watches, From
    <3>2. CASE n \notin Given
      BY <1>6, <3>2 DEF Watches, From
    <3> QED
      BY <3>1, <3>2
  <2>2. <<p, n>> \notin posts
    <3>1. CASE n \in Given
      BY <1>6, <3>1 DEF Watches, From
    <3>2. CASE n \notin Given
      BY <3>2 DEF TypesHold, ConnsTyped
    <3> QED
      BY <3>1, <3>2
  <2>3. ASSUME NEW d \in Conns, Hears(d, "deliver"), Head(told[d]).n = n,
               p \notin side[d], life[p] # "gone"
        PROVE  FALSE
    <3>1. Head(told[d]) \in ToSet(told[d])
      BY <2>3, WayTyped, InTail DEF Hears
    <3>2. n \in Delivers(d)
      BY <2>3, <3>1 DEF Hears, Delivers
    <3>3. n \in Given /\ From(n) = d
      BY <3>2, WayTyped DEF WaysSound, WaySound
    <3>4. d = c
      BY <1>6, <3>3 DEF From
    <3> QED
      BY <2>3, <3>4 DEF Watches, Hears
  <2> QED
    BY <1>1, <2>1, <2>2, <2>3 DEF PostSteps
<1> QED
  BY <1>3, <1>4, <1>5, <1>6 DEF Watches

\* What is on its way comes from what was, but for what is new.
LEMMA OnWayGo ==
    ASSUME TypesHold, WaysSound, WaysGo, \A n \in Given : inputs'[n] = inputs[n],
           NEW c \in Typists, NEW p \in Panes, Watches(c, p)
    PROVE  /\ OnWay(c, p)' \subseteq OnWay(c, p) \union {Len(inputs) + 1}
           /\ Delivers(c)' \subseteq Delivers(c) \union {Len(inputs) + 1}
<1>1. c \in Conns /\ WaySteps(c) /\ LeftSteps(p) /\ WaySound(c)
  BY DEF WaysGo, WaysSound, Conns
<1>2. Delivers(c)' \subseteq Delivers(c) \union {Len(inputs) + 1}
  BY <1>1, DeliversGo
<1>3. \A n \in Given : From(n)' = From(n)
  BY DEF From
<1>4. /\ out[c][p] \in Seq(Given) /\ wire[c][p] \in Seq(Given)
      /\ Delivers(c) \subseteq Given
      /\ ToSet(out[c][p]) \subseteq Given /\ ToSet(wire[c][p]) \subseteq Given
  BY <1>1, WayTyped
<1>5. \A n \in ToSet(out[c][p]) \union ToSet(wire[c][p]) \union Delivers(c) : n \in OnWay(c, p)
  BY <1>1, <1>4 DEF WaySound, SentInOrder, OnWay
<1>6. \A n \in ToSet(out'[c][p]) \union ToSet(wire'[c][p]) : n \in OnWay(c, p)
  <2>1. CASE WayLess(c)
    BY <1>4, <1>5, <2>1, LessIn DEF WayLess
  <2>2. CASE WayTold(c)
    BY <1>5, <2>2 DEF WayTold
  <2>3. CASE WayTakes(c)
    <3>1. PICK n \in Given : n = Head(told[c]).n
      BY <1>1, <2>3, WayTyped, InTail, WordsAre DEF WayTakes
    <3>2. n \in Delivers(c)
      BY <1>1, <2>3, <3>1, WayTyped, InTail DEF WayTakes, Delivers
    <3>3. wire'[c][p] = wire[c][p] /\ (out'[c][p] = out[c][p] \/ out'[c][p] = Append(out[c][p], n))
      BY <2>3, <3>1 DEF WayTakes
    <3>4. ToSet(Append(out[c][p], n)) = ToSet(out[c][p]) \union {n}
      BY <1>4, AskedIn
    <3> QED
      BY <1>5, <3>2, <3>3, <3>4
  <2>4. CASE WayFlushes(c)
    <3>1. PICK q \in Panes :
            /\ out[c][q] # <<>> /\ out'[c][q] = Tail(out[c][q])
            /\ wire'[c][q] = Append(wire[c][q], Head(out[c][q]))
            /\ \A r \in Panes \ {q} : out'[c][r] = out[c][r] /\ wire'[c][r] = wire[c][r]
      BY <2>4 DEF WayFlushes
    <3>2. CASE q = p
      <4>1. ToSet(out[c][p]) = {Head(out[c][p])} \union ToSet(out'[c][p])
        BY <1>4, <3>1, <3>2, InTail
      <4>2. ToSet(wire'[c][p]) = ToSet(wire[c][p]) \union {Head(out[c][p])}
        BY <1>4, <3>1, <3>2, AskedIn
      <4> QED
        BY <1>5, <4>1, <4>2
    <3>3. CASE q # p
      BY <1>5, <3>1, <3>3
    <3> QED
      BY <3>2, <3>3
  <2> QED
    BY <1>1, <2>1, <2>2, <2>3, <2>4 DEF WaySteps
<1>0. ASSUME NEW s \in loose'[p]
      PROVE  \/ s \in loose[p]
             \/ \E t \in loose[p] : s = Tail(t)
             \/ \E d \in Conns : s = wire[d][p]
             \/ \E k \in Given : <<p, k>> \in posts /\ s = <<k>>
  BY <1>1 DEF LeftSteps
<1>9. ASSUME NEW s \in loose'[p] PROVE ToSet(s) \subseteq Given
  <2>1. \A t \in loose[p] : t \in Seq(Given) /\ t # <<>>
    BY DEF TypesHold, ConnsTyped, WaysSound, LeftSound
  <2>2. \A t \in loose[p] : Tail(t) \in Seq(Given)
    BY <2>1, InTail
  <2>3. \A d \in Conns : wire[d][p] \in Seq(Given)
    BY WayTyped
  <2>4. \A k \in Given : <<k>> \in Seq(Given)
    OBVIOUS
  <2>5. s \in Seq(Given)
    BY <1>0, <2>1, <2>2, <2>3, <2>4
  <2> QED
    BY <2>5, InSeq
<1>7. ASSUME NEW n \in Given, From(n) = c, NEW s \in loose'[p], n \in ToSet(s)
      PROVE  n \in OnWay(c, p)
  <2>1. \A t \in loose[p] : t \in Seq(Given) /\ t # <<>>
    BY DEF TypesHold, ConnsTyped, WaysSound, LeftSound
  <2>2. ASSUME NEW t \in loose[p], ToSet(s) \subseteq ToSet(t) PROVE n \in OnWay(c, p)
    BY <1>7, <2>2 DEF OnWay
  <2>3. ASSUME NEW t \in loose[p], s = Tail(t) PROVE n \in OnWay(c, p)
    BY <2>1, <2>2, <2>3, InTail
  <2>4. ASSUME NEW d \in Conns, s = wire[d][p] PROVE n \in OnWay(c, p)
    <3>1. From(n) = d
      BY <1>7, <2>4 DEF WaysSound, WaySound, SentInOrder
    <3> QED
      BY <1>5, <1>7, <2>4, <3>1
  <2>5. ASSUME NEW k \in Given, <<p, k>> \in posts, s = <<k>> PROVE FALSE
    <3>1. k = n
      BY <1>7, <2>5, InShort
    <3> QED
      BY <1>7, <2>5, <3>1 DEF Watches
  <2> QED
    BY <1>0, <2>2, <2>3, <2>4, <2>5
<1>8. ASSUME NEW n \in OnWay(c, p)', n # Len(inputs) + 1 PROVE n \in OnWay(c, p)
  <2>1. CASE n \in Delivers(c)'
    BY <1>2, <1>5, <1>8, <2>1
  <2>2. CASE n \in ToSet(out'[c][p]) \union ToSet(wire'[c][p])
    BY <1>6, <2>2
  <2>3. CASE \E s \in loose'[p] : n \in ToSet(s)
    <3>1. PICK s \in loose'[p] : n \in ToSet(s)
      BY <2>3
    <3>2. n \in Given
      BY <1>9, <3>1
    <3> QED
      BY <1>3, <1>7, <1>8, <3>1, <3>2 DEF OnWay
  <2> QED
    BY <1>8, <2>1, <2>2, <2>3 DEF OnWay
<1> QED
  BY <1>2, <1>8

\* What a client left on a link let go stays one, before all it is to send.
LEMMA LeftIsOneKept ==
    ASSUME TypesHold, WaysSound, WaysGo, \A n \in Given : inputs'[n] = inputs[n],
           NEW c \in Typists, NEW p \in Panes, Watches(c, p), LeftIsOne(c, p),
           ~Hears(c, "scene")
    PROVE  LeftIsOne(c, p)'
<1>1. /\ c \in Conns /\ LeftSteps(p) /\ WaySound(c) /\ SentInOrder(c, p)
      /\ proc[c] = "gone" => proc'[c] = "gone"
  BY DEF WaysGo, WaysSound, WaySound, Conns
<1>2. \A k \in Delivers(c)' : k \in Delivers(c) \/ k = Len(inputs) + 1
  BY OnWayGo
<1>3. \A n \in Given : From(n)' = From(n) /\ n < Len(inputs) + 1
  BY LenProperties DEF From, TypesHold, Given
<1>4. \A t \in loose[p] : t \in Seq(Given) /\ t # <<>> /\ ToSet(t) \subseteq Given
  BY InSeq DEF TypesHold, ConnsTyped, WaysSound, LeftSound
<1>5. \A t \in loose[p] : Tail(t) \in Seq(Given) /\ ToSet(Tail(t)) \subseteq ToSet(t)
  BY <1>4, InTail
<1>6. wire[c][p] \in Seq(Given) /\ ToSet(wire[c][p]) \subseteq Given
  BY <1>1, WayTyped
<1>7. ASSUME NEW s, NEW t \in loose[p], ToSet(s) \subseteq ToSet(t), Its(c, s)'
      PROVE  /\ Its(c, t) /\ proc'[c] = "gone"
             /\ \A m \in ToSet(s), k \in Delivers(c)' : m < k
  <2>1. Its(c, t)
    BY <1>3, <1>4, <1>7 DEF Its
  <2> QED
    BY <1>1, <1>2, <1>3, <1>4, <1>7, <2>1 DEF LeftIsOne
<1>8. CASE \E t \in loose[p] :
              loose'[p] = (loose[p] \ {t}) \union (IF Len(t) = 1 THEN {} ELSE {Tail(t)})
  <2>1. PICK t \in loose[p] :
          loose'[p] = (loose[p] \ {t}) \union (IF Len(t) = 1 THEN {} ELSE {Tail(t)})
    BY <1>8
  <2>2. \A s \in loose'[p] : (s \in loose[p] /\ s # t) \/ s = Tail(t)
    <3>1. CASE Len(t) = 1
      BY <2>1, <3>1
    <3>2. CASE Len(t) # 1
      BY <2>1, <3>2
    <3> QED
      BY <3>1, <3>2
  <2>3. ASSUME NEW s \in loose'[p], Its(c, s)'
        PROVE  proc'[c] = "gone" /\ \A m \in ToSet(s), k \in Delivers(c)' : m < k
    BY <1>5, <1>7, <2>2, <2>3
  <2>4. ASSUME NEW s \in loose'[p], NEW r \in loose'[p], Its(c, s)', Its(c, r)'
        PROVE  s = r
    <3>1. \/ s \in loose[p] /\ s # t /\ Its(c, s)
          \/ s = Tail(t) /\ Its(c, t)
      BY <1>5, <1>7, <2>2, <2>4
    <3>2. \/ r \in loose[p] /\ r # t /\ Its(c, r)
          \/ r = Tail(t) /\ Its(c, t)
      BY <1>5, <1>7, <2>2, <2>4
    <3> QED
      BY <3>1, <3>2 DEF LeftIsOne
  <2> QED
    BY <2>3, <2>4 DEF LeftIsOne
<1>9. CASE \A s \in loose'[p] :
              \/ s \in loose[p]
              \/ \E d \in Conns : /\ s = wire[d][p] /\ s # <<>>
                                  /\ Hears(d, "scene") \/ proc'[d] = "gone"
              \/ \E n \in Given : <<p, n>> \in posts /\ s = <<n>>
  <2>1. ASSUME NEW s \in loose'[p], Its(c, s)'
        PROVE  \/ s \in loose[p] /\ Its(c, s)
               \/ s = wire[c][p] /\ s # <<>> /\ proc'[c] = "gone"
    <3>1. CASE s \in loose[p]
      BY <1>7, <2>1, <3>1
    <3>2. ASSUME NEW d \in Conns, s = wire[d][p], s # <<>>,
                 Hears(d, "scene") \/ proc'[d] = "gone"
          PROVE  s = wire[c][p] /\ s # <<>> /\ proc'[c] = "gone"
      <4>1. PICK n \in ToSet(s) : From(n)' = c
        BY <2>1 DEF Its
      <4>2. n \in Given /\ From(n) = d
        BY <3>2, <4>1, WayTyped DEF WaysSound, WaySound, SentInOrder
      <4>3. d = c
        BY <1>3, <4>1, <4>2
      <4> QED
        BY <3>2, <4>3
    <3>3. ASSUME NEW n \in Given, <<p, n>> \in posts, s = <<n>> PROVE FALSE
      <4>1. From(n)' = c
        BY <2>1, <3>3, InShort DEF Its
      <4> QED
        BY <1>3, <3>3, <4>1 DEF Watches
    <3> QED
      BY <1>9, <3>1, <3>2, <3>3
  <2>2. ASSUME NEW s \in loose[p], Its(c, s) PROVE wire[c][p] = <<>>
    BY <1>1, <2>2 DEF LeftIsOne, SentInOrder
  <2>3. ASSUME NEW s \in loose'[p], Its(c, s)'
        PROVE  proc'[c] = "gone" /\ \A m \in ToSet(s), k \in Delivers(c)' : m < k
    <3>1. CASE s \in loose[p]
      BY <1>7, <2>3, <3>1
    <3>2. CASE s = wire[c][p] /\ proc'[c] = "gone"
      BY <1>1, <1>2, <1>3, <1>6, <3>2 DEF SentInOrder
    <3> QED
      BY <2>1, <2>3, <3>1, <3>2
  <2>4. ASSUME NEW s \in loose'[p], NEW r \in loose'[p], Its(c, s)', Its(c, r)'
        PROVE  s = r
    BY <2>1, <2>2, <2>4 DEF LeftIsOne
  <2> QED
    BY <2>3, <2>4 DEF LeftIsOne
<1> QED
  BY <1>1, <1>8, <1>9 DEF LeftSteps

-----------------------------------------------------------------------------
(* What comes to a pane, and is typed.                                     *)

\* A body is read: of a link, or of one let go.
Reads(p, n) ==
    \/ \E c \in Conns : /\ wire[c][p] # <<>> /\ n = Head(wire[c][p])
                        /\ wire' = [wire EXCEPT ![c][p] = Tail(@)]
                        /\ UNCHANGED <<told, out, loose>>
    \/ \E t \in loose[p] :
          /\ n = Head(t)
          /\ loose'[p] = (loose[p] \ {t}) \union (IF Len(t) = 1 THEN {} ELSE {Tail(t)})
          /\ UNCHANGED <<told, out, wire>>

\* What came to a pane, or was typed.
Came(p) == bodies[p] \union ToSet(taken[p])

\* No paste comes, and what is typed is later than all that was; or a body is
\* read.
Arrives(p) ==
    \/ /\ \A n \in Came(p)' : n \in Came(p) \/ (n \in Given /\ inputs[n].what # "paste")
       /\ \/ taken'[p] = taken[p]
          \/ \E n \in Given : /\ taken'[p] = Append(taken[p], n)
                              /\ \A k \in ToSet(taken[p]) : k < n
    \/ \E n \in Given :
          /\ Reads(p, n)
          /\ Came(p)' \subseteq Came(p) \union {n}
          /\ taken'[p] = taken[p] \/ taken'[p] = Append(taken[p], n)

\* What is typed more keeps the order if it is later than the pastes before.
LEMMA TypesInOrder ==
    ASSUME TypesHold, \A n \in Given : inputs'[n] = inputs[n],
           NEW c \in Typists, NEW p \in Panes, NEW n \in Given,
           taken'[p] = Append(taken[p], n), TypedAsMade(c, p, {"paste"}),
           PasteOf(c, n) => \A k \in ToSet(taken[p]) : PasteOf(c, k) => k < n
    PROVE  TypedAsMade(c, p, {"paste"})'
<1>1. taken[p] \in Seq(Given)
  BY DEF TypesHold, PanesTyped
<1>2. /\ DOMAIN taken'[p] = 1..(Len(taken[p]) + 1) /\ Len(taken[p]) \in Nat
      /\ DOMAIN taken[p] = 1..Len(taken[p])
      /\ \A i \in 1..Len(taken[p]) : taken'[p][i] = taken[p][i] /\ taken[p][i] \in ToSet(taken[p])
                                     /\ taken[p][i] \in Given
      /\ taken'[p][Len(taken[p]) + 1] = n
  BY <1>1, AppendProperties, LenProperties, ElementOfSeq DEF ToSet
<1>3. \A k \in Given : From(k)' = From(k) /\ inputs'[k].what = inputs[k].what
  BY DEF From
<1> SUFFICES ASSUME NEW i \in DOMAIN taken'[p], NEW j \in DOMAIN taken'[p], i < j,
                    \A k \in {taken'[p][i], taken'[p][j]} :
                        From(k)' = c /\ inputs'[k].what \in {"paste"}
             PROVE  taken'[p][i] < taken'[p][j]
  BY DEF TypedAsMade
<1>4. CASE j \in 1..Len(taken[p])
  <2>1. i \in 1..Len(taken[p])
    BY <1>2, <1>4
  <2> QED
    BY <1>2, <1>3, <1>4, <2>1 DEF TypedAsMade
<1>5. CASE j = Len(taken[p]) + 1
  <2>1. i \in 1..Len(taken[p])
    BY <1>2, <1>5
  <2>2. PasteOf(c, n) /\ PasteOf(c, taken[p][i])
    BY <1>2, <1>3, <1>5, <2>1 DEF PasteOf
  <2> QED
    BY <1>2, <1>5, <2>1, <2>2
<1> QED
  BY <1>2, <1>4, <1>5

\* Where nothing comes.
LEMMA NoneArrives ==
    ASSUME NEW p \in Panes, bodies'[p] \subseteq bodies[p], taken'[p] = taken[p]
    PROVE  Arrives(p)
BY DEF Arrives, Came

\* Where a pane's process hears its server.
LEMMA HandleArrives ==
    ASSUME TypesHold, PanesSound, NEW q \in Panes, Handle(q), NEW p \in Panes
    PROVE  Arrives(p)
<1> DEFINE word == Head(toPane[q])
           n == word.n
<1>1. /\ toPane \in [Panes -> Seq(WordsTo(Given))] /\ bodies \in [Panes -> SUBSET Given]
      /\ taken \in [Panes -> Seq(Given)]
  BY DEF TypesHold, PanesTyped
<1>2. /\ toPane[q] # <<>>
      /\ \/ word.say = "key" /\ HandleKey(q, n)
         \/ word.say = "paste" /\ HandlePaste(q, n)
         \/ word.say = "keys" /\ HandleKeys(q, n)
         \/ word.say = "drop" /\ HandleDrop(q, n)
         \/ word.say = "close" /\ HandleClose(q)
  BY DEF Handle
<1>3. word \in ToSet(toPane[q]) /\ word \in WordsTo(Given)
  BY <1>1, <1>2, InTail
<1>4. Typing(word) => /\ n \in Given /\ inputs[n].what = word.say
                      /\ \A k \in ToSet(taken[q]) : k < n
  BY <1>3, WordsAre DEF PanesSound, AsAsked, NewestLast, Typing
<1> HIDE DEF word, n
<1>5. /\ bodies'[q] \subseteq bodies[q]
      /\ \/ taken'[q] = taken[q]
         \/ /\ Typing(word) /\ taken'[q] = Append(taken[q], n)
            /\ word.say # "paste" \/ n \in bodies[q]
  <2>1. CASE word.say = "key" /\ HandleKey(q, n)
    BY <1>1, <2>1 DEF HandleKey, Write, Typing
  <2>2. CASE word.say = "paste" /\ HandlePaste(q, n)
    <3>1. CASE life[q] # "runs" \/ n \notin bodies[q]
      BY <1>1, <2>2, <3>1 DEF HandlePaste
    <3>2. CASE life[q] = "runs" /\ n \in bodies[q]
      BY <1>1, <2>2, <3>2 DEF HandlePaste, Write, Typing
    <3> QED
      BY <3>1, <3>2
  <2>3. CASE word.say = "keys" /\ HandleKeys(q, n)
    <3>1. CASE n \notin bodies[q]
      BY <2>3, <3>1 DEF HandleKeys
    <3>2. CASE n \in bodies[q]
      <4>1. bodies' = [bodies EXCEPT ![q] = @ \ {n}] /\ KeysCome(q, n)
        BY <2>3, <3>2 DEF HandleKeys
      <4>2. taken' = taken \/ taken' = [taken EXCEPT ![q] = Append(@, n)]
        BY <4>1 DEF KeysCome, Write
      <4> QED
        BY <1>1, <2>3, <4>1, <4>2 DEF Typing
    <3> QED
      BY <3>1, <3>2
  <2>4. CASE word.say = "drop" /\ HandleDrop(q, n)
    BY <1>1, <2>4 DEF HandleDrop
  <2>5. CASE word.say = "close" /\ HandleClose(q)
    BY <2>5 DEF HandleClose
  <2> QED
    BY <1>2, <2>1, <2>2, <2>3, <2>4, <2>5
<1>6. CASE p = q
  <2>1. CASE taken'[q] = taken[q]
    BY <1>5, <1>6, <2>1, NoneArrives
  <2>2. CASE taken'[q] # taken[q]
    <3>1. /\ taken'[q] = Append(taken[q], n) /\ n \in Given /\ inputs[n].what = word.say
          /\ \A k \in ToSet(taken[q]) : k < n
          /\ word.say # "paste" \/ n \in bodies[q]
      BY <1>4, <1>5, <2>2
    <3>2. ToSet(taken'[q]) = ToSet(taken[q]) \union {n}
      BY <1>1, <3>1, AskedIn
    <3>3. \A k \in Came(q)' : k \in Came(q) \/ (k \in Given /\ inputs[k].what # "paste")
      BY <1>5, <3>1, <3>2 DEF Came
    <3> QED
      BY <1>6, <3>1, <3>3 DEF Arrives
  <2> QED
    BY <2>1, <2>2
<1>7. CASE p # q
  <2>1. bodies'[p] = bodies[p] /\ taken'[p] = taken[p]
    <3>1. \/ HandleKey(q, n) \/ HandlePaste(q, n) \/ HandleKeys(q, n) \/ HandleDrop(q, n)
          \/ HandleClose(q)
      BY <1>2
    <3>2. CASE HandleKey(q, n)
      BY <1>1, <1>7, <3>2 DEF HandleKey, Write
    <3>3. CASE HandlePaste(q, n)
      BY <1>1, <1>7, <3>3 DEF HandlePaste, Write
    <3>4. CASE HandleKeys(q, n)
      BY <1>1, <1>7, <3>4 DEF HandleKeys, KeysCome, Write
    <3>5. CASE HandleDrop(q, n) \/ HandleClose(q)
      BY <1>1, <1>7, <3>5 DEF HandleDrop, HandleClose
    <3> QED
      BY <3>1, <3>2, <3>3, <3>4, <3>5
  <2> QED
    BY <2>1, NoneArrives
<1> QED
  BY <1>6, <1>7

\* Where a body comes.
LEMMA BodyArrives ==
    ASSUME TypesHold, NEW q \in Panes, NEW n \in Given, Body(q, n), Reads(q, n), NEW p \in Panes
    PROVE  Arrives(p)
<1>1. bodies \in [Panes -> SUBSET Given] /\ taken \in [Panes -> Seq(Given)]
  BY DEF TypesHold, PanesTyped
<1>2. /\ bodies' = bodies \/ bodies' = [bodies EXCEPT ![q] = @ \union {n}]
      /\ taken' = taken \/ taken' = [taken EXCEPT ![q] = Append(@, n)]
  <2>1. CASE n \in awaiting[q] /\ inputs[n].what = "keys"
    BY <2>1 DEF Body, KeysCome, Write
  <2>2. CASE ~(n \in awaiting[q] /\ inputs[n].what = "keys") /\ n \in awaiting[q] /\ life[q] = "runs"
    BY <2>2 DEF Body, Write
  <2>3. CASE ~(n \in awaiting[q] /\ inputs[n].what = "keys") /\ ~(n \in awaiting[q] /\ life[q] = "runs")
    BY <2>3 DEF Body
  <2> QED
    BY <2>1, <2>2, <2>3
<1>3. CASE p = q
  <2>1. taken'[q] = taken[q] \/ taken'[q] = Append(taken[q], n)
    BY <1>1, <1>2
  <2>2. ToSet(taken'[q]) \subseteq ToSet(taken[q]) \union {n}
    BY <1>1, <2>1, AskedIn
  <2>3. bodies'[q] \subseteq bodies[q] \union {n}
    BY <1>1, <1>2
  <2>4. Came(q)' \subseteq Came(q) \union {n}
    BY <2>2, <2>3 DEF Came
  <2> QED
    BY <1>3, <2>1, <2>4 DEF Arrives
<1>4. CASE p # q
  <2>1. bodies'[p] = bodies[p] /\ taken'[p] = taken[p]
    BY <1>1, <1>2, <1>4
  <2> QED
    BY <2>1, NoneArrives
<1> QED
  BY <1>3, <1>4

\* Every step.
LEMMA NextArrives ==
    ASSUME TypesHold, PanesSound, WaysSound, [Next]_vars, NEW p \in Panes
    PROVE  Arrives(p)
<1>1. ASSUME UNCHANGED panes PROVE Arrives(p)
  BY <1>1, NoneArrives DEF panes
<1>2. ASSUME NEW c, TypeKey(c) \/ Paste(c) \/ Detach(c) \/ SendScene(c) \/ AnswerWait(c)
                    \/ DropConn(c) \/ HearServer(c) \/ EndConn(c)
      PROVE  Arrives(p)
  <2>1. UNCHANGED panes
    BY <1>2 DEF TypeKey, Paste, Detach, SendScene, AnswerWait, DropConn, HearServer, EndConn
  <2> QED
    BY <1>1, <2>1
<1>3. ASSUME NEW c, NEW q, LookAt(c, q) \/ SendKeys(c, q) \/ FlushSide(c, q) \/ FlushPost(c, q)
      PROVE  Arrives(p)
  <2>1. UNCHANGED panes
    BY <1>3 DEF LookAt, SendKeys, FlushSide, FlushPost
  <2> QED
    BY <1>1, <2>1
<1>4. ASSUME NEW q, HearPane(q) \/ PaneGone(q) \/ ClosePane(q) PROVE Arrives(p)
  <2>1. UNCHANGED panes
    BY <1>4 DEF HearPane, PaneGone, ClosePane
  <2> QED
    BY <1>1, <2>1
<1>5. ASSUME NEW q, Program(q) PROVE Arrives(p)
  <2>1. UNCHANGED <<bodies, taken>>
    BY <1>5 DEF Program
  <2> QED
    BY <2>1, NoneArrives
<1>6. ASSUME NEW q \in Panes, EndPane(q) PROVE Arrives(p)
  <2>1. taken'[p] = taken[p] /\ bodies'[p] \subseteq bodies[p]
    BY <1>6 DEF EndPane, TypesHold, PanesTyped
  <2> QED
    BY <2>1, NoneArrives
<1>7. ASSUME NEW q \in Panes, NEW c \in Conns, ReadSide(q, c) PROVE Arrives(p)
  <2>1. /\ wire[c][q] # <<>> /\ wire' = [wire EXCEPT ![c][q] = Tail(@)]
        /\ Body(q, Head(wire[c][q])) /\ UNCHANGED loose
    BY <1>7 DEF ReadSide
  <2>2. UNCHANGED <<told, out>>
    BY <2>1 DEF Body, conns
  <2>3. PICK n \in Given : n = Head(wire[c][q])
    BY <2>1, WayTyped, InTail
  <2>4. Reads(q, n)
    BY <2>1, <2>2, <2>3 DEF Reads
  <2> QED
    BY <2>1, <2>3, <2>4, BodyArrives
<1>8. ASSUME NEW q \in Panes, NEW t \in loose[q], ReadLoose(q, t) PROVE Arrives(p)
  <2>1. /\ loose' = [loose EXCEPT ![q] = (@ \ {t}) \union
                        (IF Len(t) = 1 THEN {} ELSE {Tail(t)})]
        /\ Body(q, Head(t)) /\ UNCHANGED wire
    BY <1>8 DEF ReadLoose
  <2>2. UNCHANGED <<told, out>>
    BY <2>1 DEF Body, conns
  <2>3. t \in Seq(Given) /\ t # <<>>
    BY DEF TypesHold, ConnsTyped, WaysSound, LeftSound
  <2>4. PICK n \in Given : n = Head(t)
    BY <2>3, InTail
  <2>5. loose'[q] = (loose[q] \ {t}) \union (IF Len(t) = 1 THEN {} ELSE {Tail(t)})
    BY <2>1 DEF TypesHold, ConnsTyped
  <2>6. Reads(q, n)
    BY <2>1, <2>2, <2>4, <2>5 DEF Reads
  <2> QED
    BY <2>1, <2>4, <2>6, BodyArrives
<1>9. CASE Server
  BY <1>2, <1>3, <1>4, <1>9 DEF Server
<1>10. CASE Connection
  BY <1>2, <1>3, <1>10 DEF Connection, Close, Die
<1>11. CASE Pane
  BY <1>5, <1>6, <1>7, <1>8, <1>11, HandleArrives DEF Pane, Finish, Crash
<1>12. CASE UNCHANGED vars
  BY <1>1, <1>12 DEF vars
<1> QED
  BY <1>9, <1>10, <1>11, <1>12 DEF Next

\* What is read of a client's is before all that is still on its way.
LEMMA ReadIsFirst ==
    ASSUME TypesHold, WaysSound, NEW c \in Typists, NEW p \in Panes, LeftIsOne(c, p),
           \A n \in Given : inputs'[n] = inputs[n],
           NEW k \in Given, Reads(p, k), From(k) = c
    PROVE  k \in OnWay(c, p) /\ \A n \in OnWay(c, p)' : k < n
<1>1. c \in Conns /\ WaySound(c) /\ SentInOrder(c, p)
  BY DEF WaysSound, WaySound, Conns
<1>2. /\ wire[c][p] \in Seq(Given) /\ out[c][p] \in Seq(Given) /\ wire[c][p] \in Seq(Nat)
      /\ ToSet(wire[c][p]) \subseteq Given /\ ToSet(out[c][p]) \subseteq Given
      /\ Delivers(c) \subseteq Given /\ wire \in [Conns -> [Panes -> Seq(Given)]]
  BY <1>1, WayTyped DEF TypesHold, ConnsTyped
<1>3. \A n \in Given : From(n)' = From(n)
  BY DEF From
<1>4. \A s \in loose[p] : s \in Seq(Given) /\ s # <<>> /\ ToSet(s) \subseteq Given /\ Rises(s)
  BY InSeq DEF TypesHold, ConnsTyped, WaysSound, LeftSound
<1>5. Given \subseteq Nat /\ Seq(Given) \subseteq Seq(Nat)
  BY SeqMonotonic, LenProperties DEF TypesHold, Given
<1>6. CASE \E d \in Conns : /\ wire[d][p] # <<>> /\ k = Head(wire[d][p])
                            /\ wire' = [wire EXCEPT ![d][p] = Tail(@)]
                            /\ UNCHANGED <<told, out, loose>>
  <2>1. PICK d \in Conns : /\ wire[d][p] # <<>> /\ k = Head(wire[d][p])
                           /\ wire' = [wire EXCEPT ![d][p] = Tail(@)]
                           /\ UNCHANGED <<told, out, loose>>
    BY <1>6
  <2>2. d = c
    <3>1. k \in ToSet(wire[d][p])
      BY <2>1, WayTyped, InTail
    <3> QED
      BY <3>1 DEF WaysSound, WaySound, SentInOrder
  <2>3. wire'[c][p] = Tail(wire[c][p]) /\ wire[c][p] # <<>> /\ k = Head(wire[c][p])
    BY <1>1, <1>2, <2>1, <2>2
  <2>4. /\ k \in ToSet(wire[c][p]) /\ \A n \in ToSet(wire'[c][p]) : k < n
    BY <1>1, <1>2, <2>3, InTail, RisesLess DEF SentInOrder
  <2>5. \A n \in Delivers(c) \union ToSet(out[c][p]) : k < n
    BY <1>1, <2>4 DEF SentInOrder
  <2>6. ASSUME NEW n \in OnWay(c, p)', NEW s \in loose[p], n \in ToSet(s) PROVE FALSE
    <3>1. Its(c, s)
      BY <1>3, <1>4, <2>6 DEF OnWay, Its
    <3> QED
      BY <1>1, <2>3, <3>1 DEF LeftIsOne, SentInOrder
  <2>7. Delivers(c)' = Delivers(c) /\ out'[c][p] = out[c][p] /\ loose'[p] = loose[p]
    BY <2>1 DEF Delivers
  <2>8. \A n \in OnWay(c, p)' : n \in Delivers(c) \union ToSet(out[c][p]) \union ToSet(wire'[c][p])
    BY <2>6, <2>7 DEF OnWay
  <2> QED
    BY <2>4, <2>5, <2>8 DEF OnWay
<1>7. CASE \E t \in loose[p] :
            /\ k = Head(t)
            /\ loose'[p] = (loose[p] \ {t}) \union (IF Len(t) = 1 THEN {} ELSE {Tail(t)})
            /\ UNCHANGED <<told, out, wire>>
  <2>1. PICK t \in loose[p] :
          /\ k = Head(t)
          /\ loose'[p] = (loose[p] \ {t}) \union (IF Len(t) = 1 THEN {} ELSE {Tail(t)})
          /\ UNCHANGED <<told, out, wire>>
    BY <1>7
  <2>2. k \in ToSet(t) /\ Its(c, t) /\ \A n \in ToSet(Tail(t)) : k < n
    BY <1>4, <1>5, <2>1, InTail, RisesLess DEF Its
  <2>3. out[c][p] = <<>> /\ wire[c][p] = <<>> /\ \A n \in Delivers(c) : k < n
    BY <1>1, <2>2 DEF LeftIsOne, SentInOrder
  <2>4. \A s \in loose'[p] : (s \in loose[p] /\ s # t) \/ s = Tail(t)
    <3>1. CASE Len(t) = 1
      BY <2>1, <3>1
    <3>2. CASE Len(t) # 1
      BY <2>1, <3>2
    <3> QED
      BY <3>1, <3>2
  <2>5. ASSUME NEW n \in OnWay(c, p)', NEW s \in loose[p], s # t, n \in ToSet(s) PROVE FALSE
    <3>1. Its(c, s)
      BY <1>3, <1>4, <2>5 DEF OnWay, Its
    <3> QED
      BY <2>2, <2>5, <3>1 DEF LeftIsOne
  <2>6. Delivers(c)' = Delivers(c) /\ ToSet(out'[c][p]) = {} /\ ToSet(wire'[c][p]) = {}
    BY <2>1, <2>3 DEF Delivers, ToSet
  <2>7. \A n \in OnWay(c, p)' : n \in Delivers(c) \union ToSet(Tail(t))
    BY <2>4, <2>5, <2>6 DEF OnWay
  <2> QED
    BY <2>2, <2>3, <2>7 DEF OnWay
<1> QED
  BY <1>6, <1>7 DEF Reads

\* A client's pastes go on coming, and being typed, in order.
LEMMA ArrivesKept ==
    ASSUME TypesHold, WaysSound, WaysGo, NEW c \in Typists, NEW p \in Panes,
           \A n \in Given : inputs'[n] = inputs[n],
           Watches(c, p), LeftIsOne(c, p), ArrivesInOrder(c, p), Arrives(p)
    PROVE  ArrivesInOrder(c, p)'
<1>1. /\ taken[p] \in Seq(Given) /\ ToSet(taken[p]) \subseteq Given
      /\ bodies[p] \subseteq Given /\ Came(p) \subseteq Given
  BY InSeq DEF TypesHold, PanesTyped, Came
<1>2. \A n \in Given : From(n)' = From(n) /\ inputs'[n].what = inputs[n].what
                       /\ PasteOf(c, n)' = PasteOf(c, n) /\ n < Len(inputs) + 1
  BY LenProperties DEF From, PasteOf, TypesHold, Given
<1>3. Arrived(c, p) = {n \in Came(p) : PasteOf(c, n)}
      /\ Arrived(c, p)' = {n \in Came(p)' : PasteOf(c, n)'}
  BY DEF Arrived, Came
<1>4. TypedAsMade(c, p, {"paste"}) /\ \A m \in Arrived(c, p), n \in OnWay(c, p) : m < n
  BY DEF ArrivesInOrder
<1>5. ASSUME taken'[p] = taken[p] PROVE TypedAsMade(c, p, {"paste"})'
  <2>1. \A i \in DOMAIN taken[p] : taken[p][i] \in Given
    BY <1>1 DEF ToSet
  <2> QED
    BY <1>2, <1>4, <1>5, <2>1 DEF TypedAsMade
<1>6. ASSUME NEW n \in Given, taken'[p] = Append(taken[p], n),
             PasteOf(c, n) => \A k \in ToSet(taken[p]) : PasteOf(c, k) => k < n
      PROVE  TypedAsMade(c, p, {"paste"})'
  BY <1>4, <1>6, TypesInOrder
<1>7. ASSUME Arrived(c, p)' \subseteq Arrived(c, p)
      PROVE  \A m \in Arrived(c, p)', n \in OnWay(c, p)' : m < n
  BY <1>1, <1>2, <1>3, <1>4, <1>7, OnWayGo
<1>8. CASE /\ \A n \in Came(p)' : n \in Came(p) \/ (n \in Given /\ inputs[n].what # "paste")
           /\ \/ taken'[p] = taken[p]
              \/ \E n \in Given : /\ taken'[p] = Append(taken[p], n)
                                  /\ \A k \in ToSet(taken[p]) : k < n
  <2>1. Arrived(c, p)' \subseteq Arrived(c, p)
    <3>1. ASSUME NEW n \in Came(p)', PasteOf(c, n)' PROVE n \in Came(p) /\ PasteOf(c, n)
      <4>1. n \in Given
        BY <1>1, <1>8, <3>1
      <4>2. inputs[n].what = "paste" /\ PasteOf(c, n)
        BY <1>2, <3>1, <4>1 DEF PasteOf
      <4> QED
        BY <1>8, <3>1, <4>2
    <3> QED
      BY <1>3, <3>1
  <2>2. TypedAsMade(c, p, {"paste"})'
    BY <1>5, <1>6, <1>8
  <2> QED
    BY <1>7, <2>1, <2>2 DEF ArrivesInOrder
<1>9. CASE \E n \in Given : /\ Reads(p, n) /\ Came(p)' \subseteq Came(p) \union {n}
                            /\ taken'[p] = taken[p] \/ taken'[p] = Append(taken[p], n)
  <2>1. PICK n \in Given : /\ Reads(p, n) /\ Came(p)' \subseteq Came(p) \union {n}
                           /\ taken'[p] = taken[p] \/ taken'[p] = Append(taken[p], n)
    BY <1>9
  <2>2. CASE ~PasteOf(c, n)
    <3>1. Arrived(c, p)' \subseteq Arrived(c, p)
      <4>1. ASSUME NEW k \in Came(p)', PasteOf(c, k)' PROVE k \in Came(p) /\ PasteOf(c, k)
        <5>1. k \in Given /\ (k \in Came(p) \/ k = n)
          BY <1>1, <2>1, <4>1
        <5> QED
          BY <1>2, <2>2, <4>1, <5>1
      <4> QED
        BY <1>3, <4>1
    <3>2. TypedAsMade(c, p, {"paste"})'
      BY <1>5, <1>6, <2>1, <2>2
    <3> QED
      BY <1>7, <3>1, <3>2 DEF ArrivesInOrder
  <2>3. CASE PasteOf(c, n)
    <3>1. n \in OnWay(c, p) /\ \A k \in OnWay(c, p)' : n < k
      BY <2>1, <2>3, ReadIsFirst DEF PasteOf
    <3>2. \A m \in Arrived(c, p) : m < n
      BY <1>4, <3>1
    <3>3. \A k \in ToSet(taken[p]) : PasteOf(c, k) => k < n
      BY <1>3, <3>2 DEF Came
    <3>4. TypedAsMade(c, p, {"paste"})'
      BY <1>5, <1>6, <2>1, <3>3
    <3>5. \A m \in Arrived(c, p)' : m \in Given /\ (m \in Arrived(c, p) \/ m = n)
      <4>1. ASSUME NEW k \in Came(p)', PasteOf(c, k)'
            PROVE  k \in Given /\ (k = n \/ (k \in Came(p) /\ PasteOf(c, k)))
        <5>1. k \in Given /\ (k \in Came(p) \/ k = n)
          BY <1>1, <2>1, <4>1
        <5> QED
          BY <1>2, <4>1, <5>1
      <4> QED
        BY <1>3, <4>1
    <3>6. Given \subseteq Nat /\ Given' \subseteq Nat
      BY LenProperties DEF Given
    <3>7. ASSUME NEW m \in Arrived(c, p)', NEW k \in OnWay(c, p)' PROVE m < k
      <4>1. m \in Nat /\ n \in Nat /\ k \in Nat
        BY <3>5, <3>6 DEF OnWay
      <4>2. n < k /\ (m < n \/ m = n)
        BY <3>1, <3>2, <3>5
      <4> QED
        BY <4>1, <4>2
    <3> QED
      BY <3>4, <3>7 DEF ArrivesInOrder
  <2> QED
    BY <2>2, <2>3
<1> QED
  BY <1>8, <1>9 DEF Arrives

-----------------------------------------------------------------------------
(* The theorem.                                                            *)

\* The order holds at the start,
LEMMA OrderInit ==
    ASSUME Init PROVE OrderInv
<1>1. IInv /\ WaysSound
  BY InitInv, WaysInit
<1>2. /\ inputs = <<>> /\ posts = {} /\ focus \in [Typists -> Panes]
      /\ \A c \in Typists : views[c] = [looked |-> 0, told |-> 0]
      /\ \A c \in Conns : told[c] = <<>>
      /\ \A c \in Typists : side[c] = {focus[c]}
      /\ \A p \in Panes : taken[p] = <<>> /\ bodies[p] = {} /\ loose[p] = {}
  BY DEF Init, Conns
<1>3. Given = {} /\ ToSet(<<>>) = {}
  BY <1>2 DEF Given, ToSet
<1>4. TakenIsForIt
  BY <1>2, <1>3 DEF TakenIsForIt
<1>5. ASSUME NEW c \in Typists
      PROVE  \E p \in Panes : Watches(c, p) /\ LeftIsOne(c, p) /\ ArrivesInOrder(c, p)
  <2>1. PICK p \in Panes : p = focus[c]
    BY <1>2
  <2>2. Watches(c, p)
    BY <1>2, <1>3, <2>1 DEF Watches, Conns
  <2>3. LeftIsOne(c, p)
    BY <1>2 DEF LeftIsOne
  <2>4. ArrivesInOrder(c, p)
    BY <1>2, <1>3 DEF ArrivesInOrder, OnWay, TypedAsMade
  <2> QED
    BY <2>2, <2>3, <2>4
<1> QED
  BY <1>1, <1>4, <1>5 DEF OrderInv, Orderly

\* and every step keeps it.
LEMMA OrderKept ==
    ASSUME OrderInv, [Next]_vars PROVE OrderInv'
<1>1. IInv' /\ TypesHold /\ TypesHold' /\ PanesSound /\ WaysSound
  BY NextInv DEF OrderInv, IInv
<1>2. /\ WaysSound' /\ WaysGo /\ \A n \in Given : inputs'[n] = inputs[n]
      /\ \A p \in Panes : Steps(p) /\ Arrives(p)
  BY <1>1, WaysKept, NextWays, NextSteps, NextArrives
<1>3. TakenIsForIt'
  <2> SUFFICES ASSUME NEW p \in Panes, NEW n \in ToSet(taken'[p]) PROVE p \in inputs'[n].to
    BY DEF TakenIsForIt
  <2>1. CASE n \in ToSet(taken[p])
    <3>1. n \in Given
      BY <1>1, <2>1, InSeq DEF TypesHold, PanesTyped
    <3> QED
      BY <1>2, <2>1, <3>1 DEF OrderInv, TakenIsForIt
  <2>2. CASE n \notin ToSet(taken[p])
    <3>1. taken[p] \in Seq(Given) /\ Arrives(p)
      BY <1>1, <1>2 DEF TypesHold, PanesTyped
    <3>2. PICK k \in Given : taken'[p] = Append(taken[p], k)
      BY <2>2, <3>1 DEF Arrives
    <3>3. n = k
      BY <2>2, <3>1, <3>2, AskedIn
    <3>4. Settles(p, n) /\ AsAsked(p)
      BY <1>1, <1>2, <3>3, StepsSettle DEF PanesSound
    <3>5. Pending(p, n)
      BY <2>2, <3>4 DEF Settles
    <3> QED
      BY <1>2, <3>3, <3>4, <3>5 DEF Pending, AsAsked
  <2> QED
    BY <2>1, <2>2
<1>4. ASSUME NEW c \in Typists, views'[c].looked = 0
      PROVE  \E p \in Panes : Watches(c, p)' /\ LeftIsOne(c, p)' /\ ArrivesInOrder(c, p)'
  <2>1. /\ views[c].looked = 0 /\ focus'[c] = focus[c] /\ (views[c].told = 0 => views'[c].told = 0)
        /\ \A n \in Given' \ Given : inputs'[n].from = c => inputs'[n].to = {focus[c]}
    BY <1>1, <1>4, NextViews
  <2>2. PICK p \in Panes : Watches(c, p) /\ LeftIsOne(c, p) /\ ArrivesInOrder(c, p)
    BY <2>1 DEF OrderInv, Orderly
  <2>3. views'[c].told = 0
    BY <2>1, <2>2 DEF Watches
  <2>4. Watches(c, p)' /\ ~Hears(c, "scene")
    BY <1>1, <1>2, <2>1, <2>2, <2>3, WatchesKept
  <2>5. LeftIsOne(c, p)'
    BY <1>1, <1>2, <2>2, <2>4, LeftIsOneKept
  <2>6. ArrivesInOrder(c, p)'
    BY <1>1, <1>2, <2>2, ArrivesKept
  <2> QED
    BY <2>4, <2>5, <2>6
<1> QED
  BY <1>1, <1>2, <1>3, <1>4 DEF OrderInv, Orderly

\* What bodies on their way and bodies that came keep of the order in which a
\* client made them, in every run.
THEOREM OrderInvHolds == Spec => []OrderInv
<1>1. Init => OrderInv
  BY OrderInit
<1>2. OrderInv /\ [Next]_vars => OrderInv'
  BY OrderKept
<1> QED
  BY <1>1, <1>2, PTL DEF Spec

\* A client's pastes are typed in the order it made them, in the pane it looks
\* at (Composer::deliver, Host::body, Host::typed).
THEOREM TypingSound == Spec => []TypingIsSound
<1>1. OrderInv => PastesInOrder
  <2> SUFFICES ASSUME OrderInv, NEW c \in Typists, NEW q \in Panes, views[c].looked = 0
               PROVE  TypedAsMade(c, q, {"paste"})
    BY DEF PastesInOrder
  <2>1. PICK p \in Panes : Watches(c, p) /\ ArrivesInOrder(c, p)
    BY DEF OrderInv, Orderly
  <2>2. CASE q = p
    BY <2>1, <2>2 DEF ArrivesInOrder
  <2>3. CASE q # p
    <3>1. \A i \in DOMAIN taken[q] : taken[q][i] \in Given /\ q \in inputs[taken[q][i]].to
      <4>1. taken[q] \in Seq(Given)
        BY DEF OrderInv, IInv, TypesHold, PanesTyped
      <4>2. \A i \in DOMAIN taken[q] : taken[q][i] \in ToSet(taken[q])
        BY DEF ToSet
      <4> QED
        BY <4>1, <4>2, InSeq DEF OrderInv, TakenIsForIt
    <3>2. \A i \in DOMAIN taken[q] : From(taken[q][i]) # c
      BY <2>1, <2>3, <3>1 DEF Watches
    <3> QED
      BY <3>2 DEF TypedAsMade
  <2> QED
    BY <2>2, <2>3
<1> QED
  BY <1>1, OrderInvHolds, TypeCorrect, PTL DEF TypingIsSound

=============================================================================
