---------------------------- MODULE Bodies_proofs ----------------------------
(* Proofs of Bodies' safety, for every set of connections, every finite    *)
(* set of panes and every number of inputs.                                *)
EXTENDS Bodies, SequenceTheorems, FiniteSetTheorems, TLAPS

-----------------------------------------------------------------------------
(* The inductive invariant.                                                *)

\* The inputs there are: every number in the state is one of them.
Given == 1..Len(inputs)

Inputs == [from : Conns, what : {"key", "paste", "keys"}, to : SUBSET Panes]
Replies(N) == [pane : Panes, n : N, says : {"acted", "refused", "unsure"}]
WordsTo(N) == [say : {"key", "paste", "keys", "drop"}, n : N] \union {Word("close", 0)}
WordsFrom(N) == [say : {"retired", "acted", "refused", "unsure"}, n : N]
WordsToConn(N) == [say : {"deliver"}, n : N]
               \union [say : {"scene"}, n : {0}, shows : SUBSET Panes]
               \union {Word("close", 0)}

ServerTyped(N) ==
    /\ stage \in [Conns -> {"open", "closing", "dropped"}]
    /\ wait \in [Conns -> N \union {0}]
    /\ tokens \subseteq Panes \X N
    /\ asks \subseteq Panes \X N
    /\ answers \subseteq Replies(N)
    /\ replied \subseteq Replies(N)
    /\ link \in [Panes -> {"up", "lost", "ending", "closed"}]
    /\ focus \in [Typists -> Panes \union {Nowhere}]
    /\ views \in [Typists -> [looked : Nat, told : Nat]]

ConnsTyped(N) ==
    /\ told \in [Conns -> Seq(WordsToConn(N))]
    /\ proc \in [Conns -> {"up", "closing", "gone"}]
    /\ side \in [Conns -> SUBSET Panes]
    /\ out \in [Conns -> [Panes -> Seq(N)]]
    /\ posts \subseteq Panes \X N
    /\ wire \in [Conns -> [Panes -> Seq(N)]]
    /\ loose \in [Panes -> SUBSET (Seq(N) \ {<<>>})]

PanesTyped(N) ==
    /\ toPane \in [Panes -> Seq(WordsTo(N))]
    /\ fromPane \in [Panes -> Seq(WordsFrom(N))]
    /\ life \in [Panes -> {"runs", "ended", "closed", "gone"}]
    /\ bodies \in [Panes -> SUBSET N]
    /\ awaiting \in [Panes -> SUBSET N]
    /\ taken \in [Panes -> Seq(N)]

TypesHold ==
    /\ inputs \in Seq(Inputs) /\ Len(inputs) <= MaxInputs
    /\ ServerTyped(Given)
    /\ ConnsTyped(Given)
    /\ PanesTyped(Given)

\* A word that something is to be typed.
Typing(word) == word.say \in {"key", "paste", "keys"}

\* The pane may type the input yet.
Pending(p, n) ==
    \/ n \in awaiting[p]
    \/ \E word \in ToSet(toPane[p]) : Typing(word) /\ word.n = n

\* A word that types has a later number than the words before it,
WordsRise(p) ==
    \A i, j \in DOMAIN toPane[p] :
        i < j /\ Typing(toPane[p][j]) => toPane[p][i].n < toPane[p][j].n

\* and than all the pane was to type before; it types nothing twice,
NewestLast(p) ==
    /\ \A word \in ToSet(toPane[p]) :
        Typing(word) => \A k \in awaiting[p] \union ToSet(taken[p]) : k < word.n
    /\ awaiting[p] \intersect ToSet(taken[p]) = {}

\* and nothing but what is for it.
AsAsked(p) ==
    /\ \A word \in ToSet(toPane[p]) :
        Typing(word) => inputs[word.n].what = word.say /\ p \in inputs[word.n].to
    /\ \A n \in awaiting[p] : inputs[n].what # "key" /\ p \in inputs[n].to

\* What a pane says of an input is so, and of one it is done with.
Honest(p, n, says) ==
    /\ says = "acted" => n \in ToSet(taken[p])
    /\ says = "refused" => n \notin ToSet(taken[p])
    /\ says # "unsure" => ~Pending(p, n) /\ p \in inputs[n].to

PanesSound ==
    \A p \in Panes :
        /\ WordsRise(p)
        /\ NewestLast(p)
        /\ AsAsked(p)
        /\ \A word \in ToSet(fromPane[p]) : Honest(p, word.n, word.say)

RepliesSound ==
    \A reply \in answers \union replied :
        Honest(reply.pane, reply.n, reply.says)

\* A link given up is to a pane that was told to close, or is gone.
LinksSound ==
    \A p \in Panes :
        /\ link[p] = "ending" => Word("close", 0) \in ToSet(toPane[p])
                                 \/ life[p] \in {"closed", "gone"}
        /\ link[p] \in {"lost", "closed"} => life[p] = "gone"

\* What one pane may type yet is its connection's to let go, or the pane is
\* told to let it go, or can type nothing.
Reclaimed(p, n) ==
    \/ stage[From(n)] # "dropped" /\ <<p, n>> \in tokens
    \/ ToldToDrop(p, n)
    \/ life[p] \in {"closed", "gone"}

DropsFollow ==
    \A p \in Panes, n \in Given :
        /\ Pending(p, n)
        /\ Cardinality(inputs[n].to) = 1
        /\ inputs[n].what # "key"
        => Reclaimed(p, n)

IInv ==
    /\ TypesHold
    /\ PanesSound
    /\ RepliesSound
    /\ LinksSound
    /\ DropsFollow
    /\ OnlyAskersAreAnswered

-----------------------------------------------------------------------------
(* Sequences, and what is in them.                                         *)

\* What is in a sequence that one more is put at the end of.
LEMMA InAppended ==
    ASSUME NEW S, NEW s \in Seq(S), NEW e \in S
    PROVE  Append(s, e) \in Seq(S) /\ ToSet(Append(s, e)) = ToSet(s) \union {e}
<1>1. /\ Append(s, e) \in Seq(S) /\ Len(Append(s, e)) = Len(s) + 1
      /\ \A i \in 1..Len(s) : Append(s, e)[i] = s[i]
      /\ Append(s, e)[Len(s) + 1] = e
  BY AppendProperties
<1>2. DOMAIN s = 1..Len(s) /\ DOMAIN Append(s, e) = 1..(Len(s) + 1) /\ Len(s) \in Nat
  BY <1>1, LenProperties
<1> QED
  BY <1>1, <1>2 DEF ToSet

\* In one that is not empty are its head and what is in its tail.
LEMMA InTail ==
    ASSUME NEW S, NEW s \in Seq(S), s # <<>>
    PROVE  /\ Head(s) \in S /\ Tail(s) \in Seq(S) /\ Head(s) = s[1]
           /\ ToSet(s) = {Head(s)} \union ToSet(Tail(s))
           /\ \A i \in DOMAIN Tail(s) : i + 1 \in DOMAIN s /\ Tail(s)[i] = s[i + 1]
<1>1. /\ Head(s) \in S /\ Tail(s) \in Seq(S) /\ Len(Tail(s)) = Len(s) - 1
      /\ \A i \in 1..Len(Tail(s)) : Tail(s)[i] = s[i + 1]
  BY HeadTailProperties
<1>2. DOMAIN s = 1..Len(s) /\ DOMAIN Tail(s) = 1..Len(Tail(s)) /\ Len(s) \in Nat \ {0}
  BY <1>1, LenProperties, EmptySeq
<1>3. Head(s) = s[1]
  OBVIOUS
<1>4. \A i \in 1..Len(s) : i = 1 \/ (i - 1 \in 1..Len(Tail(s)) /\ Tail(s)[i - 1] = s[i])
  BY <1>1, <1>2
<1>5. ToSet(s) \subseteq {Head(s)} \union ToSet(Tail(s))
  BY <1>2, <1>3, <1>4 DEF ToSet
<1>6. {Head(s)} \union ToSet(Tail(s)) \subseteq ToSet(s)
  BY <1>1, <1>2, <1>3 DEF ToSet
<1> QED
  BY <1>1, <1>2, <1>3, <1>5, <1>6

\* In two put together is what is in either.
LEMMA InBoth ==
    ASSUME NEW S, NEW s \in Seq(S), NEW t \in Seq(S)
    PROVE  s \o t \in Seq(S) /\ ToSet(s \o t) = ToSet(s) \union ToSet(t)
<1>1. /\ s \o t \in Seq(S) /\ Len(s \o t) = Len(s) + Len(t)
      /\ \A i \in 1..(Len(s) + Len(t)) :
           (s \o t)[i] = IF i <= Len(s) THEN s[i] ELSE t[i - Len(s)]
  BY ConcatProperties
<1>2. /\ DOMAIN s = 1..Len(s) /\ DOMAIN t = 1..Len(t)
      /\ DOMAIN (s \o t) = 1..(Len(s) + Len(t))
      /\ Len(s) \in Nat /\ Len(t) \in Nat
  BY <1>1, LenProperties
<1>3. ToSet(s \o t) \subseteq ToSet(s) \union ToSet(t)
  BY <1>1, <1>2 DEF ToSet
<1>4. \A i \in 1..Len(t) : t[i] = (s \o t)[i + Len(s)] /\ i + Len(s) \in 1..(Len(s) + Len(t))
  BY <1>1, <1>2
<1>5. \A i \in 1..Len(s) : s[i] = (s \o t)[i] /\ i \in 1..(Len(s) + Len(t))
  BY <1>1, <1>2
<1>6. ToSet(s) \union ToSet(t) \subseteq ToSet(s \o t)
  BY <1>2, <1>4, <1>5 DEF ToSet
<1> QED
  BY <1>1, <1>3, <1>6

\* In the first few of a sequence is nothing that is not in it.
LEMMA InFirst ==
    ASSUME NEW S, NEW s \in Seq(S), NEW k \in 0..Len(s)
    PROVE  SubSeq(s, 1, k) \in Seq(S) /\ ToSet(SubSeq(s, 1, k)) \subseteq ToSet(s)
<1>1. DOMAIN s = 1..Len(s) /\ Len(s) \in Nat /\ \A i \in 1..Len(s) : s[i] \in S
  BY LenProperties, ElementOfSeq
<1>2. /\ SubSeq(s, 1, k) \in Seq(S)
      /\ Len(SubSeq(s, 1, k)) = k
      /\ \A i \in 1..k : SubSeq(s, 1, k)[i] = s[i]
  BY <1>1, SubSeqProperties
<1>3. DOMAIN SubSeq(s, 1, k) = 1..k
  BY <1>2, LenProperties
<1> QED
  BY <1>1, <1>2, <1>3 DEF ToSet

\* What is in a sequence.
LEMMA InSeq ==
    ASSUME NEW S, NEW s \in Seq(S)
    PROVE  /\ ToSet(s) \subseteq S
           /\ \A e : e \in ToSet(s) <=> \E i \in DOMAIN s : s[i] = e
           /\ DOMAIN s = 1..Len(s) /\ Len(s) \in Nat
           /\ ToSet(<<>>) = {}
BY LenProperties, ElementOfSeq DEF ToSet

\* In short sequences.
LEMMA InShort ==
    /\ \A e : ToSet(<<e>>) = {e}
    /\ \A e, f : ToSet(<<e, f>>) = {e, f}
BY DEF ToSet

\* A sequence of each of some put to, or taken from.
LEMMA AppendedAt ==
    ASSUME NEW D, NEW S, NEW f \in [D -> Seq(S)], NEW d \in D, NEW e \in S
    PROVE  [f EXCEPT ![d] = Append(@, e)] \in [D -> Seq(S)]
BY InAppended

\* Taking the first of one of a family of sequences keeps the family's type.
LEMMA TakenAt ==
    ASSUME NEW D, NEW S, NEW f \in [D -> Seq(S)], NEW d \in D, f[d] # <<>>
    PROVE  [f EXCEPT ![d] = Tail(@)] \in [D -> Seq(S)]
BY InTail

-----------------------------------------------------------------------------
(* Types.                                                                  *)

USE ConnsAssumption, PanesAssumption, BoundsAssumption

\* Words are what they are made to be.
LEMMA WordsAre ==
    /\ \A n \in Given : Word("deliver", n) \in WordsToConn(Given)
    /\ Word("close", 0) \in WordsToConn(Given) /\ Word("close", 0) \in WordsTo(Given)
    /\ \A shows \in SUBSET Panes :
          [say |-> "scene", n |-> 0, shows |-> shows] \in WordsToConn(Given)
    /\ \A n \in Given, say \in {"key", "paste", "keys", "drop"} : Word(say, n) \in WordsTo(Given)
    /\ \A n \in Given, say \in {"retired", "acted", "refused", "unsure"} :
          Word(say, n) \in WordsFrom(Given)
    /\ \A word \in WordsToConn(Given) :
          /\ word.say = "deliver" => word.n \in Given
          /\ word.say = "scene" => word.shows \in SUBSET Panes
    /\ \A word \in WordsTo(Given) : word.say # "close" => word.n \in Given
    /\ \A word \in WordsTo(Given) : word.n \in Given \union {0}
    /\ \A word \in WordsFrom(Given) :
          /\ word.say \in {"retired", "acted", "refused", "unsure"}
          /\ word.n \in Given
BY DEF Word, WordsToConn, WordsTo, WordsFrom

\* What a pane's process is told, if it has a link, is typed.
LEMMA TellTyped ==
    ASSUME NEW to, NEW W, NEW word \in W, toPane \in [Panes -> Seq(W)], Tell(to, word)
    PROVE  toPane' \in [Panes -> Seq(W)]
<1>1. \A p \in Panes : Append(toPane[p], word) \in Seq(W)
  BY InAppended
<1> QED
  BY <1>1 DEF Tell

\* Once there is one input more, what numbered those there were still does.
LEMMA MoreGiven ==
    ASSUME TypesHold, NEW c \in Conns, NEW what \in {"key", "paste", "keys"},
           NEW to \in SUBSET Panes, Input(c, what, to)
    PROVE  /\ inputs' \in Seq(Inputs) /\ Len(inputs') <= MaxInputs
           /\ Len(inputs') = Len(inputs) + 1 /\ Len(inputs) \in Nat
           /\ Given' = Given \union {Len(inputs) + 1}
           /\ Len(inputs) + 1 \in Given' /\ Len(inputs) + 1 \notin Given
           /\ \A n \in Given : inputs'[n] = inputs[n]
           /\ inputs'[Len(inputs) + 1] = [from |-> c, what |-> what, to |-> to]
<1>1. inputs \in Seq(Inputs) /\ inputs' = Append(inputs, [from |-> c, what |-> what, to |-> to])
      /\ Len(inputs) < MaxInputs /\ Len(inputs) \in Nat
  BY LenProperties DEF TypesHold, Input
<1>2. [from |-> c, what |-> what, to |-> to] \in Inputs
  BY DEF Inputs
<1> HIDE DEF Inputs
<1>3. /\ inputs' \in Seq(Inputs) /\ Len(inputs') = Len(inputs) + 1
      /\ \A n \in 1..Len(inputs) : inputs'[n] = inputs[n]
      /\ inputs'[Len(inputs) + 1] = [from |-> c, what |-> what, to |-> to]
  BY <1>1, <1>2, AppendProperties
<1> QED
  BY <1>1, <1>3 DEF Given

\* What is typed for some inputs is for more.
LEMMA StillTyped ==
    ASSUME NEW M, NEW N, M \subseteq N, ServerTyped(M), ConnsTyped(M), PanesTyped(M)
    PROVE  ServerTyped(N) /\ ConnsTyped(N) /\ PanesTyped(N)
<1>1. /\ WordsTo(M) \subseteq WordsTo(N) /\ WordsFrom(M) \subseteq WordsFrom(N)
      /\ WordsToConn(M) \subseteq WordsToConn(N) /\ Replies(M) \subseteq Replies(N)
  BY DEF WordsTo, WordsFrom, WordsToConn, Replies
<1>2. \A S, T, s : S \subseteq T /\ s \in Seq(S) => s \in Seq(T)
  BY SeqMonotonic
<1>3. ServerTyped(N)
  <2>1. Panes \X M \subseteq Panes \X N
    OBVIOUS
  <2> QED
    BY <1>1, <2>1 DEF ServerTyped
<1>4. ConnsTyped(N)
  <2>1. told \in [Conns -> Seq(WordsToConn(N))]
    BY <1>1, <1>2 DEF ConnsTyped
  <2>2. Seq(M) \subseteq Seq(N)
    BY <1>2
  <2>3. out \in [Conns -> [Panes -> Seq(N)]] /\ wire \in [Conns -> [Panes -> Seq(N)]]
    BY <2>2 DEF ConnsTyped
  <2>4. loose \in [Panes -> SUBSET (Seq(N) \ {<<>>})]
    BY <2>2 DEF ConnsTyped
  <2>5. posts \subseteq Panes \X N
    BY DEF ConnsTyped
  <2> QED
    BY <2>1, <2>3, <2>4, <2>5 DEF ConnsTyped
<1>5. PanesTyped(N)
  <2>1. toPane \in [Panes -> Seq(WordsTo(N))] /\ fromPane \in [Panes -> Seq(WordsFrom(N))]
    BY <1>1, <1>2 DEF PanesTyped
  <2>2. taken \in [Panes -> Seq(N)]
    BY <1>2 DEF PanesTyped
  <2> QED
    BY <2>1, <2>2 DEF PanesTyped
<1> QED
  BY <1>3, <1>4, <1>5

\* Where no input is taken, what is typed is typed for those there were.
LEMMA InputTyped ==
    ASSUME TypesHold, NEW c \in Conns, NEW what \in {"key", "paste", "keys"},
           NEW to \in SUBSET Panes, Input(c, what, to)
    PROVE  ServerTyped(Given') /\ ConnsTyped(Given') /\ PanesTyped(Given')
<1>1. Given \subseteq Given'
  BY MoreGiven
<1> QED
  BY <1>1, StillTyped DEF TypesHold

\* Every variable has its type at the start.
LEMMA InitTyped ==
    ASSUME Init PROVE TypesHold
<1>1. inputs \in Seq(Inputs) /\ Len(inputs) = 0
  BY DEF Init
<1>2. \A S : <<>> \in Seq(S)
  BY EmptySeq
<1>3. ServerTyped(Given)
  BY DEF Init, ServerTyped
<1>4. ConnsTyped(Given)
  BY <1>2 DEF Init, ConnsTyped, Conns
<1>5. PanesTyped(Given)
  BY <1>2 DEF Init, PanesTyped
<1> QED
  BY <1>1, <1>3, <1>4, <1>5 DEF TypesHold

\* A key typed keeps every variable's type.
LEMMA TypeKeyTyped ==
    ASSUME TypesHold, NEW c \in Typists, TypeKey(c)
    PROVE  TypesHold'
<1>1. c \in Conns /\ focus[c] \in Panes /\ {focus[c]} \in SUBSET Panes
  BY DEF TypesHold, ServerTyped, TypeKey, Conns
<1>2. Input(c, "key", {focus[c]})
  BY DEF TypeKey
<1>3. /\ inputs' \in Seq(Inputs) /\ Len(inputs') <= MaxInputs
      /\ Len(inputs) + 1 \in Given'
      /\ ServerTyped(Given') /\ ConnsTyped(Given') /\ PanesTyped(Given')
  BY <1>1, <1>2, MoreGiven, InputTyped
<1>4. toPane' \in [Panes -> Seq(WordsTo(Given'))]
  <2>1. Tell({focus[c]}, Word("key", Len(inputs) + 1))
    BY DEF TypeKey
  <2>2. Word("key", Len(inputs) + 1) \in WordsTo(Given')
    BY <1>3 DEF WordsTo, Word
  <2>3. toPane \in [Panes -> Seq(WordsTo(Given'))]
    BY <1>3 DEF PanesTyped
  <2> QED
    BY <2>1, <2>2, <2>3, TellTyped
<1>5. ServerTyped(Given)'
  BY <1>3 DEF ServerTyped, TypeKey, server
<1>6. ConnsTyped(Given)'
  BY <1>3 DEF ConnsTyped, TypeKey, conns, sockets
<1>7. PanesTyped(Given)'
  BY <1>3, <1>4 DEF PanesTyped, TypeKey, panes
<1> QED
  BY <1>3, <1>5, <1>6, <1>7 DEF TypesHold

\* A paste keeps every variable's type.
LEMMA PasteTyped ==
    ASSUME TypesHold, NEW c \in Typists, Paste(c)
    PROVE  TypesHold'
<1> DEFINE n == Len(inputs) + 1
<1>1. c \in Conns /\ focus[c] \in Panes /\ {focus[c]} \in SUBSET Panes
  BY DEF TypesHold, ServerTyped, Paste, Conns
<1>2. Input(c, "paste", {focus[c]}) /\ Tell({focus[c]}, Word("paste", n))
  BY DEF Paste
<1>3. /\ inputs' \in Seq(Inputs) /\ Len(inputs') <= MaxInputs
      /\ n \in Given'
      /\ ServerTyped(Given') /\ ConnsTyped(Given') /\ PanesTyped(Given')
  BY <1>1, <1>2, MoreGiven, InputTyped
<1>4. toPane' \in [Panes -> Seq(WordsTo(Given'))]
  <2>1. Word("paste", n) \in WordsTo(Given')
    BY <1>3 DEF WordsTo, Word
  <2>2. toPane \in [Panes -> Seq(WordsTo(Given'))]
    BY <1>3 DEF PanesTyped
  <2> QED
    BY <1>2, <2>1, <2>2, TellTyped
<1>5. tokens' = tokens \union ({focus[c]} \X {n})
      /\ told' = [told EXCEPT ![c] = Append(@, Word("deliver", n))]
  BY DEF Paste, Deliver
<1>6. told' \in [Conns -> Seq(WordsToConn(Given'))]
  <2>1. Word("deliver", n) \in WordsToConn(Given')
    BY <1>3 DEF WordsToConn, Word
  <2>2. told \in [Conns -> Seq(WordsToConn(Given'))]
    BY <1>3 DEF ConnsTyped
  <2> QED
    BY <1>1, <1>5, <2>1, <2>2, AppendedAt
<1>7. tokens' \subseteq Panes \X Given'
  BY <1>1, <1>3, <1>5 DEF ServerTyped
<1>8. ServerTyped(Given)'
  BY <1>3, <1>7 DEF ServerTyped, Paste
<1>9. ConnsTyped(Given)'
  BY <1>3, <1>6 DEF ConnsTyped, Paste, conns, sockets
<1>10. PanesTyped(Given)'
  BY <1>3, <1>4 DEF PanesTyped, Paste, panes
<1> QED
  BY <1>3, <1>8, <1>9, <1>10 DEF TypesHold

\* A request to send keys keeps every variable's type.
LEMMA SendKeysTyped ==
    ASSUME TypesHold, NEW c \in Askers, NEW to \in SUBSET Panes, SendKeys(c, to)
    PROVE  TypesHold'
<1> DEFINE n == Len(inputs) + 1
           reached == {p \in to : link[p] = "up"}
<1>1. c \in Conns /\ reached \in SUBSET Panes
  BY DEF Conns
<1>2. Input(c, "keys", to) /\ Tell(reached, Word("keys", n))
  BY DEF SendKeys
<1>3. /\ inputs' \in Seq(Inputs) /\ Len(inputs') <= MaxInputs
      /\ n \in Given'
      /\ ServerTyped(Given') /\ ConnsTyped(Given') /\ PanesTyped(Given')
  BY <1>1, <1>2, MoreGiven, InputTyped
<1>4. toPane' \in [Panes -> Seq(WordsTo(Given'))]
  <2>1. Word("keys", n) \in WordsTo(Given')
    BY <1>3 DEF WordsTo, Word
  <2>2. toPane \in [Panes -> Seq(WordsTo(Given'))]
    BY <1>3 DEF PanesTyped
  <2> QED
    BY <1>2, <2>1, <2>2, TellTyped
<1>5. /\ tokens' = tokens \union (reached \X {n})
      /\ told' = [told EXCEPT ![c] = Append(@, Word("deliver", n))]
      /\ asks' = asks \union (reached \X {n})
      /\ answers' = answers \union
             {[pane |-> p, n |-> n, says |-> "refused"] : p \in to \ reached}
      /\ wait' = [wait EXCEPT ![c] = n]
  BY DEF SendKeys, Deliver
<1>6. told' \in [Conns -> Seq(WordsToConn(Given'))]
  <2>1. Word("deliver", n) \in WordsToConn(Given')
    BY <1>3 DEF WordsToConn, Word
  <2>2. told \in [Conns -> Seq(WordsToConn(Given'))]
    BY <1>3 DEF ConnsTyped
  <2> QED
    BY <1>1, <1>5, <2>1, <2>2, AppendedAt
<1>7. /\ tokens' \subseteq Panes \X Given' /\ asks' \subseteq Panes \X Given'
      /\ wait' \in [Conns -> Given' \union {0}]
  BY <1>1, <1>3, <1>5 DEF ServerTyped
<1>8. answers' \subseteq Replies(Given')
  BY <1>3, <1>5 DEF ServerTyped, Replies
<1>9. ServerTyped(Given)'
  BY <1>3, <1>7, <1>8 DEF ServerTyped, SendKeys
<1>10. ConnsTyped(Given)'
  BY <1>3, <1>6 DEF ConnsTyped, SendKeys, conns, sockets
<1>11. PanesTyped(Given)'
  BY <1>3, <1>4 DEF PanesTyped, SendKeys, panes
<1> QED
  BY <1>3, <1>9, <1>10, <1>11 DEF TypesHold

\* A client's detaching keeps every variable's type.
LEMMA DetachTyped ==
    ASSUME TypesHold, NEW c \in Conns, Detach(c)
    PROVE  TypesHold'
<1>1. told' \in [Conns -> Seq(WordsToConn(Given))]
  BY WordsAre, AppendedAt DEF TypesHold, ConnsTyped, Detach
<1>2. Given' = Given
  BY DEF Detach, Given
<1>3. ServerTyped(Given)'
  BY <1>2 DEF TypesHold, ServerTyped, Detach
<1>4. ConnsTyped(Given)'
  BY <1>1, <1>2 DEF TypesHold, ConnsTyped, Detach, conns, sockets
<1>5. PanesTyped(Given)'
  BY <1>2 DEF TypesHold, PanesTyped, Detach, panes
<1> QED
  BY <1>3, <1>4, <1>5 DEF TypesHold, Detach

\* A scene told keeps every variable's type.
LEMMA SendSceneTyped ==
    ASSUME TypesHold, NEW c \in Typists, SendScene(c)
    PROVE  TypesHold'
<1>1. told' \in [Conns -> Seq(WordsToConn(Given))]
  <2>1. c \in Conns /\ focus[c] \in Panes \union {Nowhere}
    BY DEF Conns, TypesHold, ServerTyped
  <2>2. {focus[c]} \ {Nowhere} \in SUBSET Panes
    BY <2>1
  <2>3. [say |-> "scene", n |-> 0, shows |-> {focus[c]} \ {Nowhere}] \in WordsToConn(Given)
    BY <2>2, WordsAre
  <2> QED
    BY <2>1, <2>3, AppendedAt DEF TypesHold, ConnsTyped, SendScene
<1>2. Given' = Given
  BY DEF SendScene, Given
<1>3. views' \in [Typists -> [looked : Nat, told : Nat]]
  BY DEF TypesHold, ServerTyped, SendScene
<1>4. ServerTyped(Given)'
  BY <1>2, <1>3 DEF TypesHold, ServerTyped, SendScene
<1>5. ConnsTyped(Given)'
  BY <1>1, <1>2 DEF TypesHold, ConnsTyped, SendScene, conns, sockets
<1>6. PanesTyped(Given)'
  BY <1>2 DEF TypesHold, PanesTyped, SendScene, panes
<1> QED
  BY <1>4, <1>5, <1>6 DEF TypesHold, SendScene

\* Looking elsewhere once more is still a count.
LEMMA LookedOnce ==
    ASSUME NEW view \in [looked : Nat, told : Nat]
    PROVE  [view EXCEPT !.looked = @ + 1] \in [looked : Nat, told : Nat]
OBVIOUS

\* Looking elsewhere keeps every variable's type.
LEMMA LookAtTyped ==
    ASSUME TypesHold, NEW c \in Typists, NEW p \in Panes, LookAt(c, p)
    PROVE  TypesHold'
<1>1. Given' = Given
  BY DEF LookAt, Given
<1>2. views' \in [Typists -> [looked : Nat, told : Nat]]
  <2>1. views \in [Typists -> [looked : Nat, told : Nat]]
    BY DEF TypesHold, ServerTyped
  <2>2. views' = [views EXCEPT ![c] = [views[c] EXCEPT !.looked = @ + 1]]
    BY <2>1 DEF LookAt
  <2> QED
    BY <2>1, <2>2, LookedOnce
<1>3. ServerTyped(Given)'
  BY <1>1, <1>2 DEF TypesHold, ServerTyped, LookAt
<1>4. ConnsTyped(Given)'
  BY <1>1 DEF TypesHold, ConnsTyped, LookAt, conns, sockets
<1>5. PanesTyped(Given)'
  BY <1>1 DEF TypesHold, PanesTyped, LookAt, panes
<1> QED
  BY <1>3, <1>4, <1>5 DEF TypesHold, LookAt

\* Answering an asker keeps every variable's type.
LEMMA AnswerWaitTyped ==
    ASSUME TypesHold, NEW c \in Conns, AnswerWait(c)
    PROVE  TypesHold'
<1>1. Given' = Given
  BY DEF AnswerWait, Given
<1>2. wait[c] \in Given
  BY DEF TypesHold, ServerTyped, AnswerWait
<1>3. inputs[wait[c]].to \subseteq Panes
  <2>1. inputs[wait[c]] \in Inputs
    BY <1>2, ElementOfSeq DEF TypesHold, Given
  <2> QED
    BY <2>1 DEF Inputs
<1>4. answers' \subseteq Replies(Given) /\ wait' \in [Conns -> Given \union {0}]
  BY DEF TypesHold, ServerTyped, AnswerWait
<1>5. replied' \subseteq Replies(Given)
  <2>1. \A p \in Panes : [pane |-> p, n |-> wait[c], says |-> "unsure"] \in Replies(Given)
    BY <1>2 DEF Replies
  <2> QED
    BY <1>3, <2>1 DEF TypesHold, ServerTyped, AnswerWait
<1>6. ServerTyped(Given)'
  BY <1>1, <1>4, <1>5 DEF TypesHold, ServerTyped, AnswerWait
<1>7. ConnsTyped(Given)'
  BY <1>1 DEF TypesHold, ConnsTyped, AnswerWait, conns, sockets
<1>8. PanesTyped(Given)'
  BY <1>1 DEF TypesHold, PanesTyped, AnswerWait, panes
<1> QED
  BY <1>6, <1>7, <1>8 DEF TypesHold, AnswerWait

\* What panes are told of a connection that goes: to let go what they had of
\* it, and nothing else.
LEMMA Dropped ==
    ASSUME TypesHold, NEW c \in Conns, DropConn(c)
    PROVE  \A p \in Panes :
              IF link[p] = "up"
              THEN \E drops \in Seq(WordsTo(Given)) :
                      /\ toPane'[p] = toPane[p] \o drops
                      /\ \A word \in ToSet(drops) : word.say = "drop" /\ word.n \in Given
                      /\ \A n \in Given : <<p, n>> \in Of(c, tokens)
                                         => Word("drop", n) \in ToSet(drops)
              ELSE toPane'[p] = toPane[p]
<1> DEFINE had(p) == {n \in Numbers : <<p, n>> \in Of(c, tokens)}
<1>1. PICK drops : 
        /\ \A p \in Panes : drops[p] \in Rising(had(p))
        /\ toPane' = [p \in Panes |->
              IF link[p] = "up"
              THEN toPane[p] \o [i \in DOMAIN drops[p] |-> Word("drop", drops[p][i])]
              ELSE toPane[p]]
  BY DEF DropConn
<1> SUFFICES ASSUME NEW p \in Panes, link[p] = "up"
             PROVE  \E words \in Seq(WordsTo(Given)) :
                      /\ toPane'[p] = toPane[p] \o words
                      /\ \A word \in ToSet(words) : word.say = "drop" /\ word.n \in Given
                      /\ \A n \in Given : <<p, n>> \in Of(c, tokens)
                                         => Word("drop", n) \in ToSet(words)
  BY <1>1
<1> DEFINE words == [i \in DOMAIN drops[p] |-> Word("drop", drops[p][i])]
<1>2. Given \subseteq Numbers /\ Len(inputs) \in Nat /\ tokens \subseteq Panes \X Given
  BY LenProperties DEF TypesHold, ServerTyped, Given, Numbers
<1>3. had(p) \subseteq Given /\ \A n \in Given : <<p, n>> \in Of(c, tokens) => n \in had(p)
  BY <1>2 DEF Of
<1>4. IsFiniteSet(had(p))
  <2>1. IsFiniteSet(Given)
    BY <1>2, FS_Interval DEF Given
  <2> QED
    BY <1>3, <2>1, FS_Subset
<1>5. Cardinality(had(p)) \in Nat
  BY <1>4, FS_CardinalityType
<1>6. drops[p] \in [1..Cardinality(had(p)) -> had(p)] /\ ToSet(drops[p]) = had(p)
  BY <1>1 DEF Rising
<1> HIDE DEF had
<1>7. \A i \in 1..Cardinality(had(p)) : words[i] = Word("drop", drops[p][i]) /\ drops[p][i] \in Given
  BY <1>3, <1>6
<1>8. \A i \in 1..Cardinality(had(p)) : words[i] \in WordsTo(Given)
  BY <1>7, WordsAre
<1>9. DOMAIN words = 1..Cardinality(had(p))
  BY <1>6
<1> HIDE DEF words
<1>10. words \in [1..Cardinality(had(p)) -> WordsTo(Given)]
  <2>1. words = [i \in 1..Cardinality(had(p)) |-> words[i]]
    BY <1>6 DEF words
  <2> QED
    BY <1>8, <2>1
<1>11. words \in Seq(WordsTo(Given))
  BY <1>5, <1>10, SeqDef
<1>12. toPane'[p] = toPane[p] \o words
  BY <1>1 DEF words
<1>13. \A word \in ToSet(words) : word.say = "drop" /\ word.n \in Given
  BY <1>7, <1>9 DEF ToSet, Word
<1>14. \A n \in had(p) : Word("drop", n) \in ToSet(words)
  <2>1. \A n \in had(p) : \E i \in 1..Cardinality(had(p)) : drops[p][i] = n
    BY <1>6 DEF ToSet
  <2> QED
    BY <1>7, <1>9, <2>1 DEF ToSet
<1> QED
  BY <1>3, <1>11, <1>12, <1>13, <1>14

\* Letting a connection go keeps every variable's type.
LEMMA DropConnTyped ==
    ASSUME TypesHold, NEW c \in Conns, DropConn(c)
    PROVE  TypesHold'
<1>1. Given' = Given
  BY DEF DropConn, Given
<1>2. toPane' \in [Panes -> Seq(WordsTo(Given))]
  <2>1. \A p \in Panes : toPane'[p] \in Seq(WordsTo(Given))
    <3> SUFFICES ASSUME NEW p \in Panes PROVE toPane'[p] \in Seq(WordsTo(Given))
      OBVIOUS
    <3>1. toPane[p] \in Seq(WordsTo(Given))
      BY DEF TypesHold, PanesTyped
    <3>2. CASE link[p] = "up"
      <4>1. PICK words \in Seq(WordsTo(Given)) : toPane'[p] = toPane[p] \o words
        BY <3>2, Dropped
      <4> QED
        BY <3>1, <4>1, InBoth
    <3>3. CASE link[p] # "up"
      BY <3>1, <3>3, Dropped
    <3> QED
      BY <3>2, <3>3
  <2>2. \E f : toPane' = [p \in Panes |-> f[p]]
    <3>1. PICK drops :
            toPane' = [p \in Panes |->
              IF link[p] = "up"
              THEN toPane[p] \o [i \in DOMAIN drops[p] |-> Word("drop", drops[p][i])]
              ELSE toPane[p]]
      BY DEF DropConn
    <3> QED
      BY <3>1
  <2> QED
    BY <2>1, <2>2
<1>3. ServerTyped(Given)'
  BY <1>1 DEF TypesHold, ServerTyped, DropConn
<1>4. ConnsTyped(Given)'
  BY <1>1 DEF TypesHold, ConnsTyped, DropConn, conns, sockets
<1>5. PanesTyped(Given)'
  BY <1>1, <1>2 DEF TypesHold, PanesTyped, DropConn, panes
<1> QED
  BY <1>3, <1>4, <1>5 DEF TypesHold, DropConn

\* Hearing a pane keeps every variable's type.
LEMMA HearPaneTyped ==
    ASSUME TypesHold, NEW p \in Panes, HearPane(p)
    PROVE  TypesHold'
<1> DEFINE word == Head(fromPane[p])
<1>1. Given' = Given
  BY DEF HearPane, Given
<1>2. fromPane \in [Panes -> Seq(WordsFrom(Given))] /\ fromPane[p] # <<>>
  BY DEF TypesHold, PanesTyped, HearPane
<1>3. fromPane' \in [Panes -> Seq(WordsFrom(Given))] /\ word \in WordsFrom(Given)
  BY <1>2, InTail, TakenAt DEF HearPane
<1>4. tokens' \subseteq tokens /\ asks' \subseteq asks
  BY DEF HearPane
<1>5. answers' \subseteq Replies(Given)
  <2>1. word.say # "retired" => [pane |-> p, n |-> word.n, says |-> word.say] \in Replies(Given)
    BY <1>3, WordsAre DEF Replies
  <2> QED
    BY <2>1 DEF TypesHold, ServerTyped, HearPane
<1>6. ServerTyped(Given)'
  BY <1>1, <1>4, <1>5 DEF TypesHold, ServerTyped, HearPane
<1>7. ConnsTyped(Given)'
  BY <1>1 DEF TypesHold, ConnsTyped, HearPane, conns, sockets
<1>8. PanesTyped(Given)'
  BY <1>1, <1>3 DEF TypesHold, PanesTyped, HearPane, panes
<1> QED
  BY <1>6, <1>7, <1>8 DEF TypesHold, HearPane

\* Finding a pane's process gone keeps every variable's type.
LEMMA PaneGoneTyped ==
    ASSUME TypesHold, NEW p \in Panes, PaneGone(p)
    PROVE  TypesHold'
<1>1. Given' = Given
  BY DEF PaneGone, Given
<1>2. asks' \subseteq asks /\ link' \in [Panes -> {"up", "lost", "ending", "closed"}]
  BY DEF TypesHold, ServerTyped, PaneGone
<1>3. answers' \subseteq Replies(Given)
  <2>1. \A ask \in asks : [pane |-> p, n |-> ask[2], says |-> "unsure"] \in Replies(Given)
    BY DEF TypesHold, ServerTyped, Replies
  <2> QED
    BY <2>1 DEF TypesHold, ServerTyped, PaneGone
<1>4. ServerTyped(Given)'
  BY <1>1, <1>2, <1>3 DEF TypesHold, ServerTyped, PaneGone
<1>5. ConnsTyped(Given)'
  BY <1>1 DEF TypesHold, ConnsTyped, PaneGone, conns, sockets
<1>6. PanesTyped(Given)'
  BY <1>1 DEF TypesHold, PanesTyped, PaneGone, panes
<1> QED
  BY <1>4, <1>5, <1>6 DEF TypesHold, PaneGone

\* Closing a pane keeps every variable's type.
LEMMA ClosePaneTyped ==
    ASSUME TypesHold, NEW p \in Panes, ClosePane(p)
    PROVE  TypesHold'
<1>1. Given' = Given
  BY DEF ClosePane, Given
<1>2. toPane' \in [Panes -> Seq(WordsTo(Given))]
  BY TellTyped, WordsAre DEF TypesHold, PanesTyped, ClosePane
<1>3. /\ link' \in [Panes -> {"up", "lost", "ending", "closed"}]
      /\ focus' \in [Typists -> Panes \union {Nowhere}]
  BY DEF TypesHold, ServerTyped, ClosePane
<1>4. views' \in [Typists -> [looked : Nat, told : Nat]]
  <2>1. views \in [Typists -> [looked : Nat, told : Nat]]
    BY DEF TypesHold, ServerTyped
  <2>2. \A c \in Typists : views'[c] = [views[c] EXCEPT
                               !.looked = IF focus[c] = p THEN @ + 1 ELSE @]
    BY DEF ClosePane
  <2>3. \A c \in Typists :
          /\ focus[c] = p => views'[c] = [views[c] EXCEPT !.looked = @ + 1]
          /\ focus[c] # p => views'[c] = views[c]
    BY <2>1, <2>2
  <2>4. \A c \in Typists : views'[c] \in [looked : Nat, told : Nat]
    BY <2>1, <2>3, LookedOnce
  <2> QED
    BY <2>4 DEF ClosePane
<1>5. ServerTyped(Given)'
  BY <1>1, <1>3, <1>4 DEF TypesHold, ServerTyped, ClosePane
<1>6. ConnsTyped(Given)'
  BY <1>1 DEF TypesHold, ConnsTyped, ClosePane, conns, sockets
<1>7. PanesTyped(Given)'
  BY <1>1, <1>2 DEF TypesHold, PanesTyped, ClosePane, panes
<1> QED
  BY <1>5, <1>6, <1>7 DEF TypesHold, ClosePane

\* Links let go of.
LEMMA LetGoTyped ==
    ASSUME NEW N, ConnsTyped(N), NEW c \in Conns, NEW from, LetGo(c, from)
    PROVE  /\ wire' \in [Conns -> [Panes -> Seq(N)]]
           /\ out' \in [Conns -> [Panes -> Seq(N)]]
           /\ loose' \in [Panes -> SUBSET (Seq(N) \ {<<>>})]
<1>1. <<>> \in Seq(N)
  BY EmptySeq
<1>2. [p \in Panes |-> IF p \in from THEN <<>> ELSE wire[c][p]] \in [Panes -> Seq(N)]
  BY <1>1 DEF ConnsTyped
<1>3. [p \in Panes |-> IF p \in from THEN <<>> ELSE out[c][p]] \in [Panes -> Seq(N)]
  BY <1>1 DEF ConnsTyped
<1>4. loose' \in [Panes -> SUBSET (Seq(N) \ {<<>>})]
  BY DEF ConnsTyped, LetGo
<1> QED
  BY <1>2, <1>3, <1>4 DEF ConnsTyped, LetGo

\* Hearing the server keeps every variable's type.
LEMMA HearServerTyped ==
    ASSUME TypesHold, NEW c \in Conns, HearServer(c)
    PROVE  TypesHold'
<1> DEFINE word == Head(told[c])
<1>1. Given' = Given
  BY DEF HearServer, Given
<1>2. told \in [Conns -> Seq(WordsToConn(Given))] /\ told[c] # <<>> /\ ConnsTyped(Given)
  BY DEF TypesHold, ConnsTyped, HearServer
<1>3. told' \in [Conns -> Seq(WordsToConn(Given))] /\ word \in WordsToConn(Given)
  BY <1>2, InTail, TakenAt DEF HearServer
<1>4. /\ proc' \in [Conns -> {"up", "closing", "gone"}]
      /\ side' \in [Conns -> SUBSET Panes]
      /\ out' \in [Conns -> [Panes -> Seq(Given)]]
      /\ posts' \subseteq Panes \X Given
      /\ wire' \in [Conns -> [Panes -> Seq(Given)]]
      /\ loose' \in [Panes -> SUBSET (Seq(Given) \ {<<>>})]
  <2>1. CASE word.say = "deliver" /\ TakeDeliver(c, word.n)
    <3> DEFINE to == inputs[word.n].to
    <3>1. word.n \in Given
      BY <1>3, <2>1, WordsAre
    <3>2. to \subseteq Panes
      <4>1. inputs[word.n] \in Inputs
        BY <3>1, ElementOfSeq DEF TypesHold, Given
      <4> QED
        BY <4>1 DEF Inputs
    <3>3. posts' \subseteq Panes \X Given
      BY <1>2, <2>1, <3>1, <3>2 DEF ConnsTyped, TakeDeliver
    <3>4. out' \in [Conns -> [Panes -> Seq(Given)]]
      <4>1. \A p \in Panes : Append(out[c][p], word.n) \in Seq(Given)
        BY <1>2, <3>1, InAppended DEF ConnsTyped
      <4>2. [p \in Panes |-> IF p \in to \intersect side[c]
                             THEN Append(out[c][p], word.n) ELSE out[c][p]]
              \in [Panes -> Seq(Given)]
        BY <1>2, <4>1 DEF ConnsTyped
      <4> QED
        BY <1>2, <2>1, <4>2 DEF ConnsTyped, TakeDeliver
    <3> QED
      BY <1>2, <2>1, <3>3, <3>4 DEF ConnsTyped, TakeDeliver, sockets
  <2>2. CASE word.say = "scene" /\ TakeScene(c, word.shows)
    <3>1. word.shows \in SUBSET Panes
      BY <1>3, <2>2, WordsAre
    <3>2. side' \in [Conns -> SUBSET Panes]
      BY <1>2, <2>2, <3>1 DEF ConnsTyped, TakeScene
    <3>3. LetGo(c, Panes \ word.shows)
      BY <2>2 DEF TakeScene
    <3> QED
      BY <1>2, <2>2, <3>2, <3>3, LetGoTyped DEF ConnsTyped, TakeScene
  <2>3. CASE word.say = "close" /\ TakeClose(c)
    BY <1>2, <2>3 DEF ConnsTyped, TakeClose, sockets
  <2> QED
    BY <2>1, <2>2, <2>3 DEF HearServer
<1>5. ConnsTyped(Given)'
  BY <1>1, <1>3, <1>4 DEF ConnsTyped
<1>6. ServerTyped(Given)'
  BY <1>1 DEF TypesHold, ServerTyped, HearServer, server
<1>7. PanesTyped(Given)'
  BY <1>1 DEF TypesHold, PanesTyped, HearServer, panes
<1> QED
  BY <1>5, <1>6, <1>7 DEF TypesHold, HearServer

\* Writing a body to a pane shown keeps every variable's type.
LEMMA FlushSideTyped ==
    ASSUME TypesHold, NEW c \in Conns, NEW p \in Panes, FlushSide(c, p)
    PROVE  TypesHold'
<1>1. Given' = Given
  BY DEF FlushSide, Given
<1>2. /\ out \in [Conns -> [Panes -> Seq(Given)]] /\ wire \in [Conns -> [Panes -> Seq(Given)]]
      /\ out[c][p] # <<>>
  BY DEF TypesHold, ConnsTyped, FlushSide
<1>3. /\ Tail(out[c][p]) \in Seq(Given)
      /\ Append(wire[c][p], Head(out[c][p])) \in Seq(Given)
  BY <1>2, InTail, InAppended
<1>4. out' \in [Conns -> [Panes -> Seq(Given)]] /\ wire' \in [Conns -> [Panes -> Seq(Given)]]
  BY <1>2, <1>3 DEF FlushSide
<1>5. ServerTyped(Given)'
  BY <1>1 DEF TypesHold, ServerTyped, FlushSide, server
<1>6. ConnsTyped(Given)'
  BY <1>1, <1>4 DEF TypesHold, ConnsTyped, FlushSide
<1>7. PanesTyped(Given)'
  BY <1>1 DEF TypesHold, PanesTyped, FlushSide, panes
<1> QED
  BY <1>5, <1>6, <1>7 DEF TypesHold, FlushSide

\* Writing a body to another pane keeps every variable's type.
LEMMA FlushPostTyped ==
    ASSUME TypesHold, NEW p, NEW n, FlushPost(p, n)
    PROVE  TypesHold'
<1>1. Given' = Given
  BY DEF FlushPost, Given
<1>2. p \in Panes /\ n \in Given
  BY DEF TypesHold, ConnsTyped, FlushPost
<1>3. <<n>> \in Seq(Given) \ {<<>>}
  BY <1>2
<1>4. loose' \in [Panes -> SUBSET (Seq(Given) \ {<<>>})]
  BY <1>2, <1>3 DEF TypesHold, ConnsTyped, FlushPost
<1>5. ServerTyped(Given)'
  BY <1>1 DEF TypesHold, ServerTyped, FlushPost, server
<1>6. ConnsTyped(Given)'
  BY <1>1, <1>4 DEF TypesHold, ConnsTyped, FlushPost
<1>7. PanesTyped(Given)'
  BY <1>1 DEF TypesHold, PanesTyped, FlushPost, panes
<1> QED
  BY <1>5, <1>6, <1>7 DEF TypesHold, FlushPost

\* A connection's end keeps every variable's type.
LEMMA EndConnTyped ==
    ASSUME TypesHold, NEW c \in Conns, EndConn(c)
    PROVE  TypesHold'
<1>1. Given' = Given
  BY DEF EndConn, Given
<1>2. told' \in [Conns -> Seq(WordsToConn(Given))]
  <2>1. <<>> \in Seq(WordsToConn(Given))
    BY EmptySeq
  <2> QED
    BY <2>1 DEF TypesHold, ConnsTyped, EndConn
<1>3. /\ proc' \in [Conns -> {"up", "closing", "gone"}] /\ side' \in [Conns -> SUBSET Panes]
      /\ posts' \subseteq Panes \X Given
  BY DEF TypesHold, ConnsTyped, EndConn
<1>4. ConnsTyped(Given)'
  BY <1>1, <1>2, <1>3, LetGoTyped DEF TypesHold, ConnsTyped, EndConn
<1>5. ServerTyped(Given)'
  BY <1>1 DEF TypesHold, ServerTyped, EndConn, server
<1>6. PanesTyped(Given)'
  BY <1>1 DEF TypesHold, PanesTyped, EndConn, panes
<1> QED
  BY <1>4, <1>5, <1>6 DEF TypesHold, EndConn

\* What a pane's process says, and writes to its program.
LEMMA ReportTyped ==
    ASSUME PanesTyped(Given), NEW p \in Panes, NEW n \in Given,
           NEW words \in Seq(WordsFrom(Given)), Report(p, words)
    PROVE  fromPane' \in [Panes -> Seq(WordsFrom(Given))]
BY InBoth DEF PanesTyped, Report

\* What is written to a program is an input made.
LEMMA WriteTyped ==
    ASSUME PanesTyped(Given), NEW p \in Panes, NEW n \in Given, Write(p, n)
    PROVE  taken' \in [Panes -> Seq(Given)]
BY InAppended DEF PanesTyped, Write

\* Taking or refusing keys keeps every variable's type.
LEMMA KeysComeTyped ==
    ASSUME PanesTyped(Given), NEW p \in Panes, NEW n \in Given, KeysCome(p, n)
    PROVE  /\ fromPane' \in [Panes -> Seq(WordsFrom(Given))]
           /\ taken' \in [Panes -> Seq(Given)]
<1>1. /\ <<Word("retired", n), Word("acted", n)>> \in Seq(WordsFrom(Given))
      /\ <<Word("retired", n), Word("refused", n)>> \in Seq(WordsFrom(Given))
  <2>1. Word("retired", n) \in WordsFrom(Given) /\ Word("acted", n) \in WordsFrom(Given)
        /\ Word("refused", n) \in WordsFrom(Given)
    BY WordsAre
  <2> HIDE DEF Word
  <2> QED
    BY <2>1
<1>2. PICK seen \in BOOLEAN :
        IF life[p] = "runs" /\ seen
        THEN Write(p, n) /\ Report(p, <<Word("retired", n), Word("acted", n)>>)
        ELSE UNCHANGED taken /\ Report(p, <<Word("retired", n), Word("refused", n)>>)
  BY DEF KeysCome
<1>3. CASE life[p] = "runs" /\ seen
  BY <1>1, <1>2, <1>3, ReportTyped, WriteTyped
<1>4. CASE ~(life[p] = "runs" /\ seen)
  <2>1. UNCHANGED taken /\ Report(p, <<Word("retired", n), Word("refused", n)>>)
    BY <1>2, <1>4
  <2> QED
    BY <1>1, <2>1, ReportTyped DEF PanesTyped
<1> QED
  BY <1>3, <1>4

\* Handling a word of the server keeps every variable's type.
LEMMA HandleTyped ==
    ASSUME TypesHold, NEW p \in Panes, Handle(p)
    PROVE  TypesHold'
<1> DEFINE word == Head(toPane[p])
<1>1. Given' = Given
  BY DEF Handle, Given
<1>2. toPane \in [Panes -> Seq(WordsTo(Given))] /\ toPane[p] # <<>> /\ PanesTyped(Given)
  BY DEF TypesHold, PanesTyped, Handle
<1>3. toPane' \in [Panes -> Seq(WordsTo(Given))] /\ word \in WordsTo(Given)
  BY <1>2, InTail, TakenAt DEF Handle
<1>4. /\ fromPane' \in [Panes -> Seq(WordsFrom(Given))]
      /\ life' \in [Panes -> {"runs", "ended", "closed", "gone"}]
      /\ bodies' \in [Panes -> SUBSET Given]
      /\ awaiting' \in [Panes -> SUBSET Given]
      /\ taken' \in [Panes -> Seq(Given)]
  <2>1. CASE word.say = "key" /\ HandleKey(p, word.n)
    <3>1. word.n \in Given
      BY <1>3, <2>1, WordsAre
    <3>2. taken' \in [Panes -> Seq(Given)]
      BY <1>2, <2>1, <3>1, WriteTyped DEF HandleKey, PanesTyped
    <3> QED
      BY <1>2, <2>1, <3>2 DEF HandleKey, PanesTyped
  <2>2. CASE word.say = "paste" /\ HandlePaste(p, word.n)
    <3>1. word.n \in Given
      BY <1>3, <2>2, WordsAre
    <3>2. CASE life[p] # "runs"
      BY <1>2, <2>2, <3>2 DEF HandlePaste, PanesTyped
    <3>3. CASE life[p] = "runs" /\ word.n \in bodies[p]
      <4>1. /\ Write(p, word.n) /\ Report(p, <<Word("retired", word.n)>>)
            /\ bodies' = [bodies EXCEPT ![p] = @ \ {word.n}]
            /\ UNCHANGED <<life, awaiting>>
        BY <2>2, <3>3 DEF HandlePaste
      <4>2. <<Word("retired", word.n)>> \in Seq(WordsFrom(Given))
        BY <3>1, WordsAre
      <4> QED
        BY <1>2, <3>1, <4>1, <4>2, ReportTyped, WriteTyped DEF PanesTyped
    <3>4. CASE life[p] = "runs" /\ word.n \notin bodies[p]
      <4>1. /\ awaiting' = [awaiting EXCEPT ![p] = @ \union {word.n}]
            /\ UNCHANGED <<life, bodies, taken, fromPane>>
        BY <2>2, <3>4 DEF HandlePaste
      <4> QED
        BY <1>2, <3>1, <4>1 DEF PanesTyped
    <3> QED
      BY <3>2, <3>3, <3>4
  <2>3. CASE word.say = "keys" /\ HandleKeys(p, word.n)
    <3>1. word.n \in Given
      BY <1>3, <2>3, WordsAre
    <3>2. CASE word.n \in bodies[p]
      <4>1. /\ KeysCome(p, word.n) /\ bodies' = [bodies EXCEPT ![p] = @ \ {word.n}]
            /\ UNCHANGED <<life, awaiting>>
        BY <2>3, <3>2 DEF HandleKeys
      <4> QED
        BY <1>2, <3>1, <4>1, KeysComeTyped DEF PanesTyped
    <3>3. CASE word.n \notin bodies[p]
      <4>1. /\ awaiting' = [awaiting EXCEPT ![p] = @ \union {word.n}]
            /\ UNCHANGED <<life, bodies, taken, fromPane>>
        BY <2>3, <3>3 DEF HandleKeys
      <4> QED
        BY <1>2, <3>1, <4>1 DEF PanesTyped
    <3> QED
      BY <3>2, <3>3
  <2>4. CASE word.say = "drop" /\ HandleDrop(p, word.n)
    <3>1. word.n \in Given
      BY <1>3, <2>4, WordsAre
    <3>2. <<Word("unsure", word.n)>> \in Seq(WordsFrom(Given))
      BY <3>1, WordsAre
    <3>3. fromPane' \in [Panes -> Seq(WordsFrom(Given))]
      BY <1>2, <2>4, <3>1, <3>2, ReportTyped DEF HandleDrop, PanesTyped
    <3> QED
      BY <1>2, <2>4, <3>3 DEF HandleDrop, PanesTyped
  <2>5. CASE word.say = "close" /\ HandleClose(p)
    BY <1>2, <2>5 DEF HandleClose, PanesTyped
  <2> QED
    BY <2>1, <2>2, <2>3, <2>4, <2>5 DEF Handle
<1>5. PanesTyped(Given)'
  BY <1>1, <1>3, <1>4 DEF PanesTyped
<1>6. ServerTyped(Given)'
  BY <1>1 DEF TypesHold, ServerTyped, Handle, server
<1>7. ConnsTyped(Given)'
  BY <1>1 DEF TypesHold, ConnsTyped, Handle, conns, sockets
<1> QED
  BY <1>5, <1>6, <1>7 DEF TypesHold, Handle

\* A body comes, whichever way.
LEMMA BodyTyped ==
    ASSUME TypesHold, NEW p \in Panes, NEW n \in Given, Body(p, n),
           wire' \in [Conns -> [Panes -> Seq(Given)]],
           loose' \in [Panes -> SUBSET (Seq(Given) \ {<<>>})]
    PROVE  TypesHold'
<1>1. Given' = Given
  BY DEF Body, Given
<1>2. PanesTyped(Given)
  BY DEF TypesHold
<1>3. awaiting' \in [Panes -> SUBSET Given]
  BY <1>2 DEF PanesTyped, Body
<1>4. /\ fromPane' \in [Panes -> Seq(WordsFrom(Given))]
      /\ bodies' \in [Panes -> SUBSET Given]
      /\ taken' \in [Panes -> Seq(Given)]
  <2>1. CASE n \in awaiting[p] /\ inputs[n].what = "keys"
    <3>1. KeysCome(p, n) /\ UNCHANGED bodies
      BY <2>1 DEF Body
    <3> QED
      BY <1>2, <3>1, KeysComeTyped DEF PanesTyped
  <2>2. CASE ~(n \in awaiting[p] /\ inputs[n].what = "keys")
             /\ n \in awaiting[p] /\ life[p] = "runs"
    <3>1. Write(p, n) /\ Report(p, <<Word("retired", n)>>) /\ UNCHANGED bodies
      BY <2>2 DEF Body
    <3>2. <<Word("retired", n)>> \in Seq(WordsFrom(Given))
      BY WordsAre
    <3> QED
      BY <1>2, <3>1, <3>2, ReportTyped, WriteTyped DEF PanesTyped
  <2>3. CASE ~(n \in awaiting[p] /\ (inputs[n].what = "keys" \/ life[p] = "runs"))
    <3>1. bodies' = [bodies EXCEPT ![p] = @ \union {n}] /\ UNCHANGED <<taken, fromPane>>
      BY <2>3 DEF Body
    <3> QED
      BY <1>2, <3>1 DEF PanesTyped
  <2> QED
    BY <2>1, <2>2, <2>3
<1>5. PanesTyped(Given)'
  BY <1>1, <1>2, <1>3, <1>4 DEF PanesTyped, Body
<1>6. ServerTyped(Given)'
  BY <1>1 DEF TypesHold, ServerTyped, Body, server
<1>7. ConnsTyped(Given)'
  BY <1>1 DEF TypesHold, ConnsTyped, Body, conns
<1> QED
  BY <1>5, <1>6, <1>7 DEF TypesHold, Body

\* Reading a body off a pane's link keeps every variable's type.
LEMMA ReadSideTyped ==
    ASSUME TypesHold, NEW p \in Panes, NEW c \in Conns, ReadSide(p, c)
    PROVE  TypesHold' /\ Head(wire[c][p]) \in Given
<1>1. wire \in [Conns -> [Panes -> Seq(Given)]] /\ wire[c][p] # <<>>
  BY DEF TypesHold, ConnsTyped, ReadSide
<1>2. Head(wire[c][p]) \in Given /\ Tail(wire[c][p]) \in Seq(Given)
  BY <1>1, InTail
<1>3. wire' \in [Conns -> [Panes -> Seq(Given)]]
  BY <1>1, <1>2 DEF ReadSide
<1>4. loose' \in [Panes -> SUBSET (Seq(Given) \ {<<>>})] /\ Body(p, Head(wire[c][p]))
  BY DEF TypesHold, ConnsTyped, ReadSide
<1> QED
  BY <1>2, <1>3, <1>4, BodyTyped

\* Reading a body off a link let go keeps every variable's type.
LEMMA ReadLooseTyped ==
    ASSUME TypesHold, NEW p \in Panes, NEW bodiesLeft \in loose[p], ReadLoose(p, bodiesLeft)
    PROVE  TypesHold' /\ Head(bodiesLeft) \in Given
<1>1. loose \in [Panes -> SUBSET (Seq(Given) \ {<<>>})]
      /\ bodiesLeft \in Seq(Given) /\ bodiesLeft # <<>>
  BY DEF TypesHold, ConnsTyped
<1>2. Head(bodiesLeft) \in Given /\ Tail(bodiesLeft) \in Seq(Given)
  BY <1>1, InTail
<1>3. Len(bodiesLeft) # 1 => Tail(bodiesLeft) # <<>>
  <2>1. Len(Tail(bodiesLeft)) = Len(bodiesLeft) - 1 /\ Len(bodiesLeft) \in Nat \ {0}
    BY <1>1, HeadTailProperties, EmptySeq
  <2>2. Len(<<>>) = 0
    OBVIOUS
  <2> QED
    BY <2>1, <2>2
<1>4. loose' \in [Panes -> SUBSET (Seq(Given) \ {<<>>})]
  BY <1>1, <1>2, <1>3 DEF ReadLoose
<1>5. wire' \in [Conns -> [Panes -> Seq(Given)]] /\ Body(p, Head(bodiesLeft))
  BY DEF TypesHold, ConnsTyped, ReadLoose
<1> QED
  BY <1>2, <1>4, <1>5, BodyTyped

\* A program's end or start keeps every variable's type.
LEMMA ProgramTyped ==
    ASSUME TypesHold, NEW p \in Panes, Program(p)
    PROVE  TypesHold'
<1>1. Given' = Given
  BY DEF Program, Given
<1>2. ServerTyped(Given)'
  BY <1>1 DEF TypesHold, ServerTyped, Program, server
<1>3. ConnsTyped(Given)'
  BY <1>1 DEF TypesHold, ConnsTyped, Program, conns, sockets
<1>4. PanesTyped(Given)'
  BY <1>1 DEF TypesHold, PanesTyped, Program
<1> QED
  BY <1>2, <1>3, <1>4 DEF TypesHold, Program

\* A pane process's end keeps every variable's type.
LEMMA EndPaneTyped ==
    ASSUME TypesHold, NEW p \in Panes, EndPane(p),
           fromPane' \in [Panes -> Seq(WordsFrom(Given))]
    PROVE  TypesHold'
<1>1. Given' = Given
  BY DEF EndPane, Given
<1>2. ServerTyped(Given)'
  BY <1>1 DEF TypesHold, ServerTyped, EndPane, server
<1>3. \A S : <<>> \in Seq(S)
  BY EmptySeq
<1>4. /\ wire' \in [Conns -> [Panes -> Seq(Given)]]
      /\ out' \in [Conns -> [Panes -> Seq(Given)]]
  BY <1>3 DEF TypesHold, ConnsTyped, EndPane
<1>5. /\ side' \in [Conns -> SUBSET Panes]
      /\ posts' \subseteq Panes \X Given
      /\ loose' \in [Panes -> SUBSET (Seq(Given) \ {<<>>})]
  BY DEF TypesHold, ConnsTyped, EndPane
<1>6. ConnsTyped(Given)'
  BY <1>1, <1>4, <1>5 DEF TypesHold, ConnsTyped, EndPane
<1>7. PanesTyped(Given)'
  BY <1>1, <1>3 DEF TypesHold, PanesTyped, EndPane
<1> QED
  BY <1>2, <1>6, <1>7 DEF TypesHold, EndPane

\* Its being killed keeps every variable's type.
LEMMA CrashTyped ==
    ASSUME TypesHold, NEW p \in Panes, Crash(p)
    PROVE  TypesHold'
<1>1. PICK k \in 0..Len(fromPane[p]) : fromPane' = [fromPane EXCEPT ![p] = SubSeq(@, 1, k)]
  BY DEF Crash
<1>2. fromPane \in [Panes -> Seq(WordsFrom(Given))]
  BY DEF TypesHold, PanesTyped
<1>3. SubSeq(fromPane[p], 1, k) \in Seq(WordsFrom(Given))
  BY <1>2, InFirst
<1>4. fromPane' \in [Panes -> Seq(WordsFrom(Given))]
  BY <1>1, <1>2, <1>3
<1> QED
  BY <1>4, EndPaneTyped DEF Crash

\* Its finishing keeps every variable's type.
LEMMA FinishTyped ==
    ASSUME TypesHold, NEW p \in Panes, Finish(p)
    PROVE  TypesHold'
BY EndPaneTyped DEF Finish, TypesHold, PanesTyped

\* Every step keeps the types.
LEMMA TypesKept ==
    ASSUME TypesHold, [Next]_vars
    PROVE  TypesHold'
<1>1. CASE Server
  <2>1. CASE \E c \in Typists : TypeKey(c) \/ Paste(c) \/ Detach(c) \/ SendScene(c)
                                \/ \E p \in Panes : LookAt(c, p)
    BY <2>1, TypeKeyTyped, PasteTyped, DetachTyped, SendSceneTyped, LookAtTyped DEF Conns
  <2>2. CASE \E c \in Askers, to \in (SUBSET Panes) \ {{}} : SendKeys(c, to)
    BY <2>2, SendKeysTyped
  <2>3. CASE \E c \in Conns : AnswerWait(c) \/ DropConn(c)
    BY <2>3, AnswerWaitTyped, DropConnTyped
  <2>4. CASE \E p \in Panes : HearPane(p) \/ PaneGone(p) \/ ClosePane(p)
    BY <2>4, HearPaneTyped, PaneGoneTyped, ClosePaneTyped
  <2> QED
    BY <1>1, <2>1, <2>2, <2>3, <2>4 DEF Server
<1>2. CASE Connection
  <2>1. CASE \E c \in Conns : HearServer(c) \/ Close(c) \/ Die(c)
    BY <2>1, HearServerTyped, EndConnTyped DEF Close, Die
  <2>2. CASE \E c \in Conns, p \in Panes : FlushSide(c, p)
    BY <2>2, FlushSideTyped
  <2>3. CASE \E post \in posts : FlushPost(post[1], post[2])
    BY <2>3, FlushPostTyped
  <2> QED
    BY <1>2, <2>1, <2>2, <2>3 DEF Connection
<1>3. CASE Pane
  BY <1>3, HandleTyped, ProgramTyped, FinishTyped, CrashTyped, ReadSideTyped, ReadLooseTyped
     DEF Pane
<1>4. CASE UNCHANGED vars
  BY <1>4 DEF vars, server, conns, panes, sockets, TypesHold, ServerTyped, ConnsTyped,
              PanesTyped, Given
<1> QED
  BY <1>1, <1>2, <1>3, <1>4 DEF Next

-----------------------------------------------------------------------------
(* What a step does to a pane.                                             *)

\* What it says more.
Says(p, words) == ToSet(fromPane'[p]) \subseteq ToSet(fromPane[p]) \union words

\* It is done with an input, typed or not.
Finishes(p, n) ==
    \/ /\ life[p] = "runs"
       /\ taken'[p] = Append(taken[p], n)
       /\ Says(p, {Word("retired", n), Word("acted", n)})
    \/ /\ taken'[p] = taken[p]
       /\ Says(p, {Word("retired", n), Word("refused", n)})

\* Nothing it is to type changes; or it is told of what it is not to type, or
\* of an input that is new; or it handles the next word; or a body it awaits
\* comes; or its process ends.
Stays(p) ==
    /\ toPane'[p] = toPane[p] /\ awaiting'[p] = awaiting[p] /\ taken'[p] = taken[p]
    /\ Says(p, {})

IsTold(p) ==
    /\ \E words \in Seq(WordsTo(Given)) :
          /\ toPane'[p] = toPane[p] \o words
          /\ \A word \in ToSet(words) : ~Typing(word)
    /\ awaiting'[p] = awaiting[p] /\ taken'[p] = taken[p] /\ Says(p, {})

IsAsked(p) ==
    /\ \E word \in WordsTo(Given') :
          /\ toPane'[p] = Append(toPane[p], word)
          /\ Typing(word)
          /\ word.n = Len(inputs) + 1
          /\ inputs'[word.n].what = word.say
          /\ p \in inputs'[word.n].to
    /\ awaiting'[p] = awaiting[p] /\ taken'[p] = taken[p] /\ Says(p, {})

Handles(p) ==
    LET word == Head(toPane[p]) IN
    /\ toPane[p] # <<>>
    /\ toPane'[p] = Tail(toPane[p])
    /\ \/ /\ ~Typing(word)
          /\ awaiting'[p] \subseteq awaiting[p]
          /\ word.say = "drop" => word.n \notin awaiting'[p]
          /\ word.say = "close" => life'[p] = "closed"
          /\ taken'[p] = taken[p] /\ Says(p, {Word("unsure", word.n)})
       \/ /\ Typing(word) /\ word.say # "key"
          /\ awaiting'[p] = awaiting[p] \union {word.n}
          /\ taken'[p] = taken[p] /\ Says(p, {})
       \/ /\ Typing(word)
          /\ awaiting'[p] = awaiting[p] /\ Finishes(p, word.n)

Comes(p) ==
    /\ toPane'[p] = toPane[p]
    /\ \E n \in awaiting[p] : awaiting'[p] = awaiting[p] \ {n} /\ Finishes(p, n)

Ends(p) ==
    /\ toPane'[p] = <<>> /\ awaiting'[p] = {} /\ life'[p] = "gone"
    /\ taken'[p] = taken[p] /\ Says(p, {})

Steps(p) == Stays(p) \/ IsTold(p) \/ IsAsked(p) \/ Handles(p) \/ Comes(p) \/ Ends(p)

\* Where all that panes hold stays.
LEMMA NoneSteps ==
    ASSUME NEW p \in Panes, UNCHANGED <<inputs, toPane, awaiting, taken>>,
           fromPane' = fromPane \/ ToSet(fromPane'[p]) \subseteq ToSet(fromPane[p])
    PROVE  Given' = Given /\ Steps(p)
BY DEF Given, Steps, Stays, Says

\* One that is told a new input is asked it, and no other.
LEMMA TellAsks ==
    ASSUME TypesHold, NEW c \in Conns, NEW say \in {"key", "paste", "keys"},
           NEW to \in SUBSET Panes, NEW reached, reached \subseteq to, Input(c, say, to),
           Tell(reached, Word(say, Len(inputs) + 1)), NEW p \in Panes,
           UNCHANGED <<awaiting, taken, fromPane>>
    PROVE  Steps(p)
<1>1. /\ Len(inputs) + 1 \in Given'
      /\ inputs'[Len(inputs) + 1] = [from |-> c, what |-> say, to |-> to]
  BY MoreGiven
<1>2. CASE p \in reached /\ link[p] = "up"
  <2> DEFINE word == Word(say, Len(inputs) + 1)
  <2>1. /\ word \in WordsTo(Given') /\ Typing(word)
        /\ word.n = Len(inputs) + 1 /\ word.say = say
    BY <1>1 DEF WordsTo, Word, Typing
  <2>2. toPane'[p] = Append(toPane[p], word)
    BY <1>2 DEF Tell
  <2> HIDE DEF word
  <2> QED
    BY <1>1, <1>2, <2>1, <2>2 DEF Steps, IsAsked, Says
<1>3. CASE ~(p \in reached /\ link[p] = "up")
  BY <1>3 DEF Tell, Steps, Stays, Says
<1> QED
  BY <1>2, <1>3

\* What it reports is what it says, and no other does.
LEMMA ReportSays ==
    ASSUME TypesHold, NEW p \in Panes, NEW words \in Seq(WordsFrom(Given)), Report(p, words)
    PROVE  /\ ToSet(fromPane'[p]) = ToSet(fromPane[p]) \union ToSet(words)
           /\ \A q \in Panes \ {p} : fromPane'[q] = fromPane[q]
<1>1. fromPane \in [Panes -> Seq(WordsFrom(Given))]
  BY DEF TypesHold, PanesTyped
<1>2. fromPane'[p] = fromPane[p] \o words
      /\ \A q \in Panes \ {p} : fromPane'[q] = fromPane[q]
  BY <1>1 DEF Report
<1> QED
  BY <1>1, <1>2, InBoth

\* Keys that are to be typed are, or are refused.
LEMMA KeysFinish ==
    ASSUME TypesHold, NEW p \in Panes, NEW n \in Given, KeysCome(p, n)
    PROVE  /\ Finishes(p, n)
           /\ \A q \in Panes \ {p} : taken'[q] = taken[q] /\ fromPane'[q] = fromPane[q]
<1>1. taken \in [Panes -> Seq(Given)] /\ fromPane \in [Panes -> Seq(WordsFrom(Given))]
  BY DEF TypesHold, PanesTyped
<1>2. PICK seen \in BOOLEAN :
        IF life[p] = "runs" /\ seen
        THEN Write(p, n) /\ Report(p, <<Word("retired", n), Word("acted", n)>>)
        ELSE UNCHANGED taken /\ Report(p, <<Word("retired", n), Word("refused", n)>>)
  BY DEF KeysCome
<1>3. ASSUME NEW say \in {"acted", "refused"}, Report(p, <<Word("retired", n), Word(say, n)>>)
      PROVE  /\ Says(p, {Word("retired", n), Word(say, n)})
             /\ \A q \in Panes \ {p} : fromPane'[q] = fromPane[q]
  <2>1. Word("retired", n) \in WordsFrom(Given) /\ Word(say, n) \in WordsFrom(Given)
    BY WordsAre
  <2>2. <<Word("retired", n), Word(say, n)>> \in Seq(WordsFrom(Given))
    BY <2>1
  <2>3. ToSet(<<Word("retired", n), Word(say, n)>>) = {Word("retired", n), Word(say, n)}
    BY InShort
  <2> DEFINE words == <<Word("retired", n), Word(say, n)>>
  <2>4. words \in Seq(WordsFrom(Given)) /\ Report(p, words)
    BY <1>3, <2>2
  <2> HIDE DEF words
  <2>5. /\ ToSet(fromPane'[p]) = ToSet(fromPane[p]) \union ToSet(words)
        /\ \A q \in Panes \ {p} : fromPane'[q] = fromPane[q]
    BY <2>4, ReportSays
  <2> QED
    BY <2>3, <2>5 DEF Says, words
<1>4. CASE life[p] = "runs" /\ seen
  BY <1>1, <1>2, <1>3, <1>4 DEF Write, Finishes
<1>5. CASE ~(life[p] = "runs" /\ seen)
  <2>1. UNCHANGED taken /\ Report(p, <<Word("retired", n), Word("refused", n)>>)
    BY <1>2, <1>5
  <2> QED
    BY <1>3, <2>1 DEF Finishes
<1> QED
  BY <1>4, <1>5

\* A paste that is typed.
LEMMA PasteFinishes ==
    ASSUME TypesHold, NEW p \in Panes, NEW n \in Given, life[p] = "runs",
           Write(p, n), Report(p, <<Word("retired", n)>>)
    PROVE  /\ Finishes(p, n)
           /\ \A q \in Panes \ {p} : taken'[q] = taken[q] /\ fromPane'[q] = fromPane[q]
<1>1. taken \in [Panes -> Seq(Given)] /\ fromPane \in [Panes -> Seq(WordsFrom(Given))]
  BY DEF TypesHold, PanesTyped
<1>2. <<Word("retired", n)>> \in Seq(WordsFrom(Given))
  BY WordsAre
<1> DEFINE words == <<Word("retired", n)>>
<1>3. words \in Seq(WordsFrom(Given)) /\ Report(p, words) /\ ToSet(words) = {Word("retired", n)}
  BY <1>2, InShort
<1> HIDE DEF words
<1>4. /\ ToSet(fromPane'[p]) = ToSet(fromPane[p]) \union {Word("retired", n)}
      /\ \A q \in Panes \ {p} : fromPane'[q] = fromPane[q]
  BY <1>3, ReportSays
<1>5. taken'[p] = Append(taken[p], n) /\ \A q \in Panes \ {p} : taken'[q] = taken[q]
  BY <1>1 DEF Write
<1> QED
  BY <1>4, <1>5 DEF Finishes, Says

\* Whatever word a pane's process hears, of its server, is a step of a pane.
LEMMA HandleSteps ==
    ASSUME TypesHold, NEW p \in Panes, Handle(p), NEW q \in Panes
    PROVE  Steps(q)
<1> DEFINE word == Head(toPane[p])
<1>1. /\ toPane \in [Panes -> Seq(WordsTo(Given))] /\ fromPane \in [Panes -> Seq(WordsFrom(Given))]
      /\ life \in [Panes -> {"runs", "ended", "closed", "gone"}]
      /\ bodies \in [Panes -> SUBSET Given] /\ awaiting \in [Panes -> SUBSET Given]
      /\ taken \in [Panes -> Seq(Given)]
      /\ toPane[p] # <<>> /\ toPane' = [toPane EXCEPT ![p] = Tail(@)]
  BY DEF TypesHold, PanesTyped, Handle
<1>2. word \in WordsTo(Given)
  BY <1>1, InTail
<1>3. word.say # "close" => word.n \in Given
  BY <1>2, WordsAre
<1> DEFINE Others == \A r \in Panes \ {p} : awaiting'[r] = awaiting[r] /\ taken'[r] = taken[r]
                                            /\ fromPane'[r] = fromPane[r]
<1>4. Handles(p) /\ Others
  <2>1. CASE word.say = "key" /\ HandleKey(p, word.n)
    <3>1. UNCHANGED <<awaiting, fromPane>>
      BY <2>1 DEF HandleKey
    <3>2. taken' = IF life[p] = "runs" THEN [taken EXCEPT ![p] = Append(@, word.n)] ELSE taken
      BY <2>1 DEF HandleKey, Write
    <3>3. Finishes(p, word.n)
      BY <1>1, <3>1, <3>2 DEF Finishes, Says
    <3> QED
      BY <1>1, <2>1, <3>1, <3>2, <3>3 DEF Handles, Typing
  <2>2. CASE word.say = "paste" /\ HandlePaste(p, word.n)
    <3>1. CASE life[p] # "runs"
      <4>1. UNCHANGED <<awaiting, fromPane, taken>>
        BY <2>2, <3>1 DEF HandlePaste
      <4>2. Finishes(p, word.n)
        BY <4>1 DEF Finishes, Says
      <4> QED
        BY <1>1, <2>2, <4>1, <4>2 DEF Handles, Typing
    <3>2. CASE life[p] = "runs" /\ word.n \in bodies[p]
      <4>1. Write(p, word.n) /\ Report(p, <<Word("retired", word.n)>>) /\ UNCHANGED awaiting
        BY <2>2, <3>2 DEF HandlePaste
      <4>2. Finishes(p, word.n) /\ Others
        BY <1>3, <2>2, <3>2, <4>1, PasteFinishes
      <4> QED
        BY <1>1, <2>2, <4>1, <4>2 DEF Handles, Typing
    <3>3. CASE life[p] = "runs" /\ word.n \notin bodies[p]
      <4>1. /\ awaiting' = [awaiting EXCEPT ![p] = @ \union {word.n}]
            /\ UNCHANGED <<taken, fromPane>>
        BY <2>2, <3>3 DEF HandlePaste
      <4> QED
        BY <1>1, <2>2, <4>1 DEF Handles, Typing, Says
    <3> QED
      BY <3>1, <3>2, <3>3
  <2>3. CASE word.say = "keys" /\ HandleKeys(p, word.n)
    <3>1. CASE word.n \in bodies[p]
      <4>1. KeysCome(p, word.n) /\ UNCHANGED awaiting
        BY <2>3, <3>1 DEF HandleKeys
      <4>2. Finishes(p, word.n) /\ Others
        BY <1>3, <2>3, <4>1, KeysFinish
      <4> QED
        BY <1>1, <2>3, <4>1, <4>2 DEF Handles, Typing
    <3>2. CASE word.n \notin bodies[p]
      <4>1. /\ awaiting' = [awaiting EXCEPT ![p] = @ \union {word.n}]
            /\ UNCHANGED <<taken, fromPane>>
        BY <2>3, <3>2 DEF HandleKeys
      <4> QED
        BY <1>1, <2>3, <4>1 DEF Handles, Typing, Says
    <3> QED
      BY <3>1, <3>2
  <2>4. CASE word.say = "drop" /\ HandleDrop(p, word.n)
    <3>1. awaiting' = [awaiting EXCEPT ![p] = @ \ {word.n}] /\ UNCHANGED taken
      BY <2>4 DEF HandleDrop
    <3>2. Says(p, {Word("unsure", word.n)})
          /\ \A r \in Panes \ {p} : fromPane'[r] = fromPane[r]
      <4> DEFINE words == <<Word("unsure", word.n)>>
      <4>1. UNCHANGED fromPane \/ Report(p, words)
        BY <2>4 DEF HandleDrop
      <4>2. words \in Seq(WordsFrom(Given)) /\ ToSet(words) = {Word("unsure", word.n)}
        BY <1>3, <2>4, WordsAre, InShort
      <4> HIDE DEF words
      <4> QED
        BY <4>1, <4>2, ReportSays DEF Says
    <3> QED
      BY <1>1, <2>4, <3>1, <3>2 DEF Handles, Typing
  <2>5. CASE word.say = "close" /\ HandleClose(p)
    <3>1. life'[p] = "closed" /\ UNCHANGED <<awaiting, taken, fromPane>>
      BY <1>1, <2>5 DEF HandleClose
    <3> QED
      BY <1>1, <2>5, <3>1 DEF Handles, Typing, Says
  <2> QED
    BY <2>1, <2>2, <2>3, <2>4, <2>5 DEF Handle
<1>5. CASE q = p
  BY <1>4, <1>5 DEF Steps
<1>6. CASE q # p
  BY <1>1, <1>4, <1>6 DEF Steps, Stays, Says
<1> QED
  BY <1>5, <1>6

\* So is a body that comes.
LEMMA BodySteps ==
    ASSUME TypesHold, NEW p \in Panes, NEW n \in Given, Body(p, n), NEW q \in Panes
    PROVE  Steps(q)
<1>1. awaiting \in [Panes -> SUBSET Given] /\ awaiting' = [awaiting EXCEPT ![p] = @ \ {n}]
      /\ UNCHANGED toPane
  BY DEF TypesHold, PanesTyped, Body
<1> DEFINE Others == \A r \in Panes \ {p} : taken'[r] = taken[r] /\ fromPane'[r] = fromPane[r]
<1>2. /\ Others
      /\ IF n \in awaiting[p] THEN Finishes(p, n)
         ELSE taken'[p] = taken[p] /\ fromPane'[p] = fromPane[p]
  <2>1. CASE n \in awaiting[p] /\ inputs[n].what = "keys"
    <3>1. KeysCome(p, n)
      BY <2>1 DEF Body
    <3> QED
      BY <2>1, <3>1, KeysFinish
  <2>2. CASE ~(n \in awaiting[p] /\ inputs[n].what = "keys")
             /\ n \in awaiting[p] /\ life[p] = "runs"
    <3>1. Write(p, n) /\ Report(p, <<Word("retired", n)>>)
      BY <2>2 DEF Body
    <3> QED
      BY <2>2, <3>1, PasteFinishes
  <2>3. CASE ~(n \in awaiting[p] /\ (inputs[n].what = "keys" \/ life[p] = "runs"))
    <3>1. UNCHANGED <<taken, fromPane>>
      BY <2>3 DEF Body
    <3> QED
      BY <3>1 DEF Finishes, Says
  <2> QED
    BY <2>1, <2>2, <2>3
<1>3. CASE q = p /\ n \in awaiting[p]
  BY <1>1, <1>2, <1>3 DEF Steps, Comes
<1>4. CASE q = p /\ n \notin awaiting[p]
  <2>1. awaiting'[p] = awaiting[p]
    BY <1>1, <1>4
  <2> QED
    BY <1>1, <1>2, <1>4, <2>1 DEF Steps, Stays, Says
<1>5. CASE q # p
  BY <1>1, <1>2, <1>5 DEF Steps, Stays, Says
<1> QED
  BY <1>3, <1>4, <1>5

\* So is its end.
LEMMA EndSteps ==
    ASSUME TypesHold, NEW p \in Panes, Finish(p) \/ Crash(p), NEW q \in Panes
    PROVE  Steps(q)
<1>1. /\ toPane \in [Panes -> Seq(WordsTo(Given))] /\ fromPane \in [Panes -> Seq(WordsFrom(Given))]
      /\ awaiting \in [Panes -> SUBSET Given]
      /\ life \in [Panes -> {"runs", "ended", "closed", "gone"}]
  BY DEF TypesHold, PanesTyped
<1>2. EndPane(p)
  BY DEF Finish, Crash
<1>3. Says(p, {}) /\ \A r \in Panes \ {p} : fromPane'[r] = fromPane[r]
  <2>1. CASE UNCHANGED fromPane
    BY <2>1 DEF Says
  <2>2. CASE \E k \in 0..Len(fromPane[p]) : fromPane' = [fromPane EXCEPT ![p] = SubSeq(@, 1, k)]
    BY <1>1, <2>2, InFirst DEF Says
  <2> QED
    BY <2>1, <2>2 DEF Finish, Crash
<1>4. /\ toPane'[p] = <<>> /\ awaiting'[p] = {} /\ life'[p] = "gone" /\ UNCHANGED taken
      /\ \A r \in Panes \ {p} : toPane'[r] = toPane[r] /\ awaiting'[r] = awaiting[r]
  BY <1>1, <1>2 DEF EndPane
<1>5. CASE q = p
  BY <1>3, <1>4, <1>5 DEF Steps, Ends
<1>6. CASE q # p
  BY <1>3, <1>4, <1>6 DEF Steps, Stays, Says
<1> QED
  BY <1>5, <1>6

\* Letting a connection go tells panes to drop, or leaves them.
LEMMA DropConnSteps ==
    ASSUME TypesHold, NEW c \in Conns, DropConn(c), NEW q \in Panes
    PROVE  Steps(q)
<1>1. UNCHANGED <<awaiting, taken, fromPane>>
  BY DEF DropConn, panes
<1>2. CASE link[q] = "up"
  <2>1. PICK drops \in Seq(WordsTo(Given)) :
           /\ toPane'[q] = toPane[q] \o drops
           /\ \A word \in ToSet(drops) : word.say = "drop"
    BY <1>2, Dropped
  <2>2. \A word \in ToSet(drops) : ~Typing(word)
    BY <2>1 DEF Typing
  <2> QED
    BY <1>1, <2>1, <2>2 DEF Steps, IsTold, Says
<1>3. CASE link[q] # "up"
  BY <1>1, <1>3, Dropped DEF Steps, Stays, Says
<1> QED
  BY <1>2, <1>3

\* Closing a pane tells it so, or leaves it.
LEMMA ClosePaneSteps ==
    ASSUME TypesHold, NEW p \in Panes, ClosePane(p), NEW q \in Panes
    PROVE  Steps(q)
<1>1. UNCHANGED <<awaiting, taken, fromPane>> /\ Tell({p}, Word("close", 0))
  BY DEF ClosePane, panes
<1>2. CASE q = p /\ link[q] = "up"
  <2> DEFINE words == <<Word("close", 0)>>
  <2>1. Word("close", 0) \in WordsTo(Given) /\ ~Typing(Word("close", 0))
    BY WordsAre DEF Typing, Word
  <2>2. words \in Seq(WordsTo(Given)) /\ ToSet(words) = {Word("close", 0)}
    BY <2>1, InShort
  <2>3. toPane[q] \in Seq(WordsTo(Given)) /\ toPane'[q] = Append(toPane[q], Word("close", 0))
    BY <1>1, <1>2 DEF Tell, TypesHold, PanesTyped
  <2>4. toPane'[q] = toPane[q] \o words
    BY <2>1, <2>3, AppendIsConcat
  <2> HIDE DEF words
  <2> QED
    BY <1>1, <2>1, <2>2, <2>4 DEF Steps, IsTold, Says
<1>3. CASE ~(q = p /\ link[q] = "up")
  BY <1>1, <1>3 DEF Tell, Steps, Stays, Says
<1> QED
  BY <1>2, <1>3

\* Every step is one of those to every pane, and leaves the inputs there are.
LEMMA NextSteps ==
    ASSUME TypesHold, [Next]_vars
    PROVE  /\ Given \subseteq Given' /\ \A n \in Given : inputs'[n] = inputs[n]
           /\ \A p \in Panes : Steps(p)
<1> DEFINE Goal == /\ Given \subseteq Given' /\ \A n \in Given : inputs'[n] = inputs[n]
                   /\ \A p \in Panes : Steps(p)
<1>1. ASSUME NEW c \in Typists, TypeKey(c) PROVE Goal
  <2>1. /\ Input(c, "key", {focus[c]}) /\ Tell({focus[c]}, Word("key", Len(inputs) + 1))
        /\ UNCHANGED <<awaiting, taken, fromPane>>
    BY <1>1 DEF TypeKey, panes
  <2>2. c \in Conns /\ {focus[c]} \in SUBSET Panes
    BY <1>1 DEF TypeKey, TypesHold, ServerTyped, Conns
  <2>3. \A p \in Panes : Steps(p)
    BY <2>1, <2>2, TellAsks
  <2> QED
    BY <2>1, <2>2, <2>3, MoreGiven
<1>2. ASSUME NEW c \in Typists, Paste(c) PROVE Goal
  <2>1. /\ Input(c, "paste", {focus[c]}) /\ Tell({focus[c]}, Word("paste", Len(inputs) + 1))
        /\ UNCHANGED <<awaiting, taken, fromPane>>
    BY <1>2 DEF Paste, panes
  <2>2. c \in Conns /\ {focus[c]} \in SUBSET Panes
    BY <1>2 DEF Paste, TypesHold, ServerTyped, Conns
  <2>3. \A p \in Panes : Steps(p)
    BY <2>1, <2>2, TellAsks
  <2> QED
    BY <2>1, <2>2, <2>3, MoreGiven
<1>3. ASSUME NEW c \in Askers, NEW to \in SUBSET Panes, SendKeys(c, to) PROVE Goal
  <2> DEFINE reached == {p \in to : link[p] = "up"}
  <2>1. /\ Input(c, "keys", to) /\ Tell(reached, Word("keys", Len(inputs) + 1))
        /\ UNCHANGED <<awaiting, taken, fromPane>>
    BY <1>3 DEF SendKeys, panes
  <2>2. c \in Conns /\ reached \subseteq to
    BY DEF Conns
  <2> HIDE DEF reached
  <2>3. \A p \in Panes : Steps(p)
    BY <2>1, <2>2, TellAsks
  <2> QED
    BY <2>1, <2>2, <2>3, MoreGiven
<1>4. ASSUME NEW c \in Conns, DropConn(c) PROVE Goal
  <2>1. UNCHANGED inputs
    BY <1>4 DEF DropConn
  <2> QED
    BY <1>4, <2>1, DropConnSteps DEF Given
<1>5. ASSUME NEW c \in Conns, Detach(c) \/ SendScene(c) \/ AnswerWait(c)
                               \/ HearServer(c) \/ EndConn(c)
      PROVE  Goal
  <2>1. UNCHANGED <<inputs, toPane, awaiting, taken, fromPane>>
    BY <1>5 DEF Detach, SendScene, AnswerWait, HearServer, EndConn, panes
  <2> QED
    BY <2>1, NoneSteps DEF Given
<1>6. ASSUME NEW c \in Conns, NEW p \in Panes, LookAt(c, p) \/ FlushSide(c, p)
      PROVE  Goal
  <2>1. UNCHANGED <<inputs, toPane, awaiting, taken, fromPane>>
    BY <1>6 DEF LookAt, FlushSide, panes
  <2> QED
    BY <2>1, NoneSteps DEF Given
<1>7. ASSUME NEW p, NEW n, FlushPost(p, n) PROVE Goal
  <2>1. UNCHANGED <<inputs, toPane, awaiting, taken, fromPane>>
    BY <1>7 DEF FlushPost, panes
  <2> QED
    BY <2>1, NoneSteps DEF Given
<1>8. ASSUME NEW p \in Panes, HearPane(p) PROVE Goal
  <2>1. UNCHANGED <<inputs, toPane, awaiting, taken>> /\ fromPane[p] # <<>>
        /\ fromPane' = [fromPane EXCEPT ![p] = Tail(@)]
    BY <1>8 DEF HearPane, panes
  <2>2. fromPane \in [Panes -> Seq(WordsFrom(Given))]
    BY DEF TypesHold, PanesTyped
  <2>3. ToSet(fromPane[p]) = {Head(fromPane[p])} \union ToSet(Tail(fromPane[p]))
    BY <2>1, <2>2, InTail
  <2>4. \A q \in Panes : ToSet(fromPane'[q]) \subseteq ToSet(fromPane[q])
    BY <2>1, <2>2, <2>3
  <2> QED
    BY <2>1, <2>4, NoneSteps
<1>9. ASSUME NEW p \in Panes, PaneGone(p) \/ Program(p) PROVE Goal
  <2>1. UNCHANGED <<inputs, toPane, awaiting, taken, fromPane>>
    BY <1>9 DEF PaneGone, Program, panes
  <2> QED
    BY <2>1, NoneSteps DEF Given
<1>10. ASSUME NEW p \in Panes, ClosePane(p) PROVE Goal
  <2>1. UNCHANGED inputs
    BY <1>10 DEF ClosePane
  <2> QED
    BY <1>10, <2>1, ClosePaneSteps DEF Given
<1>11. ASSUME NEW p \in Panes, Handle(p) PROVE Goal
  <2>1. UNCHANGED inputs
    BY <1>11 DEF Handle
  <2> QED
    BY <1>11, <2>1, HandleSteps DEF Given
<1>12. ASSUME NEW p \in Panes, Finish(p) \/ Crash(p) PROVE Goal
  <2>1. UNCHANGED inputs
    BY <1>12 DEF Finish, Crash, EndPane
  <2> QED
    BY <1>12, <2>1, EndSteps DEF Given
<1>13. ASSUME NEW p \in Panes, NEW n \in Given, Body(p, n) PROVE Goal
  <2>1. UNCHANGED inputs
    BY <1>13 DEF Body
  <2> QED
    BY <1>13, <2>1, BodySteps DEF Given
<1>14. ASSUME NEW p \in Panes, NEW c \in Conns, ReadSide(p, c) PROVE Goal
  BY <1>13, <1>14, ReadSideTyped DEF ReadSide
<1>15. ASSUME NEW p \in Panes, NEW bodiesLeft \in loose[p], ReadLoose(p, bodiesLeft) PROVE Goal
  BY <1>13, <1>15, ReadLooseTyped DEF ReadLoose
<1> SUFFICES Goal
  OBVIOUS
<1>16. CASE UNCHANGED vars
  <2>1. UNCHANGED <<inputs, toPane, awaiting, taken, fromPane>>
    BY <1>16 DEF vars, panes
  <2> QED
    BY <2>1, NoneSteps DEF Given
<1> HIDE DEF Goal
<1>17. CASE Server
  <2>1. CASE \E c \in Typists : TypeKey(c) \/ Paste(c) \/ Detach(c) \/ SendScene(c)
                                \/ \E p \in Panes : LookAt(c, p)
    BY <1>1, <1>2, <1>5, <1>6, <2>1 DEF Conns
  <2>2. CASE \E c \in Askers, to \in (SUBSET Panes) \ {{}} : SendKeys(c, to)
    BY <1>3, <2>2
  <2>3. CASE \E c \in Conns : AnswerWait(c) \/ DropConn(c)
    BY <1>4, <1>5, <2>3
  <2>4. CASE \E p \in Panes : HearPane(p) \/ PaneGone(p) \/ ClosePane(p)
    BY <1>8, <1>9, <1>10, <2>4
  <2> QED
    BY <1>17, <2>1, <2>2, <2>3, <2>4 DEF Server
<1>18. CASE Connection
  BY <1>5, <1>6, <1>7, <1>18 DEF Connection, Close, Die
<1>19. CASE Pane
  BY <1>9, <1>11, <1>12, <1>14, <1>15, <1>19 DEF Pane
<1> QED
  BY <1>16, <1>17, <1>18, <1>19 DEF Next

-----------------------------------------------------------------------------
(* What panes type, and say of it.                                         *)

\* What a pane holds, as sets.
LEMMA HeldTyped ==
    ASSUME TypesHold, NEW p \in Panes
    PROVE  /\ toPane[p] \in Seq(WordsTo(Given)) /\ ToSet(toPane[p]) \subseteq WordsTo(Given)
           /\ fromPane[p] \in Seq(WordsFrom(Given)) /\ ToSet(fromPane[p]) \subseteq WordsFrom(Given)
           /\ taken[p] \in Seq(Given) /\ ToSet(taken[p]) \subseteq Given
           /\ awaiting[p] \subseteq Given
           /\ Given \subseteq Nat /\ Len(inputs) \in Nat /\ Len(inputs) + 1 \notin Given
           /\ \A n \in Given : n < Len(inputs) + 1
<1>1. Len(inputs) \in Nat
  BY LenProperties DEF TypesHold
<1> QED
  BY <1>1, InSeq DEF TypesHold, PanesTyped, Given

\* The words a pane is told keep their order.
LEMMA RiseKept ==
    ASSUME TypesHold, NEW p \in Panes, Steps(p), WordsRise(p)
    PROVE  WordsRise(p)'
<1>1. CASE toPane'[p] = toPane[p]
  BY <1>1 DEF WordsRise
<1>2. CASE IsTold(p)
  <2>1. PICK words \in Seq(WordsTo(Given)) :
          toPane'[p] = toPane[p] \o words /\ \A word \in ToSet(words) : ~Typing(word)
    BY <1>2 DEF IsTold
  <2>2. /\ Len(toPane'[p]) = Len(toPane[p]) + Len(words)
        /\ DOMAIN toPane'[p] = 1..(Len(toPane[p]) + Len(words))
        /\ \A i \in 1..(Len(toPane[p]) + Len(words)) :
              toPane'[p][i] = IF i <= Len(toPane[p]) THEN toPane[p][i]
                              ELSE words[i - Len(toPane[p])]
        /\ DOMAIN toPane[p] = 1..Len(toPane[p]) /\ DOMAIN words = 1..Len(words)
        /\ Len(toPane[p]) \in Nat /\ Len(words) \in Nat
    BY <2>1, HeldTyped, ConcatProperties, LenProperties
  <2>3. \A i \in 1..Len(words) : ~Typing(words[i])
    BY <2>1, <2>2 DEF ToSet
  <2>4. \A j \in DOMAIN toPane'[p] : Typing(toPane'[p][j]) => j <= Len(toPane[p])
    BY <2>2, <2>3
  <2> QED
    BY <2>2, <2>4 DEF WordsRise
<1>3. CASE IsAsked(p)
  <2>1. PICK word \in WordsTo(Given') :
          toPane'[p] = Append(toPane[p], word) /\ word.n = Len(inputs) + 1
    BY <1>3 DEF IsAsked
  <2>2. /\ DOMAIN toPane'[p] = 1..(Len(toPane[p]) + 1)
        /\ \A i \in 1..Len(toPane[p]) : toPane'[p][i] = toPane[p][i]
        /\ toPane'[p][Len(toPane[p]) + 1] = word
        /\ DOMAIN toPane[p] = 1..Len(toPane[p]) /\ Len(toPane[p]) \in Nat
    BY <2>1, HeldTyped, LenProperties
  <2>3. \A i \in 1..Len(toPane[p]) : toPane[p][i].n \in Given \union {0}
    BY <2>2, HeldTyped, ElementOfSeq, WordsAre
  <2>4. \A i \in 1..Len(toPane[p]) : toPane[p][i].n < word.n
    BY <2>1, <2>3, HeldTyped
  <2> QED
    BY <2>2, <2>4 DEF WordsRise
<1>4. CASE Handles(p)
  <2>1. toPane[p] # <<>> /\ toPane'[p] = Tail(toPane[p])
    BY <1>4 DEF Handles
  <2>2. /\ \A i \in DOMAIN toPane'[p] :
              i + 1 \in DOMAIN toPane[p] /\ toPane'[p][i] = toPane[p][i + 1]
        /\ DOMAIN toPane'[p] \subseteq Int
    BY <2>1, HeldTyped, InTail, InSeq
  <2> QED
    BY <2>2 DEF WordsRise
<1>5. CASE Ends(p)
  BY <1>5 DEF Ends, WordsRise
<1> QED
  BY <1>1, <1>2, <1>3, <1>4, <1>5 DEF Steps, Stays, Comes

\* A pane that handles its next word has the others before it, which are
\* of later inputs if they type.
LEMMA NextWord ==
    ASSUME TypesHold, NEW p \in Panes, Handles(p), WordsRise(p)
    PROVE  /\ ToSet(toPane[p]) = {Head(toPane[p])} \union ToSet(toPane'[p])
           /\ Head(toPane[p]) \in WordsTo(Given)
           /\ \A word \in ToSet(toPane'[p]) : Typing(word) => Head(toPane[p]).n < word.n
<1>1. toPane[p] # <<>> /\ toPane'[p] = Tail(toPane[p]) /\ toPane[p] \in Seq(WordsTo(Given))
  BY HeldTyped DEF Handles
<1>2. /\ Head(toPane[p]) = toPane[p][1] /\ Head(toPane[p]) \in WordsTo(Given)
      /\ ToSet(toPane[p]) = {Head(toPane[p])} \union ToSet(toPane'[p])
      /\ \A i \in DOMAIN toPane'[p] :
            i + 1 \in DOMAIN toPane[p] /\ toPane'[p][i] = toPane[p][i + 1]
  BY <1>1, InTail
<1>3. DOMAIN toPane[p] = 1..Len(toPane[p]) /\ 1 \in DOMAIN toPane[p]
      /\ DOMAIN toPane'[p] \subseteq Nat \ {0}
  <2>1. Len(toPane[p]) \in Nat \ {0} /\ DOMAIN toPane[p] = 1..Len(toPane[p])
    BY <1>1, EmptySeq, LenProperties
  <2>2. toPane'[p] \in Seq(WordsTo(Given))
    BY <1>1, InTail
  <2>3. DOMAIN toPane'[p] = 1..Len(toPane'[p]) /\ Len(toPane'[p]) \in Nat
    BY <2>2, LenProperties
  <2> QED
    BY <2>1, <2>3
<1>4. \A i \in DOMAIN toPane'[p] : Typing(toPane'[p][i]) => Head(toPane[p]).n < toPane'[p][i].n
  BY <1>2, <1>3 DEF WordsRise
<1> QED
  BY <1>2, <1>4 DEF ToSet

\* A new word is put after those there are.
LEMMA AskedIn ==
    ASSUME NEW s, NEW S, s \in Seq(S), NEW e
    PROVE  ToSet(Append(s, e)) = ToSet(s) \union {e}
<1>1. s \in Seq(S \union {e})
  BY SeqMonotonic
<1> QED
  BY <1>1, InAppended

\* What is typed as a pane is done with an input.
LEMMA FinishesTaken ==
    ASSUME TypesHold, NEW p \in Panes, NEW n \in Given, Finishes(p, n)
    PROVE  \/ /\ life[p] = "runs" /\ ToSet(taken'[p]) = ToSet(taken[p]) \union {n}
              /\ Says(p, {Word("retired", n), Word("acted", n)})
           \/ /\ ToSet(taken'[p]) = ToSet(taken[p])
              /\ Says(p, {Word("retired", n), Word("refused", n)})
BY HeldTyped, InAppended DEF Finishes

\* What a step settles: nothing old is to be typed that was not to be, what is
\* typed was to be, by a program that runs, and is no more.
Settles(p, n) ==
    /\ Pending(p, n)' => Pending(p, n)
    /\ n \in ToSet(taken[p]) => n \in ToSet(taken'[p])
    /\ n \in ToSet(taken'[p]) \ ToSet(taken[p]) =>
          Pending(p, n) /\ ~Pending(p, n)' /\ life[p] = "runs"

\* What a pane's step does to one input: typed once, and then pending no more.
LEMMA StepsSettle ==
    ASSUME TypesHold, NEW p \in Panes, Steps(p), WordsRise(p), NewestLast(p), NEW n \in Given
    PROVE  Settles(p, n)
<1>1. CASE Stays(p)
  BY <1>1 DEF Stays, Settles, Pending
<1>2. CASE IsTold(p)
  <2>1. PICK words \in Seq(WordsTo(Given)) :
          toPane'[p] = toPane[p] \o words /\ \A word \in ToSet(words) : ~Typing(word)
    BY <1>2 DEF IsTold
  <2>2. ToSet(toPane'[p]) = ToSet(toPane[p]) \union ToSet(words)
    BY <2>1, HeldTyped, InBoth
  <2> QED
    BY <1>2, <2>1, <2>2 DEF IsTold, Settles, Pending
<1>3. CASE IsAsked(p)
  <2>1. PICK word \in WordsTo(Given') :
          toPane'[p] = Append(toPane[p], word) /\ word.n = Len(inputs) + 1
    BY <1>3 DEF IsAsked
  <2>2. ToSet(toPane'[p]) = ToSet(toPane[p]) \union {word}
    BY <2>1, HeldTyped, AskedIn
  <2> QED
    BY <1>3, <2>1, <2>2, HeldTyped DEF IsAsked, Settles, Pending
<1>4. CASE Handles(p)
  <2> DEFINE word == Head(toPane[p])
  <2>1. /\ ToSet(toPane[p]) = {word} \union ToSet(toPane'[p])
        /\ word \in WordsTo(Given)
        /\ \A later \in ToSet(toPane'[p]) : Typing(later) => word.n < later.n
    BY <1>4, NextWord
  <2>2. CASE ~Typing(word) /\ awaiting'[p] \subseteq awaiting[p] /\ taken'[p] = taken[p]
    BY <2>1, <2>2 DEF Settles, Pending
  <2>3. CASE /\ Typing(word)
             /\ awaiting'[p] = awaiting[p] \union {word.n} /\ taken'[p] = taken[p]
    BY <2>1, <2>3 DEF Settles, Pending
  <2>4. CASE Typing(word) /\ awaiting'[p] = awaiting[p] /\ Finishes(p, word.n)
    <3>1. PICK k \in Given : k = word.n /\ k \in Nat
      BY <2>1, <2>4, WordsAre, HeldTyped DEF Typing
    <3>2. k \notin awaiting[p]
      BY <2>1, <2>4, <3>1 DEF NewestLast
    <3>3. \A later \in ToSet(toPane'[p]) : Typing(later) => later.n # k
      BY <2>1, <3>1
    <3>4. ~Pending(p, k)' /\ Pending(p, k)
      BY <2>1, <2>4, <3>1, <3>2, <3>3 DEF Pending
    <3>5. Pending(p, n)' => Pending(p, n)
      BY <2>1, <2>4 DEF Pending
    <3>6. ToSet(taken'[p]) = ToSet(taken[p])
          \/ (life[p] = "runs" /\ ToSet(taken'[p]) = ToSet(taken[p]) \union {k})
      BY <2>4, <3>1, FinishesTaken
    <3> QED
      BY <3>4, <3>5, <3>6 DEF Settles
  <2> QED
    BY <1>4, <2>2, <2>3, <2>4 DEF Handles
<1>5. CASE Comes(p)
  <2>1. PICK k \in awaiting[p] : awaiting'[p] = awaiting[p] \ {k} /\ Finishes(p, k)
    BY <1>5 DEF Comes
  <2>2. k \in Given /\ k \in Nat /\ toPane'[p] = toPane[p]
    BY <1>5, <2>1, HeldTyped DEF Comes
  <2>3. ~\E word \in ToSet(toPane[p]) : Typing(word) /\ word.n = k
    BY <2>1, <2>2 DEF NewestLast
  <2>4. ~Pending(p, k)' /\ Pending(p, k)
    BY <2>1, <2>2, <2>3 DEF Pending
  <2>5. Pending(p, n)' => Pending(p, n)
    BY <2>1, <2>2 DEF Pending
  <2>6. ToSet(taken'[p]) = ToSet(taken[p])
        \/ (life[p] = "runs" /\ ToSet(taken'[p]) = ToSet(taken[p]) \union {k})
    BY <2>1, <2>2, FinishesTaken
  <2> QED
    BY <2>4, <2>5, <2>6 DEF Settles
<1>6. CASE Ends(p)
  <2>1. ToSet(toPane'[p]) = {}
    BY <1>6, InSeq DEF Ends, ToSet
  <2> QED
    BY <1>6, <2>1 DEF Ends, Settles, Pending
<1> QED
  BY <1>1, <1>2, <1>3, <1>4, <1>5, <1>6 DEF Steps

\* What is to be typed is newer than what was, and is typed once.
LEMMA NewestKept ==
    ASSUME TypesHold, NEW p \in Panes, Steps(p), WordsRise(p), NewestLast(p)
    PROVE  NewestLast(p)'
<1>1. CASE Stays(p)
  BY <1>1 DEF Stays, NewestLast
<1>2. CASE IsTold(p)
  <2>1. PICK words \in Seq(WordsTo(Given)) :
          toPane'[p] = toPane[p] \o words /\ \A word \in ToSet(words) : ~Typing(word)
    BY <1>2 DEF IsTold
  <2>2. ToSet(toPane'[p]) = ToSet(toPane[p]) \union ToSet(words)
    BY <2>1, HeldTyped, InBoth
  <2> QED
    BY <1>2, <2>1, <2>2 DEF IsTold, NewestLast
<1>3. CASE IsAsked(p)
  <2>1. PICK word \in WordsTo(Given') :
          toPane'[p] = Append(toPane[p], word) /\ word.n = Len(inputs) + 1
    BY <1>3 DEF IsAsked
  <2>2. ToSet(toPane'[p]) = ToSet(toPane[p]) \union {word}
    BY <2>1, HeldTyped, AskedIn
  <2>3. \A k \in awaiting[p] \union ToSet(taken[p]) : k < word.n
    BY <2>1, HeldTyped
  <2> QED
    BY <1>3, <2>2, <2>3 DEF IsAsked, NewestLast
<1>4. CASE Handles(p)
  <2> DEFINE word == Head(toPane[p])
  <2>1. /\ ToSet(toPane[p]) = {word} \union ToSet(toPane'[p])
        /\ word \in WordsTo(Given)
        /\ \A later \in ToSet(toPane'[p]) : Typing(later) => word.n < later.n
    BY <1>4, NextWord
  <2>2. CASE ~Typing(word) /\ awaiting'[p] \subseteq awaiting[p] /\ taken'[p] = taken[p]
    BY <2>1, <2>2 DEF NewestLast
  <2>3. CASE /\ Typing(word)
             /\ awaiting'[p] = awaiting[p] \union {word.n} /\ taken'[p] = taken[p]
    <3>1. word.n \in Given /\ word.n \in Nat
      BY <2>1, <2>3, WordsAre, HeldTyped DEF Typing
    <3>2. word.n \notin ToSet(taken[p])
      BY <2>1, <2>3, <3>1 DEF NewestLast
    <3> QED
      BY <2>1, <2>3, <3>2 DEF NewestLast
  <2>4. CASE Typing(word) /\ awaiting'[p] = awaiting[p] /\ Finishes(p, word.n)
    <3>1. word.n \in Given
      BY <2>1, <2>4, WordsAre DEF Typing
    <3>2. word.n \notin awaiting[p]
      BY <2>1, <2>4, <3>1, HeldTyped DEF NewestLast
    <3>3. ToSet(taken'[p]) \subseteq ToSet(taken[p]) \union {word.n}
      BY <2>4, <3>1, FinishesTaken
    <3> QED
      BY <2>1, <2>4, <3>2, <3>3 DEF NewestLast
  <2> QED
    BY <1>4, <2>2, <2>3, <2>4 DEF Handles
<1>5. CASE Comes(p)
  <2>1. PICK k \in awaiting[p] : awaiting'[p] = awaiting[p] \ {k} /\ Finishes(p, k)
    BY <1>5 DEF Comes
  <2>2. k \in Given /\ toPane'[p] = toPane[p]
    BY <1>5, <2>1, HeldTyped DEF Comes
  <2>3. ToSet(taken'[p]) \subseteq ToSet(taken[p]) \union {k}
    BY <2>1, <2>2, FinishesTaken
  <2> QED
    BY <2>1, <2>2, <2>3 DEF NewestLast
<1>6. CASE Ends(p)
  <2>1. ToSet(toPane'[p]) = {}
    BY <1>6, InSeq DEF Ends, ToSet
  <2> QED
    BY <1>6, <2>1 DEF Ends, NewestLast
<1> QED
  BY <1>1, <1>2, <1>3, <1>4, <1>5, <1>6 DEF Steps

\* And is what it is for.
LEMMA AskedKept ==
    ASSUME TypesHold, NEW p \in Panes, Steps(p), WordsRise(p), AsAsked(p),
           \A n \in Given : inputs'[n] = inputs[n]
    PROVE  AsAsked(p)'
<1>0. \A word \in ToSet(toPane[p]) : Typing(word) => word.n \in Given
  BY HeldTyped, WordsAre DEF Typing
<1>1. CASE Stays(p)
  BY <1>0, <1>1, HeldTyped DEF Stays, AsAsked
<1>2. CASE IsTold(p)
  <2>1. PICK words \in Seq(WordsTo(Given)) :
          toPane'[p] = toPane[p] \o words /\ \A word \in ToSet(words) : ~Typing(word)
    BY <1>2 DEF IsTold
  <2>2. ToSet(toPane'[p]) = ToSet(toPane[p]) \union ToSet(words)
    BY <2>1, HeldTyped, InBoth
  <2> QED
    BY <1>0, <1>2, <2>1, <2>2, HeldTyped DEF IsTold, AsAsked
<1>3. CASE IsAsked(p)
  <2>1. PICK word \in WordsTo(Given') :
          /\ toPane'[p] = Append(toPane[p], word)
          /\ inputs'[word.n].what = word.say /\ p \in inputs'[word.n].to
    BY <1>3 DEF IsAsked
  <2>2. ToSet(toPane'[p]) = ToSet(toPane[p]) \union {word}
    BY <2>1, HeldTyped, AskedIn
  <2> QED
    BY <1>0, <1>3, <2>1, <2>2, HeldTyped DEF IsAsked, AsAsked
<1>4. CASE Handles(p)
  <2> DEFINE word == Head(toPane[p])
  <2>1. ToSet(toPane[p]) = {word} \union ToSet(toPane'[p])
    BY <1>4, NextWord
  <2>2. \/ awaiting'[p] \subseteq awaiting[p]
        \/ /\ Typing(word) /\ word.say # "key"
           /\ awaiting'[p] = awaiting[p] \union {word.n}
    BY <1>4 DEF Handles
  <2>3. \A later \in ToSet(toPane'[p]) : Typing(later) =>
           inputs'[later.n].what = later.say /\ p \in inputs'[later.n].to
    BY <1>0, <2>1 DEF AsAsked
  <2>4. \A n \in awaiting'[p] : inputs'[n].what # "key" /\ p \in inputs'[n].to
    BY <1>0, <2>1, <2>2, HeldTyped DEF AsAsked
  <2> QED
    BY <2>3, <2>4 DEF AsAsked
<1>5. CASE Comes(p)
  <2>1. awaiting'[p] \subseteq awaiting[p] /\ toPane'[p] = toPane[p]
    BY <1>5 DEF Comes
  <2> QED
    BY <1>0, <2>1, HeldTyped DEF AsAsked
<1>6. CASE Ends(p)
  <2>1. ToSet(toPane'[p]) = {}
    BY <1>6, InSeq DEF Ends, ToSet
  <2> QED
    BY <1>6, <2>1 DEF Ends, AsAsked
<1> QED
  BY <1>1, <1>2, <1>3, <1>4, <1>5, <1>6 DEF Steps

\* What was said of an input stays so.
LEMMA HonestStays ==
    ASSUME NEW p \in Panes, NEW n, NEW says, Settles(p, n), Honest(p, n, says),
           inputs'[n] = inputs[n]
    PROVE  Honest(p, n, says)'
BY DEF Settles, Honest

\* What is said as an input is done with is so.
LEMMA FinishesHonest ==
    ASSUME TypesHold, NEW p \in Panes, NEW n \in Given, Finishes(p, n), ~Pending(p, n)',
           n \notin ToSet(taken[p]), p \in inputs[n].to, inputs'[n] = inputs[n],
           NEW word \in ToSet(fromPane'[p])
    PROVE  word \in ToSet(fromPane[p]) \/ Honest(p, word.n, word.say)'
<1>1. CASE /\ ToSet(taken'[p]) = ToSet(taken[p]) \union {n}
           /\ word \in {Word("retired", n), Word("acted", n)}
  <2>1. word.n = n /\ word.say \in {"retired", "acted"}
    BY <1>1 DEF Word
  <2> QED
    BY <1>1, <2>1 DEF Honest
<1>2. CASE /\ ToSet(taken'[p]) = ToSet(taken[p])
           /\ word \in {Word("retired", n), Word("refused", n)}
  <2>1. word.n = n /\ word.say \in {"retired", "refused"}
    BY <1>2 DEF Word
  <2> QED
    BY <1>2, <2>1 DEF Honest
<1> QED
  BY <1>1, <1>2, FinishesTaken DEF Says

\* What a pane says is so as it says it, and stays so.
LEMMA WordsHonest ==
    ASSUME TypesHold, NEW p \in Panes, Steps(p), WordsRise(p), NewestLast(p), AsAsked(p),
           \A n \in Given : inputs'[n] = inputs[n],
           \A word \in ToSet(fromPane[p]) : Honest(p, word.n, word.say)
    PROVE  \A word \in ToSet(fromPane'[p]) : Honest(p, word.n, word.say)'
<1> SUFFICES ASSUME NEW word \in ToSet(fromPane'[p]) PROVE Honest(p, word.n, word.say)'
  OBVIOUS
<1>1. CASE word \in ToSet(fromPane[p])
  <2>1. word.n \in Given
    BY <1>1, HeldTyped, WordsAre
  <2>2. Settles(p, word.n) /\ inputs'[word.n] = inputs[word.n]
    BY <2>1, StepsSettle
  <2> QED
    BY <1>1, <2>2, HonestStays
<1>2. CASE word = Word("unsure", word.n)
  <2>1. word.say = "unsure"
    BY <1>2 DEF Word
  <2> QED
    BY <2>1 DEF Honest
<1>3. CASE Says(p, {})
  BY <1>1, <1>3 DEF Says
<1>4. CASE Handles(p)
  <2> DEFINE head == Head(toPane[p])
  <2>1. /\ ToSet(toPane[p]) = {head} \union ToSet(toPane'[p])
        /\ head \in WordsTo(Given)
        /\ \A later \in ToSet(toPane'[p]) : Typing(later) => head.n < later.n
    BY <1>4, NextWord
  <2>2. CASE Says(p, {Word("unsure", head.n)})
    <3>1. CASE word = Word("unsure", head.n)
      <4>1. word = Word("unsure", word.n)
        BY <3>1 DEF Word
      <4> QED
        BY <1>2, <4>1
    <3> QED
      BY <1>1, <2>2, <3>1 DEF Says
  <2>3. CASE Typing(head) /\ awaiting'[p] = awaiting[p] /\ Finishes(p, head.n)
    <3>1. PICK k \in Given : k = head.n /\ k \in Nat
      BY <2>1, <2>3, WordsAre, HeldTyped DEF Typing
    <3>2. k \notin awaiting[p] /\ k \notin ToSet(taken[p]) /\ p \in inputs[k].to
      BY <2>1, <2>3, <3>1 DEF NewestLast, AsAsked
    <3>3. \A later \in ToSet(toPane'[p]) : Typing(later) => later.n # k
      BY <2>1, <3>1
    <3>4. ~Pending(p, k)'
      BY <2>3, <3>2, <3>3 DEF Pending
    <3> QED
      BY <1>1, <2>3, <3>1, <3>2, <3>4, FinishesHonest
  <2> QED
    BY <1>3, <1>4, <2>2, <2>3 DEF Handles
<1>5. CASE Comes(p)
  <2>1. PICK k \in awaiting[p] : awaiting'[p] = awaiting[p] \ {k} /\ Finishes(p, k)
    BY <1>5 DEF Comes
  <2>2. k \in Given /\ k \in Nat /\ toPane'[p] = toPane[p]
    BY <1>5, <2>1, HeldTyped DEF Comes
  <2>3. ~Pending(p, k)'
    BY <2>1, <2>2 DEF NewestLast, Pending
  <2>4. k \notin ToSet(taken[p]) /\ p \in inputs[k].to
    BY <2>1 DEF NewestLast, AsAsked
  <2> QED
    BY <1>1, <2>1, <2>2, <2>3, <2>4, FinishesHonest
<1> QED
  BY <1>3, <1>4, <1>5 DEF Steps, Stays, IsTold, IsAsked, Ends

\* Every step keeps panes' words in order, for them and honest.
LEMMA PanesSoundKept ==
    ASSUME TypesHold, PanesSound, [Next]_vars
    PROVE  PanesSound'
<1>1. /\ \A n \in Given : inputs'[n] = inputs[n]
      /\ \A p \in Panes : Steps(p)
  BY NextSteps
<1> SUFFICES ASSUME NEW p \in Panes
             PROVE  /\ WordsRise(p)' /\ NewestLast(p)' /\ AsAsked(p)'
                    /\ \A word \in ToSet(fromPane'[p]) : Honest(p, word.n, word.say)'
  BY DEF PanesSound
<1>2. /\ Steps(p) /\ WordsRise(p) /\ NewestLast(p) /\ AsAsked(p)
      /\ \A word \in ToSet(fromPane[p]) : Honest(p, word.n, word.say)
  BY <1>1 DEF PanesSound
<1> QED
  BY <1>1, <1>2, RiseKept, NewestKept, AskedKept, WordsHonest

-----------------------------------------------------------------------------
(* What the server was answered.                                           *)

\* The server does nothing as a connection's or a pane's process does.
LEMMA ServerStays ==
    ASSUME Connection \/ Pane \/ UNCHANGED vars
    PROVE  UNCHANGED server
<1>1. CASE Connection
  BY <1>1 DEF Connection, HearServer, Close, Die, EndConn, FlushSide, FlushPost
<1>2. CASE Pane
  BY <1>2 DEF Pane, Handle, Program, Finish, Crash, EndPane, ReadSide, ReadLoose, Body
<1> QED
  BY <1>1, <1>2 DEF vars

\* A reply to an asker is honest still.
LEMMA ReplyStays ==
    ASSUME TypesHold, PanesSound, [Next]_vars, NEW reply \in Replies(Given),
           Honest(reply.pane, reply.n, reply.says)
    PROVE  Honest(reply.pane, reply.n, reply.says)'
<1>1. reply.pane \in Panes /\ reply.n \in Given
  BY DEF Replies
<1>2. Settles(reply.pane, reply.n) /\ inputs'[reply.n] = inputs[reply.n]
  BY <1>1, NextSteps, StepsSettle DEF PanesSound
<1> QED
  BY <1>1, <1>2, HonestStays

\* Nothing is said of an input as it is taken that is not so.
LEMMA RefusedAtOnce ==
    ASSUME TypesHold, NEW c \in Askers, NEW to \in SUBSET Panes, SendKeys(c, to),
           NEW p \in to, link[p] # "up", NEW n, n = Len(inputs) + 1
    PROVE  Honest(p, n, "refused")'
<1>1. c \in Conns
  BY DEF Conns
<1>2. Input(c, "keys", to) /\ UNCHANGED <<awaiting, taken>>
  BY DEF SendKeys, panes
<1>3. p \in inputs'[n].to
  <2>1. inputs'[n] = [from |-> c, what |-> "keys", to |-> to]
    BY <1>1, <1>2, MoreGiven
  <2> QED
    BY <2>1
<1>4. n \notin awaiting[p] /\ n \notin ToSet(taken[p])
  BY HeldTyped
<1>5. toPane'[p] = toPane[p]
  BY DEF SendKeys, Tell
<1>6. ~\E word \in ToSet(toPane[p]) : Typing(word) /\ word.n = n
  BY HeldTyped, WordsAre DEF Typing
<1> QED
  BY <1>2, <1>3, <1>4, <1>5, <1>6 DEF Honest, Pending

\* Every step keeps the server's answers honest.
LEMMA RepliesKept ==
    ASSUME TypesHold, PanesSound, RepliesSound, [Next]_vars
    PROVE  RepliesSound'
<1>1. answers \union replied \subseteq Replies(Given)
  BY DEF TypesHold, ServerTyped
<1>2. ASSUME NEW reply \in answers \union replied
      PROVE  Honest(reply.pane, reply.n, reply.says)'
  BY <1>1, <1>2, ReplyStays DEF RepliesSound
<1>3. ASSUME NEW reply, reply.says = "unsure"
      PROVE  Honest(reply.pane, reply.n, reply.says)'
  BY <1>3 DEF Honest
<1> SUFFICES ASSUME NEW reply \in answers' \union replied',
                    reply \notin answers \union replied, reply.says # "unsure"
             PROVE  Honest(reply.pane, reply.n, reply.says)'
  BY <1>2, <1>3 DEF RepliesSound
<1>4. ASSUME NEW c \in Askers, NEW to \in SUBSET Panes, SendKeys(c, to)
      PROVE  Honest(reply.pane, reply.n, reply.says)'
  <2>1. PICK p \in to : link[p] # "up"
                        /\ reply = [pane |-> p, n |-> Len(inputs) + 1, says |-> "refused"]
    BY <1>4 DEF SendKeys
  <2>2. reply.pane = p /\ reply.n = Len(inputs) + 1 /\ reply.says = "refused"
    BY <2>1
  <2>3. Honest(p, reply.n, "refused")'
    BY <1>4, <2>1, <2>2, RefusedAtOnce
  <2> QED
    BY <2>2, <2>3
<1>5. ASSUME NEW p \in Panes, HearPane(p)
      PROVE  Honest(reply.pane, reply.n, reply.says)'
  <2> DEFINE word == Head(fromPane[p])
  <2>1. reply = [pane |-> p, n |-> word.n, says |-> word.say]
    BY <1>5 DEF HearPane
  <2>2. fromPane[p] # <<>>
    BY <1>5 DEF HearPane
  <2>3. word \in ToSet(fromPane[p])
    BY <2>2, HeldTyped, InTail
  <2>4. Honest(p, word.n, word.say) /\ word.n \in Given
    BY <2>3, HeldTyped, WordsAre DEF PanesSound
  <2>5. PICK k, say : k \in Given /\ k = word.n /\ say = word.say /\ Honest(p, k, say)
    BY <2>4
  <2>6. Settles(p, k) /\ inputs'[k] = inputs[k]
    BY <2>5, NextSteps, StepsSettle DEF PanesSound
  <2>7. Honest(p, k, say)'
    BY <2>5, <2>6, HonestStays
  <2>8. reply.pane = p /\ reply.n = k /\ reply.says = say
    BY <2>1, <2>5
  <2> QED
    BY <2>7, <2>8
<1>6. ASSUME NEW c \in Conns, AnswerWait(c) \/ DropConn(c) PROVE FALSE
  BY <1>6 DEF AnswerWait, DropConn
<1>7. ASSUME NEW p \in Panes, PaneGone(p) PROVE FALSE
  BY <1>7 DEF PaneGone
<1>8. CASE UNCHANGED <<answers, replied>>
  BY <1>8
<1>9. CASE Server
  <2>1. CASE \E c \in Typists : TypeKey(c) \/ Paste(c) \/ Detach(c) \/ SendScene(c)
                                \/ \E p \in Panes : LookAt(c, p)
    BY <1>8, <2>1 DEF TypeKey, Paste, Detach, SendScene, LookAt, server
  <2>2. CASE \E c \in Askers, to \in (SUBSET Panes) \ {{}} : SendKeys(c, to)
    BY <1>4, <2>2
  <2>3. CASE \E c \in Conns : AnswerWait(c) \/ DropConn(c)
    BY <1>6, <2>3
  <2>4. CASE \E p \in Panes : HearPane(p) \/ PaneGone(p) \/ ClosePane(p)
    BY <1>5, <1>7, <1>8, <2>4 DEF ClosePane
  <2> QED
    BY <1>9, <2>1, <2>2, <2>3, <2>4 DEF Server
<1>10. CASE Connection \/ Pane \/ UNCHANGED vars
  <2>1. UNCHANGED <<answers, replied>>
    BY <1>10, ServerStays DEF server
  <2> QED
    BY <1>8, <2>1
<1> QED
  BY <1>9, <1>10 DEF Next

-----------------------------------------------------------------------------
(* Whom the server's questions and answers are for.                        *)

\* Who an input is from.
LEMMA FromWhom ==
    ASSUME TypesHold, NEW n \in Given
    PROVE  From(n) \in Conns /\ inputs[n].to \subseteq Panes /\ n \in Nat \ {0}
<1>1. inputs[n] \in Inputs /\ n \in Nat \ {0}
  BY ElementOfSeq, HeldTyped DEF TypesHold, Given
<1> QED
  BY <1>1 DEF From, Inputs

\* Those there were are for whom they were for.
LEMMA StillWaitsFor ==
    ASSUME TypesHold, OnlyAskersAreAnswered, UNCHANGED wait,
           \A n \in Given : inputs'[n] = inputs[n],
           asks' \subseteq asks,
           \A answer \in answers' : answer \in answers
              \/ \E ask \in asks : answer.n = ask[2]
    PROVE  OnlyAskersAreAnswered'
<1>1. /\ \A ask \in asks : ask[2] \in Given
      /\ \A answer \in answers : answer.n \in Given
  BY DEF TypesHold, ServerTyped, Replies
<1>2. \A ask \in asks' : wait'[From(ask[2])'] = ask[2]
  BY <1>1 DEF OnlyAskersAreAnswered, From
<1>3. \A answer \in answers' : wait'[From(answer.n)'] = answer.n
  BY <1>1 DEF OnlyAskersAreAnswered, From
<1> QED
  BY <1>2, <1>3 DEF OnlyAskersAreAnswered

\* And as a connection waits no more for what was asked for it.
LEMMA WaitsNoMore ==
    ASSUME TypesHold, OnlyAskersAreAnswered, NEW c \in Conns, UNCHANGED inputs,
           wait' = [wait EXCEPT ![c] = 0],
           \A ask \in asks' : ask \in asks /\ ask[2] # wait[c],
           \A answer \in answers' : answer \in answers /\ answer.n # wait[c]
    PROVE  OnlyAskersAreAnswered'
<1>1. wait \in [Conns -> Given \union {0}]
  BY DEF TypesHold, ServerTyped
<1>2. /\ \A ask \in asks : From(ask[2]) \in Conns
      /\ \A answer \in answers : From(answer.n) \in Conns
  BY FromWhom DEF TypesHold, ServerTyped, Replies
<1>3. \A ask \in asks' : wait'[From(ask[2])'] = ask[2]
  BY <1>1, <1>2 DEF OnlyAskersAreAnswered, From
<1>4. \A answer \in answers' : wait'[From(answer.n)'] = answer.n
  BY <1>1, <1>2 DEF OnlyAskersAreAnswered, From
<1> QED
  BY <1>3, <1>4 DEF OnlyAskersAreAnswered

\* A request asks and is refused only as its asker begins to wait.
LEMMA SendKeysWaits ==
    ASSUME TypesHold, OnlyAskersAreAnswered, NEW c \in Askers, NEW to \in SUBSET Panes,
           SendKeys(c, to)
    PROVE  OnlyAskersAreAnswered'
<1>1. c \in Conns /\ Input(c, "keys", to) /\ wait[c] = 0
  BY DEF Conns, SendKeys, Input
<1> DEFINE n == Len(inputs) + 1
<1>2. /\ \A k \in Given : inputs'[k] = inputs[k]
      /\ inputs'[n] = [from |-> c, what |-> "keys", to |-> to]
  BY <1>1, MoreGiven
<1>3. /\ wait \in [Conns -> Given \union {0}] /\ wait' = [wait EXCEPT ![c] = n]
      /\ \A ask \in asks' : ask \in asks \/ ask[2] = n
      /\ \A answer \in answers' : answer \in answers \/ answer.n = n
  BY DEF TypesHold, ServerTyped, SendKeys
<1> HIDE DEF n
<1>4. inputs'[n].from = c /\ wait'[c] = n
  BY <1>1, <1>2, <1>3
<1>5. /\ \A ask \in asks : ask[2] \in Given /\ From(ask[2]) \in Conns /\ ask[2] # 0
      /\ \A answer \in answers : answer.n \in Given /\ From(answer.n) \in Conns /\ answer.n # 0
  BY FromWhom DEF TypesHold, ServerTyped, Replies
<1>6. \A ask \in asks' : wait'[From(ask[2])'] = ask[2]
  <2> SUFFICES ASSUME NEW ask \in asks' PROVE wait'[inputs'[ask[2]].from] = ask[2]
    BY DEF From
  <2>1. CASE ask \in asks
    BY <1>1, <1>2, <1>3, <1>5, <2>1 DEF OnlyAskersAreAnswered, From
  <2>2. CASE ask[2] = n
    BY <1>4, <2>2
  <2> QED
    BY <1>3, <2>1, <2>2
<1>7. \A answer \in answers' : wait'[From(answer.n)'] = answer.n
  <2> SUFFICES ASSUME NEW answer \in answers' PROVE wait'[inputs'[answer.n].from] = answer.n
    BY DEF From
  <2>1. CASE answer \in answers
    BY <1>1, <1>2, <1>3, <1>5, <2>1 DEF OnlyAskersAreAnswered, From
  <2>2. CASE answer.n = n
    BY <1>4, <2>2
  <2> QED
    BY <1>3, <2>1, <2>2
<1> QED
  BY <1>6, <1>7 DEF OnlyAskersAreAnswered

\* Every step keeps all questions and answers askers' who wait.
LEMMA AskersKept ==
    ASSUME TypesHold, OnlyAskersAreAnswered, [Next]_vars
    PROVE  OnlyAskersAreAnswered'
<1>1. \A n \in Given : inputs'[n] = inputs[n]
  BY NextSteps
<1>2. CASE UNCHANGED <<wait, asks, answers>>
  BY <1>1, <1>2, StillWaitsFor
<1>3. CASE Server
  <2>1. CASE \E c \in Typists : TypeKey(c) \/ Paste(c) \/ Detach(c) \/ SendScene(c)
                                \/ \E p \in Panes : LookAt(c, p)
    BY <1>2, <2>1 DEF TypeKey, Paste, Detach, SendScene, LookAt, server
  <2>2. CASE \E c \in Askers, to \in (SUBSET Panes) \ {{}} : SendKeys(c, to)
    BY <2>2, SendKeysWaits
  <2>3. ASSUME NEW c \in Conns, AnswerWait(c) PROVE OnlyAskersAreAnswered'
    <3>1. /\ UNCHANGED <<inputs, asks>> /\ wait' = [wait EXCEPT ![c] = 0]
          /\ \A ask \in asks : ask[2] # wait[c]
          /\ \A answer \in answers' : answer \in answers /\ answer.n # wait[c]
      BY <2>3 DEF AnswerWait
    <3> QED
      BY <3>1, WaitsNoMore
  <2>4. ASSUME NEW c \in Conns, DropConn(c) PROVE OnlyAskersAreAnswered'
    <3>1. /\ UNCHANGED inputs /\ wait' = [wait EXCEPT ![c] = 0]
          /\ \A ask \in asks' : ask \in asks /\ ask[2] # wait[c]
          /\ \A answer \in answers' : answer \in answers /\ answer.n # wait[c]
      BY <2>4 DEF DropConn
    <3> QED
      BY <3>1, WaitsNoMore
  <2>5. ASSUME NEW p \in Panes, HearPane(p) PROVE OnlyAskersAreAnswered'
    <3>1. /\ UNCHANGED <<inputs, wait>> /\ asks' \subseteq asks
          /\ \A answer \in answers' : answer \in answers \/ \E ask \in asks : answer.n = ask[2]
      BY <2>5 DEF HearPane
    <3> QED
      BY <1>1, <3>1, StillWaitsFor
  <2>6. ASSUME NEW p \in Panes, PaneGone(p) PROVE OnlyAskersAreAnswered'
    <3>1. /\ UNCHANGED <<inputs, wait>> /\ asks' \subseteq asks
          /\ \A answer \in answers' : answer \in answers \/ \E ask \in asks : answer.n = ask[2]
      BY <2>6 DEF PaneGone
    <3> QED
      BY <1>1, <3>1, StillWaitsFor
  <2>7. ASSUME NEW p \in Panes, ClosePane(p) PROVE OnlyAskersAreAnswered'
    BY <1>2, <2>7 DEF ClosePane
  <2> QED
    BY <1>3, <2>1, <2>2, <2>3, <2>4, <2>5, <2>6, <2>7 DEF Server
<1>4. CASE Connection \/ Pane \/ UNCHANGED vars
  <2>1. UNCHANGED <<wait, asks, answers>>
    BY <1>4, ServerStays DEF server
  <2> QED
    BY <1>2, <2>1
<1> QED
  BY <1>3, <1>4 DEF Next

-----------------------------------------------------------------------------
(* What is let go.                                                         *)

\* A pane's process that is closed, or gone, stays so.
LEMMA LifeStays ==
    ASSUME TypesHold, [Next]_vars, NEW p \in Panes
    PROVE  /\ life[p] = "gone" => life'[p] = "gone"
           /\ life[p] \in {"closed", "gone"} => life'[p] \in {"closed", "gone"}
<1>1. life \in [Panes -> {"runs", "ended", "closed", "gone"}]
  BY DEF TypesHold, PanesTyped
<1>2. CASE UNCHANGED life
  BY <1>2
<1>3. CASE Server
  BY <1>2, <1>3 DEF Server, TypeKey, Paste, Detach, SendScene, LookAt, SendKeys, AnswerWait,
                    DropConn, HearPane, PaneGone, ClosePane, panes
<1>4. CASE Connection
  BY <1>2, <1>4 DEF Connection, HearServer, Close, Die, EndConn, FlushSide, FlushPost, panes
<1>5. ASSUME NEW q \in Panes, Handle(q)
      PROVE  UNCHANGED life \/ (life[q] # "gone" /\ HandleClose(q))
  <2>1. ASSUME NEW n, HandleKey(q, n) \/ HandlePaste(q, n) \/ HandleKeys(q, n) \/ HandleDrop(q, n)
        PROVE  UNCHANGED life
    BY <2>1 DEF HandleKey, HandlePaste, HandleKeys, HandleDrop
  <2>2. \/ \E n : HandleKey(q, n) \/ HandlePaste(q, n) \/ HandleKeys(q, n) \/ HandleDrop(q, n)
        \/ life[q] # "gone" /\ HandleClose(q)
    BY <1>5 DEF Handle
  <2> QED
    BY <2>1, <2>2
<1>6. ASSUME NEW q \in Panes, Handle(q) \/ Program(q) \/ Finish(q) \/ Crash(q)
      PROVE  \/ UNCHANGED life
             \/ \E new \in {"closed", "gone"} :
                  /\ life' = [life EXCEPT ![q] = new]
                  /\ life[q] = "gone" => new = "gone"
             \/ /\ Listening(q)
                /\ \E new : life' = [life EXCEPT ![q] = new]
  BY <1>5, <1>6 DEF HandleClose, Program, Finish, Crash, EndPane
<1>7. ASSUME NEW q \in Panes, NEW n, Body(q, n) PROVE UNCHANGED life
  BY <1>7 DEF Body
<1>8. CASE Pane
  BY <1>1, <1>2, <1>6, <1>7, <1>8 DEF Pane, ReadSide, ReadLoose, Listening
<1>9. CASE UNCHANGED vars
  BY <1>2, <1>9 DEF vars, panes
<1> QED
  BY <1>3, <1>4, <1>8, <1>9 DEF Next

\* A word a pane is told is so until it is handled, or its process ends.
LEMMA WordStays ==
    ASSUME TypesHold, NEW p \in Panes, Steps(p), WordsRise(p), NEW word \in ToSet(toPane[p])
    PROVE  \/ word \in ToSet(toPane'[p])
           \/ Handles(p) /\ word = Head(toPane[p])
           \/ life'[p] = "gone"
<1>1. CASE IsTold(p)
  BY <1>1, HeldTyped, InBoth DEF IsTold
<1>2. CASE IsAsked(p)
  BY <1>2, HeldTyped, AskedIn DEF IsAsked
<1>3. CASE Handles(p)
  BY <1>3, NextWord
<1> QED
  BY <1>1, <1>2, <1>3 DEF Steps, Stays, Comes, Ends

\* A pane told to close is until it does.
LEMMA CloseStays ==
    ASSUME TypesHold, [Next]_vars, NEW p \in Panes, WordsRise(p),
           Word("close", 0) \in ToSet(toPane[p])
    PROVE  Word("close", 0) \in ToSet(toPane'[p]) \/ life'[p] \in {"closed", "gone"}
<1>1. Steps(p)
  BY NextSteps
<1>2. ASSUME Handles(p), Word("close", 0) = Head(toPane[p]) PROVE life'[p] = "closed"
  <2>1. Head(toPane[p]).say = "close"
    BY <1>2 DEF Word
  <2> QED
    BY <1>2, <2>1 DEF Handles, Typing
<1> QED
  BY <1>1, <1>2, WordStays

\* One told to let an input go is until it does, or types nothing.
LEMMA DropStays ==
    ASSUME TypesHold, [Next]_vars, NEW p \in Panes, WordsRise(p), NEW n \in Given,
           ToldToDrop(p, n), Pending(p, n)'
    PROVE  ToldToDrop(p, n)' \/ life'[p] \in {"closed", "gone"}
<1>1. Steps(p)
  BY NextSteps
<1>2. CASE Word("close", 0) \in ToSet(toPane[p])
  BY <1>2, CloseStays DEF ToldToDrop
<1>3. CASE Word("drop", n) \in ToSet(toPane[p])
  <2>1. ASSUME Handles(p), Word("drop", n) = Head(toPane[p]) PROVE FALSE
    <3>1. Head(toPane[p]).say = "drop" /\ Head(toPane[p]).n = n
      BY <2>1 DEF Word
    <3>2. n \notin awaiting'[p]
      BY <2>1, <3>1 DEF Handles, Typing
    <3>3. \A later \in ToSet(toPane'[p]) : Typing(later) => n < later.n
      BY <2>1, <3>1, NextWord
    <3> QED
      BY <3>2, <3>3, HeldTyped DEF Pending
  <2> QED
    BY <1>1, <1>3, <2>1, WordStays DEF ToldToDrop
<1> QED
  BY <1>2, <1>3 DEF ToldToDrop

\* Every step keeps links given up to panes that close or are gone.
LEMMA LinksKept ==
    ASSUME TypesHold, PanesSound, LinksSound, [Next]_vars
    PROVE  LinksSound'
<1> SUFFICES ASSUME NEW p \in Panes
             PROVE  /\ link'[p] = "ending" => Word("close", 0) \in ToSet(toPane'[p])
                                             \/ life'[p] \in {"closed", "gone"}
                    /\ link'[p] \in {"lost", "closed"} => life'[p] = "gone"
  BY DEF LinksSound
<1>1. link \in [Panes -> {"up", "lost", "ending", "closed"}] /\ WordsRise(p)
  BY DEF TypesHold, ServerTyped, PanesSound
<1>2. CASE link'[p] = link[p]
  BY <1>1, <1>2, CloseStays, LifeStays DEF LinksSound
<1>3. CASE link'[p] # link[p]
  <2>1. PaneGone(p) \/ ClosePane(p)
    <3>1. CASE Server
      <4>1. ASSUME NEW q \in Panes, PaneGone(q) \/ ClosePane(q) PROVE q = p
        BY <1>1, <1>3, <4>1 DEF PaneGone, ClosePane
      <4>2. ASSUME NEW c, NEW q, \/ TypeKey(c) \/ Paste(c) \/ Detach(c) \/ SendScene(c)
                                 \/ LookAt(c, q) \/ SendKeys(c, q) \/ AnswerWait(c)
                                 \/ DropConn(c) \/ HearPane(q)
            PROVE  FALSE
        BY <1>3, <4>2 DEF TypeKey, Paste, Detach, SendScene, LookAt, SendKeys, AnswerWait,
                          DropConn, HearPane, server
      <4> QED
        BY <3>1, <4>1, <4>2 DEF Server
    <3>2. CASE Connection \/ Pane \/ UNCHANGED vars
      BY <1>3, <3>2, ServerStays DEF server
    <3> QED
      BY <3>1, <3>2 DEF Next
  <2>2. CASE PaneGone(p)
    <3>1. life[p] = "gone" /\ UNCHANGED life
      BY <2>2 DEF PaneGone, panes
    <3> QED
      BY <3>1
  <2>3. CASE ClosePane(p)
    <3>1. CASE link[p] = "up"
      <4>1. link'[p] = "ending" /\ toPane'[p] = Append(toPane[p], Word("close", 0))
        BY <1>1, <2>3, <3>1 DEF ClosePane, Tell
      <4>2. Word("close", 0) \in ToSet(toPane'[p])
        BY <4>1, HeldTyped, AskedIn
      <4> QED
        BY <4>1, <4>2
    <3>2. CASE link[p] # "up"
      <4>1. link[p] = "lost" /\ link'[p] = "closed" /\ UNCHANGED life
        BY <1>1, <2>3, <3>2 DEF ClosePane, panes
      <4> QED
        BY <4>1 DEF LinksSound
    <3> QED
      BY <3>1, <3>2
  <2> QED
    BY <2>1, <2>2, <2>3
<1> QED
  BY <1>2, <1>3

\* What a pane is to type is for it.
LEMMA PendingIsForIt ==
    ASSUME NEW p \in Panes, NEW n, AsAsked(p), Pending(p, n)
    PROVE  p \in inputs[n].to
BY DEF AsAsked, Pending

\* One that is for one pane is for no other.
LEMMA ForOneOnly ==
    ASSUME TypesHold, NEW n \in Given, Cardinality(inputs[n].to) = 1,
           NEW p \in inputs[n].to, NEW q \in inputs[n].to
    PROVE  p = q
<1>1. IsFiniteSet(inputs[n].to)
  BY FromWhom, FS_Subset
<1>2. PICK x : inputs[n].to = {x}
  BY <1>1, FS_Singleton
<1> QED
  BY <1>2

\* The server knows an input that was just taken is its connection's.
LEMMA NewReclaimed ==
    ASSUME TypesHold, PanesSound', [Next]_vars, NEW p \in Panes, NEW n \in Given',
           n \notin Given, Pending(p, n)', inputs'[n].what # "key"
    PROVE  Reclaimed(p, n)'
<1>1. ASSUME NEW c \in Conns, NEW what \in {"key", "paste", "keys"}, NEW to \in SUBSET Panes,
             Input(c, what, to), UNCHANGED <<stage, awaiting>>
      PROVE  /\ n = Len(inputs) + 1 /\ inputs'[n] = [from |-> c, what |-> what, to |-> to]
             /\ From(n)' = c /\ stage'[c] # "dropped" /\ n \notin awaiting'[p]
             /\ p \in to
  <2>1. n = Len(inputs) + 1 /\ inputs'[n] = [from |-> c, what |-> what, to |-> to]
    BY <1>1, MoreGiven
  <2>2. From(n)' = c /\ stage'[c] = "open"
    BY <1>1, <2>1 DEF From, Input
  <2>3. p \in inputs'[n].to
    BY PendingIsForIt DEF PanesSound, AsAsked, Pending
  <2> QED
    BY <1>1, <2>1, <2>2, <2>3, HeldTyped
<1>2. ASSUME NEW c \in Typists, TypeKey(c) PROVE FALSE
  <2>1. Input(c, "key", {focus[c]}) /\ UNCHANGED <<stage, awaiting>> /\ c \in Conns
        /\ {focus[c]} \in SUBSET Panes
    BY <1>2 DEF TypeKey, server, panes, Conns, TypesHold, ServerTyped
  <2>2. inputs'[n] = [from |-> c, what |-> "key", to |-> {focus[c]}]
    BY <1>1, <2>1
  <2> QED
    BY <2>2
<1>3. ASSUME NEW c \in Typists, Paste(c) PROVE Reclaimed(p, n)'
  <2>1. Input(c, "paste", {focus[c]}) /\ UNCHANGED <<stage, awaiting>> /\ c \in Conns
        /\ {focus[c]} \in SUBSET Panes
    BY <1>3 DEF Paste, panes, Conns, TypesHold, ServerTyped
  <2>2. n = Len(inputs) + 1 /\ From(n)' = c /\ stage'[c] # "dropped" /\ p \in {focus[c]}
    BY <1>1, <2>1
  <2>3. <<p, n>> \in tokens'
    BY <1>3, <2>2 DEF Paste, Deliver
  <2> QED
    BY <2>2, <2>3 DEF Reclaimed
<1>4. ASSUME NEW c \in Askers, NEW to \in SUBSET Panes, SendKeys(c, to) PROVE Reclaimed(p, n)'
  <2>1. Input(c, "keys", to) /\ UNCHANGED <<stage, awaiting>> /\ c \in Conns
    BY <1>4 DEF SendKeys, panes, Conns
  <2>2. n = Len(inputs) + 1 /\ From(n)' = c /\ stage'[c] # "dropped" /\ p \in to
        /\ n \notin awaiting'[p]
    BY <1>1, <2>1
  <2>3. CASE link[p] = "up"
    <3>1. <<p, n>> \in tokens'
      BY <1>4, <2>2, <2>3 DEF SendKeys, Deliver
    <3> QED
      BY <2>2, <3>1 DEF Reclaimed
  <2>4. CASE link[p] # "up"
    <3>1. toPane'[p] = toPane[p]
      BY <1>4, <2>4 DEF SendKeys, Tell
    <3>2. ~\E word \in ToSet(toPane[p]) : Typing(word) /\ word.n = n
      BY <2>2, HeldTyped, WordsAre DEF Typing
    <3> QED
      BY <2>2, <3>1, <3>2 DEF Pending
  <2> QED
    BY <2>3, <2>4
<1>5. CASE UNCHANGED inputs
  BY <1>5 DEF Given
<1>6. CASE Server
  BY <1>2, <1>3, <1>4, <1>5, <1>6 DEF Server, Detach, SendScene, LookAt, AnswerWait, DropConn,
                                      HearPane, PaneGone, ClosePane
<1>7. CASE Connection
  BY <1>5, <1>7 DEF Connection, HearServer, Close, Die, EndConn, FlushSide, FlushPost
<1>8. CASE Pane
  BY <1>5, <1>8 DEF Pane, Handle, Program, Finish, Crash, EndPane, ReadSide, ReadLoose, Body
<1>9. CASE UNCHANGED vars
  BY <1>5, <1>9 DEF vars
<1> QED
  BY <1>6, <1>7, <1>8, <1>9 DEF Next

\* And until it tells the pane to let it go, as the connection goes, or the
\* pane said it is done with it.
LEMMA TokenStays ==
    ASSUME TypesHold, PanesSound, LinksSound, [Next]_vars, NEW p \in Panes, NEW n \in Given,
           Cardinality(inputs[n].to) = 1, Pending(p, n),
           stage[From(n)] # "dropped", <<p, n>> \in tokens
    PROVE  \/ stage'[From(n)] # "dropped" /\ <<p, n>> \in tokens'
           \/ ToldToDrop(p, n)'
           \/ life'[p] \in {"closed", "gone"}
<1>1. From(n) \in Conns /\ stage \in [Conns -> {"open", "closing", "dropped"}]
      /\ link \in [Panes -> {"up", "lost", "ending", "closed"}]
  BY FromWhom DEF TypesHold, ServerTyped
<1>2. CASE UNCHANGED stage /\ tokens \subseteq tokens'
  BY <1>2
<1>3. ASSUME NEW c \in Conns, Detach(c) PROVE stage'[From(n)] # "dropped" /\ <<p, n>> \in tokens'
  BY <1>1, <1>3 DEF Detach
<1>4. ASSUME NEW c \in Conns, DropConn(c)
      PROVE  \/ stage'[From(n)] # "dropped" /\ <<p, n>> \in tokens'
             \/ ToldToDrop(p, n)'
             \/ life'[p] \in {"closed", "gone"}
  <2>1. CASE From(n) # c
    <3>1. stage'[From(n)] = stage[From(n)] /\ <<p, n>> \in tokens'
      BY <1>1, <1>4, <2>1 DEF DropConn, Of
    <3> QED
      BY <3>1
  <2>2. CASE From(n) = c /\ link[p] = "up"
    <3>1. <<p, n>> \in Of(c, tokens)
      BY <2>2 DEF Of
    <3>2. PICK drops \in Seq(WordsTo(Given)) :
            toPane'[p] = toPane[p] \o drops /\ Word("drop", n) \in ToSet(drops)
      BY <1>4, <2>2, <3>1, Dropped
    <3>3. Word("drop", n) \in ToSet(toPane'[p])
      BY <3>2, HeldTyped, InBoth
    <3> QED
      BY <3>3 DEF ToldToDrop
  <2>3. CASE link[p] # "up"
    <3>1. toPane'[p] = toPane[p] /\ UNCHANGED life
      BY <1>4, <2>3, Dropped DEF DropConn, panes
    <3>2. Word("close", 0) \in ToSet(toPane[p]) \/ life[p] \in {"closed", "gone"}
      BY <1>1, <2>3 DEF LinksSound
    <3> QED
      BY <3>1, <3>2 DEF ToldToDrop
  <2> QED
    BY <2>1, <2>2, <2>3
<1>5. ASSUME NEW q \in Panes, HearPane(q)
      PROVE  stage'[From(n)] # "dropped" /\ <<p, n>> \in tokens'
  <2> DEFINE word == Head(fromPane[q])
  <2>1. fromPane[q] # <<>> /\ UNCHANGED stage
    BY <1>5 DEF HearPane
  <2>2. word \in ToSet(fromPane[q])
    BY <2>1, HeldTyped, InTail
  <2>3. word.say = "retired" => ~Pending(q, word.n) /\ q \in inputs[word.n].to
    BY <2>2 DEF PanesSound, Honest
  <2>4. p \in inputs[n].to
    BY PendingIsForIt DEF PanesSound
  <2>5. word.say = "retired" => word.n # n
    BY <2>3, <2>4, ForOneOnly
  <2>6. <<p, n>> \in tokens'
    BY <1>5, <2>5 DEF HearPane
  <2> QED
    BY <2>1, <2>6
<1>6. CASE Server
  <2>1. CASE \E c \in Typists : TypeKey(c) \/ Paste(c) \/ Detach(c) \/ SendScene(c)
                                \/ \E q \in Panes : LookAt(c, q)
    BY <1>2, <1>3, <2>1 DEF Conns, TypeKey, Paste, Deliver, SendScene, LookAt, server
  <2>2. CASE \E c \in Askers, to \in (SUBSET Panes) \ {{}} : SendKeys(c, to)
    BY <1>2, <2>2 DEF SendKeys, Deliver
  <2>3. CASE \E c \in Conns : AnswerWait(c) \/ DropConn(c)
    BY <1>2, <1>4, <2>3 DEF AnswerWait
  <2>4. CASE \E q \in Panes : HearPane(q) \/ PaneGone(q) \/ ClosePane(q)
    BY <1>2, <1>5, <2>4 DEF PaneGone, ClosePane
  <2> QED
    BY <1>6, <2>1, <2>2, <2>3, <2>4 DEF Server
<1>7. CASE Connection \/ Pane \/ UNCHANGED vars
  <2>1. UNCHANGED stage /\ UNCHANGED tokens
    BY <1>7, ServerStays DEF server
  <2> QED
    BY <1>2, <2>1
<1> QED
  BY <1>6, <1>7 DEF Next

\* Every step keeps what a pane may type yet its connection's, or let go.
LEMMA DropsKept ==
    ASSUME TypesHold, PanesSound, PanesSound', LinksSound, DropsFollow, [Next]_vars
    PROVE  DropsFollow'
<1> SUFFICES ASSUME NEW p \in Panes, NEW n \in Given', Pending(p, n)',
                    Cardinality(inputs'[n].to) = 1, inputs'[n].what # "key"
             PROVE  Reclaimed(p, n)'
  BY DEF DropsFollow
<1>1. CASE n \notin Given
  BY <1>1, NewReclaimed
<1>2. CASE n \in Given
  <2>1. inputs'[n] = inputs[n] /\ From(n)' = From(n)
    BY <1>2, NextSteps DEF From
  <2>2. Pending(p, n)
    BY <1>2, NextSteps, StepsSettle DEF PanesSound, Settles
  <2>3. Reclaimed(p, n)
    BY <1>2, <2>1, <2>2 DEF DropsFollow
  <2>4. CASE stage[From(n)] # "dropped" /\ <<p, n>> \in tokens
    BY <1>2, <2>1, <2>2, <2>4, TokenStays DEF Reclaimed
  <2>5. CASE ToldToDrop(p, n)
    BY <1>2, <2>5, DropStays DEF Reclaimed, PanesSound
  <2>6. CASE life[p] \in {"closed", "gone"}
    BY <2>6, LifeStays DEF Reclaimed
  <2> QED
    BY <2>3, <2>4, <2>5, <2>6 DEF Reclaimed
<1> QED
  BY <1>1, <1>2

-----------------------------------------------------------------------------
(* The theorems.                                                           *)

\* The invariant holds at the start,
LEMMA InitInv ==
    ASSUME Init PROVE IInv
<1>1. TypesHold
  BY InitTyped
<1>2. /\ \A p \in Panes : /\ toPane[p] = <<>> /\ fromPane[p] = <<>> /\ awaiting[p] = {}
                          /\ taken[p] = <<>> /\ link[p] = "up"
      /\ answers = {} /\ replied = {} /\ asks = {}
  BY DEF Init
<1>3. ToSet(<<>>) = {}
  BY InSeq, EmptySeq
<1>4. PanesSound
  BY <1>2, <1>3 DEF PanesSound, WordsRise, NewestLast, AsAsked
<1>5. RepliesSound /\ OnlyAskersAreAnswered
  BY <1>2 DEF RepliesSound, OnlyAskersAreAnswered
<1>6. LinksSound
  BY <1>2 DEF LinksSound
<1>7. DropsFollow
  BY <1>2, <1>3 DEF DropsFollow, Pending
<1> QED
  BY <1>1, <1>4, <1>5, <1>6, <1>7 DEF IInv

\* and every step keeps it.
LEMMA NextInv ==
    ASSUME IInv, [Next]_vars PROVE IInv'
<1>1. TypesHold'
  BY TypesKept DEF IInv
<1>2. PanesSound'
  BY PanesSoundKept DEF IInv
<1>3. RepliesSound'
  BY RepliesKept DEF IInv
<1>4. LinksSound'
  BY LinksKept DEF IInv
<1>5. DropsFollow'
  BY <1>2, DropsKept DEF IInv
<1>6. OnlyAskersAreAnswered'
  BY AskersKept DEF IInv
<1> QED
  BY <1>1, <1>2, <1>3, <1>4, <1>5, <1>6 DEF IInv

\* The inductive invariant holds.
THEOREM IInvHolds == Spec => []IInv
<1>1. Init => IInv
  BY InitInv
<1>2. IInv /\ [Next]_vars => IInv'
  BY NextInv
<1> QED
  BY <1>1, <1>2, PTL DEF Spec

\* Every part of the state is of its type.
THEOREM TypeCorrect == Spec => []TypeOK
<1>1. IInv => TypeOK
  <2> SUFFICES ASSUME TypesHold PROVE TypeOK
    BY DEF IInv
  <2>1. Given \subseteq Numbers
    BY HeldTyped, LenProperties DEF TypesHold, Given, Numbers
  <2>2. ServerTyped(Numbers) /\ ConnsTyped(Numbers) /\ PanesTyped(Numbers)
    BY <2>1, StillTyped DEF TypesHold
  <2> QED
    BY <2>2 DEF TypeOK, TypesHold, ServerTyped, ConnsTyped, PanesTyped, Pairs, Said, Replies,
                ToPaneWords, WordsTo, FromPaneWords, WordsFrom, ToConnWords, WordsToConn, Inputs
<1> QED
  BY <1>1, IInvHolds, PTL

\* What an asker is told of a pane is so, and stays so: keys a pane acted on
\* were typed, and keys it refused never are.
THEOREM AnswersHonest == Spec => []AnswersAreHonest
<1>1. IInv => AnswersAreHonest
  BY DEF IInv, RepliesSound, Honest, AnswersAreHonest
<1> QED
  BY <1>1, IInvHolds, PTL

\* The server keeps no question and no answer for who does not wait for it.
THEOREM OnlyAskersHold == Spec => []OnlyAskersAreAnswered
<1>1. IInv => OnlyAskersAreAnswered
  BY DEF IInv
<1> QED
  BY <1>1, IInvHolds, PTL

\* What a connection that is gone left on its way to one pane is typed only
\* until the pane hears it is to be dropped, or that it closes.
THEOREM NothingTypesLate == Spec => GoneTypeNothing
<1> DEFINE Late == \A n \in DOMAIN inputs, p \in Panes :
                     Cardinality(inputs[n].to) = 1 /\ inputs[n].what # "key"
                         => ~TypedLate(n, p)
<1>1. IInv /\ [Next]_vars => Late
  <2> SUFFICES ASSUME IInv, [Next]_vars, NEW n \in DOMAIN inputs, NEW p \in Panes,
                      Cardinality(inputs[n].to) = 1, inputs[n].what # "key", TypedLate(n, p)
               PROVE  FALSE
    OBVIOUS
  <2>1. n \in Given
    BY LenProperties DEF IInv, TypesHold, Given
  <2>2. Pending(p, n) /\ life[p] = "runs"
    BY <2>1, NextSteps, StepsSettle DEF IInv, PanesSound, Settles, TypedLate
  <2>3. Reclaimed(p, n)
    BY <2>1, <2>2 DEF IInv, DropsFollow
  <2> QED
    BY <2>2, <2>3 DEF Reclaimed, TypedLate
<1> QED
  BY <1>1, IInvHolds, PTL DEF GoneTypeNothing, Spec
=============================================================================
