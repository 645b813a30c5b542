--------------------------- MODULE RunRecord_proofs ---------------------------
(* Proofs of RunRecord's safety, for every number of panes, processes and   *)
(* crashes.                                                                *)
EXTENDS RunRecord, SequenceTheorems, TLAPS

-----------------------------------------------------------------------------
(* The inductive invariant.                                                *)

ProcStates == {"none", "starting", "open", "closed", "ending", "gone"}
Words == {<<>>, <<"begin">>, <<"take">>, <<"close">>, <<"begin", "close">>,
          <<"take", "close">>}
Closes(word) == word \in {<<"close">>, <<"begin", "close">>, <<"take", "close">>}
ProcType == [Procs -> [id : 0..MaxId, state : ProcStates, runs : BOOLEAN,
                       link : {"none", "up", "down"}, word : Words]]
UndoType == [tree : [Ids -> States], ids : 0..MaxId, links : [Ids -> 0..MaxProcs],
             stop : BOOLEAN, bare : SUBSET Ids]

RecordType == [ids : 0..MaxId, tree : [Ids -> States]]

\* The steps of a change, and those of making a pane among them.
Spawned == {"reach", "begin", "wait"}
Making == {"record", "spawn"} \union Spawned
Changing == Making \union {"commit", "undo"}

\* Where the server's thread can be.
Phases ==
    /\ server = "serving" => at \in Changing \union {"idle", "say", "refuse", "settle"}
    /\ server = "taking" => at \in {"next", "asked"}
    /\ server = "stopping" => at \in {"close", "ending"}
    /\ server \in {"down", "over", "fresh"} => at = "idle"

Types ==
    /\ disk \in RecordType \union {NoRecord}
    /\ socket \in [Ids -> 0..MaxProcs]
    /\ server \in {"taking", "serving", "stopping", "down", "over", "fresh"}
    /\ tree \in [Ids -> States]
    /\ ids \in 0..MaxId
    /\ links \in [Ids -> 0..MaxProcs]
    /\ made \in 0..MaxId /\ peer \in 0..MaxProcs
    /\ todo \subseteq Ids
    /\ closing \subseteq Procs /\ held \subseteq Procs /\ out \subseteq held
    /\ stop \in BOOLEAN
    /\ crashes \in 0..MaxCrashes
    /\ undo \in UndoType
    /\ proc \in ProcType
    /\ known \subseteq Ids /\ ever \subseteq Ids /\ killed \subseteq Ids
    /\ Phases

\* What a server that is not there has, and one that only begins.
Absent ==
    /\ server = "down" => tree = NoTree /\ links = NoLinks
    /\ server = "taking" => disk # NoRecord
    /\ server = "stopping" => disk = NoRecord
    /\ server \in {"down", "taking", "over", "fresh"} => out = {}
    /\ server \in {"down", "over", "fresh"} => held = {}
    /\ server \in {"down", "taking"} => crashes > 0 /\ made = 0
    /\ server = "down" => todo = {}
    /\ closing # {} => server = "serving" /\ at \in {"commit", "undo"}
    /\ server = "serving" /\ at \in {"idle", "settle", "record", "spawn"} => peer = 0
    /\ server = "serving" /\ at \in {"idle", "settle"} => made = 0
    /\ server = "down" => peer = 0
    /\ server = "taking" /\ at = "next" => peer = 0

\* Of ids: what was told, or recorded, is not beyond the last one given.
IdsGoOn ==
    /\ disk # NoRecord => /\ \A p \in ever : p <= disk.ids
                          /\ \A p \in Held(disk.tree) : p <= disk.ids
    /\ server \in {"serving", "taking"} =>
          \A p \in Ids : tree[p] # "none" \/ links[p] # 0 => p <= ids
    /\ server = "taking" => ids = disk.ids /\ todo \subseteq Copies(disk.tree)
    /\ server = "serving" /\ at \notin Changing =>
          /\ \A p \in ever : p <= ids
          /\ disk # NoRecord => ids <= disk.ids
    /\ server = "serving" /\ at \in Changing =>
          /\ \A p \in ever : p <= undo.ids
          /\ \A p \in Ids : undo.tree[p] # "none" \/ undo.links[p] # 0 => p <= undo.ids
          /\ undo.bare \subseteq Held(undo.tree)
          /\ undo.ids <= ids
          /\ disk # NoRecord => undo.ids <= disk.ids
    /\ server = "serving" /\ at \in Making => made = ids /\ ids = undo.ids + 1
    /\ server = "serving" /\ at = "record" => tree[made] = "runs"
    /\ server = "serving" /\ at \in {"commit", "undo"} => made \in {0, undo.ids + 1}
    /\ server = "serving" /\ at \in Making \ {"record"} =>
          disk # NoRecord /\ disk.tree[made] = "runs"

\* A process that listens is the one at its pane's path.
Listening(n) == proc[n].state \in {"starting", "open", "closed"}
FoundAtItsPath ==
    /\ \A p \in Ids : socket[p] # 0 => proc[socket[p]].id = p
    /\ \A n \in Procs : Listening(n) => proc[n].id \in Ids
    /\ server # "fresh" =>
          \A n \in Procs : Listening(n) => socket[proc[n].id] = n

\* A process' words: none before it is reached or once its server went.
Live(n) == proc[n].state \in {"starting", "open"}
WordsInOrder ==
    \A n \in Procs :
        /\ Live(n) /\ proc[n].link # "up" => proc[n].word = <<>> /\ n \notin held
        /\ proc[n].state = "open" => proc[n].word \in {<<>>, <<"close">>}
        /\ proc[n].state \in {"closed", "ending", "gone", "none"} => proc[n].word = <<>>
        /\ proc[n].state = "none" => n \notin held
        /\ n \in out => ~Closes(proc[n].word) /\ proc[n].state \notin {"closed", "ending"}

\* Told to close, or about to be.
Told(n) == n \in out \/ Closes(proc[n].word) \/ proc[n].state \in {"closed", "ending"}

\* What the server holds links to.
Linked(l) ==
    \A p \in Ids : l[p] # 0 => /\ proc[l[p]].id = p
                               /\ l[p] \in held
                               /\ ~Told(l[p])
LinksAreHeld ==
    server \in {"serving", "taking", "stopping"} => Linked(links)
UndoIsHeld == server = "serving" /\ at \in Changing => Linked(undo.links)
ClosingIsHeld ==
    \A n \in closing : n \in held /\ ~Told(n) /\ \A p \in Ids : links[p] # n
PeerIsItsPanes ==
    /\ server = "serving" /\ at \in Making => links[made] = 0
    /\ server = "serving" /\ at \in Spawned => peer # 0
    /\ server = "serving" /\ at \in Changing /\ peer # 0 =>
          /\ made # 0 /\ proc[peer].id = made
          /\ ~Told(peer)
          /\ at # "reach" /\ Live(peer) => peer \in held
          /\ at \in {"reach", "begin"} =>
                proc[peer].state \in {"starting", "gone"} /\ proc[peer].word = <<>>
    /\ server = "taking" /\ at = "asked" => peer # 0 /\ proc[peer].id \in todo

\* Every live process but those told to close is some pane's, while no server
\* crashes.
AllAreHeld ==
    crashes = 0 /\ server = "serving" => \A n \in Procs : Live(n) /\ ~Told(n) =>
        /\ at # "undo" => \/ links[proc[n].id] = n
                          \/ at \in Spawned /\ n = peer
                          \/ at = "commit" /\ n \in closing
        /\ at \in Changing => undo.links[proc[n].id] = n \/ n = peer

\* A process that has yet to start its program is one its pane waits for, or
\* the next server will find.
StartsAreAwaited ==
    \A n \in Procs : proc[n].state = "starting" =>
        /\ proc[n].id \notin ever
        /\ server \in {"serving", "down", "taking"}
        /\ server = "serving" => n = peer /\ at \in Spawned
        /\ server = "down" => disk # NoRecord /\ proc[n].id \in Copies(disk.tree)
        /\ server = "taking" => proc[n].id \in todo

\* The only live process of a pane of the tree is the one it is linked to.
PanesAreLinked ==
    /\ server \in {"serving", "taking"} /\ at # "undo" =>
          \A n \in Procs : Live(n) /\ proc[n].id \in Held(tree) =>
              \/ links[proc[n].id] = n
              \/ server = "serving" /\ at \in Making /\ proc[n].id = made
    /\ server = "serving" /\ at \in Changing =>
          \A n \in Procs : Live(n) /\ proc[n].id \in Held(undo.tree) =>
              undo.links[proc[n].id] = n

\* What clients know of is in the tree, in the tree to go back to and in the
\* record, but for what was killed or ended.
KeptIn(t) == \A p \in known \ killed : p \in Held(t) \/ ShellEnded(p)
KnownAreKept ==
    /\ known \subseteq ever
    /\ server = "serving" => KeptIn(tree)
    /\ server = "serving" /\ at \in Changing => KeptIn(undo.tree)
    /\ server \in {"serving", "taking", "down"} /\ disk # NoRecord => KeptIn(disk.tree)
    /\ server \in {"serving", "taking"} /\ at \notin Changing /\ disk # NoRecord =>
          Held(tree) \subseteq Held(disk.tree)
    /\ server = "serving" /\ at \in Changing /\ disk # NoRecord =>
          Held(undo.tree) \subseteq Held(disk.tree)
    /\ server = "serving" /\ at = "record" => Held(undo.tree) \subseteq Held(tree)
    /\ server = "taking" =>
          /\ Whole(disk) => \A p \in known \ killed :
                p \in Held(tree) \union todo \/ ShellEnded(p)
          /\ todo \intersect Held(tree) = {}
          /\ \A n \in Procs : /\ proc[n].id \in Held(tree)
                              /\ proc[n].state = "open"
                              /\ tree[proc[n].id] = "ended"
                              => ~proc[n].runs

\* Beside another run no process of this one lives.
NoneBeside == server = "fresh" => \A n \in Procs : ~Live(n)

IInv == /\ Types /\ Absent /\ IdsGoOn /\ FoundAtItsPath /\ WordsInOrder
        /\ LinksAreHeld /\ UndoIsHeld /\ ClosingIsHeld /\ PeerIsItsPanes
        /\ AllAreHeld

TakenInv == StartsAreAwaited /\ PanesAreLinked /\ KnownAreKept /\ NoneBeside

USE BoundsAssumption, ShellsAssumption, ScarceAssumption, NoRecordAssumption
    DEF Ids, Procs

-----------------------------------------------------------------------------
(* What each step of the server and of the processes keeps.                *)

\* What is known of a process.
ProcessType == [id : 0..MaxId, state : ProcStates, runs : BOOLEAN,
                link : {"none", "up", "down"}, word : Words]

\* A process changes, and no other.
LEMMA ProcessChanges ==
    ASSUME proc \in ProcType, NEW n \in Procs, NEW r \in ProcessType,
           proc' = [proc EXCEPT ![n] = r]
    PROVE  /\ proc' \in ProcType /\ proc'[n] = r
           /\ \A q \in Procs \ {n} : proc'[q] = proc[q]
BY DEF ProcType, ProcessType

\* What a Close queued for a process makes of its words.
LEMMA Appended == ASSUME NEW x PROVE Append(<<x>>, "close") = <<x, "close">>
<1> DEFINE S == {x, "close"}
<1>1. <<x>> \in Seq(S) /\ <<x, "close">> \in Seq(S) /\ "close" \in S
  OBVIOUS
<1>2. /\ Len(<<x>>) = 1 /\ <<x>>[1] = x
      /\ Len(<<x, "close">>) = 2 /\ <<x, "close">>[1] = x /\ <<x, "close">>[2] = "close"
  OBVIOUS
<1> HIDE DEF S
<1>3. /\ Append(<<x>>, "close") \in Seq(S)
      /\ Len(Append(<<x>>, "close")) = 2
      /\ \A i \in 1..Len(<<x>>) : Append(<<x>>, "close")[i] = <<x>>[i]
      /\ Append(<<x>>, "close")[Len(<<x>>) + 1] = "close"
  BY <1>1, <1>2, AppendProperties
<1>4. \A i \in 1..2 : Append(<<x>>, "close")[i] = <<x, "close">>[i]
  BY <1>2, <1>3
<1> QED
  BY <1>1, <1>2, <1>3, <1>4, SeqEqual

\* The words a process may have, a Close among them or not.
LEMMA WordsAre ==
    /\ {<<>>, <<"begin">>, <<"take">>, <<"close">>} \subseteq Words
    /\ ~Closes(<<>>) /\ ~Closes(<<"begin">>) /\ ~Closes(<<"take">>)
    /\ \A w \in Words : ~Closes(w) =>
          /\ Append(w, "close") \in Words /\ Closes(Append(w, "close"))
          /\ w = <<>> => Append(w, "close") = <<"close">>
    /\ \A w \in Words : ~Closes(w) => w \in {<<>>, <<"begin">>, <<"take">>}
<1>1. /\ Append(<<>>, "close") = <<"close">>
      /\ Append(<<"begin">>, "close") = <<"begin", "close">>
      /\ Append(<<"take">>, "close") = <<"take", "close">>
  BY Appended
<1>2. /\ {<<>>, <<"begin">>, <<"take">>, <<"close">>} \subseteq Words
      /\ ~Closes(<<>>) /\ ~Closes(<<"begin">>) /\ ~Closes(<<"take">>)
      /\ \A w \in Words : ~Closes(w) => w \in {<<>>, <<"begin">>, <<"take">>}
  BY DEF Words, Closes
<1>3. \A w \in {<<"close">>, <<"begin", "close">>, <<"take", "close">>} :
          w \in Words /\ Closes(w)
  BY DEF Words, Closes
<1>4. ASSUME NEW w \in Words, ~Closes(w)
      PROVE  /\ Append(w, "close") \in Words /\ Closes(Append(w, "close"))
             /\ w = <<>> => Append(w, "close") = <<"close">>
  <2>1. w \in {<<>>, <<"begin">>, <<"take">>}
    BY <1>2, <1>4
  <2>2. Append(w, "close") \in {<<"close">>, <<"begin", "close">>, <<"take", "close">>}
    BY <1>1, <2>1
  <2> QED
    BY <1>1, <1>3, <2>2
<1> QED
  BY <1>2, <1>4

\* What a process reads, and what is left to read.
LEMMA FirstWords ==
    /\ Tail(<<"close">>) = <<>>
    /\ \A w \in Words : Len(w) <= 2
    /\ \A w \in Words : w # <<>> /\ Head(w) = "begin" =>
          \/ w = <<"begin">> /\ Tail(w) = <<>>
          \/ w = <<"begin", "close">> /\ Tail(w) = <<"close">>
    /\ \A w \in Words : w # <<>> /\ Head(w) = "begin" => (Closes(w) <=> Closes(Tail(w)))
<1>1. /\ Len(<<>>) = 0 /\ (\A x : Len(<<x>>) = 1)
      /\ (\A x, y : Len(<<x, y>>) = 2)
  OBVIOUS
<1>2. ASSUME NEW w \in Words PROVE Len(w) <= 2
  <2>1. \/ w = <<>> \/ w = <<"begin">> \/ w = <<"take">> \/ w = <<"close">>
        \/ w = <<"begin", "close">> \/ w = <<"take", "close">>
    BY <1>2 DEF Words
  <2>2. /\ Len(<<>>) <= 2 /\ \A x : Len(<<x>>) <= 2
        /\ \A x, y : Len(<<x, y>>) <= 2
    BY <1>1
  <2> QED
    BY <2>1, <2>2
<1>3. /\ Tail(<<"close">>) = <<>>
      /\ Tail(<<"begin">>) = <<>> /\ Tail(<<"begin", "close">>) = <<"close">>
      /\ Head(<<"take">>) # "begin" /\ Head(<<"close">>) # "begin"
      /\ Head(<<"take", "close">>) # "begin"
  OBVIOUS
<1>4. ASSUME NEW w \in Words, w # <<>>, Head(w) = "begin"
      PROVE  w = <<"begin">> \/ w = <<"begin", "close">>
  BY <1>3, <1>4 DEF Words
<1>5. /\ ~Closes(<<>>) /\ ~Closes(<<"begin">>) /\ Closes(<<"close">>)
      /\ Closes(<<"begin", "close">>)
  BY DEF Closes
<1> QED
  BY <1>2, <1>3, <1>4, <1>5

\* What a server writes is a record.
LEMMA RecordsAre ==
    ASSUME NEW i \in 0..MaxId, NEW t \in [Ids -> States]
    PROVE  /\ [ids |-> i, tree |-> t] \in RecordType
           /\ [ids |-> i, tree |-> t] # NoRecord
BY DEF RecordType, States

\* What a change is undone to.
LEMMA UndosAre ==
    ASSUME NEW bare \in SUBSET Ids, Types, Begin(bare)
    PROVE  /\ undo' \in UndoType
           /\ undo'.tree = tree /\ undo'.ids = ids /\ undo'.links = links
           /\ undo'.bare = bare
BY DEF Types, Begin, UndoType

\* A pane is made, at the next id.
LEMMA BeginMakeKeepsIInv ==
    ASSUME IInv, BeginMake
    PROVE  IInv'
<1> USE DEF IInv, Types, BeginMake, Idle, files, session, change, ends, history
<1>1. /\ undo' \in UndoType
      /\ undo'.tree = tree /\ undo'.ids = ids /\ undo'.links = links
      /\ undo'.bare = {}
  BY UndosAre
<1>2. /\ made' = ids + 1 /\ ids' = ids + 1 /\ made' \in Ids
      /\ tree' = [tree EXCEPT ![made'] = "runs"]
  OBVIOUS
<1>3. Types'
  <2>1. tree' \in [Ids -> States]
    BY <1>2 DEF States
  <2>2. Phases'
    BY DEF Phases, Making, Spawned, Changing
  <2>3. /\ ids' \in 0..MaxId /\ made' \in 0..MaxId /\ undo' \in UndoType
    BY <1>1, <1>2
  <2> QED
    BY <2>1, <2>2, <2>3
<1>4. Absent'
  BY DEF Absent, Changing, Making, Spawned
<1>5. IdsGoOn'
  BY <1>1, <1>2 DEF IdsGoOn, Changing, Making, Spawned, Held, Copies
<1>6. FoundAtItsPath'
  BY DEF FoundAtItsPath, Listening
<1>7. WordsInOrder'
  BY DEF WordsInOrder, Live
<1>8. LinksAreHeld'
  BY DEF LinksAreHeld, Linked, Told
<1>9. UndoIsHeld'
  BY <1>1 DEF UndoIsHeld, LinksAreHeld, Linked, Told, Changing, Making, Spawned
<1>10. ClosingIsHeld'
  BY DEF ClosingIsHeld, Told
<1>11. PeerIsItsPanes'
  <2>1. links[made'] = 0
    BY <1>2 DEF IdsGoOn
  <2> QED
    BY <2>1 DEF PeerIsItsPanes, Told, Changing, Making, Spawned, Live, Absent
<1>12. AllAreHeld'
  BY <1>1 DEF AllAreHeld, Live, Told, Changing, Making, Spawned
<1> QED
  BY <1>3, <1>4, <1>5, <1>6, <1>7, <1>8, <1>9, <1>10, <1>11, <1>12

\* Session::start_pane: the pane is recorded, or its change undone.
LEMMA RecordMadeKeepsIInv ==
    ASSUME IInv, RecordMade
    PROVE  IInv'
<1> USE DEF IInv, Types, RecordMade, Record, Now, files, session, change,
    ends, history
<1>1. Now \in RecordType /\ Now # NoRecord /\ Now.ids = ids /\ Now.tree = tree
  BY RecordsAre
<1>2. Types'
  BY <1>1 DEF Phases, Making, Spawned, Changing
<1>3. Absent'
  BY DEF Absent, Changing, Making, Spawned
<1>4. IdsGoOn'
  BY SMTT(30), <1>1 DEF IdsGoOn, Changing, Making, Spawned, Held, Copies, UndoType,
     RecordType
<1>5. FoundAtItsPath'
  BY DEF FoundAtItsPath, Listening
<1>6. WordsInOrder'
  BY DEF WordsInOrder, Live
<1>7. LinksAreHeld'
  BY DEF LinksAreHeld, Linked, Told
<1>8. UndoIsHeld'
  BY DEF UndoIsHeld, Linked, Told, Changing, Making, Spawned
<1>9. ClosingIsHeld'
  BY DEF ClosingIsHeld, Told
<1>10. PeerIsItsPanes'
  BY DEF PeerIsItsPanes, Told, Changing, Making, Spawned, Live, Absent
<1>11. AllAreHeld'
  BY DEF AllAreHeld, Live, Told, Changing, Making, Spawned
<1> QED
  BY <1>2, <1>3, <1>4, <1>5, <1>6, <1>7, <1>8, <1>9, <1>10, <1>11

\* Its process is gone before it began.
LEMMA NotBegunKeepsIInv ==
    ASSUME IInv, NotBegun
    PROVE  IInv'
<1> USE DEF IInv, Types, NotBegun, Is, files, session, change, ends, history
<1>1. Types'
  BY DEF Phases, Making, Spawned, Changing, PeerIsItsPanes, Told
<1>2. Absent'
  BY DEF Absent, Changing, Making, Spawned
<1>3. IdsGoOn'
  BY DEF IdsGoOn, Changing, Making, Spawned, Held, Copies, UndoType, RecordType
<1>4. FoundAtItsPath'
  BY DEF FoundAtItsPath, Listening
<1>5. WordsInOrder'
  BY DEF WordsInOrder, Live
<1>6. LinksAreHeld'
  BY DEF LinksAreHeld, Linked, Told, PeerIsItsPanes, Changing, Making, Spawned
<1>7. UndoIsHeld'
  BY DEF UndoIsHeld, Linked, Told, Changing, Making, Spawned,
     PeerIsItsPanes, IdsGoOn, UndoType
<1>8. ClosingIsHeld'
  BY DEF ClosingIsHeld, Told, Absent
<1>9. PeerIsItsPanes'
  BY DEF PeerIsItsPanes, Told, Changing, Making, Spawned, Live, Absent
<1>10. AllAreHeld'
  BY DEF AllAreHeld, Live, Told, Changing, Making, Spawned, PeerIsItsPanes
<1> QED
  BY <1>1, <1>2, <1>3, <1>4, <1>5, <1>6, <1>7, <1>8, <1>9, <1>10

\* Session::linked: the pane is linked to its process, or closed with it.
LEMMA BegunKeepsIInv ==
    ASSUME IInv, Begun
    PROVE  IInv'
<1> USE DEF IInv, Types, Begun, Is, files, session, change, ends, history
<1>1. /\ made \in Ids /\ peer \in Procs /\ peer \in held /\ ~Told(peer)
      /\ proc[peer].id = made /\ links[made] = 0 /\ closing = {}
  BY DEF PeerIsItsPanes, IdsGoOn, Changing, Making, Spawned, Live, Absent
<1>2. /\ \/ links' = [links EXCEPT ![made] = peer] /\ closing' = {}
         \/ links' = links /\ closing' = {peer}
      /\ \E s \in States : tree' = [tree EXCEPT ![made] = s]
      /\ stop' \in BOOLEAN
  <2>1. CASE proc[peer].runs
    <3>1. tree' = [tree EXCEPT ![made] = tree[made]] /\ tree[made] \in States
      BY <1>1, <2>1
    <3> QED
      BY <1>1, <2>1, <3>1
  <2>2. CASE ~proc[peer].runs /\ made \in Shells
    <3>1. stop' \in BOOLEAN
      BY <2>2
    <3> QED
      BY <1>1, <2>2, <3>1 DEF States
  <2>3. CASE ~proc[peer].runs /\ made \notin Shells
    BY <1>1, <2>3 DEF States
  <2> QED
    BY <2>1, <2>2, <2>3
<1>3. /\ at = "wait" /\ at' = "commit" /\ server = "serving"
      /\ UNCHANGED <<files, server, ids, made, undo, peer, todo, ends, crashes,
                     proc, history>>
  OBVIOUS
<1> HIDE DEF Begun
<1>4. tree' \in [Ids -> States] /\ \A p \in Ids : p # made => tree'[p] = tree[p]
  BY <1>1, <1>2
<1>5. links' \in [Ids -> 0..MaxProcs]
  BY <1>1, <1>2
<1>6. closing' \subseteq {peer}
  BY <1>2
<1>7. \A p \in Ids : links'[p] = links[p] \/ (p = made /\ links'[p] = peer)
  BY <1>1, <1>2
<1>8. Types'
  BY <1>1, <1>2, <1>3, <1>4, <1>5, <1>6, <1>7 DEF Phases, Making, Spawned,
     Changing
<1>9. Absent'
  BY <1>3 DEF Absent, Changing, Making, Spawned
<1>10. IdsGoOn'
  BY <1>1, <1>3, <1>4, <1>5, <1>6, <1>7 DEF IdsGoOn, Changing, Making,
     Spawned, Held, Copies, UndoType, RecordType
<1>11. FoundAtItsPath'
  BY <1>3 DEF FoundAtItsPath, Listening
<1>12. WordsInOrder'
  BY <1>3 DEF WordsInOrder, Live
<1>13. LinksAreHeld'
  BY <1>1, <1>3, <1>5, <1>6, <1>7 DEF LinksAreHeld, Linked, Told
<1>14. UndoIsHeld'
  BY <1>3 DEF UndoIsHeld, Linked, Told, Changing, Making, Spawned
<1>15. ClosingIsHeld'
  <2>1. CASE closing' = {}
    BY <2>1 DEF ClosingIsHeld
  <2>2. CASE links' = links /\ closing' = {peer}
    <3>1. Linked(links) /\ peer # 0
      BY <1>1, <1>3 DEF LinksAreHeld
    <3>2. \A p \in Ids : links[p] # peer
      BY <1>1, <3>1 DEF Linked
    <3> QED
      BY <1>1, <1>3, <2>2, <3>2 DEF ClosingIsHeld, Told
  <2> QED
    BY <1>2, <2>1, <2>2
<1>16. PeerIsItsPanes'
  BY <1>1, <1>3 DEF PeerIsItsPanes, Told, Changing, Making, Spawned, Live,
     Absent
<1>17. AllAreHeld'
  <2>1. ASSUME NEW n \in Procs, crashes = 0, Live(n), ~Told(n)
        PROVE  /\ links'[proc[n].id] = n \/ n \in closing'
               /\ undo.links[proc[n].id] = n \/ n = peer
    <3>1. /\ links[proc[n].id] = n \/ n = peer
          /\ undo.links[proc[n].id] = n \/ n = peer
      BY <1>3, <2>1 DEF AllAreHeld, Changing, Making, Spawned
    <3>2. proc[n].id # made => links'[proc[n].id] = links[proc[n].id]
      <4>1. proc[n].id \in Ids
        BY <2>1 DEF FoundAtItsPath, Live, Listening
      <4> QED
        BY <1>1, <1>2, <4>1
    <3> QED
      BY <1>1, <1>2, <3>1, <3>2
  <2> QED
    BY <1>3, <2>1 DEF AllAreHeld, Live, Told, Changing, Making, Spawned
<1> QED
  BY <1>8, <1>9, <1>10, <1>11, <1>12, <1>13, <1>14, <1>15, <1>16, <1>17

\* Session::commit: what the change closes is told to, or the change is undone.
LEMMA CommitKeepsIInv ==
    ASSUME IInv, Commit
    PROVE  IInv'
<1> USE DEF IInv, Types, Commit, Record, Now, files, session, change, ends,
    history
<1>1. Now \in RecordType /\ Now # NoRecord /\ Now.ids = ids /\ Now.tree = tree
  BY RecordsAre
<1>2. \/ at' = "say" /\ out' = out \union closing /\ closing' = {}
      \/ at' = "undo" /\ UNCHANGED <<out, closing>>
  OBVIOUS
<1>3. \A n \in closing : n \in held /\ ~Told(n) /\ \A p \in Ids : links[p] # n
  BY DEF ClosingIsHeld
<1>4. Types'
  BY <1>1 DEF Phases, Making, Spawned, Changing, ClosingIsHeld
<1>5. Absent'
  BY DEF Absent, Changing, Making, Spawned
<1>6. IdsGoOn'
  BY <1>1 DEF IdsGoOn, Changing, Making, Spawned, Held, Copies, UndoType,
     RecordType
<1>7. FoundAtItsPath'
  BY DEF FoundAtItsPath, Listening
<1>8. WordsInOrder'
  BY <1>2, <1>3 DEF WordsInOrder, Live, Told
<1>9. LinksAreHeld'
  BY <1>2, <1>3 DEF LinksAreHeld, Linked, Told
<1>10. UndoIsHeld'
  BY DEF UndoIsHeld, Linked, Told, Changing, Making, Spawned
<1>11. ClosingIsHeld'
  BY DEF ClosingIsHeld, Told
<1>12. PeerIsItsPanes'
  BY DEF PeerIsItsPanes, Told, Changing, Making, Spawned, Live, Absent
<1>13. AllAreHeld'
  BY <1>2, <1>3 DEF AllAreHeld, Live, Told, Changing, Making, Spawned
<1> QED
  BY <1>4, <1>5, <1>6, <1>7, <1>8, <1>9, <1>10, <1>11, <1>12, <1>13

\* Session::roll_back: what there was, and the process made is told to close.
LEMMA RollBackKeepsIInv ==
    ASSUME IInv, RollBack
    PROVE  IInv'
<1> USE DEF IInv, Types, RollBack, Now, Held, files, session, change, ends,
    history
<1>1. /\ tree' \in [Ids -> States] /\ ids' \in 0..MaxId /\ ids' = undo.ids
      /\ links' = undo.links /\ links' \in [Ids -> 0..MaxProcs] /\ stop' \in BOOLEAN
  BY DEF UndoType, States
<1>2. Now' \in RecordType /\ Now' # NoRecord /\ Now'.ids = undo.ids /\ Now'.tree = tree'
  BY <1>1, RecordsAre
<1>3. out' = out \/ (out' = out \union {peer} /\ peer # 0 /\ peer \in held)
  <2>1. CASE peer \in held
    BY <2>1
  <2>2. CASE peer \notin held
    <3>1. {peer} \intersect held = {}
      BY <2>2
    <3> QED
      BY <3>1
  <2> QED
    BY <2>1, <2>2
<1>4. /\ peer # 0 => ~Told(peer) /\ proc[peer].id = undo.ids + 1
      /\ \A p \in Ids : undo.links[p] # 0 => proc[undo.links[p]].id = p /\ p <= undo.ids
  BY DEF PeerIsItsPanes, Changing, UndoIsHeld, Linked, IdsGoOn
<1>5. \A p \in Ids : undo.links[p] # 0 => undo.links[p] # peer
  BY <1>4 DEF UndoType
<1>6. Types'
  BY <1>1, <1>2 DEF Phases, Making, Spawned, Changing, ClosingIsHeld
<1>7. Absent'
  BY DEF Absent, Changing, Making, Spawned
<1>8. IdsGoOn'
  BY <1>1, <1>2 DEF IdsGoOn, Changing, Making, Spawned, Held, Copies,
     UndoType, RecordType
<1>9. FoundAtItsPath'
  BY DEF FoundAtItsPath, Listening
<1>10. WordsInOrder'
  BY <1>3, <1>4 DEF WordsInOrder, Live, Told
<1>11. LinksAreHeld'
  BY <1>1, <1>3, <1>5 DEF LinksAreHeld, Linked, Told, UndoIsHeld, Changing
<1>12. UndoIsHeld'
  BY DEF UndoIsHeld, Linked, Told, Changing, Making, Spawned
<1>13. ClosingIsHeld'
  BY DEF ClosingIsHeld, Told
<1>14. PeerIsItsPanes'
  BY DEF PeerIsItsPanes, Told, Changing, Making, Spawned, Live, Absent
<1>15. AllAreHeld'
  <2>1. ASSUME NEW n \in Procs, crashes = 0, Live(n), ~Told(n), n # peer
        PROVE  undo.links[proc[n].id] = n
    BY <2>1 DEF AllAreHeld, Changing
  <2>2. peer # 0 /\ Live(peer) => peer \in held
    BY DEF PeerIsItsPanes, Changing, Live
  <2>3. peer \in Procs /\ Live(peer) => peer \in out'
    BY <1>4, <2>2
  <2> QED
    BY SMTT(30), <1>1, <1>3, <2>1, <2>3 DEF AllAreHeld, Live, Told, Changing,
       Making, Spawned
<1> QED
  BY <1>6, <1>7, <1>8, <1>9, <1>10, <1>11, <1>12, <1>13, <1>14, <1>15

\* What the tree is, is told: ids clients know of are not beyond the last given.
LEMMA SayKeepsIInv ==
    ASSUME IInv, Say
    PROVE  IInv'
<1> USE DEF IInv, Types, Say, Held, NoUndo, files, session, change, ends,
    history
<1>1. undo' \in UndoType
  BY DEF UndoType, NoTree, NoLinks, States
<1>2. known' \subseteq Ids /\ ever' \subseteq Ids
  OBVIOUS
<1>3. Types'
  BY <1>1, <1>2 DEF Phases, Making, Spawned, Changing
<1>4. Absent'
  BY DEF Absent, Changing, Making, Spawned
<1>5. IdsGoOn'
  BY DEF IdsGoOn, Changing, Making, Spawned, Held, Copies, UndoType, RecordType
<1>6. FoundAtItsPath'
  BY DEF FoundAtItsPath, Listening
<1>7. WordsInOrder'
  BY DEF WordsInOrder, Live
<1>8. LinksAreHeld'
  BY DEF LinksAreHeld, Linked, Told
<1>9. UndoIsHeld'
  BY DEF UndoIsHeld, Linked, Told, Changing, Making, Spawned
<1>10. ClosingIsHeld'
  BY DEF ClosingIsHeld, Told
<1>11. PeerIsItsPanes'
  BY DEF PeerIsItsPanes, Told, Changing, Making, Spawned, Live, Absent
<1>12. AllAreHeld'
  BY DEF AllAreHeld, Live, Told, Changing, Making, Spawned
<1> QED
  BY <1>3, <1>4, <1>5, <1>6, <1>7, <1>8, <1>9, <1>10, <1>11, <1>12

\* Session::settle: the record is written, or stays.
LEMMA SettleKeepsIInv ==
    ASSUME IInv, Settle
    PROVE  IInv'
<1> USE DEF IInv, Types, Settle, Record, Now, files, session, change, ends,
    history
<1>1. Now \in RecordType /\ Now # NoRecord /\ Now.ids = ids /\ Now.tree = tree
  BY RecordsAre
<1>2. Types'
  BY <1>1 DEF Phases, Making, Spawned, Changing, ClosingIsHeld
<1>3. Absent'
  BY DEF Absent, Changing, Making, Spawned
<1>4. IdsGoOn'
  BY <1>1 DEF IdsGoOn, Changing, Making, Spawned, Held, Copies, UndoType,
     RecordType
<1>5. FoundAtItsPath'
  BY DEF FoundAtItsPath, Listening
<1>6. WordsInOrder'
  BY DEF WordsInOrder, Live
<1>7. LinksAreHeld'
  BY DEF LinksAreHeld, Linked, Told
<1>8. UndoIsHeld'
  BY DEF UndoIsHeld, Linked, Told, Changing, Making, Spawned
<1>9. ClosingIsHeld'
  BY DEF ClosingIsHeld, Told
<1>10. PeerIsItsPanes'
  BY DEF PeerIsItsPanes, Told, Changing, Making, Spawned, Live, Absent
<1>11. AllAreHeld'
  BY DEF AllAreHeld, Live, Told, Changing, Making, Spawned
<1> QED
  BY <1>2, <1>3, <1>4, <1>5, <1>6, <1>7, <1>8, <1>9, <1>10, <1>11

\* A record that stayed is written later.
LEMMA ResettleKeepsIInv ==
    ASSUME IInv, Resettle
    PROVE  IInv'
<1> USE DEF IInv, Types, Resettle, Idle, Now, files, session, change, ends,
    history
<1>1. Now \in RecordType /\ Now # NoRecord /\ Now.ids = ids /\ Now.tree = tree
  BY RecordsAre
<1>2. Types'
  BY <1>1 DEF Phases, Making, Spawned, Changing, ClosingIsHeld
<1>3. Absent'
  BY DEF Absent, Changing, Making, Spawned
<1>4. IdsGoOn'
  BY <1>1 DEF IdsGoOn, Changing, Making, Spawned, Held, Copies, UndoType,
     RecordType
<1>5. FoundAtItsPath'
  BY DEF FoundAtItsPath, Listening
<1>6. WordsInOrder'
  BY DEF WordsInOrder, Live
<1>7. LinksAreHeld'
  BY DEF LinksAreHeld, Linked, Told
<1>8. UndoIsHeld'
  BY DEF UndoIsHeld, Linked, Told, Changing, Making, Spawned
<1>9. ClosingIsHeld'
  BY DEF ClosingIsHeld, Told
<1>10. PeerIsItsPanes'
  BY DEF PeerIsItsPanes, Told, Changing, Making, Spawned, Live, Absent
<1>11. AllAreHeld'
  BY DEF AllAreHeld, Live, Told, Changing, Making, Spawned
<1> QED
  BY <1>2, <1>3, <1>4, <1>5, <1>6, <1>7, <1>8, <1>9, <1>10, <1>11

\* Session::told: a shell's pane closes, a program's reads as ended.
LEMMA NewsKeepsIInv ==
    ASSUME IInv, NEW p \in Ids, News(p)
    PROVE  IInv'
<1> USE DEF IInv, Types, News, Idle, Is, Ended, files, session, change,
    ends, history
<1>1. Linked(links) /\ closing = {}
  BY DEF LinksAreHeld, Absent, Changing, Making, Spawned
<1>2. /\ links[p] # 0 /\ links[p] \in held /\ ~Told(links[p]) /\ tree[p] = "runs"
      /\ proc[links[p]].id = p
  BY <1>1 DEF Linked
<1>3. /\ \/ /\ links' = [links EXCEPT ![p] = 0]
            /\ out' = out \union {links[p]}
            /\ tree' = [tree EXCEPT ![p] = "none"]
         \/ /\ links' = links /\ out' = out
            /\ tree' = [tree EXCEPT ![p] = "ended"]
      /\ held' = held /\ at' = "settle" /\ at = "idle" /\ server = "serving"
      /\ stop' \in BOOLEAN
  BY <1>2 DEF Copies, Held
<1>4. UNCHANGED <<files, server, ids, change, peer, todo, crashes, proc, history>>
  OBVIOUS
<1> HIDE DEF News, Ended
<1>5. /\ tree' \in [Ids -> States]
      /\ \A q \in Ids : tree'[q] # "none" => tree[q] # "none"
  BY <1>2, <1>3 DEF States
<1>6. /\ links' \in [Ids -> 0..MaxProcs]
      /\ \A q \in Ids : links'[q] = links[q] \/ (q = p /\ links'[q] = 0)
  BY <1>2, <1>3
<1>7. /\ out \subseteq out' /\ out' \subseteq held
      /\ \A n \in out' : n \in out \/ (n = links[p] /\ links'[p] = 0)
      /\ links'[p] = links[p] \/ links[p] \in out'
  BY <1>2, <1>3
<1>8. Types'
  BY <1>3, <1>4, <1>5, <1>6, <1>7 DEF Types, Phases, Making, Spawned, Changing
<1>9. Absent'
  BY <1>3, <1>4 DEF Absent, Changing, Making, Spawned
<1>10. IdsGoOn'
  BY <1>3, <1>4, <1>5, <1>6 DEF IdsGoOn, Changing, Making, Spawned, Held,
     Copies, UndoType, RecordType
<1>11. FoundAtItsPath'
  BY <1>4 DEF FoundAtItsPath, Listening
<1>12. WordsInOrder'
  BY <1>2, <1>3, <1>4, <1>7 DEF WordsInOrder, Live, Told
<1>13. LinksAreHeld'
  <2>1. ASSUME NEW q \in Ids, links'[q] # 0
        PROVE  /\ proc[links'[q]].id = q /\ links'[q] \in held
               /\ links'[q] \notin out' /\ ~Closes(proc[links'[q]].word)
               /\ proc[links'[q]].state \notin {"closed", "ending"}
    <3>1. links'[q] = links[q] /\ links[q] # 0
      BY <1>6, <2>1
    <3>2. proc[links[q]].id = q /\ links[q] \in held /\ ~Told(links[q])
      BY <1>1, <3>1 DEF Linked
    <3>3. links[q] \notin out'
      BY <1>2, <1>6, <1>7, <2>1, <3>1, <3>2 DEF Told
    <3> QED
      BY <1>4, <3>1, <3>2, <3>3 DEF Told
  <2> QED
    BY <1>3, <1>4, <2>1 DEF LinksAreHeld, Linked, Told
<1>14. UndoIsHeld'
  BY <1>3, <1>4 DEF UndoIsHeld, Linked, Told, Changing, Making, Spawned
<1>15. ClosingIsHeld'
  BY <1>1, <1>4 DEF ClosingIsHeld, Told
<1>16. PeerIsItsPanes'
  BY <1>3, <1>4 DEF PeerIsItsPanes, Told, Changing, Making, Spawned, Live,
     Absent
<1>17. AllAreHeld'
  <2>1. ASSUME NEW n \in Procs, crashes = 0, Live(n), ~Told(n)'
        PROVE  links'[proc[n].id] = n
    <3>1. ~Told(n) /\ n \notin out'
      BY <1>4, <1>7, <2>1 DEF Told
    <3>2. links[proc[n].id] = n
      BY <1>3, <2>1, <3>1 DEF AllAreHeld, Changing, Making, Spawned
    <3>3. proc[n].id \in Ids
      BY <2>1 DEF FoundAtItsPath, Live, Listening
    <3> QED
      BY <1>6, <1>7, <3>1, <3>2, <3>3
  <2> QED
    BY <1>3, <1>4, <2>1 DEF AllAreHeld, Live, Changing, Making, Spawned
<1> QED
  BY <1>8, <1>9, <1>10, <1>11, <1>12, <1>13, <1>14, <1>15, <1>16, <1>17

\* Session::gone: the link goes with the process.
LEMMA LostKeepsIInv ==
    ASSUME IInv, NEW p \in Ids, Lost(p)
    PROVE  IInv'
<1> USE DEF IInv, Types, Lost, Idle, Is, Ended, files, session, change,
    ends, history
<1>1. Linked(links) /\ closing = {}
  BY DEF LinksAreHeld, Absent, Changing, Making, Spawned
<1>2. /\ links[p] # 0 /\ links[p] \in held /\ links[p] \in Procs
      /\ proc[links[p]].id = p /\ proc[links[p]].state = "gone"
      /\ links[p] \notin out
  BY <1>1 DEF Linked, Told
<1>3. /\ \E s \in States : /\ tree' = [tree EXCEPT ![p] = s]
                           /\ tree[p] = "none" => s = "none"
      /\ links' = [links EXCEPT ![p] = 0]
      /\ out' = out /\ held' = held \ {links[p]}
      /\ at' = "settle" /\ at = "idle" /\ server = "serving"
  <2>1. tree[p] \in States
    OBVIOUS
  <2>2. p \in Copies(tree) => tree[p] # "none"
    BY DEF Copies, Held
  <2> QED
    BY <1>2, <2>1, <2>2 DEF States
<1>4. stop' \in BOOLEAN
  OBVIOUS
<1>5. UNCHANGED <<files, server, ids, change, peer, todo, crashes, proc, history>>
  OBVIOUS
<1> HIDE DEF Lost, Ended
<1>6. /\ tree' \in [Ids -> States]
      /\ \A q \in Ids : tree'[q] # "none" => tree[q] # "none"
  BY <1>3
<1>7. /\ links' \in [Ids -> 0..MaxProcs]
      /\ \A q \in Ids : links'[q] = (IF q = p THEN 0 ELSE links[q])
  BY <1>3
<1>8. out' \subseteq held'
  BY <1>2, <1>3
<1>9. Types'
  BY <1>3, <1>4, <1>5, <1>6, <1>7, <1>8 DEF Types, Phases, Making,
     Spawned, Changing
<1>10. Absent'
  BY <1>3, <1>5 DEF Absent, Changing, Making, Spawned
<1>11. IdsGoOn'
  BY <1>3, <1>5, <1>6, <1>7 DEF IdsGoOn, Changing, Making, Spawned, Held,
     Copies, UndoType, RecordType
<1>12. FoundAtItsPath'
  BY <1>5 DEF FoundAtItsPath, Listening
<1>13. WordsInOrder'
  BY <1>3, <1>5 DEF WordsInOrder, Live
<1>14. LinksAreHeld'
  <2>1. ASSUME NEW q \in Ids, links'[q] # 0
        PROVE  /\ proc[links'[q]].id = q /\ links'[q] \in held'
               /\ links'[q] \notin out' /\ ~Closes(proc[links'[q]].word)
               /\ proc[links'[q]].state \notin {"closed", "ending"}
    <3>1. q # p /\ links'[q] = links[q] /\ links[q] # 0
      BY <1>7, <2>1
    <3>2. proc[links[q]].id = q /\ links[q] \in held /\ ~Told(links[q])
      BY <1>1, <3>1 DEF Linked
    <3> QED
      BY <1>2, <1>3, <1>5, <3>1, <3>2 DEF Told
  <2> QED
    BY <1>5, <2>1 DEF LinksAreHeld, Linked, Told
<1>15. UndoIsHeld'
  BY <1>3, <1>5 DEF UndoIsHeld, Linked, Told, Changing, Making, Spawned
<1>16. ClosingIsHeld'
  BY <1>1, <1>5 DEF ClosingIsHeld, Told
<1>17. PeerIsItsPanes'
  BY <1>3, <1>5 DEF PeerIsItsPanes, Told, Changing, Making, Spawned, Live,
     Absent
<1>18. AllAreHeld'
  <2>1. ASSUME NEW n \in Procs, crashes = 0, Live(n), ~Told(n)
        PROVE  links'[proc[n].id] = n
    <3>1. links[proc[n].id] = n
      BY <1>3, <2>1 DEF AllAreHeld, Changing, Making, Spawned
    <3>2. proc[n].id \in Ids /\ n # links[p]
      BY <1>2, <2>1 DEF FoundAtItsPath, Live, Listening
    <3> QED
      BY <1>7, <3>1, <3>2
  <2> QED
    BY <1>3, <1>5, <2>1 DEF AllAreHeld, Live, Told, Changing, Making, Spawned
<1> QED
  BY <1>9, <1>10, <1>11, <1>12, <1>13, <1>14, <1>15, <1>16, <1>17, <1>18

\* The link of a closed pane's process goes once the process has.
LEMMA LetGoKeepsIInv ==
    ASSUME IInv, NEW n \in Procs, LetGo(n)
    PROVE  IInv'
<1> USE DEF IInv, Types, LetGo, Polls, Is, files, session, change, ends,
    history
<1>1. at \notin {"commit", "undo"}
  OBVIOUS
<1>2. Types'
  BY DEF Types, Phases, Making, Spawned, Changing
<1>3. Absent'
  BY DEF Absent, Changing, Making, Spawned
<1>4. IdsGoOn'
  BY DEF IdsGoOn, Changing, Making, Spawned, Held, Copies, UndoType, RecordType
<1>5. FoundAtItsPath'
  BY DEF FoundAtItsPath, Listening
<1>6. WordsInOrder'
  BY DEF WordsInOrder, Live
<1>7. LinksAreHeld'
  BY DEF LinksAreHeld, Linked, Told
<1>8. UndoIsHeld'
  BY DEF UndoIsHeld, Linked, Told, Changing, Making, Spawned
<1>9. ClosingIsHeld'
  <2>1. closing = {}
    BY <1>1 DEF ClosingIsHeld, Absent
  <2> QED
    BY <2>1 DEF ClosingIsHeld
<1>10. PeerIsItsPanes'
  BY DEF PeerIsItsPanes, Told, Changing, Making, Spawned, Live, Absent
<1>11. AllAreHeld'
  BY DEF AllAreHeld, Live, Told, Changing, Making, Spawned
<1> QED
  BY <1>2, <1>3, <1>4, <1>5, <1>6, <1>7, <1>8, <1>9, <1>10, <1>11

\* Server::stop: no record is left to take the run back from.
LEMMA UnrecordRunKeepsIInv ==
    ASSUME IInv, UnrecordRun
    PROVE  IInv'
<1> USE DEF IInv, Types, UnrecordRun, Idle, files, session, change, ends,
    history
<1>1. /\ server' = "stopping" /\ at' = "close" /\ disk' = NoRecord
      /\ UNCHANGED <<socket, session, change, peer, todo, ends, crashes, proc,
                     known, ever>>
      /\ killed' = killed \union Held(tree)
  OBVIOUS
<1>2. killed' \subseteq Ids
  BY <1>1 DEF Held
<1>3. Types'
  BY <1>1, <1>2 DEF Types, Phases, Making, Spawned, Changing
<1>4. Absent'
  BY DEF Absent, Changing, Making, Spawned
<1>5. IdsGoOn'
  BY DEF IdsGoOn, Changing, Making, Spawned, Held, Copies, UndoType, RecordType
<1>6. FoundAtItsPath'
  BY DEF FoundAtItsPath, Listening
<1>7. WordsInOrder'
  BY DEF WordsInOrder, Live
<1>8. LinksAreHeld'
  BY DEF LinksAreHeld, Linked, Told
<1>9. UndoIsHeld'
  BY DEF UndoIsHeld, Linked, Told, Changing, Making, Spawned
<1>10. ClosingIsHeld'
  BY DEF ClosingIsHeld, Told
<1>11. PeerIsItsPanes'
  BY DEF PeerIsItsPanes, Told, Changing, Making, Spawned, Live, Absent
<1>12. AllAreHeld'
  BY DEF AllAreHeld, Live, Told, Changing, Making, Spawned
<1> QED
  BY <1>3, <1>4, <1>5, <1>6, <1>7, <1>8, <1>9, <1>10, <1>11, <1>12

\* Session::shutdown: what it has copies of is told to close.
LEMMA ShutdownKeepsIInv ==
    ASSUME IInv, Shutdown
    PROVE  IInv'
<1> USE DEF IInv, Types, Shutdown, files, session, change, ends, history
<1> DEFINE had == Copies(tree)
<1>1. had \subseteq Ids
  BY DEF Copies, Held
<1>2. /\ out' = out \union ({links[p] : p \in had} \ {0})
      /\ links' = [p \in Ids |-> IF p \in had THEN 0 ELSE links[p]]
      /\ tree' = NoTree /\ at' = "ending" /\ server = "stopping"
      /\ UNCHANGED <<files, server, ids, stop, change, peer, todo, held,
                     crashes, proc, history>>
  OBVIOUS
<1> HIDE DEF had, Shutdown
<1>3. Linked(links)
  BY <1>2 DEF LinksAreHeld
<1>4. \A n \in out' : \/ n \in out
                      \/ \E p \in had : n = links[p] /\ n # 0
  BY <1>2
<1>5. out \subseteq out' /\ \A n \in out' : n \in out \/ (n \in held /\ ~Told(n))
  <2>1. \A p \in had : links[p] # 0 => links[p] \in held /\ ~Told(links[p])
    BY <1>1, <1>3 DEF Linked
  <2> QED
    BY <1>2, <1>4, <2>1
<1>6. links' \in [Ids -> 0..MaxProcs] /\ tree' \in [Ids -> States]
  BY <1>2 DEF NoTree, States
<1>7. closing = {}
  BY <1>2 DEF Absent
<1>8. Types'
  BY <1>2, <1>5, <1>6 DEF Types, Phases, Making, Spawned, Changing
<1>9. Absent'
  BY <1>2 DEF Absent, Changing, Making, Spawned
<1>10. IdsGoOn'
  BY <1>2 DEF IdsGoOn, Changing, Making, Spawned, Held, Copies, UndoType,
     RecordType
<1>11. FoundAtItsPath'
  BY <1>2 DEF FoundAtItsPath, Listening
<1>12. WordsInOrder'
  BY <1>2, <1>5 DEF WordsInOrder, Live, Told
<1>13. LinksAreHeld'
  <2>1. ASSUME NEW q \in Ids, links'[q] # 0
        PROVE  /\ proc[links'[q]].id = q /\ links'[q] \in held
               /\ links'[q] \notin out' /\ ~Closes(proc[links'[q]].word)
               /\ proc[links'[q]].state \notin {"closed", "ending"}
    <3>1. q \notin had /\ links'[q] = links[q] /\ links[q] # 0
      BY <1>2, <2>1
    <3>2. proc[links[q]].id = q /\ links[q] \in held /\ ~Told(links[q])
      BY <1>3, <3>1 DEF Linked
    <3>3. links[q] \notin out'
      <4>1. ASSUME NEW p \in had, links[q] = links[p]
            PROVE  FALSE
        BY <1>1, <1>3, <3>1, <3>2, <4>1 DEF Linked
      <4> QED
        BY <1>4, <3>2, <4>1 DEF Told
    <3> QED
      BY <1>2, <3>1, <3>2, <3>3 DEF Told
  <2> QED
    BY <1>2, <2>1 DEF LinksAreHeld, Linked, Told
<1>14. UndoIsHeld'
  BY <1>2 DEF UndoIsHeld, Linked, Told, Changing, Making, Spawned
<1>15. ClosingIsHeld'
  BY <1>2, <1>7 DEF ClosingIsHeld, Told
<1>16. PeerIsItsPanes'
  BY <1>2 DEF PeerIsItsPanes, Told, Changing, Making, Spawned, Live, Absent
<1>17. AllAreHeld'
  BY <1>2 DEF AllAreHeld, Live, Told, Changing, Making, Spawned
<1> QED
  BY <1>8, <1>9, <1>10, <1>11, <1>12, <1>13, <1>14, <1>15, <1>16, <1>17

\* The server ends once what it told to close has.
LEMMA ExitKeepsIInv ==
    ASSUME IInv, Exit
    PROVE  IInv'
<1> USE DEF IInv, Types, Exit, files, session, change, ends, history
<1>1. closing = {}
  BY DEF Absent
<1>2. Types'
  BY DEF Types, Phases, Making, Spawned, Changing
<1>3. Absent'
  BY DEF Absent, Changing, Making, Spawned
<1>4. IdsGoOn'
  BY DEF IdsGoOn, Changing, Making, Spawned, Held, Copies, UndoType, RecordType
<1>5. FoundAtItsPath'
  BY DEF FoundAtItsPath, Listening
<1>6. WordsInOrder'
  BY DEF WordsInOrder, Live
<1>7. LinksAreHeld'
  BY DEF LinksAreHeld, Linked, Told
<1>8. UndoIsHeld'
  BY DEF UndoIsHeld, Linked, Told, Changing, Making, Spawned
<1>9. ClosingIsHeld'
  BY <1>1 DEF ClosingIsHeld
<1>10. PeerIsItsPanes'
  BY DEF PeerIsItsPanes, Told, Changing, Making, Spawned, Live, Absent
<1>11. AllAreHeld'
  BY DEF AllAreHeld, Live, Told, Changing, Making, Spawned
<1> QED
  BY <1>2, <1>3, <1>4, <1>5, <1>6, <1>7, <1>8, <1>9, <1>10, <1>11

\* A server that is gone leaves its files and the processes, and no more.
LEMMA VanishKeepsIInv ==
    ASSUME IInv, Vanish, UNCHANGED <<files, proc, known, ever, killed>>,
           crashes' \in 1..MaxCrashes, server \in {"taking", "serving", "stopping"}
    PROVE  IInv'
<1> USE DEF IInv, Types, Vanish, files
<1>1. /\ tree' \in [Ids -> States] /\ links' \in [Ids -> 0..MaxProcs]
      /\ undo' \in UndoType
  BY DEF NoTree, NoLinks, NoUndo, UndoType, States
<1>2. Types'
  <2>1. /\ held' \subseteq Procs /\ out' \subseteq held' /\ todo' \subseteq Ids
        /\ closing' \subseteq Procs
    OBVIOUS
  <2>2. Phases'
    BY DEF Phases
  <2>3. disk' \in RecordType \union {NoRecord} /\ crashes' \in 0..MaxCrashes
    OBVIOUS
  <2>4. ids' \in 0..MaxId /\ made' \in 0..MaxId /\ peer' \in 0..MaxProcs
    OBVIOUS
  <2>5. /\ socket' \in [Ids -> 0..MaxProcs] /\ proc' \in ProcType
        /\ known' \subseteq Ids /\ ever' \subseteq Ids /\ killed' \subseteq Ids
    OBVIOUS
  <2> QED
    BY <1>1, <2>1, <2>2, <2>3, <2>4, <2>5
<1>3. Absent'
  BY DEF Absent, Changing, Making, Spawned
<1>4. IdsGoOn'
  BY DEF IdsGoOn, Changing, Making, Spawned, Held, Copies, UndoType, RecordType
<1>5. FoundAtItsPath'
  BY DEF FoundAtItsPath, Listening
<1>6. WordsInOrder'
  BY DEF WordsInOrder, Live
<1>7. LinksAreHeld' /\ UndoIsHeld' /\ ClosingIsHeld' /\ PeerIsItsPanes' /\ AllAreHeld'
  BY DEF LinksAreHeld, UndoIsHeld, ClosingIsHeld, PeerIsItsPanes, AllAreHeld
<1> QED
  BY <1>2, <1>3, <1>4, <1>5, <1>6, <1>7

\* A server crashes.
LEMMA CrashKeepsIInv == ASSUME IInv, Crash PROVE IInv'
<1>1. crashes' \in 1..MaxCrashes /\ server \in {"taking", "serving", "stopping"}
  BY DEF IInv, Types, Crash
<1> QED
  BY <1>1, VanishKeepsIInv DEF Crash, history

\* A server that can't take the run back ends.
LEMMA GivenUpKeepsIInv == ASSUME IInv, Refuse \/ Unrestored PROVE IInv'
<1>1. crashes' \in 1..MaxCrashes /\ server = "taking"
  BY DEF IInv, Types, Absent, Refuse, Unrestored
<1> QED
  BY <1>1, VanishKeepsIInv DEF Refuse, Unrestored, history

\* A server begins to take a run back.
LEMMA StartKeepsIInv ==
    ASSUME IInv, Start
    PROVE  IInv'
<1> USE DEF IInv, Types, Start, files, session, change, ends, history
<1>1. /\ tree = NoTree /\ links = NoLinks /\ closing = {} /\ made = 0
  BY DEF Absent
<1>2. disk \in RecordType /\ ids' \in 0..MaxId /\ todo' \subseteq Ids
  BY DEF RecordType, Copies, Held
<1>3. Types'
  BY <1>1, <1>2 DEF Types, Phases, Making, Spawned, Changing
<1>4. Absent'
  BY DEF Absent, Changing, Making, Spawned
<1>5. IdsGoOn'
  BY <1>1, <1>2 DEF IdsGoOn, Changing, Making, Spawned, Held, Copies,
     UndoType, RecordType, NoTree, NoLinks
<1>6. FoundAtItsPath'
  BY DEF FoundAtItsPath, Listening
<1>7. WordsInOrder'
  BY DEF WordsInOrder, Live
<1>8. LinksAreHeld'
  BY <1>1 DEF LinksAreHeld, Linked, Told, NoLinks
<1>9. UndoIsHeld'
  BY DEF UndoIsHeld, Linked, Told, Changing, Making, Spawned
<1>10. ClosingIsHeld'
  BY DEF ClosingIsHeld, Told
<1>11. PeerIsItsPanes'
  BY DEF PeerIsItsPanes, Told, Changing, Making, Spawned, Live, Absent
<1>12. AllAreHeld'
  BY DEF AllAreHeld, Live, Told, Changing, Making, Spawned
<1> QED
  BY <1>3, <1>4, <1>5, <1>6, <1>7, <1>8, <1>9, <1>10, <1>11, <1>12

\* Untaken::Gone: the pane reads as recorded, its program lost if it ran.
LEMMA TakeGoneKeepsIInv ==
    ASSUME IInv, NEW p \in Ids, TakeGone(p)
    PROVE  IInv'
<1> USE DEF IInv, Types, TakeGone, files, session, change, ends, history
<1>1. /\ tree' \in [Ids -> States]
      /\ \A q \in Ids : q # p => tree'[q] = tree[q]
  BY DEF States
<1>2. /\ p \in todo /\ server = "taking" /\ at = "next"
      /\ todo' = todo \ {p}
      /\ UNCHANGED <<files, server, at, ids, links, stop, change, peer, ends,
                     crashes, proc, history>>
  OBVIOUS
<1> HIDE DEF TakeGone
<1>3. p <= ids
  BY <1>2 DEF IdsGoOn, Copies, Held, Absent
<1>4. Types'
  BY <1>1, <1>2 DEF Types, Phases, Making, Spawned, Changing
<1>5. Absent'
  BY <1>2 DEF Absent, Changing, Making, Spawned
<1>6. IdsGoOn'
  BY <1>1, <1>2, <1>3 DEF IdsGoOn, Changing, Making, Spawned, Held,
     Copies, UndoType, RecordType
<1>7. FoundAtItsPath'
  BY <1>2 DEF FoundAtItsPath, Listening
<1>8. WordsInOrder'
  BY <1>2 DEF WordsInOrder, Live
<1>9. LinksAreHeld'
  BY <1>2 DEF LinksAreHeld, Linked, Told
<1>10. UndoIsHeld'
  BY <1>2 DEF UndoIsHeld, Linked, Told, Changing, Making, Spawned
<1>11. ClosingIsHeld'
  BY <1>2 DEF ClosingIsHeld, Told
<1>12. PeerIsItsPanes'
  BY <1>2 DEF PeerIsItsPanes, Told, Changing, Making, Spawned, Live, Absent
<1>13. AllAreHeld'
  BY <1>2 DEF AllAreHeld, Live, Told, Changing, Making, Spawned
<1> QED
  BY <1>4, <1>5, <1>6, <1>7, <1>8, <1>9, <1>10, <1>11, <1>12, <1>13

\* Session::resume: shells that ended meanwhile are told to close.
LEMMA ResumeKeepsIInv ==
    ASSUME IInv, Resume
    PROVE  IInv'
<1> USE DEF IInv, Types, Resume, files, session, change, ends, history
<1> DEFINE over == {p \in Shells \intersect Ids : tree[p] = "ended"}
<1>1. /\ tree' = [p \in Ids |-> IF p \in over THEN "none" ELSE tree[p]]
      /\ links' = [p \in Ids |-> IF p \in over THEN 0 ELSE links[p]]
      /\ out' = out \union ({links[p] : p \in over} \ {0})
      /\ server = "taking" /\ server' = "serving" /\ at' = "settle" /\ at = "next"
      /\ UNCHANGED <<files, ids, change, peer, todo, held, crashes, proc,
                     history>>
  OBVIOUS
<1>2. stop' \in BOOLEAN
  OBVIOUS
<1>3. over \subseteq Ids
  OBVIOUS
<1> HIDE DEF over, Resume
<1>4. Linked(links)
  BY <1>1 DEF LinksAreHeld
<1>5. \A n \in out' : \/ n \in out
                      \/ \E p \in over : n = links[p] /\ n # 0
  BY <1>1
<1>6. out \subseteq out' /\ \A n \in out' : n \in out \/ (n \in held /\ ~Told(n))
  <2>1. \A p \in over : links[p] # 0 => links[p] \in held /\ ~Told(links[p])
    BY <1>3, <1>4 DEF Linked
  <2> QED
    BY <1>1, <1>5, <2>1
<1>7. /\ links' \in [Ids -> 0..MaxProcs] /\ tree' \in [Ids -> States]
      /\ \A p \in Ids : tree'[p] # "none" => tree[p] # "none"
      /\ \A p \in Ids : links'[p] # 0 => links'[p] = links[p] /\ p \notin over
  BY <1>1 DEF States
<1>8. closing = {} /\ made = 0 /\ crashes > 0
  BY <1>1 DEF Absent
<1>9. peer = 0
  BY <1>1 DEF Absent
<1>10. Types'
  BY <1>1, <1>2, <1>6, <1>7 DEF Types, Phases, Making, Spawned, Changing
<1>11. Absent'
  BY <1>1, <1>8, <1>9 DEF Absent, Changing, Making, Spawned
<1>12. IdsGoOn'
  <2>1. disk # NoRecord /\ ids = disk.ids
    BY <1>1 DEF Absent, IdsGoOn
  <2> QED
    BY <1>1, <1>7, <2>1 DEF IdsGoOn, Changing, Making, Spawned, Held,
       Copies, UndoType, RecordType
<1>13. FoundAtItsPath'
  BY <1>1 DEF FoundAtItsPath, Listening
<1>14. WordsInOrder'
  BY <1>1, <1>6 DEF WordsInOrder, Live, Told
<1>15. LinksAreHeld'
  <2>1. ASSUME NEW q \in Ids, links'[q] # 0
        PROVE  /\ proc[links'[q]].id = q /\ links'[q] \in held
               /\ links'[q] \notin out' /\ ~Closes(proc[links'[q]].word)
               /\ proc[links'[q]].state \notin {"closed", "ending"}
    <3>1. q \notin over /\ links'[q] = links[q] /\ links[q] # 0
      BY <1>7, <2>1
    <3>2. proc[links[q]].id = q /\ links[q] \in held /\ ~Told(links[q])
      BY <1>4, <3>1 DEF Linked
    <3>3. links[q] \notin out'
      <4>1. ASSUME NEW p \in over, links[q] = links[p]
            PROVE  FALSE
        BY <1>3, <1>4, <3>1, <3>2, <4>1 DEF Linked
      <4> QED
        BY <1>5, <3>2, <4>1 DEF Told
    <3> QED
      BY <1>1, <3>1, <3>2, <3>3 DEF Told
  <2> QED
    BY <1>1, <2>1 DEF LinksAreHeld, Linked, Told
<1>16. UndoIsHeld'
  BY <1>1 DEF UndoIsHeld, Linked, Told, Changing, Making, Spawned
<1>17. ClosingIsHeld'
  BY <1>1, <1>8 DEF ClosingIsHeld, Told
<1>18. PeerIsItsPanes'
  BY <1>1 DEF PeerIsItsPanes, Told, Changing, Making, Spawned, Live, Absent
<1>19. AllAreHeld'
  BY <1>1, <1>8 DEF AllAreHeld, Live, Told, Changing, Making, Spawned
<1> QED
  BY <1>10, <1>11, <1>12, <1>13, <1>14, <1>15, <1>16, <1>17, <1>18, <1>19

\* Another run begins: nothing is looked for any more.
LEMMA FreshKeepsIInv ==
    ASSUME IInv, Fresh
    PROVE  IInv'
<1> USE DEF IInv, Types, Fresh, files, session, change, ends, history
<1>1. socket' = NoLinks /\ server' = "fresh"
      /\ UNCHANGED <<disk, at, session, change, peer, todo, ends, crashes, proc,
                     history>>
  OBVIOUS
<1>2. socket' \in [Ids -> 0..MaxProcs] /\ \A p \in Ids : socket'[p] = 0
  BY DEF NoLinks
<1>3. Types'
  BY <1>2 DEF Types, Phases, Making, Spawned, Changing
<1>4. Absent'
  BY DEF Absent, Changing, Making, Spawned
<1>5. IdsGoOn'
  BY DEF IdsGoOn, Changing, Making, Spawned, Held, Copies, UndoType, RecordType
<1>6. FoundAtItsPath'
  BY <1>1, <1>2 DEF FoundAtItsPath, Listening
<1>7. WordsInOrder'
  BY DEF WordsInOrder, Live
<1>8. LinksAreHeld'
  BY DEF LinksAreHeld, Linked, Told
<1>9. UndoIsHeld'
  BY DEF UndoIsHeld, Linked, Told, Changing, Making, Spawned
<1>10. ClosingIsHeld'
  BY DEF ClosingIsHeld, Told
<1>11. PeerIsItsPanes'
  BY DEF PeerIsItsPanes, Told, Changing, Making, Spawned, Live, Absent
<1>12. AllAreHeld'
  BY DEF AllAreHeld, Live, Told, Changing, Making, Spawned
<1> QED
  BY <1>3, <1>4, <1>5, <1>6, <1>7, <1>8, <1>9, <1>10, <1>11, <1>12

\* socket::start_pane refuses a path a process listens at, or can't start it:
\* at most a socket no process listens at goes.
LEMMA SpawnFailsKeepsIInv ==
    ASSUME IInv, server = "serving", at = "spawn", at' = "undo",
           UNCHANGED <<disk, server, session, change, peer, todo, ends, crashes,
                       proc, history>>,
           \/ socket' = socket
           \/ ~Listens(made) /\ socket' = [socket EXCEPT ![made] = 0]
    PROVE  IInv'
<1> USE DEF IInv, Types, session, change, ends, history
<1>1. socket' \in [Ids -> 0..MaxProcs]
  OBVIOUS
<1>2. FoundAtItsPath'
  <2>1. CASE socket' = socket
    BY <2>1 DEF FoundAtItsPath, Listening
  <2>2. CASE ~Listens(made) /\ socket' = [socket EXCEPT ![made] = 0]
    <3>1. ASSUME NEW n \in Procs, Listening(n)
          PROVE  socket'[proc[n].id] = n
      <4>1. socket[proc[n].id] = n /\ proc[n].id \in Ids
        BY <3>1 DEF FoundAtItsPath
      <4>2. proc[n].id # made
        BY <2>2, <3>1, <4>1 DEF Listens, Is, Listening
      <4> QED
        BY <2>2, <4>1, <4>2
    <3>2. \A p \in Ids : socket'[p] = 0 \/ socket'[p] = socket[p]
      BY <2>2
    <3> QED
      BY <3>1, <3>2 DEF FoundAtItsPath, Listening
  <2> QED
    BY <2>1, <2>2
<1>3. Types' /\ Absent' /\ IdsGoOn'
  BY <1>1 DEF Phases, Absent, IdsGoOn, Changing, Making, Spawned, Held,
     Copies, UndoType, RecordType
<1>4. WordsInOrder' /\ LinksAreHeld' /\ UndoIsHeld' /\ ClosingIsHeld'
  BY DEF WordsInOrder, Live, LinksAreHeld, Linked, Told, ClosingIsHeld,
     Told, UndoIsHeld, Changing, Making
<1>5. PeerIsItsPanes'
  BY DEF PeerIsItsPanes, Told, Changing, Making, Spawned, Live, Absent
<1>6. AllAreHeld'
  BY DEF AllAreHeld, Live, Told, Changing, Making, Spawned, Absent
<1> QED
  BY <1>2, <1>3, <1>4, <1>5, <1>6

\* socket::start_pane starts a process, found at its pane's path.
LEMMA SpawnStartsKeepsIInv ==
    ASSUME IInv, server = "serving", at = "spawn", at' = "reach",
           ~Listens(made), NEW n \in Procs, proc[n] = NoProc,
           proc' = [proc EXCEPT ![n] = [NoProc EXCEPT !.id = made,
                                                      !.state = "starting"]],
           socket' = [socket EXCEPT ![made] = n], peer' = n,
           UNCHANGED <<disk, server, session, change, todo, ends, crashes,
                       history>>
    PROVE  IInv'
<1> USE DEF IInv, Types, session, change, ends, history
<1>1. /\ made \in Ids /\ made = undo.ids + 1 /\ undo.ids \in 0..MaxId
      /\ links \in [Ids -> 0..MaxProcs] /\ undo.links \in [Ids -> 0..MaxProcs]
  BY DEF IdsGoOn, Making, Spawned, Changing, UndoType
<1>2. /\ proc'[n] = [id |-> made, state |-> "starting", runs |-> FALSE,
                     link |-> "none", word |-> <<>>]
      /\ proc'[n].id = made /\ proc'[n].state = "starting"
      /\ proc'[n].word = <<>>
      /\ \A m \in Procs \ {n} : proc'[m] = proc[m]
  BY DEF ProcType, NoProc
<1>3. proc' \in ProcType
  <2>1. [NoProc EXCEPT !.id = made, !.state = "starting"] \in ProcessType
    BY <1>1, WordsAre DEF NoProc, ProcessType, ProcStates
  <2> QED
    BY <2>1, ProcessChanges
<1>4. proc[n].state = "none" /\ proc[n].id = 0 /\ n \notin held /\ n \notin out
  BY DEF NoProc, WordsInOrder
<1>5. /\ \A p \in Ids : undo.links[p] # n /\ links[p] # n
      /\ links[made] = 0 /\ undo.links[made] = 0
  <2>1. Linked(links) /\ Linked(undo.links)
    BY DEF LinksAreHeld, UndoIsHeld, Changing, Making
  <2>2. \A p \in Ids : undo.links[p] # n /\ links[p] # n
    BY <1>4, <2>1 DEF Linked
  <2>3. undo.links[made] = 0
    BY SMTT(30), <1>1 DEF IdsGoOn, Changing, Making
  <2>4. links[made] = 0
    BY DEF PeerIsItsPanes, Making
  <2> QED
    BY <2>2, <2>3, <2>4
<1>6. socket' \in [Ids -> 0..MaxProcs] /\ n # 0
  BY SMTT(30), <1>1
<1>7. FoundAtItsPath'
  <2>1. ASSUME NEW m \in Procs, m # n, Listening(m)
        PROVE  socket'[proc[m].id] = m /\ proc[m].id \in Ids
    <3>1. socket[proc[m].id] = m /\ proc[m].id \in Ids
      BY <2>1 DEF FoundAtItsPath
    <3>2. proc[m].id # made
      BY <2>1, <3>1 DEF Listens, Is, Listening
    <3> QED
      BY <3>1, <3>2
  <2>2. socket'[made] = n
    BY <1>1
  <2>3. \A p \in Ids : p # made => socket'[p] = socket[p]
    OBVIOUS
  <2>4. ASSUME NEW p \in Ids, socket'[p] # 0
        PROVE  proc'[socket'[p]].id = p
    <3>1. CASE p = made
      BY <1>2, <2>2, <3>1
    <3>2. CASE p # made
      <4>1. socket[p] # 0 /\ socket'[p] = socket[p] /\ proc[socket[p]].id = p
        BY <2>3, <2>4, <3>2 DEF FoundAtItsPath
      <4>2. socket[p] # n /\ socket[p] \in Procs
        BY <1>4, <4>1
      <4> QED
        BY <1>2, <4>1, <4>2
    <3> QED
      BY <3>1, <3>2
  <2> QED
    BY SMTT(30), <1>1, <1>2, <2>1, <2>2, <2>4 DEF FoundAtItsPath, Listening
<1>8. Types' /\ Absent'
  <2>1. peer' \in 0..MaxProcs
    BY <1>6
  <2>2. Types'
    BY <1>3, <1>6, <2>1 DEF Types, Phases, Making, Spawned, Changing
  <2>3. Absent'
    BY DEF Absent, Changing, Making, Spawned
  <2> QED
    BY <2>2, <2>3
<1>9. IdsGoOn'
  BY DEF IdsGoOn, Changing, Making, Spawned, Held, Copies, UndoType, RecordType
<1>10. WordsInOrder'
  BY <1>2, <1>4 DEF WordsInOrder, Live
<1>11. \A m \in Procs : m # n => (Told(m)' <=> Told(m))
  BY <1>2 DEF Told
<1>12. LinksAreHeld' /\ UndoIsHeld'
  BY <1>2, <1>5, <1>11 DEF LinksAreHeld, UndoIsHeld, Linked, Told,
     Changing, Making
<1>13. closing = {}
  BY DEF Absent
<1>14. ClosingIsHeld'
  BY <1>13 DEF ClosingIsHeld
<1>15. ~Told(n)'
  <2>1. ~Closes(proc'[n].word)
    BY <1>2, WordsAre
  <2> QED
    BY <1>2, <1>4, <2>1 DEF Told
<1>16. PeerIsItsPanes'
  <2>1. peer' = n /\ proc'[n].id = made /\ proc'[n].state = "starting"
        /\ proc'[n].word = <<>>
    BY <1>2
  <2>2. n # 0 /\ made # 0 /\ links[made] = 0
    BY <1>1, <1>5
  <2> QED
    BY <1>15, <2>1, <2>2 DEF PeerIsItsPanes, Changing, Making, Spawned
<1>17. AllAreHeld'
  BY <1>2, <1>11 DEF AllAreHeld, Live, Changing, Making, Spawned, Absent
<1> QED
  BY <1>7, <1>8, <1>9, <1>10, <1>12, <1>14, <1>16, <1>17

\* Session::start_pane's process: started, or not.
LEMMA SpawnKeepsIInv == ASSUME IInv, Spawn PROVE IInv'
<1>1. CASE at' = "undo"
  BY <1>1, SpawnFailsKeepsIInv DEF Spawn, ends, history
<1>2. CASE at' # "undo"
  <2>1. PICK n \in Procs :
           /\ proc[n] = NoProc
           /\ proc' = [proc EXCEPT ![n] = [NoProc EXCEPT !.id = made,
                                                         !.state = "starting"]]
           /\ socket' = [socket EXCEPT ![made] = n]
           /\ peer' = n
    BY <1>2 DEF Spawn
  <2>2. /\ server = "serving" /\ at = "spawn" /\ at' = "reach" /\ ~Listens(made)
        /\ UNCHANGED <<disk, server, session, change, todo, ends, crashes,
                       history>>
    BY <1>2 DEF Spawn
  <2> QED
    BY <2>1, <2>2, SpawnStartsKeepsIInv
<1> QED
  BY <1>1, <1>2

\* The server reaches the process it started, or finds it gone.
LEMMA ReachKeepsIInv ==
    ASSUME IInv, Reach
    PROVE  IInv'
<1> USE DEF IInv, Types, Reach, files, session, change, ends, history
<1>1. /\ peer \in Procs /\ proc[peer].id = made /\ ~Told(peer)
      /\ proc[peer].state \in {"starting", "gone"} /\ proc[peer].word = <<>>
  BY DEF PeerIsItsPanes, Changing, Making, Spawned
<1>2. \/ /\ proc[peer].state = "starting" /\ at' = "begin"
         /\ proc' = [proc EXCEPT ![peer].link = "up"]
         /\ held' = held \union {peer}
      \/ /\ proc[peer].state = "gone" /\ at' = "undo"
         /\ UNCHANGED <<proc, held>>
  BY <1>1 DEF Alive, Is
<1>3. /\ server = "serving" /\ at = "reach"
      /\ UNCHANGED <<files, server, session, change, peer, todo, out, crashes,
                     history>>
  OBVIOUS
<1> HIDE DEF Reach
<1>4. /\ \A m \in Procs : /\ proc'[m].id = proc[m].id
                          /\ proc'[m].state = proc[m].state
                          /\ proc'[m].word = proc[m].word
                          /\ m # peer => proc'[m] = proc[m]
      /\ proc' \in ProcType
  <2>1. CASE proc' = proc
    BY <2>1
  <2>2. CASE proc' = [proc EXCEPT ![peer].link = "up"]
    BY SMTT(30), <1>1, <2>2 DEF ProcType
  <2> QED
    BY <1>2, <2>1, <2>2
<1>5. /\ at' = "begin" => proc'[peer].link = "up" /\ peer \in held'
      /\ held \subseteq held' /\ held' \subseteq held \union {peer}
      /\ at' = "undo" => proc' = proc /\ proc[peer].state = "gone"
      /\ at' \in {"begin", "undo"}
  BY <1>1, <1>2 DEF ProcType
<1>6. \A m \in Procs : Told(m)' <=> Told(m)
  BY <1>3, <1>4 DEF Told
<1>7. Types'
  BY <1>1, <1>3, <1>4, <1>5 DEF Types, Phases, Making, Spawned, Changing
<1>8. Absent'
  BY <1>3, <1>5 DEF Absent, Changing, Making, Spawned
<1>9. IdsGoOn'
  BY <1>3, <1>5 DEF IdsGoOn, Changing, Making, Spawned, Held, Copies,
     UndoType, RecordType
<1>10. FoundAtItsPath'
  <2>1. \A p \in Ids : socket[p] # 0 => socket[p] \in Procs
    OBVIOUS
  <2> QED
    BY <1>3, <1>4, <2>1 DEF FoundAtItsPath, Listening
<1>11. WordsInOrder'
  BY <1>1, <1>2, <1>3, <1>4, <1>5 DEF WordsInOrder, Live
<1>12. LinksAreHeld'
  BY <1>3, <1>4, <1>5, <1>6 DEF LinksAreHeld, Linked
<1>13. UndoIsHeld'
  <2>1. undo.links \in [Ids -> 0..MaxProcs]
    BY DEF UndoType
  <2> QED
    BY <1>3, <1>4, <1>5, <1>6, <2>1 DEF UndoIsHeld, Linked, Changing,
       Making, Spawned
<1>14. ClosingIsHeld'
  BY <1>3, <1>5, <1>6 DEF ClosingIsHeld
<1>15. PeerIsItsPanes'
  BY <1>1, <1>3, <1>4, <1>5, <1>6 DEF PeerIsItsPanes, Changing, Making,
     Spawned, Live
<1>16. AllAreHeld'
  BY <1>1, <1>3, <1>4, <1>5, <1>6 DEF AllAreHeld, Changing, Making,
     Spawned, Live
<1> QED
  BY <1>7, <1>8, <1>9, <1>10, <1>11, <1>12, <1>13, <1>14, <1>15, <1>16

\* Link::start says begin to the process, or finds it gone.
LEMMA SayBeginKeepsIInv ==
    ASSUME IInv, SayBegin
    PROVE  IInv'
<1> USE DEF IInv, Types, SayBegin, files, session, change, ends, history
<1>1. /\ peer \in Procs /\ proc[peer].id = made /\ ~Told(peer)
      /\ proc[peer].state \in {"starting", "gone"} /\ proc[peer].word = <<>>
      /\ Live(peer) => peer \in held
      /\ made \in Ids /\ links[made] = 0 /\ undo.links[made] = 0
  <2>1. peer \in Procs /\ made \in Ids /\ links[made] = 0
    BY DEF PeerIsItsPanes, Changing, Making, Spawned, IdsGoOn
  <2>2. undo.links[made] = 0
    BY <2>1 DEF IdsGoOn, Changing, Making, Spawned, UndoType
  <2> QED
    BY <2>1, <2>2 DEF PeerIsItsPanes, Changing, Making, Spawned
<1>2. \/ /\ proc[peer].state = "starting" /\ at' = "wait" /\ held' = held
         /\ proc' = [proc EXCEPT ![peer].word = <<"begin">>]
      \/ /\ proc[peer].state = "gone" /\ at' = "undo"
         /\ proc' = proc /\ held' = held \ {peer}
  BY <1>1 DEF Alive, Is
<1>3. /\ server = "serving" /\ at = "begin"
      /\ UNCHANGED <<files, server, session, change, peer, todo, out, crashes,
                     history>>
  OBVIOUS
<1> HIDE DEF SayBegin
<1>4. /\ proc' \in ProcType
      /\ \A m \in Procs : /\ proc'[m].id = proc[m].id
                          /\ proc'[m].state = proc[m].state
                          /\ proc'[m].link = proc[m].link
                          /\ m # peer => proc'[m] = proc[m]
  <2>1. CASE proc' = proc
    BY <2>1
  <2>2. CASE proc' = [proc EXCEPT ![peer].word = <<"begin">>]
    <3>1. <<"begin">> \in Words
      BY WordsAre
    <3> QED
      BY <1>1, <2>2, <3>1 DEF ProcType
  <2> QED
    BY <1>2, <2>1, <2>2
<1>5. /\ at' = "wait" => /\ proc'[peer].word = <<"begin">> /\ held' = held
                         /\ proc[peer].state = "starting"
      /\ at' = "undo" => /\ proc' = proc /\ held' = held \ {peer}
                         /\ proc[peer].state = "gone"
      /\ at' \in {"wait", "undo"}
  <2>1. CASE proc' = [proc EXCEPT ![peer].word = <<"begin">>]
    <3>1. proc'[peer].word = <<"begin">>
      BY <1>1, <2>1 DEF ProcType
    <3> QED
      BY <1>1, <1>2, <3>1
  <2>2. CASE proc' = proc /\ at' = "undo"
    BY <1>2, <2>2
  <2> QED
    BY <1>2, <2>1, <2>2
<1>6. \A m \in Procs : Told(m)' <=> Told(m)
  <2>1. ~Closes(proc[peer].word) /\ ~Closes(proc'[peer].word)
    <3>1. proc[peer].word = <<>> /\ (proc'[peer].word = <<>> \/ proc'[peer].word = <<"begin">>)
      BY <1>1, <1>5
    <3> QED
      BY <3>1, WordsAre
  <2> QED
    BY <1>3, <1>4, <2>1 DEF Told
<1>7. out' \subseteq held'
  BY <1>1, <1>3, <1>5 DEF Told
<1>8. \A p \in Ids : links[p] # peer /\ undo.links[p] # peer
  <2>1. Linked(links) /\ Linked(undo.links) /\ peer # 0
    BY <1>1, <1>3 DEF LinksAreHeld, UndoIsHeld, Changing, Making, Spawned
  <2> HIDE DEF IInv
  <2> QED
    BY <1>1, <2>1 DEF Linked
<1>9. closing = {}
  BY <1>3 DEF Absent
<1>10. Types'
  BY <1>1, <1>3, <1>4, <1>5, <1>7 DEF Types, Phases, Making, Spawned, Changing
<1>11. Absent'
  BY <1>3, <1>5 DEF Absent, Changing, Making, Spawned
<1>12. IdsGoOn'
  BY <1>3, <1>5 DEF IdsGoOn, Changing, Making, Spawned, Held, Copies,
     UndoType, RecordType
<1>13. FoundAtItsPath'
  <2>1. \A p \in Ids : socket[p] # 0 => socket[p] \in Procs
    OBVIOUS
  <2> QED
    BY <1>3, <1>4, <2>1 DEF FoundAtItsPath, Listening
<1>14. WordsInOrder'
  BY <1>1, <1>3, <1>4, <1>5 DEF WordsInOrder, Live, Told
<1>15. LinksAreHeld'
  BY <1>3, <1>4, <1>5, <1>6, <1>8 DEF LinksAreHeld, Linked
<1>16. UndoIsHeld'
  <2>1. undo.links \in [Ids -> 0..MaxProcs]
    BY DEF UndoType
  <2> QED
    BY <1>3, <1>4, <1>5, <1>6, <1>8, <2>1
       DEF UndoIsHeld, Linked, Changing, Making, Spawned
<1>17. ClosingIsHeld'
  BY <1>3, <1>9 DEF ClosingIsHeld
<1>18. PeerIsItsPanes'
  BY <1>1, <1>3, <1>4, <1>5, <1>6 DEF PeerIsItsPanes, Changing, Making,
     Spawned, Live
<1>19. AllAreHeld'
  BY <1>1, <1>3, <1>4, <1>5, <1>6 DEF AllAreHeld, Changing, Making,
     Spawned, Live
<1> QED
  BY <1>10, <1>11, <1>12, <1>13, <1>14, <1>15, <1>16, <1>17, <1>18, <1>19

\* A process goes on by itself: what it may do whatever the server is at.  It
\* never listens or lives again, is not told to close but by its server, and
\* one with no word yet only goes.
LEMMA ProcessGoesOn ==
    ASSUME IInv, NEW n \in Procs, proc' \in ProcType,
           UNCHANGED <<OfServer, known, ever, killed>>,
           \A q \in Procs \ {n} : proc'[q] = proc[q],
           proc'[n].id = proc[n].id, proc'[n].state # "none",
           proc[n].state \notin {"none", "gone"},
           ~Told(n) => ~Told(n)',
           Live(n)' => Live(n), Live(n)' /\ ~Told(n)' => ~Told(n),
           Listening(n)' => Listening(n),
           \/ socket' = socket
           \/ Unlinked(n) /\ Listening(n) /\ ~Listening(n)',
           proc[n].state = "starting" /\ proc[n].word = <<>> =>
               proc'[n].state = "gone" /\ proc'[n].word = <<>>,
           Live(n)' /\ proc'[n].link # "up" => proc'[n].word = <<>> /\ n \notin held,
           proc'[n].state = "open" => proc'[n].word \in {<<>>, <<"close">>},
           ~Live(n)' => proc'[n].word = <<>>,
           n \in out => ~Closes(proc'[n].word) /\ proc'[n].state \notin {"closed", "ending"}
    PROVE  IInv'
<1> USE DEF IInv, Types, OfServer, session, change, ends
<1>1. /\ \A m \in Procs : /\ proc'[m].id = proc[m].id
                          /\ ~Told(m) => ~Told(m)'
                          /\ Live(m)' => Live(m)
                          /\ Live(m)' /\ ~Told(m)' => ~Told(m)
                          /\ Listening(m)' => Listening(m)
  BY DEF Told, Live, Listening
<1>2. Types'
  <2>1. socket' \in [Ids -> 0..MaxProcs]
    BY SMTT(30) DEF Unlinked
  <2> QED
    BY <2>1 DEF Types, Phases, Making, Spawned, Changing
<1>3. Absent' /\ IdsGoOn'
  BY DEF Absent, Changing, Making, Spawned, IdsGoOn, Changing, Making,
     Spawned, Held, Copies, UndoType, RecordType
<1>4. FoundAtItsPath'
  <2>1. \A p \in Ids : socket'[p] = 0 \/ socket'[p] = socket[p]
    BY DEF Unlinked
  <2>2. ASSUME NEW m \in Procs, Listening(m)', server # "fresh"
        PROVE  socket'[proc[m].id] = m
    <3>1. Listening(m) /\ socket[proc[m].id] = m /\ proc[m].id \in Ids
      BY <1>1, <2>2 DEF FoundAtItsPath
    <3>2. CASE socket' = socket
      BY <3>1, <3>2
    <3>3. CASE Unlinked(n) /\ Listening(n) /\ ~Listening(n)'
      <4>1. m # n /\ proc[n].id # proc[m].id
        BY SMTT(30), <2>2, <3>1, <3>3 DEF FoundAtItsPath
      <4> QED
        BY <3>1, <3>3, <4>1 DEF Unlinked
    <3> QED
      BY <3>2, <3>3
  <2>3. \A m \in Procs : Listening(m)' => proc'[m].id \in Ids
    BY <1>1 DEF FoundAtItsPath
  <2>4. ASSUME NEW p \in Ids, socket'[p] # 0
        PROVE  proc'[socket'[p]].id = p
    <3>1. /\ socket'[p] = socket[p] /\ proc[socket[p]].id = p
          /\ socket[p] \in Procs
      BY <2>1, <2>4 DEF FoundAtItsPath
    <3> QED
      BY <1>1, <3>1
  <2> QED
    BY <1>1, <2>2, <2>3, <2>4 DEF FoundAtItsPath
<1>5. WordsInOrder'
  BY DEF WordsInOrder, Live
<1>6. LinksAreHeld' /\ ClosingIsHeld'
  BY <1>1 DEF LinksAreHeld, Linked, ClosingIsHeld
<1>7. UndoIsHeld'
  <2>1. undo.links \in [Ids -> 0..MaxProcs]
    BY DEF UndoType
  <2> QED
    BY <1>1, <2>1 DEF UndoIsHeld, Linked, Changing, Making, Spawned
<1>8. PeerIsItsPanes'
  <2>1. ASSUME peer = n
        PROVE  proc[peer].state \in {"starting", "gone"} /\ proc[peer].word = <<>>
                => proc'[peer].state \in {"starting", "gone"} /\ proc'[peer].word = <<>>
    BY <2>1
  <2>2. peer # 0 /\ peer # n => proc'[peer] = proc[peer]
    OBVIOUS
  <2> QED
    BY <1>1, <2>1, <2>2 DEF PeerIsItsPanes, Changing, Making, Spawned
<1>9. AllAreHeld'
  BY <1>1 DEF AllAreHeld, Changing, Making, Spawned
<1> QED
  BY <1>2, <1>3, <1>4, <1>5, <1>6, <1>7, <1>8, <1>9

\* A process that ends, with its socket or without.
LEMMA GoneKeepsIInv ==
    ASSUME IInv, NEW n \in Procs, Alive(n), Gone(n),
           UNCHANGED <<OfServer, known, ever, killed>>,
           \/ socket' = socket
           \/ Unlinked(n) /\ Is(n, {"starting"})
    PROVE  IInv'
<1>1. /\ proc'[n] = [id |-> proc[n].id, state |-> "gone", runs |-> FALSE,
                     link |-> "none", word |-> <<>>]
      /\ \A q \in Procs \ {n} : proc'[q] = proc[q]
      /\ proc[n].state \notin {"none", "gone"}
  BY DEF IInv, Types, ProcType, Gone, Goes, NoProc, Alive, Is
<1>2. proc' \in ProcType
  <2>1. [Goes EXCEPT !.id = proc[n].id] \in ProcessType
    BY WordsAre DEF IInv, Types, ProcType, ProcessType, ProcStates,
       Goes, NoProc
  <2> QED
    BY <2>1, ProcessChanges DEF IInv, Types, Gone
<1>3. /\ ~Told(n) => ~Told(n)'
      /\ ~Live(n)' /\ ~Listening(n)'
  BY <1>1, WordsAre DEF Told, Live, Listening, OfServer, ends
<1>4. n \in out => ~Closes(proc'[n].word) /\ proc'[n].state \notin {"closed", "ending"}
  BY <1>1, WordsAre
<1>5. socket' = socket \/ (Unlinked(n) /\ Listening(n) /\ ~Listening(n)')
  BY <1>3 DEF Is, Listening
<1> QED
  BY <1>1, <1>2, <1>3, <1>4, <1>5, ProcessGoesOn

\* A process reads its first word.
LEMMA FirstWordKeepsIInv ==
    ASSUME IInv, NEW n \in Procs, FirstWord(n) PROVE IInv'
<1>1. CASE Gone(n)
  <2>1. /\ UNCHANGED <<OfServer, known, ever, killed>>
        /\ Alive(n)
        /\ socket' = socket \/ (Unlinked(n) /\ Is(n, {"starting"}))
    BY DEF FirstWord, Alive, Is
  <2> QED
    BY <1>1, <2>1, GoneKeepsIInv
<1>2. CASE ~Gone(n)
  <2>1. /\ proc' = [proc EXCEPT ![n].state = "open", ![n].runs = TRUE,
                                ![n].word = Tail(@)]
        /\ proc[n].word # <<>> /\ Head(proc[n].word) = "begin"
        /\ proc[n].state = "starting"
        /\ UNCHANGED <<OfServer, socket, known, ever, killed>>
    BY <1>2 DEF FirstWord, Is
  <2>2. /\ proc[n] \in [id : 0..MaxId, state : ProcStates, runs : BOOLEAN,
                        link : {"none", "up", "down"}, word : Words]
        /\ \A q \in Procs \ {n} : proc'[q] = proc[q]
    BY <2>1 DEF IInv, Types, ProcType
  <2>3. proc[n].word \in Words
    BY <2>2
  <2>4. /\ proc'[n].id = proc[n].id /\ proc'[n].state = "open"
        /\ proc'[n].link = proc[n].link /\ proc'[n].runs = TRUE
        /\ proc'[n].word = Tail(proc[n].word)
    BY <2>1 DEF IInv, Types, ProcType
  <2>5. /\ proc'[n].word \in {<<>>, <<"close">>} /\ proc'[n].word \in Words
        /\ Closes(proc[n].word) <=> Closes(proc'[n].word)
    <3>1. \/ proc[n].word = <<"begin">> /\ proc'[n].word = <<>>
          \/ proc[n].word = <<"begin", "close">> /\ proc'[n].word = <<"close">>
      BY <2>1, <2>3, <2>4, FirstWords
    <3>2. Closes(proc[n].word) <=> Closes(proc'[n].word)
      BY <2>1, <2>3, <2>4, FirstWords
    <3>3. proc'[n].word \in Words
      BY <3>1, WordsAre
    <3> QED
      BY <3>1, <3>2, <3>3
  <2>6. proc' \in ProcType
    BY <2>1, <2>2, <2>5 DEF IInv, Types, ProcType, ProcStates
  <2>8. Told(n)' <=> Told(n)
    BY <2>1, <2>4, <2>5 DEF Told, OfServer, ends
  <2>9. proc[n].link = "up"
    BY <2>1 DEF IInv, WordsInOrder, Live
  <2>10. n \in out => ~Closes(proc'[n].word)
    BY <2>5 DEF IInv, WordsInOrder
  <2>11. /\ Live(n) /\ Live(n)' /\ Listening(n) /\ Listening(n)'
         /\ proc'[n].word \in {<<>>, <<"close">>}
    BY <2>1, <2>4, <2>5 DEF Live, Listening
  <2> QED
    BY <2>1, <2>2, <2>4, <2>6, <2>8, <2>9, <2>10, <2>11, ProcessGoesOn
<1> QED
  BY <1>1, <1>2

\* A process whose server went before its first word, or which its program
\* left, or which dies, is gone.
LEMMA EndsKeepIInv ==
    ASSUME IInv, NEW n \in Procs, NoWord(n) \/ Finish(n) \/ Die(n) PROVE IInv'
<1>1. /\ Alive(n) /\ Gone(n)
      /\ UNCHANGED <<OfServer, known, ever, killed>>
      /\ socket' = socket \/ (Unlinked(n) /\ Is(n, {"starting"}))
  BY DEF NoWord, Finish, Die, Alive, Is, history
<1> QED
  BY <1>1, GoneKeepsIInv

\* A process reads its Close, removes its socket, or sees its link closed or
\* its program end.
LEMMA GoesOnKeepsIInv ==
    ASSUME IInv, NEW n \in Procs,
           HearClose(n) \/ LinkLost(n) \/ Unbind(n) \/ ProgramEnds(n)
    PROVE  IInv'
<1>1. /\ proc[n] \in [id : 0..MaxId, state : ProcStates, runs : BOOLEAN,
                      link : {"none", "up", "down"}, word : Words]
      /\ proc[n].state \in {"open", "closed"}
      /\ UNCHANGED <<OfServer, known, ever, killed>>
  BY DEF IInv, Types, ProcType, HearClose, LinkLost, Unbind, ProgramEnds, Is,
         history
<1>2. /\ proc[n].state = "open" => proc[n].word \in {<<>>, <<"close">>}
      /\ proc[n].state = "closed" => proc[n].word = <<>>
      /\ Live(n) /\ proc[n].link # "up" => proc[n].word = <<>> /\ n \notin held
      /\ n \in out => ~Closes(proc[n].word) /\ proc[n].state \notin {"closed", "ending"}
  BY DEF IInv, WordsInOrder
<1>3. CASE HearClose(n)
  <2>1. proc[n].state = "open" /\ proc[n].word = <<"close">> /\ socket' = socket
    BY <1>2, <1>3 DEF HearClose, Is
  <2>2. /\ proc'[n].id = proc[n].id /\ proc'[n].state = "closed"
        /\ proc'[n].runs = FALSE /\ proc'[n].link = proc[n].link
        /\ proc'[n].word = Tail(proc[n].word)
        /\ \A q \in Procs \ {n} : proc'[q] = proc[q]
    BY <1>1, <1>3, <2>1 DEF HearClose, IInv, Types, ProcType
  <2>3. Tail(proc[n].word) = <<>> /\ <<>> \in Words
    BY <2>1, FirstWords, WordsAre
  <2>4. proc' \in ProcType
    BY <1>1, <1>3, <2>2, <2>3 DEF HearClose, IInv, Types, ProcType, ProcStates
  <2>5. Told(n) /\ n \notin out
    BY <1>2, <2>1 DEF Told, Closes
  <2>6. ~Live(n)' /\ Listening(n)
    BY <2>1, <2>2 DEF Live, Listening
  <2> QED
    BY <1>1, <2>1, <2>2, <2>3, <2>4, <2>5, <2>6, ProcessGoesOn
<1>4. CASE LinkLost(n)
  <2>1. /\ proc[n].state = "open" /\ proc[n].word = <<>> /\ n \notin held
        /\ socket' = socket
    BY <1>4 DEF LinkLost, Is
  <2>2. /\ proc'[n].id = proc[n].id /\ proc'[n].state = "open"
        /\ proc'[n].runs = proc[n].runs /\ proc'[n].link = "down"
        /\ proc'[n].word = proc[n].word
        /\ \A q \in Procs \ {n} : proc'[q] = proc[q]
    BY <1>1, <1>4, <2>1 DEF LinkLost, IInv, Types, ProcType
  <2>3. proc[n].word \in Words
    BY <1>1, <2>1
  <2>4. proc' \in ProcType
    BY <1>1, <1>4, <2>2, <2>3 DEF LinkLost, IInv, Types, ProcType, ProcStates
  <2>5. Told(n)' <=> Told(n)
    BY <1>1, <2>1, <2>2 DEF Told, OfServer, ends
  <2>6. Live(n)' /\ Live(n) /\ Listening(n)
    BY <2>1, <2>2 DEF Live, Listening
  <2>7. n \notin out
    BY <2>1 DEF IInv, Types
  <2> QED
    BY <1>1, <2>1, <2>2, <2>4, <2>5, <2>6, <2>7, ProcessGoesOn
<1>5. CASE Unbind(n)
  <2>1. /\ proc[n].state = "closed" /\ Unlinked(n)
    BY <1>5 DEF Unbind, Is
  <2>2. /\ proc'[n].id = proc[n].id /\ proc'[n].state = "ending"
        /\ proc'[n].runs = proc[n].runs /\ proc'[n].link = proc[n].link
        /\ proc'[n].word = proc[n].word
        /\ \A q \in Procs \ {n} : proc'[q] = proc[q]
    BY <1>1, <1>5, <2>1 DEF Unbind, IInv, Types, ProcType
  <2>3. proc[n].word \in Words
    BY <1>1, <2>1
  <2>4. proc' \in ProcType
    BY <1>1, <1>5, <2>2, <2>3 DEF Unbind, IInv, Types, ProcType, ProcStates
  <2>5. Told(n) /\ n \notin out
    BY <1>2, <2>1 DEF Told
  <2>6. ~Live(n)' /\ ~Listening(n)' /\ Listening(n)
    BY <2>1, <2>2 DEF Live, Listening
  <2> QED
    BY <1>1, <1>2, <2>1, <2>2, <2>4, <2>5, <2>6, ProcessGoesOn
<1>6. CASE ProgramEnds(n)
  <2>1. /\ proc[n].state = "open" /\ socket' = socket
    BY <1>6 DEF ProgramEnds, Is
  <2>2. /\ proc'[n].id = proc[n].id /\ proc'[n].state = "open"
        /\ proc'[n].runs = FALSE /\ proc'[n].link = proc[n].link
        /\ proc'[n].word = proc[n].word
        /\ \A q \in Procs \ {n} : proc'[q] = proc[q]
    BY <1>1, <1>6, <2>1 DEF ProgramEnds, IInv, Types, ProcType
  <2>3. proc[n].word \in Words
    BY <1>1, <2>1
  <2>4. proc' \in ProcType
    BY <1>1, <1>6, <2>2, <2>3 DEF ProgramEnds, IInv, Types, ProcType,
       ProcStates
  <2>5. Told(n)' <=> Told(n)
    BY <1>1, <2>1, <2>2 DEF Told, OfServer, ends
  <2>6. Live(n)' /\ Live(n) /\ Listening(n)
    BY <2>1, <2>2 DEF Live, Listening
  <2> QED
    BY <1>1, <1>2, <2>1, <2>2, <2>4, <2>5, <2>6, ProcessGoesOn
<1> QED
  BY <1>3, <1>4, <1>5, <1>6

\* Server::flush_links writes the Close queued for a process, if it is there.
LEMMA FlushKeepsIInv ==
    ASSUME IInv, NEW n \in Procs, Flush(n)
    PROVE  IInv'
<1> USE DEF IInv, Types, Flush, Polls, files, session, change, ends, history
<1>1. /\ n \in out /\ n \in held /\ out' = out \ {n}
      /\ proc' = IF Alive(n) THEN [proc EXCEPT ![n].word = Append(@, "close")]
                 ELSE proc
      /\ UNCHANGED <<files, server, at, session, change, peer, todo, held,
                     crashes, history>>
      /\ at \in {"idle", "say", "refuse", "ending"}
  OBVIOUS
<1> HIDE DEF Flush
<1>2. /\ proc[n].state # "none" /\ ~Closes(proc[n].word)
      /\ proc[n].state \notin {"closed", "ending"}
      /\ Live(n) => proc[n].link = "up"
      /\ proc[n].state = "open" => proc[n].word = <<>>
  BY <1>1 DEF WordsInOrder, Closes
<1>3. /\ proc[n] \in [id : 0..MaxId, state : ProcStates, runs : BOOLEAN,
                      link : {"none", "up", "down"}, word : Words]
      /\ Alive(n) <=> Live(n)
  BY <1>2 DEF ProcType, Alive, Is, Live, ProcStates
<1>4. /\ Append(proc[n].word, "close") \in Words
      /\ Closes(Append(proc[n].word, "close"))
      /\ proc[n].word = <<>> => Append(proc[n].word, "close") = <<"close">>
  BY <1>2, <1>3, WordsAre
<1>5. /\ proc' \in ProcType
      /\ \A m \in Procs : /\ proc'[m].id = proc[m].id
                          /\ proc'[m].state = proc[m].state
                          /\ proc'[m].link = proc[m].link
                          /\ m # n => proc'[m] = proc[m]
      /\ IF Live(n) THEN proc'[n].word = Append(proc[n].word, "close")
                    ELSE proc'[n].word = proc[n].word
  <2>1. CASE Live(n)
    <3>1. proc' = [proc EXCEPT ![n].word = Append(proc[n].word, "close")]
      BY <1>1, <1>3, <2>1
    <3> QED
      BY <1>3, <1>4, <2>1, <3>1 DEF ProcType
  <2>2. CASE ~Live(n)
    BY <1>1, <1>3, <2>2
  <2> QED
    BY <2>1, <2>2
<1>6. \A m \in Procs : /\ m # n => (Told(m)' <=> Told(m))
                       /\ Live(m)' <=> Live(m)
                       /\ Listening(m)' <=> Listening(m)
  BY <1>1, <1>5 DEF Told, Live, Listening
<1>7. Told(n) /\ (Live(n) => Told(n)')
  BY <1>1, <1>4, <1>5 DEF Told
<1>8. Types'
  BY <1>1, <1>5 DEF Types, Phases, Making, Spawned, Changing
<1>9. Absent'
  BY <1>1 DEF Absent, Changing, Making, Spawned
<1>10. IdsGoOn'
  BY <1>1 DEF IdsGoOn, Changing, Making, Spawned, Held, Copies, UndoType,
     RecordType
<1>11. FoundAtItsPath'
  BY SMTT(30), <1>1, <1>5, <1>6 DEF FoundAtItsPath
<1>12. WordsInOrder'
  BY <1>1, <1>2, <1>4, <1>5, <1>6 DEF WordsInOrder, Live
<1>13. LinksAreHeld'
  BY <1>1, <1>5, <1>6, <1>7 DEF LinksAreHeld, Linked
<1>14. UndoIsHeld'
  BY <1>1 DEF UndoIsHeld, Linked, Told, Changing, Making, Spawned
<1>15. ClosingIsHeld'
  BY <1>1, <1>6, <1>7 DEF ClosingIsHeld
<1>16. PeerIsItsPanes'
  BY <1>1 DEF PeerIsItsPanes, Changing, Making, Spawned, Absent
<1>17. AllAreHeld'
  BY <1>1, <1>5, <1>6, <1>7 DEF AllAreHeld, Changing, Making, Spawned
<1> QED
  BY <1>8, <1>9, <1>10, <1>11, <1>12, <1>13, <1>14, <1>15, <1>16, <1>17

\* Link::take reaches a recorded pane's process.
LEMMA TakeKeepsIInv ==
    ASSUME IInv, NEW p \in Ids, Take(p)
    PROVE  IInv'
<1> USE DEF IInv, Types, Take, files, session, change, ends, history
<1>1. /\ server = "taking" /\ at = "next" /\ at' = "asked" /\ p \in todo
      /\ Listens(p) /\ peer' = socket[p]
      /\ UNCHANGED <<files, server, session, change, todo, out, crashes,
                     history>>
      /\ \/ /\ proc[peer'].state = "starting" /\ proc[peer'].link = "none"
            /\ proc' = [proc EXCEPT ![peer'].link = "up",
                                    ![peer'].word = <<"take">>]
            /\ held' = held \union {peer'}
         \/ UNCHANGED <<proc, held>>
  BY DEF Is
<1> HIDE DEF Take
<1>2. /\ peer' # 0 /\ peer' \in Procs /\ proc[peer'].id = p
  BY <1>1 DEF FoundAtItsPath, Listens, Is
<1>3. proc[peer'] \in [id : 0..MaxId, state : ProcStates, runs : BOOLEAN,
                       link : {"none", "up", "down"}, word : Words]
  BY <1>2 DEF ProcType
<1>4. out = {} /\ crashes > 0 /\ closing = {}
  BY <1>1 DEF Absent
<1>5. /\ proc' \in ProcType
      /\ held \subseteq held' /\ held' \subseteq held \union {peer'}
      /\ \A m \in Procs : /\ proc'[m].id = proc[m].id
                          /\ proc'[m].state = proc[m].state
                          /\ m # peer' => proc'[m] = proc[m]
      /\ \/ proc' = proc /\ held' = held
         \/ /\ proc[peer'].state = "starting" /\ proc[peer'].word = <<>>
            /\ proc'[peer'].word = <<"take">> /\ proc'[peer'].link = "up"
  <2>1. CASE UNCHANGED <<proc, held>>
    BY <2>1
  <2>2. CASE /\ proc[peer'].state = "starting" /\ proc[peer'].link = "none"
             /\ proc' = [proc EXCEPT ![peer'].link = "up",
                                     ![peer'].word = <<"take">>]
             /\ held' = held \union {peer'}
    <3>1. proc[peer'].word = <<>>
      BY <1>2, <2>2 DEF WordsInOrder, Live
    <3>2. <<"take">> \in Words
      BY WordsAre
    <3>3. proc' \in ProcType
      <4>1. [proc[peer'] EXCEPT !.link = "up", !.word = <<"take">>] \in ProcessType
        BY <1>3, <3>2 DEF ProcessType
      <4>2. proc' = [proc EXCEPT ![peer'] =
                        [proc[peer'] EXCEPT !.link = "up", !.word = <<"take">>]]
        BY <1>2, <2>2 DEF ProcType
      <4> QED
        BY <1>2, <4>1, <4>2, ProcessChanges
    <3>4. /\ \A m \in Procs : /\ proc'[m].id = proc[m].id
                              /\ proc'[m].state = proc[m].state
                              /\ m # peer' => proc'[m] = proc[m]
          /\ proc'[peer'].word = <<"take">> /\ proc'[peer'].link = "up"
      BY <1>2, <2>2 DEF ProcType
    <3> QED
      BY <1>2, <2>2, <3>1, <3>3, <3>4
  <2> QED
    BY <1>1, <2>1, <2>2
<1>6. \A m \in Procs : Told(m)' <=> Told(m)
  <2>1. out' = out /\ ~Closes(<<>>) /\ ~Closes(<<"take">>)
    BY <1>1, WordsAre
  <2> HIDE DEF IInv, Types
  <2> SUFFICES ASSUME NEW m \in Procs PROVE Told(m)' <=> Told(m)
    OBVIOUS
  <2>2. CASE m # peer' \/ proc' = proc
    BY <1>5, <2>1, <2>2 DEF Told
  <2>3. CASE m = peer' /\ proc' # proc
    BY <1>5, <2>1, <2>3 DEF Told
  <2> QED
    BY <2>2, <2>3
<1>7. Types'
  BY <1>1, <1>2, <1>4, <1>5 DEF Types, Phases, Making, Spawned, Changing
<1>8. Absent'
  BY <1>1 DEF Absent, Changing, Making, Spawned
<1>9. IdsGoOn'
  BY <1>1 DEF IdsGoOn, Changing, Making, Spawned, Held, Copies, UndoType,
     RecordType
<1>10. FoundAtItsPath'
  <2>1. \A q \in Ids : socket[q] # 0 => socket[q] \in Procs
    OBVIOUS
  <2> QED
    BY <1>1, <1>5, <2>1 DEF FoundAtItsPath, Listening
<1>11. WordsInOrder'
  BY <1>1, <1>2, <1>4, <1>5 DEF WordsInOrder, Live
<1>12. LinksAreHeld'
  BY <1>1, <1>5, <1>6 DEF LinksAreHeld, Linked
<1>13. UndoIsHeld'
  BY <1>1 DEF UndoIsHeld, Linked, Told, Changing, Making, Spawned
<1>14. ClosingIsHeld'
  BY <1>1, <1>4 DEF ClosingIsHeld, Told
<1>15. PeerIsItsPanes'
  BY <1>1, <1>2, <1>5 DEF PeerIsItsPanes
<1>16. AllAreHeld'
  BY <1>1, <1>4 DEF AllAreHeld, Live, Told, Changing, Making, Spawned
<1> QED
  BY <1>7, <1>8, <1>9, <1>10, <1>11, <1>12, <1>13, <1>14, <1>15, <1>16

\* A process open, its server gone, is the next one's: its pane's link is to it.
LEMMA GreetKeepsIInv ==
    ASSUME IInv, Greet
    PROVE  IInv'
<1> USE DEF IInv, Types, Greet, files, session, change, ends, history
<1> DEFINE p == proc[peer].id
<1>1. /\ server = "taking" /\ at = "asked" /\ at' = "next" /\ peer' = 0
      /\ peer # 0 /\ proc[peer].state = "open" /\ proc[peer].link = "down"
      /\ links' = [links EXCEPT ![p] = peer]
      /\ tree' = [tree EXCEPT ![p] = IF proc[peer].runs THEN "runs" ELSE "ended"]
      /\ todo' = todo \ {p}
      /\ proc' = [proc EXCEPT ![peer].link = "up"]
      /\ held' = held \union {peer}
      /\ UNCHANGED <<files, server, ids, stop, change, out, crashes, history>>
  BY DEF Is
<1>2. peer \in Procs /\ p \in todo /\ p \in Ids
  BY <1>1 DEF PeerIsItsPanes
<1>3. /\ proc' \in ProcType
      /\ \A m \in Procs : /\ proc'[m].id = proc[m].id
                          /\ proc'[m].state = proc[m].state
                          /\ proc'[m].word = proc[m].word
                          /\ m # peer => proc'[m] = proc[m]
      /\ proc'[peer].link = "up"
  <2>1. [proc[peer] EXCEPT !.link = "up"] \in ProcessType
    BY <1>2 DEF ProcType, ProcessType
  <2>2. proc' \in ProcType
    BY <1>1, <1>2, <2>1, ProcessChanges
  <2> QED
    BY <1>1, <1>2, <2>2 DEF ProcType
<1>4. /\ out = {} /\ crashes > 0 /\ closing = {} /\ disk # NoRecord
      /\ ids = disk.ids /\ todo \subseteq Copies(disk.tree)
  BY <1>1 DEF Absent, IdsGoOn
<1>5. proc[peer].word = <<>>
  BY <1>1, <1>2 DEF WordsInOrder, Live
<1>6. p <= ids
  BY <1>2, <1>4 DEF IdsGoOn, Copies, Held
<1> HIDE DEF Greet, p
<1>7. /\ links' \in [Ids -> 0..MaxProcs] /\ tree' \in [Ids -> States]
      /\ \A q \in Ids : q # p => links'[q] = links[q] /\ tree'[q] = tree[q]
      /\ links'[p] = peer
  <2>1. tree' \in [Ids -> States]
    BY <1>1, <1>2 DEF States
  <2> QED
    BY <1>1, <1>2, <2>1
<1>8. \A m \in Procs : Told(m)' <=> Told(m)
  BY <1>1, <1>3 DEF Told
<1>9. Types'
  <2>1. /\ held' \subseteq Procs /\ out' \subseteq held' /\ todo' \subseteq Ids
        /\ peer' \in 0..MaxProcs
    BY <1>1, <1>2, <1>4
  <2>2. Phases'
    BY <1>1 DEF Phases
  <2>3. /\ disk' \in RecordType \union {NoRecord} /\ undo' \in UndoType
        /\ socket' \in [Ids -> 0..MaxProcs]
        /\ ids' \in 0..MaxId /\ made' \in 0..MaxId /\ stop' \in BOOLEAN
        /\ crashes' \in 0..MaxCrashes /\ closing' \subseteq Procs
        /\ known' \subseteq Ids /\ ever' \subseteq Ids /\ killed' \subseteq Ids
        /\ server' = "taking"
    BY <1>1
  <2> QED
    BY <1>3, <1>7, <2>1, <2>2, <2>3
<1>10. Absent'
  BY <1>1 DEF Absent, Changing, Making, Spawned
<1>11. IdsGoOn'
  BY <1>1, <1>4, <1>6, <1>7 DEF IdsGoOn, Changing, Making, Spawned, Held,
     Copies, UndoType, RecordType
<1>12. FoundAtItsPath'
  BY <1>1, <1>3 DEF FoundAtItsPath, Listening
<1>13. WordsInOrder'
  BY <1>1, <1>2, <1>3, <1>4, <1>5 DEF WordsInOrder, Live
<1>14. LinksAreHeld'
  <2>1. ~Told(peer)
    BY <1>1, <1>4, <1>5 DEF Told, Closes
  <2>2. proc'[peer].id = p /\ peer \in held'
    BY <1>1, <1>2, <1>3 DEF p
  <2>3. Linked(links)
    BY <1>1 DEF LinksAreHeld
  <2>4. ASSUME NEW q \in Ids, links'[q] # 0
        PROVE  /\ proc'[links'[q]].id = q /\ links'[q] \in held'
               /\ ~Told(links'[q]) /\ links'[q] \in Procs
    BY <1>1, <1>2, <1>3, <1>7, <2>1, <2>2, <2>3, <2>4 DEF Linked
  <2>5. ASSUME NEW q \in Ids, links'[q] # 0
        PROVE  /\ links'[q] \notin out' /\ ~Closes(proc'[links'[q]].word)
               /\ proc'[links'[q]].state \notin {"closed", "ending"}
    BY <1>1, <1>3, <2>4, <2>5 DEF Told
  <2> QED
    BY <2>4, <2>5 DEF LinksAreHeld, Linked, Told
<1>15. UndoIsHeld'
  BY <1>1 DEF UndoIsHeld, Linked, Told, Changing, Making, Spawned
<1>16. ClosingIsHeld'
  BY <1>1, <1>4 DEF ClosingIsHeld, Told
<1>17. PeerIsItsPanes'
  BY <1>1 DEF PeerIsItsPanes
<1>18. AllAreHeld'
  BY <1>1, <1>4 DEF AllAreHeld, Live, Told, Changing, Making, Spawned
<1> QED
  BY <1>9, <1>10, <1>11, <1>12, <1>13, <1>14, <1>15, <1>16, <1>17, <1>18

\* Session::kill: the links of the panes it closes are those it will close.
LEMMA BeginKillKeepsIInv == ASSUME IInv, BeginKill PROVE IInv'
<1> USE DEF IInv, Types
<1>1. PICK S \in (SUBSET Held(tree)) \ {{}}, one \in BOOLEAN :
         LET had == S \intersect Copies(tree) IN
         /\ Idle
         /\ Begin(IF one THEN {} ELSE had)
         /\ tree' = [p \in Ids |-> IF p \in S THEN "none" ELSE tree[p]]
         /\ links' = [p \in Ids |-> IF p \in had THEN 0 ELSE links[p]]
         /\ closing' = {links[p] : p \in had} \ {0}
         /\ stop' = (stop \/ Copies(tree') = {})
         /\ killed' = killed \union S
         /\ at' = "commit"
         /\ UNCHANGED <<files, server, ids, made, peer, todo, ends, crashes,
                        proc, known, ever, failed, bared, begun>>
  BY DEF BeginKill
<1> DEFINE had == S \intersect Copies(tree)
<1>2. had \subseteq Held(tree) /\ S \subseteq Ids /\ Held(tree) \subseteq Ids
  BY DEF Copies, Held
<1>3. /\ server = "serving" /\ at = "idle" /\ at' = "commit"
      /\ UNCHANGED <<disk, socket, server, ids, made, peer, todo, held, out,
                     crashes, proc, known, ever>>
      /\ stop' \in BOOLEAN /\ killed' \subseteq Ids
  BY <1>1, <1>2 DEF Idle, files, ends
<1>4. /\ undo' \in UndoType
      /\ undo'.tree = tree /\ undo'.ids = ids /\ undo'.links = links
      /\ undo'.bare \subseteq Held(tree)
  <2>1. (IF one THEN {} ELSE had) \subseteq Held(tree)
    BY <1>2
  <2>2. (IF one THEN {} ELSE had) \in SUBSET Ids
    BY <1>2, <2>1
  <2> QED
    BY <1>1, <2>1, <2>2, UndosAre
<1>5. /\ tree' = [p \in Ids |-> IF p \in S THEN "none" ELSE tree[p]]
      /\ links' = [p \in Ids |-> IF p \in had THEN 0 ELSE links[p]]
      /\ closing' = {links[p] : p \in had} \ {0}
  BY <1>1
<1>6. Linked(links) /\ made = 0 /\ peer = 0
  BY <1>3 DEF LinksAreHeld, Absent
<1> HIDE DEF had
<1>7. /\ tree' \in [Ids -> States] /\ links' \in [Ids -> 0..MaxProcs]
      /\ \A p \in Ids : tree'[p] # "none" => tree[p] # "none"
      /\ \A p \in Ids : links'[p] = 0 \/ links'[p] = links[p]
      /\ \A p \in Ids : links'[p] # links[p] => links[p] \in closing'
  <2>1. tree' \in [Ids -> States]
    BY <1>5 DEF States
  <2>2. links' \in [Ids -> 0..MaxProcs]
    BY <1>5
  <2>3. \A p \in Ids : tree'[p] # "none" => tree[p] # "none"
    BY <1>5
  <2>4. ASSUME NEW p \in Ids, links'[p] # links[p]
        PROVE  links'[p] = 0 /\ links[p] \in closing'
    BY <1>5, <2>4
  <2> QED
    BY <2>1, <2>2, <2>3, <2>4
<1>8. ASSUME NEW n \in closing'
      PROVE  /\ n \in Procs /\ n \in held /\ ~Told(n)
             /\ \A p \in Ids : links'[p] # n
  <2>1. PICK p \in had : n = links[p] /\ n # 0
    BY <1>5, <1>8
  <2>2. p \in Ids
    BY <1>2
  <2>3. /\ n \in Procs /\ n \in held /\ ~Told(n) /\ proc[n].id = p
    BY <1>6, <2>1, <2>2 DEF Linked
  <2>4. ASSUME NEW q \in Ids, links'[q] = n
        PROVE  FALSE
    <3>1. q \notin had /\ links[q] = n
      BY <1>5, <2>1, <2>4
    <3>2. proc[n].id = q
      BY <1>6, <2>1, <3>1 DEF Linked
    <3> QED
      BY <2>1, <2>3, <3>1, <3>2
  <2> QED
    BY <2>3, <2>4
<1>9. \A n : Told(n)' <=> Told(n)
  BY <1>3 DEF Told
<1>10. Types'
  BY <1>3, <1>4, <1>7, <1>8 DEF Phases, Making, Spawned, Changing
<1>11. Absent'
  BY <1>3 DEF Absent, Changing, Making, Spawned
<1>12. IdsGoOn'
  <2>1. undo'.bare \subseteq Held(undo'.tree)
    BY <1>4
  <2>2. /\ \A p \in ever : p <= ids
        /\ disk # NoRecord => ids <= disk.ids
        /\ \A p \in Ids : tree[p] # "none" \/ links[p] # 0 => p <= ids
    BY <1>3 DEF IdsGoOn, Changing, Making, Spawned
  <2>3. \A p \in Ids : links'[p] # 0 => links[p] # 0
    BY <1>7
  <2> QED
    BY <1>3, <1>4, <1>6, <1>7, <2>1, <2>2, <2>3
       DEF IdsGoOn, Changing, Making, Spawned
<1>13. FoundAtItsPath' /\ WordsInOrder'
  BY <1>3 DEF FoundAtItsPath, Listening, WordsInOrder, Live
<1>14. LinksAreHeld' /\ UndoIsHeld' /\ ClosingIsHeld'
  <2>1. LinksAreHeld'
    BY <1>3, <1>6, <1>7, <1>9 DEF LinksAreHeld, Linked
  <2>2. UndoIsHeld'
    BY <1>3, <1>4, <1>6, <1>9 DEF UndoIsHeld, Linked
  <2>3. ClosingIsHeld'
    BY <1>3, <1>8, <1>9 DEF ClosingIsHeld
  <2> QED
    BY <2>1, <2>2, <2>3
<1>15. PeerIsItsPanes'
  BY <1>3, <1>6 DEF PeerIsItsPanes, Spawned, Making
<1>16. AllAreHeld'
  <2>1. ASSUME NEW n \in Procs, crashes = 0, Live(n), ~Told(n)
        PROVE  /\ links[proc[n].id] = n
               /\ links'[proc[n].id] = n \/ n \in closing'
    <3>1. links[proc[n].id] = n
      BY <1>3, <2>1 DEF AllAreHeld, Changing, Making, Spawned
    <3>2. proc[n].id \in Ids
      BY <2>1 DEF FoundAtItsPath, Live, Listening
    <3> QED
      BY <1>7, <3>1, <3>2
  <2> QED
    BY <1>3, <1>4, <1>9, <2>1 DEF AllAreHeld, Live, Changing, Making, Spawned
<1> QED
  BY <1>10, <1>11, <1>12, <1>13, <1>14, <1>15, <1>16

\* Nothing but what a process does by itself, or a server tells it: none starts
\* or lives again, and the only program that starts is one of a process' first
\* word.
Fade(m) ==
    /\ proc'[m].id = proc[m].id
    /\ proc'[m].state = "starting" => proc[m].state = "starting"
    /\ Live(m)' => Live(m)
    /\ proc'[m].state = "open" /\ proc'[m].runs =>
          proc[m].state = "starting" \/ (proc[m].state = "open" /\ proc[m].runs)

\* A shell that ended stays so, if clients know of it: its process began.
LEMMA EndedShellsStay ==
    ASSUME TakenInv, \A m \in Procs : Fade(m), NEW p \in known, ShellEnded(p)
    PROVE  ShellEnded(p)'
<1>1. p \in ever
  BY DEF TakenInv, KnownAreKept
<1>2. \A m \in Procs : proc[m].id = p => proc[m].state # "starting"
  BY <1>1 DEF TakenInv, StartsAreAwaited
<1> QED
  BY <1>2 DEF ShellEnded, Is, Fade

\* What a process does by itself changes nothing of what is taken back.
LEMMA FadingKeepsTakenInv ==
    ASSUME IInv, TakenInv, \A m \in Procs : Fade(m),
           UNCHANGED <<disk, server, tree, links, undo, made, todo, known, ever,
                       killed>>,
           \/ at' = at /\ peer' = peer
           \/ server = "serving" /\ {at, at'} \subseteq Spawned /\ peer' = peer
           \/ server = "taking" /\ at = "next" /\ at' = "asked"
    PROVE  TakenInv'
<1>1. /\ at' \in Changing <=> at \in Changing
      /\ at' \in Making <=> at \in Making
      /\ at' \in Spawned <=> at \in Spawned
      /\ at' = "undo" <=> at = "undo"
      /\ at' = "record" <=> at = "record"
  BY DEF Changing, Making, Spawned
<1>2. StartsAreAwaited'
  BY <1>1 DEF TakenInv, StartsAreAwaited, Fade, Copies, Held
<1>3. PanesAreLinked'
  BY <1>1 DEF TakenInv, PanesAreLinked, Fade, Held
<1>4. ASSUME NEW t, KeptIn(t)
      PROVE  \A p \in known \ killed : p \in Held(t) \/ ShellEnded(p)'
  BY <1>4, EndedShellsStay DEF KeptIn
<1>5. ASSUME server = "taking"
      PROVE  \A m \in Procs : /\ proc'[m].id \in Held(tree)
                              /\ proc'[m].state = "open"
                              /\ tree[proc'[m].id] = "ended"
                              => ~proc'[m].runs
  <2>1. \A m \in Procs : proc[m].state = "starting" => proc[m].id \notin Held(tree)
    BY <1>5 DEF TakenInv, StartsAreAwaited, KnownAreKept
  <2> QED
    BY <1>5, <2>1 DEF TakenInv, KnownAreKept, Fade, Live
<1>6. server = "taking" /\ Whole(disk) => \A p \in known \ killed :
          p \in Held(tree) \union todo \/ ShellEnded(p)'
  BY EndedShellsStay DEF TakenInv, KnownAreKept
<1>7. KnownAreKept'
  BY <1>1, <1>4, <1>5, <1>6 DEF TakenInv, KnownAreKept, KeptIn, Held,
     Whole, Copies
<1>8. NoneBeside'
  BY DEF TakenInv, NoneBeside, Fade
<1> QED
  BY <1>2, <1>3, <1>7, <1>8 DEF TakenInv

\* A change's step that fails: what is there to go back to is unchanged.
LEMMA FailingKeepsTakenInv ==
    ASSUME IInv, TakenInv, server = "serving", at \in Changing, at' = "undo",
           UNCHANGED <<disk, server, tree, links, undo, made, proc, known, ever,
                       killed>>,
           \A m \in Procs : proc[m].state # "starting"
    PROVE  TakenInv'
<1>1. at' \in Changing /\ at' \notin Making /\ at' # "record"
  BY DEF Changing, Making, Spawned
<1>2. StartsAreAwaited' /\ NoneBeside'
  BY DEF StartsAreAwaited, NoneBeside
<1>3. PanesAreLinked'
  BY <1>1 DEF TakenInv, PanesAreLinked, Live, Held
<1>4. KnownAreKept'
  BY <1>1 DEF TakenInv, KnownAreKept, KeptIn, ShellEnded, Is, Held
<1> QED
  BY <1>2, <1>3, <1>4 DEF TakenInv

\* While a pane is recorded, or anything is done but starting it, no process
\* starts.
LEMMA NoneStarts ==
    ASSUME TakenInv, server \in {"serving", "stopping", "over", "fresh"},
           server = "serving" => at \notin Spawned \/ proc[peer].state # "starting"
    PROVE  \A m \in Procs : proc[m].state # "starting"
BY DEF TakenInv, StartsAreAwaited

\* Begun: the pane is linked to its process, or closed with it.
LEMMA BegunKeepsTakenInv == ASSUME IInv, TakenInv, Begun PROVE TakenInv'
<1>1. /\ server = "serving" /\ at = "wait" /\ at' = "commit"
      /\ proc[peer].state = "open" /\ proc[peer].id = made /\ made \in Ids
      /\ peer \in Procs /\ links[made] = 0
      /\ undo.ids \in Nat /\ made = undo.ids + 1 /\ \A p \in ever : p <= undo.ids
      /\ UNCHANGED <<disk, socket, server, made, undo, peer, proc, known, ever,
                     killed>>
      /\ links \in [Ids -> 0..MaxProcs] /\ tree \in [Ids -> States]
  <2>1. Is(peer, {"open"}) /\ server = "serving" /\ at = "wait" /\ at' = "commit"
    BY DEF Begun
  <2>2. peer # 0 /\ links[made] = 0 /\ made # 0 /\ proc[peer].id = made
    BY <2>1 DEF IInv, PeerIsItsPanes, Changing, Making, Spawned, Is
  <2>3. made \in Ids /\ peer \in Procs
    BY <2>2 DEF IInv, Types
  <2>4. undo.ids \in Nat /\ made = undo.ids + 1 /\ \A p \in ever : p <= undo.ids
    BY <2>1 DEF IInv, Types, IdsGoOn, Changing, Making, Spawned, UndoType
  <2>5. UNCHANGED <<disk, socket, server, made, undo, peer, proc, known, ever,
                    killed>>
    BY DEF Begun, files, history
  <2>6. links \in [Ids -> 0..MaxProcs] /\ tree \in [Ids -> States]
    BY DEF IInv, Types
  <2> QED
    BY <2>1, <2>2, <2>3, <2>4, <2>5, <2>6 DEF Is
<1>2. \A p \in Ids : p # made => tree'[p] = tree[p] /\ links'[p] = links[p]
  BY <1>1 DEF Begun
<1>3. made \in Held(tree') => links'[made] = peer
  BY <1>1 DEF Begun, Held
<1>4. \A m \in Procs : Live(m) /\ proc[m].id = made => m = peer
  <2>1. \A m \in Procs : Listening(m) => socket[proc[m].id] = m
    BY <1>1 DEF IInv, FoundAtItsPath
  <2> QED
    BY <1>1, <2>1 DEF Live, Listening
<1>5. \A m \in Procs : proc[m].state # "starting"
  BY <1>1, NoneStarts
<1>6. StartsAreAwaited' /\ NoneBeside'
  BY <1>1, <1>5 DEF StartsAreAwaited, NoneBeside
<1>7. PanesAreLinked'
  <2>1. ASSUME NEW m \in Procs, Live(m), proc[m].id \in Held(tree')
        PROVE  links'[proc[m].id] = m
    <3>1. CASE proc[m].id = made
      BY <1>3, <1>4, <2>1, <3>1
    <3>2. CASE proc[m].id # made
      <4>1. proc[m].id \in Held(tree) /\ links'[proc[m].id] = links[proc[m].id]
        BY <1>2, <2>1, <3>2 DEF Held
      <4> QED
        BY <1>1, <2>1, <3>2, <4>1 DEF TakenInv, PanesAreLinked
    <3> QED
      BY <3>1, <3>2
  <2>2. \A m \in Procs : Live(m) /\ proc[m].id \in Held(undo.tree) =>
            undo.links[proc[m].id] = m
    BY <1>1 DEF TakenInv, PanesAreLinked, Changing, Making, Spawned
  <2> QED
    BY <1>1, <2>1, <2>2 DEF PanesAreLinked, Live
<1>8. KnownAreKept'
  <2>1. made \notin known
    BY <1>1 DEF TakenInv, KnownAreKept
  <2>2. KeptIn(tree')
    BY <1>1, <1>2, <2>1 DEF TakenInv, KnownAreKept, KeptIn, Held
  <2>3. /\ known \subseteq ever /\ KeptIn(undo.tree)
        /\ disk # NoRecord => KeptIn(disk.tree)
        /\ disk # NoRecord => Held(undo.tree) \subseteq Held(disk.tree)
    BY <1>1 DEF TakenInv, KnownAreKept, Changing, Making, Spawned
  <2>4. at' \in Changing /\ at' # "record" /\ server' = "serving"
    BY <1>1 DEF Changing
  <2> QED
    BY <1>1, <2>2, <2>3, <2>4 DEF KnownAreKept, KeptIn, ShellEnded, Is, Held
<1> QED
  BY <1>6, <1>7, <1>8 DEF TakenInv

\* A pane is made: it is in the tree, and not in the one to go back to.
LEMMA BeginMakeKeepsTakenInv == ASSUME IInv, TakenInv, BeginMake PROVE TakenInv'
<1>1. /\ server = "serving" /\ at = "idle" /\ at' = "record"
      /\ made' = ids + 1 /\ made' \in Ids
      /\ tree' = [tree EXCEPT ![made'] = "runs"] /\ tree \in [Ids -> States]
      /\ undo'.tree = tree /\ undo'.links = links
      /\ UNCHANGED <<disk, server, links, proc, known, ever, killed>>
  BY DEF IInv, Types, BeginMake, Idle, Begin, files
<1>2. \A m \in Procs : proc[m].state # "starting"
  BY <1>1, NoneStarts DEF Spawned
<1>3. StartsAreAwaited' /\ NoneBeside'
  BY <1>1, <1>2 DEF StartsAreAwaited, NoneBeside
<1>4. /\ at' \in Making /\ at' \in Changing /\ at # "undo"
      /\ at \notin Making /\ at \notin Changing
  BY <1>1 DEF Making, Changing, Spawned
<1>5. Held(tree) \subseteq Held(tree') /\ \A p \in Held(tree') : p = made' \/ p \in Held(tree)
  BY <1>1 DEF Held
<1>6. PanesAreLinked'
  BY <1>1, <1>4, <1>5 DEF TakenInv, PanesAreLinked, Live
<1>7. KnownAreKept'
  <2>1. KeptIn(tree) /\ (disk # NoRecord => KeptIn(disk.tree) /\ Held(tree) \subseteq Held(disk.tree))
    BY <1>1, <1>4 DEF TakenInv, KnownAreKept
  <2>2. known \subseteq ever
    BY DEF TakenInv, KnownAreKept
  <2> QED
    BY <1>1, <1>4, <1>5, <2>1, <2>2 DEF KnownAreKept, KeptIn, ShellEnded, Is
<1> QED
  BY <1>3, <1>6, <1>7 DEF TakenInv

\* The record is written, or as it was: what clients know of is in both.
LEMMA RecordMadeKeepsTakenInv == ASSUME IInv, TakenInv, RecordMade PROVE TakenInv'
<1>1. /\ server = "serving" /\ at = "record"
      /\ \/ at' = "spawn" /\ disk' = Now
         \/ at' = "undo" /\ disk' = disk
      /\ UNCHANGED <<server, tree, links, undo, made, proc, known, ever, killed>>
  BY DEF RecordMade, Record, session, change, history
<1>2. \A m \in Procs : proc[m].state # "starting"
  BY <1>1, NoneStarts DEF Spawned
<1>3. at \in Changing /\ at \in Making /\ at # "undo"
  BY <1>1 DEF Making, Changing
<1>4. CASE at' = "undo"
  BY <1>1, <1>2, <1>3, <1>4, FailingKeepsTakenInv
<1>5. CASE at' = "spawn"
  <2>1. at' \in Changing /\ at' \in Making /\ disk'.tree = tree
    BY <1>1, <1>5 DEF Making, Changing, Now
  <2>2. StartsAreAwaited' /\ NoneBeside'
    BY <1>1, <1>2 DEF StartsAreAwaited, NoneBeside
  <2>3. PanesAreLinked'
    BY <1>1, <1>3, <2>1 DEF TakenInv, PanesAreLinked, Live, Held
  <2>4. /\ KeptIn(tree) /\ KeptIn(undo.tree) /\ known \subseteq ever
        /\ Held(undo.tree) \subseteq Held(tree)
    BY <1>1, <1>3 DEF TakenInv, KnownAreKept
  <2>5. KnownAreKept'
    BY <1>1, <1>5, <2>1, <2>4 DEF KnownAreKept, KeptIn, ShellEnded, Is, Held
  <2> QED
    BY <2>2, <2>3, <2>5 DEF TakenInv
<1> QED
  BY <1>1, <1>4, <1>5

\* The process started is awaited: no client was told of its pane yet.
LEMMA SpawnKeepsTakenInv == ASSUME IInv, TakenInv, Spawn PROVE TakenInv'
<1>1. /\ server = "serving" /\ at = "spawn" /\ made \in Ids /\ proc \in ProcType
      /\ undo.ids \in Nat /\ made = undo.ids + 1 /\ \A p \in ever : p <= undo.ids
      /\ \A p \in Ids : undo.tree[p] # "none" => p <= undo.ids
      /\ UNCHANGED <<disk, server, tree, links, undo, made, known, ever, killed>>
  <2>1. server = "serving" /\ at = "spawn"
    BY DEF Spawn
  <2>2. made \in Ids /\ proc \in ProcType
    BY <2>1 DEF IInv, Types, IdsGoOn, Making, Changing, UndoType
  <2>3. undo.ids \in Nat /\ made = undo.ids + 1 /\ \A p \in ever : p <= undo.ids
    BY <2>1 DEF IInv, Types, IdsGoOn, Making, Changing, UndoType
  <2>4. \A p \in Ids : undo.tree[p] # "none" => p <= undo.ids
    BY <2>1 DEF IInv, IdsGoOn, Making, Changing
  <2>5. UNCHANGED <<disk, server, tree, links, undo, made, known, ever, killed>>
    BY DEF Spawn, session, change, history
  <2> QED
    BY <2>1, <2>2, <2>3, <2>4, <2>5
<1>2. \A m \in Procs : proc[m].state # "starting"
  BY <1>1, NoneStarts DEF Spawned
<1>3. at \in Changing /\ at \in Making /\ at # "undo" /\ at # "record"
  BY <1>1 DEF Making, Changing
<1>4. CASE at' = "undo"
  <2>1. proc' = proc
    BY <1>4 DEF Spawn
  <2> QED
    BY <1>1, <1>2, <1>3, <1>4, <2>1, FailingKeepsTakenInv
<1>5. CASE at' # "undo"
  <2>1. PICK n \in Procs :
           /\ proc[n] = NoProc
           /\ proc' = [proc EXCEPT ![n] = [NoProc EXCEPT !.id = made,
                                                         !.state = "starting"]]
           /\ peer' = n
    BY <1>5 DEF Spawn
  <2>2. at' = "reach"
    BY <1>5 DEF Spawn
  <2>3. /\ proc'[n].id = made /\ proc'[n].state = "starting"
        /\ proc[n].id = 0 /\ proc[n].state = "none"
        /\ \A m \in Procs : m # n => proc'[m] = proc[m]
    BY <1>1, <2>1 DEF ProcType, NoProc
  <2>4. at' \in Changing /\ at' \in Making /\ at' \in Spawned /\ at' # "record"
    BY <2>2 DEF Making, Changing, Spawned
  <2>5. StartsAreAwaited'
    BY <1>1, <1>2, <2>1, <2>3, <2>4 DEF StartsAreAwaited
  <2>6. PanesAreLinked'
    <3>1. made \notin Held(undo.tree)
      BY <1>1 DEF Held
    <3> QED
      BY <1>1, <1>3, <2>3, <2>4, <3>1 DEF TakenInv, PanesAreLinked, Live, Held
  <2>7. \A p \in known : ShellEnded(p) => ShellEnded(p)'
    BY <2>3 DEF ShellEnded, Is
  <2>8. KnownAreKept'
    <3>1. /\ KeptIn(tree) /\ KeptIn(undo.tree) /\ known \subseteq ever
          /\ disk # NoRecord => KeptIn(disk.tree) /\ Held(undo.tree) \subseteq Held(disk.tree)
      BY <1>1, <1>3 DEF TakenInv, KnownAreKept
    <3> QED
      BY <1>1, <2>4, <2>7, <3>1 DEF KnownAreKept, KeptIn, Held
  <2>9. NoneBeside'
    BY <1>1 DEF NoneBeside
  <2> QED
    BY <2>5, <2>6, <2>8, <2>9 DEF TakenInv
<1> QED
  BY <1>4, <1>5

\* The process is reached, and told to begin, or gone.
LEMMA ReachKeepsTakenInv ==
    ASSUME IInv, TakenInv, Reach \/ SayBegin \/ NotBegun PROVE TakenInv'
<1>1. /\ server = "serving" /\ at \in Spawned /\ peer \in Procs
      /\ UNCHANGED <<disk, server, tree, links, undo, made, peer, todo, known,
                     ever, killed>>
      /\ proc \in ProcType
      /\ \/ Is(peer, {"gone"}) /\ proc' = proc /\ at' = "undo"
         \/ at' \in Spawned /\ \/ proc' = [proc EXCEPT ![peer].link = "up"]
                               \/ proc' = [proc EXCEPT ![peer].word = <<"begin">>]
  <2>1. server = "serving" /\ at \in Spawned
    BY DEF Reach, SayBegin, NotBegun, Spawned
  <2>2. peer # 0 /\ proc[peer].id = made /\ made # 0 /\ ~Told(peer)
    BY <2>1 DEF IInv, PeerIsItsPanes, Changing, Making
  <2>3. peer \in Procs /\ proc \in ProcType
    BY <2>2 DEF IInv, Types
  <2>4. at \in {"reach", "begin"} => proc[peer].state \in {"starting", "gone"}
    BY <2>1, <2>2 DEF IInv, PeerIsItsPanes, Changing, Making
  <2> QED
    BY <2>1, <2>2, <2>3, <2>4
       DEF Reach, SayBegin, NotBegun, Alive, Is, Spawned, files, session, change, history
<1>2. at \in Changing
  BY <1>1 DEF Changing, Making
<1>3. CASE Is(peer, {"gone"}) /\ proc' = proc /\ at' = "undo"
  <2>1. \A m \in Procs : proc[m].state # "starting"
    BY <1>1, <1>3, NoneStarts DEF Is
  <2> QED
    BY <1>1, <1>2, <1>3, <2>1, FailingKeepsTakenInv
<1>4. CASE at' \in Spawned /\ \/ proc' = [proc EXCEPT ![peer].link = "up"]
                              \/ proc' = [proc EXCEPT ![peer].word = <<"begin">>]
  <2>1. \A m \in Procs : /\ proc'[m].id = proc[m].id /\ proc'[m].state = proc[m].state
                         /\ proc'[m].runs = proc[m].runs
    <3>1. CASE proc' = [proc EXCEPT ![peer].link = "up"]
      BY <1>1, <3>1 DEF ProcType
    <3>2. CASE proc' = [proc EXCEPT ![peer].word = <<"begin">>]
      BY <1>1, <3>2 DEF ProcType
    <3> QED
      BY <1>4, <3>1, <3>2
  <2>2. \A m \in Procs : Fade(m)
    BY <2>1 DEF Fade, Live
  <2> QED
    BY <1>1, <1>4, <2>2, FadingKeepsTakenInv
<1> QED
  BY <1>1, <1>3, <1>4

\* What is closed was asked to: what else clients know of is in the tree left,
\* and in the one to go back to.
LEMMA BeginKillKeepsTakenInv == ASSUME IInv, TakenInv, BeginKill PROVE TakenInv'
<1>1. PICK S \in SUBSET Ids :
         /\ server = "serving" /\ at = "idle" /\ at' = "commit"
         /\ tree' = [p \in Ids |-> IF p \in S THEN "none" ELSE tree[p]]
         /\ \A p \in Ids \ S : links'[p] = links[p]
         /\ killed' = killed \union S
         /\ undo'.tree = tree /\ undo'.links = links
         /\ UNCHANGED <<disk, server, proc, known, ever>>
  <2>1. PICK S \in (SUBSET Held(tree)) \ {{}}, one \in BOOLEAN :
           LET had == S \intersect Copies(tree) IN
           /\ Idle
           /\ Begin(IF one THEN {} ELSE had)
           /\ tree' = [p \in Ids |-> IF p \in S THEN "none" ELSE tree[p]]
           /\ links' = [p \in Ids |-> IF p \in had THEN 0 ELSE links[p]]
           /\ killed' = killed \union S
           /\ at' = "commit"
           /\ UNCHANGED <<disk, server, proc, known, ever>>
    BY DEF BeginKill, files
  <2>2. S \in SUBSET Ids
    BY DEF Held
  <2>3. \A p \in Ids \ S : links'[p] = links[p]
    BY <2>1
  <2>4. undo'.tree = tree /\ undo'.links = links
    BY <2>1 DEF Begin
  <2>5. server = "serving" /\ at = "idle"
    BY <2>1 DEF Idle
  <2> QED
    BY <2>1, <2>2, <2>3, <2>4, <2>5
<1>2. \A m \in Procs : proc[m].state # "starting"
  BY <1>1, NoneStarts DEF Spawned
<1>3. StartsAreAwaited' /\ NoneBeside'
  BY <1>1, <1>2 DEF StartsAreAwaited, NoneBeside
<1>4. /\ at' \in Changing /\ at' \notin Making /\ at' # "record"
      /\ at \notin Making /\ at \notin Changing
  BY <1>1 DEF Making, Changing, Spawned
<1>5. Held(tree') = Held(tree) \ S
  BY <1>1 DEF Held
<1>6. PanesAreLinked'
  <2>1. \A m \in Procs : Live(m) /\ proc[m].id \in Held(tree) => links[proc[m].id] = m
    BY <1>1, <1>4 DEF TakenInv, PanesAreLinked
  <2>2. \A p \in Held(tree') : p \in Held(tree) /\ links'[p] = links[p]
    BY <1>1, <1>5 DEF Held
  <2> QED
    BY <1>1, <1>4, <2>1, <2>2 DEF PanesAreLinked, Live
<1>7. KnownAreKept'
  <2>1. KeptIn(tree) /\ (disk # NoRecord => KeptIn(disk.tree) /\ Held(tree) \subseteq Held(disk.tree))
    BY <1>1, <1>4 DEF TakenInv, KnownAreKept
  <2>2. known \subseteq ever
    BY DEF TakenInv, KnownAreKept
  <2> QED
    BY <1>1, <1>4, <1>5, <2>1, <2>2 DEF KnownAreKept, KeptIn, ShellEnded, Is
<1> QED
  BY <1>3, <1>6, <1>7 DEF TakenInv

\* A change is recorded before it is told, or not made.
LEMMA CommitKeepsTakenInv == ASSUME IInv, TakenInv, Commit PROVE TakenInv'
<1>1. /\ server = "serving" /\ at = "commit"
      /\ \/ at' = "say" /\ disk' = Now
         \/ at' = "undo" /\ disk' = disk
      /\ UNCHANGED <<server, tree, links, undo, made, proc, known, ever, killed>>
  BY DEF Commit, Record, session, history
<1>2. \A m \in Procs : proc[m].state # "starting"
  BY <1>1, NoneStarts DEF Spawned
<1>3. at \in Changing /\ at \notin Making
  BY <1>1 DEF Making, Changing, Spawned
<1>4. CASE at' = "undo"
  BY <1>1, <1>2, <1>3, <1>4, FailingKeepsTakenInv
<1>5. CASE at' = "say"
  <2>1. at' \notin Changing /\ at' \notin Making /\ disk'.tree = tree
    BY <1>1, <1>5 DEF Making, Changing, Spawned, Now
  <2>2. StartsAreAwaited' /\ NoneBeside'
    BY <1>1, <1>2 DEF StartsAreAwaited, NoneBeside
  <2>3. PanesAreLinked'
    BY <1>1, <1>3, <2>1 DEF TakenInv, PanesAreLinked, Live, Held
  <2>4. KeptIn(tree) /\ known \subseteq ever
    BY <1>1 DEF TakenInv, KnownAreKept
  <2>5. KnownAreKept'
    BY <1>1, <1>5, <2>1, <2>4 DEF KnownAreKept, KeptIn, ShellEnded, Is, Held
  <2> QED
    BY <2>2, <2>3, <2>5 DEF TakenInv
<1> QED
  BY <1>1, <1>4, <1>5

\* A change undone: the tree to go back to, which is in the record.
LEMMA RollBackKeepsTakenInv == ASSUME IInv, TakenInv, RollBack PROVE TakenInv'
<1>1. /\ server = "serving" /\ at = "undo" /\ at' = "refuse"
      /\ tree' = [p \in Ids |-> IF p \in undo.bare THEN "bare" ELSE undo.tree[p]]
      /\ links' = undo.links
      /\ killed' = killed \ (Held(tree') \ Held(tree))
      /\ disk' = disk \/ disk' = Now'
      /\ UNCHANGED <<server, proc, known, ever>>
  BY DEF RollBack
<1>2. \A m \in Procs : proc[m].state # "starting"
  BY <1>1, NoneStarts DEF Spawned
<1>3. StartsAreAwaited' /\ NoneBeside'
  BY <1>1, <1>2 DEF StartsAreAwaited, NoneBeside
<1>4. /\ at \in Changing /\ at' \notin Changing /\ at' \notin Making
  BY <1>1 DEF Making, Changing, Spawned
<1>5. Held(tree') = Held(undo.tree)
  <2>1. undo.bare \subseteq Held(undo.tree)
    BY <1>1, <1>4 DEF IInv, IdsGoOn
  <2> QED
    BY <1>1, <2>1 DEF Held
<1>6. PanesAreLinked'
  <2>1. \A m \in Procs : Live(m) /\ proc[m].id \in Held(undo.tree) =>
            undo.links[proc[m].id] = m
    BY <1>1, <1>4 DEF TakenInv, PanesAreLinked
  <2> QED
    BY <1>1, <1>4, <1>5, <2>1 DEF PanesAreLinked, Live
<1>7. KnownAreKept'
  <2>1. /\ known \subseteq ever /\ KeptIn(undo.tree)
        /\ disk # NoRecord => KeptIn(disk.tree) /\ Held(undo.tree) \subseteq Held(disk.tree)
    BY <1>1, <1>4 DEF TakenInv, KnownAreKept
  <2>2. \A p \in known \ killed' : p \in Held(tree') \/ ShellEnded(p)
    BY <1>1, <1>5, <2>1 DEF KeptIn
  <2>3. disk' = disk /\ disk # NoRecord =>
            /\ \A p \in known \ killed' : p \in Held(disk.tree) \/ ShellEnded(p)
            /\ Held(tree') \subseteq Held(disk'.tree)
    BY <1>1, <1>5, <2>1 DEF KeptIn
  <2>4. disk' = Now' => disk'.tree = tree'
    BY DEF Now
  <2> QED
    BY <1>1, <1>4, <2>1, <2>2, <2>3, <2>4
       DEF KnownAreKept, KeptIn, ShellEnded, Is, Held
<1> QED
  BY <1>3, <1>6, <1>7 DEF TakenInv

\* What is told is in the tree, and so in the record.
LEMMA SayKeepsTakenInv == ASSUME IInv, TakenInv, Say PROVE TakenInv'
<1>1. /\ server = "serving" /\ at \in {"say", "refuse"} /\ at' = "idle"
      /\ known' = Held(tree) /\ ever' = ever \union Held(tree)
      /\ UNCHANGED <<disk, server, tree, links, proc, killed>>
  BY DEF Say, files, session
<1>2. \A m \in Procs : proc[m].state # "starting"
  BY <1>1, NoneStarts DEF Spawned
<1>3. StartsAreAwaited' /\ NoneBeside'
  BY <1>1, <1>2 DEF StartsAreAwaited, NoneBeside
<1>4. /\ at \notin Changing /\ at' \notin Changing /\ at' \notin Making
      /\ at \notin Making /\ at # "undo"
  BY <1>1 DEF Making, Changing, Spawned
<1>5. PanesAreLinked'
  BY <1>1, <1>4 DEF TakenInv, PanesAreLinked, Live, Held
<1>6. KnownAreKept'
  <2>1. disk # NoRecord => Held(tree) \subseteq Held(disk.tree)
    BY <1>1, <1>4 DEF TakenInv, KnownAreKept
  <2>2. Held(tree') = Held(tree) /\ Held(disk'.tree) = Held(disk.tree)
    BY <1>1 DEF Held
  <2> QED
    BY <1>1, <1>4, <2>1, <2>2 DEF KnownAreKept, KeptIn
<1> QED
  BY <1>3, <1>5, <1>6 DEF TakenInv

\* The record is written outside a change.
LEMMA SettleKeepsTakenInv ==
    ASSUME IInv, TakenInv, Settle \/ Resettle PROVE TakenInv'
<1>1. /\ server = "serving" /\ at \in {"settle", "idle"} /\ at' \in {"say", "idle"}
      /\ disk' = disk \/ disk' = Now
      /\ UNCHANGED <<server, tree, links, proc, known, ever, killed>>
  BY DEF Settle, Resettle, Idle, Record, session, history
<1>2. \A m \in Procs : proc[m].state # "starting"
  BY <1>1, NoneStarts DEF Spawned
<1>3. StartsAreAwaited' /\ NoneBeside'
  BY <1>1, <1>2 DEF StartsAreAwaited, NoneBeside
<1>4. /\ at \notin Changing /\ at' \notin Changing /\ at' \notin Making
      /\ at \notin Making /\ at # "undo"
  BY <1>1 DEF Making, Changing, Spawned
<1>5. PanesAreLinked'
  BY <1>1, <1>4 DEF TakenInv, PanesAreLinked, Live, Held
<1>6. KnownAreKept'
  <2>1. /\ known \subseteq ever /\ KeptIn(tree)
        /\ disk # NoRecord => KeptIn(disk.tree) /\ Held(tree) \subseteq Held(disk.tree)
    BY <1>1, <1>4 DEF TakenInv, KnownAreKept
  <2>2. disk' = Now => disk'.tree = tree
    BY DEF Now
  <2>3. Held(tree') = Held(tree)
    BY <1>1 DEF Held
  <2> QED
    BY <1>1, <1>4, <2>1, <2>2 DEF KnownAreKept, KeptIn, ShellEnded, Is, Held
<1> QED
  BY <1>3, <1>5, <1>6 DEF TakenInv

\* A pane's program, or its process, ended: a shell's pane closes only then.
LEMMA EndedKeepsTakenInv ==
    ASSUME IInv, TakenInv, NEW p \in Ids, News(p) \/ Lost(p) PROVE TakenInv'
<1>1. /\ server = "serving" /\ at = "idle" /\ at' = "settle"
      /\ links[p] # 0
      /\ proc[links[p]].state \in {"open", "gone"}
      /\ proc[links[p]].state = "open" => ~proc[links[p]].runs /\ tree[p] # "none"
      /\ UNCHANGED <<disk, server, proc, known, ever, killed>>
  BY DEF News, Lost, Idle, Ended, Is, files, history
<1>2. /\ tree \in [Ids -> States] /\ links \in [Ids -> 0..MaxProcs]
      /\ \A m \in Procs : Listening(m) => proc[m].id \in Ids
  BY DEF IInv, Types, FoundAtItsPath
<1>3. \A q \in Ids : q # p => tree'[q] = tree[q] /\ links'[q] = links[q]
  BY <1>2 DEF News, Lost, Ended
<1>4. /\ tree'[p] # "none" /\ proc[links[p]].state = "open" => links'[p] = links[p]
      /\ tree[p] = "none" => tree'[p] = "none"
      /\ tree[p] # "none" /\ tree'[p] = "none" => p \in Shells
  <2> DEFINE closes == p \in Copies(tree) /\ p \in Shells
  <2>1. tree' = [tree EXCEPT ![p] = IF closes THEN "none"
                                    ELSE IF p \in Copies(tree) THEN "ended" ELSE @]
    BY DEF News, Lost, Ended
  <2>2. p \in Copies(tree) => tree[p] # "none"
    BY DEF Copies, Held
  <2>3. tree'[p] = IF closes THEN "none"
                   ELSE IF p \in Copies(tree) THEN "ended" ELSE tree[p]
    BY <1>2, <2>1
  <2>4. proc[links[p]].state = "open" => News(p)
    BY DEF Lost, Is
  <2>5. News(p) => links' = IF closes THEN [links EXCEPT ![p] = 0] ELSE links
    BY DEF News, Ended
  <2> QED
    BY <2>2, <2>3, <2>4, <2>5
<1>5. \A m \in Procs : proc[m].state # "starting"
  BY <1>1, NoneStarts DEF Spawned
<1>6. StartsAreAwaited' /\ NoneBeside'
  BY <1>1, <1>5 DEF StartsAreAwaited, NoneBeside
<1>7. /\ at \notin Changing /\ at' \notin Changing /\ at' \notin Making
      /\ at \notin Making /\ at # "undo"
  BY <1>1 DEF Making, Changing, Spawned
<1>8. \A m \in Procs : Live(m) /\ proc[m].id \in Held(tree) => links[proc[m].id] = m
  BY <1>1, <1>7 DEF TakenInv, PanesAreLinked
<1>9. Held(tree') \subseteq Held(tree)
  BY <1>3, <1>4 DEF Held
<1>10. PanesAreLinked'
  <2>1. ASSUME NEW m \in Procs, Live(m), proc[m].id \in Held(tree')
        PROVE  links'[proc[m].id] = m
    <3>1. links[proc[m].id] = m /\ proc[m].id \in Ids
      BY <1>8, <1>9, <2>1 DEF Held
    <3>2. CASE proc[m].id = p
      <4>1. proc[links[p]].state = "open" /\ tree'[p] # "none"
        BY <1>1, <2>1, <3>1, <3>2 DEF Live, Held
      <4> QED
        BY <1>4, <3>1, <3>2, <4>1
    <3> QED
      BY <1>3, <3>1, <3>2
  <2> QED
    BY <1>1, <1>7, <2>1 DEF PanesAreLinked, Live
<1>11. p \in Held(tree) /\ p \notin Held(tree') => ShellEnded(p)
  <2>1. ASSUME p \in Held(tree), NEW m \in Procs, proc[m].id = p, Is(m, {"open"})
        PROVE  ~proc[m].runs
    <3>1. links[p] = m
      BY <1>8, <2>1 DEF Live, Is
    <3> QED
      BY <1>1, <2>1, <3>1 DEF Is
  <2>2. p \in Held(tree) /\ p \notin Held(tree') => p \in Shells
    BY <1>4 DEF Held
  <2> QED
    BY <2>1, <2>2 DEF ShellEnded
<1>12. KnownAreKept'
  <2>1. /\ known \subseteq ever /\ KeptIn(tree)
        /\ disk # NoRecord => KeptIn(disk.tree) /\ Held(tree) \subseteq Held(disk.tree)
    BY <1>1, <1>7 DEF TakenInv, KnownAreKept
  <2>2. \A q \in Held(tree) : q \in Held(tree') \/ ShellEnded(q)
    BY <1>3, <1>11 DEF Held
  <2>3. \A q \in known \ killed : q \in Held(tree') \/ ShellEnded(q)
    BY <2>1, <2>2 DEF KeptIn
  <2> QED
    BY <1>1, <1>7, <1>9, <2>1, <2>3 DEF KnownAreKept, KeptIn, ShellEnded, Is
<1> QED
  BY <1>6, <1>10, <1>12 DEF TakenInv

\* A run that stops has no record, and nothing to take back.
LEMMA StopsKeepTakenInv ==
    ASSUME IInv, TakenInv, UnrecordRun \/ Shutdown \/ Exit PROVE TakenInv'
<1>1. /\ server' \in {"stopping", "over"}
      /\ (server = "serving" /\ at = "idle") \/ server = "stopping"
      /\ UNCHANGED <<proc, known, ever>>
  BY DEF UnrecordRun, Idle, Shutdown, Exit, history
<1>2. \A m \in Procs : proc[m].state # "starting"
  BY <1>1, NoneStarts DEF Spawned
<1> QED
  BY <1>1, <1>2
     DEF TakenInv, StartsAreAwaited, PanesAreLinked, KnownAreKept, NoneBeside

\* A server gone leaves the record, with what clients know of and the panes
\* whose processes have yet to begin.
LEMMA VanishKeepsTakenInv ==
    ASSUME IInv, TakenInv, Vanish, UNCHANGED <<files, proc, history>>,
           server \in {"taking", "serving", "stopping"}
    PROVE  TakenInv'
<1>1. /\ server' = "down" /\ at' = "idle" /\ UNCHANGED <<disk, proc, known, ever, killed>>
      /\ at' \notin Changing
  BY DEF Vanish, files, history, Changing, Making, Spawned
<1>2. StartsAreAwaited'
  <2>1. ASSUME NEW m \in Procs, proc[m].state = "starting"
        PROVE  /\ proc[m].id \notin ever /\ disk # NoRecord
               /\ proc[m].id \in Copies(disk.tree)
    <3>1. proc[m].id \notin ever /\ server \in {"serving", "taking"}
      BY <2>1 DEF TakenInv, StartsAreAwaited
    <3>2. CASE server = "serving"
      <4>1. m = peer /\ at \in Spawned
        BY <2>1, <3>2 DEF TakenInv, StartsAreAwaited
      <4>2. /\ proc[m].id = made /\ made # 0 /\ made \in 0..MaxId
            /\ disk # NoRecord /\ disk.tree[made] = "runs"
        BY <3>2, <4>1 DEF IInv, Types, PeerIsItsPanes, IdsGoOn,
           Changing, Making, Spawned
      <4> QED
        BY <3>1, <4>2 DEF Copies, Held
    <3>3. CASE server = "taking"
      <4>1. /\ proc[m].id \in todo /\ todo \subseteq Copies(disk.tree)
            /\ disk # NoRecord
        BY <2>1, <3>3 DEF TakenInv, StartsAreAwaited, IInv, IdsGoOn, Absent
      <4> QED
        BY <3>1, <4>1
    <3> QED
      BY <3>1, <3>2, <3>3
  <2> QED
    BY <1>1, <2>1 DEF StartsAreAwaited, Copies, Held
<1>3. PanesAreLinked' /\ NoneBeside'
  BY <1>1 DEF PanesAreLinked, NoneBeside
<1>4. KnownAreKept'
  <2>1. known \subseteq ever /\ (disk # NoRecord => KeptIn(disk.tree))
    BY DEF TakenInv, KnownAreKept, IInv, Absent
  <2> QED
    BY <1>1, <2>1 DEF KnownAreKept, KeptIn, ShellEnded, Is, Held
<1> QED
  BY <1>2, <1>3, <1>4 DEF TakenInv

\* It crashed, or could not take the run back.
LEMMA CrashKeepsTakenInv ==
    ASSUME IInv, TakenInv, Crash \/ Refuse \/ Unrestored PROVE TakenInv'
BY VanishKeepsTakenInv DEF Crash, Refuse, Unrestored

\* The next server has all of the record's panes to take back.
LEMMA StartKeepsTakenInv == ASSUME IInv, TakenInv, Start PROVE TakenInv'
<1>1. /\ server = "down" /\ disk # NoRecord /\ server' = "taking" /\ at' = "next"
      /\ todo' = Copies(disk.tree) /\ tree = NoTree
      /\ UNCHANGED <<disk, tree, proc, known, ever, killed>>
  BY DEF Start, files, history, IInv, Absent
<1>2. Held(tree) = {} /\ at' \notin Changing
  BY <1>1 DEF Held, NoTree, Changing, Making, Spawned
<1>3. StartsAreAwaited'
  BY <1>1 DEF TakenInv, StartsAreAwaited
<1>4. PanesAreLinked' /\ NoneBeside'
  BY <1>1, <1>2 DEF PanesAreLinked, NoneBeside, Held
<1>5. KnownAreKept'
  <2>1. known \subseteq ever /\ KeptIn(disk.tree)
    BY <1>1 DEF TakenInv, KnownAreKept
  <2>2. Held(tree') = {} /\ Held(disk'.tree) = Held(disk.tree)
    BY <1>1, <1>2 DEF Held
  <2>3. Whole(disk') => Held(disk.tree) = todo'
    BY <1>1 DEF Whole, Held, Copies
  <2> QED
    BY <1>1, <1>2, <2>1, <2>2, <2>3 DEF KnownAreKept, KeptIn, ShellEnded, Is
<1> QED
  BY <1>3, <1>4, <1>5 DEF TakenInv

\* A recorded pane's process is reached.
LEMMA TakeKeepsTakenInv ==
    ASSUME IInv, TakenInv, NEW p \in Ids, Take(p) PROVE TakenInv'
<1>1. /\ server = "taking" /\ at = "next" /\ at' = "asked"
      /\ UNCHANGED <<disk, server, tree, links, undo, made, todo, known, ever,
                     killed>>
      /\ proc \in ProcType /\ peer' \in Procs
      /\ \/ proc' = proc
         \/ proc' = [proc EXCEPT ![peer'].link = "up", ![peer'].word = <<"take">>]
  <2>1. peer' = socket[p] /\ socket[p] # 0
    BY DEF Take, Listens, Is
  <2>2. peer' \in Procs /\ proc \in ProcType
    <3>1. socket[p] \in 0..MaxProcs /\ proc \in ProcType
      BY DEF IInv, Types
    <3> QED
      BY <2>1, <3>1
  <2>3. \/ proc' = proc
        \/ proc' = [proc EXCEPT ![peer'].link = "up", ![peer'].word = <<"take">>]
    BY DEF Take
  <2>4. /\ server = "taking" /\ at = "next" /\ at' = "asked"
        /\ UNCHANGED <<disk, server, tree, links, undo, made, todo, known, ever,
                       killed>>
    BY DEF Take, files, session, change, history
  <2> QED
    BY <2>2, <2>3, <2>4
<1>2. \A m \in Procs : /\ proc'[m].id = proc[m].id /\ proc'[m].state = proc[m].state
                       /\ proc'[m].runs = proc[m].runs
  <2>1. CASE proc' = proc
    BY <2>1
  <2>2. CASE proc' = [proc EXCEPT ![peer'].link = "up", ![peer'].word = <<"take">>]
    BY <1>1, <2>2 DEF ProcType
  <2> QED
    BY <1>1, <2>1, <2>2
<1>3. \A m \in Procs : Fade(m)
  BY <1>2 DEF Fade, Live
<1> QED
  BY <1>1, <1>3, FadingKeepsTakenInv

\* A server that is refused no connect takes for gone only what does not
\* listen (none_listens): nothing of the pane lives.
LEMMA TakeGoneKeepsTakenInv ==
    ASSUME IInv, TakenInv, ~Scarce, NEW p \in Ids, TakeGone(p) PROVE TakenInv'
<1>1. /\ server = "taking" /\ at = "next" /\ at' = "next" /\ p \in todo /\ ~Listens(p)
      /\ tree' = [tree EXCEPT ![p] = "ended"] /\ todo' = todo \ {p}
      /\ tree \in [Ids -> States]
      /\ UNCHANGED <<disk, server, links, proc, known, ever, killed>>
  BY DEF TakeGone, files, change, history, IInv, Types
<1>2. \A m \in Procs : Live(m) => proc[m].id # p /\ proc[m].id \in Ids
  <2>1. \A m \in Procs : Listening(m) => socket[proc[m].id] = m /\ proc[m].id \in Ids
    BY <1>1 DEF IInv, FoundAtItsPath
  <2> QED
    BY <1>1, <2>1 DEF Live, Listening, Listens, Is
<1>3. Held(tree') = Held(tree) \union {p} /\ \A q \in Ids : q # p => tree'[q] = tree[q]
  BY <1>1 DEF Held
<1>4. at \notin Changing /\ at \notin Making /\ at # "undo" /\ at # "record"
  BY <1>1 DEF Changing, Making, Spawned
<1>5. StartsAreAwaited'
  BY <1>1, <1>2 DEF TakenInv, StartsAreAwaited, Live
<1>6. PanesAreLinked'
  BY <1>1, <1>2, <1>3, <1>4 DEF TakenInv, PanesAreLinked, Live
<1>7. KnownAreKept'
  <2>1. /\ known \subseteq ever /\ disk # NoRecord /\ KeptIn(disk.tree)
        /\ Held(tree) \subseteq Held(disk.tree)
        /\ Whole(disk) => \A q \in known \ killed :
              q \in Held(tree) \union todo \/ ShellEnded(q)
        /\ todo \intersect Held(tree) = {}
        /\ \A m \in Procs : /\ proc[m].id \in Held(tree)
                            /\ proc[m].state = "open"
                            /\ tree[proc[m].id] = "ended"
                            => ~proc[m].runs
    BY <1>1, <1>4 DEF TakenInv, KnownAreKept, IInv, Absent
  <2>2. p \in Held(disk.tree)
    BY <1>1 DEF IInv, IdsGoOn, Copies
  <2>3. Held(tree') \subseteq Held(disk.tree) /\ todo' \intersect Held(tree') = {}
    BY <1>1, <1>3, <2>1, <2>2
  <2>4. Whole(disk) => \A q \in known \ killed :
              q \in Held(tree') \union todo' \/ ShellEnded(q)
    BY <1>1, <1>3, <2>1
  <2>5. \A m \in Procs : /\ proc[m].id \in Held(tree')
                         /\ proc[m].state = "open"
                         /\ tree'[proc[m].id] = "ended"
                         => ~proc[m].runs
    BY <1>2, <1>3, <2>1 DEF Live
  <2>6. Held(disk'.tree) = Held(disk.tree) /\ (Whole(disk)' <=> Whole(disk))
    BY <1>1 DEF Held, Whole, Copies
  <2> QED
    BY <1>1, <1>4, <2>1, <2>3, <2>4, <2>5, <2>6
       DEF KnownAreKept, KeptIn, ShellEnded, Is
<1>8. NoneBeside'
  BY <1>1 DEF NoneBeside
<1> QED
  BY <1>5, <1>6, <1>7, <1>8 DEF TakenInv

\* The process that greets is the only one of its pane that lives.
LEMMA GreetKeepsTakenInv == ASSUME IInv, TakenInv, Greet PROVE TakenInv'
<1> DEFINE p == proc[peer].id
<1>1. /\ server = "taking" /\ at = "asked" /\ at' = "next"
      /\ peer \in Procs /\ proc[peer].state = "open" /\ p \in todo /\ p \in Ids
      /\ links' = [links EXCEPT ![p] = peer]
      /\ tree' = [tree EXCEPT ![p] = IF proc[peer].runs THEN "runs" ELSE "ended"]
      /\ todo' = todo \ {p}
      /\ proc' = [proc EXCEPT ![peer].link = "up"]
      /\ UNCHANGED <<disk, server, known, ever, killed>>
      /\ tree \in [Ids -> States] /\ links \in [Ids -> 0..MaxProcs]
      /\ proc \in ProcType
  <2>1. peer \in Procs /\ p \in todo /\ p \in Ids
    BY DEF Greet, IInv, Types, PeerIsItsPanes
  <2> QED
    BY <2>1 DEF Greet, Is, files, history, IInv, Types
<1>2. \A m \in Procs : /\ proc'[m].id = proc[m].id /\ proc'[m].state = proc[m].state
                       /\ proc'[m].runs = proc[m].runs
  BY <1>1 DEF ProcType
<1>3. \A m \in Procs : Live(m) => proc[m].id \in Ids /\ (proc[m].id = p => m = peer)
  <2>1. \A m \in Procs : Listening(m) => socket[proc[m].id] = m /\ proc[m].id \in Ids
    BY <1>1 DEF IInv, FoundAtItsPath
  <2> QED
    BY <1>1, <2>1 DEF Live, Listening
<1> HIDE DEF p
<1>4. /\ Held(tree') = Held(tree) \union {p}
      /\ \A q \in Ids : q # p => tree'[q] = tree[q] /\ links'[q] = links[q]
      /\ links'[p] = peer /\ (tree'[p] = "ended" => ~proc[peer].runs)
  BY <1>1 DEF Held
<1>5. /\ at \notin Changing /\ at \notin Making /\ at # "undo" /\ at # "record"
      /\ at' \notin Changing /\ at' \notin Making
  BY <1>1 DEF Changing, Making, Spawned
<1>6. \A m \in Procs : (Live(m)' <=> Live(m))
  BY <1>2 DEF Live
<1>7. StartsAreAwaited'
  BY <1>1, <1>2, <1>3 DEF TakenInv, StartsAreAwaited, Live
<1>8. PanesAreLinked'
  <2>1. \A n \in Procs : Live(n) /\ proc[n].id \in Held(tree) => links[proc[n].id] = n
    BY <1>1, <1>5 DEF TakenInv, PanesAreLinked
  <2>2. ASSUME NEW n \in Procs, Live(n), proc[n].id \in Held(tree')
        PROVE  links'[proc[n].id] = n
    <3>1. CASE proc[n].id = p
      BY <1>3, <1>4, <2>2, <3>1
    <3>2. CASE proc[n].id # p
      BY <1>3, <1>4, <2>1, <2>2, <3>2
    <3> QED
      BY <3>1, <3>2
  <2>3. \A n \in Procs : Live(n)' /\ proc'[n].id \in Held(tree)' => links'[proc'[n].id] = n
    BY <1>2, <1>6, <2>2 DEF Held
  <2> QED
    BY <1>1, <1>5, <2>3 DEF PanesAreLinked
<1>9. \A q : ShellEnded(q)' <=> ShellEnded(q)
  BY <1>2 DEF ShellEnded, Is
<1>10. KnownAreKept'
  <2>1. /\ known \subseteq ever /\ disk # NoRecord /\ KeptIn(disk.tree)
        /\ Held(tree) \subseteq Held(disk.tree)
        /\ Whole(disk) => \A q \in known \ killed :
              q \in Held(tree) \union todo \/ ShellEnded(q)
        /\ todo \intersect Held(tree) = {}
        /\ \A m \in Procs : /\ proc[m].id \in Held(tree)
                            /\ proc[m].state = "open"
                            /\ tree[proc[m].id] = "ended"
                            => ~proc[m].runs
    BY <1>1, <1>5 DEF TakenInv, KnownAreKept, IInv, Absent
  <2>2. p \in Held(disk.tree)
    BY <1>1 DEF IInv, IdsGoOn, Copies
  <2>3. Held(tree') \subseteq Held(disk.tree) /\ todo' \intersect Held(tree') = {}
    BY <1>1, <1>4, <2>1, <2>2
  <2>4. Whole(disk) => \A q \in known \ killed :
              q \in Held(tree') \union todo' \/ ShellEnded(q)
    BY <1>1, <1>4, <2>1
  <2>5. ASSUME NEW m \in Procs, proc[m].id \in Held(tree'), proc[m].state = "open",
               tree'[proc[m].id] = "ended"
        PROVE  ~proc[m].runs
    <3>1. CASE m = peer
      BY <1>4, <2>5, <3>1 DEF p
    <3>2. CASE m # peer
      <4>1. proc[m].id # p /\ proc[m].id \in Ids
        BY <1>3, <2>5, <3>2 DEF Live
      <4> QED
        BY <1>4, <2>1, <2>5, <4>1
    <3> QED
      BY <3>1, <3>2
  <2>6. Held(disk'.tree) = Held(disk.tree) /\ (Whole(disk)' <=> Whole(disk))
    BY <1>1 DEF Held, Whole, Copies
  <2> QED
    BY <1>1, <1>2, <1>5, <1>9, <2>1, <2>3, <2>4, <2>5, <2>6
       DEF KnownAreKept, KeptIn
<1>11. NoneBeside'
  BY <1>1 DEF NoneBeside
<1> QED
  BY <1>7, <1>8, <1>10, <1>11 DEF TakenInv

\* The run taken back: what clients know of is in its tree, or was a shell's.
LEMMA ResumeKeepsTakenInv == ASSUME IInv, TakenInv, Resume PROVE TakenInv'
<1> DEFINE over == {p \in Shells \intersect Ids : tree[p] = "ended"}
<1>1. /\ server = "taking" /\ at = "next" /\ todo = {} /\ Whole(disk)
      /\ server' = "serving" /\ at' = "settle"
      /\ tree' = [p \in Ids |-> IF p \in over THEN "none" ELSE tree[p]]
      /\ links' = [p \in Ids |-> IF p \in over THEN 0 ELSE links[p]]
      /\ UNCHANGED <<disk, proc, known, ever, killed>>
  BY DEF Resume, files, history
<1>2. /\ over \subseteq Shells /\ over \subseteq Ids
      /\ \A p \in over : tree[p] = "ended" /\ p \in Held(tree)
  BY DEF Held
<1> HIDE DEF over
<1>3. Held(tree') = Held(tree) \ over
  BY <1>1 DEF Held
<1>4. /\ at \notin Changing /\ at # "undo" /\ at' \notin Changing /\ at' \notin Making
  BY <1>1 DEF Changing, Making, Spawned
<1>5. \A m \in Procs : proc[m].state # "starting"
  BY <1>1 DEF TakenInv, StartsAreAwaited
<1>6. StartsAreAwaited' /\ NoneBeside'
  BY <1>1, <1>5 DEF StartsAreAwaited, NoneBeside
<1>7. PanesAreLinked'
  <2>1. \A m \in Procs : Live(m) /\ proc[m].id \in Held(tree) => links[proc[m].id] = m
    BY <1>1, <1>4 DEF TakenInv, PanesAreLinked
  <2>2. \A p \in Held(tree') : p \in Held(tree) /\ links'[p] = links[p]
    BY <1>1, <1>3 DEF Held
  <2> QED
    BY <1>1, <1>4, <2>1, <2>2 DEF PanesAreLinked, Live
<1>8. KnownAreKept'
  <2>1. /\ known \subseteq ever /\ disk # NoRecord /\ KeptIn(disk.tree)
        /\ Held(tree) \subseteq Held(disk.tree)
        /\ \A q \in known \ killed : q \in Held(tree) \/ ShellEnded(q)
        /\ \A m \in Procs : /\ proc[m].id \in Held(tree)
                            /\ proc[m].state = "open"
                            /\ tree[proc[m].id] = "ended"
                            => ~proc[m].runs
    BY <1>1, <1>4 DEF TakenInv, KnownAreKept, IInv, Absent
  <2>2. \A q \in over : ShellEnded(q)
    BY <1>2, <2>1 DEF ShellEnded, Is
  <2>3. \A q \in known \ killed : q \in Held(tree') \/ ShellEnded(q)
    BY <1>3, <2>1, <2>2
  <2>4. Held(disk'.tree) = Held(disk.tree)
    BY <1>1 DEF Held
  <2> QED
    BY <1>1, <1>3, <1>4, <2>1, <2>3, <2>4 DEF KnownAreKept, KeptIn,
       ShellEnded, Is
<1> QED
  BY <1>6, <1>7, <1>8 DEF TakenInv

\* Another run begins only once no process of this one waits.
LEMMA FreshKeepsTakenInv == ASSUME IInv, TakenInv, Fresh PROVE TakenInv'
<1>1. /\ server \in {"down", "over"} /\ disk = NoRecord /\ server' = "fresh"
      /\ \A p \in Ids : ~(Listens(p) /\ Is(socket[p], {"open"}))
      /\ UNCHANGED <<proc, known, ever>>
  BY DEF Fresh, history
<1>2. \A m \in Procs : ~Live(m)
  <2>1. ASSUME NEW m \in Procs, Live(m)
        PROVE  FALSE
    <3>1. proc[m].id \in Ids /\ socket[proc[m].id] = m
      BY <1>1, <2>1 DEF IInv, FoundAtItsPath, Live, Listening
    <3>2. proc[m].state # "starting"
      BY <1>1 DEF TakenInv, StartsAreAwaited
    <3> QED
      BY <1>1, <2>1, <3>1, <3>2 DEF Listens, Is, Live
  <2> QED
    BY <2>1
<1> QED
  BY <1>1, <1>2
     DEF TakenInv, StartsAreAwaited, PanesAreLinked, KnownAreKept, NoneBeside, Live

\* What the processes do, and the links that are flushed or let go.
LEMMA ProcessKeepsTakenInv ==
    ASSUME IInv, TakenInv, NEW n \in Procs,
           Flush(n) \/ LetGo(n) \/ Process(n) \/ ProgramEnds(n) \/ Die(n)
    PROVE  TakenInv'
<1>1. /\ UNCHANGED <<disk, server, at, tree, links, undo, made, peer, todo, known,
                     ever, killed>>
      /\ proc \in ProcType
  BY DEF Flush, LetGo, Process, FirstWord, NoWord, HearClose, LinkLost, Unbind,
         Finish, ProgramEnds, Die, OfServer, files, session, change, history,
         IInv, Types
<1>2. \A m \in Procs : m # n => proc'[m] = proc[m]
  BY <1>1 DEF Flush, LetGo, Process, FirstWord, NoWord, HearClose,
     LinkLost, Unbind,
         Finish, ProgramEnds, Die, Gone, ProcType
<1>3. /\ proc'[n].id = proc[n].id
      /\ \/ proc'[n].state = proc[n].state /\ (proc'[n].runs => proc[n].runs)
         \/ proc'[n].state \in {"closed", "ending", "gone"}
         \/ proc'[n].state = "open" /\ proc[n].state = "starting"
  <2>1. CASE Gone(n)
    BY <1>1, <2>1 DEF Gone, Goes, NoProc, ProcType
  <2>2. CASE FirstWord(n) /\ ~Gone(n)
    BY <1>1, <2>2 DEF FirstWord, Is, ProcType
  <2>3. CASE Flush(n) \/ LetGo(n)
    <3>1. proc' = proc \/ proc' = [proc EXCEPT ![n].word = Append(proc[n].word, "close")]
      BY <2>3 DEF Flush, LetGo
    <3>2. CASE proc' = [proc EXCEPT ![n].word = Append(proc[n].word, "close")]
      BY <1>1, <3>2 DEF ProcType
    <3> QED
      BY <3>1, <3>2
  <2>4. CASE HearClose(n)
    BY <1>1, <2>4 DEF HearClose, ProcType
  <2>5. CASE LinkLost(n)
    BY <1>1, <2>5 DEF LinkLost, ProcType
  <2>6. CASE Unbind(n)
    BY <1>1, <2>6 DEF Unbind, ProcType
  <2>7. CASE ProgramEnds(n)
    BY <1>1, <2>7 DEF ProgramEnds, ProcType
  <2> QED
    BY <2>1, <2>2, <2>3, <2>4, <2>5, <2>6, <2>7
       DEF Process, NoWord, Finish, Die
<1>4. \A m \in Procs : Fade(m)
  BY <1>2, <1>3 DEF Fade, Live
<1> QED
  BY <1>1, <1>4, FadingKeepsTakenInv

-----------------------------------------------------------------------------
(* The theorems.                                                           *)

\* The first server of a run has nothing yet.
LEMMA InitHasIInv == Init => IInv
<1> SUFFICES ASSUME Init PROVE IInv
  OBVIOUS
<1> USE DEF Init, NoTree, NoLinks, NoUndo, NoProc
<1>1. proc \in ProcType /\ undo \in UndoType
  BY DEF ProcType, UndoType, ProcStates, Words, States
<1>2. Types
  <2>1. tree \in [Ids -> States] /\ socket \in [Ids -> 0..MaxProcs]
        /\ links \in [Ids -> 0..MaxProcs]
    BY DEF States
  <2>2. ids \in 0..MaxId /\ made \in 0..MaxId /\ peer \in 0..MaxProcs
        /\ crashes \in 0..MaxCrashes
    OBVIOUS
  <2>3. Phases
    BY DEF Phases
  <2> QED
    BY <1>1, <2>1, <2>2, <2>3 DEF Types
<1>3. Absent /\ IdsGoOn
  BY DEF Absent, IdsGoOn, Changing, Making, Spawned
<1>4. FoundAtItsPath /\ WordsInOrder
  BY DEF FoundAtItsPath, Listening, WordsInOrder, Live
<1>5. LinksAreHeld /\ UndoIsHeld /\ ClosingIsHeld /\ PeerIsItsPanes /\ AllAreHeld
  BY DEF LinksAreHeld, Linked, UndoIsHeld, ClosingIsHeld, PeerIsItsPanes,
         AllAreHeld, Live, Changing, Making, Spawned
<1> QED
  BY <1>2, <1>3, <1>4, <1>5 DEF IInv

\* A stutter leaves the invariant.
LEMMA StutterKeepsIInv == ASSUME IInv, UNCHANGED vars PROVE IInv'
<1> USE DEF vars, files, session, change, ends, history
<1>1. Types' /\ Absent' /\ IdsGoOn'
  BY DEF IInv, Types, Phases, Absent, IdsGoOn
<1>2. FoundAtItsPath' /\ WordsInOrder'
  BY DEF IInv, FoundAtItsPath, Listening, WordsInOrder, Live
<1>3. LinksAreHeld' /\ UndoIsHeld' /\ ClosingIsHeld'
  BY DEF IInv, LinksAreHeld, Linked, UndoIsHeld, ClosingIsHeld, Told
<1>4. PeerIsItsPanes' /\ AllAreHeld'
  BY DEF IInv, PeerIsItsPanes, AllAreHeld, Live, Told
<1> QED
  BY <1>1, <1>2, <1>3, <1>4 DEF IInv

\* Every step keeps the invariant.
LEMMA StepKeepsIInv == ASSUME IInv, [Next]_vars PROVE IInv'
<1>1. CASE BeginMake \/ BeginKill \/ Resettle \/ UnrecordRun \/ Crash \/ Fresh
  BY <1>1, BeginMakeKeepsIInv, BeginKillKeepsIInv, ResettleKeepsIInv,
     UnrecordRunKeepsIInv, CrashKeepsIInv, FreshKeepsIInv
<1>2. CASE Changes
  BY <1>2, RecordMadeKeepsIInv, SpawnKeepsIInv, ReachKeepsIInv,
     SayBeginKeepsIInv, NotBegunKeepsIInv, BegunKeepsIInv, CommitKeepsIInv,
     RollBackKeepsIInv, SayKeepsIInv DEF Changes
<1>3. CASE Settle \/ (\E p \in Ids : News(p) \/ Lost(p))
  BY <1>3, SettleKeepsIInv, NewsKeepsIInv, LostKeepsIInv
<1>4. CASE Stops
  BY <1>4, ShutdownKeepsIInv, ExitKeepsIInv DEF Stops
<1>5. CASE TakesBack
  BY <1>5, StartKeepsIInv, TakeKeepsIInv, TakeGoneKeepsIInv, GreetKeepsIInv,
     GivenUpKeepsIInv, ResumeKeepsIInv DEF TakesBack
<1>6. ASSUME NEW n \in Procs,
             Flush(n) \/ LetGo(n) \/ Process(n) \/ ProgramEnds(n) \/ Die(n)
      PROVE  IInv'
  BY <1>6, FlushKeepsIInv, LetGoKeepsIInv, FirstWordKeepsIInv, EndsKeepIInv,
     GoesOnKeepsIInv DEF Process
<1>7. CASE UNCHANGED vars
  BY <1>7, StutterKeepsIInv
<1> QED
  BY <1>1, <1>2, <1>3, <1>4, <1>5, <1>6, <1>7 DEF Next, Serves

\* What clients are told of, when a server was never refused a connect it
\* might have had.

\* The first server has told of nothing.
LEMMA InitHasTakenInv == Init => TakenInv
<1> SUFFICES ASSUME Init PROVE TakenInv
  OBVIOUS
<1> USE DEF Init, NoTree, NoLinks, NoUndo, NoProc
<1>1. StartsAreAwaited /\ NoneBeside
  BY DEF StartsAreAwaited, NoneBeside
<1>2. PanesAreLinked
  BY DEF PanesAreLinked, Live, Changing, Making, Spawned
<1>3. KnownAreKept
  BY DEF KnownAreKept, KeptIn, Changing, Making, Spawned
<1> QED
  BY <1>1, <1>2, <1>3 DEF TakenInv

\* A stutter leaves it.
LEMMA StutterKeepsTakenInv == ASSUME IInv, TakenInv, UNCHANGED vars PROVE TakenInv'
<1>1. /\ UNCHANGED <<disk, server, tree, links, undo, made, todo, known, ever,
                     killed>>
      /\ proc' = proc /\ at' = at /\ peer' = peer
  BY DEF vars, files, session, change, ends, history
<1>2. \A m \in Procs : Fade(m)
  BY <1>1 DEF Fade, Live
<1> QED
  BY <1>1, <1>2, FadingKeepsTakenInv

\* Every step keeps it.
LEMMA StepKeepsTakenInv ==
    ASSUME IInv, TakenInv, ~Scarce, [Next]_vars PROVE TakenInv'
<1>1. CASE BeginMake \/ BeginKill \/ Settle \/ Resettle \/ Fresh
  BY <1>1, BeginMakeKeepsTakenInv, BeginKillKeepsTakenInv, SettleKeepsTakenInv,
     FreshKeepsTakenInv
<1>2. CASE Changes
  BY <1>2, RecordMadeKeepsTakenInv, SpawnKeepsTakenInv, ReachKeepsTakenInv,
     BegunKeepsTakenInv, CommitKeepsTakenInv, RollBackKeepsTakenInv,
     SayKeepsTakenInv DEF Changes
<1>3. CASE \E p \in Ids : News(p) \/ Lost(p)
  BY <1>3, EndedKeepsTakenInv
<1>4. CASE UnrecordRun \/ Stops
  BY <1>4, StopsKeepTakenInv DEF Stops
<1>5. CASE Crash \/ TakesBack
  BY <1>5, CrashKeepsTakenInv, StartKeepsTakenInv, TakeKeepsTakenInv,
     TakeGoneKeepsTakenInv, GreetKeepsTakenInv, ResumeKeepsTakenInv DEF TakesBack
<1>6. ASSUME NEW n \in Procs,
             Flush(n) \/ LetGo(n) \/ Process(n) \/ ProgramEnds(n) \/ Die(n)
      PROVE  TakenInv'
  BY <1>6, ProcessKeepsTakenInv
<1>7. CASE UNCHANGED vars
  BY <1>7, StutterKeepsTakenInv
<1> QED
  BY <1>1, <1>2, <1>3, <1>4, <1>5, <1>6, <1>7 DEF Next, Serves

\* The inductive invariant holds of every run and its servers.
THEOREM IInvHolds == Spec => []IInv
<1>1. IInv /\ [Next]_vars => IInv'
  BY StepKeepsIInv
<1> QED
  BY <1>1, InitHasIInv, PTL DEF Spec

\* Every variable has its type.
THEOREM TypeCorrect == Spec => []TypeOK
<1>1. IInv => TypeOK
  <2> SUFFICES ASSUME IInv PROVE TypeOK
    OBVIOUS
  <2>1. at \in {"idle", "record", "spawn", "reach", "begin", "wait", "commit",
                "undo", "say", "refuse", "settle", "close", "ending", "next",
                "asked"}
    BY DEF IInv, Types, Phases, Changing, Making, Spawned
  <2>2. \A n \in Procs : Len(proc[n].word) <= 2
    <3> SUFFICES ASSUME NEW n \in Procs PROVE Len(proc[n].word) <= 2
      OBVIOUS
    <3>1. proc[n].word \in Words
      BY DEF IInv, Types, ProcType
    <3> QED
      BY <3>1, FirstWords
  <2> QED
    BY <2>1, <2>2 DEF IInv, Types, TypeOK, RecordType
<1> QED
  BY <1>1, IInvHolds, PTL

\* No pane is made with an id a client was told (Ids::pane goes on from the
\* last one recorded), over changes undone, records not written and servers
\* that crashed.
THEOREM IdsAreNew == Spec => []NoIdIsGivenTwice
<1>1. IInv => NoIdIsGivenTwice
  BY DEF IInv, Types, IdsGoOn, NoIdIsGivenTwice, Changing, Making, Spawned,
         UndoType
<1> QED
  BY <1>1, IInvHolds, PTL

\* Every process begun, and not told to close, is its pane's, while no server
\* crashes: a change undone closes the one it started (Session::roll_back), a
\* closed pane's is told (Session::commit).
THEOREM ProcessesAreHeld == Spec => []EveryProcessIsHeld
<1>1. IInv => EveryProcessIsHeld
  <2> SUFFICES ASSUME IInv, crashes = 0, Idle, NEW n \in Procs,
                      Is(n, {"open"}), ~Going(n)
               PROVE  links[proc[n].id] = n
    BY DEF EveryProcessIsHeld
  <2>1. proc[n].state = "open" /\ n \notin out
    BY DEF Is, Going
  <2>2. proc[n].word = <<>>
    <3>1. proc[n].word \in {<<>>, <<"close">>}
      BY <2>1 DEF IInv, WordsInOrder
    <3>2. proc[n].word # <<"close">>
      BY DEF Going
    <3> QED
      BY <3>1, <3>2
  <2>3. Live(n) /\ ~Told(n)
    BY <2>1, <2>2 DEF Live, Told, Closes
  <2> QED
    BY <2>3 DEF IInv, AllAreHeld, Idle, Changing, Making, Spawned
<1> QED
  BY <1>1, IInvHolds, PTL

\* And the second invariant holds with it, if no connect to a process that
\* listens is refused.
THEOREM TakenInvHolds == ASSUME ~Scarce PROVE Spec => [](IInv /\ TakenInv)
<1>1. Init => IInv /\ TakenInv
  BY InitHasIInv, InitHasTakenInv
<1>2. IInv /\ TakenInv /\ [Next]_vars => (IInv /\ TakenInv)'
  BY StepKeepsIInv, StepKeepsTakenInv
<1> QED
  BY <1>1, <1>2, PTL DEF Spec

\* A pane a client knows of leaves the run only because it was asked to close,
\* or as a shell that ended, whatever crashed and whichever records could not
\* be written (Session::commit); every process is its pane's; and the types.
THEOREM RunSound == ASSUME ~Scarce PROVE Spec => []RunIsSound
<1>1. TakenInv => KnownPanesAreTakenBack
  BY DEF TakenInv, KnownAreKept, KeptIn, KnownPanesAreTakenBack
<1> QED
  BY <1>1, TakenInvHolds, TypeCorrect, ProcessesAreHeld, PTL DEF RunIsSound

\* A pane is taken for lost only if its process is gone, or going: one that
\* may still run never is (Session::resume).
THEOREM LostGone == ASSUME ~Scarce PROVE Spec => []LostAreGone
<1>1. TakenInv => LostAreGone
  <2> SUFFICES ASSUME TakenInv, Idle, NEW p \in Held(tree), NEW n \in Procs,
                      links[p] = 0, proc[n].id = p
               PROVE  Going(n)
    BY DEF LostAreGone
  <2>1. ~Live(n)
    BY DEF TakenInv, PanesAreLinked, Idle, Making, Spawned
  <2> QED
    BY <2>1 DEF Live, Going, Is
<1> QED
  BY <1>1, TakenInvHolds, PTL

\* Another run begins on the socket only once no process of this one goes on
\* unasked to end (server.rs serve, `waiting`), though a server crashed.
THEOREM NoneRunsBeside == ASSUME ~Scarce PROVE Spec => []NoRunBesideAnother
<1>1. TakenInv => NoRunBesideAnother
  BY DEF TakenInv, NoneBeside, NoRunBesideAnother, Going, Is, Live
<1> QED
  BY <1>1, TakenInvHolds, PTL

=============================================================================
