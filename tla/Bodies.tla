-------------------------------- MODULE Bodies --------------------------------
(***************************************************************************)
(* How what is typed and sent reaches panes.  Four kinds of process take   *)
(* part: a client's connection (fux-server/src/conn.rs), the server        *)
(* (server.rs, session.rs), a pane's own process (host.rs) and the program *)
(* in it.  The server hears a request's or an act's frame and tells the    *)
(* panes it is for; the text itself, its body, stays with the connection,  *)
(* which the server tells to send it those panes.  So a body and the word  *)
(* that it is coming take two ways to a pane, and meet there by a token.   *)
(*                                                                         *)
(* An input is a number here: its place in `inputs`, its body's token and, *)
(* with a pane, the number of the question the pane is asked               *)
(* (Session::asked_pane numbers both, and never the same twice).           *)
(***************************************************************************)
EXTENDS Integers, Sequences, FiniteSets, SequencesExt

CONSTANTS
    Typists,        \* connections whose client is attached
    Askers,         \* connections whose client sends requests (send-keys)
    Panes,
    Nowhere,        \* the focus of a client that has none
    MaxInputs,      \* bound: how many inputs there are in all
    MaxViews        \* bound: how often each attached client looks elsewhere

ASSUME ConnsAssumption == Typists \intersect Askers = {}
ASSUME PanesAssumption == IsFiniteSet(Panes) /\ Nowhere \notin Panes
ASSUME BoundsAssumption == MaxInputs \in Nat /\ MaxViews \in Nat

Conns == Typists \union Askers
Numbers == 1..MaxInputs

VARIABLES
    inputs,     \* history: each input taken: from whom, what, for which panes
    \* The server.
    stage,      \* Conn::stage: "open", "closing", or "dropped" from `conns`
    wait,       \* Stage::Waiting: the input each connection waits for, or 0
    tokens,     \* Conn::tokens: <<pane, input>>, the input's asker's
    asks,       \* Session::asks: <<pane, input>> asked and not answered
    answers,    \* Session::answers: what panes answered, not yet taken
    replied,    \* history: what askers were told of each pane
    link,       \* Session::links and ending: "up", "lost", "ending", "closed"
    focus,      \* the pane each attached client types into
    views,      \* how often each looked elsewhere, of them how many told
    \* The links between them, oldest first.
    told,       \* to each connection's process (ToConn)
    toPane,     \* to each pane's process (ToPane)
    fromPane,   \* from it (FromPane)
    \* A connection's process.
    proc,       \* "up", "closing" (it heard Close), "gone"
    side,       \* Composer::sides: the panes it shows and has a link to
    out,        \* End::out of each: bodies queued on that link, not written
    posts,      \* Errand::Post: <<pane, input>> on a link made for it alone
    \* What is written and not read: on sides' links, and on links let go.
    wire, loose,
    \* A pane's process.
    life,       \* its program "runs" or "ended"; it is "closed"; it is "gone"
    bodies,     \* Host::bodies: bodies come before they are asked for
    awaiting,   \* Host::awaiting: bodies asked for before they come
    taken       \* history: what was written to its program, in order

server == <<stage, wait, tokens, asks, answers, replied, link, focus, views>>
conns == <<proc, side, out, posts>>
panes == <<life, bodies, awaiting, taken>>
sockets == <<wire, loose>>
vars == <<inputs, server, conns, panes, sockets, told, toPane, fromPane>>

From(n) == inputs[n].from
Of(c, pairs) == {pair \in pairs : From(pair[2]) = c}
Listening(p) == life[p] \in {"runs", "ended"}
Word(say, n) == [say |-> say, n |-> n]

Init ==
    /\ inputs = <<>>
    /\ stage = [c \in Conns |-> "open"]
    /\ wait = [c \in Conns |-> 0]
    /\ tokens = {} /\ asks = {} /\ answers = {} /\ replied = {}
    /\ link = [p \in Panes |-> "up"]
    /\ focus \in [Typists -> Panes]
    /\ views = [c \in Typists |-> [looked |-> 0, told |-> 0]]
    /\ told = [c \in Conns |-> <<>>]
    /\ toPane = [p \in Panes |-> <<>>]
    /\ fromPane = [p \in Panes |-> <<>>]
    /\ proc = [c \in Conns |-> "up"]
    /\ side = [c \in Conns |-> IF c \in Typists THEN {focus[c]} ELSE {}]
    /\ out = [c \in Conns |-> [p \in Panes |-> <<>>]]
    /\ posts = {}
    /\ wire = [c \in Conns |-> [p \in Panes |-> <<>>]]
    /\ loose = [p \in Panes |-> {}]
    /\ life = [p \in Panes |-> "runs"]
    /\ bodies = [p \in Panes |-> {}]
    /\ awaiting = [p \in Panes |-> {}]
    /\ taken = [p \in Panes |-> <<>>]

-----------------------------------------------------------------------------
(* The server takes a frame of connection c (Server::take_frame).  Its     *)
(* process may be gone by then: what it sent is read first.                *)

\* Session::tell_pane, to those of `to` that have a link.
Tell(to, word) ==
    toPane' = [p \in Panes |-> IF p \in to /\ link[p] = "up"
                               THEN Append(toPane[p], word) ELSE toPane[p]]

Input(c, what, to) ==
    /\ Len(inputs) < MaxInputs
    /\ stage[c] = "open"
    /\ wait[c] = 0
    /\ inputs' = Append(inputs, [from |-> c, what |-> what, to |-> to])

\* Mutant of Deliver: what an act has sent is not noted as its connection's.
DeliverUnnoted(c, n, to) ==
    /\ UNCHANGED tokens
    /\ told' = [told EXCEPT ![c] = Append(@, Word("deliver", n))]

\* Server::deliver_bodies: c's process is to send `to` input n's body.
Deliver(c, n, to) ==
    /\ tokens' = tokens \union (to \X {n})
    /\ told' = [told EXCEPT ![c] = Append(@, Word("deliver", n))]

\* A key for the focused pane (Session::key, type_in, put_in).
TypeKey(c) ==
    /\ focus[c] # Nowhere
    /\ Input(c, "key", {focus[c]})
    /\ Tell({focus[c]}, Word("key", Len(inputs) + 1))
    /\ UNCHANGED <<server, conns, panes, sockets, told, fromPane>>

\* A paste for it (Session::paste): its text is a body.
Paste(c) ==
    LET n == Len(inputs) + 1 IN
    /\ focus[c] # Nowhere
    /\ Input(c, "paste", {focus[c]})
    /\ Tell({focus[c]}, Word("paste", n))
    /\ Deliver(c, n, {focus[c]})
    /\ UNCHANGED <<stage, wait, asks, answers, replied, link, focus, views,
                   conns, panes, sockets, fromPane>>

\* A request to send keys to `to`, a pane or all of a tab's or workspace's
\* (Session::send_keys): those with no process left refuse at once.
SendKeys(c, to) ==
    LET n == Len(inputs) + 1
        reached == {p \in to : link[p] = "up"}
    IN  /\ \A p \in to : link[p] \in {"up", "lost"}
        /\ Input(c, "keys", to)
        /\ Tell(reached, Word("keys", n))
        /\ Deliver(c, n, reached)
        /\ asks' = asks \union (reached \X {n})
        /\ answers' = answers \union
               {[pane |-> p, n |-> n, says |-> "refused"] : p \in to \ reached}
        /\ wait' = [wait EXCEPT ![c] = n]
        /\ UNCHANGED <<stage, replied, link, focus, views, conns, panes,
                       sockets, fromPane>>

\* An attached client detaches (AttachedFrame::Detach, Conn::exit, end).
Detach(c) ==
    /\ stage[c] = "open"
    /\ stage' = [stage EXCEPT ![c] = "closing"]
    /\ told' = [told EXCEPT ![c] = Append(@, Word("close", 0))]
    /\ UNCHANGED <<inputs, wait, tokens, asks, answers, replied, link, focus,
                   views, conns, panes, sockets, toPane, fromPane>>

-----------------------------------------------------------------------------
(* The rest of the server's turn (Server::turn).                           *)

\* Conn::answer, once every pane asked answered, or never will
\* (Pending::answer, Session::replied): one that did not is indeterminate.
AnswerWait(c) ==
    LET n == wait[c]
        theirs == {answer \in answers : answer.n = n}
        silent == inputs[n].to \ {answer.pane : answer \in theirs}
    IN  /\ n # 0
        /\ \A ask \in asks : ask[2] # n
        /\ replied' = replied \union theirs \union
               {[pane |-> p, n |-> n, says |-> "unsure"] : p \in silent}
        /\ answers' = answers \ theirs
        /\ wait' = [wait EXCEPT ![c] = 0]
        /\ UNCHANGED <<inputs, stage, tokens, asks, link, focus, views, conns,
                       panes, sockets, told, toPane, fromPane>>

\* The one order in which numbers grow.
Rising(numbers) ==
    {order \in [1..Cardinality(numbers) -> numbers] :
        /\ ToSet(order) = numbers
        /\ \A i, j \in DOMAIN order : i < j => order[i] < order[j]}

\* Connection c's process is gone, or its client left unasked: it is let go
\* (Server::close_conns), with what it waits for and what panes hold or wait
\* for of it (Conn::enter, Session::abandon, ToPane::Drop).
DropConn(c) ==
    LET had(p) == {n \in Numbers : <<p, n>> \in Of(c, tokens)}
    IN  /\ stage[c] # "dropped"
        /\ stage[c] = "open" \/ proc[c] = "gone"
        /\ stage' = [stage EXCEPT ![c] = "dropped"]
        /\ wait' = [wait EXCEPT ![c] = 0]
        /\ asks' = {ask \in asks : ask[2] # wait[c]}
        /\ answers' = {answer \in answers : answer.n # wait[c]}
        /\ tokens' = tokens \ Of(c, tokens)
        /\ \E drops \in [Panes -> UNION {Rising(had(p)) : p \in Panes}] :
              /\ \A p \in Panes : drops[p] \in Rising(had(p))
              /\ toPane' = [p \in Panes |->
                    IF link[p] = "up"
                    THEN toPane[p] \o [i \in DOMAIN drops[p] |-> Word("drop", drops[p][i])]
                    ELSE toPane[p]]
        /\ UNCHANGED <<inputs, replied, link, focus, views, conns, panes,
                       sockets, told, fromPane>>

\* Mutant of HearPane: an answer no one waits for is kept.
HearPaneKeepingAnswers(p) ==
    LET word == Head(fromPane[p]) IN
    /\ fromPane[p] # <<>>
    /\ fromPane' = [fromPane EXCEPT ![p] = Tail(@)]
    /\ IF word.say = "retired"
       THEN /\ tokens' = IF link[p] \in {"up", "lost"}
                         THEN {pair \in tokens : pair[2] # word.n} ELSE tokens
            /\ UNCHANGED <<asks, answers>>
       ELSE /\ asks' = asks \ {<<p, word.n>>}
            /\ answers' = answers \union {[pane |-> p, n |-> word.n,
                                            says |-> word.say]}
            /\ UNCHANGED tokens
    /\ UNCHANGED <<inputs, stage, wait, replied, link, focus, views, conns,
                   panes, sockets, told, toPane>>

\* What pane p told (Session::told, pump).  A body it used up is no more
\* its asker's to let go (Server::retire), at any pane.  An answer no one
\* waits for is let go.
HearPane(p) ==
    LET word == Head(fromPane[p]) IN
    /\ fromPane[p] # <<>>
    /\ fromPane' = [fromPane EXCEPT ![p] = Tail(@)]
    /\ IF word.say = "retired"
       THEN /\ tokens' = IF link[p] \in {"up", "lost"}
                         THEN {pair \in tokens : pair[2] # word.n} ELSE tokens
            /\ UNCHANGED <<asks, answers>>
       ELSE /\ asks' = asks \ {<<p, word.n>>}
            /\ answers' = IF <<p, word.n>> \in asks
                          THEN answers \union {[pane |-> p, n |-> word.n,
                                                says |-> word.say]}
                          ELSE answers
            /\ UNCHANGED tokens
    /\ UNCHANGED <<inputs, stage, wait, replied, link, focus, views, conns,
                   panes, sockets, told, toPane>>

\* Mutants of PaneGone: what a lost pane was asked stays asked; or is told as
\* refused.
PaneGoneAsked(p) ==
    /\ life[p] = "gone"
    /\ fromPane[p] = <<>>
    /\ link[p] \in {"up", "ending"}
    /\ link' = [link EXCEPT ![p] = IF @ = "up" THEN "lost" ELSE "closed"]
    /\ UNCHANGED <<inputs, stage, wait, tokens, asks, answers, replied, focus,
                   views, conns, panes, sockets, told, toPane, fromPane>>

PaneGoneRefusing(p) ==
    LET unanswered == {ask \in asks : ask[1] = p} IN
    /\ life[p] = "gone"
    /\ fromPane[p] = <<>>
    /\ link[p] \in {"up", "ending"}
    /\ link' = [link EXCEPT ![p] = IF @ = "up" THEN "lost" ELSE "closed"]
    /\ asks' = asks \ unanswered
    /\ answers' = answers \union {[pane |-> p, n |-> ask[2],
                                    says |-> "refused"] : ask \in unanswered}
    /\ UNCHANGED <<inputs, stage, wait, tokens, replied, focus, views, conns,
                   panes, sockets, told, toPane, fromPane>>

\* Pane p's process is gone and all it said is read (Session::link_closed,
\* reaped, gone).  One closed is let go (reap_ending); a pane whose process
\* crashed is lost (pane_lost), its questions answered for it.
PaneGone(p) ==
    LET unanswered == {ask \in asks : ask[1] = p} IN
    /\ life[p] = "gone"
    /\ fromPane[p] = <<>>
    /\ link[p] \in {"up", "ending"}
    /\ link' = [link EXCEPT ![p] = IF @ = "up" THEN "lost" ELSE "closed"]
    /\ asks' = asks \ unanswered
    /\ answers' = IF link[p] = "up"
                  THEN answers \union {[pane |-> p, n |-> ask[2],
                                        says |-> "unsure"] : ask \in unanswered}
                  ELSE answers
    /\ UNCHANGED <<inputs, stage, wait, tokens, replied, focus, views, conns,
                   panes, sockets, told, toPane, fromPane>>

\* Pane p is closed, by a request or as its program ends
\* (Session::close_pane, end_pane, unlink); who looked at it looks at
\* another.
ClosePane(p) ==
    LET rest == {q \in Panes \ {p} : link[q] \in {"up", "lost"}} IN
    /\ link[p] \in {"up", "lost"}
    /\ Tell({p}, Word("close", 0))
    /\ link' = [link EXCEPT ![p] = IF @ = "up" THEN "ending" ELSE "closed"]
    /\ \E q \in IF rest = {} THEN {Nowhere} ELSE rest :
          focus' = [c \in Typists |-> IF focus[c] = p THEN q ELSE focus[c]]
    /\ views' = [c \in Typists |-> [views[c] EXCEPT
                     !.looked = IF focus[c] = p THEN @ + 1 ELSE @]]
    /\ UNCHANGED <<inputs, stage, wait, tokens, asks, answers, replied, conns,
                   panes, sockets, told, fromPane>>

\* An attached client looks elsewhere: another tab, say.
LookAt(c, p) ==
    /\ stage[c] = "open"
    /\ views[c].looked < MaxViews
    /\ link[p] \in {"up", "lost"}
    /\ p # focus[c]
    /\ focus' = [focus EXCEPT ![c] = p]
    /\ views' = [views EXCEPT ![c].looked = @ + 1]
    /\ UNCHANGED <<inputs, stage, wait, tokens, asks, answers, replied, link,
                   conns, panes, sockets, told, toPane, fromPane>>

\* Its connection is told what it shows now, as the turn ends
\* (Server::scenes): after what the turn's frames had it send.
SendScene(c) ==
    /\ stage[c] = "open"
    /\ views[c].told # views[c].looked
    /\ views' = [views EXCEPT ![c].told = views[c].looked]
    /\ told' = [told EXCEPT ![c] = Append(@, [say |-> "scene", n |-> 0,
                                              shows |-> {focus[c]} \ {Nowhere}])]
    /\ UNCHANGED <<inputs, stage, wait, tokens, asks, answers, replied, link,
                   focus, conns, panes, sockets, toPane, fromPane>>

-----------------------------------------------------------------------------
(* Connection c's process (conn::serve).                                   *)

\* Links c lets go of keep what was written to them, till it is read.
LetGo(c, from) ==
    /\ wire' = [wire EXCEPT ![c] = [p \in Panes |->
                    IF p \in from THEN <<>> ELSE @[p]]]
    /\ loose' = [p \in Panes |-> IF p \in from /\ wire[c][p] # <<>>
                                 THEN loose[p] \union {wire[c][p]} ELSE loose[p]]
    /\ out' = [out EXCEPT ![c] = [p \in Panes |->
                   IF p \in from THEN <<>> ELSE @[p]]]

\* Mutant of TakeDeliver: each body goes on a link of its own.
TakeDeliverApart(c, n) ==
    /\ posts' = posts \union {<<p, n>> : p \in {q \in inputs[n].to : Listening(q)}}
    /\ UNCHANGED <<proc, side, out, sockets>>

\* Composer::deliver: on its link to a pane it shows, else on one made for
\* it, if the pane can be reached.
TakeDeliver(c, n) ==
    LET to == inputs[n].to IN
    /\ out' = [out EXCEPT ![c] = [p \in Panes |->
                   IF p \in to \intersect side[c] THEN Append(@[p], n) ELSE @[p]]]
    /\ posts' = posts \union {<<p, n>> : p \in {q \in to \ side[c] : Listening(q)}}
    /\ UNCHANGED <<proc, side, sockets>>

\* Composer::scene: links to panes it no longer shows are let go.
TakeScene(c, shows) ==
    /\ side' = [side EXCEPT ![c] = {p \in shows : p \in @ \/ Listening(p)}]
    /\ LetGo(c, Panes \ shows)
    /\ UNCHANGED <<proc, posts>>

TakeClose(c) ==
    /\ proc' = [proc EXCEPT ![c] = "closing"]
    /\ UNCHANGED <<side, out, posts, sockets>>

HearServer(c) ==
    LET word == Head(told[c]) IN
    /\ proc[c] # "gone"
    /\ told[c] # <<>>
    /\ told' = [told EXCEPT ![c] = Tail(@)]
    /\ \/ word.say = "deliver" /\ TakeDeliver(c, word.n)
       \/ word.say = "scene" /\ TakeScene(c, word.shows)
       \/ word.say = "close" /\ TakeClose(c)
    /\ UNCHANGED <<inputs, server, panes, toPane, fromPane>>

\* A shown pane's link takes a body queued on it (Composer::heard).
FlushSide(c, p) ==
    /\ out[c][p] # <<>>
    /\ out' = [out EXCEPT ![c][p] = Tail(@)]
    /\ wire' = [wire EXCEPT ![c][p] = Append(@, Head(out[c][p]))]
    /\ UNCHANGED <<inputs, server, proc, side, posts, panes, loose, told, toPane,
                   fromPane>>

\* A link made for one body takes it all (Errand::on).
FlushPost(p, n) ==
    /\ <<p, n>> \in posts
    /\ posts' = posts \ {<<p, n>>}
    /\ loose' = [loose EXCEPT ![p] = @ \union {<<n>>}]
    /\ UNCHANGED <<inputs, server, proc, side, out, panes, wire, told, toPane,
                   fromPane>>

\* It ends: closing, once its errands are done; or at any moment, as its
\* client or its server went, or it was killed.
EndConn(c) ==
    /\ proc' = [proc EXCEPT ![c] = "gone"]
    /\ side' = [side EXCEPT ![c] = {}]
    /\ LetGo(c, Panes)
    /\ posts' = posts \ Of(c, posts)
    /\ told' = [told EXCEPT ![c] = <<>>]
    /\ UNCHANGED <<inputs, server, panes, toPane, fromPane>>

Close(c) == proc[c] = "closing" /\ Of(c, posts) = {} /\ EndConn(c)
Die(c) == proc[c] # "gone" /\ EndConn(c)

-----------------------------------------------------------------------------
(* Pane p's process (host.rs).                                             *)

Report(p, words) == fromPane' = [fromPane EXCEPT ![p] = @ \o words]

\* Its program is written input n.
Write(p, n) == taken' = [taken EXCEPT ![p] = Append(@, n)]

\* Mutant of KeysCome: keys are written as the program runs, and only then
\* checked against what the asker saw.
KeysComeUnchecked(p, n) ==
    \E seen \in BOOLEAN :
        IF life[p] = "runs"
        THEN Write(p, n) /\ Report(p, <<Word("retired", n),
                                Word(IF seen THEN "acted" ELSE "refused", n)>>)
        ELSE UNCHANGED taken /\ Report(p, <<Word("retired", n), Word("refused", n)>>)

\* Host::send_keys: taken or refused, as its program runs, and is as the
\* asker saw it (`seen`); the body is used up either way.
KeysCome(p, n) ==
    \E seen \in BOOLEAN :
        IF life[p] = "runs" /\ seen
        THEN Write(p, n) /\ Report(p, <<Word("retired", n), Word("acted", n)>>)
        ELSE UNCHANGED taken /\ Report(p, <<Word("retired", n), Word("refused", n)>>)

\* What the server says (Host::handle).
HandleKey(p, n) ==
    /\ IF life[p] = "runs" THEN Write(p, n) ELSE UNCHANGED taken
    /\ UNCHANGED <<life, bodies, awaiting, fromPane>>

\* Mutant of HandlePaste: a body that came first is not looked for.
HandlePasteUnlooked(p, n) ==
    /\ awaiting' = IF life[p] = "runs"
                   THEN [awaiting EXCEPT ![p] = @ \union {n}] ELSE awaiting
    /\ UNCHANGED <<life, bodies, taken, fromPane>>

\* Host::typed of a body: a program that takes no input refuses it, and its
\* body, come or not, is left.
HandlePaste(p, n) ==
    /\ IF life[p] # "runs" THEN UNCHANGED <<bodies, awaiting, taken, fromPane>>
       ELSE IF n \in bodies[p]
       THEN /\ bodies' = [bodies EXCEPT ![p] = @ \ {n}]
            /\ Write(p, n)
            /\ Report(p, <<Word("retired", n)>>)
            /\ UNCHANGED awaiting
       ELSE /\ awaiting' = [awaiting EXCEPT ![p] = @ \union {n}]
            /\ UNCHANGED <<bodies, taken, fromPane>>
    /\ UNCHANGED life

\* Host::ask of keys whose body comes apart.
HandleKeys(p, n) ==
    /\ IF n \in bodies[p]
       THEN /\ bodies' = [bodies EXCEPT ![p] = @ \ {n}]
            /\ KeysCome(p, n)
            /\ UNCHANGED awaiting
       ELSE /\ awaiting' = [awaiting EXCEPT ![p] = @ \union {n}]
            /\ UNCHANGED <<bodies, taken, fromPane>>
    /\ UNCHANGED life

\* Mutant of HandleDrop: only a body that came is let go.
HandleDropHeld(p, n) ==
    /\ bodies' = [bodies EXCEPT ![p] = @ \ {n}]
    /\ UNCHANGED <<life, awaiting, taken, fromPane>>

\* ToPane::Drop: held or awaited no more.
HandleDrop(p, n) ==
    /\ bodies' = [bodies EXCEPT ![p] = @ \ {n}]
    /\ awaiting' = [awaiting EXCEPT ![p] = @ \ {n}]
    /\ IF n \in awaiting[p] /\ inputs[n].what = "keys"
       THEN Report(p, <<Word("unsure", n)>>) ELSE UNCHANGED fromPane
    /\ UNCHANGED <<life, taken>>

HandleClose(p) ==
    /\ life' = [life EXCEPT ![p] = "closed"]
    /\ UNCHANGED <<bodies, awaiting, taken, fromPane>>

Handle(p) ==
    LET word == Head(toPane[p]) IN
    /\ life[p] # "gone"
    /\ toPane[p] # <<>>
    /\ toPane' = [toPane EXCEPT ![p] = Tail(@)]
    /\ \/ word.say = "key" /\ HandleKey(p, word.n)
       \/ word.say = "paste" /\ HandlePaste(p, word.n)
       \/ word.say = "keys" /\ HandleKeys(p, word.n)
       \/ word.say = "drop" /\ HandleDrop(p, word.n)
       \/ word.say = "close" /\ HandleClose(p)
    /\ UNCHANGED <<inputs, server, conns, sockets, told>>

\* Body n comes (Host::body): what awaits it goes on, else it waits.
Body(p, n) ==
    /\ awaiting' = [awaiting EXCEPT ![p] = @ \ {n}]
    /\ IF n \in awaiting[p] /\ inputs[n].what = "keys"
       THEN KeysCome(p, n) /\ UNCHANGED bodies
       ELSE IF n \in awaiting[p] /\ life[p] = "runs"
       THEN Write(p, n) /\ Report(p, <<Word("retired", n)>>) /\ UNCHANGED bodies
       ELSE /\ bodies' = [bodies EXCEPT ![p] = @ \union {n}]
            /\ UNCHANGED <<taken, fromPane>>
    /\ UNCHANGED <<inputs, server, conns, life, told, toPane>>

\* A body is read from a link of a connection's, or one let go.
ReadSide(p, c) ==
    /\ life[p] # "gone"
    /\ wire[c][p] # <<>>
    /\ wire' = [wire EXCEPT ![c][p] = Tail(@)]
    /\ Body(p, Head(wire[c][p]))
    /\ UNCHANGED loose

ReadLoose(p, bodiesLeft) ==
    /\ life[p] # "gone"
    /\ loose' = [loose EXCEPT ![p] = (@ \ {bodiesLeft}) \union
                     (IF Len(bodiesLeft) = 1 THEN {} ELSE {Tail(bodiesLeft)})]
    /\ Body(p, Head(bodiesLeft))
    /\ UNCHANGED wire

\* Its program ends, or is started again.
Program(p) ==
    /\ Listening(p)
    /\ life' = [life EXCEPT ![p] = IF @ = "runs" THEN "ended" ELSE "runs"]
    /\ UNCHANGED <<inputs, server, conns, bodies, awaiting, taken, sockets, told,
                   toPane, fromPane>>

\* Its process ends: once closed and its program ended (Host::finished), or
\* at any moment, killed.  What it was sent and did not read is lost; and,
\* killed, what it had not yet written to the server.
EndPane(p) ==
    /\ life' = [life EXCEPT ![p] = "gone"]
    /\ bodies' = [bodies EXCEPT ![p] = {}]
    /\ awaiting' = [awaiting EXCEPT ![p] = {}]
    /\ toPane' = [toPane EXCEPT ![p] = <<>>]
    /\ loose' = [loose EXCEPT ![p] = {}]
    /\ wire' = [c \in Conns |-> [wire[c] EXCEPT ![p] = <<>>]]
    /\ out' = [c \in Conns |-> [out[c] EXCEPT ![p] = <<>>]]
    /\ side' = [c \in Conns |-> side[c] \ {p}]
    /\ posts' = {post \in posts : post[1] # p}
    /\ UNCHANGED <<inputs, server, proc, taken, told>>

Finish(p) == life[p] = "closed" /\ EndPane(p) /\ UNCHANGED fromPane

Crash(p) ==
    /\ life[p] # "gone"
    /\ EndPane(p)
    /\ \E k \in 0..Len(fromPane[p]) :
          fromPane' = [fromPane EXCEPT ![p] = SubSeq(@, 1, k)]

-----------------------------------------------------------------------------
Server ==
    \/ \E c \in Typists : \/ TypeKey(c) \/ Paste(c) \/ Detach(c) \/ SendScene(c)
                          \/ \E p \in Panes : LookAt(c, p)
    \/ \E c \in Askers, to \in (SUBSET Panes) \ {{}} : SendKeys(c, to)
    \/ \E c \in Conns : AnswerWait(c) \/ DropConn(c)
    \/ \E p \in Panes : HearPane(p) \/ PaneGone(p) \/ ClosePane(p)

Connection ==
    \/ \E c \in Conns : HearServer(c) \/ Close(c) \/ Die(c)
    \/ \E c \in Conns, p \in Panes : FlushSide(c, p)
    \/ \E post \in posts : FlushPost(post[1], post[2])

Pane ==
    \E p \in Panes :
        \/ Handle(p) \/ Program(p) \/ Finish(p) \/ Crash(p)
        \/ \E c \in Conns : ReadSide(p, c)
        \/ \E bodiesLeft \in loose[p] : ReadLoose(p, bodiesLeft)

Next == Server \/ Connection \/ Pane

\* Every process runs its loop, which hears all that is sent it, writes all
\* it has and gives every wait its answer; clients need do nothing, no
\* program or process need ever end, and no pane need be closed.
Fairness ==
    /\ \A c \in Conns :
        /\ WF_vars(HearServer(c)) /\ WF_vars(Close(c)) /\ WF_vars(AnswerWait(c))
        /\ WF_vars(proc[c] = "gone" /\ DropConn(c))
    /\ \A c \in Typists : WF_vars(SendScene(c))
    /\ \A c \in Conns, p \in Panes :
        WF_vars(FlushSide(c, p)) /\ WF_vars(ReadSide(p, c))
    /\ \A p \in Panes :
        /\ WF_vars(HearPane(p)) /\ WF_vars(PaneGone(p)) /\ WF_vars(Handle(p))
        /\ WF_vars(\E n \in Numbers : FlushPost(p, n))
        /\ WF_vars(\E bodiesLeft \in loose[p] : ReadLoose(p, bodiesLeft))
        /\ WF_vars(Finish(p))

Spec == Init /\ [][Next]_vars /\ Fairness

-----------------------------------------------------------------------------
Pairs == Panes \X Numbers
Said == [pane : Panes, n : Numbers, says : {"acted", "refused", "unsure"}]
ToPaneWords == [say : {"key", "paste", "keys", "drop"}, n : Numbers]
               \union {Word("close", 0)}
FromPaneWords == [say : {"retired", "acted", "refused", "unsure"}, n : Numbers]
ToConnWords == [say : {"deliver"}, n : Numbers]
               \union [say : {"scene"}, n : {0}, shows : SUBSET Panes]
               \union {Word("close", 0)}

TypeOK ==
    /\ inputs \in Seq([from : Conns, what : {"key", "paste", "keys"},
                       to : SUBSET Panes])
    /\ Len(inputs) <= MaxInputs
    /\ stage \in [Conns -> {"open", "closing", "dropped"}]
    /\ wait \in [Conns -> Numbers \union {0}]
    /\ tokens \subseteq Pairs
    /\ asks \subseteq Pairs
    /\ answers \subseteq Said
    /\ replied \subseteq Said
    /\ link \in [Panes -> {"up", "lost", "ending", "closed"}]
    /\ focus \in [Typists -> Panes \union {Nowhere}]
    /\ views \in [Typists -> [looked : Nat, told : Nat]]
    /\ told \in [Conns -> Seq(ToConnWords)]
    /\ toPane \in [Panes -> Seq(ToPaneWords)]
    /\ fromPane \in [Panes -> Seq(FromPaneWords)]
    /\ proc \in [Conns -> {"up", "closing", "gone"}]
    /\ side \in [Conns -> SUBSET Panes]
    /\ out \in [Conns -> [Panes -> Seq(Numbers)]]
    /\ posts \subseteq Pairs
    /\ wire \in [Conns -> [Panes -> Seq(Numbers)]]
    /\ loose \in [Panes -> SUBSET Seq(Numbers)]
    /\ life \in [Panes -> {"runs", "ended", "closed", "gone"}]
    /\ bodies \in [Panes -> SUBSET Numbers]
    /\ awaiting \in [Panes -> SUBSET Numbers]
    /\ taken \in [Panes -> Seq(Numbers)]

\* What an asker is told of a pane is so, and stays so: keys a pane acted on
\* were written to its program, and keys it refused never are.  Only
\* "indeterminate" says neither.
AnswersAreHonest ==
    \A answer \in answers \union replied :
        /\ answer.says = "acted" => answer.n \in ToSet(taken[answer.pane])
        /\ answer.says = "refused" => answer.n \notin ToSet(taken[answer.pane])

\* The server keeps no question and no answer of an asker that does not wait
\* for it: whoever goes, and in whatever order their words cross.
OnlyAskersAreAnswered ==
    /\ \A ask \in asks : wait[From(ask[2])] = ask[2]
    /\ \A answer \in answers : wait[From(answer.n)] = answer.n

\* What a connection that is gone left on its way to one pane is typed only
\* until that pane hears it is to be dropped, or that it closes, though the
\* body may be read before or after: nothing types itself later.
ToldToDrop(p, n) ==
    \E word \in ToSet(toPane[p]) : word \in {Word("drop", n), Word("close", 0)}

TypedLate(n, p) ==
    /\ n \in ToSet(taken'[p]) \ ToSet(taken[p])
    /\ stage[From(n)] = "dropped"
    /\ ~ToldToDrop(p, n)

GoneTypeNothing ==
    [][\A n \in DOMAIN inputs, p \in Panes :
          Cardinality(inputs[n].to) = 1 /\ inputs[n].what # "key"
              => ~TypedLate(n, p)]_vars

\* A client's pastes reach the pane it looks at in the order it made them,
\* though each one's body and word take their own ways there.
TypedAsMade(c, p, kinds) ==
    \A i, j \in DOMAIN taken[p] :
        LET these == {taken[p][i], taken[p][j]} IN
        i < j /\ (\A n \in these : From(n) = c /\ inputs[n].what \in kinds)
            => taken[p][i] < taken[p][j]

PastesInOrder ==
    \A c \in Typists, p \in Panes : views[c].looked = 0 => TypedAsMade(c, p, {"paste"})

\* Both, as the run of what is typed checks them.
TypingIsSound == TypeOK /\ PastesInOrder

\* Whoever asks panes to take keys is answered, whatever crashes, closes or
\* goes meanwhile, with no time limit to help.
AskersAnswered == \A c \in Askers : wait[c] # 0 ~> wait[c] = 0

\* While clients stay, look at the same pane and programs go on, what is
\* pasted is typed.
Steady ==
    /\ \A p \in Panes : life[p] = "runs"
    /\ \A c \in Typists : stage[c] = "open" /\ proc[c] = "up" /\ views[c].looked = 0

Pasted(n) == n \in DOMAIN inputs /\ inputs[n].what = "paste"
Typed(n) == \E p \in Panes : n \in ToSet(taken[p])

PastesTyped == []Steady => \A n \in Numbers : Pasted(n) ~> Typed(n)

-----------------------------------------------------------------------------
(* What the code's comments and tests say that it does not do; a run of    *)
(* each shows how.                                                         *)

\* What is let go as an asker goes is let go by every pane that holds or
\* awaits it, those not reached first included.
EveryPaneTypesNothing ==
    [][\A n \in DOMAIN inputs, p \in Panes :
          inputs[n].what # "key" => ~TypedLate(n, p)]_vars

\* No pane keeps a body of a connection that is gone, but until it hears.
BodiesAreLetGo ==
    \A p \in Panes : \A n \in bodies[p] :
        link[p] = "up" /\ stage[From(n)] = "dropped" => ToldToDrop(p, n)

\* A connection that closes is done once what it sends panes is sent too.
ClosedOnceSent ==
    [][\A c \in Conns, p \in Panes : Close(c) => out[c][p] = <<>>]_vars

\* Keys and pastes a client types all arrive in order.
TypedInOrder ==
    \A c \in Typists, p \in Panes :
        views[c].looked = 0 => TypedAsMade(c, p, {"key", "paste"})

=============================================================================
