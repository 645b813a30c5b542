--------------------------------- MODULE Conns ---------------------------------
(***************************************************************************)
(* Clients' connections: the server's side of each (fux-server/src/        *)
(* server.rs, Conn and its Stage), each one's own process between it and   *)
(* its client (fux-server/src/conn.rs, serve), and the clients.  A client  *)
(* either attaches or asks, as a command does; it need not wait for one    *)
(* answer to send what comes next.  Keys a command sends a client go from  *)
(* the command's connection's process to the client's, past the server.    *)
(*                                                                         *)
(* The server serves one connection at a time, in the order they came, and *)
(* ends each round with what its turn does: its state is the record `srv`  *)
(* and its handlers are functions on it.  A process's is `proc[c]`.        *)
(***************************************************************************)
EXTENDS Integers, Sequences, SequencesExt, FiniteSets

CONSTANTS
    Commands,       \* connections of commands
    Attachers,      \* connections of clients that attach, each its client's id
    Asks,           \* what commands ask, of those AllAsks has
    MaxAsks,        \* bound: how much each command asks
    MaxActs,        \* bound: how many acts each attached client sends
    FramesAtOnce,   \* CONN_FRAMES
    Shuts,          \* whether a command may shut its side, still reading
    Stays,          \* whether a command may stay, asking nothing more
    Sticks,         \* whether a pane may take no more of what is typed
    Stops,          \* whether the server may be told to stop
    Leavers,        \* connections whose clients may go at any time
    Begun           \* connections past their opening as it begins

AllAsks == {"now", "wait", "read", "keys", "detach", "fenced"}
Conns == Commands \union Attachers

ASSUME ConnsAssumption ==
    /\ IsFiniteSet(Conns) /\ Conns \subseteq Nat \ {0}
    /\ Commands \intersect Attachers = {}
ASSUME BoundsAssumption ==
    /\ Asks \subseteq AllAsks /\ {MaxAsks, MaxActs} \subseteq Nat
    /\ FramesAtOnce \in Nat \ {0}
    /\ {Shuts, Stays, Sticks, Stops} \subseteq BOOLEAN /\ Begun \union Leavers \subseteq Conns

None == 0

VARIABLES
    client,     \* each connection's client
    proc,       \* each connection's own process
    up,         \* what each process said to the server (FromConn), unread: its
                \* client's frames; all it was to write written; no more to come
    coming,     \* bodies sent each process by others, which it has not taken
    srv         \* the server

vars == <<client, proc, up, coming, srv>>

\* What a client sends: of its acts, detach and answers, which one, `i`.
Frame(f, what, to, n, i) == [f |-> f, what |-> what, to |-> to, n |-> n, i |-> i]

\* What the server tells a process (enum ToConn): frames for its client, `x`,
\* or a word of its own.
Msg(m, x, n, to) == [m |-> m, x |-> x, n |-> n, to |-> to]
Bytes(x, n) == Msg("bytes", x, n, None)
Word(m) == Msg(m, "none", 0, None)
About(m, n) == Msg(m, "none", n, None)

\* A process that said nothing its server has not read.
Quiet == [frames |-> <<>>, flushed |-> FALSE, shut |-> FALSE]

\* A connection's stage as it begins.
First(c) ==
    IF c \notin Begun THEN "hello" ELSE IF c \in Attachers THEN "attached" ELSE "command"

Init ==
    /\ client = [c \in Conns |->
            [side |-> "open",       \* or "shut", or "gone"
             opened |-> c \in Begun, 
             inbox |-> <<>>,        \* sent, not taken by its process
             sent |-> 0,            \* its acts, answers and detach
             asked |-> <<>>,        \* what it asked
             left |-> FALSE,        \* it sent its detach
             owed |-> <<>>,         \* the reads it is to answer
             typed |-> {},          \* the keys it took
             results |-> <<>>,      \* the answers it had
             exited |-> FALSE]]     \* it had its last word
    /\ proc = [c \in Conns |->
            [on |-> TRUE, want |-> First(c), told |-> FALSE,
             answered |-> FALSE, making |-> FALSE, closing |-> FALSE,
             unflushed |-> FALSE, out |-> <<>>,
             typing |-> None, errand |-> None, to |-> None,
             reached |-> FALSE,     \* Errand::Keys: its end is some
             listening |-> c \in Begun \intersect Attachers,
             received |-> {}, keys |-> None, backlog |-> <<>>]]
    /\ up = [c \in Conns |-> Quiet]
    /\ coming = [c \in Conns |-> {}]
    /\ srv = [conn |-> [c \in Conns |->
                [stage |-> First(c), deco |-> <<>>, pending |-> FALSE,
                 asked |-> Frame("none", "none", None, 0, 0),
                 due |-> FALSE,     \* what it waits for came
                 stuck |-> "no",    \* its pane takes no more (typing_waits)
                 gone |-> FALSE, processed |-> 0, tokens |-> {}, keys |-> {},
                 down |-> <<>>]],
              asked |-> 0, last |-> 0, phase |-> "serving", ran |-> {}]

-----------------------------------------------------------------------------
(* The server's words: what becomes of a connection `k`.                   *)

Stage(s, c) == s.conn[c].stage
Views(s) == {c \in Attachers : Stage(s, c) = "attached"}
Put(s, c, k) == [s EXCEPT !.conn[c] = k]

Tell(k, message) == [k EXCEPT !.down = Append(k.down, message)]
Send(k, x, n) == [Tell(k, Bytes(x, n)) EXCEPT !.pending = TRUE]

\* Conn::enter.  One that leaves "attached" has its client detached, which
\* is what Views reads; what one that waited asked of panes is let go.
Enter(k, next) ==
    LET freed == IF k.stage = "attached" THEN Tell(k, Word("detached")) ELSE k
        moved == [freed EXCEPT !.stage = next, !.due = FALSE]
        again == next = "command" /\ k.stage \in {"command", "blocked", "waiting"}
    IN  IF k.stage = "dead" THEN k
        ELSE IF next \in {"attaching", "command", "attached"} /\ ~again
             THEN Tell(moved, Msg("expect", next, 0, None))
             ELSE moved

\* Conn::answer: the answer, then that it is all said.
Answer(k, result) ==
    LET said == Send(k, result, 0)
        on == IF k.stage \in {"blocked", "waiting"} THEN Enter(said, "command") ELSE said
    IN  Tell(on, Word("answered"))

\* Conn::answer of keys its process sends itself (Making::Keys).
AnswerMaking(k, to, n) ==
    Tell(Tell([k EXCEPT !.tokens = k.tokens \union {<<to, n>>}], Msg("make", "none", n, to)),
         Word("answered"))

\* Conn::end, and Conn::exit of one attached: its last word.
End(k) == Tell(Send(Enter(k, "closing"), "exit", 0), Word("close"))

\* Mutant of Unprocessed: a frame short.
UnprocessedAShort(s, ask) ==
    IF ask.what # "fenced" THEN 0
    ELSE IF ask.to \notin Views(s) THEN -1
    ELSE IF ask.n > s.conn[ask.to].processed + 1
         THEN ask.n - s.conn[ask.to].processed ELSE 0

\* Mutant of Unprocessed: a source that is gone goes unnoticed.
UnprocessedOfTheGone(s, ask) ==
    IF ask.what # "fenced" THEN 0
    ELSE IF ask.n > s.conn[ask.to].processed
         THEN ask.n - s.conn[ask.to].processed ELSE 0

\* Server::unprocessed: how many of its source's frames a request follows
\* wait; none without a fence, and -1 for a source that is gone.
Unprocessed(s, ask) ==
    IF ask.what # "fenced" THEN 0
    ELSE IF ask.to \notin Views(s) THEN -1
    ELSE IF ask.n > s.conn[ask.to].processed
         THEN ask.n - s.conn[ask.to].processed ELSE 0

\* Server::request, with Session::client's and begin_request's part in it.
Wait(s, c, ask) == Put(s, c, [Enter(s.conn[c], "waiting") EXCEPT !.asked = ask])
Reply(s, c, result) == Put(s, c, Answer(s.conn[c], result))
AskClient(s, c, ask, n) ==
    Wait(Put([s EXCEPT !.asked = n], ask.to, Send(s.conn[ask.to], "read", n)),
         c, [ask EXCEPT !.n = n])
SendKeys(s, c, to, n) ==
    LET told == Tell([s.conn[to] EXCEPT !.keys = s.conn[to].keys \union {n}], About("keys", n))
        sent == Put([s EXCEPT !.asked = n], to, Send(told, "read", n))
    IN  Put(sent, c, AnswerMaking(sent.conn[c], to, n))
Request(s, c, ask) ==
    CASE ask.what = "wait" -> Wait(s, c, ask)
      [] ask.what = "now" -> Reply(s, c, "done")
      [] ask.what = "fenced" ->
            Reply([s EXCEPT !.ran = s.ran \union {<<ask.to, ask.n>>}], c, "done")
      [] ask.what \in {"read", "keys", "detach"} /\ ask.to \notin Views(s) ->
            Reply(s, c, "refused")
      [] ask.what = "detach" /\ ask.to \in Views(s) ->
            Reply(Put(s, ask.to, End(s.conn[ask.to])), c, "done")
      [] ask.what = "read" /\ ask.to \in Views(s) -> AskClient(s, c, ask, s.asked + 1)
      [] ask.what = "keys" /\ ask.to \in Views(s) -> SendKeys(s, c, ask.to, s.asked + 1)

\* Server::ordered_request.
OrderedRequest(s, c, ask) ==
    CASE Unprocessed(s, ask) = 0 -> Request(s, c, ask)
      [] Unprocessed(s, ask) > 0 -> Put(s, c, [Enter(s.conn[c], "blocked") EXCEPT !.asked = ask])
      [] Unprocessed(s, ask) < 0 -> Reply(s, c, "refused")

\* Keys let go, each said of.
Drops(numbers) ==
    LET each == SetToSeq(numbers)
    IN  [i \in DOMAIN each |-> About("drop", each[i])]

\* Server::let_go: keys of `numbers` hold their client's connection back no more.
LetGo(k, numbers) ==
    [k EXCEPT !.keys = k.keys \ numbers, !.down = k.down \o Drops(k.keys \intersect numbers)]

\* Server::answered: keys sent before the question were taken, or the
\* question's asker has its answer.
Senders(s, c, n) == {d \in Commands : <<c, n>> \in s.conn[d].tokens}
Askers(s, c, n) ==
    {d \in Commands : /\ Stage(s, d) = "waiting"
                      /\ s.conn[d].asked.what = "read"
                      /\ s.conn[d].asked.to = c /\ s.conn[d].asked.n = n}
Typed(k, c, n) == Tell([k EXCEPT !.tokens = k.tokens \ {<<c, n>>}], About("typed", n))
Kept(k, n) == [k EXCEPT !.keys = k.keys \ {n}]
KeysTaken(s, c, n, d) ==
    [s EXCEPT !.conn = [e \in Conns |->
        Kept(IF e = d THEN Typed(s.conn[d], c, n) ELSE s.conn[e], n)]]
Answered(s, c, n) ==
    CASE Senders(s, c, n) # {} -> KeysTaken(s, c, n, CHOOSE d \in Senders(s, c, n) : TRUE)
      [] Senders(s, c, n) = {} /\ Askers(s, c, n) # {} ->
            Reply(s, CHOOSE d \in Askers(s, c, n) : TRUE, "done")
      [] OTHER -> s

\* Server::take_frame of a connection that has one.
Popped(k) == [k EXCEPT !.deco = Tail(k.deco)]
Counted(k) == [Popped(k) EXCEPT !.processed = k.processed + 1]
TakeFrame(s, c) ==
    LET k == s.conn[c]
        frame == Head(k.deco)
    IN  CASE k.stage = "hello" ->
                Put(s, c, Enter(Send(Popped(k), "hello", 0), frame.what))
          [] k.stage = "attaching" ->
                Put(s, c, Tell(Send(Enter(Popped(k), "attached"), "welcome", 0), Word("listen")))
          [] k.stage = "attached" /\ frame.f = "act" -> Put(s, c, Counted(k))
          [] k.stage = "attached" /\ frame.f = "detach" -> Put(s, c, End(Popped(k)))
          [] k.stage = "attached" /\ frame.f = "answer" ->
                Answered(Put(s, c, Counted(k)), c, frame.n)
          [] k.stage = "command" -> OrderedRequest(Put(s, c, Popped(k)), c, frame)
          [] OTHER -> Put(s, c, [k EXCEPT !.deco = <<>>])

\* Conn::reads, and Server::held.
Reads(s, c) ==
    /\ Stage(s, c) \notin {"closing", "dead", "closed"}
    /\ Stage(s, c) = "command" => ~s.conn[c].pending
Held(s, c) == Stage(s, c) = "attached" /\ s.conn[c].stuck = "stuck"

\* Conn::hear: what its process said, itself gone or not.
Heard(k, heard, gone) ==
    [k EXCEPT !.deco = k.deco \o heard.frames,
              !.pending = k.pending /\ ~heard.flushed,
              !.gone = gone]

\* Server::read_conn: at most so many frames at once; then, if the client
\* sends no more, what that makes of its connection.
Taking(s, c) ==
    IF s.conn[c].deco # <<>> /\ Reads(s, c) /\ ~Held(s, c) THEN TakeFrame(s, c) ELSE s
TakeFrames(s, c) ==
    LET after[n \in 0..FramesAtOnce] == IF n = 0 THEN s ELSE Taking(after[n - 1], c)
    IN  after[FramesAtOnce]

Closed(k) ==
    CASE k.stage = "command" -> Tell(Enter(k, "closing"), Word("close"))
      [] k.stage \in {"closing", "dead"} -> k
      [] OTHER -> Enter(k, "dead")
ReadConn(s, c, heard, gone) ==
    LET taken == TakeFrames(Put(s, c, Heard(s.conn[c], heard, gone)), c)
    IN  IF gone \/ heard.shut THEN Put(taken, c, Closed(taken.conn[c])) ELSE taken

Eligible(s, c) == Stage(s, c) = "blocked" /\ Unprocessed(s, s.conn[c].asked) <= 0

\* Server::serve_conn.
Served(s, c, heard, gone) ==
    LET read == ReadConn(s, c, heard, gone)
    IN  IF Eligible(read, c)
        THEN OrderedRequest(Put(read, c, [read.conn[c] EXCEPT !.stage = "command"]),
                            c, read.conn[c].asked)
        ELSE read

-----------------------------------------------------------------------------
(* The server's rounds.                                                    *)

\* What every connection becomes.
Waited(s, c) ==
    /\ Stage(s, c) = "waiting"
    /\ \/ s.conn[c].due
       \/ s.conn[c].asked.what = "read" /\ s.conn[c].asked.to \notin Views(s)

\* Mutant of AnswerWaits: a read of a client that went waits on.
AnswerWaitsOfTheirOwn(s) ==
    [s EXCEPT !.conn = [c \in Conns |->
        IF Stage(s, c) = "waiting" /\ s.conn[c].due THEN Answer(s.conn[c], "done")
        ELSE s.conn[c]]]

\* Server::answer_waits, with Waiting::answer's part in it.
AnswerWaits(s) ==
    [s EXCEPT !.conn = [c \in Conns |->
        IF Waited(s, c) THEN Answer(s.conn[c], IF s.conn[c].due THEN "done" ELSE "refused")
        ELSE s.conn[c]]]

\* Server::close_conns: those over are closed, and what they were to send let go.
IsOver(k) == k.stage # "closed" /\ (k.stage = "dead" \/ k.gone)
Over(k) ==
    [Enter(k, "dead") EXCEPT !.stage = "closed", !.deco = <<>>, !.tokens = {}, !.keys = {}]
Unsent(s) ==
    {n \in 1..s.asked : \E c \in Conns, a \in Attachers :
        IsOver(s.conn[c]) /\ <<a, n>> \in s.conn[c].tokens}
CloseConns(s) ==
    [s EXCEPT !.conn = [c \in Conns |->
        IF IsOver(s.conn[c]) THEN Over(s.conn[c]) ELSE LetGo(s.conn[c], Unsent(s))]]

\* The keys `k` was to send a client that is gone.
Lost(s, k) == {n \in 1..s.asked : \E a \in Attachers \ Views(s) : <<a, n>> \in k.tokens}
Forgets(s, k) ==
    [k EXCEPT !.tokens = {token \in k.tokens : token[1] \in Views(s)},
              !.down = k.down \o Drops(Lost(s, k))]

\* Mutant of Retire: the clients the keys were for are not told.
RetireSendersAlone(s) == [s EXCEPT !.conn = [c \in Conns |-> Forgets(s, s.conn[c])]]

\* Server::retire: the keys for clients gone, their senders told first.
Retire(s) ==
    LET lost == UNION {Lost(s, s.conn[c]) : c \in Conns}
    IN  [s EXCEPT !.conn = [c \in Conns |-> LetGo(Forgets(s, s.conn[c]), lost)]]

\* Server::turn, and Server::run's end: a server told to stop ends once its
\* connections did.
Turned(s) ==
    LET turned == [Retire(CloseConns(AnswerWaits(s))) EXCEPT !.last = 0]
    IN  IF turned.phase = "stopping" /\ \A c \in Conns : Stage(turned, c) = "closed"
        THEN [turned EXCEPT !.phase = "ended"] ELSE turned

\* Server::stop: those attached first, then every other.
Exited(s) ==
    [s EXCEPT !.phase = "stopping", !.conn = [c \in Conns |->
        IF Stage(s, c) = "attached" THEN End(s.conn[c]) ELSE s.conn[c]]]
AllEnded(s) ==
    [s EXCEPT !.conn = [c \in Conns |->
        IF Stage(s, c) \in {"closing", "dead", "closed"} THEN s.conn[c] ELSE End(s.conn[c])]]
Stopped(s) == AllEnded(AnswerWaits(Exited(s)))

Serves == srv.phase \in {"serving", "stopping"}
Off(c) == ~proc[c].on /\ ~srv.conn[c].gone

\* Server::run's part for one connection: what Server::poll found ready, and
\* each connection but once a round.  One held is only seen to end.
Ready(c) ==
    /\ Serves /\ Stage(srv, c) # "closed" /\ c > srv.last
    /\ \/ Off(c)
       \/ ~Held(srv, c) /\ up[c] # Quiet
       \/ ~Held(srv, c) /\ Reads(srv, c) /\ srv.conn[c].deco # <<>>
       \/ Eligible(srv, c)

ServeConn(c) ==
    /\ Ready(c)
    /\ srv' = [Served(srv, c, up[c], ~proc[c].on) EXCEPT !.last = c]
    /\ up' = [up EXCEPT ![c] = Quiet]
    /\ UNCHANGED <<client, proc, coming>>

Turns == Serves /\ Turned(srv) # srv
Turn ==
    /\ Turns
    /\ srv' = Turned(srv)
    /\ UNCHANGED <<client, proc, up, coming>>

\* What a request waits for comes: its pane's change, its journal's entry or
\* its time's end (Waiting::answer).
Happens(c) ==
    /\ Serves /\ Stage(srv, c) = "waiting" /\ srv.conn[c].asked.what = "wait"
    /\ ~srv.conn[c].due
    /\ srv' = [srv EXCEPT !.conn[c].due = TRUE]
    /\ UNCHANGED <<client, proc, up, coming>>

\* A pane takes no more of what its client types, and takes it again
\* (Session::typing_waits); bound: once.
Stick(c) ==
    /\ Sticks /\ Serves /\ Stage(srv, c) = "attached" /\ srv.conn[c].stuck = "no"
    /\ srv' = [srv EXCEPT !.conn[c].stuck = "stuck"]
    /\ UNCHANGED <<client, proc, up, coming>>

GoOn(c) ==
    /\ srv.conn[c].stuck = "stuck"
    /\ srv' = [srv EXCEPT !.conn[c].stuck = "over"]
    /\ UNCHANGED <<client, proc, up, coming>>

Stop ==
    /\ Stops /\ srv.phase = "serving"
    /\ srv' = Stopped(srv)
    /\ UNCHANGED <<client, proc, up, coming>>

\* Wake::Stop: a stopping server waits for its clients no more.
StopOver ==
    /\ srv.phase = "stopping"
    /\ srv' = [srv EXCEPT !.phase = "cut",
                !.conn = [c \in Conns |-> [srv.conn[c] EXCEPT !.stage = "closed"]]]
    /\ UNCHANGED <<client, proc, up, coming>>

-----------------------------------------------------------------------------
(* A connection's own process.                                             *)

Ended(c) == client[c].side # "open"

\* The process lets its link, its client and what others sent it go.
Exits(c, said, came) ==
    /\ proc' = [proc EXCEPT ![c].on = FALSE, ![c].received = {}, ![c].listening = FALSE]
    /\ coming' = [came EXCEPT ![c] = {}]
    /\ up' = [up EXCEPT ![c].flushed = up[c].flushed \/ said]

\* Mutant of Goes: the next request is let in as an answer's first half is.
GoesWhileMaking(c, p, came) ==
    LET next == p.want = "answer" /\ p.answered
    IN  CASE p.out # <<>> ->
                /\ proc' = [proc EXCEPT ![c] = p]
                /\ coming' = came /\ UNCHANGED up
          [] p.out = <<>> /\ p.closing /\ p.errand = None -> Exits(c, p.unflushed, came)
          [] OTHER ->
                /\ proc' = [proc EXCEPT ![c] = [p EXCEPT
                        !.unflushed = FALSE, !.want = IF next THEN "command" ELSE p.want]]
                /\ coming' = came
                /\ up' = [up EXCEPT ![c].flushed = up[c].flushed \/ p.unflushed]

\* Mutant of Goes: it ends with its last word unwritten.
GoesAtOnce(c, p, came) ==
    LET next == p.want = "answer" /\ p.answered /\ ~p.making
    IN  CASE p.closing /\ p.errand = None -> Exits(c, p.unflushed, came)
          [] p.out # <<>> /\ ~p.closing ->
                /\ proc' = [proc EXCEPT ![c] = p]
                /\ coming' = came /\ UNCHANGED up
          [] OTHER ->
                /\ proc' = [proc EXCEPT ![c] = [p EXCEPT
                        !.unflushed = FALSE, !.want = IF next THEN "command" ELSE p.want]]
                /\ coming' = came
                /\ up' = [up EXCEPT ![c].flushed = up[c].flushed \/ p.unflushed]

\* Once what waits for its client is all written: the server told, the next
\* request let in, or its end (serve).
Goes(c, p, came) ==
    LET next == p.want = "answer" /\ p.answered /\ ~p.making
    IN  CASE p.out # <<>> ->
                /\ proc' = [proc EXCEPT ![c] = p]
                /\ coming' = came /\ UNCHANGED up
          [] p.out = <<>> /\ p.closing /\ p.errand = None -> Exits(c, p.unflushed, came)
          [] OTHER ->
                /\ proc' = [proc EXCEPT ![c] = [p EXCEPT
                        !.unflushed = FALSE, !.want = IF next THEN "command" ELSE p.want]]
                /\ coming' = came
                /\ up' = [up EXCEPT ![c].flushed = up[c].flushed \/ p.unflushed]

Fits(want, f) ==
    \/ want = "hello" /\ f = "hello"
    \/ want = "attaching" /\ f = "attach"
    \/ want = "command" /\ f = "ask"
    \/ want = "attached" /\ f \in {"act", "detach", "answer"}

Wants == {"hello", "attaching", "command", "attached"}

\* next_frame, and what its loop does of the frame: it goes on to the server.
Forwards(c) == proc[c].on /\ proc[c].want \in Wants /\ client[c].inbox # <<>>

\* Mutant of Forward: it goes on wanting what it was told to, once taken.
ForwardTheSame(c) ==
    /\ Forwards(c)
    /\ LET frame == Head(client[c].inbox)
       IN  /\ Fits(proc[c].want, frame.f)
           /\ client' = [client EXCEPT ![c].inbox = Tail(client[c].inbox)]
           /\ up' = [up EXCEPT ![c].frames = Append(up[c].frames, frame)]
           /\ proc' = [proc EXCEPT
                ![c].want = IF proc[c].want = "command" THEN "answer" ELSE proc[c].want,
                ![c].answered = proc[c].answered /\ proc[c].want # "command"]
    /\ UNCHANGED <<coming, srv>>

Forward(c) ==
    /\ Forwards(c)
    /\ LET frame == Head(client[c].inbox)
       IN  /\ Fits(proc[c].want, frame.f)
           /\ client' = [client EXCEPT ![c].inbox = Tail(client[c].inbox)]
           /\ up' = [up EXCEPT ![c].frames = Append(up[c].frames, frame)]
           /\ proc' = [proc EXCEPT
                ![c].want = CASE proc[c].want \in {"hello", "attaching"} -> "nothing"
                              [] proc[c].want = "command" -> "answer"
                              [] proc[c].want = "attached" -> "attached",
                ![c].answered = proc[c].answered /\ proc[c].want # "command"]
    /\ UNCHANGED <<coming, srv>>

\* Its client sends no more: said once what it sent is taken, or while a
\* request is under way.
TellsShut(c) ==
    /\ proc[c].on /\ Ended(c) /\ ~proc[c].told
    /\ \/ client[c].inbox = <<>> /\ proc[c].want \in Wants
       \/ proc[c].want = "answer"
TellShut(c) ==
    /\ TellsShut(c)
    /\ proc' = [proc EXCEPT ![c].told = TRUE]
    /\ up' = [up EXCEPT ![c].shut = TRUE]
    /\ UNCHANGED <<client, coming, srv>>

\* What a client makes of what it is sent: keys and reads (Keyboard::frame),
\* answers, its last word.
Taken(k, sent) ==
    CASE sent.x = "keys" -> [k EXCEPT !.typed = k.typed \union {sent.n}]
      [] sent.x = "read" -> [k EXCEPT !.owed = Append(k.owed, sent.n)]
      [] sent.x \in {"done", "refused", "typed", "lost"} ->
            [k EXCEPT !.results = Append(k.results, <<sent.x, sent.n>>)]
      [] sent.x = "exit" -> [k EXCEPT !.exited = TRUE]
      [] OTHER -> k
TakenAll(k, sent) ==
    LET after[n \in 0..Len(sent)] == IF n = 0 THEN k ELSE Taken(after[n - 1], sent[n])
    IN  after[Len(sent)]

\* write: its client takes all it was sent, or is gone.
Writes(c) == proc[c].on /\ proc[c].out # <<>>
Write(c) ==
    /\ Writes(c)
    /\ IF client[c].side = "gone"
       THEN Exits(c, FALSE, coming) /\ UNCHANGED client
       ELSE /\ client' = [client EXCEPT ![c] = TakenAll(client[c], proc[c].out)]
            /\ Goes(c, [proc[c] EXCEPT !.out = <<>>], coming)
    /\ UNCHANGED srv

\* Keys whose body came go to its client (serve's loop over the backlog).
Unheld(p) ==
    IF p.keys # None /\ p.keys \in p.received
    THEN [p EXCEPT !.out = Append(p.out, Bytes("keys", p.keys)),
                   !.received = p.received \ {p.keys}, !.keys = None]
    ELSE p

\* Its server's word, taken in order; where another connection's process is
\* reached is said by `reaches`.  (Errand::of of keys.)
Does(p, said, reaches) ==
    CASE said.m = "bytes" -> [p EXCEPT !.out = Append(p.out, said), !.unflushed = TRUE]
      [] said.m = "expect" -> [p EXCEPT !.want = said.x]
      [] said.m = "answered" -> [p EXCEPT !.answered = TRUE]
      [] said.m = "listen" -> [p EXCEPT !.listening = TRUE]
      [] said.m = "keys" -> [p EXCEPT !.keys = said.n]
      [] said.m = "make" ->
            [p EXCEPT !.typing = said.n, !.errand = said.n, !.to = said.to,
                      !.reached = said.to \in reaches, !.making = TRUE]
      [] said.m = "close" -> [p EXCEPT !.closing = TRUE, !.want = "nothing"]
      [] OTHER -> p

\* What waits for no body, done in order; the rest kept.
Each(p, said, reaches) ==
    LET u == Unheld(p)
    IN  IF u.keys # None THEN [u EXCEPT !.backlog = Append(u.backlog, said)]
        ELSE Does(u, said, reaches)
Backlog(p, reaches) ==
    LET after[n \in 0..Len(p.backlog)] ==
            IF n = 0 THEN [p EXCEPT !.backlog = <<>>]
            ELSE Each(after[n - 1], p.backlog[n], reaches)
    IN  Unheld(after[Len(p.backlog)])

\* The reply to keys for a client, made by its own process (typed).
Replied(p, x) ==
    [p EXCEPT !.out = Append(p.out, Bytes(x, p.typing)), !.typing = None, !.making = FALSE]

\* Mutant of LetsGo: keys let go are held back for where they were reached.
LetsGoBacklogAlone(p, n) ==
    LET at == {i \in DOMAIN p.backlog : p.backlog[i] = About("keys", n)}
    IN  [p EXCEPT !.received = p.received \ {n},
                  !.backlog = IF at = {} THEN p.backlog
                              ELSE RemoveAt(p.backlog, CHOOSE i \in at : TRUE)]

\* Keys `n` come no more: nothing is held back for their body.
LetsGo(p, n) ==
    LET at == {i \in DOMAIN p.backlog : p.backlog[i] = About("keys", n)}
    IN  [p EXCEPT !.received = p.received \ {n},
                  !.backlog = IF at = {} THEN p.backlog
                              ELSE RemoveAt(p.backlog, CHOOSE i \in at : TRUE),
                  !.keys = IF p.keys = n THEN None ELSE p.keys]

\* ToConn::Drop and ToConn::Typed are taken as they are read, the rest after.
Urgent(p, said) ==
    CASE said.m = "drop" /\ p.typing = said.n ->
            Replied([LetsGo(p, said.n) EXCEPT !.errand = None], "lost")
      [] said.m = "drop" /\ p.typing # said.n -> LetsGo(p, said.n)
      [] said.m = "typed" -> IF p.typing = said.n THEN Replied(p, "typed") ELSE p
      [] OTHER -> [p EXCEPT !.backlog = Append(p.backlog, said)]
Told(p, words) ==
    LET after[n \in 0..Len(words)] == IF n = 0 THEN p ELSE Urgent(after[n - 1], words[n])
    IN  after[Len(words)]

Reaches == {c \in Attachers : proc[c].on /\ proc[c].listening}

\* All its server said by now, and its server's end.
Hears(c) == proc[c].on /\ (srv.conn[c].down # <<>> \/ Stage(srv, c) = "closed")
HearServer(c) ==
    /\ Hears(c)
    /\ srv' = [srv EXCEPT !.conn[c].down = <<>>]
    /\ LET p == Backlog(Told(proc[c], srv.conn[c].down), Reaches)
       IN  IF Stage(srv, c) = "closed"
           THEN /\ Exits(c, FALSE, coming)
                /\ client' = IF client[c].side = "gone" THEN client
                             ELSE [client EXCEPT ![c] = TakenAll(client[c], p.out)]
           ELSE Goes(c, p, coming) /\ UNCHANGED client

\* Errand::on of keys: its link took them all, or they reach none.
Carries(c) == proc[c].on /\ proc[c].errand # None

\* Mutant of Carry: keys are said to be typed as they are sent.
CarryAsTyped(c) ==
    /\ Carries(c)
    /\ LET p == [proc[c] EXCEPT !.errand = None]
           to == proc[c].to
       IN  IF proc[c].reached /\ proc[to].on
           THEN Goes(c, Replied(p, "typed"), [coming EXCEPT ![to] = coming[to] \union {proc[c].errand}])
           ELSE Goes(c, Replied(p, "lost"), coming)
    /\ UNCHANGED <<client, srv>>

Carry(c) ==
    /\ Carries(c)
    /\ LET p == [proc[c] EXCEPT !.errand = None]
           to == proc[c].to
       IN  IF proc[c].reached /\ proc[to].on
           THEN Goes(c, p, [coming EXCEPT ![to] = coming[to] \union {proc[c].errand}])
           ELSE Goes(c, Replied(p, "lost"), coming)
    /\ UNCHANGED <<client, srv>>

\* Listening::take: the bodies others sent it, and what waited for them.
TakesBodies(c) == proc[c].on /\ coming[c] # {}
TakeBodies(c) ==
    /\ TakesBodies(c)
    /\ Goes(c, Backlog([proc[c] EXCEPT !.received = proc[c].received \union coming[c]], Reaches),
            [coming EXCEPT ![c] = {}])
    /\ UNCHANGED <<client, srv>>

-----------------------------------------------------------------------------
(* The clients.                                                            *)

Says(c, frame) == [client[c] EXCEPT !.inbox = Append(client[c].inbox, frame)]
Speaks(c, k) ==
    /\ proc[c].on /\ client[c].side = "open"
    /\ client' = [client EXCEPT ![c] = k]
    /\ UNCHANGED <<proc, up, coming, srv>>

\* Its Hello, and one that attaches its Attach, the answer not waited for.
Open(c) ==
    /\ ~client[c].opened
    /\ LET hello(what) == Frame("hello", what, None, 0, 0)
           opening == IF c \in Commands THEN <<hello("command")>>
                      ELSE <<hello("attaching"), Frame("attach", "none", None, 0, 0)>>
       IN  Speaks(c, [client[c] EXCEPT !.inbox = opening, !.opened = TRUE])

\* A command asks; a fence follows all its source sent by then.
Ask(c) ==
    /\ c \in Commands /\ client[c].opened /\ Len(client[c].asked) < MaxAsks
    /\ \E what \in Asks, to \in Attachers :
          LET n == IF what = "fenced" THEN client[to].sent ELSE 0
          IN  Speaks(c, [Says(c, Frame("ask", what, to, n, 0))
                            EXCEPT !.asked = Append(client[c].asked, what)])

Attaches(c) == c \in Attachers /\ client[c].opened /\ ~client[c].left
Act(c) ==
    /\ Attaches(c) /\ client[c].sent < MaxActs
    /\ LET i == client[c].sent + 1
       IN  Speaks(c, [Says(c, Frame("act", "none", None, 0, i)) EXCEPT !.sent = i])
Detach(c) ==
    /\ Attaches(c)
    /\ LET i == client[c].sent + 1
       IN  Speaks(c, [Says(c, Frame("detach", "none", None, 0, i))
                        EXCEPT !.sent = i, !.left = TRUE])

\* It answers a read, which follows the keys sent it before.
Replies(c) ==
    /\ Attaches(c) /\ client[c].owed # <<>> /\ ~client[c].exited
    /\ LET i == client[c].sent + 1
       IN  Speaks(c, [Says(c, Frame("answer", "none", None, Head(client[c].owed), i))
                        EXCEPT !.sent = i, !.owed = Tail(client[c].owed)])

Shut(c) ==
    /\ Shuts /\ c \in Commands /\ client[c].asked # <<>>
    /\ Speaks(c, [client[c] EXCEPT !.side = "shut"])

Leaves(c) ==
    /\ client[c].side # "gone" /\ proc[c].on
    /\ client' = [client EXCEPT ![c].side = "gone"]
    /\ UNCHANGED <<proc, up, coming, srv>>

\* A command that has the answers to all it asked is done; one whose side is
\* shut, or a client told its last word, waits for its connection's end.
Done(c) ==
    /\ ~Stays /\ c \in Commands
    /\ client[c].asked # <<>> /\ Len(client[c].results) = Len(client[c].asked)
    /\ Leaves(c)

-----------------------------------------------------------------------------

Server == Turn \/ Stop \/ StopOver \/ \E c \in Conns : ServeConn(c)
Process(c) ==
    \/ Forward(c) \/ TellShut(c) \/ Write(c)
    \/ HearServer(c) \/ Carry(c) \/ TakeBodies(c)
Client(c) ==
    \/ Open(c) \/ Ask(c) \/ Act(c) \/ Detach(c) \/ Replies(c)
    \/ Shut(c) \/ Done(c) \/ (c \in Leavers /\ Leaves(c))

Next ==
    \/ Server
    \/ \E c \in Conns : Process(c) \/ Client(c) \/ Happens(c) \/ Stick(c) \/ GoOn(c)

\* What the loops of the server and of the processes have to do.
Loops == Turn \/ StopOver \/ \E c \in Conns : ServeConn(c) \/ Process(c)
HaveWork ==
    \/ Turns \/ srv.phase = "stopping"
    \/ \E c \in Conns : Ready(c) \/ Forwards(c) \/ TellsShut(c) \/ Writes(c)
                       \/ Hears(c) \/ Carries(c) \/ TakesBodies(c)

\* The loops go on while there is anything ready: their weak fairness, with
\* ENABLED said as HaveWork.  A client takes what it is sent, answers what it
\* is asked and, a command, ends when done; a pane takes what is typed in the
\* end, and a wait has its limit.
Fairness ==
    /\ []<>~HaveWork \/ []<><<Loops>>_vars
    /\ \A c \in Conns :
        WF_vars(Replies(c)) /\ WF_vars(Happens(c)) /\ WF_vars(GoOn(c)) /\ WF_vars(Done(c))

Spec == Init /\ [][Next]_vars /\ Fairness

-----------------------------------------------------------------------------
(* What is to hold.                                                        *)

Framed(kinds) ==
    [f : kinds, what : AllAsks \union {"attaching", "command", "none"},
     to : Conns \union {None}, n : Nat, i : Nat]
Sents == Framed({"hello", "attach", "act", "detach", "answer", "ask"})
Answers == {"done", "refused", "typed", "lost"}
Texts == Answers \union {"none", "hello", "welcome", "read", "keys", "exit"}
                 \union {"attaching", "command", "attached"}
Said == [m : {"bytes", "expect", "answered", "listen", "keys", "drop", "typed", "make",
              "detached", "close"},
         x : Texts, n : Nat, to : Conns \union {None}]

\* Each field has its type (struct Conn, enum Stage, enum Want).
TypeOK ==
    /\ \A c \in Conns :
        /\ client[c].side \in {"open", "shut", "gone"}
        /\ client[c].inbox \in Seq(Sents)
        /\ up[c] \in [frames : Seq(Sents), flushed : BOOLEAN, shut : BOOLEAN]
        /\ proc[c].want \in Wants \union {"answer", "nothing"}
        /\ {proc[c].on, proc[c].told, proc[c].answered, proc[c].making, proc[c].closing,
            proc[c].unflushed, proc[c].reached, proc[c].listening} \subseteq BOOLEAN
        /\ proc[c].out \in Seq(Said) /\ proc[c].backlog \in Seq(Said)
        /\ srv.conn[c].stage \in Wants \union {"blocked", "waiting", "closing", "dead", "closed"}
        /\ srv.conn[c].deco \in Seq(Sents) /\ srv.conn[c].down \in Seq(Said)
        /\ srv.conn[c].tokens \subseteq Attachers \X Nat
        /\ coming[c] \union srv.conn[c].keys \union proc[c].received \subseteq Nat
    /\ srv.phase \in {"serving", "stopping", "ended", "cut"}

\* A frame is decoded as what its client sends then, by its process and by
\* its server, however much of it comes before it is asked for
\* (Expect, Want, Server::take_frame): any other frame is a bad one.
EveryFrameFits ==
    \A c \in Conns :
        /\ proc[c].on /\ client[c].inbox # <<>> /\ proc[c].want \in Wants
            => Fits(proc[c].want, Head(client[c].inbox).f)
        /\ srv.conn[c].deco # <<>> /\ Stage(srv, c) \in Wants
            => Fits(Stage(srv, c), Head(srv.conn[c].deco).f)

\* Both, as the run of what is asked checks them.
StagesAreSound == TypeOK /\ EveryFrameFits

\* A fenced request runs once none of the frames it follows is on its way
\* (Server::ordered_request): a key's program acts after the key.
FencesHold ==
    \A fence \in srv.ran :
        LET sent(q) == {q[i] : i \in DOMAIN q}
            c == fence[1]
        IN  Stage(srv, c) = "attached" =>
                \A f \in sent(client[c].inbox) \union sent(up[c].frames) \union sent(srv.conn[c].deco) :
                    f.i = 0 \/ f.i > fence[2]

\* A command has one answer for each thing it asked, in order, and its
\* connection never holds two.
AnswersInOrder ==
    \A c \in Commands :
        LET held(q) == Cardinality({i \in DOMAIN q : q[i].m = "bytes" /\ q[i].x \in Answers})
        IN  /\ Len(client[c].results) <= Len(client[c].asked)
            /\ \A i \in DOMAIN client[c].results :
                LET x == client[c].results[i][1]
                IN  /\ x \in {"typed", "lost"} => client[c].asked[i] = "keys"
                    /\ x = "done" => client[c].asked[i] # "keys"
                    /\ \A j \in 1..(i - 1) :
                        {x, client[c].results[j][1]} \subseteq {"typed", "lost"} =>
                            client[c].results[j][2] < client[c].results[i][2]
            /\ held(proc[c].out) + held(proc[c].backlog) + held(srv.conn[c].down) <= 1

\* Keys said to be typed were taken by their client.
KeysAreHonest ==
    \A c \in Commands : \A i \in DOMAIN client[c].results :
        client[c].results[i][1] = "typed" =>
            \E a \in Attachers : client[c].results[i][2] \in client[a].typed

\* A client's connection held back for keys has their body, or their sender
\* still may send it, or it is told they are let go (Server::let_go).
HeldBackForASender ==
    \A c \in Attachers :
        LET n == proc[c].keys
            drops == {i \in DOMAIN srv.conn[c].down :
                        srv.conn[c].down[i] = About("drop", n)}
        IN  proc[c].on /\ n # None /\ Stage(srv, c) # "closed" =>
                \/ n \in coming[c]
                \/ \E d \in Commands : <<c, n>> \in srv.conn[d].tokens
                \/ drops # {}

\* What becomes of keys is said truly, once and in order, and whoever waits
\* for them waits for someone.
KeysAreSound == AnswersInOrder /\ KeysAreHonest /\ HeldBackForASender

\* The connection of a command that still reads and writes is ended by
\* nothing but the server's stop.
OnlyTheDoneEnd ==
    srv.phase = "serving" =>
        \A c \in Commands : client[c].side = "open" => proc[c].on

\* A client's connection ends once it had its last word, whatever it was
\* being sent, unless the server waits for it no longer (Conn::end, Close).
LastWordIsHeard ==
    \A c \in Conns :
        ~proc[c].on /\ client[c].side = "open" /\ srv.phase # "cut" => client[c].exited

\* A connection's process ends as its client or the server says, and says so.
EndsAreOrderly == OnlyTheDoneEnd /\ LastWordIsHeard

\* What a command asks is answered, or its connection ends.
AsksEnd ==
    \A c \in Commands : \A i \in 1..MaxAsks :
        (Len(client[c].asked) = i /\ proc[c].on) ~>
            (Len(client[c].results) >= i \/ ~proc[c].on)

\* A client that detaches is told and let go, whatever was on its way to it.
DetachEnds ==
    \A c \in Attachers :
        client[c].left ~> (~proc[c].on /\ (client[c].exited \/ client[c].side = "gone"
                                            \/ srv.phase # "serving"))

\* A client is held back by keys sent it no longer than their sender lives.
HeldBackGoesOn ==
    \A c \in Attachers : (proc[c].keys # None) ~> (proc[c].keys = None \/ ~proc[c].on)

\* A command that shut its side has the answer to what it asked.
ShutClientsAreAnswered ==
    \A c \in Commands :
        (client[c].side = "shut") ~>
            \/ Len(client[c].results) = Len(client[c].asked)
            \/ client[c].side = "gone" \/ srv.phase # "serving"

\* A body its connection took is one it is still to send its client
\* (ToConn::Drop: a body that goes no further is let go).
BodiesAreWanted ==
    \A c \in Attachers : \A n \in proc[c].received :
        \/ n = proc[c].keys
        \/ \E i \in DOMAIN proc[c].backlog : proc[c].backlog[i] = About("keys", n)
        \/ \E i \in DOMAIN srv.conn[c].down :
                srv.conn[c].down[i] \in {About("keys", n), About("drop", n)}
=============================================================================
