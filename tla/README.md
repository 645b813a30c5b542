# A verification of fux

fux is a terminal multiplexer written in Rust. One *server* keeps workspaces,
tabs and panes; every pane is a *process of its own* that runs a program and
holds its screen; every client of the server is served by another process of
its own, its *connection*. They talk over sockets. This directory holds TLA+
models of the parts of it that are hard to test, what TLC shows of them on
small instances, and what TLAPS proves of them for every instance.

Paths below are those of the repository; `server.rs` is
`src/fux-server/src/server.rs`, and so on.

## 1. The system

| Component | Where | State | Operations | What makes it correct |
|---|---|---|---|---|
| Journal | `journal.rs` | a ring of the last events, each numbered; `next`, `exhausted` | record, mark and truncate, readers' batches | what a reader is given happened, once, in order; what it is not given it is told of |
| Session: changes | `session.rs` (`transact`, `commit`, `roll_back`) | the open change, what it staged | begin, commit, roll back | a change is recorded before it is told, or never made |
| Session: panes | `session.rs`, `workspace.rs` | links, questions asked, answers | ask, tell, close, lose a pane | every question is answered once, truly |
| Session: views and tree | `session.rs`, `workspace.rs`, `view.rs` | workspaces in workspaces, tabs, panes; each client's place, focus and held button; sizes panes were told | open, move, swap, zoom, size, close, look elsewhere | every view looks at something there is; every pane is told its size; who is moved is told why |
| Server | `server.rs`, `wait.rs` | connections and their stages, tokens, deadlines | a turn: frames, waits, closes, scenes | requests answered in order, nobody waits for what is gone |
| Connection's process | `conn.rs` | frames, bodies, links to shown panes, errands, mirrors of screens | hear client, server and panes; paint; end | bodies reach panes; a client is told of its keys |
| Pane's process | `host.rs`, `pane.rs`, `process.rs`, `outer.rs` | program, screen, bodies, awaiting, captures held, respawn, timers | type, ask, drop, close, respawn, end | keys are written as asked; programs are ended |
| Links | `link.rs` | queues to and from each process, `stalled`, `later` | send, flush, take | in order; a process that reads nothing holds up nobody else |
| Run record | `record.rs`, `session.rs`, `socket.rs` | the record on disk, panes' sockets | write, take a run back | after a crash the next server finds every pane it started |
| Captures and copy mode | `capture.rs`, `copy.rs` | captures held, selections | hold, fetch, drop | a held capture is let go |
| Input, key maps | `input.rs`, `src/keymap.rs` | key tables, a prefix under way | key, paste | a key does one thing |
| Rendering | `render.rs` | none | compose a scene | pure function |
| Layout | `fux-wire/src/layout.rs` | a tree of splits and stacks, shares, each client's choice in each stack | split, stack, close, move, swap, resize, place | cells are covered once; borders come out where they are moved |
| Wire | `fux-wire/src` | a decoder's bytes | encode, decode | round trip |
| Client | `src/client.rs`, `src/client_state.rs` | terminal, prompts | attached loop | terminal restored |
| Terminal emulator | `fux-vt/src` | grid, history, parser | feed bytes | a screen as a terminal's |
| OS layer | `fuxix/src` | none | system calls | pure input and output |

How they interact: a client's bytes go to its connection's process, which
decodes them and sends *frames* to the server. A frame's text (a paste, the
keys of a request) stays with the connection as a numbered *body*; the server
tells each pane what is coming (`ToPane::Input`, `ToPane::Ask`) with a *token*,
and tells the connection to send the body to those panes (`ToConn::Deliver`)
under the same token. A pane tells the server what it did (`FromPane`): a body
it used up (`Retired`), an answer, the news its journal entries are made of.
What a change of the session journals is read by clients as batches from a
cursor.

The behaviours that are hard to test: the two ways a body and its word take to
a pane; a process that dies at any of those steps; a client that looks
elsewhere, or leaves, while its input is on its way; a request that asks
several panes of which some crash; a change that is undone after it pushed
entries out of the ring, started a process, sized or closed panes; a program
that ends while it is replaced; frames, words and answers that cross on a
connection that closes; workspaces that close upward under clients; a server that
crashes between the record, the process and the word of a change, and the next
one that takes back what it left; numbers that run out. `PROJECT.json` lists each under
"hazards", at its line, with the properties that would catch it going wrong.

## 2. The modules

| Module | Models |
|---|---|
| `Journal` | the ring, an open change and its undoing, clients' reads, the stop |
| `EventFeed` | what the journal promises its readers; `Journal` is shown to implement it |
| `Journal_proofs` | the proofs of `Journal`'s safety, and that it implements `EventFeed` |
| `Bodies` | typed and sent input, from connections through the server to panes |
| `Bodies_proofs`, `BodiesOrder_proofs` | the proofs of `Bodies`' safety, and of the order in which pastes are typed |
| `RunRecord` | a run over its servers' crashes: the record, changes undone, panes' processes taken back, the stop |
| `RunRecord_proofs` | the proofs of `RunRecord`'s safety |
| `PaneLife` | one pane's programs: output, end, respawn, closing, kills and timers |
| `PaneLife_proofs` | the proofs of `PaneLife`'s safety |
| `Conns` | clients' connections: stages, fences, waits, keys between clients, their ends |
| `Conns_proofs` | the proofs of `Conns`' safety |
| `Iteration` | what a loop comes to after so many rounds, used by the proofs about the operators that go over a sequence |
| `Trees` | a tab's layout as a tree, and what changes it |
| `Layout` | what a layout gives its panes on a screen, and resizing them |
| `Workspace` | workspaces, tabs and panes, clients' places among them, the sizes panes are told |
| `Workspace_proofs` | the proofs of where `Workspace`'s clients hold buttons, and of the sizes its panes are told |
| `MCJournal`, `MCBodies`, `MCRunRecord`, `MCLayout`, `MCWorkspace` | instances of them for TLC |

`Layout` and `Workspace` build on `Trees` (`Workspace` on what it says of what
a client is shown, `struct Shown`). The others meet where one process talks to
another: each models both ends of its own links, and takes what the other
modules show of their ends as what may come. `Bodies` takes a connection's
frames to come in order, which `Conns` shows of them; `Conns` takes a pane that
takes nothing more, or does again, at any time (`Stick`, `GoOn`), which is what
`Bodies`' and `PaneLife`'s panes may do; `RunRecord`'s program that ends at any
time is `PaneLife`'s.

A definition whose comment calls it a *mutant* is no part of a model. It is a
plausible bug of the definition after it; put in its place, the run of the
property beside it in `PROJECT.json` fails.

### Journal

State: `entries`, `next` and `exhausted` are the fields of `struct Journal`;
`mark` and `before` those of `struct Undo` that matter to it (`mark = None`
when no change is open); `reader` is each client's `Reader` and the stage of
its read. `log`, `heard` and `missed` are history.

* `Record` is `Journal::record`: `next` is the number the next entry is given,
  and `SeqMax` stands for `u64::MAX`. `Truncate` is `Journal::truncate`.
* `Batch` is `Reader::batch`, `Answered` is `Read::answer`, and `AnswerWait`
  the server's asking each wait for its answer (`Server::answer_waits`).
* `Begin`, `Commit` and `RollBack` are `Session::transact`'s. The server is one
  thread, so no read is answered while a change is open: `AnswerWait` and `Ask`
  have `mark = None` as a guard. That guard is the code's, by its being one
  call of one thread, and `NothingUndoneIsRead` fails without it.
* An event is the set of places it names (with the workspaces that hold them:
  `Journal::within`), those it closes, and whether it is the stop. Its kind and
  its JSON are left out.

### Bodies

State of four kinds of process and the links between them; the comment on each
variable names the field it is. `told`, `toPane` and `fromPane` are the links
between the server and the others, in order. `out` is what waits to be written
on a connection's links to the panes it shows (`End::out` of `Composer::sides`),
`wire` what is written on them and not read, `posts` the links made for one
body (`Errand::Post`), `loose` what was written on links since let go.

* Server: `TypeKey`, `Paste`, `SendKeys` and `Detach` are what
  `Server::take_frame` does with a frame of that kind, `AnswerWait`,
  `DropConn` and `SendScene` steps of `Server::turn`; `HearPane`, `PaneGone`
  and `ClosePane` are `Session::told`, `link_closed` with `pane_lost`, and
  `close_pane`.
* Connection: `HearServer` with `TakeDeliver`, `TakeScene` and `TakeClose`,
  `FlushSide`, `FlushPost`; `Close` is the orderly end, `Die` any other.
* Pane: `Handle` with one operator per word, `ReadSide` and `ReadLoose`
  (`Host::body`), `Program` (it ends, or is started again), `Finish`, `Crash`.

One token numbers an input and one question it: the code takes both from the
same counter. What is left out: a server's crash, focus and mouse reports
(which go as keys do), keys relayed to another client's connection, a link
whose reader is stopped.

### RunRecord

State: `disk` is the record's file and `socket` each pane's path; they outlive
a server. `server` says what the server does and `at` where its thread is in
it, since it may crash between any two steps. `tree`, `ids`, `links`,
`closing`, `undo` are fields of `Session`, of its `Parts` and of `struct Undo`;
`held` are the processes whose link the server holds open (`links` and
`ending`), `out` those with a `Close` queued. `proc` is each pane's process:
its state, whether its program runs, its link to a server and what it was sent
and has not read. `known`, `ever`, `killed`, `failed`, `bared` and `begun` are
history: what clients were told or asked, and which programs started.

A tree is a set of panes: workspaces, tabs and layouts are left out, but for
one thing. A tree names panes and `Parts::panes` holds their copies, which may
differ: a pane in the tree without a copy is `bare`.

* A change (`Session::transact`): `BeginMake`, `RecordMade`
  (`Session::start_pane`'s commit), `Spawn` and `Reach`
  (`socket::start_pane`), `SayBegin`, `NotBegun` and `Begun` (`Link::start`,
  `Session::linked`); `BeginKill` (`close_pane` of one pane, `remove_tab` of
  tabs); `Commit`, `RollBack`, and `Say`, when clients see what came of it. A
  server's thread does all of that in one call; the steps are apart because it
  may crash, and because pane processes go on meanwhile. `Record` is
  `Session::commit`: it may fail, whatever it is for.
* Outside a change: `News` (a program's end is told) and `Lost` (a process
  ended), then `Settle`; `Resettle` is a later settling that writes what one
  before could not; `Flush` writes a queued `Close`; `LetGo` is
  `Session::reap_ending` by way of `Server::serve_pane`.
* The stop: `UnrecordRun` and `Shutdown` (`Server::stop`), `Exit` (`finish`).
* `Crash`, and the next server: `Start`, `Take`, `TakeGone`, `Greet`, `Refuse`
  (`Session::resume`, `Link::take`), `Resume` and `Unrestored`
  (`Parts::restore`), `Fresh` (`serve`, `pin` and `waiting`: another run).
* A pane's process (`host.rs`, `serve`): `FirstWord`, `NoWord`, `HearClose`,
  `LinkLost`, `Unbind`, `Finish`, `ProgramEnds`, `Die`.

What is left out: the pinned executable, the server's own socket and its lock (one
server at a time is assumed), respawns, a process whose program is adopted by
the server, Windows' sockets, and a process that is stopped and neither reads
nor ends: a server waits for such a one's greeting, and a stop waits for it a
second.

### PaneLife

State: `host` is `struct Host` with what it holds (`Replacement`, `Dying`,
`killed`, the timers), as a record, since a handler of it does all it does in
one turn; the rest is what the system keeps of its programs: `leader` and
`jobs`, who `holds` a terminal, what it `wrote`, a `SIGCHLD` that waits
(`chld`). Programs act between any two turns.

* `Read`, `HungUp` and `UnreadDue` are `Host::read`'s outcomes, `Output`,
  `ReleaseFrame` and `ReadUnread` `Pane`'s reading within a budget and over a
  frame held back; `AfterTurn` looks at what no signal will say again.
* `Respawn` and `Close` are `Host::respawn` and `Host::close`; `Reap` is
  `Host::reap` with `process.rs`, `FireUnread`, `FireGrace` and `FireFrame`
  `Host::fire`, which fires only the soonest timer; `Finish` is the end of
  `serve`.
* Time is what has come due: a timer fires when it may.

### Conns

State: `client` is what each client sent, was told and may still do; `proc`
each connection's own process (`conn.rs`: the frame it wants next, its errand,
its backlog, the keys it is held back for, whether it lives); `srv` the
server's `Conn` of each with its `Stage`, as a record, since a turn of it is
one call; `up` (what each process said to the server) and
`coming` (bodies others sent it) are what is on the way.

* Server: `ServeConn` is `Server::read_conn` with `take_frame` for each frame
  of one round, `CONN_FRAMES` at most; `Turn` is the end of `Server::turn`:
  waits answered, connections closed, keys retired (`Server::retire`,
  `let_go`). `Request` and `OrderedRequest` are `Server::request` and
  `ordered_request`, `Answered` `Server::answered`. `Stop` and `StopOver` are
  the stop and its limit.
* Process: `Forward` and `TellShut` (`conn.rs`, `next_frame`), `HearServer`
  with `Told` (what the turn's words do as they come: `Urgent` and `LetsGo`)
  and then `Backlog` (what each word kept does: `Does`), `Carry`
  (`Errand::Keys`), `TakeBodies`, `Goes` its end. The loops over words are
  functions of how many were gone over (`Told`, `Backlog`, `Each`).
* A client opens, asks, acts, detaches, answers reads, shuts its side or goes.

### Trees and Layout

A tree is a function from ways (which child at each node) to nodes, so that no
definition recurses; `Trees` has what `enum Tree` and `struct Shown` do to it,
`Layout` what `place`, `resize`, `resize_to` and `neighbor` compute of it. Its
variable is one tab's tree, which every operation changes. Numbers are
unbounded: screens past what 16 bits hold are left out.

### Workspace

State: `parts` is `struct Parts`: what each workspace holds, what each client
is shown of it (`Stack::shown`), and each tab with its panes, zoom, fit, stored
size, and `seats` (each client's focus, and the pane it holds a button in).
`closing`, `closed` and `displaced` are `Parts::closing` and
`Parts::displaced`, empty between steps. `views` are the attached clients'
screens. `asked` is what `Pane::asked` says, `told` what its process was sent.

* Every step is a whole request or event, to its `settle`: `Transact` is
  `Session::transact`, whose record may fail to be written where `Unwritten`,
  and which then undoes all (`RollBack`).
* The actor, `here`, is a client or something outside; `Follow` is its
  following what it made or moved.
* A tab's layout is the order of its panes, and an area a number of cells, each
  of which shows a pane: `Layout` has the geometry, and all that is asked of it
  here is whether every pane shows and what each one's size depends on.

Left out: stacks within a tab, names, bells, who types, several workspaces made
at once, presses of a button that goes on to another pane's border.

## 3. The runs

| Run | Instance | Shows |
|---|---|---|
| `journal` | 2 entries kept, numbers 0 to 5, 1 place, 1 reader | `TypeOK`, `RingIsLogTail`, `NothingUndoneIsRead`, `GoneIsGone`, `KeepsItsPromise`, `EndedReadsAnswered` |
| `bodies_asking` | 1 asker, 2 panes, 1 request | `AnswersAreHonest`, `OnlyAskersAreAnswered`, `AskersAnswered` |
| `bodies_typing` | 1 attached client, 1 pane, 3 inputs | `TypingIsSound`, `PastesTyped` |
| `bodies_views` | 1 attached client, 2 panes, 1 input, 1 look elsewhere | `GoneTypeNothing` |
| `run_record` | 2 ids, 2 processes, 1 crash | `RunIsSound`, `NoIdIsGivenTwice`, `LostAreGone`, `NoRunBesideAnother`, `TakenBack`, `StopEndsAll` |
| `pane_life` | 2 programs, each writing once | `HostIsSound`, `ToldOnce`, `NothingLeftIsLost`, `ClosedLeavesNone`, `HangupsEnd`, `EndsAreTold` |
| `conns_asking` | 1 command, 1 attached client, anything asked but keys | `StagesAreSound`, `FencesHold`, `AsksEnd` |
| `conns_keys` | 1 command sending keys twice, 1 attached client, a stop | `KeysAreSound`, `EndsAreOrderly`, `DetachEnds`, `HeldBackGoesOn` |
| `layout` | 3 panes, 3 screens | `TilingIsSound`, `ResizesMoveBorders`, `ResizesToWhatFits`, `ChoicesStay` |
| `workspace_nests` | 2 panes, 2 tabs, 3 workspaces, 1 client | `SessionIsWhole`, `DisplacedAreTold` |
| `workspace_sizes` | 2 panes, 2 tabs, 1 workspace, 2 clients, screens of 3 sizes | `SizesFollow`, `HeldIsHere`, `OnlyClosingHides` |

A property named `...IsSound`, `...AreSound`, `ToldOnce`, `HangupsEnd`,
`EndsAreTold`, `EndsAreOrderly`, `ResizesMoveBorders` or `ChoicesStay` is the
conjunction of the named ones before it in its module.

*Journal.* `RingIsLogTail`: the ring is the consecutive tail of what was pushed
and not undone, which `partition_point` in `Journal::from` relies on.
`NothingUndoneIsRead`: no client holds an event or a cursor of a change undone.
`GoneIsGone`: a client is told its scope is gone only if it is.
`EndedReadsAnswered`: a read of something closed, or of a server stopped, is
answered with no deadline. `KeepsItsPromise` is `EventFeed`'s specification:
every event a scope wants is given to its reader in order, or counted as
missed, batch by batch. Two entries suffice for a change that evicts some and
one that evicts all of the ring; six numbers let a change be undone, made
again and reach the last number. One reader suffices as readers share nothing
but the ring.

*Bodies.* `AnswersAreHonest`: keys a client is told a pane took were written,
and those it is told were refused never are. `OnlyAskersAreAnswered`: the
server keeps no question and no answer for who does not wait for it.
`GoneTypeNothing`: what a connection that is gone left on its way to one pane
is typed no more once the pane heard so. `AskersAnswered`: a request of panes
is answered whatever crashes or closes. `PastesInOrder` (in `TypingIsSound`)
and `PastesTyped`: a client's pastes are typed in its order, and in the end. Inputs are bounded by
`MaxInputs` and looks elsewhere by `MaxViews`; crashes, closes and ends of
programs are not bounded. Three inputs are two pastes and what comes between
or behind them; two panes are what a request with several targets needs; the server
handles each pane and each connection apart, so more of them add no new case.

*RunRecord.* `KnownPanesAreTakenBack`: a pane a client was told of leaves the
run only as it was asked to close, or as a shell that ended, over any crash and
any record that could not be written. `NoIdIsGivenTwice`: no pane is made with
an id a client was ever told. `LostAreGone`: the server lets a pane's process
go (reads its pane as ended) only if it is ending. `NoRunBesideAnother`:
another run begins on the socket only once no process of the last one goes on.
`TakenBack`: a crashed server's run is taken back in the end, through the
refusals of panes that were ending, if its record is whole.
`EveryProcessIsHeld`: before any crash no process is left to itself, whatever
was undone. `StopEndsAll`: a stop ends every process, if no server of the run crashed and
no pane was ever left bare. Pane 1 is a shell's, which closes at its program's end, and pane 2 a
program's, which stays. One crash comes at any step of what the first server does; a server
that crashes as it takes a run back leaves what the first left, and
`RunTwice.cfg` checks the invariants over two crashes. Three processes for two
ids, which let an id be given again after its change was undone while another
pane lives, are checked by `RunAlone.cfg`, without crashes. How often
records fail, programs end and processes die is not bounded but by the number
of processes.

*PaneLife.* `EveryProgramIsHeld`: a program started is kept in exactly one
place until it is reaped, and in none after, so that none is a zombie for good
and none is killed by a number that may be another's. `ExitIsToldOnce` and
`RespawnsAnsweredOnce`: what happens once is said once. `NothingLeftIsLost`: a
respawn shows all that the old program had written before its own first byte.
`ClosedLeavesNone`: a pane fux closed leaves no process. `ClosedEnds`,
`DyingAreReaped`, `RespawnsEnd` and `ExitsAreTold`: each ends, or is told,
whatever the programs do. Two programs are one replaced and the one that
replaces it, and a respawn over a respawn; one write is enough to be read
before, or after, each of the steps of an end.

*Conns.* `EveryFrameFits`: each side decodes a frame as what it is, however far
its client is ahead. `FencesHold`: a fenced request runs after what it follows.
`AnswersInOrder`, `KeysAreHonest`, `HeldBackForASender`: what became of keys is
said truly and in order, and a client is held back only for keys that may still
come. `LastWordIsHeard` and `OnlyTheDoneEnd`: connections end with their last
word, and only the done ones. `AsksEnd`, `DetachEnds` and `HeldBackGoesOn`:
who asks is answered, who detaches is let go, who is held back goes on. A second
command would share nothing with the first but the client it sends keys to, whose
connection takes errands one at a time; one frame a round (`CONN_FRAMES` is more)
makes every interleaving of frames and turns there is.

*Layout.* `ScreensAreTiled`: no cell is two panes', and none is nobody's where
there is room. `ResizesAreExact` and `ResizesAdd`: a border moved by cells and
kept as shares comes out where it was moved, at once or in steps.
`ResizesToWhatFits`: `resize_to` gets a pane to a length exactly if the panes
about it leave it that (`Attainable`, which does not look at shares or borders).
`ClosingUndoes` and `ShownStay`: what comes and goes in a tree leaves every
other choice of a client alone. Three panes make every shape of a tree that
nests once, on two screens with an odd cell to share and one that is too small.

*Workspace.* `SessionIsWhole`: every pane, tab and workspace is in one place,
none is empty, and all a client is shown of each, or was before, is there.
`DisplacedAreTold`: whom a close moves is told of the outermost workspace that
closed, of every tab that did in it and of where it is now, and no one else is;
it is stated on the trees before and after, and not on what the code counts.
`SizesFollow`: every pane's process was told the size its place has now.
`HeldIsHere`: a button held goes to the pane it was pressed in.
`OnlyClosingHides`: once its panes all show, a tab's go on to, but where a
client comes whose own tab closed. Three workspaces are two that close at once,
one in the other, and one to be moved to; two clients are the smallest screen
and another, or the one that acts and one that does not.

`CHECK_DEADLOCK FALSE` is said in every run: the system really may stop, once
every client or pane is gone or a bound is reached.

One run shows where the code does not do what its comments say:

* `run_bare` (`RecordIsWhole`): a kill of a tab or a workspace whose record
  can't be written is undone without its panes' copies (`Session::remove_tab`
  keeps none, as `close_pane` does). The next record written names panes it
  does not hold, and no server can take that run back: `TakenBack` and
  `StopEndsAll` leave this case out, and say so.

The models reach more. Each is stated at the end of its module and has a
configuration of its own, which TLC finds violated (`tlc -config RunIds.cfg
MCRunRecord`, say); `PROJECT.json` lists one run per question that matters most, and not
these.

| Configuration | Property | What happens |
|---|---|---|
| `BodiesKeyFirst.cfg` | `TypedInOrder` | A key typed after a paste is written before it, when the paste's body comes later than the key's word. `tests/pressure.rs:162` says keys and pastes all arrive in order. |
| `BodiesLeft.cfg` | `BodiesAreLetGo` | A pane told to drop a token before its body came keeps the body when it comes, as long as the pane lives. |
| `BodiesRetired.cfg` | `EveryPaneTypesNothing` | The first pane to use a body up takes its token from the connection for all panes (`Server::retire`): if the connection goes then, another pane that awaits it is not told to drop it. |
| `RunFailed.cfg` | `FailedStaysUnmade` | Undoing a change may fail to write the record too, which is only logged. After a crash then, a pane is there whose making was told to have failed (`session.rs`, `transact`: "as though never made"). |
| `RunUnbegun.cfg` | `UnbegunIsFoundGone` | A pane's process started, and not yet reached as its server crashed, is not found gone (`session.rs`, `start_pane`): it listens, lets the next server go, and so refuses the run once. |
| `RunIds.cfg` | `PaneIdsStayTrue` | A change undone gives back the id of a pane whose program has started with it as its `FUX_PANE` (`fux-wire/src/id.rs`: "not given twice"). |
| `BodiesDetach.cfg` | `ClosedOnceSent` | A connection's process that closes waits for its errands, not for what waits on its links to panes it shows, though the comment in `conn.rs` says what it sends panes is sent too. |
| `RunLeft.cfg` | `NoneIsLeft` | A crash after a record without a pane and before that pane's `Close` is written leaves its process waiting; the run's stop, later, ends the panes it knows and not that one. |
| `RunSlots.cfg` | `EndedAreLetGo` | While two links have one id (a pane's, and one ending of a pane undone), the one ending is never read, nor let go. |
| `RunScarce.cfg` | `LostAreGone` | With `Scarce`: on Unix any failure to connect says a pane's process is gone, one for want of a descriptor too (`none_listens`; `link.rs`, `Untaken::Gone`). |
| `PaneEndless.cfg` | `DyingAreReaped` | With `Endless`: jobs that never stop writing keep the soonest timer theirs, and a program told to end is not killed when its grace is over. |
| `ConnsLost.cfg` | `AsksEnd` | A command that sends keys to a client that detaches as they come may have no answer: the body it carried came to a connection that closed, and no one says what became of it. |
| `ConnsShut.cfg` | `ShutClientsAreAnswered` | A command that shuts its side as it waits is let go without its answer. |
| `ConnsBodies.cfg` | `BodiesAreWanted` | A `Drop` taken before the body it is about leaves that body with the client's connection. |
| `ConnsStays.cfg` | `HeldBackGoesOn` | A command that stays, its keys refused, holds its client back as long as it does. |
| `LayoutFocus.cfg` | `FocusReaches` | Four panes: moving focus by the four ways does not reach every pane from every other. |
| `WorkspaceRoom.cfg` | `NothingHides` | A move that closes its tab takes another client of it along, whose smaller screen was not asked (`session.rs`, `room`: "So a split or a move hides no pane"). |
| `WorkspaceUnwritten.cfg` | `SizesFollow` | With `Unwritten`: a change undone has asked for sizes it then does not tell (`Pane::ask_size` is not undone); as the same size is asked for again it is taken to be told (`size_panes`: "Each pane is told a size it was not told yet"; `transact`: "as though never made"). |

### Fairness

`Journal`: a change ends (it is one call of the server's thread), and the
server asks every wait for its answer in each turn. That is strong fairness:
a read's answer is asked for between changes, and changes may be open in
between. No deadline is needed to pass.

`Bodies`: weak fairness of every process's loop: it hears what it is sent,
writes what it has and gives each wait its answer. `DropConn` is fair only for
a connection whose process is gone. Nothing is fair of clients, programs,
crashes or requests. A pane that crashed is noticed (`PaneGone`), as its link
closes. `PastesTyped` assumes that its client stays, looks at one pane and that
programs go on (`Steady`).

`RunRecord`: weak fairness of every process's loop and of the server's, which
does what it began, reads what ended and writes what is queued. A crashed
server is started again (`Start` in `TakesBack`), as the next `fux` started on
the socket does; `TakenBack` says nothing of a run nobody starts again. A stop
that was asked for is strongly fair: it goes before what clients ask next in
every turn (`Server::turn`), though changes may come in between. Nothing is
fair of crashes, clients, programs or processes that die.

`PaneLife`: weak fairness of what the host does (it polls, reads, fires what is
due), of what was killed (it ends), of a grace that is over. A program is not
made to end, nor to close its terminal.

`Conns`: whoever has work does some of it in the end (`HaveWork`, `Loops`:
every loop is one that a poll wakes, and none waits for another to be idle),
which says for all of the loops what weak fairness of each would; a client
answers the read it was asked, what a request waits for comes, and a pane that
is stuck goes on. Nothing is fair of what clients ask, of the stop, or of who
goes.

`Layout` and `Workspace` state no liveness.

## 4. The proofs

What the proofs assume of the constants is what the modules' `ASSUME`s say,
which the runs evaluate: bounds are natural numbers (the ring keeps at least
one entry, a pane has at least one program), the sets of model values do not
meet, `None` and `NoRecord` are none of what they stand beside. Nothing is
assumed of how many panes, processes, programs, readers, events or crashes
there are, but that the panes of `Bodies` are finitely many, and the
workspaces of `Workspace` (a tree is as deep as there are of them).

### Journal

`Journal_proofs` proves, for every ring size, largest number, set of places
and set of readers:

* `TypeCorrect`: `Spec => []TypeOK`
* `RingHolds`: `Spec => []RingIsLogTail`
* `ReadersKeepHistory`: `Spec => []NothingUndoneIsRead`
* `GoneHolds`: `Spec => []GoneIsGone`
* `PromiseKept`: `Spec => KeepsItsPromise`, the refinement of `EventFeed`

The first three are parts of an inductive invariant, `IInv` (`IInvHolds`),
which adds two facts to them: that an open change began at or before `next`
(`MarkIsPast`), without which undoing it would not leave the ring the log's
tail; and that a reader that never asked was given nothing
(`NewReadersAreIdle`), without which it could begin anywhere. The lemmas say
what recording (`RecordKeepsTail`) and undoing (`UndoKeepsTail`) do to the
ring, and what a batch gives (`BatchReadsLog`); one lemma per action then
keeps `IInv`.

`GoneIsGone` is not inductive even beside `IInv`: a batch that ends at a close
tells the reader its scope is gone from the entry alone, not from the places.
`GoneInv` adds that no place an entry of the log closes is there again
(`PlacesStayClosed`), in the places before an open change too.

`PromiseKept` maps each action to a step of the abstract feed or a stutter,
from `IInv` at both ends of the step: what is recorded appends to the log,
what is undone removes its tail only past what any reader heard, and what a
reader is given is what the log holds from its cursor on.

### PaneLife

`PaneLife_proofs` proves, for every number of programs, turns and writes,
for shells and other programs (`Shells`), endless ones among them (`Endless`):

* `HostSound`: `Spec => []HostIsSound` (types, and `EveryProgramIsHeld`)
* `SaidOnce`: `Spec => []ToldOnce`
* `NothingLeftBehind`: `Spec => []NothingLeftIsLost`
* `ClosedPanesLeaveNone`: `Spec => []ClosedLeavesNone`

A handler of a pane's process is a chain of operators on the host's record, so
the invariant is one of a host and its programs' states, `Good(h, l)`, kept by
each operator in turn, and `IInv` is `Good(host, leader)`. None of the four
holds inductively. That a program is held once (`HeldOnce`) needs what the
fields may hold together (`FieldsApart`: a respawn's program is the next, the
one it replaces is still read, a closed pane has none), and in which order
programs are started (`StartedInOrder`). That exits are told once needs that
what is to be told is the pane's own program's, ended (`ToldAsItEnds`). That
nothing of an old program's is lost needs that it is still read while owed
(`NothingLost`). That a closed pane leaves none needs that what fux ends is
known to be swept before it is killed (`FuxsAreKnown`). The lemmas
`AlikeKeepsGood`, `WaitIsAlike` and the like carry all of it over the operators
that change none of it.

### Bodies

`Bodies_proofs` proves, for every set of typists and askers, every finite set
of panes and every number of inputs:

* `TypeCorrect`: `Spec => []TypeOK`
* `AnswersHonest`: `Spec => []AnswersAreHonest`
* `OnlyAskersHold`: `Spec => []OnlyAskersAreAnswered`
* `NothingTypesLate`: `Spec => GoneTypeNothing`

and `BodiesOrder_proofs`, from these:

* `TypingSound`: `Spec => []TypingIsSound` (types, and `PastesInOrder`)

Panes are taken to be finitely many (`PanesAssumption`): letting a connection
go numbers each pane's drops, one after another.

The inductive invariant `IInv` (`IInvHolds`) begins with types over the inputs
made so far (`TypesHold`, `Given`): what `TypeOK` says of every number up to
the bound is not enough, as a word of an input not yet made could come before
it. What panes say is honest only as they type nothing twice and nothing they
refused: so `PanesSound` says that words that type go to a pane with rising
numbers (`WordsRise`), later than all it wrote or awaits (`NewestLast`), that
they are for it and are what was typed (`AsAsked`), and that what it says of an
input that is done is so and that the input is not pending there any more
(`Honest`). `RepliesSound` says the same of what the server took in.
`GoneTypeNothing` is a property of steps; what makes it so is `DropsFollow`:
what one pane may type yet is noted as its connection's in the server's
tokens, or a drop or the close is on its way to the pane, or the pane takes no
input any more. That needs `LinksSound`: the server gives up a link only to a
pane that was told to close, or is gone, so that no drop it leaves untold is
needed.

What a step does to one pane is said once, as `Steps(p)`: every action is one
of six cases at each pane (`NextSteps`), and it types at most one input, which
was pending and is not after (`StepsSettle`). The parts of `IInv` about panes
are kept from that alone.

That a paste is typed after those before it (`PastesInOrder`) has little to do
with the panes' words: it needs that bodies keep their order on each way they
take, and that a client's take one way. `OrderInv` (`OrderInvHolds`) adds to
`IInv` that what a connection's process is told to send, what waits on a link,
what is written on it and what was left on a link let go each rise, each after
the next (`WaysSound`); that a client that has not looked elsewhere types for
one pane, which its process shows while it and the pane last, so that none of
its bodies goes on a link of its own (`Watches`); that what it left on a link
let go is on one, its process gone (`LeftIsOne`); and that its pastes that came
are before all that is on its way (`ArrivesInOrder`). What a step does to all
of these ways is again said once (`WaysGo`, `Arrives`, `NextWays`,
`NextArrives`). TLC checked `OrderInv` on `BodiesTyping.cfg`'s instance.

### RunRecord

`RunRecord_proofs` proves, for every number of ids, processes and crashes and
every set of shells:

* `TypeCorrect`: `Spec => []TypeOK`
* `IdsAreNew`: `Spec => []NoIdIsGivenTwice`
* `ProcessesAreHeld`: `Spec => []EveryProcessIsHeld`

and, where no connect to a process that listens is refused (`~Scarce`):

* `RunSound`: `Spec => []RunIsSound`
* `LostGone`: `Spec => []LostAreGone`
* `NoneRunsBeside`: `Spec => []NoRunBesideAnother`

`~Scarce` is needed: `RunScarce.cfg` shows `LostAreGone` violated without it.

There are two inductive invariants. `IInv` (`IInvHolds`) says what the server
holds, in each of its places: which of its variables are as they began when
there is none or it only begins (`Absent`), that ids told or recorded are not
beyond the last given, in the session and in the change it may go back to
(`IdsGoOn`), that what listens is at its pane's path (`FoundAtItsPath`), which
words may wait for a process (`WordsInOrder`), and that each link, of now
(`LinksAreHeld`), of an open change (`UndoIsHeld`) and of what it closes
(`ClosingIsHeld`), is to a process of its pane that was not told to close;
while no server crashed, these are all that live (`AllAreHeld`). An id that
was never told may be given twice (`PaneIdsStayTrue` fails), so that
`NoIdIsGivenTwice` speaks of the ones told, and needs the record's last id
beside the session's.

`TakenInv` (`TakenInvHolds`, beside `IInv`) is what survives servers: a process
that has yet to start is awaited, or is one of a recorded pane no client was
told of (`StartsAreAwaited`); the only process of a pane that lives is the one
it is linked to, in the tree of now and in the one to go back to
(`PanesAreLinked`); and what clients know of and was not asked to close, nor a
shell that ended, is in the tree, in the tree to go back to and in the record,
and while a run is taken back in what was taken or is still to be
(`KnownAreKept`). The last needs all three trees: a crash leaves the record
alone, a failed write goes back to the undo's tree, and the next crash may come
before that one is recorded.

Both were checked by TLC on `RunRecord.cfg`'s instance before they were proved.

### Workspace

`Workspace_proofs` proves, for every set of panes, tabs and clients, every
finite set of workspaces and every screen:

* `PanesAreApart`: `Spec => []Apart(parts.tab)`, a part of `TreeIsWhole`
* `HeldStaysHere`: `Spec => []HeldIsHere`

and, where every record is written (`~Unwritten`):

* `SizesAreFollowed`: `Spec => []SizesFollow`

`~Unwritten` is needed: `WorkspaceUnwritten.cfg` shows `SizesFollow` violated
without it.

Every step makes a tree and settles it, so there are two invariants, one of
each. A tree that is made is `Sound(s, was)`, of one whose tabs were `was`: a
tab that says it did not change (`changed`) has the panes, zoom and size it had
(`SameSizes`), and what is held in it is what its clients focus (`TabSound`).
Each operation of `Parts` keeps that, tab by tab, whatever it does to the
workspaces above (`SameTabs`). A settled session (`IInv`, `IInvHolds`) adds
that every tab has the size its clients give it, though only the tabs some
client sizes or that changed are sized again (`TabSettled`); that what each
pane with a place was asked is its size there (`AskedOfTab`); and that it was
told what it was asked. Two things are not by tab. A pane that moves is in two
tabs for a while (`Parts::relocated` takes it in before its tab lets go), so
that `ApartBut` stands for `Apart` in between. And a pane of a tab that changes
nothing is asked nothing, so its place may only be one tab's: that needs
`Apart`.

TLC checked `IInv` on `WorkspaceSizes.cfg`'s instance before it was proved.

### Conns

`Conns_proofs` proves, for every number of connections, of asks and acts, and
of frames taken at once:

* `InvariantHolds`: `Spec => []IInv`
* `StagesSound`: `Spec => []StagesAreSound` (types, and `EveryFrameFits`)
* `FencesAreHeld`: `Spec => []FencesHold`
* `EndsOrderly`: `Spec => []EndsAreOrderly` (`OnlyTheDoneEnd`, `LastWordIsHeard`)

That every frame fits is not inductive: what a frame is decoded as is told in
words that cross it. `IInv` numbers what a client sends: its opening is up to 0,
what it asks or does from 1 on, so that what a frame is follows from its number
(`Right`, `Numbered`). The last frame its process took and the last its server
has (`Pos`, `At`) are counted back from what it sent by what is on the way. Then
a connection's stage, what its process wants and what it is still to be told
to expect go together with these numbers (`Lined`, `Wanted`, `Words`): at most
one word to expect is on its way, and none where the process already wants what
it says. `Fenced` says that the fence of a request that ran is of frames its
source had processed; with the numbers, none of these is on its way, which is
`FencesHold`.

A handler of the server goes over its frames, then over every connection, so
what each does to one connection is said once: `Onward` (it gives up its frames
or keeps them, and is told more), `Ends` (it is told to close only after its
last word), `Lives` (a command's that still reads is not ended), and their
conjunction `Fares`; taking a frame is `Served`'s own. What a process makes of
the words it is told is a function over them; `Iteration` gives what such a
function is (`Iterates`) and lets a fact climb along it (`Climbs`).

`EndInv` is about a connection whose client still reads and writes: where a
close is on its way, in what the process is told, keeps or is to write, the last
word is ahead of it or was had (`Ordered`); a command's has no close on its way
while the server serves (`Living`). It needs the order across all three, as words
held back for keys are kept while those after them come, and as words let go
(`Shortened`) are taken out in between. Where a stopping server's time runs out
(`StopOver`) it says no more than that the client has not shut, as the code does
not either.

TLC checked `IInv` and `EndInv` on the instances of `ConnsAsking.cfg` and
`ConnsKeys.cfg` before they were proved.

### Only model-checked

Liveness (`EndedReadsAnswered`, `AskersAnswered`, `PastesTyped`, `TakenBack`,
`StopEndsAll`, `HangupsEnd`, `EndsAreTold`, `AsksEnd`, `DetachEnds`,
`HeldBackGoesOn`), which the prover does not do under fairness; `KeysAreSound` of
`Conns` and all of `Layout` so far; and of `Workspace`, `SessionIsWhole` but for
`PanesAreApart`, `DisplacedAreTold` and `OnlyClosingHides`: these are about the
way from the top down to what a client is shown, which is recursive.

## 5. The plan

Done, in this order: `Journal` with `EventFeed`, its proofs; `Bodies`;
`RunRecord`; `PaneLife`; `Conns`; `Trees` and `Layout`; `Workspace`.

Next, in this order:

1. `RunPromise`: an abstract specification of a run that outlives its servers
   (its panes, the ids it gave), and `RunRecord` shown to implement it where
   records are whole. `Bodies` over a server's crash: questions numbered from 0
   again while panes hold what the last server numbered.
2. `LinkFlow`: links that are stalled, what waits behind, updates taken.
3. `FlatLayout`: a layout's flat form and reading it back (`from_nodes`).
4. The client's attached loop (`src/client.rs`), and key sequences under way
   (`src/keymap.rs`).

To prove: `KeysAreSound` of `Conns`; that `Show` and `Keep` of `Trees` give what is there, and
`ChoicesStay` of `Layout`; that no place of `Workspace`'s tree is empty.

## 6. Not modelled

`PROJECT.json` lists every component. Left out for good: rendering, the
terminal emulator's grid, encodings (large pure functions of text, where a
bounded instance shows little that the repository's own tests and fuzzers do
not), the operating system's layer (what its callers use of it is modelled
where they do), benchmarks, fuzzers and examples.

Of the modelled components, what is left out: of `PaneLife`, Windows' settling
of a pseudoconsole, programs adopted by the server, respawns refused as they
start, signals asked for; of `Conns`, frames that can't be decoded, replies
that can't be held in memory, partial writes, resizes, spare connections and
accepting, scenes and captures; of `Layout`, the flat form (`from_nodes`) and
16-bit limits; of `Workspace`, see there. `Workspace` restores nothing from a
record, which `RunRecord` does with its own, smaller tree.
