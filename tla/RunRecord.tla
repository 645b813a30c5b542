------------------------------ MODULE RunRecord ------------------------------
(***************************************************************************)
(* A run that outlives its servers.  A server writes the run's record (its *)
(* tree of panes, and the last id it gave) whole before any change of it   *)
(* is told, undoes a change whose record can't be written, and starts a    *)
(* pane's process only once the pane is in the record (session.rs,         *)
(* record.rs).  It may crash between any two steps; the panes' processes   *)
(* (host.rs) then wait on sockets of their own, and the next server takes  *)
(* back what the record names (Session::resume, Link::take).               *)
(*                                                                         *)
(* A pane is its id.  A process is the number of its start, so that two    *)
(* processes of one id are told apart.  0 is no pane, no process.          *)
(***************************************************************************)
EXTENDS Naturals, Sequences, FiniteSets

CONSTANTS
    MaxId,          \* bound: the last pane id given
    MaxProcs,       \* bound: how many processes are started
    MaxCrashes,     \* bound: how often a server crashes
    Shells,         \* the ids whose panes are shells, which close at their end
    Scarce,         \* whether a server taking a run back may be refused a
                    \* connect (no descriptor left, say)
    NoRecord

ASSUME BoundsAssumption == {MaxId, MaxProcs, MaxCrashes} \subseteq Nat
ASSUME ShellsAssumption == Shells \subseteq Nat
ASSUME ScarceAssumption == Scarce \in BOOLEAN
ASSUME NoRecordAssumption ==
    NoRecord \notin [ids : Nat,
                  tree : [1..MaxId -> {"none", "runs", "ended", "bare"}]]

Ids == 1..MaxId
Procs == 1..MaxProcs

VARIABLES
    \* What outlives a server: files beside its socket.
    disk,       \* the record (`run`): Ids and tree; NoRecord if there is none
    socket,     \* the process last bound at each pane's path; 0 if no file
    \* The server.
    server,     \* "taking" a run back, "serving", "stopping"; no server:
                \* "down" (it crashed), "over" (it stopped); "fresh", another
                \* run began
    at,         \* where its thread is within that
    tree,       \* Parts: whether each pane placed in it "runs" or "ended", as
                \* its copy says, or is "bare": it has none
    ids,        \* Ids::pane: the last id given
    links,      \* Session::links: each pane's process
    made,       \* the pane a change makes
    closing,    \* Session::closing: links of panes it closes
    undo,       \* Undo: the tree, ids and links before it, and `stop`; and
                \* `bare`, the panes whose copies it does not keep
    peer,       \* the process it starts or takes back, waited for
    todo,       \* the recorded panes not yet taken back
    held,       \* processes whose link it holds (links, Session::ending)
    out,        \* of them, those a Close is queued for
    stop,       \* Outgoing::Shutdown is in its outbox
    crashes,
    \* The panes' processes.
    proc,
    \* History.
    known,      \* panes clients were told of, and not that they closed
    ever,       \* panes clients were ever told of
    killed,     \* panes clients asked to close
    failed,     \* panes whose making failed, as the one who asked was told
    bared,      \* panes ever left bare
    begun       \* processes whose program started

files == <<disk, socket>>
change == <<made, closing, undo>>
session == <<tree, ids, links, stop>>
ends == <<held, out>>
history == <<known, ever, killed, failed, bared, begun>>
vars == <<files, server, at, session, change, peer, todo, ends, crashes, proc,
          history>>

NoTree == [p \in Ids |-> "none"]
NoLinks == [p \in Ids |-> 0]
NoUndo == [tree |-> NoTree, ids |-> 0, links |-> NoLinks, stop |-> FALSE,
           bare |-> {}]
NoProc == [id |-> 0, state |-> "none", runs |-> FALSE, link |-> "none",
           word |-> <<>>]

\* A tree's panes, and those it has a copy of (Parts::panes).
Held(t) == {p \in Ids : t[p] # "none"}
Copies(t) == {p \in Held(t) : t[p] # "bare"}
Now == [ids |-> ids, tree |-> tree]
\* Of a process: "starting" (it has not read its first word), "open" (begun),
\* "closed" (it read Close), "ending" (and removed its socket), "gone".
Is(n, states) == n # 0 /\ proc[n].state \in states
Alive(n) == Is(n, {"starting", "open", "closed", "ending"})
\* A process listens at p's path: a connect there succeeds.
Listens(p) == Is(socket[p], {"starting", "open", "closed"})

Init ==
    /\ disk = NoRecord /\ socket = NoLinks
    /\ server = "serving" /\ at = "idle"
    /\ tree = NoTree /\ ids = 0 /\ links = NoLinks /\ stop = FALSE
    /\ made = 0 /\ closing = {} /\ undo = NoUndo
    /\ peer = 0 /\ todo = {}
    /\ held = {} /\ out = {}
    /\ crashes = 0
    /\ proc = [n \in Procs |-> NoProc]
    /\ known = {} /\ ever = {} /\ killed = {} /\ failed = {}
    /\ bared = {} /\ begun = {}

-----------------------------------------------------------------------------
(* A change (Session::transact).  The server's one thread does it whole,   *)
(* but may crash between its steps.                                        *)

Idle == server = "serving" /\ at = "idle"

\* Mutant of Record: a record that can't be written holds nothing up.
RecordUnchecked(then, else) == disk' \in {disk, Now} /\ at' = then

\* The record is written whole, or can't be and stays (record::write).  One
\* that says what it said is not written; what else it holds (sizes, names,
\* layouts) may have changed, so a write may fail though Now = disk.
Record(then, else) ==
    \/ disk' = Now /\ at' = then
    \/ UNCHANGED disk /\ at' = else

Begin(bare) ==
    undo' = [tree |-> tree, ids |-> ids, links |-> links, stop |-> stop,
             bare |-> bare]

\* A pane is made: placed at the next id.
BeginMake ==
    /\ Idle
    /\ ids < MaxId
    /\ Begin({})
    /\ made' = ids + 1
    /\ ids' = made'
    /\ tree' = [tree EXCEPT ![made'] = "runs"]
    /\ failed' = failed \ {made'}
    /\ at' = "record"
    /\ UNCHANGED <<files, server, links, stop, closing, peer, todo, ends,
                   crashes, proc, known, ever, killed, bared, begun>>

\* Session::start_pane: it is recorded first.
RecordMade ==
    /\ server = "serving" /\ at = "record"
    /\ Record("spawn", "undo")
    /\ UNCHANGED <<socket, server, session, change, peer, todo, ends, crashes,
                   proc, history>>

\* socket::start_pane: a path a process listens at is refused; else its
\* process is bound there and started, or can't be.
Spawn ==
    /\ server = "serving" /\ at = "spawn"
    /\ \/ /\ Listens(made)
          /\ at' = "undo"
          /\ UNCHANGED <<socket, peer, proc>>
       \/ /\ ~Listens(made)
          /\ at' = "undo"
          /\ socket' = [socket EXCEPT ![made] = 0]
          /\ UNCHANGED <<peer, proc>>
       \/ /\ ~Listens(made)
          /\ \E n \in Procs :
                /\ proc[n] = NoProc
                /\ \A m \in Procs : m < n => proc[m] # NoProc
                /\ proc' = [proc EXCEPT ![n] = [NoProc EXCEPT !.id = made,
                                                !.state = "starting"]]
                /\ socket' = [socket EXCEPT ![made] = n]
                /\ peer' = n
          /\ at' = "reach"
    /\ UNCHANGED <<disk, server, session, change, todo, ends, crashes,
                   history>>

\* The server reaches it: the first to, so its server.
Reach ==
    /\ server = "serving" /\ at = "reach"
    /\ IF Alive(peer)
       THEN /\ proc' = [proc EXCEPT ![peer].link = "up"]
            /\ held' = held \union {peer}
            /\ at' = "begin"
       ELSE at' = "undo" /\ UNCHANGED <<proc, held>>
    /\ UNCHANGED <<files, server, session, change, peer, todo, out, crashes,
                   history>>

\* Link::start: its first word.
SayBegin ==
    /\ server = "serving" /\ at = "begin"
    /\ IF Alive(peer)
       THEN /\ proc' = [proc EXCEPT ![peer].word = <<"begin">>]
            /\ at' = "wait"
            /\ UNCHANGED held
       ELSE at' = "undo" /\ held' = held \ {peer} /\ UNCHANGED proc
    /\ UNCHANGED <<files, server, session, change, peer, todo, out, crashes,
                   history>>

\* It did not begin: its change is undone (Session::unrecorded).
NotBegun ==
    /\ server = "serving" /\ at = "wait"
    /\ Is(peer, {"gone"})
    /\ held' = held \ {peer}
    /\ at' = "undo"
    /\ UNCHANGED <<files, server, session, change, peer, todo, out, crashes,
                   proc, history>>

\* It began, and told its first facts (Session::linked): its program may have
\* ended by then, and a shell's pane closes.
Begun ==
    /\ server = "serving" /\ at = "wait"
    /\ Is(peer, {"open"})
    /\ IF proc[peer].runs
       THEN links' = [links EXCEPT ![made] = peer] /\ UNCHANGED <<tree, closing, stop>>
       ELSE IF made \in Shells
       THEN /\ tree' = [tree EXCEPT ![made] = "none"]
            /\ closing' = {peer}
            /\ stop' = (stop \/ Copies(tree') = {})
            /\ UNCHANGED links
       ELSE /\ links' = [links EXCEPT ![made] = peer]
            /\ tree' = [tree EXCEPT ![made] = "ended"]
            /\ UNCHANGED <<closing, stop>>
    /\ at' = "commit"
    /\ UNCHANGED <<files, server, ids, made, undo, peer, todo, ends, crashes,
                   proc, history>>

\* Panes are closed (Session::kill): one, its copy kept to be put back
\* (close_pane), or those of tabs, whose copies are not (remove_tab).
BeginKill ==
    \E S \in (SUBSET Held(tree)) \ {{}}, one \in BOOLEAN :
        LET had == S \intersect Copies(tree) IN
        /\ Idle
        /\ one => Cardinality(had) = 1 /\ S = had
        /\ Begin(IF one THEN {} ELSE had)
        /\ tree' = [p \in Ids |-> IF p \in S THEN "none" ELSE tree[p]]
        /\ links' = [p \in Ids |-> IF p \in had THEN 0 ELSE links[p]]
        /\ closing' = {links[p] : p \in had} \ {0}
        /\ stop' = (stop \/ Copies(tree') = {})
        /\ killed' = killed \union S
        /\ at' = "commit"
        /\ UNCHANGED <<files, server, ids, made, peer, todo, ends, crashes,
                       proc, known, ever, failed, bared, begun>>

\* Session::commit, at the change's end; its closes are told its panes.
Commit ==
    /\ server = "serving" /\ at = "commit"
    /\ Record("say", "undo")
    /\ IF at' = "say"
       THEN out' = out \union closing /\ closing' = {}
       ELSE UNCHANGED <<out, closing>>
    /\ UNCHANGED <<socket, server, session, made, undo, peer, todo, held,
                   crashes, proc, history>>

\* Mutant of RollBack: the process of the pane it made is not closed.
RollBackUnclosed ==
    /\ server = "serving" /\ at = "undo"
    /\ tree' = [p \in Ids |-> IF p \in undo.bare THEN "bare" ELSE undo.tree[p]]
    /\ ids' = undo.ids /\ stop' = undo.stop /\ links' = undo.links
    /\ closing' = {}
    /\ killed' = killed \ (Held(tree') \ Held(tree))
    /\ bared' = bared \union undo.bare
    /\ disk' \in {disk, Now'}
    /\ at' = "refuse"
    /\ UNCHANGED <<socket, server, made, undo, peer, todo, ends,
                   crashes, proc, known, ever, failed, begun>>

\* Session::roll_back: the tree, ids and links as they were, the pane it made
\* closed; then the record, as it was, if it can be written.  The copies of a
\* tab's panes are gone.
RollBack ==
    /\ server = "serving" /\ at = "undo"
    /\ tree' = [p \in Ids |-> IF p \in undo.bare THEN "bare" ELSE undo.tree[p]]
    /\ ids' = undo.ids /\ stop' = undo.stop /\ links' = undo.links
    /\ out' = out \union ({peer} \intersect held)
    /\ closing' = {}
    /\ killed' = killed \ (Held(tree') \ Held(tree))
    /\ bared' = bared \union undo.bare
    /\ disk' \in {disk, Now'}
    /\ at' = "refuse"
    /\ UNCHANGED <<socket, server, made, undo, peer, todo, held,
                   crashes, proc, known, ever, failed, begun>>

\* What the tree is, is told: a change's answer, the journal's readers, who
\* lists it; or that the change failed.
Say ==
    /\ server = "serving" /\ at \in {"say", "refuse"}
    /\ known' = Held(tree)
    /\ ever' = ever \union known'
    /\ failed' = IF at = "refuse" THEN failed \union ({made} \ {0}) ELSE failed
    /\ made' = 0 /\ peer' = 0 /\ undo' = NoUndo
    /\ at' = "idle"
    /\ UNCHANGED <<files, server, session, closing, todo, ends, crashes, proc,
                   killed, bared, begun>>

-----------------------------------------------------------------------------
(* Outside a change.                                                       *)

\* Pane p's program ended: a shell's pane closes, a program's stays
\* (Session::program_ended); `lost` if its process did (pane_lost).  Of a pane
\* with no copy nothing is told.
Ended(p, lost) ==
    LET had == p \in Copies(tree)
        closes == had /\ p \in Shells IN
    /\ tree' = [tree EXCEPT ![p] = IF closes THEN "none" ELSE IF had THEN "ended" ELSE @]
    /\ links' = IF closes \/ lost THEN [links EXCEPT ![p] = 0] ELSE links
    /\ out' = IF closes /\ ~lost THEN out \union {links[p]} ELSE out
    /\ held' = IF lost THEN held \ {links[p]} ELSE held
    /\ stop' = (stop \/ (closes /\ Copies(tree') = {}))
    /\ at' = "settle"

\* Pane p tells its program's end (Session::told).
News(p) ==
    /\ Idle
    /\ tree[p] = "runs"
    /\ Is(links[p], {"open"})
    /\ ~proc[links[p]].runs
    /\ Ended(p, FALSE)
    /\ UNCHANGED <<files, server, ids, change, peer, todo, crashes, proc,
                   history>>

\* Pane p's own process is gone (Session::gone, pane_lost).
Lost(p) ==
    /\ Idle
    /\ Is(links[p], {"gone"})
    /\ Ended(p, TRUE)
    /\ UNCHANGED <<files, server, ids, change, peer, todo, crashes, proc,
                   history>>

\* Session::settle: a record that can't be written stays as it was.
Settle ==
    /\ server = "serving" /\ at = "settle"
    /\ Record("say", "say")
    /\ UNCHANGED <<socket, server, session, change, peer, todo, ends, crashes,
                   proc, history>>

\* It settles after every event, so such a record may be written later.
Resettle ==
    /\ Idle
    /\ disk' = Now
    /\ UNCHANGED <<socket, server, at, session, change, peer, todo, ends,
                   crashes, proc, history>>

Polls == at \in {"idle", "say", "refuse", "ending"}

\* Server::flush_links: a queued Close is written.
Flush(n) ==
    /\ Polls
    /\ n \in out
    /\ out' = out \ {n}
    /\ proc' = IF Alive(n) THEN [proc EXCEPT ![n].word = Append(@, "close")]
               ELSE proc
    /\ UNCHANGED <<files, server, at, session, change, peer, todo, held,
                   crashes, history>>

\* Mutant of LetGo: what is queued for it stays.
LetGoQueued(n) ==
    /\ server \in {"serving", "stopping"} /\ Polls
    /\ n \in held /\ Is(n, {"gone"})
    /\ links[proc[n].id] = 0
    /\ held' = held \ {n}
    /\ UNCHANGED <<files, server, at, session, change, peer, todo, out,
                   crashes, proc, history>>

\* The link of a closed pane's process is seen to close, and let go
\* (serve_pane, reap_ending).  A slot is a pane's id: what comes on a link of
\* an id is looked for on its pane's link, then on the first one ending.
LetGo(n) ==
    /\ server \in {"serving", "stopping"} /\ Polls
    /\ n \in held /\ Is(n, {"gone"})
    /\ links[proc[n].id] = 0
    /\ \A m \in held : proc[m].id = proc[n].id => m >= n
    /\ held' = held \ {n} /\ out' = out \ {n}
    /\ UNCHANGED <<files, server, at, session, change, peer, todo, crashes,
                   proc, history>>

-----------------------------------------------------------------------------
(* The run's end.                                                          *)

\* Server::stop: the record goes first (Session::unrecord), as a client or a
\* signal asks for it, or its last pane closed.
UnrecordRun ==
    /\ Idle
    /\ disk' = NoRecord
    /\ killed' = killed \union Held(tree)
    /\ server' = "stopping" /\ at' = "close"
    /\ UNCHANGED <<socket, session, change, peer, todo, ends, crashes, proc,
                   known, ever, failed, bared, begun>>

\* Mutant of Shutdown: only panes whose program runs are closed.
ShutdownRunning ==
    /\ server = "stopping" /\ at = "close"
    /\ LET had == {p \in Ids : tree[p] = "runs"} IN
        /\ out' = out \union ({links[p] : p \in had} \ {0})
        /\ links' = [p \in Ids |-> IF p \in had THEN 0 ELSE links[p]]
    /\ tree' = NoTree
    /\ at' = "ending"
    /\ UNCHANGED <<files, server, ids, stop, change, peer, todo, held,
                   crashes, proc, history>>

\* Session::shutdown: then every pane there is a copy of is closed.
Shutdown ==
    /\ server = "stopping" /\ at = "close"
    /\ LET had == Copies(tree) IN
        /\ out' = out \union ({links[p] : p \in had} \ {0})
        /\ links' = [p \in Ids |-> IF p \in had THEN 0 ELSE links[p]]
    /\ tree' = NoTree
    /\ at' = "ending"
    /\ UNCHANGED <<files, server, ids, stop, change, peer, todo, held,
                   crashes, proc, history>>

\* It ends once they have, or have been given time to.
Exit ==
    /\ server = "stopping" /\ at = "ending"
    /\ out = {}
    /\ server' = "over" /\ at' = "idle"
    /\ held' = {}
    /\ UNCHANGED <<files, session, change, peer, todo, out, crashes, proc,
                   history>>

-----------------------------------------------------------------------------
(* A server gone, and the next one (server.rs serve, Session::resume).     *)

Vanish ==
    /\ server' = "down" /\ at' = "idle"
    /\ tree' = NoTree /\ ids' = 0 /\ links' = NoLinks /\ stop' = FALSE
    /\ made' = 0 /\ closing' = {} /\ undo' = NoUndo
    /\ peer' = 0 /\ todo' = {} /\ held' = {} /\ out' = {}

Crash ==
    /\ server \in {"taking", "serving", "stopping"}
    /\ crashes < MaxCrashes
    /\ crashes' = crashes + 1
    /\ Vanish
    /\ UNCHANGED <<files, proc, history>>

\* Mutant of Start: ids go on from the panes there are.
StartAfterPanes ==
    /\ server = "down"
    /\ disk # NoRecord
    /\ server' = "taking" /\ at' = "next"
    /\ ids' \in Held(disk.tree) \union {0}
    /\ \A p \in Held(disk.tree) : p <= ids'
    /\ todo' = Copies(disk.tree)
    /\ UNCHANGED <<files, tree, links, stop, change, peer, ends, crashes,
                   proc, history>>

Start ==
    /\ server = "down"
    /\ disk # NoRecord
    /\ server' = "taking" /\ at' = "next"
    /\ ids' = disk.ids
    /\ todo' = Copies(disk.tree)
    /\ UNCHANGED <<files, tree, links, stop, change, peer, ends, crashes,
                   proc, history>>

\* Link::take: recorded pane p's process is reached, and told it is taken.
\* If no server reached it before, it is what comes first.
Take(p) ==
    /\ server = "taking" /\ at = "next"
    /\ p \in todo
    /\ Listens(p)
    /\ peer' = socket[p]
    /\ at' = "asked"
    /\ IF Is(peer', {"starting"}) /\ proc[peer'].link = "none"
       THEN /\ proc' = [proc EXCEPT ![peer'].link = "up",
                                    ![peer'].word = <<"take">>]
            /\ held' = held \union {peer'}
       ELSE UNCHANGED <<proc, held>>
    /\ UNCHANGED <<files, server, session, change, todo, out, crashes,
                   history>>

\* Untaken::Gone: its connect failed, for whatever reason (none_listens).  The
\* pane reads as recorded, its program lost if it ran.
TakeGone(p) ==
    /\ server = "taking" /\ at = "next"
    /\ p \in todo
    /\ Listens(p) => Scarce
    /\ tree' = [tree EXCEPT ![p] = "ended"]
    /\ todo' = todo \ {p}
    /\ UNCHANGED <<files, server, at, ids, links, stop, change, peer, ends,
                   crashes, proc, history>>

\* Mutant of Greet: one whose program ended is let go of.
GreetRunning ==
    /\ server = "taking" /\ at = "asked"
    /\ Is(peer, {"open"})
    /\ proc[peer].link = "down"
    /\ LET p == proc[peer].id IN
        /\ links' = IF proc[peer].runs THEN [links EXCEPT ![p] = peer] ELSE links
        /\ tree' = [tree EXCEPT ![p] = IF proc[peer].runs THEN "runs" ELSE "ended"]
        /\ todo' = todo \ {p}
    /\ proc' = [proc EXCEPT ![peer].link = "up"]
    /\ held' = held \union {peer}
    /\ peer' = 0 /\ at' = "next"
    /\ UNCHANGED <<files, server, ids, stop, change, out, crashes, history>>

\* One open, its server gone, greets the one that takes it.
Greet ==
    /\ server = "taking" /\ at = "asked"
    /\ Is(peer, {"open"})
    /\ proc[peer].link = "down"
    /\ LET p == proc[peer].id IN
        /\ links' = [links EXCEPT ![p] = peer]
        /\ tree' = [tree EXCEPT ![p] = IF proc[peer].runs THEN "runs" ELSE "ended"]
        /\ todo' = todo \ {p}
    /\ proc' = [proc EXCEPT ![peer].link = "up"]
    /\ held' = held \union {peer}
    /\ peer' = 0 /\ at' = "next"
    /\ UNCHANGED <<files, server, ids, stop, change, out, crashes, history>>

\* Untaken::Unknown: it listened, and let the server go.  The server ends.
Refuse ==
    /\ server = "taking" /\ at = "asked"
    /\ Is(peer, {"closed", "ending", "gone"})
    /\ Vanish
    /\ UNCHANGED <<files, crashes, proc, history>>

\* A tree that names a pane not recorded is refused (Parts::restore).
Whole(record) == Held(record.tree) = Copies(record.tree)
Unrestored ==
    /\ server = "taking" /\ at = "next"
    /\ todo = {}
    /\ ~Whole(disk)
    /\ Vanish
    /\ UNCHANGED <<files, crashes, proc, history>>

\* Every pane taken: shells that ended meanwhile close.
Resume ==
    /\ server = "taking" /\ at = "next"
    /\ todo = {}
    /\ Whole(disk)
    /\ LET over == {p \in Shells \intersect Ids : tree[p] = "ended"} IN
        /\ tree' = [p \in Ids |-> IF p \in over THEN "none" ELSE tree[p]]
        /\ links' = [p \in Ids |-> IF p \in over THEN 0 ELSE links[p]]
        /\ out' = out \union ({links[p] : p \in over} \ {0})
        /\ stop' = (over # {} /\ Copies(tree') = {})
    /\ server' = "serving" /\ at' = "settle"
    /\ UNCHANGED <<files, ids, change, peer, todo, held, crashes, proc,
                   history>>

\* Mutant of Fresh: panes' processes are not looked for.
FreshUnlooked ==
    /\ server \in {"down", "over"}
    /\ disk = NoRecord
    /\ server' = "fresh"
    /\ socket' = NoLinks
    /\ UNCHANGED <<disk, at, session, change, peer, todo, ends, crashes, proc,
                   history>>

\* No record: another run begins, unless panes' processes wait (`waiting`).
Fresh ==
    /\ server \in {"down", "over"}
    /\ disk = NoRecord
    /\ ~ \E p \in Ids : Listens(p) /\ Is(socket[p], {"open"})
    /\ server' = "fresh"
    /\ socket' = NoLinks
    /\ UNCHANGED <<disk, at, session, change, peer, todo, ends, crashes, proc,
                   history>>

-----------------------------------------------------------------------------
(* A pane's own process (host.rs serve).                                   *)

OfServer == <<disk, server, at, session, change, peer, todo, ends, crashes>>
Goes == [NoProc EXCEPT !.state = "gone"]
Gone(n) == proc' = [proc EXCEPT ![n] = [Goes EXCEPT !.id = proc[n].id]]
Unlinked(n) == socket' = [socket EXCEPT ![proc[n].id] = 0]

\* Its first word: its program starts, or can't.  Any other ends it.
FirstWord(n) ==
    /\ Is(n, {"starting"})
    /\ proc[n].word # <<>>
    /\ \/ /\ Head(proc[n].word) = "begin"
          /\ proc' = [proc EXCEPT ![n].state = "open", ![n].runs = TRUE,
                                  ![n].word = Tail(@)]
          /\ begun' = begun \union {n}
          /\ UNCHANGED socket
       \/ /\ Head(proc[n].word) = "begin"
          /\ Gone(n)
          /\ UNCHANGED <<begun, socket>>
       \/ /\ Head(proc[n].word) # "begin"
          /\ Gone(n) /\ Unlinked(n)
          /\ UNCHANGED begun
    /\ UNCHANGED <<OfServer, known, ever, killed, failed, bared>>

\* Mutant of NoWord: it waits for the next server's first word.
NoWordWaiting(n) ==
    /\ Is(n, {"starting"})
    /\ proc[n].link = "up" /\ n \notin held /\ proc[n].word = <<>>
    /\ proc' = [proc EXCEPT ![n].link = "down"]
    /\ UNCHANGED <<OfServer, socket, history>>

\* Its server went before its first word.
NoWord(n) ==
    /\ Is(n, {"starting"})
    /\ proc[n].link = "up" /\ n \notin held /\ proc[n].word = <<>>
    /\ Gone(n) /\ Unlinked(n)
    /\ UNCHANGED <<OfServer, history>>

\* A close is read, though its server went since (Host::close).
HearClose(n) ==
    /\ Is(n, {"open"})
    /\ proc[n].word # <<>>
    /\ proc' = [proc EXCEPT ![n].state = "closed", ![n].runs = FALSE,
                            ![n].word = Tail(@)]
    /\ UNCHANGED <<OfServer, socket, history>>

\* Its link closes: it waits for the next server.
LinkLost(n) ==
    /\ Is(n, {"open"})
    /\ proc[n].link = "up" /\ n \notin held /\ proc[n].word = <<>>
    /\ proc' = [proc EXCEPT ![n].link = "down"]
    /\ UNCHANGED <<OfServer, socket, history>>

\* Closed, none finds it.
Unbind(n) ==
    /\ Is(n, {"closed"})
    /\ proc' = [proc EXCEPT ![n].state = "ending"]
    /\ Unlinked(n)
    /\ UNCHANGED <<OfServer, history>>

\* Its program is gone (Host::finished).
Finish(n) ==
    /\ Is(n, {"ending"})
    /\ Gone(n)
    /\ UNCHANGED <<OfServer, socket, history>>

ProgramEnds(n) ==
    /\ Is(n, {"open"})
    /\ proc[n].runs
    /\ proc' = [proc EXCEPT ![n].runs = FALSE]
    /\ UNCHANGED <<OfServer, socket, history>>

\* It is killed, or fails.
Die(n) ==
    /\ Alive(n)
    /\ Gone(n)
    /\ UNCHANGED <<OfServer, socket, history>>

-----------------------------------------------------------------------------

Changes == RecordMade \/ Spawn \/ Reach \/ SayBegin \/ NotBegun \/ Begun
           \/ Commit \/ RollBack \/ Say
Serves == Changes \/ Settle \/ (\E p \in Ids : News(p) \/ Lost(p))
Stops == Shutdown \/ Exit
TakesBack == Start \/ (\E p \in Ids : Take(p) \/ TakeGone(p)) \/ Greet \/ Refuse
             \/ Unrestored \/ Resume
Process(n) == FirstWord(n) \/ NoWord(n) \/ HearClose(n) \/ LinkLost(n)
              \/ Unbind(n) \/ Finish(n)

Next ==
    \/ BeginMake \/ BeginKill \/ Resettle \/ UnrecordRun \/ Crash \/ Fresh
    \/ Serves \/ Stops \/ TakesBack
    \/ \E n \in Procs : Flush(n) \/ LetGo(n) \/ Process(n) \/ ProgramEnds(n)
                        \/ Die(n)

\* Every process goes on, and a server that crashed is started again.  A stop
\* asked for goes before what clients ask next (Server::turn).
Fairness ==
    /\ WF_vars(Serves) /\ WF_vars(Stops) /\ WF_vars(TakesBack)
    /\ SF_vars(stop /\ UnrecordRun)
    /\ \A n \in Procs : /\ WF_vars(Process(n))
                        /\ WF_vars(Flush(n))
                        /\ WF_vars(LetGo(n))

Spec == Init /\ [][Next]_vars /\ Fairness

-----------------------------------------------------------------------------
(* What holds.                                                             *)

States == {"none", "runs", "ended", "bare"}
TypeOK ==
    /\ disk \in [ids : 0..MaxId, tree : [Ids -> States]]
               \union {NoRecord}
    /\ socket \in [Ids -> 0..MaxProcs]
    /\ server \in {"taking", "serving", "stopping", "down", "over", "fresh"}
    /\ at \in {"idle", "record", "spawn", "reach", "begin", "wait", "commit",
               "undo", "say", "refuse", "settle", "close", "ending", "next",
               "asked"}
    /\ tree \in [Ids -> States]
    /\ ids \in 0..MaxId
    /\ links \in [Ids -> 0..MaxProcs]
    /\ made \in 0..MaxId /\ peer \in 0..MaxProcs
    /\ todo \subseteq Ids
    /\ closing \subseteq Procs /\ held \subseteq Procs /\ out \subseteq held
    /\ stop \in BOOLEAN
    /\ crashes \in 0..MaxCrashes
    /\ \A n \in Procs : Len(proc[n].word) <= 2

\* A pane a client knows of leaves the run only because it was asked to
\* close, or as a shell that ended: whatever crashed, and whichever records
\* could not be written, the tree a server takes back is the one anyone saw
\* (Session::commit, "before anything that changed it is told").
ShellEnded(p) ==
    p \in Shells /\ \A n \in Procs : proc[n].id = p /\ Is(n, {"open"})
                                      => ~proc[n].runs
KnownPanesAreTakenBack ==
    server = "serving" =>
        \A p \in known \ (killed \union Held(tree)) : ShellEnded(p)

\* A process that ended, or has yet to read it is to.
Going(n) == n \in out \/ ~Is(n, {"starting", "open"})
            \/ \E i \in DOMAIN proc[n].word : proc[n].word[i] = "close"

\* No pane's process is left to itself: one begun, and not told to close, is
\* its pane's, as long as no server crashes.
EveryProcessIsHeld ==
    crashes = 0 /\ Idle => \A n \in Procs :
        Is(n, {"open"}) => Going(n) \/ links[proc[n].id] = n

\* All three, as the runs check them.
RunIsSound == TypeOK /\ KnownPanesAreTakenBack /\ EveryProcessIsHeld

\* No pane is made with an id a client was ever told: ids go on from the
\* record's (Ids::after), over changes undone and servers that crashed.
NoIdIsGivenTwice ==
    server = "serving" =>
        /\ at \in {"record", "spawn", "reach", "begin", "wait"} => made \notin ever
        /\ \A p \in ever : p <= ids

\* A pane is taken for lost only if its process is gone, or going: one that
\* may still run never is (Session::resume).
LostAreGone ==
    Idle => \A p \in Held(tree), n \in Procs :
                links[p] = 0 /\ proc[n].id = p => Going(n)

\* Another run begins on the socket only once no process of this one goes
\* on unasked to end (serve, `waiting`), though a server crashed as it
\* stopped.
NoRunBesideAnother ==
    server = "fresh" => \A n \in Procs : Going(n)

\* A crashed server's run is taken back, or was over, if its record is whole:
\* a start that a pane refuses may be tried again (server.rs serve,
\* Session::resume).
TakenBack ==
    server = "down" /\ disk # NoRecord /\ Whole(disk)
        ~> server = "serving" \/ disk = NoRecord

\* A run that stops, and left no pane bare, leaves no pane's process in the
\* end (Server::stop, finish), once they have read their Close, while no
\* server crashes.
StopEndsAll ==
    server = "stopping" /\ bared = {}
        ~> crashes > 0 \/ \A n \in Procs : Is(n, {"none", "gone"})

-----------------------------------------------------------------------------
(* What comments, docs and tests say, and the code does not do.            *)

\* A change told to have failed is not made: "one that can't be is undone, as
\* though never made" (Session::transact).
FailedStaysUnmade == Idle => failed \intersect Held(tree) = {}

\* A pane whose process never began is one the next server finds gone: it
\* does not listen (Session::start_pane, host.rs serve).
UnbegunIsFoundGone == server = "taking" /\ at = "asked" => peer \in begun

\* No pane's process is left once its run was stopped (pane_processes.rs, 7),
\* though its server crashed before.
NoneIsLeft == server = "over" /\ bared = {} => \A n \in Procs : Going(n)

\* What a change undone closed "comes back whole" (Session::roll_back), and a
\* run whose server crashed can be taken back (D-124 (1)): a record names no
\* pane it does not hold.
RecordIsWhole == disk # NoRecord => Whole(disk)

\* A program's FUX_PANE stays true: no two programs were given one id.
PaneIdsStayTrue ==
    \A m, n \in begun : proc[m].id = proc[n].id => m = n

\* A closed pane's link is "kept till it ends" (Session::unlink).
EndedAreLetGo ==
    \A n \in Procs : n \in held /\ Is(n, {"gone"}) ~> n \notin held
=============================================================================
