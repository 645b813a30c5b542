------------------------------- MODULE PaneLife -------------------------------
(***************************************************************************)
(* The programs of one pane, in its own process (fux-server/src/host.rs,   *)
(* Host): how its program's output is read as it ends, is respawned over   *)
(* or is closed, and how every program that was started is ended and       *)
(* reaped.  Programs are numbered as they start (Pane::respawns); program  *)
(* p's processes are its leader and, perhaps, jobs that outlive it and go  *)
(* on writing to its terminal.                                             *)
(*                                                                         *)
(* A handler of the host does all it does in one turn, while programs act  *)
(* between any two: its state is the record `host`, and what a handler may *)
(* leave it as is a set of such records.  A terminal's contents belong to  *)
(* it too (`tty`), as a read takes them and changes what the host knows.   *)
(***************************************************************************)
EXTENDS Integers, FiniteSets

CONSTANTS
    MaxPrograms,    \* bound: how many programs are started
    MaxWrites,      \* bound: how much each program and its jobs write
    MaxTurns,       \* bound: how many turns what is read at once may take
    Shells,         \* whether it may run a shell (Runs::Shell), a program
    Endless         \* whether jobs left behind may write without that bound

ASSUME BoundsAssumption == MaxPrograms \in Nat \ {0} /\ {MaxWrites, MaxTurns} \subseteq Nat
ASSUME KindAssumption == Shells \subseteq BOOLEAN /\ Endless \in BOOLEAN

Programs == 1..MaxPrograms
None == 0

VARIABLES
    host,       \* Host, and the terminals it reads
    leader,     \* each program's leader: "none", "runs", "zombie", "reaped"
    holds,      \* those whose leader holds its terminal open
    jobs,       \* those with jobs left in the session
    wrote,      \* how much each wrote
    chld,       \* a SIGCHLD waits to be heard
    done        \* the pane's process ended (serve returned)

vars == <<host, leader, holds, jobs, wrote, chld, done>>
programs == <<leader, holds, jobs, wrote, chld>>

\* The process states with a program in them (Process::child).
Child(h) ==
    IF h.process \in {"reading", "hungup", "failed"} THEN h.gen ELSE None

HasUnread(h) == h.pending = "unread"

Init ==
    /\ \E shell \in Shells : host =
              [shell |-> shell, process |-> "reading", gen |-> 1,
               exiting |-> FALSE, draining |-> FALSE,
               pending |-> "none",      \* read, but not on the screen yet
               turns |-> 0,             \* how many more turns it may take
               resp |-> None,           \* Host::respawning: the new program
               old |-> None,            \* Replacement::old
               grace |-> FALSE,         \* Replacement::grace is some
               late |-> FALSE,          \* and over
               leftover |-> None,
               dying |-> {},            \* Dying, its deadline over or not
               killed |-> {},
               closed |-> "no",         \* Host::closed
               fuxs |-> {},             \* those with Leader::closed
               tty |-> [p \in Programs |-> 0],
               \* History: whose exit was told how often; kills; how much of
               \* what each left is owed; whether any was lost; answers.
               told |-> [p \in Programs |-> 0],
               sigkill |-> {}, swept |-> {},
               owed |-> [p \in Programs |-> 0],
               lost |-> FALSE, answered |-> 0]
    /\ leader = [p \in Programs |-> IF p = 1 THEN "runs" ELSE "none"]
    /\ holds = {1}
    /\ jobs \in {{}, {1}}
    /\ wrote = [p \in Programs |-> 0]
    /\ chld = FALSE
    /\ done = FALSE

-----------------------------------------------------------------------------
(* Parts of a turn: what they may leave the host as.                       *)

\* Leader::kill: its group, or its session if its pane was closed by fux.
\* Its leader dies of it (KilledEnds), and its jobs with it if they are reached.
Kill(h, p) ==
    [h EXCEPT !.sigkill = @ \union {p},
              !.swept = IF p \in h.fuxs THEN @ \union {p} ELSE @]

\* A dying program; `first`: its deadline is past when the turn for what is
\* unread was due (Host::timer takes the soonest).
Dies(p, due) == [p |-> p, due |-> due, first |-> TRUE]

\* Host::end: hung up, and killed after GRACE.
End(h, p, closed) ==
    IF p = None THEN h
    ELSE [h EXCEPT !.dying = @ \union {Dies(p, FALSE)},
                   !.fuxs = IF closed THEN @ \union {p} ELSE @]

\* Pane::wait_unread: its next turn is due from now, after what is over.
WaitUnread(h) ==
    [h EXCEPT !.pending = "unread",
              !.dying = {[d EXCEPT !.first = @ /\ ~d.due] : d \in @}]

\* What is read is put on the screen (Pane::read), or part of it left for
\* another turn, or held as the start of a frame.
Shown(h) ==
    LET less == [h EXCEPT !.turns = @ - 1]
    IN {[h EXCEPT !.pending = "none"]}
       \union (IF h.turns = 0 THEN {}
               ELSE {[less EXCEPT !.pending = "frame"], WaitUnread(less)})

\* Output read (Pane::output): what waits is before it, and a held frame is
\* its beginning.
Output(h) ==
    LET more == [h EXCEPT !.turns = MaxTurns]
    IN IF HasUnread(h) THEN {more} ELSE Shown(more)

\* PaneMut::release_frame: the held frame is read now.
ReleaseFrame(h) ==
    IF h.pending # "frame" THEN {h} ELSE {g \in Shown(h) : g.pending # "frame"}

\* PaneMut::read_unread.
ReadUnread(h) == IF HasUnread(h) THEN Shown(h) ELSE {h}

\* PaneMut::read_failed: read no more; what it held is lost.
ReadFailed(h) == IF Child(h) = None THEN h ELSE [h EXCEPT !.process = "failed"]

\* The program whose terminal a turn reads what is left of.
Source(h) ==
    IF h.resp # None /\ h.old # None THEN h.old
    ELSE IF h.leftover # None THEN h.leftover ELSE Child(h)

\* Nobody has p's terminal open any more.
Hung(p) == p \notin holds /\ p \notin jobs

\* Some of what p's terminal holds is taken from it.
TakeFrom(h, p) ==
    {[h EXCEPT !.tty[p] = n, !.owed[p] = IF @ > n THEN n ELSE @] :
        n \in 0..(h.tty[p] - 1)}

\* Host::read_left is done with what it read: a program respawned over is
\* killed once its grace is over, one left over now.
Drained(h) ==
    [h EXCEPT !.draining = FALSE,
              !.dying = @ \union
                  (IF h.resp # None /\ h.old # None
                   THEN {Dies(h.old, h.late \/ ~h.grace)} ELSE {})
                  \union (IF h.leftover # None THEN {Dies(h.leftover, TRUE)} ELSE {}),
              !.old = IF h.resp # None THEN None ELSE @,
              !.leftover = None]

\* A turn's worth of what a program left on its terminal (Host::read_left,
\* left_turn).  `emptyEnds`: whether finding nothing there ends that.
ReadLeft(h, emptyEnds) ==
    LET over == h.resp # None /\ h.grace /\ h.late
        spent == [h EXCEPT !.grace = IF over THEN FALSE ELSE @]
        g == IF over /\ h.old # None THEN Kill(spent, h.old) ELSE spent
        p == Source(g)
        own == p = Child(g)
    IN IF ~h.draining THEN {h}
       ELSE IF p = None THEN {Drained(g)}
       ELSE (IF g.tty[p] > 0 THEN UNION {Output(t) : t \in TakeFrom(g, p)}
             ELSE IF ~Hung(p) /\ ~emptyEnds THEN {g}
             ELSE {Drained(g)})
            \union {Drained([IF own THEN ReadFailed(g) ELSE g
                             EXCEPT !.owed[p] = 0])}

-----------------------------------------------------------------------------
(* A program's exit, and the end of a turn.                                *)

\* Mutant of Tell: what waited for the exit to be told still does.
TellStillExiting(h) ==
    LET c == Child(h)
        end == [h EXCEPT !.process = "exited", !.told[h.gen] = @ + 1]
    IN IF h.shell THEN End(end, c, FALSE)
       ELSE IF c = None THEN end
       ELSE IF h.draining THEN [end EXCEPT !.leftover = c]
       ELSE [end EXCEPT !.dying = @ \union {Dies(c, TRUE)}]

\* Told exited (Pane::exit): what is there of it is kept, if its terminal
\* has more to read, or killed now.
Tell(h) ==
    LET c == Child(h)
        end == [h EXCEPT !.process = "exited", !.exiting = FALSE,
                         !.told[h.gen] = @ + 1]
    IN IF h.shell THEN End(end, c, FALSE)
       ELSE IF c = None THEN end
       ELSE IF h.draining THEN [end EXCEPT !.leftover = c]
       ELSE [end EXCEPT !.dying = @ \union {Dies(c, TRUE)}]

\* Host::program_exited: its program exited.  At the first word of it a
\* turn's worth of its terminal is read; it is told once what was read is on
\* the screen.
Exited(h) ==
    LET first == [h EXCEPT !.exiting = TRUE, !.draining = TRUE]
        read == IF h.exiting THEN {h} ELSE ReadLeft(first, FALSE)
        shown == UNION {ReleaseFrame(g) : g \in read}
    IN IF ~h.exiting /\ h.process = "exited" THEN {h}
       ELSE {IF HasUnread(g) THEN g ELSE Tell(g) : g \in shown}

\* The new program takes its place, the respawn answered.
Replaced(h) ==
    [End(h, Child(h), TRUE) EXCEPT
        !.process = "reading", !.gen = h.resp, !.resp = None,
        !.exiting = FALSE, !.draining = FALSE, !.pending = "none",
        !.grace = FALSE, !.late = FALSE,
        !.lost = @ \/ h.pending # "none" \/ \E p \in Programs : h.owed[p] > 0,
        !.answered = @ + 1]

\* Mutant of AfterTurn: whether the new program exited is not looked at.
AfterTurnUnlooked(h) ==
    LET told == IF h.exiting THEN Exited(h) ELSE {h}
    IN IF HasUnread(h) \/ (h.resp # None /\ h.pending = "frame") THEN {h}
       ELSE {IF g.closed # "no" \/ g.draining \/ g.resp = None THEN g
             ELSE Replaced(g) : g \in told}

\* Mutant of AfterTurn: a respawn takes its place over a held frame.
AfterTurnOverAFrame(h) ==
    LET told == IF h.exiting THEN Exited(h) ELSE {h}
        next(g) == IF g.closed # "no" \/ g.draining \/ g.resp = None THEN {g}
                   ELSE IF leader[g.resp] = "zombie" THEN Exited(Replaced(g))
                   ELSE {Replaced(g)}
    IN IF HasUnread(h) THEN {h} ELSE UNION {next(g) : g \in told}

\* Host::after_turn.
AfterTurn(h) ==
    LET told == IF h.exiting THEN Exited(h) ELSE {h}
        next(g) == IF g.closed # "no" \/ g.draining \/ g.resp = None THEN {g}
                   ELSE IF leader[g.resp] = "zombie" THEN Exited(Replaced(g))
                   ELSE {Replaced(g)}
    IN IF HasUnread(h) \/ (h.resp # None /\ h.pending = "frame") THEN {h}
       ELSE UNION {next(g) : g \in told}

\* Host::read_with of Leader::exited in Host::reap: the pane's own program
\* alone is looked at.
LookAtLeader(h) ==
    IF Child(h) # None /\ leader[Child(h)] = "zombie" THEN Exited(h) ELSE {h}

-----------------------------------------------------------------------------
(* What the host does, a handler a step.                                   *)

\* last left, is kept till what it left is read; one that runs is hung up.
Respawn(kill) ==
    LET new == host.gen + 1
        c == IF Child(host) # None THEN Child(host) ELSE host.leftover
        keeps == c # None /\ (~host.exiting \/ host.draining)
        h == [host EXCEPT
            !.process = IF @ = "exited" THEN @ ELSE "respawning",
            !.leftover = IF Child(host) = None THEN None ELSE @,
            !.fuxs = IF c # None /\ ~host.exiting THEN @ \union {c} ELSE @,
            !.old = IF keeps THEN c ELSE None,
            !.owed = IF keeps THEN [@ EXCEPT ![c] = host.tty[c]] ELSE @,
            !.dying = IF c # None /\ ~keeps THEN @ \union {Dies(c, TRUE)} ELSE @,
            !.resp = new, !.grace = TRUE, !.late = FALSE, !.draining = TRUE]
    IN /\ ~done /\ ~host.shell
       /\ host.closed = "no" /\ host.resp = None /\ host.gen < MaxPrograms
       /\ Child(host) = None \/ host.exiting \/ kill
       /\ host' \in UNION {AfterTurn(g) : g \in ReadLeft(h, TRUE)}
       /\ leader' = [leader EXCEPT ![new] = "runs"]
       /\ holds' = holds \union {new}
       /\ jobs' \in {jobs, jobs \union {new}}
       /\ UNCHANGED <<wrote, chld, done>>

\* Mutant of Close: the program a respawn started is forgotten.
CloseKeepingNew(closed) ==
    LET fux == closed = "fux"
        own == End([host EXCEPT !.closed = closed,
                        !.process = IF @ = "exited" THEN @ ELSE "respawning"],
                   Child(host), fux)
        left == [End(own, host.leftover, fux) EXCEPT !.leftover = None]
    IN /\ ~done /\ host.closed = "no"
       /\ fux \/ (host.shell /\ host.told[host.gen] > 0)
       /\ host' = [left EXCEPT !.resp = None, !.old = None,
                               !.grace = FALSE, !.late = FALSE]
       /\ UNCHANGED <<programs, done>>

\* Mutant of Close: its processes are ended as if it had ended by itself.
CloseAsItsEnd(closed) ==
    LET own == End([host EXCEPT !.closed = closed,
                        !.process = IF @ = "exited" THEN @ ELSE "respawning"],
                   Child(host), FALSE)
        left == [End(own, host.leftover, FALSE) EXCEPT !.leftover = None]
        new == End(left, host.resp, TRUE)
        old == IF host.old = None THEN {}
               ELSE {Dies(host.old, host.late \/ ~host.grace)}
    IN /\ ~done /\ host.closed = "no"
       /\ closed = "fux" \/ (host.shell /\ host.told[host.gen] > 0)
       /\ host' = [new EXCEPT !.resp = None, !.old = None,
                              !.grace = FALSE, !.late = FALSE,
                              !.dying = @ \union old,
                              !.answered = IF host.resp # None THEN @ + 1 ELSE @]
       /\ UNCHANGED <<programs, done>>

\* Host::close: by fux, or by a shell's end, which its server was told of.
Close(closed) ==
    LET fux == closed = "fux"
        own == End([host EXCEPT !.closed = closed,
                        !.process = IF @ = "exited" THEN @ ELSE "respawning"],
                   Child(host), fux)
        left == [End(own, host.leftover, fux) EXCEPT !.leftover = None]
        new == End(left, host.resp, TRUE)
        old == IF host.old = None THEN {}
               ELSE {Dies(host.old, host.late \/ ~host.grace)}
    IN /\ ~done /\ host.closed = "no"
       /\ fux \/ (host.shell /\ host.told[host.gen] > 0)
       /\ host' = [new EXCEPT !.resp = None, !.old = None,
                              !.grace = FALSE, !.late = FALSE,
                              !.dying = @ \union old,
                              !.answered = IF host.resp # None THEN @ + 1 ELSE @]
       /\ UNCHANGED <<programs, done>>

\* Host::reap_killed.
Zombies(h) == {p \in h.killed : leader[p] = "zombie"}
ReapKilled(h) == [h EXCEPT !.killed = @ \ Zombies(h)]
Reaped(ps) == [p \in Programs |-> IF p \in ps THEN "reaped" ELSE leader[p]]

\* Mutant of Reap: programs killed are not looked at again.
ReapOwnAlone ==
    /\ ~done /\ chld
    /\ chld' = FALSE
    /\ host' \in LookAtLeader(host)
    /\ UNCHANGED <<leader, holds, jobs, wrote, done>>

\* A child ended (Host::reap).
Reap ==
    /\ ~done /\ chld
    /\ chld' = FALSE
    /\ host' \in LookAtLeader(ReapKilled(host))
    /\ leader' = Reaped(Zombies(host))
    /\ UNCHANGED <<holds, jobs, wrote, done>>

Polled == host.process = "reading" /\ ~HasUnread(host)

\* Its program's terminal has output (read_program), or fails to be read.
Read ==
    /\ ~done /\ Polled
    /\ host' \in (UNION {Output(g) : g \in TakeFrom(host, host.gen)})
                 \union {ReadFailed(host)}
    /\ UNCHANGED <<programs, done>>

\* It is closed (Host::hung_up): its program may have exited.
HungUp ==
    LET stop(g) == IF g.process = "reading" /\ ~g.exiting
                   THEN [g EXCEPT !.process = "hungup"] ELSE g
    IN /\ ~done /\ Polled
       /\ host.tty[host.gen] = 0 /\ Hung(host.gen)
       /\ host' \in {stop(g) : g \in LookAtLeader(ReapKilled(host))}
       /\ leader' = Reaped(Zombies(host))
       /\ UNCHANGED <<holds, jobs, wrote, chld, done>>

UnreadDue == HasUnread(host) \/ host.draining \/ host.resp # None

\* Mutant of FireUnread: the turn is not ended.
FireUnreadAlone ==
    /\ ~done /\ UnreadDue
    /\ \A d \in host.dying : d.due => d.first
    /\ host' \in (IF host.draining /\ ~HasUnread(host) THEN ReadLeft(host, TRUE)
                  ELSE ReadUnread(host))
    /\ UNCHANGED <<programs, done>>

\* The turn for what is unread (Timer::Unread), once it is the soonest.
FireUnread ==
    LET read == IF host.draining /\ ~HasUnread(host) THEN ReadLeft(host, TRUE)
                ELSE IF host.resp # None /\ host.pending = "frame"
                     THEN ReleaseFrame(host)
                ELSE ReadUnread(host)
    IN /\ ~done /\ UnreadDue
       /\ \A d \in host.dying : d.due => d.first
       /\ host' \in UNION {AfterTurn(g) : g \in read}
       /\ UNCHANGED <<programs, done>>

\* Dying::kill for each whose grace is over (Timer::Grace).
FireGrace ==
    LET due == {d \in host.dying : d.due}
        ps == {d.p : d \in due}
        ended == {p \in ps : leader[p] = "zombie"}
    IN /\ ~done /\ due # {}
       /\ ~UnreadDue \/ \E d \in due : ~d.first
       /\ host' = [host EXCEPT !.dying = @ \ due,
                               !.killed = @ \union (ps \ ended),
                               !.sigkill = @ \union ps,
                               !.swept = @ \union (ps \intersect host.fuxs)]
       /\ leader' = Reaped(ended)
       /\ UNCHANGED <<holds, jobs, wrote, chld, done>>

\* A frame held too long is shown (Timer::Frame).
FireFrame ==
    /\ ~done /\ host.resp = None /\ host.pending = "frame" /\ ~host.draining
    /\ host' \in ReleaseFrame(host)
    /\ UNCHANGED <<programs, done>>

Finished ==
    /\ host.closed # "no" /\ Child(host) = None
    /\ host.resp = None /\ host.leftover = None
    /\ host.dying = {} /\ host.killed = {}

\* The pane's process ends (serve, Host::finished).
Finish ==
    /\ ~done /\ Finished
    /\ done' = TRUE
    /\ UNCHANGED <<host, programs>>

-----------------------------------------------------------------------------
(* Time, and what programs do.                                             *)

\* The grace of a program hung up, or of one respawned over, is over.
GraceOver(p) ==
    \/ \E d \in host.dying :
        /\ d.p = p /\ ~d.due
        /\ host' = [host EXCEPT !.dying = (@ \ {d}) \union {[d EXCEPT !.due = TRUE]}]
        /\ UNCHANGED <<programs, done>>
    \/ /\ host.old = p /\ host.grace /\ ~host.late
       /\ host' = [host EXCEPT !.late = TRUE]
       /\ UNCHANGED <<programs, done>>

\* Output from a program whose terminal is still read, or will be.
Write(p) ==
    /\ p \in {Child(host), host.resp, host.old, host.leftover}
    /\ ~Hung(p)
    /\ host.tty[p] < MaxWrites
    /\ \/ wrote[p] < MaxWrites /\ wrote' = [wrote EXCEPT ![p] = @ + 1]
       \/ Endless /\ p \in jobs /\ p \notin holds /\ UNCHANGED wrote
    /\ host' = [host EXCEPT !.tty[p] = @ + 1]
    /\ UNCHANGED <<leader, holds, jobs, chld, done>>

\* It closes its terminal and goes on.
LetTerminalGo(p) ==
    /\ p \in holds
    /\ holds' = holds \ {p}
    /\ UNCHANGED <<host, leader, jobs, wrote, chld, done>>

LeaderEnds(p) ==
    /\ leader[p] = "runs"
    /\ leader' = [leader EXCEPT ![p] = "zombie"]
    /\ holds' = holds \ {p}
    /\ chld' = TRUE
    /\ UNCHANGED <<host, jobs, wrote, done>>

JobsEnd(p) ==
    /\ p \in jobs
    /\ jobs' = jobs \ {p}
    /\ UNCHANGED <<host, leader, holds, wrote, chld, done>>

\* SIGKILL ends whom it reaches.
KilledEnds(p) ==
    \/ p \in host.sigkill /\ LeaderEnds(p)
    \/ p \in host.swept /\ JobsEnd(p)

HostDoes ==
    \/ Reap \/ Read \/ HungUp
    \/ FireUnread \/ FireGrace \/ FireFrame
    \/ Finish

Next ==
    \/ HostDoes
    \/ \E kill \in BOOLEAN : Respawn(kill)
    \/ \E closed \in {"fux", "end"} : Close(closed)
    \/ \E p \in Programs :
        \/ GraceOver(p)
        \/ Write(p) \/ LetTerminalGo(p) \/ LeaderEnds(p) \/ JobsEnd(p)

Fairness ==
    /\ WF_vars(Reap) /\ WF_vars(HungUp) /\ WF_vars(Finish)
    /\ WF_vars(FireUnread) /\ WF_vars(FireGrace) /\ WF_vars(FireFrame)
    /\ \A p \in Programs : WF_vars(GraceOver(p)) /\ WF_vars(KilledEnds(p))

Spec == Init /\ [][Next]_vars /\ Fairness

-----------------------------------------------------------------------------
(* What is to hold.                                                        *)

Deaths == [p : Programs, due : BOOLEAN, first : BOOLEAN]

\* Each field has its type (struct Host, struct Replacement, enum Process).
TypeOK ==
    /\ host.process \in {"reading", "hungup", "failed", "exited", "respawning"}
    /\ host.gen \in Programs
    /\ {host.exiting, host.draining, host.grace, host.late, host.lost} \subseteq BOOLEAN
    /\ host.pending \in {"none", "unread", "frame"}
    /\ {host.resp, host.old, host.leftover} \subseteq Programs \union {None}
    /\ host.dying \subseteq Deaths
    /\ host.killed \union host.fuxs \union host.sigkill \union host.swept
         \subseteq Programs
    /\ host.closed \in {"no", "fux", "end"}
    /\ \A p \in Programs : host.tty[p] \in 0..MaxWrites /\ host.told[p] \in 0..2
    /\ leader \in [Programs -> {"none", "runs", "zombie", "reaped"}]
    /\ holds \union jobs \subseteq Programs

\* Where the host keeps program p, which it is yet to reap.
Places(p) ==
    {where \in {"own", "new", "old", "left"} :
        p = CASE where = "own" -> Child(host) [] where = "new" -> host.resp
              [] where = "old" -> host.old [] where = "left" -> host.leftover}
    \union {<<d.due, d.first>> : d \in {e \in host.dying : e.p = p}}
    \union ({"killed"} \intersect {IF p \in host.killed THEN "killed" ELSE "no"})

\* A program started is held in one place until it is reaped, and in none
\* after: one held nowhere is a zombie for good, one held twice is killed
\* as another's number may be its own (process.rs, Leader).
EveryProgramIsHeld ==
    \A p \in Programs :
        Cardinality(Places(p)) =
            (IF leader[p] \in {"runs", "zombie"} THEN 1 ELSE 0)

\* Both, as the run checks them.
HostIsSound == TypeOK /\ EveryProgramIsHeld

\* An exit is told once, and of a program that ended and was the pane's.
ExitIsToldOnce ==
    \A p \in Programs :
        /\ host.told[p] <= 1
        /\ host.told[p] = 1 => leader[p] \in {"zombie", "reaped"}

\* A respawn takes its place once all that the old program had written when
\* it was asked for is on the screen (Host::respawn).
NothingLeftIsLost == ~host.lost

Started == {p \in Programs : leader[p] # "none"}

\* Each respawn begun is answered once, by its end or the pane's.
RespawnsAnsweredOnce ==
    host.answered = Cardinality(Started) - 1 - (IF host.resp # None THEN 1 ELSE 0)

\* What happens once is said once: an exit, and a respawn's end.
ToldOnce == ExitIsToldOnce /\ RespawnsAnsweredOnce

\* A pane closed by fux leaves no process of its programs but of those whose
\* exit it heard of, told by then or not (Leader::kill).
ClosedLeavesNone ==
    done /\ host.closed = "fux" =>
        \A p \in Started :
            p \in host.swept \/ host.told[p] = 1 \/ (host.exiting /\ p = host.gen)

\* A pane closed ends, whatever its programs make of the hangup.
ClosedEnds == (host.closed # "no") ~> done

\* A respawn begun is done in the end.
RespawnsEnd == (host.resp # None) ~> (host.resp = None)

\* A program's exit is told in the end, one that came while its respawn was
\* under way too.
ExitsAreTold ==
    \A p \in Programs :
        (leader[p] = "zombie" /\ Child(host) = p) ~>
            (host.told[p] = 1 \/ host.closed # "no" \/ host.gen # p \/ host.resp # None)

\* A program hung up is killed and reaped in the end.
DyingAreReaped ==
    \A p \in Programs : (\E d \in host.dying : d.p = p) ~> (leader[p] = "reaped")

\* What is ended ends: a pane that closes, a program hung up.
HangupsEnd == ClosedEnds /\ DyingAreReaped

\* What is waited for is told: a respawn's end, a program's exit.
EndsAreTold == RespawnsEnd /\ ExitsAreTold
=============================================================================
