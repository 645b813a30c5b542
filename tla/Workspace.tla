------------------------------- MODULE Workspace -------------------------------
(***************************************************************************)
(* A session's workspaces, tabs and panes, where each attached client is   *)
(* among them, and the sizes its panes are told (fux-server/src/           *)
(* workspace.rs, with session.rs: settle, effective, room, the commands    *)
(* that change its tree).  A tab's layout is its panes in order: an area   *)
(* shows as many of them as it has cells for.  Layout has what it does.    *)
(***************************************************************************)
EXTENDS Integers, Sequences, SequencesExt, FiniteSets, FiniteSetsExt, Functions

CONSTANTS
    Panes, Tabs, Workspaces,    \* ids there may be, none used again while in use
    Clients,
    Top,            \* what holds the workspaces at the top
    Outside,        \* an actor that is no client
    Screens,        \* bound: the cells a client's screen has for panes, 0 of one
                    \* that sizes none (one that only watches, or has no room)
    Sizes,          \* bound: the sizes a tab may be given
    Nested,         \* the clients that may run in a pane
    Unwritten       \* whether a record may fail to be written

ASSUME WorkspaceAssumption ==
    /\ IsFiniteSet(Workspaces)
    /\ Screens \subseteq Nat /\ Sizes \subseteq Nat \ {0}
    /\ Nested \subseteq Clients /\ Unwritten \in BOOLEAN
    /\ Top \notin Workspaces /\ Outside \notin Clients

VARIABLES
    parts,      \* the tree: what each holds and shows each client; its tabs
    views,      \* the attached clients: screens, and the panes they run in
    asked,      \* the size each pane's copy says it was told
    told,       \* the size each pane was told
    said        \* of the step before, if it closed a workspace: who closed it,
                \* and what each client it moved was told

vars == <<parts, views, asked, told, said>>

T == INSTANCE Trees     \* for struct Shown
None == T!None

Nodes == Workspaces \union {Top}

\* `f`, with `v` at `x`.
With(f, x, v) == [y \in DOMAIN f \union {x} |-> IF y = x THEN v ELSE f[y]]

-----------------------------------------------------------------------------
(* The tree.                                                               *)

UsedTabs(s) == DOMAIN s.tab
UsedWorkspaces(s) == {w \in Workspaces : s.kids[w] # <<>>}
UsedPanes(s) == UNION {ToSet(s.tab[t].root) : t \in UsedTabs(s)}
Things(s) == UsedPanes(s) \union UsedTabs(s) \union UsedWorkspaces(s)

TabOf(s, p) == CHOOSE t \in UsedTabs(s) : p \in ToSet(s.tab[t].root)
Holder(s, x) == CHOOSE n \in Nodes : x \in ToSet(s.kids[n])

\* Where `x` is in a sequence that has it, and the sequence without it.
Turn(root, x) == CHOOSE i \in DOMAIN root : root[i] = x
Without(root, x) == IF x \in ToSet(root) THEN RemoveAt(root, Turn(root, x)) ELSE root

\* Parts::path_of: what holds `x` from the top down, then it.
Path(s, x) ==
    LET above == IF x \in Panes THEN <<TabOf(s, x), x>> ELSE <<x>>
        path[n \in 0..Cardinality(Nodes)] ==
            IF n = 0 THEN above
            ELSE IF Head(path[n - 1]) = Top THEN path[n - 1]
            ELSE <<Holder(s, Head(path[n - 1]))>> \o path[n - 1]
    IN  path[Cardinality(Nodes)]
Within(s, x, w) == w \in ToSet(Path(s, x))

\* Parts::tabs_in, in order.
TabsIn(s, w) ==
    LET under(x) == IF x \in Tabs THEN <<x>> ELSE s.kids[x]
        in[n \in 0..Cardinality(Nodes)] ==
            IF n = 0 THEN <<w>>
            ELSE FlattenSeq([i \in DOMAIN in[n - 1] |-> under(in[n - 1][i])])
    IN  in[Cardinality(Nodes)]

Attached(s) == DOMAIN s.shown[Top]

\* Parts::shown: the tab a client is shown.
ShownTab(s, c) ==
    LET at[n \in 0..Cardinality(Nodes)] ==
            IF n = 0 THEN Top
            ELSE IF at[n - 1] \in Tabs THEN at[n - 1] ELSE s.shown[at[n - 1]][c].current
    IN  at[Cardinality(Nodes)]

-----------------------------------------------------------------------------
(* A tab (struct Tab).                                                     *)

Seat(p) == [focus |-> T!On(p), held |-> None]
NewTab(p, fixed, size, clients) ==
    [root |-> <<p>>, zoomed |-> None, fixed |-> fixed, size |-> size,
     changed |-> TRUE, seats |-> [c \in clients |-> Seat(p)]]

\* Tab::focus.
Focus(tab, c) == IF tab.zoomed # None THEN tab.zoomed ELSE tab.seats[c].focus.current

\* What a seat holds while its focus is `still` the one it was.
Holding(seat, still) == [seat EXCEPT !.held = IF still THEN @ ELSE None]

\* Mutant of Zoomed: what a client holds is kept, whatever it focuses then.
ZoomedHeld(tab, p) ==
    IF tab.zoomed = p THEN tab ELSE [tab EXCEPT !.zoomed = p, !.changed = TRUE]

\* Mutant of Zoomed: its panes are not sized for it.
ZoomedUnsized(tab, p) ==
    LET now == [tab EXCEPT !.zoomed = p]
    IN  [now EXCEPT
            !.seats = [c \in DOMAIN @ |-> Holding(@[c], Focus(tab, c) = Focus(now, c))]]

\* Tab::zoom.
Zoomed(tab, p) ==
    LET now == [tab EXCEPT !.zoomed = p]
    IN  IF tab.zoomed = p THEN tab
        ELSE [now EXCEPT
                !.changed = TRUE,
                !.seats = [c \in DOMAIN @ |-> Holding(@[c], Focus(tab, c) = Focus(now, c))]]

\* Tab::set_focus, of each of `clients`.
Refocus(seat, p) ==
    [Holding(seat, seat.focus.current = p) EXCEPT !.focus = T!Show(@, p)]
Focused(tab, clients, p) ==
    [tab EXCEPT !.seats = [c \in DOMAIN @ |-> IF c \in clients THEN Refocus(@[c], p) ELSE @[c]]]
SetFocus(tab, clients, p) ==
    Focused(IF clients = {} \/ tab.zoomed \in {None, p} THEN tab ELSE Zoomed(tab, None),
            clients, p)

\* Tab::edit: each focus gone goes to the pane before, else a neighbour.
Moved(seat, focus) ==
    [Holding(seat, focus.current = seat.focus.current) EXCEPT !.focus = focus]
Reseated(tab, root) ==
    [tab EXCEPT
        !.root = root, !.changed = TRUE,
        !.seats = [c \in DOMAIN @ |->
            Moved(@[c], T!Keep(@[c].focus, tab.root, ToSet(root),
                               IF @[c].focus.current \in ToSet(root) THEN None ELSE Head(root)))]]
Edit(tab, root) ==
    Reseated(IF tab.zoomed \in ToSet(root) \union {None} THEN tab ELSE Zoomed(tab, None), root)

-----------------------------------------------------------------------------
(* What changes the tree (Parts).  `closing` counts the tabs closed in each *)
(* workspace since it settled, and has those that closed.                  *)

\* Mutant of RemoveChild: a client is shown what it was, its last forgotten.
RemoveChildUnkept(s, n, x) ==
    LET rest == Without(s.kids[n], x)
    IN  [s EXCEPT !.kids[n] = rest,
                  !.shown[n] = [c \in {c \in DOMAIN @ : rest # <<>>} |->
                    IF @[c].current = x THEN T!On(Head(rest)) ELSE @[c]]]

\* Stack::remove.
RemoveChild(s, n, x) ==
    LET rest == Without(s.kids[n], x)
    IN  [s EXCEPT !.kids[n] = rest,
                  !.shown[n] = [c \in {c \in DOMAIN @ : rest # <<>>} |->
                    T!Keep(@[c], s.kids[n], ToSet(rest), None)]]

\* Those of `path` above its last that hold only the next.
HoldOnly(s, path) ==
    {i \in 2..(Len(path) - 1) : \A m \in i..(Len(path) - 1) : s.kids[path[m]] = <<path[m + 1]>>}

\* Parts::drop_workspace, emptied, and each that leaves empty.
Dropped(s, path, closed) ==
    RemoveChild([s EXCEPT !.kids = [n \in Nodes |-> IF n \in closed THEN <<>> ELSE @[n]],
                          !.shown = [n \in Nodes |-> Restrict(@[n], IF n \in closed THEN {} ELSE DOMAIN @[n])],
                          !.closed = @ \union closed],
                path[Len(path) - Cardinality(closed)], path[Len(path) - Cardinality(closed) + 1])
DropWorkspace(s, w) ==
    LET path == Path(s, w)
    IN  Dropped(s, path, {w} \union {path[i] : i \in HoldOnly(s, path)})
DropIfEmpty(s, w) == IF w # Top /\ s.kids[w] = <<>> THEN DropWorkspace(s, w) ELSE s

\* Parts::drop_tab.
DropTab(s, t) ==
    LET counted == [s EXCEPT !.closing = [w \in Workspaces |->
                        IF Within(s, t, w) THEN @[w] + 1 ELSE @[w]]]
        w == Holder(s, t)
        out == DropIfEmpty(RemoveChild(counted, w, t), w)
    IN  [out EXCEPT !.tab = Restrict(@, DOMAIN @ \ {t})]

\* Parts::moved: what each client `now` moves out of a workspace that closed is
\* told, but the one that closed it: the outermost, the tabs closed in it, and
\* the workspace it is in.
Untold == [closed |-> Top, tabs |-> 0, here |-> Top]
Told(s, now, c) ==
    LET was == Path(s, ShownTab(s, c))
        closed == {i \in DOMAIN was : was[i] \in now.closed}
    IN  IF closed = {} THEN now.displaced[c]
        ELSE [closed |-> was[Min(closed)], tabs |-> now.closing[was[Min(closed)]],
              here |-> Holder(now, ShownTab(now, c))]

\* Mutant of Viewing: only those whose own workspace closed are told.
ViewingInner(s, now, actor) ==
    [now EXCEPT !.displaced = [c \in Clients |->
        IF c \in Attached(s) \intersect Attached(now) /\ c # actor
           /\ Holder(s, ShownTab(s, c)) \in now.closed
        THEN Told(s, [now EXCEPT !.closed = {Holder(s, ShownTab(s, c))}], c) ELSE @[c]]]

Viewing(s, now, actor) ==
    [now EXCEPT !.displaced = [c \in Clients |->
        IF c \in Attached(s) \intersect Attached(now) /\ c # actor
        THEN Told(s, now, c) ELSE @[c]]]

\* Parts::attach.
Seated(tab, c, p) == [tab EXCEPT !.seats = With(@, c, Seat(p))]
AttachAt(s, c, path) ==
    LET next(n) == {i \in 1..(Len(path) - 1) : path[i] = n}
        on(n) == IF next(n) = {} THEN Head(s.kids[n]) ELSE path[Min(next(n)) + 1]
    IN  [s EXCEPT !.shown = [n \in Nodes |->
                                IF s.kids[n] = <<>> THEN @[n] ELSE With(@[n], c, T!On(on(n)))],
                  !.tab = [t \in DOMAIN @ |->
                                IF next(t) = {} THEN Seated(@[t], c, Head(@[t].root))
                                ELSE SetFocus(Seated(@[t], c, Last(path)), {c}, Last(path))]]

\* Parts::forget.
Left(tab, c) == [tab EXCEPT !.seats = Restrict(@, DOMAIN @ \ {c})]
Forget(s, c) ==
    [s EXCEPT !.shown = [n \in Nodes |-> Restrict(@[n], DOMAIN @[n] \ {c})],
              !.tab = [t \in DOMAIN @ |-> Left(@[t], c)]]

\* Parts::show_path, of each of `clients`.
Shown(shown, clients, x) ==
    [c \in DOMAIN shown |-> IF c \in clients THEN T!Show(shown[c], x) ELSE shown[c]]
ShowPath(s, clients, path) ==
    LET above == SubSeq(path, 1, Len(path) - 1)
    IN  [s EXCEPT
            !.shown = [n \in Nodes |->
                IF n \in ToSet(above) THEN Shown(@[n], clients, path[Turn(above, n) + 1])
                ELSE @[n]],
            !.tab = [t \in DOMAIN @ |->
                IF Last(path) \in Panes /\ t \in ToSet(path)
                THEN SetFocus(@[t], clients, Last(path)) ELSE @[t]]]

\* Session::follow.
Follow(s, clients, x) == ShowPath(s, clients \intersect Attached(s), Path(s, x))

EditTab(s, t, root) == [s EXCEPT !.tab[t] = Edit(@, root)]

\* Parts::push_tab and push_workspaces.
Push(s, n, x) == [s EXCEPT !.kids[n] = Append(@, x)]
PushTab(s, w, t, tab) == [Push(s, w, t) EXCEPT !.tab = With(@, t, tab)]
PushWorkspace(s, n, w, t, tab) ==
    [PushTab(Push(s, n, w), w, t, tab) EXCEPT
        !.shown[w] = [c \in Attached(s) |-> T!On(t)]]

\* Parts::close_pane.
ClosePane(s, p, actor) ==
    LET t == TabOf(s, p)
    IN  Viewing(s, IF s.tab[t].root = <<p>> THEN DropTab(s, t)
                   ELSE EditTab(s, t, Without(s.tab[t].root, p)), actor)

\* Parts::remove_tab, for each of `tabs` (Session::kill).
Kill(s, tabs, actor) ==
    LET after[n \in 0..Len(tabs)] ==
            IF n = 0 THEN s
            ELSE Viewing(after[n - 1], DropTab(after[n - 1], tabs[n]), actor)
    IN  after[Len(tabs)]

\* Parts::relocated: taken in before its tab lets go.
LetGo(s, p, from) ==
    IF s.tab[from].root = <<p>> THEN DropTab(s, from)
    ELSE EditTab(s, from, Without(s.tab[from].root, p))
Relocate(s, taken, p, from, actor) == Viewing(s, LetGo(taken, p, from), actor)

\* Parts::move_workspace: in its place before what held it closes.
MoveInto(s, w, to, actor) ==
    LET from == Holder(s, w)
    IN  Viewing(s, DropIfEmpty(Push(RemoveChild(s, from, w), to, w), from), actor)

-----------------------------------------------------------------------------
(* Sizes.                                                                  *)

ShowsAll(root, area) == Len(root) <= area

\* Session::sizes: not a tab that holds the pane it runs in.
SizesTab(v, root) == v.size > 0 /\ v.runs \notin ToSet(root)
Sizing(s, vs, t, root) ==
    {c \in DOMAIN vs : ShownTab(s, c) = t /\ SizesTab(vs[c], root)}

\* Mutant of OnScreens: the smallest, even where its panes do not all fit.
OnScreensSmallest(tab, root, screens) ==
    IF tab.fixed \/ screens = {} THEN tab.size ELSE Min(screens)

\* Session::effective, on the screens that size it.
OnScreens(tab, root, screens) ==
    IF tab.fixed \/ screens = {} THEN tab.size
    ELSE IF Min(screens) = tab.size \/ ShowsAll(root, Min(screens)) THEN Min(screens)
    ELSE tab.size
Effective(s, vs, t, root, joining) ==
    LET joined == {c \in joining \intersect DOMAIN vs : SizesTab(vs[c], root)}
    IN  OnScreens(s.tab[t], root, {vs[c].size : c \in Sizing(s, vs, t, root) \union joined})

\* Session::room.
Room(s, vs, t, root, joining) == ShowsAll(root, Effective(s, vs, t, root, joining))

\* sized_on: where each pane is, of those that have a place, told by its turn,
\* how many there are and what they share.
Place(root, area, p) == <<Turn(root, p), Min({Len(root), area}), area>>
Unplaced == <<>>
Shows(tab, area, p) == p = tab.zoomed \/ Turn(tab.root, p) <= area
PlaceOf(tab, area, p) ==
    IF p = tab.zoomed THEN <<1, 1, area>> ELSE Place(tab.root, area, p)

\* Session::size_panes: the tabs a client sizes, and those that changed.
SizedTabs(s, vs) ==
    {t \in UsedTabs(s) : s.tab[t].changed \/ Sizing(s, vs, t, s.tab[t].root) # {}}
AreaOf(s, vs, t) == Effective(s, vs, t, s.tab[t].root, {})
ShownOn(tab, area) ==
    [tab EXCEPT !.size = IF tab.fixed THEN @ ELSE area, !.changed = FALSE]
SettledParts(s, vs, sized) ==
    [s EXCEPT !.tab = [t \in DOMAIN @ |->
                        IF t \in sized THEN ShownOn(@[t], AreaOf(s, vs, t)) ELSE @[t]],
              !.closing = [w \in Workspaces |-> 0], !.closed = {},
              !.displaced = [c \in Clients |-> Untold]]
NowAsked(s, sized) ==
    [p \in Panes |->
        IF p \notin UsedPanes(s) THEN Unplaced
        ELSE IF TabOf(s, p) \in sized /\ Shows(s.tab[TabOf(s, p)], s.tab[TabOf(s, p)].size, p)
        THEN PlaceOf(s.tab[TabOf(s, p)], s.tab[TabOf(s, p)].size, p)
        ELSE asked[p]]

\* Session::settle, of the tree `s` and views `vs` that `actor` made.
NothingSaid == [by |-> Outside, to |-> [c \in Clients |-> Untold]]
Said(s, actor) ==
    IF s.closed = {} THEN NothingSaid ELSE [by |-> actor, to |-> s.displaced]
Tell(now) ==
    told' = [p \in Panes |-> IF now[p] = asked[p] THEN told[p] ELSE now[p]]
Settle(s, vs, actor) ==
    LET sized == SizedTabs(s, vs)
        settled == SettledParts(s, vs, sized)
        now == NowAsked(settled, sized)
    IN  /\ parts' = settled /\ views' = vs
        /\ asked' = now /\ Tell(now)
        /\ said' = Said(s, actor)

\* Session::roll_back: the tree and views as they were, the sizes asked of its
\* panes, which were not told them, as they were to be.
RollBack(s, vs) ==
    LET sized == SizedTabs(s, vs)
        now == NowAsked(SettledParts(s, vs, sized), sized)
    IN  /\ asked' = [p \in Panes |-> IF p \in UsedPanes(parts) /\ now[p] # Unplaced
                                     THEN now[p] ELSE asked[p]]
        /\ said' = NothingSaid
        /\ UNCHANGED <<parts, views, told>>

\* Session::transact.
Transact(s, vs, actor) == Settle(s, vs, actor) \/ (Unwritten /\ RollBack(s, vs))

-----------------------------------------------------------------------------
(* What clients, commands and programs do.                                 *)

Going == Attached(parts) \union {Outside}    \* whom a request may be of
Serving == parts.kids[Top] # <<>>           \* Session::after_close

Init ==
    \E w \in Workspaces, t \in Tabs, p \in Panes, size \in Sizes :
        LET tab == [NewTab(p, FALSE, size, {}) EXCEPT !.changed = FALSE]
        IN  /\ parts = [kids |-> [n \in Nodes |->
                                    CASE n = Top -> <<w>> [] n = w -> <<t>> [] OTHER -> <<>>],
                        shown |-> [n \in Nodes |-> [c \in {} |-> None]],
                        tab |-> [u \in {t} |-> tab],
                        closing |-> [n \in Workspaces |-> 0], closed |-> {},
                        displaced |-> [c \in Clients |-> Untold]]
            /\ views = [c \in {} |-> None]
            /\ asked = [q \in Panes |-> IF q = p THEN PlaceOf(tab, size, p) ELSE Unplaced]
            /\ told = asked
            /\ said = NothingSaid

\* Session::attach_as.
Attach(c) ==
    /\ c \notin Attached(parts)
    /\ \E x \in Things(parts), size \in Screens,
          runs \in {None} \union (IF c \in Nested THEN UsedPanes(parts) ELSE {}) :
        LET vs == With(views, c, [size |-> size, runs |-> runs])
        IN  Transact(AttachAt(parts, c, Path(parts, x)), vs, c)

\* Session::detach.
Detach(c) == Settle(Forget(parts, c), Restrict(views, DOMAIN views \ {c}), Outside)

\* Session::resize.
ResizeClient(c) ==
    \E size \in Screens \ {views[c].size} :
        Settle(parts, [views EXCEPT ![c].size = size], Outside)

\* `show`, `next`, `focus`: Session::client.
Show(c) == \E x \in Things(parts) : Transact(Follow(parts, {c}, x), views, c)

\* Session::split: its own client follows, if it shows its tab, else those that
\* focus the pane split.
Split(here) ==
    \E new \in Panes \ UsedPanes(parts), p \in UsedPanes(parts) :
        LET t == TabOf(parts, p)
            root == InsertAt(parts.tab[t].root, Turn(parts.tab[t].root, p) + 1, new)
            in == {c \in Attached(parts) : ShownTab(parts, c) = t}
            followers == IF here \in Clients THEN in \intersect {here}
                         ELSE {c \in in : Focus(parts.tab[t], c) = p}
        IN  /\ Room(parts, views, t, root, {})
            /\ Transact(Follow(EditTab(parts, t, root), followers, new), views, here)

\* Session::close_pane: killed, or its program ended.
Close(by) == \E p \in UsedPanes(parts) : Settle(ClosePane(parts, p, by), views, by)
KillPane(here) == \E p \in UsedPanes(parts) : Transact(ClosePane(parts, p, here), views, here)

\* Session::kill.
KillTabs(here) ==
    \E x \in UsedTabs(parts) \union UsedWorkspaces(parts) \union {Top} :
        Transact(Kill(parts, IF x \in UsedTabs(parts) THEN <<x>> ELSE TabsIn(parts, x),
                            here), views, here)

\* Session::new_fit: a size given, the caller's screen, else its tab's size.
Fits(here) ==
    {<<TRUE, size>> : size \in Sizes}
        \union {<<FALSE, size>> :
                    size \in IF here \in Clients /\ views[here].size > 0 THEN {views[here].size}
                             ELSE {AreaOf(parts, views, t) :
                                    t \in IF here \in Clients THEN {ShownTab(parts, here)}
                                          ELSE UsedTabs(parts)}}

\* Session::create_tab and create_workspaces.
Create(here) ==
    \E p \in Panes \ UsedPanes(parts), t \in Tabs \ UsedTabs(parts), fit \in Fits(here) :
        LET tab == NewTab(p, fit[1], fit[2], Attached(parts))
        IN  \/ \E w \in UsedWorkspaces(parts) :
                Transact(Follow(PushTab(parts, w, t, tab), {here}, t), views, here)
            \/ \E n \in UsedWorkspaces(parts) \union {Top},
                  w \in Workspaces \ UsedWorkspaces(parts) :
                Transact(Follow(PushWorkspace(parts, n, w, t, tab), {here}, t), views, here)

\* Session::move_pane, to another tab there is or one made for it.
MovePane(here) ==
    \E p \in UsedPanes(parts) :
        LET from == TabOf(parts, p)
            tab == NewTab(p, FALSE, AreaOf(parts, views, from), Attached(parts))
            moved(taken) ==
                Transact(Follow(Relocate(parts, taken, p, from, here), {here}, p), views, here)
        IN  \/ \E to \in UsedTabs(parts) \ {from} :
                LET root == Append(parts.tab[to].root, p)
                IN  /\ Room(parts, views, to, root, {here})
                    /\ moved(EditTab(parts, to, root))
            \/ \E t \in Tabs \ UsedTabs(parts) :
                \/ moved(PushTab(parts, Holder(parts, from), t, tab))
                \/ \E w \in Workspaces \ UsedWorkspaces(parts) :
                    moved(PushWorkspace(parts, Top, w, t, tab))

\* Session::move_workspace.
MoveWorkspace(here) ==
    \E w \in UsedWorkspaces(parts), to \in UsedWorkspaces(parts) \union {Top} :
        /\ to # Holder(parts, w)
        /\ to = Top \/ ~Within(parts, to, w)
        /\ Transact(Follow(MoveInto(parts, w, to, here), {here}, w), views, here)

\* Parts::swap, of two tabs' panes.
Swap(here) ==
    \E p, q \in UsedPanes(parts) :
        LET swapped(root) == [i \in DOMAIN root |->
                CASE root[i] = p -> q [] root[i] = q -> p [] OTHER -> root[i]]
            a == TabOf(parts, p)
            b == TabOf(parts, q)
        IN  /\ a # b
            /\ Transact(EditTab(EditTab(parts, a, swapped(parts.tab[a].root)),
                                b, swapped(parts.tab[b].root)), views, here)

\* Parts::arrange and reshape: its panes in another order.
Arrange(here) ==
    \E t \in UsedTabs(parts) :
        \E root \in SetToSeqs(ToSet(parts.tab[t].root)) \ {parts.tab[t].root} :
            /\ Room(parts, views, t, root, {})
            /\ Transact(EditTab(parts, t, root), views, here)

\* Stack::reorder.
Reorder(here) ==
    \E n \in Nodes : \E i \in 1..(Len(parts.kids[n]) - 1) :
        Transact([parts EXCEPT !.kids[n] = SubSeq(@, 1, i - 1) \o <<@[i + 1], @[i]>>
                                           \o SubSeq(@, i + 2, Len(@))], views, here)

\* Parts::zoom, by whoever.
Zoom(here) ==
    \E p \in UsedPanes(parts) :
        Transact([parts EXCEPT !.tab[TabOf(parts, p)] =
                    Zoomed(@, IF @.zoomed = p THEN None ELSE p)], views, here)

\* Session::resize_tabs and Tab::set_fit, of one.
SetFit(here) ==
    \E t \in UsedTabs(parts) :
        LET tab == parts.tab[t]
        IN  \E fit \in {<<FALSE, tab.size>>} \union {<<TRUE, z>> : z \in Sizes} :
            /\ fit # <<tab.fixed, tab.size>>
            /\ fit[1] => ShowsAll(tab.root, fit[2])
            /\ Transact([parts EXCEPT !.tab[t].fixed = fit[1], !.tab[t].size = fit[2],
                                      !.tab[t].changed = TRUE], views, here)

\* Session::mouse: a button pressed in the focus, and released.
Holds(c, held) ==
    Settle([parts EXCEPT !.tab[ShownTab(parts, c)].seats[c].held = held], views, Outside)
Press(c) ==
    LET tab == parts.tab[ShownTab(parts, c)]
        area == AreaOf(parts, views, ShownTab(parts, c))
    IN  /\ views[c].size > 0 /\ Shows(tab, Min({area, views[c].size}), Focus(tab, c))
        /\ tab.seats[c].held = None
        /\ Holds(c, Focus(tab, c))
Release(c) ==
    /\ parts.tab[ShownTab(parts, c)].seats[c].held # None
    /\ Holds(c, None)

Next ==
    /\ Serving
    /\ \/ \E c \in Clients : Attach(c)
       \/ \E c \in Attached(parts) :
            Detach(c) \/ ResizeClient(c) \/ Show(c) \/ Press(c) \/ Release(c)
       \/ \E here \in Going :
            \/ Split(here) \/ KillPane(here) \/ KillTabs(here) \/ Create(here)
            \/ MovePane(here) \/ MoveWorkspace(here) \/ Swap(here) \/ Arrange(here)
            \/ Reorder(here) \/ Zoom(here) \/ SetFit(here)
       \/ Close(Outside)

Spec == Init /\ [][Next]_vars

-----------------------------------------------------------------------------
(* What is to hold.                                                        *)

\* Each pane is in one tab, and each tab and workspace in one place under the
\* top, none empty; every attached client is shown a child of each, and has a
\* focus in each tab, all of them there.
OneOf(shown, from) ==
    shown.current \in from /\ shown.last \in (from \union {None}) \ {shown.current}
TreeIsWhole ==
    /\ Attached(parts) = DOMAIN views
    /\ \A n, m \in Nodes : \A i \in DOMAIN parts.kids[n], j \in DOMAIN parts.kids[m] :
        parts.kids[n][i] = parts.kids[m][j] => n = m /\ i = j
    /\ UsedTabs(parts) = ToSet(TabsIn(parts, Top))
    /\ \A w \in UsedWorkspaces(parts) : Head(Path(parts, w)) = Top
    /\ \A t, u \in UsedTabs(parts) :
        LET a == parts.tab[t].root
            b == parts.tab[u].root
        IN  \A i \in DOMAIN a, j \in DOMAIN b : a[i] = b[j] => t = u /\ i = j
ViewsAreWhole ==
    /\ \A n \in UsedWorkspaces(parts) \union {Top} :
        /\ parts.kids[n] # <<>> => DOMAIN parts.shown[n] = DOMAIN views
        /\ \A c \in DOMAIN parts.shown[n] : OneOf(parts.shown[n][c], ToSet(parts.kids[n]))
    /\ \A t \in UsedTabs(parts) :
        LET tab == parts.tab[t]
        IN  /\ tab.root # <<>> /\ tab.zoomed \in ToSet(tab.root) \union {None}
            /\ DOMAIN tab.seats = DOMAIN views
            /\ \A c \in DOMAIN views : OneOf(tab.seats[c].focus, ToSet(tab.root))
SessionIsWhole == Serving => TreeIsWhole /\ ViewsAreWhole

\* Every pane that has a place is told the size it has there (size_panes, "Each
\* pane is told a size it was not told yet").
SizesFollow ==
    \A t \in UsedTabs(parts) : \A p \in ToSet(parts.tab[t].root) :
        LET area == AreaOf(parts, views, t)
        IN  Shows(parts.tab[t], area, p) => told[p] = PlaceOf(parts.tab[t], area, p)

\* A button a client holds is held in the pane it was pressed in, the one its
\* motion and release go to (Seat::held).
HeldIsHere ==
    \A t \in UsedTabs(parts) : \A c \in DOMAIN parts.tab[t].seats :
        parts.tab[t].seats[c].held \in {None, Focus(parts.tab[t], c)}

\* A client that another moves out of a workspace it closes is told so: of the
\* outermost it was in that closed, of every tab that did there, and of where
\* it is; and no other is (Parts::moved).
DisplacedAreTold ==
    [][\A c \in DOMAIN views \intersect DOMAIN views' :
        LET was == Path(parts, ShownTab(parts, c))
            closed == {i \in 2..(Len(was) - 1) : was[i] \notin UsedWorkspaces(parts')}
            outermost == was[Min(closed)]
            tabs == {t \in UsedTabs(parts) \ UsedTabs(parts') : Within(parts, t, outermost)}
        IN  parts'.kids[Top] # <<>> =>
            IF closed = {} THEN said'.to[c] = Untold
            ELSE said'.by = c \/ said'.to[c] =
                    [closed |-> outermost, tabs |-> Cardinality(tabs),
                     here |-> Holder(parts', ShownTab(parts', c))]]_vars

\* The tabs whose panes are not all shown.
Squeezed(s, vs) == {t \in UsedTabs(s) : ~ShowsAll(s.tab[t].root, AreaOf(s, vs, t))}

\* No split, move, client or other change hides a pane (Session::room, effective)
\* but in a tab that shows a client whose own tab closed.
OnlyClosingHides ==
    [][\A t \in Squeezed(parts', views') \ Squeezed(parts, views) :
        \E c \in DOMAIN views \intersect DOMAIN views' :
            /\ ShownTab(parts, c) \notin UsedTabs(parts')
            /\ ShownTab(parts', c) = t]_vars

\* "So a split or a move hides no pane" (Session::room).
NothingHides == Squeezed(parts, views) = {}
=============================================================================
