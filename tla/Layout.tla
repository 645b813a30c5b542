-------------------------------- MODULE Layout ---------------------------------
(***************************************************************************)
(* What a tab's layout gives its panes on a screen, and what changes it    *)
(* (fux-wire/src/layout.rs: place, resize, resize_to, neighbor), as its    *)
(* panes come, go and are moved by clients on screens of several sizes.    *)
(***************************************************************************)
EXTENDS Trees

CONSTANTS
    Panes,      \* the panes there may be
    Clients,    \* the clients that show the tab
    Sizes,      \* bound: the areas it is laid out on, <<columns, rows>>
    Ratios,     \* bound: the shares a split is made with
    Directions, \* bound: the ways its panes are split, moved and resized
    Amounts     \* bound: the cells a border is moved by

ASSUME LayoutAssumption ==
    /\ Sizes \subseteq Nat \X Nat
    /\ Ratios \subseteq (Nat \ {0}) \X (Nat \ {0})
    /\ Directions \subseteq {"left", "right", "up", "down"}
    /\ Amounts \subseteq Nat

MinLen == 2     \* MIN, the smallest pane

VARIABLE tree   \* the tab's layout

-----------------------------------------------------------------------------
(* Rectangles (struct Rect).                                               *)

Screen(size) == [x |-> 0, y |-> 0, w |-> size[1], h |-> size[2]]
Empty == [x |-> 0, y |-> 0, w |-> 0, h |-> 0]
IsEmpty(r) == r.w = 0 \/ r.h = 0
Length(r, axis) == IF axis = "horizontal" THEN r.w ELSE r.h
Start(r, axis) == IF axis = "horizontal" THEN r.x ELSE r.y
End(r, axis) == Start(r, axis) + Length(r, axis)
Along(r, axis, start, len) ==
    IF axis = "horizontal" THEN [r EXCEPT !.x = start, !.w = len]
    ELSE [r EXCEPT !.y = start, !.h = len]
Cells(r) == (r.x .. (r.x + r.w - 1)) \X (r.y .. (r.y + r.h - 1))

-----------------------------------------------------------------------------
(* Placing a tree.                                                         *)

\* Tree::least: the smallest length along `axis` each node can have.
Least(t, axis) ==
    LET least[w \in DOMAIN t] ==
            LET of(i) == least[Append(w, i)]
            IN  CASE t[w].is = "pane" -> MinLen
                  [] t[w].is = "split" /\ t[w].axis = axis -> of(1) + 1 + of(2)
                  [] OTHER -> Max({of(i) : i \in 1..Arity(t, w)})
    IN  least

\* Mutant of Lengths: the second's least is not left it.
LengthsOfTheFirst(shares, len, least) ==
    LET room == len - 1
        whole == shares[1] + shares[2]
        share == (2 * room * shares[1] + whole) \div (2 * whole)
        first == Max({share, least[1]})
    IN  CASE len > 0 /\ room >= least[1] + least[2] -> <<first, room - first>>
          [] (len = 0 \/ room < least[1] + least[2]) /\ len >= least[1] -> <<len, 0>>
          [] OTHER -> <<0, 0>>

\* Split::lengths: what its shares divide `len` cells in, the first rounded
\* half up, each at least its least.
Lengths(shares, len, least) ==
    LET room == len - 1
        whole == shares[1] + shares[2]
        share == (2 * room * shares[1] + whole) \div (2 * whole)
        first == Min({Max({share, least[1]}), room - least[2]})
    IN  CASE len > 0 /\ room >= least[1] + least[2] -> <<first, room - first>>
          [] (len = 0 \/ room < least[1] + least[2]) /\ len >= least[1] -> <<len, 0>>
          [] OTHER -> <<0, 0>>

LeastOf(t, w) ==
    LET least == Least(t, t[w].axis)
    IN  [i \in 1..2 |-> least[Append(w, i)]]

\* Split::parts: the first child's rectangle, the separator's, the second's.
Parted(area, axis, start, lens, line) ==
    <<Along(area, axis, start, lens[1]),
      Along(area, axis, start + lens[1], line),
      Along(area, axis, start + lens[1] + line, lens[2])>>
Separated(area, axis, lens) ==
    Parted(area, axis, Start(area, axis), lens, IF lens[2] > 0 THEN 1 ELSE 0)
Parts(t, w, area) ==
    Separated(area, t[w].axis,
              Lengths(t[w].shares, Length(area, t[w].axis), LeastOf(t, w)))
PartOf(i) == IF i = 1 THEN 1 ELSE 3     \* a child's among them

\* place_tree: every node's rectangle, a stack's children's each the whole of
\* its own.
Rects(t, area) ==
    LET rect[w \in DOMAIN t] ==
            IF w = <<>> THEN area
            ELSE IF t[Front(w)].is = "stack" THEN rect[Front(w)]
            ELSE Parts(t, Front(w), rect[Front(w)])[PartOf(Last(w))]
    IN  rect

\* Placement: the panes that have a rectangle.
Placed(t, rects) ==
    LET placed == {w \in Leaves(t) : ~IsEmpty(rects[w])}
    IN  [p \in {t[w].pane : w \in placed} |-> rects[Way(t, p)]]
Place(t, area) == Placed(t, Rects(t, area))

\* place_into for a client: at each stack its child alone.
PlaceFor(t, area, c) ==
    LET all == Place(t, area)
    IN  [p \in DOMAIN all \intersect ShownPanes(t, c) |-> all[p]]

\* The separators between what a client is shown.
LinesOf(t, ways, rects) == {Parts(t, w, rects[w])[2] : w \in ways}
Lines(t, area, c) ==
    {line \in LinesOf(t, {w \in ShownWays(t, c) : t[w].is = "split"}, Rects(t, area)) :
        ~IsEmpty(line)}

\* shows_all.
ShowsAll(t, area) == DOMAIN Place(t, area) = PanesOf(t)

-----------------------------------------------------------------------------
(* Moving borders.                                                         *)

\* What the lengths `l` of a split's two parts become where it is made `len`:
\* the one to give is the one moved from, the other keeps its length if it can.
Divided(l, least, len, firsts) ==
    LET kept(i) == Min({l[i], len - 1 - least[3 - i]})
    IN  CASE len = l[1] + 1 + l[2] -> l
          [] len # l[1] + 1 + l[2] /\ firsts -> <<len - 1 - kept(2), kept(2)>>
          [] OTHER -> <<kept(1), len - 1 - kept(1)>>
PartLengths(parts, axis) == <<Length(parts[1], axis), Length(parts[3], axis)>>

\* Mutant of Shared: what is below keeps its shares.
SharedAsItWas(node, lens) == node

Shared(node, lens) == [node EXCEPT !.shares = SharesOf(lens[1], lens[2])]

\* Tree::stretch: what each node at `w` and below it is of the tree, whose
\* `w` has `area` and is made `len` along `axis`.
Stretch(t, w, area, axis, len, edge, p) ==
    LET holds(v) == p \in PanesOf(Sub(t, v))
        firsts(v) == holds(Append(v, 1)) \/ (~holds(Append(v, 2)) /\ edge = "before")
        along(v, parts, to) == Divided(PartLengths(parts, axis), LeastOf(t, v), to.len, firsts(v))
        split(v, to, parts, lens) ==
            [node |-> IF t[v].axis = axis /\ to.len # Length(to.area, axis)
                      THEN Shared(t[v], lens) ELSE t[v],
             to |-> [i \in 1..2 |-> [area |-> parts[PartOf(i)], len |-> lens[i]]]]
        parted(v, to, parts) ==
            split(v, to, parts, IF t[v].axis = axis THEN along(v, parts, to) ELSE <<to.len, to.len>>)
        given(v, to) ==
            CASE t[v].is = "split" -> parted(v, to, Parts(t, v, to.area))
              [] t[v].is = "stack" -> [node |-> t[v], to |-> [i \in 1..Arity(t, v) |-> to]]
              [] OTHER -> [node |-> t[v], to |-> <<>>]
        below[v \in {v \in DOMAIN t : IsPrefix(w, v)}] ==
            given(v, IF v = w THEN [area |-> area, len |-> len]
                     ELSE below[Front(v)].to[Last(v)])
    IN  [v \in DOMAIN below |-> below[v].node]

\* Mutant of Moved: all the way or not at all.
MovedWhole(amount, room) == IF room >= amount THEN amount ELSE 0

\* How far of `amount` a border with `room` before it is moved.
Moved(amount, room) == Max({0, Min({amount, room})})

\* Split::move_border: the border of the split at `w`, its parts `parts`.
Bordered(t, w, parts, p, lens) ==
    LET edges == <<"after", "before">>
        stretched == [i \in 1..2 |->
            Stretch(t, Append(w, i), parts[PartOf(i)], t[w].axis, lens[i], edges[i], p)]
    IN  [v \in DOMAIN t |->
            IF v = w THEN Shared(t[w], lens)
            ELSE IF IsPrefix(w, v) THEN stretched[v[Len(w) + 1]][v] ELSE t[v]]
MoveBy(t, w, parts, p, l, toward, by) ==
    [t |-> IF by = 0 THEN t
           ELSE Bordered(t, w, parts, p,
                         IF toward = "after" THEN <<l[1] + by, l[2] - by>>
                         ELSE <<l[1] - by, l[2] + by>>),
     by |-> by]
MoveParts(t, w, parts, p, l, toward, amount) ==
    LET shrunk == IF toward = "after" THEN 2 ELSE 1
    IN  MoveBy(t, w, parts, p, l, toward, Moved(amount, l[shrunk] - LeastOf(t, w)[shrunk]))
MoveBorder(t, w, parts, p, toward, amount) ==
    MoveParts(t, w, parts, p, PartLengths(parts, t[w].axis), toward, amount)

NoBorder == -1

\* Tree::shift: the borders on `side` of `p`, from it out.
Shifted(did, step) ==
    [t |-> step.t, left |-> did.left - step.by,
     moved |-> IF did.moved = NoBorder THEN step.by ELSE did.moved + step.by]
Shift(t, p, way, rects, axis, side, toward, amount) ==
    LET up(n) == SubSeq(way, 1, n - 1)
        here(n) == /\ t[up(n)].is = "split" /\ t[up(n)].axis = axis
                   /\ (way[n] = 1) = (side = "after")
        each(n, did) ==
            IF here(n) /\ (did.moved = NoBorder \/ (side = toward /\ did.left > 0))
            THEN Shifted(did, MoveBorder(did.t, up(n), Parts(did.t, up(n), rects[up(n)]),
                                         p, toward, did.left))
            ELSE did
    IN  FoldRight(each, [n \in 1..Len(way) |-> n], [t |-> t, left |-> amount, moved |-> NoBorder])
ShiftBorders(t, area, p, axis, side, toward, amount) ==
    Shift(t, p, Way(t, p), Rects(t, area), axis, side, toward, amount)

\* resize, by `amount` cells toward `direction`: the border there, or with
\* none the other; `moved` is NoBorder where it does nothing.
Resize(t, area, p, direction, amount) ==
    LET toward == Side(direction)
        either(did, side) ==
            IF did.moved # NoBorder THEN did
            ELSE ShiftBorders(t, area, p, Axis(direction), side, toward, amount)
        none == [t |-> t, left |-> amount, moved |-> NoBorder]
    IN  IF ShowsAll(t, area) THEN FoldLeft(either, none, <<toward, Other(toward)>>) ELSE none

\* resize_to: one border moved, then the other; the tree as it was where it
\* does not get there.
LenOf(t, area, p, axis) == Length(Place(t, area)[p], axis)
Toward(t, area, p, axis, now, len, side) ==
    IF now = len THEN t
    ELSE ShiftBorders(t, area, p, axis, side, IF now < len THEN side ELSE Other(side),
                      Max({now - len, len - now})).t
Got(t, done, area, p, axis, len) ==
    IF ShowsAll(t, area) /\ LenOf(done, area, p, axis) = len
    THEN [ok |-> TRUE, t |-> done] ELSE [ok |-> FALSE, t |-> t]

\* Mutant of ResizeTo: its border after it alone is moved.
ResizeToAfter(t, area, p, axis, len) ==
    Got(t, Toward(t, area, p, axis, LenOf(t, area, p, axis), len, "after"), area, p, axis, len)

ResizeTo(t, area, p, axis, len) ==
    LET toward(s, side) == Toward(s, area, p, axis, LenOf(s, area, p, axis), len, side)
    IN  Got(t, FoldLeft(toward, t, <<"after", "before">>), area, p, axis, len)

\* neighbor: those a pane's next in `direction` is among, the nearest across
\* the direction, then along it; of those of one distance, the least id.
Neighbors(placed, from, direction) ==
    LET axis == Axis(direction)
        across == IF axis = "horizontal" THEN "vertical" ELSE "horizontal"
        source == placed[from]
        beyond == {p \in DOMAIN placed \ {from} :
                    IF Side(direction) = "before"
                    THEN End(placed[p], axis) <= Start(source, axis)
                    ELSE Start(placed[p], axis) >= End(source, axis)}
        centre(r, a) == Start(r, a) + End(r, a)
        apart(p, a) == LET d == centre(placed[p], a) - centre(source, a)
                       IN  Max({d, -d})
        nearer(p, q) ==
            \/ apart(p, across) < apart(q, across)
            \/ apart(p, across) = apart(q, across) /\ apart(p, axis) < apart(q, axis)
    IN  {p \in beyond : \A q \in beyond : ~nearer(q, p)}

-----------------------------------------------------------------------------
(* What changes it.                                                        *)

Areas == {Screen(size) : size \in Sizes}
Unused == Panes \ PanesOf(tree)

Init == tree \in {Leaf(p) : p \in Panes}

SplitPane(p) ==
    \E target \in PanesOf(tree), d \in Directions, shares \in Ratios :
        tree' = Split(tree, target, p, Axis(d), Side(d), shares)
StackPane(p) == \E target \in PanesOf(tree) : tree' = StackOn(tree, target, p)
Appended(p) == tree' = AppendPane(tree, p)
ClosePane(p) == PanesOf(tree) # {p} /\ tree' = RemovePane(tree, p)
SwapPanes(p) == \E q \in PanesOf(tree) \ {p} : tree' = Swap(tree, p, q)
MovePane(p) ==
    \E q \in PanesOf(tree) \ {p}, d \in Directions : tree' = MoveBeside(tree, p, q, d)
ShowPane(p) == \E c \in Clients : tree' = Reveal(tree, c, p)
ForgetClient(c) == tree' = Without(tree, {c})
ResizePane(p) ==
    \E area \in Areas, d \in Directions, n \in Amounts :
        tree' = Resize(tree, area, p, d, n).t
ResizePaneTo(p) ==
    \E area \in Areas, d \in Directions : \E len \in 0..Length(area, Axis(d)) :
        tree' = ResizeTo(tree, area, p, Axis(d), len).t

Next ==
    \/ \E p \in Unused : SplitPane(p) \/ StackPane(p) \/ Appended(p)
    \/ \E p \in PanesOf(tree) :
        \/ ClosePane(p) \/ SwapPanes(p) \/ MovePane(p) \/ ShowPane(p)
        \/ ResizePane(p) \/ ResizePaneTo(p)
    \/ \E c \in Clients : ForgetClient(c)

Spec == Init /\ [][Next]_tree

-----------------------------------------------------------------------------
(* What is to hold.                                                        *)

\* It is a tree of panes, each once, its choices children there are, its
\* shares at their least (enum Tree).
TypeOK ==
    /\ \A w \in DOMAIN tree : w = <<>> \/ Front(w) \in DOMAIN tree
    /\ \A v, w \in Leaves(tree) : tree[v] = tree[w] => v = w
    /\ PanesOf(tree) \subseteq Panes
    /\ \A w \in DOMAIN tree :
        LET n == Arity(tree, w)
        IN  CASE tree[w].is = "pane" -> n = 0
              [] tree[w].is = "split" ->
                    n = 2 /\ tree[w].shares = Shares(tree[w].shares[1], tree[w].shares[2])
              [] tree[w].is = "stack" ->
                    /\ n >= 2
                    /\ \A c \in DOMAIN tree[w].shown :
                        /\ tree[w].shown[c].current \in 1..n
                        /\ tree[w].shown[c].last \in 0..n \ {tree[w].shown[c].current}

\* On every screen no two panes or separators a client is shown share a cell,
\* and where it has room for all they leave none, each pane at its least or
\* more (place_into, shows_all).
ScreensAreTiled ==
    \A area \in Areas, c \in Clients :
        LET placed == PlaceFor(tree, area, c)
            lines == Lines(tree, area, c)
            parts == {Cells(placed[p]) : p \in DOMAIN placed} \union {Cells(r) : r \in lines}
            count == FoldSet(LAMBDA p, n : n + Cardinality(Cells(placed[p])), 0, DOMAIN placed)
                     + FoldSet(LAMBDA r, n : n + Cardinality(Cells(r)), 0, lines)
        IN  /\ UNION parts \subseteq Cells(area)
            /\ count = Cardinality(UNION parts)
            /\ ShowsAll(tree, area) =>
                /\ UNION parts = Cells(area)
                /\ \A p \in DOMAIN placed : Min({placed[p].w, placed[p].h}) >= MinLen

\* Both, as the run checks them.
TilingIsSound == TypeOK /\ ScreensAreTiled

Resizes == {<<area, p, d, n>> \in Areas \X PanesOf(tree) \X Directions \X Amounts :
                ShowsAll(tree, area)}

\* A border moved is moved as far as is said: the pane's on that side, it
\* growing, or with none there the other, it shrinking; its other edges stay,
\* and every pane is still shown (resize).
ResizesAreExact ==
    \A r \in Resizes :
        LET area == r[1]
            p == r[2]
            axis == Axis(r[3])
            did == Resize(tree, area, p, r[3], r[4])
            was == Place(tree, area)[p]
            now == Place(did.t, area)[p]
            grew == Length(now, axis) - Length(was, axis)
        IN  IF did.moved = NoBorder THEN did.t = tree
            ELSE /\ ShowsAll(did.t, area)
                 /\ did.moved \in 0..r[4] /\ grew \in {did.moved, -did.moved}
                 /\ IF (grew >= 0) = (Side(r[3]) = "after")
                    THEN Along(was, axis, Start(was, axis), Length(now, axis)) = now
                    ELSE Along(was, axis, Start(was, axis) - grew, Length(now, axis)) = now

\* Moved at once or a cell at a time, borders come to the same.
ResizesAdd ==
    \A r \in Resizes :
        LET whole == Resize(tree, r[1], r[2], r[3], r[4])
            some == Resize(tree, r[1], r[2], r[3], 1)
            rest == Resize(some.t, r[1], r[2], r[3], r[4] - 1)
        IN  r[4] > 1 => Place(whole.t, r[1]) = Place(rest.t, r[1])

\* A border moved comes out where it was moved to, in one step or in several,
\* though what is kept of it is shares.
ResizesMoveBorders == ResizesAreExact /\ ResizesAdd

\* What a pane can be resized to is what its borders leave it: to what it and
\* those beside it within its border need, to all but what the rest needs
\* (resize_to).
Attainable(t, area, p, axis) ==
    LET way == Way(t, p)
        least == Least(t, axis)
        splits == {n \in 1..Len(way) :
                    LET node == t[SubSeq(way, 1, n - 1)]
                    IN  node.is = "split" /\ node.axis = axis}
        beside(n) == Append(SubSeq(way, 1, n - 1), 3 - way[n])
        needed == FoldSet(LAMBDA n, sum : sum + 1 + least[beside(n)], 0, splits)
    IN  IF splits = {} THEN {Length(area, axis)}
        ELSE least[SubSeq(way, 1, Max(splits))] .. (Length(area, axis) - needed)
ResizesToWhatFits ==
    \A area \in {a \in Areas : ShowsAll(tree, a)}, p \in PanesOf(tree), d \in Directions :
        \A len \in 0..(Length(area, Axis(d)) + 1) :
            ResizeTo(tree, area, p, Axis(d), len).ok
                <=> len \in Attainable(tree, area, p, Axis(d))

\* A pane made and closed leaves all as it was, each client's choices too
\* (Tree::split, Tree::stack, Tree::remove).
ClosingUndoes ==
    \A p \in Unused, target \in PanesOf(tree) :
        /\ RemovePane(StackOn(tree, target, p), p) = tree
        /\ \A d \in Directions, shares \in Ratios :
            RemovePane(Split(tree, target, p, Axis(d), Side(d), shares), p) = tree

\* A client is shown what it was of the panes that stay (Stack::remove).
ShownStay ==
    \A p \in PanesOf(tree), c \in Clients :
        PanesOf(tree) # {p} =>
            ShownPanes(tree, c) \ {p} \subseteq ShownPanes(RemovePane(tree, p), c)

\* What comes and goes in a tree leaves what else a client chose there.
ChoicesStay == ClosingUndoes /\ ShownStay

\* Focus reaches every pane a client is shown from every other (neighbor).
Reached(placed, n) ==
    LET near(p) == UNION {Neighbors(placed, p, d) : d \in {"left", "right", "up", "down"}}
        reached[i \in 0..n] ==
            [p \in DOMAIN placed |->
                IF i = 0 THEN {p} ELSE reached[i - 1][p] \union UNION {near(q) : q \in reached[i - 1][p]}]
    IN  reached[n]
FocusReaches ==
    \A area \in Areas, c \in Clients :
        LET placed == PlaceFor(tree, area, c)
        IN  \A p \in DOMAIN placed : Reached(placed, Cardinality(DOMAIN placed))[p] = DOMAIN placed
=============================================================================
