--------------------------------- MODULE Trees ---------------------------------
(***************************************************************************)
(* A tab's layout as fux-wire/src/layout.rs keeps it (enum Tree): a pane, a *)
(* split of two trees, or a stack of two or more on one rectangle of which *)
(* each client is shown one.  A tree is a function from ways to nodes: the *)
(* way to a node is the index of each child gone into from the root.       *)
(***************************************************************************)
EXTENDS Integers, Sequences, SequencesExt, FiniteSets, FiniteSetsExt

None == 0

-----------------------------------------------------------------------------
(* What a client is shown of some alternatives (struct Shown).             *)

On(i) == [current |-> i, last |-> None]

\* Mutant of Show: the one shown again is the one before too.
ShowAgain(shown, i) == [current |-> i, last |-> shown.current]

\* Shown::show.
Show(shown, i) ==
    IF shown.current = i THEN shown ELSE [current |-> i, last |-> shown.current]

\* The alternatives of `was` near `i`: those after it, then those before it,
\* from it.
Near(was, i) ==
    LET at == IF i \in ToSet(was) THEN CHOOSE n \in DOMAIN was : was[n] = i ELSE 1
    IN  SubSeq(was, at, Len(was)) \o Reverse(SubSeq(was, 1, at - 1))

\* Shown::keep: of `was`, `kept` are left.
Keep(shown, was, kept, first) ==
    LET last == IF shown.last \in kept THEN shown.last ELSE None
        near == SelectSeq(Near(was, shown.current), LAMBDA i : i \in kept)
        next == IF near = <<>> THEN first ELSE Head(near)
    IN  CASE shown.current \in kept -> [shown EXCEPT !.last = last]
          [] shown.current \notin kept /\ last # None -> On(last)
          [] shown.current \notin kept /\ last = None /\ next # None -> On(next)
          [] OTHER -> [shown EXCEPT !.last = None]

-----------------------------------------------------------------------------
(* Trees and what is in them.                                              *)

PaneNode(p) == [is |-> "pane", pane |-> p]
SplitNode(axis, shares) == [is |-> "split", axis |-> axis, shares |-> shares]
StackNode(shown) == [is |-> "stack", shown |-> shown]
Unshown == [c \in {} |-> On(1)]

Leaf(p) == [w \in {<<>>} |-> PaneNode(p)]

\* The tree of a node and its children's trees.
Join(node, children) ==
    LET below == UNION {{<<i>> \o v : v \in DOMAIN children[i]} : i \in DOMAIN children}
    IN  [w \in below \union {<<>>} |->
            IF w = <<>> THEN node ELSE children[Head(w)][Tail(w)]]

\* The tree at `w`, and `t` with another there.
Sub(t, w) ==
    LET below == {u \in DOMAIN t : IsPrefix(w, u)}
    IN  [v \in {SubSeq(u, Len(w) + 1, Len(u)) : u \in below} |-> t[w \o v]]
Put(t, w, s) ==
    [u \in {u \in DOMAIN t : ~IsPrefix(w, u)} \union {w \o v : v \in DOMAIN s} |->
        IF IsPrefix(w, u) THEN s[SubSeq(u, Len(w) + 1, Len(u))] ELSE t[u]]

Arity(t, w) == Cardinality({u \in DOMAIN t : Len(u) = Len(w) + 1 /\ IsPrefix(w, u)})
Children(t, w) == [i \in 1..Arity(t, w) |-> Sub(t, Append(w, i))]

Leaves(t) == {w \in DOMAIN t : t[w].is = "pane"}
PanesOf(t) == {t[w].pane : w \in Leaves(t)}

\* Tree::way.
Way(t, p) == CHOOSE w \in Leaves(t) : t[w].pane = p

\* In tree order (struct Walk).
Precedes(v, w) ==
    LET first == {i \in DOMAIN v \intersect DOMAIN w : v[i] # w[i]}
    IN  IF first = {} THEN Len(v) < Len(w) ELSE v[Min(first)] < w[Min(first)]
PaneAt(t, ways) == [i \in DOMAIN ways |-> t[ways[i]].pane]
Order(t, ways) == PaneAt(t, SetToSortSeq(ways, Precedes))
InOrder(t) == Order(t, Leaves(t))

\* Stack::shown: a client with no choice is shown the first.
Choice(node, c) == IF c \in DOMAIN node.shown THEN node.shown[c] ELSE On(1)

\* The ways `c` is shown: at each stack its own child's (Tree::shown_panes).
ShownWays(t, c) ==
    {w \in DOMAIN t : \A n \in 1..Len(w) :
        t[SubSeq(w, 1, n - 1)].is = "stack" =>
            w[n] = Choice(t[SubSeq(w, 1, n - 1)], c).current}
ShownLeaves(t, c) == Leaves(t) \intersect ShownWays(t, c)
ShownPanes(t, c) == {t[w].pane : w \in ShownLeaves(t, c)}

\* Tree::first_pane, Tree::first_shown.
FirstPane(t) == Head(InOrder(t))
FirstShown(t, c) == Head(Order(t, ShownLeaves(t, c)))

-----------------------------------------------------------------------------
(* Changes.  Shares are a pair, at their least (struct Shares).            *)

Divides(d, n) == n % d = 0
Gcd(a, b) == Max({d \in 1..a : Divides(d, a) /\ Divides(d, b)})
\* Shares::new, and Shares::of cells.
Reduced(a, b, d) == <<a \div d, b \div d>>
Shares(a, b) == Reduced(a, b, Gcd(a, b))
SharesOf(a, b) == Shares(Max({a, 1}), Max({b, 1}))
Halved == <<1, 1>>

\* Tree::split: `new` beside `target`, dividing its room target to new.
Split(t, target, new, axis, side, shares) ==
    Put(t, Way(t, target),
        IF side = "after"
        THEN Join(SplitNode(axis, shares), <<Leaf(target), Leaf(new)>>)
        ELSE Join(SplitNode(axis, <<shares[2], shares[1]>>), <<Leaf(new), Leaf(target)>>))

\* Choices of what is at `from` or after are of what is `by` further.
Renumbered(shown, from, by) ==
    LET moved(i) == IF i >= from THEN i + by ELSE i
    IN  [c \in DOMAIN shown |->
            [current |-> moved(shown[c].current), last |-> moved(shown[c].last)]]

\* Mutant of Inserted: choices stay where they were.
InsertedAsItWas(node, at) == node

\* Stack::insert: each choice stays with its child.
Inserted(node, at) ==
    [node EXCEPT !.shown = Renumbered(@, at, 1)]

\* Tree::stack: `new` after `target` in the stack that holds it as a child,
\* else in one of the two.
StackOn(t, target, new) ==
    LET way == Way(t, target)
        up == Front(way)
    IN  IF way # <<>> /\ t[up].is = "stack"
        THEN LET at == Last(way) + 1
             IN  Put(t, up, Join(Inserted(t[up], at),
                                 InsertAt(Children(t, up), at, Leaf(new))))
        ELSE Put(t, way, Join(StackNode(Unshown), <<Leaf(target), Leaf(new)>>))

\* Mutant of Removed: choices stay where they were.
RemovedAsItWas(node, at, n) ==
    [node EXCEPT !.shown = [c \in DOMAIN @ |-> Keep(@[c], [i \in 1..n |-> i], 1..n \ {at}, 1)]]

\* Stack::remove's part for choices: each client shown the child that goes is
\* shown the one it was before, else its neighbour.
Removed(node, at, n) ==
    LET kept == [c \in DOMAIN node.shown |->
                    Keep(node.shown[c], [i \in 1..n |-> i], 1..n \ {at}, 1)]
    IN  [node EXCEPT !.shown = Renumbered(kept, at + 1, -1)]

\* Tree::remove of one of its panes: the sibling takes their split's place, a
\* stack left with one child becomes it.
RemovePane(t, p) ==
    LET way == Way(t, p)
        up == Front(way)
        at == Last(way)
        rest == RemoveAt(Children(t, up), at)
    IN  IF Len(rest) = 1 THEN Put(t, up, Head(rest))
        ELSE Put(t, up, Join(Removed(t[up], at, Len(rest) + 1), rest))

\* Tree::append.
AppendPane(t, p) == Join(SplitNode("horizontal", Halved), <<t, Leaf(p)>>)

\* Tree::swap: in one tree both, in two in turn each.
Swap(t, a, b) ==
    [w \in DOMAIN t |->
        CASE t[w] = PaneNode(a) -> PaneNode(b)
          [] t[w] = PaneNode(b) -> PaneNode(a)
          [] OTHER -> t[w]]

\* move_beside.
Axis(direction) == IF direction \in {"left", "right"} THEN "horizontal" ELSE "vertical"
Side(direction) == IF direction \in {"left", "up"} THEN "before" ELSE "after"
Other(side) == IF side = "before" THEN "after" ELSE "before"
MoveBeside(t, p, target, direction) ==
    Split(RemovePane(t, p), target, p, Axis(direction), Side(direction), Halved)

\* Tree::reveal: `p` shown `c` at each stack that holds it.
Reveal(t, c, p) ==
    LET way == Way(t, p)
        choose(node, at) ==
            [node EXCEPT !.shown = [d \in DOMAIN @ \union {c} |->
                IF d = c THEN Show(Choice(node, c), at) ELSE @[d]]]
    IN  [w \in DOMAIN t |->
            IF t[w].is = "stack" /\ IsStrictPrefix(w, way)
            THEN choose(t[w], way[Len(w) + 1]) ELSE t[w]]

\* Tree::forget, and a tree read from its flat form (from_nodes).
Without(t, clients) ==
    [w \in DOMAIN t |->
        IF t[w].is = "stack"
        THEN [t[w] EXCEPT !.shown = [c \in DOMAIN @ \ clients |-> @[c]]] ELSE t[w]]
=============================================================================
