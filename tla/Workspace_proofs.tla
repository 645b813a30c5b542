--------------------------- MODULE Workspace_proofs ---------------------------
(***************************************************************************)
(* Proofs of what Workspace says of tabs and panes: a button is held where *)
(* its client focuses (HeldIsHere), and a session whose records are        *)
(* written tells every pane that has a place its size there (SizesFollow). *)
(***************************************************************************)
EXTENDS Workspace, Iteration, TLAPS, FiniteSetTheorems, WellFoundedInduction

-----------------------------------------------------------------------------
(* The inductive invariant.                                                *)

PartsFields == {"kids", "shown", "tab", "closing", "closed", "displaced"}
TabFields == {"root", "zoomed", "fixed", "size", "changed", "seats"}
SeatFields == {"focus", "held"}

\* A tab's panes, and what its clients hold, if anything: what they focus.
SeatSound(tab, c) ==
    /\ DOMAIN tab.seats[c] = SeatFields
    /\ tab.seats[c].held \in {None, Focus(tab, c)}
TabSound(tab) ==
    /\ DOMAIN tab = TabFields
    /\ tab.root \in Seq(Panes)
    /\ \A c \in DOMAIN tab.seats : SeatSound(tab, c)

\* What the sizes of a tab's panes depend on has not changed.
SameSizes(tab, was) ==
    /\ tab.root = was.root /\ tab.zoomed = was.zoomed
    /\ tab.size = was.size /\ tab.changed = was.changed

\* No pane is in two tabs, or twice in one.
Apart(tabs) ==
    \A t, u \in DOMAIN tabs :
        \A i \in DOMAIN tabs[t].root, j \in DOMAIN tabs[u].root :
            tabs[t].root[i] = tabs[u].root[j] => t = u /\ i = j

\* A tree made of one whose tabs were `was`: those that changed say so.
Made(tab, t, was) ==
    TabSound(tab) /\ (tab.changed = TRUE \/ (t \in DOMAIN was /\ SameSizes(tab, was[t])))
TabsSound(s, was) ==
    DOMAIN s = PartsFields /\ \A t \in DOMAIN s.tab : Made(s.tab[t], t, was)
Sound(s, was) == TabsSound(s, was) /\ Apart(s.tab)

\* What the tree holds is workspaces and tabs, in order.
Held == Seq(Workspaces \union Tabs)
Typed(s) == DOMAIN s = PartsFields /\ s.kids \in [Nodes -> Held]

\* A settled session: each tab has the size its clients give it, and its panes
\* were asked theirs and, unless a record was not written, told them.
TabSettled(s, vs, t) ==
    s.tab[t].changed = FALSE /\ AreaOf(s, vs, t) = s.tab[t].size
AskedOfTab(s, ask, t) ==
    \A p \in ToSet(s.tab[t].root) :
        Shows(s.tab[t], s.tab[t].size, p) => ask[p] = PlaceOf(s.tab[t], s.tab[t].size, p)
ToldAsAsked(s, ask, tell) ==
    /\ \A t \in UsedTabs(s) : AskedOfTab(s, ask, t)
    /\ \A p \in Panes : tell[p] = ask[p]
Settled(s, vs) ==
    /\ Sound(s, s.tab) /\ Typed(s)
    /\ \A t \in UsedTabs(s) : TabSettled(s, vs, t)

IInv == Settled(parts, views) /\ (Unwritten \/ ToldAsAsked(parts, asked, told))

-----------------------------------------------------------------------------
(* What is done to a tab.                                                  *)

LEMMA NewTabSound ==
    ASSUME NEW p \in Panes, NEW fixed, NEW size, NEW clients
    PROVE  LET tab == NewTab(p, fixed, size, clients)
           IN  TabSound(tab) /\ tab.root = <<p>> /\ tab.changed = TRUE
BY DEF TabSound, SeatSound, NewTab, Seat, TabFields, SeatFields

LEMMA ZoomedSound ==
    ASSUME NEW tab, TabSound(tab), NEW p
    PROVE  LET z == Zoomed(tab, p)
           IN  /\ TabSound(z) /\ z.root = tab.root /\ z.zoomed = p
               /\ z = tab \/ z.changed = TRUE
<1>1. CASE tab.zoomed = p
  BY <1>1 DEF Zoomed
<1>2. CASE tab.zoomed # p
  <2> DEFINE z == Zoomed(tab, p)
             y == [tab EXCEPT !.zoomed = p]
             seats == [c \in DOMAIN tab.seats |->
                         Holding(tab.seats[c], Focus(tab, c) = Focus(y, c))]
  <2>1. DOMAIN tab = TabFields
    BY DEF TabSound
  <2>2. y.seats = tab.seats /\ y.zoomed = p
    BY <2>1 DEF TabFields
  <2>3. z = [y EXCEPT !.changed = TRUE, !.seats = seats]
    BY <1>2, <2>2 DEF Zoomed
  <2>4. /\ DOMAIN z = TabFields /\ z.root = tab.root /\ z.zoomed = p
        /\ z.changed = TRUE /\ z.seats = seats
    BY <2>1, <2>3 DEF TabFields
  <2>5. ASSUME NEW c \in DOMAIN z.seats
        PROVE  SeatSound(z, c)
    <3>1. /\ c \in DOMAIN tab.seats
          /\ z.seats[c] = Holding(tab.seats[c], Focus(tab, c) = Focus(y, c))
      BY <2>4, <2>5
    <3>2. SeatSound(tab, c)
      BY <3>1 DEF TabSound
    <3>3. /\ DOMAIN z.seats[c] = SeatFields
          /\ z.seats[c].held = IF Focus(tab, c) = Focus(y, c) THEN tab.seats[c].held ELSE None
          /\ z.seats[c].focus = tab.seats[c].focus
      BY <3>1, <3>2 DEF SeatSound, SeatFields, Holding
    <3>4. y.zoomed = z.zoomed /\ y.seats[c].focus = z.seats[c].focus
      BY <2>2, <2>4, <3>3
    <3> HIDE DEF y, z, seats
    <3>5. Focus(y, c) = Focus(z, c)
      BY <3>4 DEF Focus
    <3>. QED  BY <3>2, <3>3, <3>5 DEF SeatSound
  <2>6. z.root \in Seq(Panes)
    BY <2>4 DEF TabSound
  <2>. QED  BY <2>4, <2>5, <2>6 DEF TabSound
<1>. QED  BY <1>1, <1>2

LEMMA FocusedSound ==
    ASSUME NEW tab, TabSound(tab), NEW clients, NEW p,
           clients = {} \/ tab.zoomed \in {None, p}
    PROVE  LET f == Focused(tab, clients, p)
           IN  TabSound(f) /\ SameSizes(f, tab)
<1> DEFINE f == Focused(tab, clients, p)
           seats == [c \in DOMAIN tab.seats |->
                        IF c \in clients THEN Refocus(tab.seats[c], p) ELSE tab.seats[c]]
<1>1. f = [tab EXCEPT !.seats = seats]
  BY DEF Focused
<1>2. DOMAIN tab = TabFields
  BY DEF TabSound
<1>3. /\ DOMAIN f = TabFields /\ f.root = tab.root /\ f.zoomed = tab.zoomed
      /\ f.size = tab.size /\ f.changed = tab.changed /\ f.seats = seats
  BY <1>1, <1>2 DEF TabFields
<1>4. ASSUME NEW c \in DOMAIN f.seats
      PROVE  SeatSound(f, c)
  <2>1. c \in DOMAIN tab.seats
    BY <1>3, <1>4
  <2>2. SeatSound(tab, c)
    BY <2>1 DEF TabSound
  <2>3. CASE c \notin clients
    <3>1. f.seats[c] = tab.seats[c]
      BY <1>3, <2>1, <2>3
    <3>. QED  BY <3>1, <2>2, <1>3 DEF SeatSound, Focus
  <2>4. CASE c \in clients
    <3>1. f.seats[c] = Refocus(tab.seats[c], p)
      BY <1>3, <2>1, <2>4
    <3>2. T!Show(tab.seats[c].focus, p).current = p
      BY DEF T!Show
    <3>3. tab.zoomed \in {None, p}
      BY <2>4
    <3>4. DOMAIN f.seats[c] = SeatFields
      BY <3>1, <2>2 DEF SeatSound, Refocus, Holding, SeatFields
    <3>5. f.seats[c].focus.current = p
      BY <3>1, <3>2, <2>2 DEF SeatSound, Refocus, Holding, SeatFields
    <3>6. f.seats[c].held = IF tab.seats[c].focus.current = p THEN tab.seats[c].held ELSE None
      BY <3>1, <2>2 DEF SeatSound, Refocus, Holding, SeatFields
    <3>7. Focus(f, c) = p
      BY <3>3, <3>5, <1>3 DEF Focus
    <3>8. tab.seats[c].focus.current = p => Focus(tab, c) = p
      BY <3>3 DEF Focus
    <3>. QED  BY <3>4, <3>6, <3>7, <3>8, <2>2 DEF SeatSound
  <2>. QED  BY <2>3, <2>4
<1>5. f.root \in Seq(Panes)
  BY <1>3 DEF TabSound
<1>. QED  BY <1>3, <1>4, <1>5 DEF TabSound, SameSizes

LEMMA SetFocusSound ==
    ASSUME NEW tab, TabSound(tab), NEW clients, NEW p
    PROVE  LET f == SetFocus(tab, clients, p)
           IN  TabSound(f) /\ f.root = tab.root /\ (f.changed = TRUE \/ SameSizes(f, tab))
<1>1. CASE clients = {} \/ tab.zoomed \in {None, p}
  <2>1. SetFocus(tab, clients, p) = Focused(tab, clients, p)
    BY <1>1 DEF SetFocus
  <2>. QED  BY <1>1, <2>1, FocusedSound DEF SameSizes
<1>2. CASE ~(clients = {} \/ tab.zoomed \in {None, p})
  <2> DEFINE z == Zoomed(tab, None)
  <2>1. SetFocus(tab, clients, p) = Focused(z, clients, p)
    BY <1>2 DEF SetFocus
  <2>2. /\ TabSound(z) /\ z.root = tab.root /\ z.zoomed = None
        /\ z = tab \/ z.changed = TRUE
    BY ZoomedSound
  <2>3. z # tab
    BY <1>2, <2>2
  <2> HIDE DEF z
  <2>4. TabSound(Focused(z, clients, p)) /\ SameSizes(Focused(z, clients, p), z)
    BY <2>2, FocusedSound
  <2>. QED  BY <2>1, <2>2, <2>3, <2>4 DEF SameSizes
<1>. QED  BY <1>1, <1>2

LEMMA SeatedSound ==
    ASSUME NEW tab, TabSound(tab), NEW c, NEW p
    PROVE  LET g == Seated(tab, c, p)
           IN  TabSound(g) /\ SameSizes(g, tab)
<1> DEFINE g == Seated(tab, c, p)
<1>1. DOMAIN tab = TabFields
  BY DEF TabSound
<1>2. /\ DOMAIN g = TabFields /\ g.root = tab.root /\ g.zoomed = tab.zoomed
      /\ g.size = tab.size /\ g.changed = tab.changed
      /\ g.seats = With(tab.seats, c, Seat(p))
  BY <1>1 DEF Seated, TabFields
<1>3. ASSUME NEW d \in DOMAIN g.seats
      PROVE  SeatSound(g, d)
  <2>1. CASE d = c
    BY <1>2, <2>1 DEF With, Seat, SeatSound, SeatFields
  <2>2. CASE d # c
    <3>1. d \in DOMAIN tab.seats /\ g.seats[d] = tab.seats[d]
      BY <1>2, <1>3, <2>2 DEF With
    <3>. QED  BY <1>2, <3>1 DEF TabSound, SeatSound, Focus
  <2>. QED  BY <2>1, <2>2
<1>4. g.root \in Seq(Panes)
  BY <1>2 DEF TabSound
<1>. QED  BY <1>2, <1>3, <1>4 DEF TabSound, SameSizes

\* A tab that one client has left.
LEMMA LeftSound ==
    ASSUME NEW tab, TabSound(tab), NEW c
    PROVE  LET g == Left(tab, c)
           IN  TabSound(g) /\ SameSizes(g, tab)
<1> DEFINE g == Left(tab, c)
<1>1. DOMAIN tab = TabFields
  BY DEF TabSound
<1>2. /\ DOMAIN g = TabFields /\ g.root = tab.root /\ g.zoomed = tab.zoomed
      /\ g.size = tab.size /\ g.changed = tab.changed
      /\ g.seats = Restrict(tab.seats, DOMAIN tab.seats \ {c})
  BY <1>1 DEF TabFields, Left
<1>3. ASSUME NEW d \in DOMAIN g.seats
      PROVE  SeatSound(g, d)
  <2>1. d \in DOMAIN tab.seats /\ g.seats[d] = tab.seats[d]
    BY <1>2, <1>3 DEF Restrict
  <2>. QED  BY <1>2, <2>1 DEF TabSound, SeatSound, Focus
<1>4. g.root \in Seq(Panes)
  BY <1>2 DEF TabSound
<1>. QED  BY <1>2, <1>3, <1>4 DEF TabSound, SameSizes

LEMMA EditSound ==
    ASSUME NEW tab, TabSound(tab), NEW root \in Seq(Panes)
    PROVE  LET e == Edit(tab, root)
           IN  TabSound(e) /\ e.root = root /\ e.changed = TRUE
<1> DEFINE z == IF tab.zoomed \in ToSet(root) \union {None} THEN tab ELSE Zoomed(tab, None)
           e == Edit(tab, root)
           kept(c) == T!Keep(z.seats[c].focus, z.root, ToSet(root),
                             IF z.seats[c].focus.current \in ToSet(root) THEN None
                             ELSE Head(root))
           seats == [c \in DOMAIN z.seats |-> Moved(z.seats[c], kept(c))]
<1>1. TabSound(z)
  BY ZoomedSound
<1>2. e = Reseated(z, root)
  BY DEF Edit
<1>3. e = [z EXCEPT !.root = root, !.changed = TRUE, !.seats = seats]
  BY <1>2 DEF Reseated
<1> HIDE DEF z
<1>4. DOMAIN z = TabFields
  BY <1>1 DEF TabSound
<1>5. /\ DOMAIN e = TabFields /\ e.root = root /\ e.changed = TRUE
      /\ e.zoomed = z.zoomed /\ e.seats = seats
  BY <1>3, <1>4 DEF TabFields
<1>6. ASSUME NEW c \in DOMAIN e.seats
      PROVE  SeatSound(e, c)
  <2>1. c \in DOMAIN z.seats /\ e.seats[c] = Moved(z.seats[c], kept(c))
    BY <1>5, <1>6
  <2>2. SeatSound(z, c)
    BY <1>1, <2>1 DEF TabSound
  <2> HIDE DEF kept
  <2>3. /\ DOMAIN e.seats[c] = SeatFields /\ e.seats[c].focus = kept(c)
        /\ e.seats[c].held = IF kept(c).current = z.seats[c].focus.current
                             THEN z.seats[c].held ELSE None
    BY <2>1, <2>2 DEF Moved, Holding, SeatSound, SeatFields
  <2>4. kept(c).current = z.seats[c].focus.current => Focus(e, c) = Focus(z, c)
    BY <1>5, <2>3 DEF Focus
  <2>. QED  BY <2>2, <2>3, <2>4 DEF SeatSound
<1>. QED  BY <1>5, <1>6 DEF TabSound

-----------------------------------------------------------------------------
(* What is done to a tree: its tabs stay what they were,                   *)

SameTabs(r, s) == DOMAIN r = PartsFields /\ r.tab = s.tab

LEMMA SameTabsSound ==
    ASSUME NEW s, NEW r, NEW was, SameTabs(r, s)
    PROVE  /\ TabsSound(s, was) => TabsSound(r, was)
           /\ Apart(s.tab) => Apart(r.tab)
BY DEF SameTabs, TabsSound

LEMMA RemoveChildSame ==
    ASSUME NEW s, DOMAIN s = PartsFields, NEW n, NEW x
    PROVE  SameTabs(RemoveChild(s, n, x), s)
BY DEF RemoveChild, SameTabs, PartsFields

LEMMA DropWorkspaceSame ==
    ASSUME NEW s, DOMAIN s = PartsFields, NEW w
    PROVE  SameTabs(DropWorkspace(s, w), s)
<1>1. ASSUME NEW path, NEW closed
      PROVE  SameTabs(Dropped(s, path, closed), s)
  <2> DEFINE r == [s EXCEPT !.kids = [n \in Nodes |-> IF n \in closed THEN <<>> ELSE @[n]],
                          !.shown = [n \in Nodes |-> Restrict(@[n], IF n \in closed THEN {} ELSE DOMAIN @[n])],
                          !.closed = @ \union closed]
  <2>1. DOMAIN r = PartsFields /\ r.tab = s.tab
    BY DEF PartsFields
  <2>2. PICK n, x : Dropped(s, path, closed) = RemoveChild(r, n, x)
    BY DEF Dropped
  <2> HIDE DEF r
  <2>3. SameTabs(RemoveChild(r, n, x), r)
    BY <2>1, RemoveChildSame
  <2>. QED  BY <2>1, <2>2, <2>3 DEF SameTabs
<1>. QED  BY <1>1 DEF DropWorkspace

LEMMA DropIfEmptySame ==
    ASSUME NEW s, DOMAIN s = PartsFields, NEW w
    PROVE  SameTabs(DropIfEmpty(s, w), s)
BY DropWorkspaceSame DEF DropIfEmpty, SameTabs

LEMMA ViewingSame ==
    ASSUME NEW s, NEW now, DOMAIN now = PartsFields, NEW actor
    PROVE  SameTabs(Viewing(s, now, actor), now)
BY DEF Viewing, SameTabs, PartsFields

LEMMA PushSame ==
    ASSUME NEW s, DOMAIN s = PartsFields, NEW n, NEW x
    PROVE  SameTabs(Push(s, n, x), s)
BY DEF Push, SameTabs, PartsFields

LEMMA MoveIntoSame ==
    ASSUME NEW s, DOMAIN s = PartsFields, NEW w, NEW to, NEW actor
    PROVE  SameTabs(MoveInto(s, w, to, actor), s)
<1> DEFINE from == Holder(s, w)
           a == RemoveChild(s, from, w)
           b == Push(a, to, w)
           d == DropIfEmpty(b, from)
<1>1. SameTabs(a, s)
  BY RemoveChildSame
<1>2. SameTabs(b, a)
  BY <1>1, PushSame DEF SameTabs
<1>3. SameTabs(d, b)
  BY <1>2, DropIfEmptySame DEF SameTabs
<1>4. SameTabs(Viewing(s, d, actor), d)
  BY <1>3, ViewingSame DEF SameTabs
<1>5. MoveInto(s, w, to, actor) = Viewing(s, d, actor)
  BY DEF MoveInto
<1>. QED  BY <1>1, <1>2, <1>3, <1>4, <1>5 DEF SameTabs

-----------------------------------------------------------------------------
(* or one goes, or comes, or some change.                                  *)

LEMMA DropTabTabs ==
    ASSUME NEW s, DOMAIN s = PartsFields, NEW t
    PROVE  /\ DOMAIN DropTab(s, t) = PartsFields
           /\ DropTab(s, t).tab = Restrict(s.tab, DOMAIN s.tab \ {t})
<1> DEFINE counted == [s EXCEPT !.closing = [w \in Workspaces |->
                        IF Within(s, t, w) THEN @[w] + 1 ELSE @[w]]]
           w == Holder(s, t)
           a == RemoveChild(counted, w, t)
           out == DropIfEmpty(a, w)
<1>1. SameTabs(counted, s)
  BY DEF SameTabs, PartsFields
<1>2. DropTab(s, t) = [out EXCEPT !.tab = Restrict(@, DOMAIN @ \ {t})]
  BY DEF DropTab
<1> HIDE DEF counted, w
<1>3. SameTabs(a, s)
  BY <1>1, RemoveChildSame DEF SameTabs
<1> HIDE DEF a
<1>4. SameTabs(out, s)
  BY <1>3, DropIfEmptySame DEF SameTabs
<1> HIDE DEF out
<1>5. DOMAIN out = PartsFields /\ out.tab = s.tab
  BY <1>4 DEF SameTabs
<1>6. DropTab(s, t).tab = Restrict(out.tab, DOMAIN out.tab \ {t})
  BY <1>2, <1>5 DEF PartsFields
<1>7. DOMAIN DropTab(s, t) = PartsFields
  BY <1>2, <1>5
<1>. QED  BY <1>5, <1>6, <1>7

LEMMA DropTabSound ==
    ASSUME NEW s, NEW was, NEW t, TabsSound(s, was)
    PROVE  /\ TabsSound(DropTab(s, t), was)
           /\ Apart(s.tab) => Apart(DropTab(s, t).tab)
<1> DEFINE d == DropTab(s, t)
<1>1. /\ DOMAIN d = PartsFields /\ DOMAIN d.tab = DOMAIN s.tab \ {t}
      /\ \A u \in DOMAIN d.tab : d.tab[u] = s.tab[u]
  <2>1. DOMAIN s = PartsFields
    BY DEF TabsSound
  <2>2. DOMAIN d = PartsFields /\ d.tab = Restrict(s.tab, DOMAIN s.tab \ {t})
    BY <2>1, DropTabTabs
  <2>. QED  BY <2>2 DEF Restrict
<1> HIDE DEF d
<1>2. TabsSound(d, was)
  BY <1>1 DEF TabsSound
<1>3. Apart(s.tab) => Apart(d.tab)
  BY <1>1 DEF Apart
<1>. QED  BY <1>2, <1>3 DEF d

\* The tabs are other tabs of the same panes.
LEMMA RetabbedSound ==
    ASSUME NEW s, NEW was, NEW r, TabsSound(s, was),
           DOMAIN r = PartsFields, DOMAIN r.tab = DOMAIN s.tab,
           \A t \in DOMAIN s.tab :
                /\ TabSound(r.tab[t]) /\ r.tab[t].root = s.tab[t].root
                /\ r.tab[t].changed = TRUE \/ SameSizes(r.tab[t], s.tab[t])
    PROVE  /\ TabsSound(r, was)
           /\ Apart(s.tab) => Apart(r.tab)
<1>1. ASSUME NEW t \in DOMAIN r.tab
      PROVE  Made(r.tab[t], t, was)
  <2>1. Made(s.tab[t], t, was) /\ TabSound(r.tab[t])
    BY <1>1 DEF TabsSound
  <2>2. CASE r.tab[t].changed = TRUE
    BY <2>1, <2>2 DEF Made
  <2>3. CASE SameSizes(r.tab[t], s.tab[t])
    BY <2>1, <2>3 DEF Made, SameSizes
  <2>. QED  BY <1>1, <2>2, <2>3
<1>2. TabsSound(r, was)
  BY <1>1 DEF TabsSound
<1>3. Apart(s.tab) => Apart(r.tab)
  BY DEF Apart
<1>. QED  BY <1>2, <1>3

LEMMA AttachSound ==
    ASSUME NEW s, NEW was, NEW c, NEW path, TabsSound(s, was)
    PROVE  /\ TabsSound(AttachAt(s, c, path), was)
           /\ Apart(s.tab) => Apart(AttachAt(s, c, path).tab)
<1> DEFINE r == AttachAt(s, c, path)
           next(n) == {i \in 1..(Len(path) - 1) : path[i] = n}
           tab(t) == IF next(t) = {} THEN Seated(s.tab[t], c, Head(s.tab[t].root))
                     ELSE SetFocus(Seated(s.tab[t], c, Last(path)), {c}, Last(path))
<1>1. DOMAIN r = PartsFields /\ r.tab = [t \in DOMAIN s.tab |-> tab(t)]
  BY DEF AttachAt, TabsSound, PartsFields
<1>2. ASSUME NEW t \in DOMAIN s.tab
      PROVE  /\ TabSound(tab(t)) /\ tab(t).root = s.tab[t].root
             /\ tab(t).changed = TRUE \/ SameSizes(tab(t), s.tab[t])
  <2>1. TabSound(s.tab[t])
    BY <1>2 DEF TabsSound, Made
  <2>2. ASSUME NEW p
        PROVE  TabSound(Seated(s.tab[t], c, p)) /\ SameSizes(Seated(s.tab[t], c, p), s.tab[t])
    BY <2>1, SeatedSound
  <2>3. CASE next(t) = {}
    BY <2>2, <2>3 DEF SameSizes
  <2>4. CASE next(t) # {}
    <3> DEFINE g == Seated(s.tab[t], c, Last(path))
               f == SetFocus(g, {c}, Last(path))
    <3>1. TabSound(g) /\ SameSizes(g, s.tab[t])
      BY <2>2
    <3> HIDE DEF g
    <3>2. TabSound(f) /\ f.root = g.root /\ (f.changed = TRUE \/ SameSizes(f, g))
      BY <3>1, SetFocusSound
    <3>3. tab(t) = f
      BY <2>4 DEF g
    <3>. QED  BY <3>1, <3>2, <3>3 DEF SameSizes
  <2>. QED  BY <2>3, <2>4
<1> HIDE DEF r, tab
<1>3. ASSUME NEW t \in DOMAIN s.tab
      PROVE  /\ TabSound(r.tab[t]) /\ r.tab[t].root = s.tab[t].root
             /\ r.tab[t].changed = TRUE \/ SameSizes(r.tab[t], s.tab[t])
  BY <1>1, <1>2
<1>. QED  BY <1>1, <1>3, RetabbedSound DEF r

LEMMA ForgetSound ==
    ASSUME NEW s, NEW was, NEW c, TabsSound(s, was)
    PROVE  /\ TabsSound(Forget(s, c), was)
           /\ Apart(s.tab) => Apart(Forget(s, c).tab)
<1> DEFINE r == Forget(s, c)
<1>1. DOMAIN r = PartsFields /\ r.tab = [t \in DOMAIN s.tab |-> Left(s.tab[t], c)]
  BY DEF Forget, TabsSound, PartsFields
<1>2. ASSUME NEW t \in DOMAIN s.tab
      PROVE  TabSound(Left(s.tab[t], c)) /\ SameSizes(Left(s.tab[t], c), s.tab[t])
  <2>1. TabSound(s.tab[t])
    BY <1>2 DEF TabsSound, Made
  <2>. QED  BY <2>1, LeftSound
<1> HIDE DEF r
<1>3. ASSUME NEW t \in DOMAIN s.tab
      PROVE  /\ TabSound(r.tab[t]) /\ r.tab[t].root = s.tab[t].root
             /\ r.tab[t].changed = TRUE \/ SameSizes(r.tab[t], s.tab[t])
  BY <1>1, <1>2 DEF SameSizes
<1>. QED  BY <1>1, <1>3, RetabbedSound DEF r

LEMMA FollowSound ==
    ASSUME NEW s, NEW was, NEW clients, NEW x, TabsSound(s, was)
    PROVE  /\ TabsSound(Follow(s, clients, x), was)
           /\ Apart(s.tab) => Apart(Follow(s, clients, x).tab)
<1> DEFINE path == Path(s, x)
           cs == clients \intersect Attached(s)
           r == ShowPath(s, cs, path)
           shown == Last(path)
           tab(t) == IF shown \in Panes /\ t \in ToSet(path)
                     THEN SetFocus(s.tab[t], cs, shown) ELSE s.tab[t]
<1>0. Follow(s, clients, x) = r
  BY DEF Follow
<1> HIDE DEF path, cs
<1>1. DOMAIN r = PartsFields /\ r.tab = [t \in DOMAIN s.tab |-> tab(t)]
  BY DEF ShowPath, TabsSound, PartsFields
<1> HIDE DEF r, shown
<1>2. ASSUME NEW t \in DOMAIN s.tab
      PROVE  /\ TabSound(tab(t)) /\ tab(t).root = s.tab[t].root
             /\ tab(t).changed = TRUE \/ SameSizes(tab(t), s.tab[t])
  <2>1. TabSound(s.tab[t])
    BY <1>2 DEF TabsSound, Made
  <2>2. LET f == SetFocus(s.tab[t], cs, shown)
        IN  TabSound(f) /\ f.root = s.tab[t].root /\ (f.changed = TRUE \/ SameSizes(f, s.tab[t]))
    BY <2>1, SetFocusSound
  <2>3. CASE shown \in Panes /\ t \in ToSet(path)
    BY <2>2, <2>3
  <2>4. CASE ~(shown \in Panes /\ t \in ToSet(path))
    BY <2>1, <2>4 DEF SameSizes
  <2>. QED  BY <2>3, <2>4
<1> HIDE DEF tab
<1>3. ASSUME NEW t \in DOMAIN s.tab
      PROVE  /\ TabSound(r.tab[t]) /\ r.tab[t].root = s.tab[t].root
             /\ r.tab[t].changed = TRUE \/ SameSizes(r.tab[t], s.tab[t])
  BY <1>1, <1>2
<1>. QED  BY <1>0, <1>1, <1>3, RetabbedSound

LEMMA EditTabSound ==
    ASSUME NEW s, NEW was, NEW t \in DOMAIN s.tab, NEW root \in Seq(Panes), TabsSound(s, was)
    PROVE  LET r == EditTab(s, t, root)
           IN  /\ TabsSound(r, was) /\ DOMAIN r.tab = DOMAIN s.tab
               /\ \A u \in DOMAIN s.tab : r.tab[u].root = IF u = t THEN root ELSE s.tab[u].root
<1> DEFINE r == EditTab(s, t, root)
<1>1. /\ DOMAIN r = PartsFields /\ DOMAIN r.tab = DOMAIN s.tab
      /\ \A u \in DOMAIN s.tab : r.tab[u] = IF u = t THEN Edit(s.tab[t], root) ELSE s.tab[u]
  BY DEF EditTab, TabsSound, PartsFields
<1>2. TabSound(s.tab[t])
  BY DEF TabsSound, Made
<1>3. LET e == Edit(s.tab[t], root)
      IN  TabSound(e) /\ e.root = root /\ e.changed = TRUE
  BY <1>2, EditSound
<1> HIDE DEF r
<1>4. ASSUME NEW u \in DOMAIN r.tab
      PROVE  Made(r.tab[u], u, was)
  <2>1. CASE u = t
    BY <1>1, <1>3, <2>1 DEF Made
  <2>2. CASE u # t
    BY <1>1, <2>2 DEF TabsSound
  <2>. QED  BY <2>1, <2>2
<1>5. TabsSound(r, was)
  BY <1>1, <1>4 DEF TabsSound
<1>6. \A u \in DOMAIN s.tab : r.tab[u].root = IF u = t THEN root ELSE s.tab[u].root
  BY <1>1, <1>3
<1>. QED  BY <1>1, <1>5, <1>6 DEF r

-----------------------------------------------------------------------------
(* Panes in order.                                                         *)

OneEach(root) == \A i, j \in DOMAIN root : root[i] = root[j] => i = j

LEMMA ApartIs ==
    ASSUME NEW tabs
    PROVE  Apart(tabs) <=>
            /\ \A t \in DOMAIN tabs : OneEach(tabs[t].root)
            /\ \A t, u \in DOMAIN tabs :
                t # u => ToSet(tabs[t].root) \intersect ToSet(tabs[u].root) = {}
BY DEF Apart, OneEach, ToSet

LEMMA TurnIs ==
    ASSUME NEW root, NEW p \in ToSet(root)
    PROVE  Turn(root, p) \in DOMAIN root /\ root[Turn(root, p)] = p
<1>1. \E i \in DOMAIN root : root[i] = p
  BY DEF ToSet
<1>. QED  BY <1>1 DEF Turn

LEMMA WithoutIs ==
    ASSUME NEW root \in Seq(Panes), OneEach(root), NEW p \in ToSet(root)
    PROVE  LET rest == Without(root, p)
           IN  /\ rest \in Seq(Panes) /\ OneEach(rest)
               /\ ToSet(rest) \subseteq ToSet(root) \ {p}
<1> DEFINE k == Turn(root, p)
           a == SubSeq(root, 1, k - 1)
           b == SubSeq(root, k + 1, Len(root))
           rest == Without(root, p)
<1>1. k \in 1..Len(root) /\ root[k] = p
  BY TurnIs
<1> HIDE DEF k
<1>2. a \in Seq(Panes) /\ Len(a) = k - 1 /\ \A i \in 1..(k - 1) : a[i] = root[i]
  BY <1>1
<1>3. /\ b \in Seq(Panes) /\ Len(b) = Len(root) - k
      /\ \A i \in 1..(Len(root) - k) : b[i] = root[k + i]
  BY <1>1
<1>4. rest = a \o b
  BY DEF Without, RemoveAt, k
<1> HIDE DEF a, b
<1>5. rest \in Seq(Panes) /\ Len(rest) = Len(root) - 1
  BY <1>1, <1>2, <1>3, <1>4
<1>6. ASSUME NEW i \in 1..(Len(root) - 1)
      PROVE  rest[i] = root[IF i < k THEN i ELSE i + 1]
  <2>1. CASE i < k
    BY <1>1, <1>2, <1>3, <1>4, <2>1
  <2>2. CASE ~(i < k)
    <3>1. rest[i] = b[i - (k - 1)]
      BY <1>1, <1>2, <1>3, <1>4, <2>2
    <3>2. i - (k - 1) \in 1..(Len(root) - k) /\ k + (i - (k - 1)) = i + 1
      BY <1>1, <2>2
    <3>. QED  BY <3>1, <3>2, <1>3, <2>2
  <2>. QED  BY <2>1, <2>2
<1> HIDE DEF rest
<1>7. DOMAIN rest = 1..(Len(root) - 1) /\ DOMAIN root = 1..Len(root)
  BY <1>5
<1>8. OneEach(rest)
  <2> SUFFICES ASSUME NEW i \in DOMAIN rest, NEW j \in DOMAIN rest, rest[i] = rest[j]
               PROVE  i = j
    BY DEF OneEach
  <2> DEFINE at(n) == IF n < k THEN n ELSE n + 1
  <2>1. at(i) \in DOMAIN root /\ at(j) \in DOMAIN root /\ root[at(i)] = root[at(j)]
    BY <1>1, <1>6, <1>7
  <2>2. at(i) = at(j)
    BY <2>1 DEF OneEach
  <2>. QED  BY <1>1, <1>7, <2>2
<1>9. ToSet(rest) \subseteq ToSet(root) \ {p}
  <2> SUFFICES ASSUME NEW i \in DOMAIN rest
               PROVE  rest[i] \in ToSet(root) \ {p}
    BY DEF ToSet
  <2> DEFINE at == IF i < k THEN i ELSE i + 1
  <2>1. at \in DOMAIN root /\ at # k /\ rest[i] = root[at]
    BY <1>1, <1>6, <1>7
  <2>2. rest[i] # p
    BY <1>1, <1>7, <2>1 DEF OneEach
  <2>. QED  BY <2>1, <2>2 DEF ToSet
<1>. QED  BY <1>5, <1>8, <1>9 DEF rest

LEMMA BesideIs ==
    ASSUME NEW root \in Seq(Panes), OneEach(root), NEW p \in ToSet(root),
           NEW new \in Panes, new \notin ToSet(root)
    PROVE  LET more == InsertAt(root, Turn(root, p) + 1, new)
           IN  /\ more \in Seq(Panes) /\ OneEach(more)
               /\ ToSet(more) \subseteq ToSet(root) \union {new}
<1> DEFINE k == Turn(root, p)
           a == SubSeq(root, 1, k)
           b == SubSeq(root, k + 1, Len(root))
           more == InsertAt(root, k + 1, new)
<1>1. k \in 1..Len(root)
  BY TurnIs
<1> HIDE DEF k
<1>2. a \in Seq(Panes) /\ Len(a) = k /\ \A i \in 1..k : a[i] = root[i]
  BY <1>1
<1>3. /\ b \in Seq(Panes) /\ Len(b) = Len(root) - k
      /\ \A i \in 1..(Len(root) - k) : b[i] = root[k + i]
  BY <1>1
<1>4. more = (a \o <<new>>) \o b
  <2>1. (k + 1) - 1 = k
    BY <1>1
  <2>. QED  BY <2>1 DEF InsertAt
<1> HIDE DEF a, b
<1> DEFINE c == a \o <<new>>
<1>5. c \in Seq(Panes) /\ Len(c) = k + 1 /\ c[k + 1] = new /\ \A i \in 1..k : c[i] = root[i]
  BY <1>1, <1>2
<1>6a. more = c \o b
  BY <1>4
<1> HIDE DEF c, more
<1>6. more \in Seq(Panes) /\ Len(more) = Len(root) + 1
  BY <1>1, <1>3, <1>5, <1>6a
<1>7. ASSUME NEW i \in 1..(Len(root) + 1)
      PROVE  more[i] = IF i <= k THEN root[i] ELSE IF i = k + 1 THEN new ELSE root[i - 1]
  <2>1. CASE i <= k + 1
    BY <1>1, <1>3, <1>5, <1>6a, <2>1
  <2>2. CASE ~(i <= k + 1)
    <3> DEFINE n == i - (k + 1)
    <3>0. Len(root) \in Nat /\ Len(c) = k + 1 /\ Len(b) = Len(root) - k
      BY <1>3, <1>5
    <3>1. n \in 1..Len(b) /\ i = Len(c) + n /\ k + n = i - 1
      BY <1>1, <3>0, <2>2
    <3>2. more[i] = b[n]
      BY <1>3, <1>5, <1>6a, <3>1
    <3>3. b[n] = root[k + n]
      BY <1>3, <3>1
    <3>. QED  BY <1>1, <3>1, <3>2, <3>3, <2>2
  <2>. QED  BY <2>1, <2>2
<1>8. DOMAIN more = 1..(Len(root) + 1) /\ DOMAIN root = 1..Len(root)
  BY <1>6
<1>9. \A i \in DOMAIN root : root[i] # new
  BY DEF ToSet
<1>10. OneEach(more)
  <2> SUFFICES ASSUME NEW i \in DOMAIN more, NEW j \in DOMAIN more, more[i] = more[j]
               PROVE  i = j
    BY DEF OneEach
  <2> DEFINE at(n) == IF n <= k THEN n ELSE n - 1
  <2>1. \A n \in DOMAIN more : n # k + 1 => at(n) \in DOMAIN root /\ more[n] = root[at(n)]
    BY <1>1, <1>7, <1>8
  <2>2. more[k + 1] = new /\ k + 1 \in DOMAIN more
    BY <1>1, <1>7, <1>8
  <2> HIDE DEF at
  <2>3. CASE i = k + 1 \/ j = k + 1
    BY <2>1, <2>2, <2>3, <1>9
  <2>4. CASE ~(i = k + 1 \/ j = k + 1)
    <3>1. at(i) = at(j)
      BY <2>1, <2>4 DEF OneEach
    <3>. QED  BY <1>1, <1>8, <2>4, <3>1 DEF at
  <2>. QED  BY <2>3, <2>4
<1>11. ToSet(more) \subseteq ToSet(root) \union {new}
  <2> SUFFICES ASSUME NEW i \in DOMAIN more
               PROVE  more[i] \in ToSet(root) \union {new}
    BY DEF ToSet
  <2>. QED  BY <1>1, <1>7, <1>8 DEF ToSet
<1>. QED  BY <1>6, <1>10, <1>11 DEF more, k

-----------------------------------------------------------------------------
(* Panes that come and go, with their tabs.                                *)

LEMMA TabOfIs ==
    ASSUME NEW s, NEW p \in UsedPanes(s)
    PROVE  TabOf(s, p) \in DOMAIN s.tab /\ p \in ToSet(s.tab[TabOf(s, p)].root)
<1>1. \E t \in UsedTabs(s) : p \in ToSet(s.tab[t].root)
  BY DEF UsedPanes
<1>. QED  BY <1>1 DEF TabOf, UsedTabs

LEMMA NewTabTabs ==
    ASSUME NEW s, DOMAIN s = PartsFields, NEW n, NEW w, NEW t, NEW tab
    PROVE  /\ LET r == PushTab(s, n, t, tab)
              IN  DOMAIN r = PartsFields /\ r.tab = With(s.tab, t, tab)
           /\ LET r == PushWorkspace(s, n, w, t, tab)
              IN  DOMAIN r = PartsFields /\ r.tab = With(s.tab, t, tab)
<1>1. ASSUME NEW a, DOMAIN a = PartsFields, NEW m
      PROVE  LET r == PushTab(a, m, t, tab)
             IN  DOMAIN r = PartsFields /\ r.tab = With(a.tab, t, tab)
  <2>1. SameTabs(Push(a, m, t), a)
    BY <1>1, PushSame
  <2>. QED  BY <2>1 DEF PushTab, SameTabs, PartsFields
<1>2. SameTabs(Push(s, n, w), s)
  BY PushSame
<1> DEFINE a == Push(s, n, w)
           b == PushTab(a, w, t, tab)
<1>3. DOMAIN b = PartsFields /\ b.tab = With(s.tab, t, tab)
  BY <1>1, <1>2 DEF SameTabs
<1>4. PushWorkspace(s, n, w, t, tab)
        = [b EXCEPT !.shown[w] = [c \in Attached(s) |-> T!On(t)]]
  BY DEF PushWorkspace
<1> HIDE DEF b
<1>5. LET r == PushWorkspace(s, n, w, t, tab)
      IN  DOMAIN r = PartsFields /\ r.tab = With(s.tab, t, tab)
  BY <1>3, <1>4 DEF PartsFields
<1>. QED  BY <1>1, <1>5

\* Where t was not, a tab of one pane.
Fresh(tab) == TabSound(tab) /\ tab.changed = TRUE
Adds(r, s, t, tab) ==
    DOMAIN r = PartsFields /\ r.tab = With(s.tab, t, tab) /\ t \notin DOMAIN s.tab

LEMMA NewTabsSound ==
    ASSUME NEW s, NEW was, TabsSound(s, was), NEW r, NEW t, NEW tab,
           Fresh(tab), Adds(r, s, t, tab)
    PROVE  TabsSound(r, was)
<1>1. /\ DOMAIN r.tab = DOMAIN s.tab \union {t} /\ r.tab[t] = tab
      /\ \A u \in DOMAIN s.tab : r.tab[u] = s.tab[u]
  BY DEF With, Adds
<1>. QED  BY <1>1 DEF TabsSound, Made, Fresh, Adds

LEMMA AddsIs ==
    ASSUME NEW s, NEW r, NEW t, NEW tab, Adds(r, s, t, tab)
    PROVE  /\ DOMAIN r.tab = DOMAIN s.tab \union {t}
           /\ r.tab[t] = tab /\ \A u \in DOMAIN s.tab : r.tab[u] = s.tab[u]
BY DEF With, Adds

LEMMA OneIs ==
    ASSUME NEW p
    PROVE  OneEach(<<p>>) /\ ToSet(<<p>>) = {p}
BY DEF OneEach, ToSet

LEMMA NewTabsApart ==
    ASSUME NEW s, NEW r, NEW t, t \notin DOMAIN s.tab, NEW p, p \notin UsedPanes(s),
           DOMAIN r.tab = DOMAIN s.tab \union {t},
           r.tab[t].root = <<p>>, \A u \in DOMAIN s.tab : r.tab[u] = s.tab[u],
           Apart(s.tab)
    PROVE  Apart(r.tab)
<1>1. /\ \A u \in DOMAIN s.tab : OneEach(s.tab[u].root)
      /\ \A u, v \in DOMAIN s.tab :
            u # v => ToSet(s.tab[u].root) \intersect ToSet(s.tab[v].root) = {}
  BY ApartIs
<1>2. \A u \in DOMAIN s.tab : p \notin ToSet(s.tab[u].root)
  BY DEF UsedPanes, UsedTabs
<1>3. OneEach(r.tab[t].root) /\ ToSet(r.tab[t].root) = {p}
  BY OneIs
<1>4. \A u \in DOMAIN r.tab : OneEach(r.tab[u].root)
  BY <1>1, <1>3
<1>5. \A u, v \in DOMAIN r.tab :
        u # v => ToSet(r.tab[u].root) \intersect ToSet(r.tab[v].root) = {}
  BY <1>1, <1>2, <1>3
<1>. QED  BY <1>4, <1>5, ApartIs

\* No pane is in two tabs, but p, which its tab lets go.
ApartBut(s, p, from) ==
    /\ \A t \in DOMAIN s.tab : OneEach(s.tab[t].root)
    /\ \A t, u \in DOMAIN s.tab : t # u =>
        ToSet(s.tab[t].root) \intersect ToSet(s.tab[u].root)
            \subseteq IF from \in {t, u} THEN {p} ELSE {}

LEMMA LetGoSound ==
    ASSUME NEW s, NEW was, TabsSound(s, was),
           NEW from \in DOMAIN s.tab, NEW p \in ToSet(s.tab[from].root), ApartBut(s, p, from)
    PROVE  TabsSound(LetGo(s, p, from), was) /\ Apart(LetGo(s, p, from).tab)
<1> DEFINE r == LetGo(s, p, from)
<1>1. CASE s.tab[from].root = <<p>>
  <2>1. r = DropTab(s, from)
    BY <1>1 DEF LetGo
  <2>2. TabsSound(r, was)
    BY <2>1, DropTabSound
  <2>3. r.tab = Restrict(s.tab, DOMAIN s.tab \ {from})
    BY <2>1, DropTabTabs DEF TabsSound
  <2> HIDE DEF r
  <2>4. DOMAIN r.tab = DOMAIN s.tab \ {from} /\ \A u \in DOMAIN r.tab : r.tab[u] = s.tab[u]
    BY <2>3 DEF Restrict
  <2>5. Apart(r.tab)
    BY <2>4, ApartIs DEF ApartBut
  <2>. QED  BY <2>2, <2>5 DEF r
<1>2. CASE s.tab[from].root # <<p>>
  <2> DEFINE rest == Without(s.tab[from].root, p)
  <2>1. r = EditTab(s, from, rest)
    BY <1>2 DEF LetGo
  <2>2. s.tab[from].root \in Seq(Panes) /\ OneEach(s.tab[from].root)
    BY DEF TabsSound, Made, TabSound, ApartBut
  <2>3. /\ rest \in Seq(Panes) /\ OneEach(rest)
        /\ ToSet(rest) \subseteq ToSet(s.tab[from].root) \ {p}
    BY <2>2, WithoutIs
  <2> HIDE DEF rest
  <2>4. /\ TabsSound(r, was) /\ DOMAIN r.tab = DOMAIN s.tab
        /\ \A u \in DOMAIN s.tab : r.tab[u].root = IF u = from THEN rest ELSE s.tab[u].root
    BY <2>1, <2>3, EditTabSound
  <2> HIDE DEF r
  <2>5. \A u \in DOMAIN r.tab : OneEach(r.tab[u].root)
    BY <2>3, <2>4 DEF ApartBut
  <2>6. ASSUME NEW t \in DOMAIN r.tab, NEW u \in DOMAIN r.tab, t # u
        PROVE  ToSet(r.tab[t].root) \intersect ToSet(r.tab[u].root) = {}
    <3>1. ToSet(s.tab[t].root) \intersect ToSet(s.tab[u].root)
            \subseteq IF from \in {t, u} THEN {p} ELSE {}
      BY <2>4, <2>6 DEF ApartBut
    <3>2. CASE t = from
      BY <2>3, <2>4, <2>6, <3>1, <3>2
    <3>3. CASE u = from
      BY <2>3, <2>4, <2>6, <3>1, <3>3
    <3>4. CASE t # from /\ u # from
      BY <2>4, <2>6, <3>1, <3>4
    <3>. QED  BY <3>2, <3>3, <3>4
  <2>7. Apart(r.tab)
    BY <2>5, <2>6, ApartIs
  <2>. QED  BY <2>4, <2>7 DEF r
<1>. QED  BY <1>1, <1>2

LEMMA ApartButIs ==
    ASSUME NEW s, Apart(s.tab), NEW p, NEW from
    PROVE  ApartBut(s, p, from)
BY ApartIs DEF ApartBut

LEMMA ClosePaneSound ==
    ASSUME NEW s, NEW was, Sound(s, was), NEW p \in UsedPanes(s), NEW actor
    PROVE  Sound(ClosePane(s, p, actor), was)
<1> DEFINE t == TabOf(s, p)
           gone == LetGo(s, p, t)
<1>1. t \in DOMAIN s.tab /\ p \in ToSet(s.tab[t].root)
  BY TabOfIs
<1>2. ClosePane(s, p, actor) = Viewing(s, gone, actor)
  BY DEF ClosePane, LetGo
<1> HIDE DEF t
<1>3. TabsSound(gone, was) /\ Apart(gone.tab)
  BY <1>1, ApartButIs, LetGoSound DEF Sound
<1> HIDE DEF gone
<1>4. SameTabs(Viewing(s, gone, actor), gone)
  BY <1>3, ViewingSame DEF TabsSound
<1>. QED  BY <1>2, <1>3, <1>4, SameTabsSound DEF Sound

-----------------------------------------------------------------------------
(* What the tree holds stays what it may hold.                             *)

LEMMA WithoutTyped ==
    ASSUME NEW S, NEW root \in Seq(S), NEW x
    PROVE  Without(root, x) \in Seq(S)
<1>1. CASE x \in ToSet(root)
  <2> DEFINE k == Turn(root, x)
  <2>1. k \in 1..Len(root)
    BY <1>1, TurnIs
  <2>2. Without(root, x) = SubSeq(root, 1, k - 1) \o SubSeq(root, k + 1, Len(root))
    BY <1>1 DEF Without, RemoveAt
  <2> HIDE DEF k
  <2>3. SubSeq(root, 1, k - 1) \in Seq(S) /\ SubSeq(root, k + 1, Len(root)) \in Seq(S)
    BY <2>1
  <2>. QED  BY <2>2, <2>3
<1>2. CASE x \notin ToSet(root)
  BY <1>2 DEF Without
<1>. QED  BY <1>1, <1>2

LEMMA RemoveChildTyped ==
    ASSUME NEW s, Typed(s), NEW n, NEW x
    PROVE  Typed(RemoveChild(s, n, x))
<1> DEFINE rest == Without(s.kids[n], x)
           r == RemoveChild(s, n, x)
<1>1. DOMAIN r = PartsFields /\ r.kids = [s.kids EXCEPT ![n] = rest]
  BY DEF RemoveChild, Typed, PartsFields
<1>2. n \in Nodes => rest \in Held
  BY WithoutTyped DEF Typed, Held
<1> HIDE DEF rest, r
<1>3. r.kids \in [Nodes -> Held]
  BY <1>1, <1>2 DEF Typed
<1>. QED  BY <1>1, <1>3 DEF Typed, r

LEMMA DropWorkspaceTyped ==
    ASSUME NEW s, Typed(s), NEW w
    PROVE  Typed(DropWorkspace(s, w))
<1>1. ASSUME NEW path, NEW closed
      PROVE  Typed(Dropped(s, path, closed))
  <2> DEFINE kids == [n \in Nodes |-> IF n \in closed THEN <<>> ELSE s.kids[n]]
             r == [s EXCEPT !.kids = [n \in Nodes |-> IF n \in closed THEN <<>> ELSE @[n]],
                          !.shown = [n \in Nodes |-> Restrict(@[n], IF n \in closed THEN {} ELSE DOMAIN @[n])],
                          !.closed = @ \union closed]
  <2>1. DOMAIN r = PartsFields /\ r.kids = kids
    BY DEF Typed, PartsFields
  <2>2. PICK n, x : Dropped(s, path, closed) = RemoveChild(r, n, x)
    BY DEF Dropped
  <2> HIDE DEF r
  <2>3. kids \in [Nodes -> Held]
    BY DEF Typed, Held
  <2>. QED  BY <2>1, <2>2, <2>3, RemoveChildTyped DEF Typed
<1>. QED  BY <1>1 DEF DropWorkspace

LEMMA DropIfEmptyTyped ==
    ASSUME NEW s, Typed(s), NEW w
    PROVE  Typed(DropIfEmpty(s, w))
BY DropWorkspaceTyped DEF DropIfEmpty

LEMMA ViewingTyped ==
    ASSUME NEW s, NEW now, Typed(now), NEW actor
    PROVE  Typed(Viewing(s, now, actor))
BY DEF Viewing, Typed, PartsFields

LEMMA PushTyped ==
    ASSUME NEW s, Typed(s), NEW n, NEW x \in Workspaces \union Tabs
    PROVE  Typed(Push(s, n, x))
<1>1. DOMAIN Push(s, n, x) = PartsFields /\ Push(s, n, x).kids = [s.kids EXCEPT ![n] = Append(@, x)]
  BY DEF Push, Typed, PartsFields
<1>2. n \in Nodes => Append(s.kids[n], x) \in Held
  BY DEF Typed, Held
<1>. QED  BY <1>1, <1>2 DEF Typed

LEMMA MoveIntoTyped ==
    ASSUME NEW s, Typed(s), NEW w \in Workspaces, NEW to, NEW actor
    PROVE  Typed(MoveInto(s, w, to, actor))
<1> DEFINE from == Holder(s, w)
           b == Push(RemoveChild(s, from, w), to, w)
<1>1. Typed(b)
  BY RemoveChildTyped, PushTyped
<1>2. Typed(DropIfEmpty(b, from))
  BY <1>1, DropIfEmptyTyped
<1>. QED  BY <1>2, ViewingTyped DEF MoveInto

LEMMA DropTabTyped ==
    ASSUME NEW s, Typed(s), NEW t
    PROVE  Typed(DropTab(s, t))
<1> DEFINE counted == [s EXCEPT !.closing = [w \in Workspaces |->
                        IF Within(s, t, w) THEN @[w] + 1 ELSE @[w]]]
           w == Holder(s, t)
           out == DropIfEmpty(RemoveChild(counted, w, t), w)
<1>1. Typed(counted)
  BY DEF Typed, PartsFields
<1>2. DropTab(s, t) = [out EXCEPT !.tab = Restrict(@, DOMAIN @ \ {t})]
  BY DEF DropTab
<1> HIDE DEF counted, w
<1>3. Typed(out)
  BY <1>1, RemoveChildTyped, DropIfEmptyTyped
<1> HIDE DEF out
<1>. QED  BY <1>2, <1>3 DEF Typed, PartsFields

LEMMA PushTabTyped ==
    ASSUME NEW s, Typed(s), NEW n, NEW t \in Tabs, NEW tab
    PROVE  Typed(PushTab(s, n, t, tab))
<1>1. Typed(Push(s, n, t))
  BY PushTyped
<1>. QED  BY <1>1 DEF PushTab, Typed, PartsFields

LEMMA PushWorkspaceTyped ==
    ASSUME NEW s, Typed(s), NEW n, NEW w \in Workspaces, NEW t \in Tabs, NEW tab
    PROVE  Typed(PushWorkspace(s, n, w, t, tab))
<1> DEFINE b == PushTab(Push(s, n, w), w, t, tab)
<1>1. Typed(b)
  BY PushTyped, PushTabTyped
<1>2. PushWorkspace(s, n, w, t, tab)
        = [b EXCEPT !.shown[w] = [c \in Attached(s) |-> T!On(t)]]
  BY DEF PushWorkspace
<1> HIDE DEF b
<1>. QED  BY <1>1, <1>2 DEF Typed, PartsFields

\* The rest leaves what it holds.
LEMMA OtherTyped ==
    ASSUME NEW s, Typed(s)
    PROVE  /\ \A c, path : Typed(AttachAt(s, c, path))
           /\ \A c : Typed(Forget(s, c))
           /\ \A clients, x : Typed(Follow(s, clients, x))
           /\ \A t, root : Typed(EditTab(s, t, root))
<1>1. \A c, path : Typed(AttachAt(s, c, path))
  BY DEF AttachAt, Typed, PartsFields
<1>2. \A c : Typed(Forget(s, c))
  BY DEF Forget, Typed, PartsFields
<1>3. ASSUME NEW clients, NEW x
      PROVE  Typed(Follow(s, clients, x))
  <2> DEFINE cs == clients \intersect Attached(s)
             path == Path(s, x)
  <2>1. Typed(ShowPath(s, cs, path))
    <3> HIDE DEF cs, path
    <3>. QED  BY DEF ShowPath, Typed, PartsFields
  <2>. QED  BY <2>1 DEF Follow
<1>4. \A t, root : Typed(EditTab(s, t, root))
  BY DEF EditTab, Typed, PartsFields
<1>. QED  BY <1>1, <1>2, <1>3, <1>4

LEMMA RelocateTyped ==
    ASSUME NEW s, NEW taken, Typed(taken), NEW p, NEW from, NEW actor
    PROVE  Typed(LetGo(taken, p, from)) /\ Typed(Relocate(s, taken, p, from, actor))
BY DropTabTyped, OtherTyped, ViewingTyped DEF LetGo, Relocate

LEMMA ClosePaneTyped ==
    ASSUME NEW s, Typed(s), NEW p, NEW actor
    PROVE  Typed(ClosePane(s, p, actor))
BY DropTabTyped, OtherTyped, ViewingTyped DEF ClosePane

-----------------------------------------------------------------------------
(* Tab by tab.                                                             *)

\* Sequences one after another are a sequence.
LEMMA FlattenSeqIs ==
    ASSUME NEW S, NEW seqs \in Seq(Seq(S))
    PROVE  FlattenSeq(seqs) \in Seq(S)
<1>1. CASE Len(seqs) = 0
  BY <1>1 DEF FlattenSeq
<1>2. CASE Len(seqs) # 0
  <2>1. PICK N \in Nat : Len(seqs) = N + 1
    <3>1. Len(seqs) \in Nat /\ Len(seqs) - 1 \in Nat /\ Len(seqs) = (Len(seqs) - 1) + 1
      BY <1>2
    <3>. QED  BY <3>1
  <2>2. \A i \in 1..(N + 1) : seqs[i] \in Seq(S)
    BY <2>1
  <2> DEFINE step == [n \in 1..N |-> [x \in Seq(S) |-> x \o seqs[n + 1]]]
  <2>3. step \in [1..N -> [Seq(S) -> Seq(S)]]
    BY <2>2
  <2>4. seqs[1] \in Seq(S)
    BY <2>2
  <2> HIDE DEF step
  <2>5. PICK g \in [0..N -> Seq(S)] :
            \A n \in 0..N : g[n] = IF n = 0 THEN seqs[1] ELSE step[n][g[n - 1]]
    <3>1. Iterated(Seq(S), N, seqs[1], step)
      BY <2>1, <2>3, <2>4, Iterates
    <3>. QED  BY <3>1 DEF Iterated
  <2> DEFINE f == [i \in 1..(N + 1) |-> g[i - 1]]
  <2>6. ASSUME NEW i \in 1..(N + 1)
        PROVE  f[i] = IF i = 1 THEN seqs[i] ELSE f[i - 1] \o seqs[i]
    <3>1. CASE i = 1
      <4>1. f[i] = g[0]
        BY <3>1
      <4>2. 0 \in 0..N
        OBVIOUS
      <4>3. g[0] = seqs[1]
        BY <2>5, <4>2
      <4>. QED  BY <3>1, <4>1, <4>3
    <3>2. CASE i # 1
      <4>1. i - 1 \in 1..N /\ (i - 1) + 1 = i /\ i - 1 \in 0..N /\ i - 1 # 0
            /\ i - 1 \in 1..(N + 1) /\ (i - 1) - 1 \in 0..N
        BY <3>2
      <4>2. f[i] = step[i - 1][g[(i - 1) - 1]] /\ f[i - 1] = g[(i - 1) - 1]
        BY <2>5, <4>1
      <4>3. g[(i - 1) - 1] \in Seq(S)
        BY <4>1
      <4>. QED  BY <3>2, <4>1, <4>2, <4>3 DEF step
    <3>. QED  BY <3>1, <3>2
  <2>7. f = [i \in 1..(N + 1) |-> IF i = 1 THEN seqs[i] ELSE f[i - 1] \o seqs[i]]
    BY <2>6
  <2> HIDE DEF f
  <2>8. PICK h : /\ h = [i \in 1..(N + 1) |-> IF i = 1 THEN seqs[i] ELSE h[i - 1] \o seqs[i]]
                 /\ FlattenSeq(seqs) = h[N + 1]
    BY <1>2, <2>1, <2>7 DEF FlattenSeq
  <2> DEFINE Bad == {n \in 1..(N + 1) : h[n] \notin Seq(S)}
  <2>9. Bad = {}
    <3> SUFFICES ASSUME Bad # {}
                 PROVE  FALSE
      OBVIOUS
    <3>1. Bad \subseteq Nat
      OBVIOUS
    <3>2. PICK n \in Bad : \A m \in Bad : n <= m
      BY <3>1, NatMin
    <3>3. n \in 1..(N + 1) /\ h[n] \notin Seq(S)
      BY <3>2
    <3>4. n = 1 \/ (n - 1 \in 1..(N + 1) /\ n - 1 \notin Bad)
      BY <3>2, <3>3
    <3>5. n = 1 \/ h[n - 1] \in Seq(S)
      BY <3>4
    <3>6. h[n] = IF n = 1 THEN seqs[n] ELSE h[n - 1] \o seqs[n]
      BY <2>8, <3>3
    <3>. QED  BY <2>2, <3>3, <3>5, <3>6
  <2>10. N + 1 \in 1..(N + 1)
    OBVIOUS
  <2>11. N + 1 \notin Bad
    BY <2>9
  <2>12. h[N + 1] \in Seq(S)
    BY <2>10, <2>11
  <2>. QED  BY <2>8, <2>12
<1>. QED  BY <1>1, <1>2

LEMMA NodesFinite == Cardinality(Nodes) \in Nat
<1>1. IsFiniteSet(Nodes)
  BY WorkspaceAssumption, FS_AddElement DEF Nodes
<1>. QED  BY <1>1, FS_CardinalityType

LEMMA TabsInIs ==
    ASSUME NEW s, Typed(s), NEW w \in Nodes
    PROVE  Len(TabsIn(s, w)) \in Nat
<1> DEFINE S == Nodes \union Tabs
           under(x) == IF x \in Tabs THEN <<x>> ELSE s.kids[x]
           next(x) == FlattenSeq([i \in DOMAIN x |-> under(x[i])])
           N == Cardinality(Nodes)
           step == [n \in 1..N |-> [x \in Seq(S) |-> next(x)]]
<1>1. N \in Nat
  BY NodesFinite
<1>2. ASSUME NEW x \in S
      PROVE  under(x) \in Seq(S)
  <2>1. Held \subseteq Seq(S)
    BY DEF Held, Nodes
  <2>2. CASE x \in Tabs
    BY <2>2
  <2>3. CASE x \notin Tabs
    <3>1. x \in Nodes
      BY <2>3
    <3>. QED  BY <2>1, <2>3, <3>1 DEF Typed
  <2>. QED  BY <2>2, <2>3
<1> HIDE DEF S, under, N
<1>3. ASSUME NEW x \in Seq(S)
      PROVE  next(x) \in Seq(S)
  <2> DEFINE seqs == [i \in DOMAIN x |-> under(x[i])]
  <2>1. seqs \in Seq(Seq(S))
    <3>1. Len(x) \in Nat /\ DOMAIN x = 1..Len(x) /\ \A i \in 1..Len(x) : x[i] \in S
      OBVIOUS
    <3>2. \A i \in 1..Len(x) : under(x[i]) \in Seq(S)
      BY <1>2, <3>1
    <3>. QED  BY <3>1, <3>2
  <2> HIDE DEF seqs
  <2>2. FlattenSeq(seqs) \in Seq(S)
    BY <2>1, FlattenSeqIs
  <2>. QED  BY <2>2 DEF seqs
<1> HIDE DEF next
<1>4. step \in [1..N -> [Seq(S) -> Seq(S)]]
  BY <1>3
<1>5. <<w>> \in Seq(S)
  BY DEF S
<1> HIDE DEF step
<1>6. Iterated(Seq(S), N, <<w>>, step)
  BY <1>1, <1>4, <1>5, Iterates
<1>7. PICK g \in [0..N -> Seq(S)] :
        \A n \in 0..N : g[n] = IF n = 0 THEN <<w>> ELSE step[n][g[n - 1]]
  BY <1>6 DEF Iterated
<1>8. ASSUME NEW n \in 0..N
      PROVE  g[n] = IF n = 0 THEN <<w>> ELSE next(g[n - 1])
  <2>1. n # 0 => n \in 1..N /\ n - 1 \in 0..N
    BY <1>1
  <2>. QED  BY <1>7, <2>1 DEF step
<1>9. g = [n \in 0..N |-> IF n = 0 THEN <<w>> ELSE next(g[n - 1])]
  BY <1>8
<1>10. PICK h : /\ h = [n \in 0..N |-> IF n = 0 THEN <<w>> ELSE next(h[n - 1])]
                /\ TabsIn(s, w) = h[N]
  BY <1>9 DEF TabsIn, next, under, N
<1> DEFINE Bad == {n \in 0..N : h[n] \notin Seq(S)}
<1>11. Bad = {}
  <2> SUFFICES ASSUME Bad # {}
               PROVE  FALSE
    OBVIOUS
  <2>1. Bad \subseteq Nat
    BY <1>1
  <2>2. PICK n \in Bad : \A m \in Bad : n <= m
    BY <2>1, NatMin
  <2>3. n \in 0..N /\ h[n] \notin Seq(S)
    BY <2>2
  <2>4. n = 0 \/ (n - 1 \in 0..N /\ ~(n <= n - 1))
    BY <1>1, <2>3
  <2> HIDE DEF Bad
  <2>5. n = 0 \/ (n - 1 \in 0..N /\ n - 1 \notin Bad)
    BY <2>2, <2>4
  <2>6. n = 0 \/ h[n - 1] \in Seq(S)
    BY <2>5 DEF Bad
  <2>7. h[n] = IF n = 0 THEN <<w>> ELSE next(h[n - 1])
    BY <1>10, <2>3
  <2>. QED  BY <1>3, <1>5, <2>3, <2>6, <2>7
<1>12. N \in 0..N
  BY <1>1
<1>13. TabsIn(s, w) \in Seq(S)
  BY <1>10, <1>11, <1>12
<1>. QED  BY <1>13

\* A kill's tabs go one by one.
LEMMA KillSound ==
    ASSUME NEW s, NEW was, Sound(s, was), Typed(s), NEW tabs, Len(tabs) \in Nat, NEW actor
    PROVE  Sound(Kill(s, tabs, actor), was) /\ Typed(Kill(s, tabs, actor))
<1> DEFINE next(x, n) == Viewing(x, DropTab(x, tabs[n]), actor)
           After(g, n) == g = [k \in 0..n |-> IF k = 0 THEN s ELSE next(g[k - 1], k)]
           N == Len(tabs)
<1>1. ASSUME NEW x, Sound(x, was), Typed(x), NEW n
      PROVE  Sound(next(x, n), was) /\ Typed(next(x, n))
  <2> DEFINE d == DropTab(x, tabs[n])
  <2>1. TabsSound(d, was) /\ Apart(d.tab) /\ Typed(d)
    BY <1>1, DropTabSound, DropTabTyped DEF Sound
  <2> HIDE DEF d
  <2>2. SameTabs(Viewing(x, d, actor), d) /\ Typed(Viewing(x, d, actor))
    BY <2>1, ViewingSame, ViewingTyped DEF Typed
  <2>. QED  BY <2>1, <2>2, SameTabsSound DEF Sound, d
<1>2. N \in Nat
  OBVIOUS
<1> HIDE DEF N
<1> DEFINE Bad == {n \in 0..N : ~\E g : After(g, n)}
<1>3. Bad = {}
  <2> HIDE DEF next
  <2> SUFFICES ASSUME Bad # {}
               PROVE  FALSE
    OBVIOUS
  <2>1. Bad \subseteq Nat
    BY <1>2
  <2>2. PICK n \in Bad : \A m \in Bad : n <= m
    BY <2>1, NatMin
  <2>3. n \in 0..N /\ ~\E g : After(g, n)
    BY <2>2
  <2>4. n # 0
    <3>1. After([k \in 0..0 |-> s], 0)
      OBVIOUS
    <3>. QED  BY <2>3, <3>1
  <2>5. n - 1 \in 0..N /\ n - 1 \notin Bad
    <3>1. n - 1 \in 0..N /\ ~(n <= n - 1)
      BY <1>2, <2>3, <2>4
    <3> HIDE DEF Bad
    <3>. QED  BY <2>2, <3>1
  <2>6. PICK g : After(g, n - 1)
    BY <2>5
  <2>7. \A k \in 0..(n - 1) : g[k] = IF k = 0 THEN s ELSE next(g[k - 1], k)
    BY <2>6
  <2> DEFINE h == [k \in 0..n |-> IF k = n THEN next(g[n - 1], n) ELSE g[k]]
  <2>8. ASSUME NEW k \in 0..n
        PROVE  h[k] = IF k = 0 THEN s ELSE next(h[k - 1], k)
    <3>1. CASE k = n
      BY <1>2, <2>3, <2>4, <3>1
    <3>2. CASE k # n
      <4>1. k \in 0..(n - 1) /\ (k # 0 => k - 1 \in 0..(n - 1))
        BY <1>2, <2>3, <3>2
      <4>2. h[k] = g[k] /\ (k # 0 => h[k - 1] = g[k - 1])
        BY <1>2, <2>3, <4>1
      <4>. QED  BY <2>7, <4>1, <4>2
    <3>. QED  BY <3>1, <3>2
  <2>9. h = [k \in 0..n |-> h[k]]
    OBVIOUS
  <2> HIDE DEF h
  <2>10. After(h, n)
    BY <2>8, <2>9
  <2>. QED  BY <2>3, <2>10
<1>4. N \in 0..N /\ N \notin Bad
  BY <1>2, <1>3
<1>5. PICK g : After(g, N)
  BY <1>4
<1>6. PICK h : After(h, N) /\ Kill(s, tabs, actor) = h[N]
  BY <1>5 DEF Kill, N
<1> HIDE DEF next
<1>7. \A k \in 0..N : h[k] = IF k = 0 THEN s ELSE next(h[k - 1], k)
  BY <1>6
<1> DEFINE Fine(x) == Sound(x, was) /\ Typed(x)
           Broken == {n \in 0..N : ~Fine(h[n])}
<1>8. Broken = {}
  <2> HIDE DEF Fine
  <2> SUFFICES ASSUME Broken # {}
               PROVE  FALSE
    OBVIOUS
  <2>1. Broken \subseteq Nat
    BY <1>2
  <2>2. PICK n \in Broken : \A m \in Broken : n <= m
    BY <2>1, NatMin
  <2>3. n \in 0..N /\ ~Fine(h[n])
    BY <2>2
  <2>4. n = 0 \/ (n - 1 \in 0..N /\ ~(n <= n - 1))
    BY <1>2, <2>3
  <2> HIDE DEF Broken
  <2>5. n = 0 \/ (n - 1 \in 0..N /\ n - 1 \notin Broken)
    BY <2>2, <2>4
  <2>6. n = 0 \/ Fine(h[n - 1])
    BY <2>5 DEF Broken
  <2>7. h[n] = IF n = 0 THEN s ELSE next(h[n - 1], n)
    BY <1>7, <2>3
  <2>. QED  BY <1>1, <2>3, <2>6, <2>7 DEF Fine
<1>. QED  BY <1>4, <1>6, <1>8

-----------------------------------------------------------------------------
(* A session settles.                                                      *)

\* The screens of the clients that size a tab, which give it its area.
ScreensOf(s, vs, t) == {vs[c].size : c \in Sizing(s, vs, t, s.tab[t].root)}

LEMMA AreaIs ==
    ASSUME NEW s, NEW vs, NEW t
    PROVE  AreaOf(s, vs, t) = OnScreens(s.tab[t], s.tab[t].root, ScreensOf(s, vs, t))
<1> DEFINE root == s.tab[t].root
           joined == {c \in {} \intersect DOMAIN vs : SizesTab(vs[c], root)}
<1>1. joined = {}
  OBVIOUS
<1>2. AreaOf(s, vs, t)
        = OnScreens(s.tab[t], root, {vs[c].size : c \in Sizing(s, vs, t, root) \union joined})
  BY DEF AreaOf, Effective
<1> HIDE DEF joined
<1>3. Sizing(s, vs, t, root) \union joined = Sizing(s, vs, t, root)
  BY <1>1
<1>. QED  BY <1>2, <1>3 DEF ScreensOf

LEMMA ShownTabSame ==
    ASSUME NEW s, NEW r, NEW c, r.shown = s.shown
    PROVE  ShownTab(r, c) = ShownTab(s, c)
BY DEF ShownTab

LEMMA ScreensSame ==
    ASSUME NEW s, NEW r, NEW vs, NEW t, r.shown = s.shown, r.tab[t].root = s.tab[t].root
    PROVE  ScreensOf(r, vs, t) = ScreensOf(s, vs, t)
<1>1. \A c : ShownTab(r, c) = ShownTab(s, c)
  BY ShownTabSame
<1>2. Sizing(r, vs, t, r.tab[t].root) = Sizing(s, vs, t, s.tab[t].root)
  BY <1>1 DEF Sizing
<1>. QED  BY <1>2 DEF ScreensOf

Resized(g, tab, area) ==
    /\ g.root = tab.root /\ g.zoomed = tab.zoomed
    /\ g.fixed = tab.fixed /\ g.changed = FALSE
    /\ g.size = IF tab.fixed THEN tab.size ELSE area

LEMMA ShownOnSound ==
    ASSUME NEW tab, TabSound(tab), NEW area, NEW g, g = ShownOn(tab, area)
    PROVE  TabSound(g) /\ Resized(g, tab, area)
<1>1. DOMAIN tab = TabFields
  BY DEF TabSound
<1>2. /\ DOMAIN g = TabFields /\ g.root = tab.root /\ g.zoomed = tab.zoomed
      /\ g.fixed = tab.fixed /\ g.changed = FALSE /\ g.seats = tab.seats
      /\ g.size = IF tab.fixed THEN tab.size ELSE area
  BY <1>1 DEF ShownOn, TabFields
<1>3. TabSound(g)
  BY <1>2 DEF TabSound, SeatSound, Focus
<1>. QED  BY <1>2, <1>3 DEF Resized

\* A tab that has the area its clients give it keeps it.
LEMMA AreaStays ==
    ASSUME NEW tab, NEW g, NEW root, NEW screens, g.fixed = tab.fixed,
           g.size = IF tab.fixed THEN tab.size ELSE OnScreens(tab, root, screens)
    PROVE  OnScreens(g, root, screens) = g.size
BY DEF OnScreens

LEMMA SettledPartsSound ==
    ASSUME NEW s, NEW was, Sound(s, was), Typed(s), NEW vs,
           \A t \in DOMAIN was : was[t].changed = FALSE
    PROVE  LET r == SettledParts(s, vs, SizedTabs(s, vs))
           IN  /\ Settled(r, vs) /\ DOMAIN r.tab = DOMAIN s.tab
               /\ \A t \in DOMAIN r.tab \ SizedTabs(s, vs) :
                    t \in DOMAIN was /\ SameSizes(r.tab[t], was[t])
<1> DEFINE sized == SizedTabs(s, vs)
           r == SettledParts(s, vs, sized)
<1>1. /\ DOMAIN r = PartsFields /\ r.kids = s.kids /\ r.shown = s.shown
      /\ DOMAIN r.tab = DOMAIN s.tab
      /\ \A t \in DOMAIN s.tab : r.tab[t] =
            IF t \in sized THEN ShownOn(s.tab[t], AreaOf(s, vs, t)) ELSE s.tab[t]
  <2> HIDE DEF sized
  <2>. QED  BY DEF SettledParts, Typed, PartsFields
<1> HIDE DEF r
<1>2. ASSUME NEW t \in DOMAIN s.tab
      PROVE  TabSound(s.tab[t]) /\ Made(s.tab[t], t, was)
  BY <1>2 DEF Sound, TabsSound, Made
<1>3. ASSUME NEW t \in DOMAIN s.tab, t \in sized
      PROVE  /\ TabSound(r.tab[t]) /\ r.tab[t].root = s.tab[t].root
             /\ TabSettled(r, vs, t)
  <2> DEFINE area == AreaOf(s, vs, t)
  <2>1. r.tab[t] = ShownOn(s.tab[t], area)
    BY <1>1, <1>3
  <2> HIDE DEF area
  <2>2. /\ TabSound(r.tab[t]) /\ r.tab[t].root = s.tab[t].root
        /\ r.tab[t].fixed = s.tab[t].fixed /\ r.tab[t].changed = FALSE
        /\ r.tab[t].size = IF s.tab[t].fixed THEN s.tab[t].size ELSE area
    <3>1. TabSound(s.tab[t])
      BY <1>2
    <3>2. TabSound(r.tab[t]) /\ Resized(r.tab[t], s.tab[t], area)
      BY <2>1, <3>1, ShownOnSound
    <3>. QED  BY <3>2 DEF Resized
  <2>3. area = OnScreens(s.tab[t], s.tab[t].root, ScreensOf(s, vs, t))
    BY AreaIs DEF area
  <2>4. AreaOf(r, vs, t) = OnScreens(r.tab[t], s.tab[t].root, ScreensOf(s, vs, t))
    BY <1>1, <2>2, AreaIs, ScreensSame
  <2>5. OnScreens(r.tab[t], s.tab[t].root, ScreensOf(s, vs, t)) = r.tab[t].size
    BY <2>2, <2>3, AreaStays
  <2>. QED  BY <2>2, <2>4, <2>5 DEF TabSettled
<1>4. ASSUME NEW t \in DOMAIN s.tab, t \notin sized
      PROVE  /\ TabSound(r.tab[t]) /\ r.tab[t].root = s.tab[t].root
             /\ TabSettled(r, vs, t) /\ t \in DOMAIN was /\ SameSizes(r.tab[t], was[t])
  <2>1. r.tab[t] = s.tab[t]
    BY <1>1, <1>4
  <2>2. s.tab[t].changed # TRUE /\ Sizing(s, vs, t, s.tab[t].root) = {}
    BY <1>4 DEF SizedTabs, UsedTabs
  <2>3. t \in DOMAIN was /\ SameSizes(s.tab[t], was[t])
    BY <1>2, <2>2 DEF Made
  <2>4. ScreensOf(r, vs, t) = {}
    <3>1. ScreensOf(s, vs, t) = {}
      BY <2>2 DEF ScreensOf
    <3>. QED  BY <1>1, <2>1, <3>1, ScreensSame
  <2>5. AreaOf(r, vs, t) = r.tab[t].size
    BY <2>4, AreaIs DEF OnScreens
  <2>6. r.tab[t].changed = FALSE
    BY <2>1, <2>3 DEF SameSizes
  <2>. QED  BY <1>2, <2>1, <2>3, <2>5, <2>6 DEF TabSettled
<1>5. ASSUME NEW t \in DOMAIN r.tab
      PROVE  /\ TabSound(r.tab[t]) /\ r.tab[t].root = s.tab[t].root /\ TabSettled(r, vs, t)
  BY <1>1, <1>3, <1>4, <1>5
<1>6. Sound(r, r.tab)
  <2>1. TabsSound(r, r.tab)
    BY <1>1, <1>5 DEF TabsSound, Made, SameSizes
  <2>2. Apart(r.tab)
    BY <1>1, <1>5 DEF Sound, Apart
  <2>. QED  BY <2>1, <2>2 DEF Sound
<1>7. Typed(r)
  BY <1>1 DEF Typed
<1>8. Settled(r, vs)
  BY <1>5, <1>6, <1>7 DEF Settled, UsedTabs
<1>9. \A t \in DOMAIN r.tab \ sized : t \in DOMAIN was /\ SameSizes(r.tab[t], was[t])
  BY <1>1, <1>4
<1>. QED  BY <1>1, <1>8, <1>9 DEF r

\* What settles a session leaves it settled, whatever changed its tree.
LEMMA SettleSound ==
    ASSUME IInv, NEW s, Sound(s, parts.tab), Typed(s), NEW vs, NEW actor,
           Settle(s, vs, actor)
    PROVE  IInv'
<1> DEFINE sized == SizedTabs(s, vs)
           r == SettledParts(s, vs, sized)
           now == NowAsked(r, sized)
<1>1. /\ parts' = r /\ views' = vs /\ asked' = now
      /\ told' = [p \in Panes |-> IF now[p] = asked[p] THEN told[p] ELSE now[p]]
  BY DEF Settle, Tell
<1>2. /\ Settled(r, vs) /\ DOMAIN r.tab = DOMAIN s.tab
      /\ \A t \in DOMAIN r.tab \ sized :
            t \in DOMAIN parts.tab /\ SameSizes(r.tab[t], parts.tab[t])
  <2>1. \A t \in DOMAIN parts.tab : parts.tab[t].changed = FALSE
    BY DEF IInv, Settled, TabSettled, UsedTabs
  <2>. QED  BY <2>1, SettledPartsSound
<1> HIDE DEF r, sized, now
<1>3. ASSUME ToldAsAsked(parts, asked, told)
      PROVE  ToldAsAsked(r, now, told')
  <2>1. \A p \in Panes : now[p] =
            IF p \notin UsedPanes(r) THEN Unplaced
            ELSE IF TabOf(r, p) \in sized /\ Shows(r.tab[TabOf(r, p)], r.tab[TabOf(r, p)].size, p)
            THEN PlaceOf(r.tab[TabOf(r, p)], r.tab[TabOf(r, p)].size, p)
            ELSE asked[p]
    BY DEF now, NowAsked
  <2>2. \A p \in Panes : told'[p] = now[p]
    BY <1>1, <1>3 DEF ToldAsAsked
  <2>3. ASSUME NEW t \in UsedTabs(r), NEW p \in ToSet(r.tab[t].root),
               Shows(r.tab[t], r.tab[t].size, p)
        PROVE  now[p] = PlaceOf(r.tab[t], r.tab[t].size, p)
    <3>1. p \in UsedPanes(r)
      BY DEF UsedPanes
    <3>2. TabOf(r, p) = t
      <4>1. TabOf(r, p) \in DOMAIN r.tab /\ p \in ToSet(r.tab[TabOf(r, p)].root)
        BY <3>1, TabOfIs
      <4>2. Apart(r.tab)
        BY <1>2 DEF Settled, Sound
      <4> HIDE DEF Apart
      <4>. QED  BY <4>1, <4>2, ApartIs DEF UsedTabs
    <3>3. p \in Panes
      <4>1. r.tab[t].root \in Seq(Panes)
        BY <1>2 DEF Settled, Sound, TabsSound, Made, TabSound, UsedTabs
      <4>. QED  BY <4>1 DEF ToSet
    <3>4. CASE t \in sized
      BY <2>1, <2>3, <3>1, <3>2, <3>3, <3>4
    <3>5. CASE t \notin sized
      <4>1. t \in DOMAIN parts.tab /\ SameSizes(r.tab[t], parts.tab[t])
        BY <1>2, <3>5 DEF UsedTabs
      <4>2. AskedOfTab(parts, asked, t)
        BY <1>3, <4>1 DEF ToldAsAsked, UsedTabs
      <4>3. /\ Shows(parts.tab[t], parts.tab[t].size, p)
            /\ PlaceOf(r.tab[t], r.tab[t].size, p) = PlaceOf(parts.tab[t], parts.tab[t].size, p)
        BY <2>3, <4>1 DEF SameSizes, Shows, PlaceOf
      <4>4. asked[p] = PlaceOf(parts.tab[t], parts.tab[t].size, p)
        BY <4>1, <4>2, <4>3 DEF AskedOfTab, SameSizes
      <4>5. now[p] = asked[p]
        BY <2>1, <3>1, <3>2, <3>3, <3>5
      <4>. QED  BY <4>3, <4>4, <4>5
    <3>. QED  BY <3>4, <3>5
  <2>. QED  BY <2>2, <2>3 DEF ToldAsAsked, AskedOfTab
<1>4. Unwritten \/ ToldAsAsked(r, now, told')
  BY <1>3 DEF IInv
<1>. QED  BY <1>1, <1>2, <1>4 DEF IInv

-----------------------------------------------------------------------------
(* The invariant is one: each action makes a sound tree and settles it.    *)

LEMMA IInvFacts ==
    ASSUME IInv
    PROVE  Sound(parts, parts.tab) /\ Typed(parts) /\ TabsSound(parts, parts.tab) /\ Apart(parts.tab)
BY DEF IInv, Settled, Sound

LEMMA TransactSound ==
    ASSUME IInv, NEW s, Sound(s, parts.tab), Typed(s), NEW vs, NEW actor,
           Transact(s, vs, actor)
    PROVE  IInv'
<1>1. CASE Settle(s, vs, actor)
  BY <1>1, SettleSound
<1>2. CASE Unwritten /\ RollBack(s, vs)
  <2>1. parts' = parts /\ views' = views
    BY <1>2 DEF RollBack
  <2>. QED  BY <1>2, <2>1 DEF IInv
<1>. QED  BY <1>1, <1>2 DEF Transact

LEMMA FollowFine ==
    ASSUME NEW s, NEW was, Sound(s, was), Typed(s), NEW clients, NEW x
    PROVE  Sound(Follow(s, clients, x), was) /\ Typed(Follow(s, clients, x))
BY FollowSound, OtherTyped DEF Sound

LEMMA InitIInv ==
    ASSUME Init
    PROVE  IInv
<1>1. PICK w \in Workspaces, t \in Tabs, p \in Panes, size \in Sizes :
        LET tab == [NewTab(p, FALSE, size, {}) EXCEPT !.changed = FALSE]
        IN  /\ parts = [kids |-> [n \in Nodes |->
                                    CASE n = Top -> <<w>> [] n = w -> <<t>> [] OTHER -> <<>>],
                        shown |-> [n \in Nodes |-> [c \in {} |-> None]],
                        tab |-> [u \in {t} |-> tab],
                        closing |-> [n \in Workspaces |-> 0], closed |-> {},
                        displaced |-> [c \in Clients |-> Untold]]
            /\ views = [c \in {} |-> None]
            /\ asked = [q \in Panes |-> IF q = p THEN PlaceOf(tab, size, p) ELSE Unplaced]
            /\ told = asked
  BY DEF Init
<1> DEFINE tab == [NewTab(p, FALSE, size, {}) EXCEPT !.changed = FALSE]
<1>2. DOMAIN parts = PartsFields /\ parts.tab = [u \in {t} |-> tab] /\ views = [c \in {} |-> None]
  BY <1>1 DEF PartsFields
<1>3. parts.kids = [n \in Nodes |-> CASE n = Top -> <<w>> [] n = w -> <<t>> [] OTHER -> <<>>]
  BY <1>1
<1>4. /\ TabSound(tab) /\ tab.root = <<p>> /\ tab.changed = FALSE /\ tab.size = size
      /\ tab.fixed = FALSE
  <2>1. /\ DOMAIN tab = TabFields /\ tab.root = <<p>> /\ tab.changed = FALSE
        /\ tab.size = size /\ tab.fixed = FALSE /\ tab.seats = [c \in {} |-> Seat(p)]
    BY DEF NewTab, TabFields
  <2>2. <<p>> \in Seq(Panes)
    OBVIOUS
  <2>3. DOMAIN tab.seats = {}
    BY <2>1
  <2> HIDE DEF tab
  <2>. QED  BY <2>1, <2>2, <2>3 DEF TabSound
<1>5. asked = [q \in Panes |-> IF q = p THEN PlaceOf(tab, size, p) ELSE Unplaced] /\ told = asked
  BY <1>1
<1> HIDE DEF tab
<1>6. DOMAIN parts.tab = {t} /\ parts.tab[t] = tab
  BY <1>2
<1>7. Sound(parts, parts.tab)
  <2>1. TabsSound(parts, parts.tab)
    BY <1>2, <1>4, <1>6 DEF TabsSound, Made, SameSizes
  <2>2. OneEach(parts.tab[t].root)
    BY <1>4, <1>6, OneIs
  <2>3. Apart(parts.tab)
    BY <1>6, <2>2 DEF Apart, OneEach
  <2>. QED  BY <2>1, <2>3 DEF Sound
<1>8. Typed(parts)
  <2>1. ASSUME NEW n \in Nodes
        PROVE  (CASE n = Top -> <<w>> [] n = w -> <<t>> [] OTHER -> <<>>) \in Held
    <3>1. <<w>> \in Held /\ <<t>> \in Held /\ <<>> \in Held
      BY DEF Held
    <3>. QED  BY <3>1
  <2>. QED  BY <1>2, <1>3, <2>1 DEF Typed
<1>9. TabSettled(parts, views, t)
  <2>1. ScreensOf(parts, views, t) = {}
    BY <1>2 DEF ScreensOf, Sizing
  <2>. QED  BY <1>4, <1>6, <2>1, AreaIs DEF TabSettled, OnScreens
<1>10. ToldAsAsked(parts, asked, told)
  <2>1. AskedOfTab(parts, asked, t)
    BY <1>4, <1>5, <1>6, OneIs DEF AskedOfTab
  <2>. QED  BY <1>5, <1>6, <2>1 DEF ToldAsAsked, UsedTabs
<1>. QED  BY <1>6, <1>7, <1>8, <1>9, <1>10 DEF IInv, Settled, UsedTabs

LEMMA AttachIInv ==
    ASSUME IInv, NEW c, Attach(c)
    PROVE  IInv'
<1>1. PICK x, vs : Transact(AttachAt(parts, c, Path(parts, x)), vs, c)
  BY DEF Attach
<1> DEFINE s == AttachAt(parts, c, Path(parts, x))
<1>2. Sound(s, parts.tab) /\ Typed(s)
  BY IInvFacts, AttachSound, OtherTyped DEF Sound
<1>. QED  BY <1>1, <1>2, TransactSound

LEMMA DetachIInv ==
    ASSUME IInv, NEW c, Detach(c)
    PROVE  IInv'
<1>1. Sound(Forget(parts, c), parts.tab) /\ Typed(Forget(parts, c))
  BY IInvFacts, ForgetSound, OtherTyped DEF Sound
<1>. QED  BY <1>1, SettleSound DEF Detach

LEMMA ResizeClientIInv ==
    ASSUME IInv, NEW c, ResizeClient(c)
    PROVE  IInv'
BY IInvFacts, SettleSound DEF ResizeClient

LEMMA ShowIInv ==
    ASSUME IInv, NEW c, Show(c)
    PROVE  IInv'
BY IInvFacts, FollowFine, TransactSound DEF Show

LEMMA CloseIInv ==
    ASSUME IInv, NEW here, Close(here) \/ KillPane(here)
    PROVE  IInv'
<1>1. PICK p \in UsedPanes(parts) :
        \/ Settle(ClosePane(parts, p, here), views, here)
        \/ Transact(ClosePane(parts, p, here), views, here)
  BY DEF Close, KillPane
<1>2. Sound(ClosePane(parts, p, here), parts.tab) /\ Typed(ClosePane(parts, p, here))
  BY IInvFacts, ClosePaneSound, ClosePaneTyped
<1>. QED  BY <1>1, <1>2, SettleSound, TransactSound

LEMMA KillTabsIInv ==
    ASSUME IInv, NEW here, KillTabs(here)
    PROVE  IInv'
<1>1. PICK x \in UsedTabs(parts) \union UsedWorkspaces(parts) \union {Top} :
        Transact(Kill(parts, IF x \in UsedTabs(parts) THEN <<x>> ELSE TabsIn(parts, x), here),
                 views, here)
  BY DEF KillTabs
<1> DEFINE tabs == IF x \in UsedTabs(parts) THEN <<x>> ELSE TabsIn(parts, x)
<1>3. Len(tabs) \in Nat
  <2>1. CASE x \in UsedTabs(parts)
    BY <2>1
  <2>2. CASE x \notin UsedTabs(parts)
    <3>1. x \in Nodes
      BY <2>2 DEF UsedWorkspaces, Nodes
    <3>. QED  BY <2>2, <3>1, IInvFacts, TabsInIs
  <2>. QED  BY <2>1, <2>2
<1> HIDE DEF tabs
<1>4. Sound(Kill(parts, tabs, here), parts.tab) /\ Typed(Kill(parts, tabs, here))
  BY <1>3, IInvFacts, KillSound
<1>. QED  BY <1>1, <1>4, TransactSound DEF tabs

LEMMA EditedSound ==
    ASSUME NEW s, NEW was, Sound(s, was), Typed(s), NEW t \in DOMAIN s.tab,
           NEW root \in Seq(Panes), OneEach(root),
           \A u \in DOMAIN s.tab \ {t} : ToSet(root) \intersect ToSet(s.tab[u].root) = {}
    PROVE  Sound(EditTab(s, t, root), was) /\ Typed(EditTab(s, t, root))
<1> DEFINE r == EditTab(s, t, root)
<1>1. /\ TabsSound(r, was) /\ DOMAIN r.tab = DOMAIN s.tab
      /\ \A u \in DOMAIN s.tab : r.tab[u].root = IF u = t THEN root ELSE s.tab[u].root
  <2>1. TabsSound(s, was)
    BY DEF Sound
  <2>. QED  BY <2>1, EditTabSound
<1>2. Typed(r)
  BY OtherTyped
<1> HIDE DEF r
<1>3. /\ \A u \in DOMAIN s.tab : OneEach(s.tab[u].root)
      /\ \A u, v \in DOMAIN s.tab :
            u # v => ToSet(s.tab[u].root) \intersect ToSet(s.tab[v].root) = {}
  BY ApartIs DEF Sound
<1>4. \A u \in DOMAIN r.tab : OneEach(r.tab[u].root)
  BY <1>1, <1>3
<1>5. \A u, v \in DOMAIN r.tab :
        u # v => ToSet(r.tab[u].root) \intersect ToSet(r.tab[v].root) = {}
  BY <1>1, <1>3
<1>6. Apart(r.tab)
  BY <1>4, <1>5, ApartIs
<1>. QED  BY <1>1, <1>2, <1>6 DEF Sound, r

LEMMA SplitIInv ==
    ASSUME IInv, NEW here, Split(here)
    PROVE  IInv'
<1>0. PICK new \in Panes \ UsedPanes(parts), p \in UsedPanes(parts) :
        LET t == TabOf(parts, p)
            root == InsertAt(parts.tab[t].root, Turn(parts.tab[t].root, p) + 1, new)
        IN  \E followers :
                Transact(Follow(EditTab(parts, t, root), followers, new), views, here)
  BY DEF Split
<1> DEFINE t == TabOf(parts, p)
           old == parts.tab[t].root
           root == InsertAt(old, Turn(old, p) + 1, new)
           s == EditTab(parts, t, root)
<1>1. PICK followers : Transact(Follow(s, followers, new), views, here)
  BY <1>0
<1>2. t \in DOMAIN parts.tab /\ p \in ToSet(old)
  BY TabOfIs
<1>3. old \in Seq(Panes) /\ OneEach(old)
  BY <1>2, IInvFacts, ApartIs DEF TabsSound, Made, TabSound
<1>4. \A u \in DOMAIN parts.tab : new \notin ToSet(parts.tab[u].root)
  BY DEF UsedPanes, UsedTabs
<1>5. root \in Seq(Panes) /\ OneEach(root) /\ ToSet(root) \subseteq ToSet(old) \union {new}
  BY <1>2, <1>3, <1>4, BesideIs
<1>6. \A u \in DOMAIN parts.tab \ {t} : ToSet(old) \intersect ToSet(parts.tab[u].root) = {}
  BY <1>2, IInvFacts, ApartIs
<1>7. Transact(Follow(s, followers, new), views, here)
  BY <1>1
<1> HIDE DEF root, old, t
<1>8. Sound(s, parts.tab) /\ Typed(s)
  BY <1>2, <1>4, <1>5, <1>6, IInvFacts, EditedSound
<1> HIDE DEF s
<1>. QED  BY <1>7, <1>8, FollowFine, TransactSound

LEMMA CreateIInv ==
    ASSUME IInv, NEW here, Create(here)
    PROVE  IInv'
<1>1. PICK p \in Panes \ UsedPanes(parts), t \in Tabs \ UsedTabs(parts), fit \in Fits(here) :
        LET tab == NewTab(p, fit[1], fit[2], Attached(parts))
        IN  \/ \E w \in UsedWorkspaces(parts) :
                Transact(Follow(PushTab(parts, w, t, tab), {here}, t), views, here)
            \/ \E n \in UsedWorkspaces(parts) \union {Top},
                  w \in Workspaces \ UsedWorkspaces(parts) :
                Transact(Follow(PushWorkspace(parts, n, w, t, tab), {here}, t), views, here)
  BY DEF Create
<1> DEFINE tab == NewTab(p, fit[1], fit[2], Attached(parts))
<1>2. ASSUME NEW r, DOMAIN r = PartsFields, r.tab = With(parts.tab, t, tab), Typed(r)
      PROVE  Sound(r, parts.tab)
  <2>1. t \notin DOMAIN parts.tab
    BY DEF UsedTabs
  <2>2. /\ TabsSound(r, parts.tab) /\ DOMAIN r.tab = DOMAIN parts.tab \union {t}
        /\ r.tab[t].root = <<p>> /\ \A u \in DOMAIN parts.tab : r.tab[u] = parts.tab[u]
    <3>1. TabsSound(parts, parts.tab)
      BY IInvFacts
    <3>2. TabSound(tab) /\ tab.root = <<p>> /\ tab.changed = TRUE
      BY NewTabSound
    <3> HIDE DEF tab
    <3>3. Fresh(tab) /\ Adds(r, parts, t, tab)
      BY <1>2, <2>1, <3>2 DEF Fresh, Adds
    <3>4. TabsSound(r, parts.tab)
      BY <3>1, <3>3, NewTabsSound
    <3>. QED  BY <3>2, <3>3, <3>4, AddsIs
  <2>3. Apart(r.tab)
    BY <2>1, <2>2, IInvFacts, NewTabsApart
  <2>. QED  BY <2>2, <2>3 DEF Sound
<1>3. DOMAIN parts = PartsFields
  BY IInvFacts DEF Typed
<1> HIDE DEF tab
<1>4. ASSUME NEW w, Transact(Follow(PushTab(parts, w, t, tab), {here}, t), views, here)
      PROVE  IInv'
  <2> DEFINE r == PushTab(parts, w, t, tab)
  <2>1. Typed(r)
    BY IInvFacts, PushTabTyped
  <2>2. Sound(r, parts.tab)
    BY <1>2, <1>3, <2>1, NewTabTabs
  <2> HIDE DEF r
  <2>. QED  BY <1>4, <2>1, <2>2, FollowFine, TransactSound DEF r
<1>5. ASSUME NEW n, NEW w \in Workspaces,
             Transact(Follow(PushWorkspace(parts, n, w, t, tab), {here}, t), views, here)
      PROVE  IInv'
  <2> DEFINE r == PushWorkspace(parts, n, w, t, tab)
  <2>1. Typed(r)
    BY IInvFacts, PushWorkspaceTyped
  <2>2. Sound(r, parts.tab)
    BY <1>2, <1>3, <2>1, NewTabTabs
  <2> HIDE DEF r
  <2>. QED  BY <1>5, <2>1, <2>2, FollowFine, TransactSound DEF r
<1>. QED  BY <1>1, <1>4, <1>5 DEF tab

\* A pane that its tab lets go, once another has taken it in.
LEMMA RelocatedIInv ==
    ASSUME IInv, NEW here, NEW taken, NEW p, NEW from, NEW x,
           TabsSound(taken, parts.tab), Typed(taken),
           from \in DOMAIN taken.tab, p \in ToSet(taken.tab[from].root),
           ApartBut(taken, p, from),
           Transact(Follow(Relocate(parts, taken, p, from, here), {here}, x), views, here)
    PROVE  IInv'
<1> DEFINE gone == LetGo(taken, p, from)
           r == Relocate(parts, taken, p, from, here)
<1>1. TabsSound(gone, parts.tab) /\ Apart(gone.tab)
  BY LetGoSound
<1>2. Typed(r) /\ Typed(gone)
  BY RelocateTyped
<1>3. r = Viewing(parts, gone, here)
  BY DEF Relocate
<1> HIDE DEF gone, r
<1>4. SameTabs(r, gone)
  BY <1>2, <1>3, ViewingSame DEF Typed
<1>5. Sound(r, parts.tab)
  BY <1>1, <1>4, SameTabsSound DEF Sound
<1>. QED  BY <1>2, <1>5, FollowFine, TransactSound DEF r

LEMMA MovePaneIInv ==
    ASSUME IInv, NEW here, MovePane(here)
    PROVE  IInv'
<1>1. PICK p \in UsedPanes(parts) :
        LET from == TabOf(parts, p)
            tab == NewTab(p, FALSE, AreaOf(parts, views, from), Attached(parts))
            moved(taken) ==
                Transact(Follow(Relocate(parts, taken, p, from, here), {here}, p), views, here)
        IN  \/ \E to \in UsedTabs(parts) \ {from} :
                moved(EditTab(parts, to, Append(parts.tab[to].root, p)))
            \/ \E t \in Tabs \ UsedTabs(parts) :
                \/ moved(PushTab(parts, Holder(parts, from), t, tab))
                \/ \E w \in Workspaces \ UsedWorkspaces(parts) :
                    moved(PushWorkspace(parts, Top, w, t, tab))
  BY DEF MovePane
<1> DEFINE from == TabOf(parts, p)
           size == AreaOf(parts, views, from)
           tab == NewTab(p, FALSE, size, Attached(parts))
           moved(taken) ==
                Transact(Follow(Relocate(parts, taken, p, from, here), {here}, p), views, here)
<1>2. from \in DOMAIN parts.tab /\ p \in ToSet(parts.tab[from].root)
  BY TabOfIs
<1>3. /\ \A u \in DOMAIN parts.tab : OneEach(parts.tab[u].root)
      /\ \A u, v \in DOMAIN parts.tab :
            u # v => ToSet(parts.tab[u].root) \intersect ToSet(parts.tab[v].root) = {}
  BY IInvFacts, ApartIs
<1>4. /\ TabsSound(parts, parts.tab) /\ Typed(parts)
      /\ \A u \in DOMAIN parts.tab : parts.tab[u].root \in Seq(Panes)
  BY IInvFacts DEF TabsSound, Made, TabSound
<1>5. p \in Panes
  BY <1>2, <1>4 DEF ToSet
<1> HIDE DEF from, size
<1>6. ASSUME NEW to \in UsedTabs(parts) \ {from},
             moved(EditTab(parts, to, Append(parts.tab[to].root, p)))
      PROVE  IInv'
  <2> DEFINE old == parts.tab[to].root
             root == Append(old, p)
             r == EditTab(parts, to, root)
  <2>1. to \in DOMAIN parts.tab /\ to # from /\ old \in Seq(Panes) /\ OneEach(old) /\ p \notin ToSet(old)
    BY <1>2, <1>3, <1>4 DEF UsedTabs
  <2> HIDE DEF old
  <2>2. root \in Seq(Panes) /\ OneEach(root) /\ ToSet(root) = ToSet(old) \union {p}
    <3>1. /\ root \in Seq(Panes) /\ DOMAIN root = 1..(Len(old) + 1) /\ DOMAIN old = 1..Len(old)
          /\ Len(old) \in Nat /\ root[Len(old) + 1] = p /\ \A i \in 1..Len(old) : root[i] = old[i]
      BY <1>5, <2>1
    <3> HIDE DEF root
    <3>2. \A i \in DOMAIN old : old[i] # p
      BY <2>1 DEF ToSet
    <3>3. OneEach(root)
      BY <2>1, <3>1, <3>2 DEF OneEach
    <3>4. ToSet(root) = ToSet(old) \union {p}
      BY <3>1 DEF ToSet
    <3>. QED  BY <3>1, <3>3, <3>4
  <2> HIDE DEF root
  <2>3. /\ TabsSound(r, parts.tab) /\ DOMAIN r.tab = DOMAIN parts.tab
        /\ \A u \in DOMAIN parts.tab :
            r.tab[u].root = IF u = to THEN root ELSE parts.tab[u].root
    BY <1>4, <2>1, <2>2, EditTabSound
  <2>4. Typed(r)
    BY <1>4, OtherTyped
  <2>5. moved(r)
    BY <1>6 DEF root, old
  <2> HIDE DEF r
  <2>6. ASSUME NEW u \in DOMAIN r.tab, NEW v \in DOMAIN r.tab, u # v
        PROVE  ToSet(r.tab[u].root) \intersect ToSet(r.tab[v].root)
                    \subseteq IF from \in {u, v} THEN {p} ELSE {}
    <3>1. ToSet(parts.tab[u].root) \intersect ToSet(parts.tab[v].root) = {}
      BY <1>3, <2>3, <2>6
    <3>2. \A x \in DOMAIN parts.tab : p \in ToSet(parts.tab[x].root) => x = from
      BY <1>2, <1>3
    <3>3. CASE u = to
      BY <2>2, <2>3, <2>6, <3>1, <3>2, <3>3 DEF old
    <3>4. CASE v = to
      BY <2>2, <2>3, <2>6, <3>1, <3>2, <3>4 DEF old
    <3>5. CASE u # to /\ v # to
      BY <2>3, <2>6, <3>1, <3>5
    <3>. QED  BY <3>3, <3>4, <3>5
  <2>7. \A u \in DOMAIN r.tab : OneEach(r.tab[u].root)
    BY <1>3, <2>2, <2>3
  <2>8. ApartBut(r, p, from)
    BY <2>6, <2>7 DEF ApartBut
  <2>9. from \in DOMAIN r.tab /\ p \in ToSet(r.tab[from].root)
    BY <1>2, <2>1, <2>3
  <2>. QED  BY <2>3, <2>4, <2>5, <2>8, <2>9, RelocatedIInv
<1>7. ASSUME NEW t \in Tabs \ UsedTabs(parts), NEW r, Typed(r),
             DOMAIN r = PartsFields, r.tab = With(parts.tab, t, tab), moved(r)
      PROVE  IInv'
  <2>1. t \notin DOMAIN parts.tab
    BY DEF UsedTabs
  <2>2. /\ TabsSound(r, parts.tab) /\ DOMAIN r.tab = DOMAIN parts.tab \union {t}
        /\ r.tab[t].root = <<p>> /\ \A u \in DOMAIN parts.tab : r.tab[u] = parts.tab[u]
    <3>1. TabsSound(parts, parts.tab) /\ DOMAIN r = PartsFields
      BY <1>4, <1>7
    <3>2. TabSound(tab) /\ tab.root = <<p>> /\ tab.changed = TRUE
      BY <1>5, NewTabSound
    <3> HIDE DEF tab, moved
    <3>3. Fresh(tab) /\ Adds(r, parts, t, tab)
      BY <1>7, <2>1, <3>2 DEF Fresh, Adds
    <3>4. TabsSound(r, parts.tab)
      BY <3>1, <3>3, NewTabsSound
    <3>. QED  BY <3>2, <3>3, <3>4, AddsIs
  <2>3. OneEach(r.tab[t].root) /\ ToSet(r.tab[t].root) = {p}
    BY <2>2, OneIs
  <2>4. \A x \in DOMAIN parts.tab : p \in ToSet(parts.tab[x].root) => x = from
    BY <1>2, <1>3
  <2>5. ASSUME NEW u \in DOMAIN r.tab, NEW v \in DOMAIN r.tab, u # v
        PROVE  ToSet(r.tab[u].root) \intersect ToSet(r.tab[v].root)
                    \subseteq IF from \in {u, v} THEN {p} ELSE {}
    <3>1. CASE u = t
      BY <2>2, <2>3, <2>4, <2>5, <3>1
    <3>2. CASE v = t
      BY <2>2, <2>3, <2>4, <2>5, <3>2
    <3>3. CASE u # t /\ v # t
      BY <1>3, <2>2, <2>5, <3>3
    <3>. QED  BY <3>1, <3>2, <3>3
  <2>6. \A u \in DOMAIN r.tab : OneEach(r.tab[u].root)
    BY <1>3, <2>2, <2>3
  <2>7. ApartBut(r, p, from)
    BY <2>5, <2>6 DEF ApartBut
  <2>8. from \in DOMAIN r.tab /\ p \in ToSet(r.tab[from].root)
    BY <1>2, <2>2
  <2>. QED  BY <1>7, <2>2, <2>7, <2>8, RelocatedIInv
<1>8. DOMAIN parts = PartsFields
  BY <1>4 DEF Typed
<1> HIDE DEF tab
<1>9. ASSUME NEW t \in Tabs \ UsedTabs(parts),
             moved(PushTab(parts, Holder(parts, from), t, tab))
      PROVE  IInv'
  <2> DEFINE r == PushTab(parts, Holder(parts, from), t, tab)
  <2>1. Typed(r)
    BY <1>4, PushTabTyped
  <2>2. DOMAIN r = PartsFields /\ r.tab = With(parts.tab, t, tab)
    BY <1>8, NewTabTabs
  <2> HIDE DEF r, moved
  <2>. QED  BY <1>7, <1>9, <2>1, <2>2 DEF r
<1>10. ASSUME NEW t \in Tabs \ UsedTabs(parts), NEW w \in Workspaces,
              moved(PushWorkspace(parts, Top, w, t, tab))
       PROVE  IInv'
  <2> DEFINE r == PushWorkspace(parts, Top, w, t, tab)
  <2>1. Typed(r)
    BY <1>4, PushWorkspaceTyped
  <2>2. DOMAIN r = PartsFields /\ r.tab = With(parts.tab, t, tab)
    BY <1>8, NewTabTabs
  <2> HIDE DEF r, moved
  <2>. QED  BY <1>7, <1>10, <2>1, <2>2 DEF r
<1>. QED  BY <1>1, <1>6, <1>9, <1>10 DEF from, size, tab

LEMMA MoveWorkspaceIInv ==
    ASSUME IInv, NEW here, MoveWorkspace(here)
    PROVE  IInv'
<1>0. PICK w \in UsedWorkspaces(parts) :
        \E to : Transact(Follow(MoveInto(parts, w, to, here), {here}, w), views, here)
  BY DEF MoveWorkspace
<1>1. PICK to : Transact(Follow(MoveInto(parts, w, to, here), {here}, w), views, here)
  BY <1>0
<1> DEFINE r == MoveInto(parts, w, to, here)
<1>2. w \in Workspaces
  BY DEF UsedWorkspaces
<1>3. Typed(r) /\ SameTabs(r, parts)
  BY <1>2, IInvFacts, MoveIntoTyped, MoveIntoSame DEF Typed
<1>4. Sound(r, parts.tab)
  BY <1>3, IInvFacts, SameTabsSound DEF Sound
<1> HIDE DEF r
<1>. QED  BY <1>1, <1>3, <1>4, FollowFine, TransactSound DEF r

\* Two panes of two tabs in each other's place.
Swapped(root, p, q) ==
    [i \in DOMAIN root |-> CASE root[i] = p -> q [] root[i] = q -> p [] OTHER -> root[i]]

LEMMA SwappedIs ==
    ASSUME NEW root \in Seq(Panes), OneEach(root), NEW p \in Panes, NEW q \in Panes,
           p \in ToSet(root), q \notin ToSet(root)
    PROVE  LET r == Swapped(root, p, q)
           IN  /\ r \in Seq(Panes) /\ OneEach(r) /\ r = Swapped(root, q, p)
               /\ ToSet(r) = (ToSet(root) \ {p}) \union {q}
<1> DEFINE r == Swapped(root, p, q)
<1>1. DOMAIN root = 1..Len(root) /\ Len(root) \in Nat /\ \A i \in DOMAIN root : root[i] \in Panes
  OBVIOUS
<1>2. \A i \in DOMAIN root : root[i] # q
  BY DEF ToSet
<1>3. r = [i \in DOMAIN root |-> IF root[i] = p THEN q ELSE root[i]]
  BY <1>2 DEF Swapped
<1>4. Swapped(root, q, p) = [i \in DOMAIN root |-> IF root[i] = p THEN q ELSE root[i]]
  BY <1>2 DEF Swapped
<1> HIDE DEF r
<1>5. DOMAIN r = DOMAIN root /\ \A i \in DOMAIN root : r[i] = IF root[i] = p THEN q ELSE root[i]
  BY <1>3
<1>6. r \in Seq(Panes)
  BY <1>1, <1>3
<1>7. OneEach(r)
  BY <1>2, <1>5 DEF OneEach
<1>8. ToSet(r) = (ToSet(root) \ {p}) \union {q}
  BY <1>2, <1>5 DEF ToSet
<1>. QED  BY <1>3, <1>4, <1>6, <1>7, <1>8 DEF r

LEMMA SwapIInv ==
    ASSUME IInv, NEW here, Swap(here)
    PROVE  IInv'
<1>1. PICK p \in UsedPanes(parts), q \in UsedPanes(parts) :
        LET a == TabOf(parts, p)
            b == TabOf(parts, q)
        IN  /\ a # b
            /\ Transact(EditTab(EditTab(parts, a, Swapped(parts.tab[a].root, p, q)),
                                b, Swapped(parts.tab[b].root, p, q)), views, here)
  BY DEF Swap, Swapped
<1> DEFINE a == TabOf(parts, p)
           b == TabOf(parts, q)
           A == parts.tab[a].root
           B == parts.tab[b].root
           r == EditTab(parts, a, Swapped(A, p, q))
           s == EditTab(r, b, Swapped(B, p, q))
<1>2. /\ a \in DOMAIN parts.tab /\ p \in ToSet(A)
      /\ b \in DOMAIN parts.tab /\ q \in ToSet(B)
  BY TabOfIs
<1>3. /\ \A u \in DOMAIN parts.tab : OneEach(parts.tab[u].root)
      /\ \A u, v \in DOMAIN parts.tab :
            u # v => ToSet(parts.tab[u].root) \intersect ToSet(parts.tab[v].root) = {}
  BY IInvFacts, ApartIs
<1>4. /\ TabsSound(parts, parts.tab) /\ Typed(parts)
      /\ \A u \in DOMAIN parts.tab : parts.tab[u].root \in Seq(Panes)
  BY IInvFacts DEF TabsSound, Made, TabSound
<1>5. a # b /\ Transact(s, views, here)
  BY <1>1
<1>6. p \notin ToSet(B) /\ q \notin ToSet(A) /\ ToSet(A) \intersect ToSet(B) = {}
  BY <1>2, <1>3, <1>5
<1>7. p \in Panes /\ q \in Panes
  BY <1>2, <1>4 DEF ToSet
<1> DEFINE C == Swapped(A, p, q)
           D == Swapped(B, p, q)
<1>8. C \in Seq(Panes) /\ OneEach(C) /\ ToSet(C) = (ToSet(A) \ {p}) \union {q}
  BY <1>2, <1>3, <1>4, <1>6, <1>7, SwappedIs
<1>9. D \in Seq(Panes) /\ OneEach(D) /\ ToSet(D) = (ToSet(B) \ {q}) \union {p}
  <2>1. B \in Seq(Panes) /\ OneEach(B) /\ q \in ToSet(B) /\ p \notin ToSet(B)
    BY <1>2, <1>3, <1>4, <1>6
  <2> HIDE DEF B
  <2>. QED  BY <1>7, <2>1, SwappedIs
<1> HIDE DEF a, b, C, D
<1>10. /\ TabsSound(r, parts.tab) /\ DOMAIN r.tab = DOMAIN parts.tab
       /\ \A u \in DOMAIN parts.tab : r.tab[u].root = IF u = a THEN C ELSE parts.tab[u].root
  BY <1>2, <1>4, <1>8, EditTabSound DEF C
<1>11. Typed(r)
  BY <1>4, OtherTyped
<1> HIDE DEF r
<1>12. /\ TabsSound(s, parts.tab) /\ DOMAIN s.tab = DOMAIN r.tab
       /\ \A u \in DOMAIN r.tab : s.tab[u].root = IF u = b THEN D ELSE r.tab[u].root
  <2>1. s = EditTab(r, b, D) /\ b \in DOMAIN r.tab
    BY <1>2, <1>10 DEF D
  <2>2. D \in Seq(Panes) /\ TabsSound(r, parts.tab)
    BY <1>9, <1>10
  <2> HIDE DEF s
  <2>3. ASSUME NEW x, NEW t \in DOMAIN x.tab, NEW root \in Seq(Panes), TabsSound(x, parts.tab)
        PROVE  /\ TabsSound(EditTab(x, t, root), parts.tab)
               /\ DOMAIN EditTab(x, t, root).tab = DOMAIN x.tab
               /\ \A u \in DOMAIN x.tab :
                    EditTab(x, t, root).tab[u].root = IF u = t THEN root ELSE x.tab[u].root
    BY <2>3, EditTabSound
  <2>. QED  BY <2>1, <2>2, <2>3
<1>13. Typed(s)
  BY <1>11, OtherTyped
<1> HIDE DEF s
<1>14. \A u \in DOMAIN s.tab : u \in DOMAIN parts.tab
            /\ s.tab[u].root = IF u = a THEN C ELSE IF u = b THEN D ELSE parts.tab[u].root
  BY <1>5, <1>10, <1>12
<1>15. \A u \in DOMAIN s.tab : OneEach(s.tab[u].root)
  BY <1>3, <1>8, <1>9, <1>14
<1>16. \A u \in DOMAIN parts.tab : u # a /\ u # b =>
            ToSet(parts.tab[u].root) \intersect (ToSet(A) \union ToSet(B)) = {}
  BY <1>2, <1>3
<1>17. ASSUME NEW u \in DOMAIN s.tab, NEW v \in DOMAIN s.tab, u # v
       PROVE  ToSet(s.tab[u].root) \intersect ToSet(s.tab[v].root) = {}
  <2>1. ToSet(C) \union ToSet(D) \subseteq ToSet(A) \union ToSet(B)
    BY <1>2, <1>8, <1>9
  <2>2. ToSet(C) \intersect ToSet(D) = {}
    BY <1>2, <1>6, <1>8, <1>9
  <2>3. CASE u \in {a, b} /\ v \in {a, b}
    BY <1>14, <1>17, <2>2, <2>3
  <2>4. CASE u \in {a, b} /\ v \notin {a, b}
    BY <1>14, <1>16, <1>17, <2>1, <2>4
  <2>5. CASE u \notin {a, b} /\ v \in {a, b}
    BY <1>14, <1>16, <1>17, <2>1, <2>5
  <2>6. CASE u \notin {a, b} /\ v \notin {a, b}
    BY <1>3, <1>14, <1>17, <2>6
  <2>. QED  BY <2>3, <2>4, <2>5, <2>6
<1>18. Sound(s, parts.tab)
  BY <1>12, <1>15, <1>17, ApartIs DEF Sound
<1>. QED  BY <1>5, <1>13, <1>18, TransactSound

LEMMA ToSetFinite ==
    ASSUME NEW root \in Seq(Panes)
    PROVE  Cardinality(ToSet(root)) \in Nat
<1>1. IsFiniteSet(1..Len(root))
  BY FS_Interval
<1>2. root \in Surjection(1..Len(root), ToSet(root))
  BY DEF Surjection, ToSet
<1>. QED  BY <1>1, <1>2, FS_Surjection, FS_CardinalityType

LEMMA ArrangeIInv ==
    ASSUME IInv, NEW here, Arrange(here)
    PROVE  IInv'
<1>1. PICK t \in UsedTabs(parts) : \E root \in SetToSeqs(ToSet(parts.tab[t].root)) :
        Transact(EditTab(parts, t, root), views, here)
  BY DEF Arrange
<1>2. PICK root \in SetToSeqs(ToSet(parts.tab[t].root)) :
        Transact(EditTab(parts, t, root), views, here)
  BY <1>1
<1> DEFINE old == parts.tab[t].root
<1>3. t \in DOMAIN parts.tab /\ old \in Seq(Panes)
  BY IInvFacts DEF TabsSound, Made, TabSound, UsedTabs
<1>4. \A u \in DOMAIN parts.tab \ {t} : ToSet(old) \intersect ToSet(parts.tab[u].root) = {}
  BY <1>3, IInvFacts, ApartIs
<1>5. ToSet(old) \subseteq Panes /\ Cardinality(ToSet(old)) \in Nat
  BY <1>3, ToSetFinite DEF ToSet
<1>6. /\ root \in [1..Cardinality(ToSet(old)) -> ToSet(old)]
      /\ \A i, j \in 1..Cardinality(ToSet(old)) : i # j => root[i] # root[j]
  BY DEF SetToSeqs
<1>7. root \in Seq(Panes) /\ OneEach(root) /\ ToSet(root) \subseteq ToSet(old)
  <2>1. root \in Seq(Panes)
    BY <1>5, <1>6
  <2>2. OneEach(root)
    BY <1>6 DEF OneEach
  <2>3. \A i \in DOMAIN root : root[i] \in ToSet(old)
    BY <1>6
  <2>. QED  BY <2>1, <2>2, <2>3 DEF ToSet
<1>8. \A u \in DOMAIN parts.tab \ {t} : ToSet(root) \intersect ToSet(parts.tab[u].root) = {}
  BY <1>4, <1>7
<1>9. Sound(EditTab(parts, t, root), parts.tab) /\ Typed(EditTab(parts, t, root))
  BY <1>3, <1>7, <1>8, IInvFacts, EditedSound
<1>. QED  BY <1>2, <1>9, TransactSound

LEMMA ReorderIInv ==
    ASSUME IInv, NEW here, Reorder(here)
    PROVE  IInv'
<1> DEFINE reordered(n, i) ==
            [parts EXCEPT !.kids[n] = SubSeq(@, 1, i - 1) \o <<@[i + 1], @[i]>>
                                       \o SubSeq(@, i + 2, Len(@))]
<1>0. PICK n \in Nodes : \E i \in 1..(Len(parts.kids[n]) - 1) :
        Transact(reordered(n, i), views, here)
  BY DEF Reorder
<1>1. PICK i \in 1..(Len(parts.kids[n]) - 1) : Transact(reordered(n, i), views, here)
  <2> HIDE DEF reordered
  <2>. QED  BY <1>0
<1> DEFINE old == parts.kids[n]
           kids == SubSeq(old, 1, i - 1) \o <<old[i + 1], old[i]>> \o SubSeq(old, i + 2, Len(old))
           r == [parts EXCEPT !.kids[n] = kids]
<1>2. Transact(r, views, here)
  BY <1>1
<1>3. DOMAIN parts = PartsFields /\ parts.kids \in [Nodes -> Held]
  BY IInvFacts DEF Typed
<1>4. kids \in Held
  <2>1. /\ old \in Seq(Workspaces \union Tabs) /\ Len(old) \in Nat
        /\ i \in Nat /\ 1 <= i /\ i + 1 <= Len(old)
    BY <1>3 DEF Held
  <2> HIDE DEF old
  <2>2. old[i] \in Workspaces \union Tabs /\ old[i + 1] \in Workspaces \union Tabs
    BY <2>1
  <2>3. <<old[i + 1], old[i]>> \in Seq(Workspaces \union Tabs)
    BY <2>2
  <2>4. SubSeq(old, 1, i - 1) \in Seq(Workspaces \union Tabs)
    BY <2>1
  <2>5. SubSeq(old, i + 2, Len(old)) \in Seq(Workspaces \union Tabs)
    BY <2>1
  <2>. QED  BY <2>3, <2>4, <2>5 DEF Held
<1> HIDE DEF kids
<1>5. SameTabs(r, parts) /\ Typed(r)
  BY <1>3, <1>4 DEF SameTabs, Typed, PartsFields
<1> HIDE DEF r
<1>6. Sound(r, parts.tab)
  BY <1>5, IInvFacts, SameTabsSound DEF Sound
<1>. QED  BY <1>2, <1>5, <1>6, TransactSound

\* One tab is another of the same panes.
LEMMA RetabSound ==
    ASSUME IInv, NEW t, NEW tab,
           t \in DOMAIN parts.tab =>
                /\ TabSound(tab) /\ tab.root = parts.tab[t].root
                /\ tab.changed = TRUE \/ SameSizes(tab, parts.tab[t])
    PROVE  LET r == [parts EXCEPT !.tab[t] = tab]
           IN  Sound(r, parts.tab) /\ Typed(r)
<1> DEFINE r == [parts EXCEPT !.tab[t] = tab]
<1>1. DOMAIN parts = PartsFields /\ parts.kids \in [Nodes -> Held]
  BY IInvFacts DEF Typed
<1>2. /\ DOMAIN r = PartsFields /\ r.kids = parts.kids /\ DOMAIN r.tab = DOMAIN parts.tab
      /\ \A u \in DOMAIN parts.tab : r.tab[u] = IF u = t THEN tab ELSE parts.tab[u]
  BY <1>1 DEF PartsFields
<1> HIDE DEF r
<1>3. Typed(r)
  BY <1>1, <1>2 DEF Typed
<1>4. ASSUME NEW u \in DOMAIN parts.tab
      PROVE  /\ TabSound(r.tab[u]) /\ r.tab[u].root = parts.tab[u].root
             /\ r.tab[u].changed = TRUE \/ SameSizes(r.tab[u], parts.tab[u])
  <2>1. CASE u = t
    BY <1>2, <2>1
  <2>2. CASE u # t
    BY <1>2, <2>2, IInvFacts DEF TabsSound, Made, SameSizes
  <2>. QED  BY <2>1, <2>2
<1>5. TabsSound(r, parts.tab) /\ Apart(r.tab)
  BY <1>2, <1>4, IInvFacts, RetabbedSound
<1>. QED  BY <1>3, <1>5 DEF Sound, r

LEMMA ZoomIInv ==
    ASSUME IInv, NEW here, Zoom(here)
    PROVE  IInv'
<1>1. PICK p \in UsedPanes(parts) :
        Transact([parts EXCEPT !.tab[TabOf(parts, p)] =
                    Zoomed(@, IF @.zoomed = p THEN None ELSE p)], views, here)
  BY DEF Zoom
<1> DEFINE t == TabOf(parts, p)
           old == parts.tab[t]
           q == IF old.zoomed = p THEN None ELSE p
           tab == Zoomed(old, q)
<1>2. Transact([parts EXCEPT !.tab[t] = tab], views, here)
  BY <1>1
<1>3. t \in DOMAIN parts.tab
  BY TabOfIs
<1>4. TabSound(old)
  BY <1>3, IInvFacts DEF TabsSound, Made
<1> HIDE DEF t, old, q
<1>5. TabSound(tab) /\ tab.root = old.root /\ (tab = old \/ tab.changed = TRUE)
  BY <1>4, ZoomedSound
<1> HIDE DEF tab
<1>6. tab.changed = TRUE \/ SameSizes(tab, parts.tab[t])
  BY <1>5 DEF SameSizes, old
<1>. QED  BY <1>2, <1>5, <1>6, RetabSound, TransactSound DEF old

LEMMA SetFitIInv ==
    ASSUME IInv, NEW here, SetFit(here)
    PROVE  IInv'
<1>0. PICK t \in UsedTabs(parts) :
        \E fit : Transact([parts EXCEPT !.tab[t].fixed = fit[1], !.tab[t].size = fit[2],
                                        !.tab[t].changed = TRUE], views, here)
  BY DEF SetFit
<1>1. PICK fit :
        Transact([parts EXCEPT !.tab[t].fixed = fit[1], !.tab[t].size = fit[2],
                               !.tab[t].changed = TRUE], views, here)
  BY <1>0
<1> DEFINE old == parts.tab[t]
           tab == [old EXCEPT !.fixed = fit[1], !.size = fit[2], !.changed = TRUE]
           r == [parts EXCEPT !.tab[t] = tab]
<1>2. DOMAIN parts = PartsFields /\ t \in DOMAIN parts.tab
  BY IInvFacts DEF Typed, UsedTabs
<1>3. Transact(r, views, here)
  <2>1. r = [parts EXCEPT !.tab[t].fixed = fit[1], !.tab[t].size = fit[2],
                          !.tab[t].changed = TRUE]
    BY <1>2 DEF PartsFields
  <2>. QED  BY <1>1, <2>1
<1>4. TabSound(old)
  BY <1>2, IInvFacts DEF TabsSound, Made
<1> HIDE DEF old
<1>5. /\ DOMAIN tab = TabFields /\ tab.root = old.root /\ tab.zoomed = old.zoomed
      /\ tab.seats = old.seats /\ tab.changed = TRUE
  BY <1>4 DEF TabSound, TabFields
<1> HIDE DEF tab
<1>6. TabSound(tab)
  BY <1>4, <1>5 DEF TabSound, SeatSound, Focus
<1>7. Sound(r, parts.tab) /\ Typed(r)
  BY <1>5, <1>6, RetabSound DEF old
<1>. QED  BY <1>3, <1>7, TransactSound

\* A button held where its client focuses, or let go.
LEMMA HoldsIInv ==
    ASSUME IInv, NEW c, NEW held, Holds(c, held),
           held \in {None, Focus(parts.tab[ShownTab(parts, c)], c)}
    PROVE  IInv'
<1> DEFINE t == ShownTab(parts, c)
           old == parts.tab[t]
           seat == [old.seats[c] EXCEPT !.held = held]
           tab == [old EXCEPT !.seats[c] = seat]
           r == [parts EXCEPT !.tab[t] = tab]
<1>1. Settle(r, views, Outside)
  BY DEF Holds
<1>2. ASSUME t \in DOMAIN parts.tab
      PROVE  TabSound(tab) /\ tab.root = old.root /\ SameSizes(tab, old)
  <2>1. TabSound(old) /\ held \in {None, Focus(old, c)}
    BY <1>2, IInvFacts DEF TabsSound, Made
  <2> HIDE DEF old, seat
  <2>2. DOMAIN tab = TabFields /\ tab.seats = [old.seats EXCEPT ![c] = seat]
        /\ tab.root = old.root /\ SameSizes(tab, old)
    BY <2>1 DEF TabSound, TabFields, SameSizes
  <2> HIDE DEF tab
  <2>3. ASSUME NEW d \in DOMAIN tab.seats
        PROVE  SeatSound(tab, d)
    <3>1. SeatSound(old, d) /\ tab.seats[d] = IF d = c THEN seat ELSE old.seats[d]
      BY <2>1, <2>2, <2>3 DEF TabSound
    <3>2. CASE d = c
      <4>1. /\ DOMAIN tab.seats[c] = SeatFields /\ tab.seats[c].held = held
            /\ tab.seats[c].focus = old.seats[c].focus
        BY <3>1, <3>2 DEF SeatSound, SeatFields, seat
      <4>. QED  BY <2>1, <2>2, <3>2, <4>1 DEF SeatSound, Focus, SameSizes
    <3>3. CASE d # c
      BY <2>2, <3>1, <3>3 DEF SeatSound, Focus, SameSizes
    <3>. QED  BY <3>2, <3>3
  <2>4. tab.root \in Seq(Panes)
    BY <2>1, <2>2 DEF TabSound
  <2>. QED  BY <2>2, <2>3, <2>4 DEF TabSound
<1> HIDE DEF tab
<1>3. Sound(r, parts.tab) /\ Typed(r)
  BY <1>2, RetabSound
<1>. QED  BY <1>1, <1>3, SettleSound

LEMMA PressIInv ==
    ASSUME IInv, NEW c, Press(c)
    PROVE  IInv'
BY HoldsIInv DEF Press

LEMMA ReleaseIInv ==
    ASSUME IInv, NEW c, Release(c)
    PROVE  IInv'
BY HoldsIInv DEF Release

LEMMA NextIInv ==
    ASSUME IInv, [Next]_vars
    PROVE  IInv'
<1>1. CASE UNCHANGED vars
  BY <1>1 DEF vars, IInv
<1>2. CASE \E c \in Clients : Attach(c)
  BY <1>2, AttachIInv
<1>3. CASE \E c \in Attached(parts) :
                Detach(c) \/ ResizeClient(c) \/ Show(c) \/ Press(c) \/ Release(c)
  BY <1>3, DetachIInv, ResizeClientIInv, ShowIInv, PressIInv, ReleaseIInv
<1>4. ASSUME NEW here \in Going,
             \/ Split(here) \/ KillPane(here) \/ KillTabs(here) \/ Create(here)
             \/ MovePane(here) \/ MoveWorkspace(here) \/ Swap(here) \/ Arrange(here)
             \/ Reorder(here) \/ Zoom(here) \/ SetFit(here)
      PROVE  IInv'
  <2>1. CASE Split(here) \/ KillPane(here) \/ KillTabs(here) \/ Create(here)
    BY <2>1, SplitIInv, CloseIInv, KillTabsIInv, CreateIInv
  <2>2. CASE MovePane(here) \/ MoveWorkspace(here) \/ Swap(here) \/ Arrange(here)
    BY <2>2, MovePaneIInv, MoveWorkspaceIInv, SwapIInv, ArrangeIInv
  <2>3. CASE Reorder(here) \/ Zoom(here) \/ SetFit(here)
    BY <2>3, ReorderIInv, ZoomIInv, SetFitIInv
  <2>. QED  BY <1>4, <2>1, <2>2, <2>3
<1>5. CASE Close(Outside)
  BY <1>5, CloseIInv
<1>. QED  BY <1>1, <1>2, <1>3, <1>4, <1>5 DEF Next

-----------------------------------------------------------------------------
(* What it proves.                                                         *)

THEOREM IInvHolds == Spec => []IInv
<1>1. Init => IInv
  BY InitIInv
<1>2. IInv /\ [Next]_vars => IInv'
  BY NextIInv
<1>. QED  BY <1>1, <1>2, PTL DEF Spec

\* No pane is in two tabs, or twice in one, whatever splits, moves, swaps and
\* closes panes (Parts::relocated takes it in before its tab lets go).
THEOREM PanesAreApart == Spec => []Apart(parts.tab)
<1>1. IInv => Apart(parts.tab)
  BY IInvFacts
<1>. QED  BY <1>1, IInvHolds, PTL

\* A button a client holds is held in the pane it was pressed in, its focus,
\* though others zoom, swap, move and close panes while it is (Seat::held).
THEOREM HeldStaysHere == Spec => []HeldIsHere
<1>1. ASSUME IInv, NEW t \in UsedTabs(parts), NEW c \in DOMAIN parts.tab[t].seats
      PROVE  parts.tab[t].seats[c].held \in {None, Focus(parts.tab[t], c)}
  <2>1. TabSound(parts.tab[t])
    BY <1>1, IInvFacts DEF TabsSound, Made, UsedTabs
  <2>. QED  BY <1>1, <2>1 DEF TabSound, SeatSound
<1>2. IInv => HeldIsHere
  BY <1>1 DEF HeldIsHere
<1>. QED  BY <1>2, IInvHolds, PTL

\* Every pane that has a place is told its size there, whichever clients come,
\* go and resize and whatever changes its tab (Session::size_panes): so long as
\* every record is written. Unless it is, one was asked that was not told
\* (Session::roll_back).
THEOREM SizesAreFollowed == ASSUME ~Unwritten PROVE Spec => []SizesFollow
<1>1. ASSUME IInv, NEW t \in UsedTabs(parts), NEW p \in ToSet(parts.tab[t].root),
             Shows(parts.tab[t], AreaOf(parts, views, t), p)
      PROVE  told[p] = PlaceOf(parts.tab[t], AreaOf(parts, views, t), p)
  <2>1. AreaOf(parts, views, t) = parts.tab[t].size
    BY <1>1 DEF IInv, Settled, TabSettled
  <2>2. ToldAsAsked(parts, asked, told)
    BY <1>1 DEF IInv
  <2>3. asked[p] = PlaceOf(parts.tab[t], parts.tab[t].size, p)
    BY <1>1, <2>1, <2>2 DEF ToldAsAsked, AskedOfTab
  <2>4. p \in Panes
    <3>1. parts.tab[t].root \in Seq(Panes)
      BY <1>1, IInvFacts DEF TabsSound, Made, TabSound, UsedTabs
    <3>. QED  BY <3>1 DEF ToSet
  <2>. QED  BY <2>1, <2>2, <2>3, <2>4 DEF ToldAsAsked
<1>2. IInv => SizesFollow
  BY <1>1 DEF SizesFollow
<1>. QED  BY <1>2, IInvHolds, PTL
=============================================================================
