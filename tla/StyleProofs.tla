----------------------------- MODULE StyleProofs ----------------------------
(***************************************************************************)
(* Undo and redo of formatting never reach outside their rectangle, and    *)
(* bring back what they say, for any numbers of rows, columns, facet       *)
(* values, steps and foreign ops.                                          *)
(*                                                                         *)
(* The properties speak of windows, and they move whenever a row comes,    *)
(* goes or returns.  What does not move is the order of identities: the    *)
(* ends of a clipped rule stay between the ends of the target, a window    *)
(* follows its ends, and a live cell is covered when it stands between     *)
(* them.                                                                   *)
(*                                                                         *)
(* An entry is undone long after it was made.  So the invariant says of a  *)
(* stack, on the axis there is and on each it may become, that an entry's  *)
(* rules show what was under its target, that nothing of another author is *)
(* newer than what an undisturbed entry is about, and that the entries     *)
(* above one, undone, lead back to what it was made on.                    *)
(***************************************************************************)
EXTENDS StyleSession, AxisProofs

-----------------------------------------------------------------------------
(* Spans of one axis.                                                      *)

Between(axis, x, span) ==
    /\ x \in IdsOf(axis) /\ span[1] \in IdsOf(axis) /\ span[2] \in IdsOf(axis)
    /\ \/ PlaceOf(axis, span[1]) <= PlaceOf(axis, x) /\ PlaceOf(axis, x) <= PlaceOf(axis, span[2])
       \/ PlaceOf(axis, span[2]) <= PlaceOf(axis, x) /\ PlaceOf(axis, x) <= PlaceOf(axis, span[1])

\* The ends of p stand between the ends of t.
Inside(axis, p, t) ==
    t = All \/ (p # All /\ Between(axis, p[1], t) /\ Between(axis, p[2], t))

\* A resolved interval has a first and a last place of the axis.
LEMMA Ends ==
    ASSUME NEW axis, AxisOK(axis), NEW S, S \subseteq DOMAIN axis, S # {}
    PROVE  /\ Min(S) \in S /\ Max(S) \in S
           /\ \A i \in S : Min(S) <= i /\ i <= Max(S)
<1>1. Len(axis) \in Nat /\ DOMAIN axis = 1 .. Len(axis)
  BY LenProperties DEF AxisOK
<1>2. S \subseteq Nat /\ \A i \in S : i <= Len(axis)
  BY <1>1
<1> QED BY <1>1, <1>2, MinIsLeast, MaxIsGreatest

\* A place a bounded span covers is one of the axis, between the span's ends.
LEMMA WindowBetween ==
    ASSUME NEW axis, AxisOK(axis), NEW span, span # All, NEW i \in Window(axis, span)
    PROVE  i \in DOMAIN axis /\ Between(axis, axis[i].id, span)
<1> DEFINE live == Resolve(axis, span[1], span[2])
           a == PlaceOf(axis, span[1])
           b == PlaceOf(axis, span[2])
<1>1. Len(axis) \in Nat /\ DOMAIN axis = 1 .. Len(axis)
  BY LenProperties DEF AxisOK
<1>2. live # {} /\ i \in Min(live) .. Max(live)
  BY DEF Window
<1>3. live \subseteq DOMAIN axis
  BY ResolveConvex
<1>4. span[1] \in IdsOf(axis) /\ span[2] \in IdsOf(axis)
  BY <1>2, ResolvedPlaces
<1>5. live = {k \in Lesser(a, b) .. Greater(a, b) : axis[k].live}
  BY <1>4, ResolvedPlaces
<1>6. a \in DOMAIN axis /\ b \in DOMAIN axis
  BY <1>4, IdAtPlace
<1> HIDE DEF live, a, b
<1>7. Min(live) \in live /\ Max(live) \in live
  BY <1>2, <1>3, Ends
<1>8. /\ Min(live) \in DOMAIN axis /\ Max(live) \in DOMAIN axis
      /\ Lesser(a, b) <= Min(live) /\ Max(live) <= Greater(a, b)
  BY <1>3, <1>5, <1>7
<1>9. i \in DOMAIN axis
  BY <1>1, <1>2, <1>8
<1>10. (a <= i /\ i <= b) \/ (b <= i /\ i <= a)
  BY <1>1, <1>2, <1>6, <1>8, <1>9 DEF Lesser, Greater
<1>11. PlaceOf(axis, axis[i].id) = i /\ axis[i].id \in IdsOf(axis)
  BY <1>9, PlaceIs DEF IdsOf
<1> QED BY <1>4, <1>9, <1>10, <1>11 DEF Between, a, b

\* What two spans share, clipped, has its ends inside the second.
LEMMA ClipInside ==
    ASSUME NEW axis, AxisOK(axis), NEW s, NEW t,
           Window(axis, s) \intersect Window(axis, t) # {}
    PROVE  Inside(axis, Clip(s, t, axis), t)
<1> SUFFICES ASSUME t # All PROVE Inside(axis, Clip(s, t, axis), t)
  BY DEF Inside
<1> DEFINE both == Window(axis, s) \intersect Window(axis, t)
<1>1. both \subseteq DOMAIN axis /\ both \subseteq Window(axis, t)
  BY WindowBetween
<1>2. Clip(s, t, axis) = <<axis[Min(both)].id, axis[Max(both)].id>>
  BY DEF Clip
<1>3. both # {}
  OBVIOUS
<1> HIDE DEF both
<1>4. Min(both) \in both /\ Max(both) \in both
  BY <1>1, <1>3, Ends
<1>5. Between(axis, axis[Min(both)].id, t) /\ Between(axis, axis[Max(both)].id, t)
  BY <1>1, <1>4, WindowBetween
<1>6. Clip(s, t, axis) # All
  BY <1>2 DEF All
<1> QED BY <1>2, <1>5, <1>6 DEF Inside

\* A span whose ends are inside another covers no place the other does not.
LEMMA InsideWindow ==
    ASSUME NEW axis, AxisOK(axis), NEW p, NEW t, Inside(axis, p, t)
    PROVE  Window(axis, p) \subseteq Window(axis, t)
<1>1. CASE t = All
  <2>1. Window(axis, t) = DOMAIN axis
    BY <1>1 DEF Window
  <2>2. CASE p = All
    BY <1>1, <2>2
  <2>3. CASE p # All
    BY <2>1, <2>3, WindowBetween
  <2> QED BY <2>2, <2>3
<1>2. CASE t # All
  <2> DEFINE inner == Resolve(axis, p[1], p[2])
             outer == Resolve(axis, t[1], t[2])
             a == PlaceOf(axis, p[1])
             b == PlaceOf(axis, p[2])
             c == PlaceOf(axis, t[1])
             d == PlaceOf(axis, t[2])
  <2>1. p # All /\ Between(axis, p[1], t) /\ Between(axis, p[2], t)
    BY <1>2 DEF Inside
  <2>2. Len(axis) \in Nat /\ DOMAIN axis = 1 .. Len(axis)
    BY LenProperties DEF AxisOK
  <2>3. a \in DOMAIN axis /\ b \in DOMAIN axis /\ c \in DOMAIN axis /\ d \in DOMAIN axis
    BY <2>1, IdAtPlace DEF Between
  <2>4. inner = {k \in Lesser(a, b) .. Greater(a, b) : axis[k].live}
    BY <2>1, ResolvedPlaces DEF Between
  <2>5. outer = {k \in Lesser(c, d) .. Greater(c, d) : axis[k].live}
    BY <2>1, ResolvedPlaces DEF Between
  <2>6. (c <= a /\ a <= d) \/ (d <= a /\ a <= c)
    BY <2>1 DEF Between
  <2>7. (c <= b /\ b <= d) \/ (d <= b /\ b <= c)
    BY <2>1 DEF Between
  <2>8. Window(axis, p) = IF inner = {} THEN {} ELSE Min(inner) .. Max(inner)
    BY <2>1 DEF Window
  <2>9. Window(axis, t) = IF outer = {} THEN {} ELSE Min(outer) .. Max(outer)
    BY <1>2 DEF Window
  <2>10. inner \subseteq DOMAIN axis /\ outer \subseteq DOMAIN axis
    BY ResolveConvex
  <2> HIDE DEF inner, outer, a, b, c, d
  <2>11. Lesser(c, d) <= Lesser(a, b) /\ Greater(a, b) <= Greater(c, d)
    BY <2>2, <2>3, <2>6, <2>7 DEF Lesser, Greater
  <2>12. Lesser(a, b) \in Nat /\ Greater(a, b) \in Nat /\ Lesser(c, d) \in Nat /\ Greater(c, d) \in Nat
    BY <2>2, <2>3 DEF Lesser, Greater
  <2>13. inner \subseteq outer
    BY <2>4, <2>5, <2>11, <2>12
  <2>14. CASE inner = {}
    BY <2>8, <2>14
  <2>15. CASE inner # {}
    <3>1. Min(inner) \in outer /\ Max(inner) \in outer /\ outer # {}
      BY <2>10, <2>13, <2>15, Ends
    <3>2. Min(outer) \in outer /\ Max(outer) \in outer
      BY <2>10, <3>1, Ends
    <3>3. Min(outer) <= Min(inner) /\ Max(inner) <= Max(outer)
      BY <2>10, <3>1, Ends
    <3>4. outer \subseteq Nat
      BY <2>2, <2>10
    <3>5. Min(inner) \in Nat /\ Max(inner) \in Nat /\ Min(outer) \in Nat /\ Max(outer) \in Nat
      BY <3>1, <3>2, <3>4
    <3>6. ASSUME NEW lo \in Nat, NEW hi \in Nat, NEW l \in Nat, NEW h \in Nat, l <= lo, hi <= h
          PROVE  lo .. hi \subseteq l .. h
      BY <3>6
    <3>7. Min(inner) .. Max(inner) \subseteq Min(outer) .. Max(outer)
      BY <3>3, <3>5, <3>6
    <3> QED BY <2>8, <2>9, <2>15, <3>1, <3>7
  <2> QED BY <2>14, <2>15
<1> QED BY <1>1, <1>2

\* An edit of the axis that keeps the order of identities keeps this.
LEMMA InsideStays ==
    ASSUME NEW axis, NEW new, SameOrder(axis, new), NEW p, NEW t, Inside(axis, p, t)
    PROVE  Inside(new, p, t)
<1>1. ASSUME NEW x, Between(axis, x, t)
      PROVE  Between(new, x, t)
  BY <1>1 DEF Between, SameOrder
<1> QED BY <1>1 DEF Inside

-----------------------------------------------------------------------------
(* Cells under a span, told by the order of identities alone: it does not  *)
(* matter what is live.                                                    *)

Within(axis, x, span) == span = All \/ Between(axis, x, span)
Known(axis, span) == span # All => span[1] \in IdsOf(axis) /\ span[2] \in IdsOf(axis)

LEMMA ColsOK == AxisOK(cols) /\ IdsOf(cols) = 1 .. Columns /\ LiveIds(cols) = IdsOf(cols) /\ cols # <<>>
<1>1. Columns \in Nat \ {0}
  BY StyleAssumption
<1>2. cols \in [1 .. Columns -> Slot] /\ DOMAIN cols = 1 .. Columns
      /\ \A i \in 1 .. Columns : cols[i].id = i /\ cols[i].live
  BY <1>1 DEF cols, Slot
<1>3. cols \in Seq(Slot)
  BY <1>1, <1>2
<1>4. IdsOf(cols) = 1 .. Columns /\ LiveIds(cols) = IdsOf(cols)
  BY <1>2 DEF IdsOf, LiveIds
<1>5. cols # <<>>
  <2>0. 1 \in 1 .. Columns
    BY <1>1
  <2>1. 1 \in DOMAIN cols
    BY <1>2, <2>0
  <2> QED BY <2>1
<1> QED BY <1>2, <1>3, <1>4, <1>5 DEF AxisOK

\* For a live identity, being covered is standing between the ends.
LEMMA LiveIsWithin ==
    ASSUME NEW axis, AxisOK(axis), NEW x \in LiveIds(axis), NEW span
    PROVE  PlaceOf(axis, x) \in Window(axis, span) <=> Within(axis, x, span)
<1> DEFINE p == PlaceOf(axis, x)
           live == Resolve(axis, span[1], span[2])
           a == PlaceOf(axis, span[1])
           b == PlaceOf(axis, span[2])
<1>1. x \in IdsOf(axis) /\ p \in DOMAIN axis /\ axis[p].id = x /\ axis[p].live
  BY LivePlace, IdAtPlace
<1>2. CASE span = All
  BY <1>1, <1>2 DEF Window, Within
<1>3. CASE span # All
  <2>1. ASSUME p \in Window(axis, span)
        PROVE  Between(axis, x, span)
    <3>1. Between(axis, axis[p].id, span)
      BY <1>3, <2>1, WindowBetween
    <3> QED BY <1>1, <3>1
  <2>2. ASSUME Between(axis, x, span)
        PROVE  p \in Window(axis, span)
    <3>1. Len(axis) \in Nat /\ DOMAIN axis = 1 .. Len(axis)
      BY LenProperties DEF AxisOK
    <3>2. /\ span[1] \in IdsOf(axis) /\ span[2] \in IdsOf(axis)
          /\ (a <= p /\ p <= b) \/ (b <= p /\ p <= a)
      BY <2>2 DEF Between
    <3>3. a \in DOMAIN axis /\ b \in DOMAIN axis
      BY <3>2, IdAtPlace
    <3>4. live = {k \in Lesser(a, b) .. Greater(a, b) : axis[k].live}
      BY <3>2, ResolvedPlaces
    <3>5. live \subseteq DOMAIN axis
      BY ResolveConvex
    <3>6. Window(axis, span) = IF live = {} THEN {} ELSE Min(live) .. Max(live)
      BY <1>3 DEF Window
    <3> HIDE DEF live, a, b, p
    <3>7. p \in live
      BY <1>1, <3>1, <3>2, <3>3, <3>4 DEF Lesser, Greater
    <3>8. Min(live) \in live /\ Max(live) \in live /\ Min(live) <= p /\ p <= Max(live)
      BY <3>5, <3>7, Ends
    <3>9. Min(live) \in Nat /\ Max(live) \in Nat /\ p \in Nat
      BY <1>1, <3>1, <3>5, <3>8
    <3> QED BY <3>6, <3>7, <3>8, <3>9
  <2> QED BY <1>3, <2>1, <2>2 DEF Within
<1> QED BY <1>2, <1>3

\* An edit of the axis changes it for no identity there was.
LEMMA WithinStays ==
    ASSUME NEW axis, NEW new, SameOrder(axis, new), NEW x \in IdsOf(axis),
           NEW span, Known(axis, span)
    PROVE  Within(axis, x, span) <=> Within(new, x, span)
  BY DEF Within, Between, SameOrder, Known

LEMMA InsideWithin ==
    ASSUME NEW axis, AxisOK(axis), NEW p, NEW t, Inside(axis, p, t), NEW x, Within(axis, x, p)
    PROVE  Within(axis, x, t)
<1>1. CASE t = All
  BY <1>1 DEF Within
<1>2. CASE t # All
  <2>1. p # All /\ Between(axis, p[1], t) /\ Between(axis, p[2], t) /\ Between(axis, x, p)
    BY <1>2 DEF Inside, Within
  <2>2. Len(axis) \in Nat /\ DOMAIN axis = 1 .. Len(axis)
    BY LenProperties DEF AxisOK
  <2>3. /\ PlaceOf(axis, x) \in DOMAIN axis
        /\ PlaceOf(axis, p[1]) \in DOMAIN axis /\ PlaceOf(axis, p[2]) \in DOMAIN axis
        /\ PlaceOf(axis, t[1]) \in DOMAIN axis /\ PlaceOf(axis, t[2]) \in DOMAIN axis
    BY <2>1, IdAtPlace DEF Between
  <2>4. Between(axis, x, t)
    BY <2>1, <2>2, <2>3 DEF Between
  <2> QED BY <2>4 DEF Within
<1> QED BY <1>1, <1>2

\* Something stands between the ends on either side of it.
LEMMA EndsAround ==
    ASSUME NEW axis, NEW x, NEW span, Between(axis, x, span)
    PROVE  \E p, q \in {span[1], span[2]} :
              /\ p \in IdsOf(axis) /\ q \in IdsOf(axis)
              /\ PlaceOf(axis, p) <= PlaceOf(axis, x) /\ PlaceOf(axis, x) <= PlaceOf(axis, q)
  BY DEF Between

\* What the clip of two spans covers, both cover, now and after any edits.
LEMMA ClipAddsNothing ==
    ASSUME NEW axis, AxisOK(axis), NEW new, AxisOK(new), SameOrder(axis, new), NEW s, NEW t,
           Window(axis, s) \intersect Window(axis, t) # {},
           NEW x, Within(new, x, Clip(s, t, axis))
    PROVE  Within(new, x, s) /\ Within(new, x, t)
<1>1. Inside(axis, Clip(s, t, axis), t)
  BY ClipInside
<1>2. Clip(s, t, axis) = Clip(t, s, axis)
  <2>1. Window(axis, s) \intersect Window(axis, t) = Window(axis, t) \intersect Window(axis, s)
    OBVIOUS
  <2> QED BY <2>1 DEF Clip
<1>3. Inside(axis, Clip(t, s, axis), s)
  BY ClipInside
<1>4. Inside(new, Clip(s, t, axis), t) /\ Inside(new, Clip(s, t, axis), s)
  BY <1>1, <1>2, <1>3, InsideStays
<1> QED BY <1>4, InsideWithin

\* Of an axis all live, what two spans meet around has a live place before it
\* and one after it that both cover.
LEMMA FullAround ==
    ASSUME NEW axis, AxisOK(axis), LiveIds(axis) = IdsOf(axis),
           NEW new, AxisOK(new), SameOrder(axis, new),
           NEW s, Known(axis, s), NEW t, Known(axis, t), s # All \/ t # All,
           NEW x \in IdsOf(new), Within(new, x, s), Within(new, x, t)
    PROVE  \E p, q \in IdsOf(axis) :
              /\ PlaceOf(new, p) <= PlaceOf(new, x) /\ PlaceOf(new, x) <= PlaceOf(new, q)
              /\ {PlaceOf(axis, p), PlaceOf(axis, q)}
                    \subseteq Window(axis, s) \intersect Window(axis, t)
<1>0. /\ Len(new) \in Nat /\ DOMAIN new = 1 .. Len(new) /\ PlaceOf(new, x) \in DOMAIN new
      /\ \A y \in IdsOf(axis) : y \in IdsOf(new) /\ PlaceOf(new, y) \in DOMAIN new
  BY LenProperties, IdAtPlace DEF AxisOK, SameOrder
\* An end of a span is covered by it, and by the other if it stands nearer to x.
<1>1. ASSUME NEW u, Known(axis, u), u # All, Within(new, x, u)
      PROVE  \E p, q \in IdsOf(axis) :
                /\ PlaceOf(new, p) <= PlaceOf(new, x) /\ PlaceOf(new, x) <= PlaceOf(new, q)
                /\ \A y \in IdsOf(axis) :
                      PlaceOf(new, p) <= PlaceOf(new, y) /\ PlaceOf(new, y) <= PlaceOf(new, q)
                      => PlaceOf(axis, y) \in Window(axis, u)
  <2>1. Between(new, x, u) /\ u[1] \in IdsOf(axis) /\ u[2] \in IdsOf(axis)
    BY <1>1 DEF Within, Known
  <2>2. PICK p, q \in {u[1], u[2]} :
            /\ PlaceOf(new, p) <= PlaceOf(new, x) /\ PlaceOf(new, x) <= PlaceOf(new, q)
    BY <2>1, EndsAround
  <2>3. p \in IdsOf(axis) /\ q \in IdsOf(axis)
    BY <2>1
  <2>4. ASSUME NEW y \in IdsOf(axis),
               PlaceOf(new, p) <= PlaceOf(new, y) /\ PlaceOf(new, y) <= PlaceOf(new, q)
        PROVE  PlaceOf(axis, y) \in Window(axis, u)
    <3>1. Between(new, y, u)
      BY <1>0, <2>1, <2>2, <2>4 DEF Between
    <3>2. Within(axis, y, u)
      BY <1>1, <3>1, WithinStays DEF Within
    <3> QED BY <3>2, LiveIsWithin
  <2> QED BY <2>2, <2>3, <2>4
<1>2. CASE s = All
  <2>1. Window(axis, s) = DOMAIN axis /\ \A y \in IdsOf(axis) : PlaceOf(axis, y) \in DOMAIN axis
    BY <1>2, IdAtPlace DEF Window
  <2>2. PICK p, q \in IdsOf(axis) :
                /\ PlaceOf(new, p) <= PlaceOf(new, x) /\ PlaceOf(new, x) <= PlaceOf(new, q)
                /\ \A y \in IdsOf(axis) :
                      PlaceOf(new, p) <= PlaceOf(new, y) /\ PlaceOf(new, y) <= PlaceOf(new, q)
                      => PlaceOf(axis, y) \in Window(axis, t)
    BY <1>1, <1>2
  <2>3. PlaceOf(axis, p) \in Window(axis, t) /\ PlaceOf(axis, q) \in Window(axis, t)
    BY <1>0, <2>2
  <2> QED BY <2>1, <2>2, <2>3
<1>3. CASE t = All
  <2>1. Window(axis, t) = DOMAIN axis /\ \A y \in IdsOf(axis) : PlaceOf(axis, y) \in DOMAIN axis
    BY <1>3, IdAtPlace DEF Window
  <2>2. PICK p, q \in IdsOf(axis) :
                /\ PlaceOf(new, p) <= PlaceOf(new, x) /\ PlaceOf(new, x) <= PlaceOf(new, q)
                /\ \A y \in IdsOf(axis) :
                      PlaceOf(new, p) <= PlaceOf(new, y) /\ PlaceOf(new, y) <= PlaceOf(new, q)
                      => PlaceOf(axis, y) \in Window(axis, s)
    BY <1>1, <1>3
  <2>3. PlaceOf(axis, p) \in Window(axis, s) /\ PlaceOf(axis, q) \in Window(axis, s)
    BY <1>0, <2>2
  <2> QED BY <2>1, <2>2, <2>3
<1>4. CASE s # All /\ t # All
  <2>1. PICK p, q \in IdsOf(axis) :
                /\ PlaceOf(new, p) <= PlaceOf(new, x) /\ PlaceOf(new, x) <= PlaceOf(new, q)
                /\ \A y \in IdsOf(axis) :
                      PlaceOf(new, p) <= PlaceOf(new, y) /\ PlaceOf(new, y) <= PlaceOf(new, q)
                      => PlaceOf(axis, y) \in Window(axis, s)
    BY <1>1, <1>4
  <2>2. PICK l, h \in IdsOf(axis) :
                /\ PlaceOf(new, l) <= PlaceOf(new, x) /\ PlaceOf(new, x) <= PlaceOf(new, h)
                /\ \A y \in IdsOf(axis) :
                      PlaceOf(new, l) <= PlaceOf(new, y) /\ PlaceOf(new, y) <= PlaceOf(new, h)
                      => PlaceOf(axis, y) \in Window(axis, t)
    BY <1>1, <1>4
  <2> DEFINE f == IF PlaceOf(new, p) <= PlaceOf(new, l) THEN l ELSE p
             g == IF PlaceOf(new, q) <= PlaceOf(new, h) THEN q ELSE h
  <2>3. f \in IdsOf(axis) /\ g \in IdsOf(axis)
    OBVIOUS
  <2>4. /\ PlaceOf(new, p) \in Nat /\ PlaceOf(new, l) \in Nat /\ PlaceOf(new, q) \in Nat
        /\ PlaceOf(new, h) \in Nat /\ PlaceOf(new, x) \in Nat
    BY <1>0
  <2>5. /\ PlaceOf(new, p) <= PlaceOf(new, f) /\ PlaceOf(new, l) <= PlaceOf(new, f)
        /\ PlaceOf(new, g) <= PlaceOf(new, q) /\ PlaceOf(new, g) <= PlaceOf(new, h)
        /\ PlaceOf(new, f) <= PlaceOf(new, x) /\ PlaceOf(new, x) <= PlaceOf(new, g)
    BY <2>1, <2>2, <2>4
  <2>6. PlaceOf(new, f) \in Nat /\ PlaceOf(new, g) \in Nat
    BY <1>0, <2>3
  <2> HIDE DEF f, g
  <2>7. /\ PlaceOf(new, f) <= PlaceOf(new, q) /\ PlaceOf(new, f) <= PlaceOf(new, h)
        /\ PlaceOf(new, p) <= PlaceOf(new, g) /\ PlaceOf(new, l) <= PlaceOf(new, g)
    BY <2>4, <2>5, <2>6
  <2>8. /\ PlaceOf(axis, f) \in Window(axis, s) /\ PlaceOf(axis, g) \in Window(axis, s)
        /\ PlaceOf(axis, f) \in Window(axis, t) /\ PlaceOf(axis, g) \in Window(axis, t)
    BY <2>1, <2>2, <2>3, <2>5, <2>7
  <2> QED BY <2>3, <2>5, <2>8
<1> QED BY <1>2, <1>3, <1>4

\* What both spans cover, their clip covers: of what was live when they were
\* clipped, and of what comes later if everything was.
LEMMA ClipLosesNothing ==
    ASSUME NEW axis, AxisOK(axis), axis # <<>>,
           NEW new, AxisOK(new), SameOrder(axis, new),
           NEW s, Known(axis, s), NEW t, Known(axis, t),
           NEW x \in IdsOf(new), x \in LiveIds(axis) \/ LiveIds(axis) = IdsOf(axis),
           Within(new, x, s), Within(new, x, t)
    PROVE  /\ Window(axis, s) \intersect Window(axis, t) # {}
           /\ Within(new, x, Clip(s, t, axis))
<1> DEFINE both == Window(axis, s) \intersect Window(axis, t)
<1>0. /\ Len(axis) \in Nat /\ DOMAIN axis = 1 .. Len(axis)
      /\ Len(new) \in Nat /\ DOMAIN new = 1 .. Len(new)
  BY LenProperties DEF AxisOK
<1>1. CASE s = All /\ t = All
  <2>1. Clip(s, t, axis) = All
    BY <1>1 DEF Clip
  <2>2. both = DOMAIN axis
    BY <1>1 DEF Window
  <2>3. Len(axis) # 0
    BY EmptySeq DEF AxisOK
  <2>4. 1 \in DOMAIN axis
    BY <1>0, <2>3
  <2> QED BY <2>1, <2>2, <2>4 DEF Within
<1>2. CASE ~ (s = All /\ t = All)
  <2>1. \E p, q \in IdsOf(axis) :
              /\ PlaceOf(new, p) <= PlaceOf(new, x) /\ PlaceOf(new, x) <= PlaceOf(new, q)
              /\ {PlaceOf(axis, p), PlaceOf(axis, q)} \subseteq both
    <3>1. CASE x \in LiveIds(axis)
      <4>1. x \in IdsOf(axis)
        BY <3>1, LiveInIds
      <4>2. Within(axis, x, s) /\ Within(axis, x, t)
        BY <4>1, WithinStays
      <4>3. PlaceOf(axis, x) \in both
        BY <3>1, <4>2, LiveIsWithin
      <4>4. PlaceOf(new, x) \in Nat
        BY <1>0, IdAtPlace
      <4> QED BY <4>1, <4>3, <4>4
    <3>2. CASE LiveIds(axis) = IdsOf(axis)
      BY <1>2, <3>2, FullAround
    <3> QED BY <3>1, <3>2
  <2>2. PICK p, q \in IdsOf(axis) :
              /\ PlaceOf(new, p) <= PlaceOf(new, x) /\ PlaceOf(new, x) <= PlaceOf(new, q)
              /\ {PlaceOf(axis, p), PlaceOf(axis, q)} \subseteq both
    BY <2>1
  <2>3. Clip(s, t, axis) = <<axis[Min(both)].id, axis[Max(both)].id>>
    BY <1>2 DEF Clip
  <2>4. both \subseteq DOMAIN axis
    <3>1. CASE s # All
      BY <3>1, WindowBetween
    <3>2. CASE t # All
      BY <3>2, WindowBetween
    <3> QED BY <1>2, <3>1, <3>2
  <2> HIDE DEF both
  <2> DEFINE f == axis[Min(both)].id
             g == axis[Max(both)].id
  <2>5. /\ Min(both) \in DOMAIN axis /\ Max(both) \in DOMAIN axis /\ both # {}
        /\ Min(both) <= PlaceOf(axis, p) /\ PlaceOf(axis, q) <= Max(both)
    BY <2>2, <2>4, Ends
  <2>6. PlaceOf(axis, f) = Min(both) /\ PlaceOf(axis, g) = Max(both)
        /\ f \in IdsOf(axis) /\ g \in IdsOf(axis)
    BY <2>5, PlaceIs DEF IdsOf
  <2> HIDE DEF f, g
  <2>7. PlaceOf(new, f) <= PlaceOf(new, p) /\ PlaceOf(new, q) <= PlaceOf(new, g)
    BY <2>2, <2>5, <2>6 DEF SameOrder
  <2>8. /\ f \in IdsOf(new) /\ g \in IdsOf(new) /\ p \in IdsOf(new) /\ q \in IdsOf(new)
    BY <2>2, <2>6 DEF SameOrder
  <2>9. /\ PlaceOf(new, f) \in Nat /\ PlaceOf(new, g) \in Nat /\ PlaceOf(new, p) \in Nat
        /\ PlaceOf(new, q) \in Nat /\ PlaceOf(new, x) \in Nat
    BY <1>0, <2>8, IdAtPlace
  <2>10. PlaceOf(new, f) <= PlaceOf(new, x) /\ PlaceOf(new, x) <= PlaceOf(new, g)
    BY <2>2, <2>7, <2>9
  <2>11. Between(new, x, Clip(s, t, axis))
    BY <2>3, <2>8, <2>10 DEF Between, f, g
  <2> QED BY <2>5, <2>11 DEF Within, both
<1> QED BY <1>1, <1>2

-----------------------------------------------------------------------------
(* Rectangles, and what a registry shows of a cell: the newest rule that    *)
(* covers it, told by the order of identities alone.                        *)

Under(axis, target, c) == Within(axis, c[1], target.rows) /\ Within(cols, c[2], target.cols)
KnownTarget(axis, target) == Known(axis, target.rows) /\ Known(cols, target.cols)
Spared(axis, x) == x \in LiveIds(axis) \/ LiveIds(axis) = IdsOf(axis)

\* A cell of the axis after some edits.
Near(axis, new, c) ==
    AxisOK(new) /\ SameOrder(axis, new) /\ c \in IdsOf(new) \X IdsOf(cols)

Shown(rs, axis, c) ==
    LET covering == {i \in DOMAIN rs : Under(axis, rs[i].target, c)}
    IN IF covering = {} THEN Default ELSE rs[Max(covering)].value
Newest(rs, axis, c, i) ==
    /\ i \in DOMAIN rs /\ Under(axis, rs[i].target, c)
    /\ \A j \in DOMAIN rs : Under(axis, rs[j].target, c) => j <= i

LEMMA OrderItself ==
    ASSUME NEW axis
    PROVE  SameOrder(axis, axis)
BY DEF SameOrder

\* Under a target, a rule covers what its clip to the target covers.
LEMMA ClipExact ==
    ASSUME NEW axis, AxisOK(axis), axis # <<>>, NEW new, NEW c, Near(axis, new, c),
           Spared(axis, c[1]),
           NEW r, KnownTarget(axis, r), NEW t, KnownTarget(axis, t), Under(new, t, c)
    PROVE  Under(new, r, c) <=>
              /\ Meets(axis, cols, r, t)
              /\ Under(new, [rows |-> Clip(r.rows, t.rows, axis),
                             cols |-> Clip(r.cols, t.cols, cols)], c)
<1>0. /\ AxisOK(new) /\ SameOrder(axis, new) /\ c[1] \in IdsOf(new) /\ c[2] \in IdsOf(cols)
      /\ AxisOK(cols) /\ cols # <<>> /\ SameOrder(cols, cols) /\ LiveIds(cols) = IdsOf(cols)
  BY ColsOK, OrderItself DEF Near
<1>1. /\ Known(axis, r.rows) /\ Known(cols, r.cols) /\ Known(axis, t.rows) /\ Known(cols, t.cols)
      /\ Within(new, c[1], t.rows) /\ Within(cols, c[2], t.cols)
  BY DEF KnownTarget, Under
<1>2. ASSUME Under(new, r, c)
      PROVE  /\ Meets(axis, cols, r, t)
             /\ Under(new, [rows |-> Clip(r.rows, t.rows, axis),
                            cols |-> Clip(r.cols, t.cols, cols)], c)
  <2>1. Within(new, c[1], r.rows) /\ Within(cols, c[2], r.cols)
    BY <1>2 DEF Under
  <2>2. /\ Window(axis, r.rows) \intersect Window(axis, t.rows) # {}
        /\ Within(new, c[1], Clip(r.rows, t.rows, axis))
    BY <1>0, <1>1, <2>1, ClipLosesNothing DEF Spared
  <2>3. /\ Window(cols, r.cols) \intersect Window(cols, t.cols) # {}
        /\ Within(cols, c[2], Clip(r.cols, t.cols, cols))
    BY <1>0, <1>1, <2>1, ClipLosesNothing
  <2> QED BY <2>2, <2>3 DEF Meets, Under
<1>3. ASSUME Meets(axis, cols, r, t),
             Under(new, [rows |-> Clip(r.rows, t.rows, axis),
                         cols |-> Clip(r.cols, t.cols, cols)], c)
      PROVE  Under(new, r, c)
  <2>1. /\ Window(axis, r.rows) \intersect Window(axis, t.rows) # {}
        /\ Window(cols, r.cols) \intersect Window(cols, t.cols) # {}
        /\ Within(new, c[1], Clip(r.rows, t.rows, axis))
        /\ Within(cols, c[2], Clip(r.cols, t.cols, cols))
    BY <1>3 DEF Meets, Under
  <2>2. Within(new, c[1], r.rows)
    BY <1>0, <2>1, ClipAddsNothing
  <2>3. Within(cols, c[2], r.cols)
    BY <1>0, <2>1, ClipAddsNothing
  <2> QED BY <2>2, <2>3 DEF Under
<1> QED BY <1>2, <1>3

\* The looks of a live cell are told by the order of identities.
LEMMA LookIsShown ==
    ASSUME NEW axis, AxisOK(axis), NEW c \in LiveIds(axis) \X LiveIds(cols), NEW rs
    PROVE  Look(rs, axis, cols, c) = Shown(rs, axis, c)
<1>1. \A i \in DOMAIN rs : Covers(axis, cols, rs[i].target, c) <=> Under(axis, rs[i].target, c)
  BY ColsOK, LiveIsWithin DEF Covers, Under
<1>2. {i \in DOMAIN rs : Covers(axis, cols, rs[i].target, c)}
        = {i \in DOMAIN rs : Under(axis, rs[i].target, c)}
  BY <1>1
<1> QED BY <1>2 DEF Look, Shown

LEMMA ShownIsNewest ==
    ASSUME NEW R, NEW rs \in Seq(R), NEW axis, NEW c
    PROVE  \/ /\ \A i \in DOMAIN rs : ~ Under(axis, rs[i].target, c)
              /\ Shown(rs, axis, c) = Default
           \/ \E i \in DOMAIN rs : Newest(rs, axis, c, i) /\ Shown(rs, axis, c) = rs[i].value
<1> DEFINE covering == {i \in DOMAIN rs : Under(axis, rs[i].target, c)}
<1>1. Len(rs) \in Nat /\ DOMAIN rs = 1 .. Len(rs)
  BY LenProperties
<1>2. CASE covering = {}
  BY <1>2 DEF Shown
<1>3. CASE covering # {}
  <2>1. covering \subseteq Nat /\ \A i \in covering : i <= Len(rs)
    BY <1>1
  <2>2. Max(covering) \in covering /\ \A i \in covering : i <= Max(covering)
    <3> HIDE DEF covering
    <3> QED BY <1>1, <1>3, <2>1, MaxIsGreatest
  <2>3. Shown(rs, axis, c) = rs[Max(covering)].value
    BY <1>3 DEF Shown
  <2>4. Newest(rs, axis, c, Max(covering))
    BY <2>2 DEF Newest
  <2> QED BY <2>2, <2>3, <2>4
<1> QED BY <1>2, <1>3

LEMMA NewestShown ==
    ASSUME NEW R, NEW rs \in Seq(R), NEW axis, NEW c, NEW i, Newest(rs, axis, c, i)
    PROVE  Shown(rs, axis, c) = rs[i].value
<1>1. DOMAIN rs \subseteq Nat
  BY LenProperties
<1>2. i \in DOMAIN rs /\ Under(axis, rs[i].target, c)
  BY DEF Newest
<1>3. PICK j \in DOMAIN rs : Newest(rs, axis, c, j) /\ Shown(rs, axis, c) = rs[j].value
  BY <1>2, ShownIsNewest
<1>4. i = j
  <2>1. i \in Nat /\ j \in Nat
    BY <1>1, <1>2
  <2>2. i <= j /\ j <= i
    BY <1>2, <1>3 DEF Newest
  <2> QED BY <2>1, <2>2
<1> QED BY <1>3, <1>4

\* Rules after others show through them, unless none covers the cell.
LEMMA ShownConcat ==
    ASSUME NEW R, NEW a \in Seq(R), NEW b \in Seq(R), NEW axis, NEW c
    PROVE  Shown(a \o b, axis, c) =
              IF \E i \in DOMAIN b : Under(axis, b[i].target, c)
              THEN Shown(b, axis, c) ELSE Shown(a, axis, c)
<1> DEFINE ab == a \o b
<1>1. /\ Len(a) \in Nat /\ DOMAIN a = 1 .. Len(a) /\ Len(b) \in Nat /\ DOMAIN b = 1 .. Len(b)
      /\ ab \in Seq(R) /\ Len(ab) = Len(a) + Len(b)
  BY LenProperties, ConcatProperties
<1>2. DOMAIN ab = 1 .. Len(a) + Len(b)
  BY <1>1, LenProperties
<1>3. \A i \in 1 .. Len(a) + Len(b) : ab[i] = IF i <= Len(a) THEN a[i] ELSE b[i - Len(a)]
  BY <1>1, ConcatProperties
<1> HIDE DEF ab
<1>4. ASSUME NEW i \in DOMAIN b, Newest(b, axis, c, i)
      PROVE  Shown(ab, axis, c) = Shown(b, axis, c)
  <2>1. /\ Len(a) + i \in DOMAIN ab /\ ab[Len(a) + i] = b[i]
    <3>1. Len(a) + i \in 1 .. Len(a) + Len(b) /\ ~ (Len(a) + i <= Len(a)) /\ (Len(a) + i) - Len(a) = i
      BY <1>1
    <3> QED BY <1>2, <1>3, <3>1
  <2>2. ASSUME NEW j \in DOMAIN ab, Under(axis, ab[j].target, c)
        PROVE  j <= Len(a) + i
    <3>1. CASE j <= Len(a)
      BY <1>1, <1>2, <3>1
    <3>2. CASE ~ (j <= Len(a))
      <4>1. j - Len(a) \in DOMAIN b /\ ab[j] = b[j - Len(a)] /\ j \in Nat
        BY <1>1, <1>2, <1>3, <3>2
      <4>2. j - Len(a) <= i
        BY <1>4, <2>2, <4>1 DEF Newest
      <4> QED BY <1>1, <4>1, <4>2
    <3> QED BY <3>1, <3>2
  <2>3. Newest(ab, axis, c, Len(a) + i)
    BY <1>4, <2>1, <2>2 DEF Newest
  <2>4. Shown(ab, axis, c) = b[i].value
    BY <1>1, <2>1, <2>3, NewestShown
  <2> QED BY <1>4, <2>4, NewestShown
<1>5. ASSUME \A i \in DOMAIN b : ~ Under(axis, b[i].target, c)
      PROVE  Shown(ab, axis, c) = Shown(a, axis, c)
  <2>1. ASSUME NEW j \in DOMAIN ab, Under(axis, ab[j].target, c)
        PROVE  j \in DOMAIN a /\ ab[j] = a[j]
    <3>1. CASE j <= Len(a)
      BY <1>1, <1>2, <1>3, <3>1
    <3>2. CASE ~ (j <= Len(a))
      <4>1. j - Len(a) \in DOMAIN b /\ ab[j] = b[j - Len(a)]
        BY <1>1, <1>2, <1>3, <3>2
      <4> QED BY <1>5, <2>1, <4>1
    <3> QED BY <3>1, <3>2
  <2>2. ASSUME NEW i \in DOMAIN a
        PROVE  i \in DOMAIN ab /\ ab[i] = a[i]
    BY <1>1, <1>2, <1>3
  <2>3. {i \in DOMAIN ab : Under(axis, ab[i].target, c)} = {i \in DOMAIN a : Under(axis, a[i].target, c)}
    BY <2>1, <2>2
  <2>4. CASE {i \in DOMAIN a : Under(axis, a[i].target, c)} = {}
    BY <2>3, <2>4 DEF Shown
  <2>5. CASE {i \in DOMAIN a : Under(axis, a[i].target, c)} # {}
    <3>1. PICK i \in DOMAIN a : Newest(a, axis, c, i)
      BY <2>5, ShownIsNewest
    <3>2. Newest(ab, axis, c, i)
      BY <2>1, <2>2, <3>1 DEF Newest
    <3>3. Shown(ab, axis, c) = ab[i].value
      BY <1>1, <3>2, NewestShown
    <3>4. Shown(a, axis, c) = a[i].value
      BY <3>1, NewestShown
    <3> QED BY <2>2, <3>3, <3>4
  <2> QED BY <2>4, <2>5
<1>6. CASE \E i \in DOMAIN b : Under(axis, b[i].target, c)
  <2>1. PICK i \in DOMAIN b : Newest(b, axis, c, i)
    BY <1>6, ShownIsNewest
  <2> QED BY <1>4, <1>6, <2>1 DEF ab
<1>7. CASE ~ \E i \in DOMAIN b : Under(axis, b[i].target, c)
  BY <1>5, <1>7 DEF ab
<1> QED BY <1>6, <1>7

LEMMA ShownAppend ==
    ASSUME NEW R, NEW rs \in Seq(R), NEW r \in R, NEW axis, NEW c
    PROVE  Shown(Append(rs, r), axis, c) =
              IF Under(axis, r.target, c) THEN r.value ELSE Shown(rs, axis, c)
<1> DEFINE q == <<r>>
<1>1. q \in Seq(R) /\ Append(rs, r) = rs \o q
  BY AppendIsConcat
<1>2. DOMAIN q = {1} /\ q[1] = r
  OBVIOUS
<1> HIDE DEF q
<1>3. ASSUME Under(axis, r.target, c)
      PROVE  Shown(q, axis, c) = r.value
  <2>1. Newest(q, axis, c, 1)
    BY <1>2, <1>3 DEF Newest
  <2> QED BY <1>1, <1>2, <2>1, NewestShown
<1>4. Shown(rs \o q, axis, c) =
        IF \E i \in DOMAIN q : Under(axis, q[i].target, c)
        THEN Shown(q, axis, c) ELSE Shown(rs, axis, c)
  BY <1>1, ShownConcat
<1> QED BY <1>1, <1>2, <1>3, <1>4

-----------------------------------------------------------------------------
(* The rules under a target: gathered one by one, each clipped to it.       *)

\* A set with 0, and the next of each below the bound, has all up to it.
LEMMA UpTo ==
    ASSUME NEW n \in Nat, NEW T, 0 \in T, \A k \in 0 .. n - 1 : k \in T => k + 1 \in T
    PROVE  0 .. n \subseteq T
<1> DEFINE Bad == 0 .. n \ T
<1>1. SUFFICES ASSUME Bad # {} PROVE FALSE
  OBVIOUS
<1>2. Bad \subseteq Nat
  OBVIOUS
<1>3. PICK least \in Bad : \A k \in Bad : least <= k
  <2> HIDE DEF Bad
  <2> QED BY <1>1, <1>2, LeastNat
<1>4. least # 0 /\ least - 1 \in 0 .. n - 1 /\ ~ (least <= least - 1)
  OBVIOUS
<1>5. least - 1 \in T
  BY <1>3, <1>4
<1> QED BY <1>4, <1>5

Steps(run, S, base, n, g) ==
    /\ run \in [0 .. n -> S]
    /\ run[0] = base
    /\ \A i \in 1 .. n : run[i] = g[i][run[i - 1]]

\* Steps one after the other lead somewhere.
LEMMA StepsExist ==
    ASSUME NEW S, NEW base \in S, NEW n \in Nat, NEW g,
           \A i \in 1 .. n : \A x \in S : g[i][x] \in S
    PROVE  \E run : Steps(run, S, base, n, g)
<1> DEFINE T == {k \in 0 .. n : \E run : Steps(run, S, base, k, g)}
<1>1. 0 \in T
  <2> DEFINE none == [i \in 0 .. 0 |-> base]
  <2>1. none \in [0 .. 0 -> S] /\ none[0] = base /\ 1 .. 0 = {}
    OBVIOUS
  <2> HIDE DEF none
  <2>2. Steps(none, S, base, 0, g)
    BY <2>1 DEF Steps
  <2>3. 0 \in 0 .. n
    OBVIOUS
  <2> QED BY <2>2, <2>3
<1>2. ASSUME NEW k \in 0 .. n - 1, k \in T
      PROVE  k + 1 \in T
  <2>1. PICK run : Steps(run, S, base, k, g)
    BY <1>2
  <2> DEFINE more == [i \in 0 .. k + 1 |-> IF i = k + 1 THEN g[k + 1][run[k]] ELSE run[i]]
  <2>2. k + 1 \in 1 .. n /\ k + 1 \in 0 .. n /\ 0 \in 0 .. k /\ k \in 0 .. k
    OBVIOUS
  <2>3. run[k] \in S /\ \A i \in 0 .. k : run[i] \in S
    BY <2>1, <2>2 DEF Steps
  <2>4. more \in [0 .. k + 1 -> S]
    <3>1. g[k + 1][run[k]] \in S
      BY <2>2, <2>3
    <3>2. \A i \in 0 .. k + 1 : i = k + 1 \/ i \in 0 .. k
      OBVIOUS
    <3> QED BY <2>3, <3>1, <3>2
  <2>5. more[0] = base
    BY <2>1, <2>2 DEF Steps
  <2>6. ASSUME NEW i \in 1 .. k + 1
        PROVE  more[i] = g[i][more[i - 1]]
    <3>1. i - 1 \in 0 .. k /\ i - 1 # k + 1 /\ i - 1 \in 0 .. k + 1 /\ i \in 0 .. k + 1
      OBVIOUS
    <3>2. more[i - 1] = run[i - 1]
      BY <3>1
    <3>3. CASE i = k + 1
      <4>1. i - 1 = k
        BY <3>3
      <4> QED BY <3>1, <3>2, <3>3, <4>1
    <3>4. CASE i # k + 1
      <4>1. i \in 1 .. k
        BY <3>4
      <4>2. run[i] = g[i][run[i - 1]]
        BY <2>1, <4>1 DEF Steps
      <4> QED BY <3>1, <3>2, <3>4, <4>2
    <3> QED BY <3>3, <3>4
  <2> HIDE DEF more
  <2>7. Steps(more, S, base, k + 1, g)
    BY <2>4, <2>5, <2>6 DEF Steps
  <2> QED BY <2>2, <2>7
<1>3. 0 .. n \subseteq T
  <2> HIDE DEF T
  <2> QED BY <1>1, <1>2, UpTo
<1>4. n \in 0 .. n
  OBVIOUS
<1> QED BY <1>3, <1>4

Gathered(over, S, rs, axis, t) ==
    /\ over \in [0 .. Len(rs) -> Seq(S)]
    /\ over[0] = <<>>
    /\ over[Len(rs)] = Overlapping(rs, axis, cols, t)
    /\ \A i \in 1 .. Len(rs) :
          over[i] = IF Meets(axis, cols, rs[i].target, t)
                    THEN Append(over[i - 1], Clipped(rs[i], axis, cols, t)) ELSE over[i - 1]

LEMMA GatherSteps ==
    ASSUME NEW R, NEW rs \in Seq(R), NEW axis, NEW t, NEW S,
           \A i \in 1 .. Len(rs) : Meets(axis, cols, rs[i].target, t)
                                   => Clipped(rs[i], axis, cols, t) \in S
    PROVE  \E over : Gathered(over, S, rs, axis, t)
<1> DEFINE n == Len(rs)
           Met(i) == Meets(axis, cols, rs[i].target, t)
           clip == [i \in 1 .. n |-> Clipped(rs[i], axis, cols, t)]
           Q == Seq(S)
           none == <<>>
           g == [i \in 1 .. n |-> [l \in Q |-> IF Met(i) THEN Append(l, clip[i]) ELSE l]]
           solution == CHOOSE f : f = [i \in 0 .. n |->
                IF i = 0 THEN <<>>
                ELSE IF Met(i) THEN Append(f[i - 1], Clipped(rs[i], axis, cols, t)) ELSE f[i - 1]]
<1>1. n \in Nat /\ none \in Q
  BY LenProperties, EmptySeq
<1>2. ASSUME NEW i \in 1 .. n, NEW l \in Q
      PROVE  g[i][l] = (IF Met(i) THEN Append(l, Clipped(rs[i], axis, cols, t)) ELSE l) /\ g[i][l] \in Q
  <2>1. g[i][l] = IF Met(i) THEN Append(l, Clipped(rs[i], axis, cols, t)) ELSE l
    OBVIOUS
  <2>2. Met(i) => Append(l, Clipped(rs[i], axis, cols, t)) \in Q
    BY AppendProperties
  <2> HIDE DEF g, Q
  <2> QED BY <2>1, <2>2
<1>3. PICK f : Steps(f, Q, none, n, g)
  <2> HIDE DEF g, n, Q, none
  <2> QED BY <1>1, <1>2, StepsExist
<1>4. /\ f \in [0 .. n -> Q] /\ f[0] = <<>>
      /\ \A i \in 1 .. n :
            f[i] = IF Met(i) THEN Append(f[i - 1], Clipped(rs[i], axis, cols, t)) ELSE f[i - 1]
  <2>1. \A i \in 1 .. n : i - 1 \in 0 .. n
    BY <1>1
  <2> HIDE DEF g, n, Q, Met
  <2>2. f \in [0 .. n -> Q] /\ f[0] = <<>> /\ \A i \in 1 .. n : f[i] = g[i][f[i - 1]]
    BY <1>3 DEF Steps, none
  <2>3. \A i \in 1 .. n : f[i - 1] \in Q
    BY <2>1, <2>2
  <2> QED BY <1>2, <2>2, <2>3
<1>5. f = [i \in 0 .. n |->
                IF i = 0 THEN <<>>
                ELSE IF Met(i) THEN Append(f[i - 1], Clipped(rs[i], axis, cols, t)) ELSE f[i - 1]]
  <2>1. \A i \in 0 .. n : i = 0 \/ i \in 1 .. n
    BY <1>1
  <2> HIDE DEF n, Q, Met
  <2> QED BY <1>4, <2>1
<1>6. solution = [i \in 0 .. n |->
                IF i = 0 THEN <<>>
                ELSE IF Met(i) THEN Append(solution[i - 1], Clipped(rs[i], axis, cols, t))
                ELSE solution[i - 1]]
  <2> HIDE DEF n, Met
  <2> QED BY <1>5
<1>7. Overlapping(rs, axis, cols, t) = solution[n]
  BY Zenon DEF Overlapping
<1> HIDE DEF solution, n, Met, Q
<1>8. solution[0] = <<>>
  <2>1. 0 \in 0 .. n
    BY <1>1
  <2> QED BY <1>6, <2>1
<1>9. ASSUME NEW i \in 1 .. n
      PROVE  solution[i] = IF Met(i) THEN Append(solution[i - 1], Clipped(rs[i], axis, cols, t))
                           ELSE solution[i - 1]
  <2>1. i \in 0 .. n /\ i # 0
    BY <1>1
  <2> QED BY <1>6, <2>1
\* Two solutions agree at each index, so this one has the type of the other.
<1> DEFINE T == {k \in 0 .. n : solution[k] = f[k]}
<1>10. 0 .. n \subseteq T
  <2>1. 0 \in T
    BY <1>1, <1>4, <1>8
  <2>2. ASSUME NEW k \in 0 .. n - 1, k \in T
        PROVE  k + 1 \in T
    <3>1. k + 1 \in 1 .. n /\ k + 1 \in 0 .. n /\ (k + 1) - 1 = k
      BY <1>1
    <3>2. solution[k] = f[k]
      BY <2>2
    <3> QED BY <1>4, <1>9, <3>1, <3>2
  <2> HIDE DEF T
  <2> QED BY <1>1, <2>1, <2>2, UpTo
<1>11. solution \in [0 .. n -> Q]
  <2>1. \A k \in 0 .. n : solution[k] \in Q
    BY <1>4, <1>10
  <2>2. solution = [i \in 0 .. n |-> solution[i]]
    BY <1>6
  <2> QED BY <2>1, <2>2
<1>12. Gathered(solution, S, rs, axis, t)
  BY <1>7, <1>8, <1>9, <1>11 DEF Gathered, n, Q, Met
<1> QED BY <1>12

\* Each of them is the clip of a rule that meets the target.
LEMMA OverlapFrom ==
    ASSUME NEW R, NEW rs \in Seq(R), NEW axis, NEW t, NEW S,
           \A i \in 1 .. Len(rs) : Meets(axis, cols, rs[i].target, t)
                                   => Clipped(rs[i], axis, cols, t) \in S
    PROVE  Overlapping(rs, axis, cols, t) \in Seq(S)
<1>1. PICK over : Gathered(over, S, rs, axis, t)
  BY GatherSteps
<1>2. Len(rs) \in 0 .. Len(rs)
  BY LenProperties
<1> QED BY <1>1, <1>2 DEF Gathered

\* And they show of a cell under the target what the registry does: of a row
\* that was live when they were clipped, or comes later if all were.
LEMMA OverlapExact ==
    ASSUME NEW R, NEW rs \in Seq(R), NEW axis, AxisOK(axis), axis # <<>>,
           NEW new, NEW c, Near(axis, new, c), Spared(axis, c[1]),
           \A i \in 1 .. Len(rs) : KnownTarget(axis, rs[i].target),
           NEW t, KnownTarget(axis, t), Under(new, t, c)
    PROVE  Shown(Overlapping(rs, axis, cols, t), new, c) = Shown(rs, new, c)
<1> DEFINE n == Len(rs)
           S == {Clipped(rs[i], axis, cols, t) : i \in 1 .. n}
           pre == [k \in 0 .. n |-> [j \in 1 .. k |-> rs[j]]]
<1>1. n \in Nat /\ \A i \in 1 .. n : rs[i] \in R /\ Clipped(rs[i], axis, cols, t) \in S
  BY LenProperties
<1>2. PICK over : Gathered(over, S, rs, axis, t)
  BY <1>1, GatherSteps
<1>3. \A k \in 0 .. n : pre[k] \in Seq(R)
  <2> SUFFICES ASSUME NEW k \in 0 .. n PROVE [j \in 1 .. k |-> rs[j]] \in Seq(R)
    OBVIOUS
  <2>1. k \in Nat /\ \A j \in 1 .. k : rs[j] \in R
    BY <1>1
  <2> QED BY <2>1
<1>4. pre[0] = <<>> /\ pre[n] = rs
  <2>1. 0 \in 0 .. n /\ n \in 0 .. n /\ 1 .. 0 = {}
    BY <1>1
  <2>2. pre[n] = [j \in 1 .. n |-> rs[j]]
    BY <2>1
  <2>3. rs = [j \in 1 .. n |-> rs[j]]
    OBVIOUS
  <2>4. pre[0] = [j \in {} |-> rs[j]]
    BY <2>1
  <2> QED BY <2>2, <2>3, <2>4
<1>5. ASSUME NEW k \in 0 .. n - 1
      PROVE  pre[k + 1] = Append(pre[k], rs[k + 1])
  <2>1. k \in 0 .. n /\ k + 1 \in 0 .. n /\ k \in Nat
    BY <1>1
  <2> DEFINE p == [j \in 1 .. k |-> rs[j]]
             q == [j \in 1 .. k + 1 |-> rs[j]]
  <2>2. p \in Seq(R) /\ q \in Seq(R) /\ Len(p) = k /\ Len(q) = k + 1
    <3>1. p = pre[k] /\ q = pre[k + 1]
      BY <2>1
    <3>2. p \in Seq(R) /\ q \in Seq(R)
      BY <1>3, <2>1, <3>1
    <3>3. DOMAIN p = 1 .. k /\ DOMAIN q = 1 .. k + 1
      OBVIOUS
    <3> HIDE DEF p, q
    <3> QED BY <2>1, <3>2, <3>3, LenProperties
  <2>3. rs[k + 1] \in R
    BY <1>1
  <2>4. \A j \in 1 .. k : p[j] = q[j]
    OBVIOUS
  <2>5. q[k + 1] = rs[k + 1]
    BY <2>1
  <2>6. pre[k] = p /\ pre[k + 1] = q
    BY <2>1
  <2> HIDE DEF p, q
  <2>7. Append(p, rs[k + 1]) = q
    <3> DEFINE a == Append(p, rs[k + 1])
    <3>1. /\ a \in Seq(R) /\ Len(a) = k + 1 /\ a[k + 1] = rs[k + 1]
          /\ \A j \in 1 .. k : a[j] = p[j]
      BY <2>2, <2>3, AppendProperties
    <3> HIDE DEF a
    <3>2. \A j \in 1 .. k + 1 : a[j] = q[j]
      BY <2>1, <2>4, <2>5, <3>1
    <3>3. a = q
      BY <2>2, <3>1, <3>2, SeqEqual
    <3> QED BY <3>3 DEF a
  <2> QED BY <2>6, <2>7
<1> HIDE DEF pre, S, n
<1> DEFINE T == {k \in 0 .. n : Shown(over[k], new, c) = Shown(pre[k], new, c)}
<1>6. /\ over \in [0 .. n -> Seq(S)] /\ over[0] = <<>>
      /\ over[n] = Overlapping(rs, axis, cols, t)
      /\ \A i \in 1 .. n :
            over[i] = IF Meets(axis, cols, rs[i].target, t)
                      THEN Append(over[i - 1], Clipped(rs[i], axis, cols, t)) ELSE over[i - 1]
  BY <1>2 DEF Gathered, n
<1>7. 0 \in T
  BY <1>1, <1>4, <1>6
<1>8. ASSUME NEW k \in 0 .. n - 1, k \in T
      PROVE  k + 1 \in T
  <2> DEFINE r == rs[k + 1]
             clip == Clipped(r, axis, cols, t)
  <2>1. k \in 0 .. n /\ k + 1 \in 0 .. n /\ k + 1 \in 1 .. n /\ (k + 1) - 1 = k
    BY <1>1
  <2>2. over[k] \in Seq(S) /\ pre[k] \in Seq(R) /\ r \in R /\ clip \in S
    BY <1>1, <1>3, <1>6, <2>1
  <2>3. over[k + 1] = IF Meets(axis, cols, r.target, t) THEN Append(over[k], clip) ELSE over[k]
    BY <1>6, <2>1
  <2>4. pre[k + 1] = Append(pre[k], r)
    BY <1>5
  <2>5. KnownTarget(axis, r.target)
    BY <2>1 DEF n
  <2>6. /\ clip.target = [rows |-> Clip(r.target.rows, t.rows, axis),
                          cols |-> Clip(r.target.cols, t.cols, cols)]
        /\ clip.value = r.value
    BY DEF Clipped
  <2> HIDE DEF r, clip
  <2>7. Under(new, r.target, c) <=> Meets(axis, cols, r.target, t) /\ Under(new, clip.target, c)
    BY <2>5, <2>6, ClipExact
  <2>8. Shown(over[k], new, c) = Shown(pre[k], new, c)
    BY <1>8
  <2>9. Shown(pre[k + 1], new, c) = IF Under(new, r.target, c) THEN r.value ELSE Shown(pre[k], new, c)
    BY <2>2, <2>4, ShownAppend
  <2>10. Shown(Append(over[k], clip), new, c)
            = IF Under(new, clip.target, c) THEN clip.value ELSE Shown(over[k], new, c)
    BY <2>2, ShownAppend
  <2>11. Shown(over[k + 1], new, c) = Shown(pre[k + 1], new, c)
    BY <2>3, <2>6, <2>7, <2>8, <2>9, <2>10
  <2> QED BY <2>1, <2>11
<1>9. 0 .. n \subseteq T
  <2> HIDE DEF T
  <2> QED BY <1>1, <1>7, <1>8, UpTo
<1>10. n \in T
  BY <1>1, <1>9
<1> QED BY <1>4, <1>6, <1>10

-----------------------------------------------------------------------------
(* Stacks: what a cell looked like when an entry was made, the entries     *)
(* above it lead back to.  The first of them over the cell was made while  *)
(* it looked so; with none over it, it looks so now.                       *)

Styles(stack) == {i \in DOMAIN stack : stack[i].kind = "style"}
Untouched(stack, i, axis, c) ==
    \A k \in Styles(stack) : i <= k => ~ Under(axis, stack[k].target, c)
FirstOver(stack, i, j, axis, c) ==
    /\ j \in Styles(stack) /\ i <= j /\ Under(axis, stack[j].target, c)
    /\ \A k \in Styles(stack) : i <= k /\ k < j => ~ Under(axis, stack[k].target, c)
Follows(stack, rs, axis, c) ==
    \A i \in Styles(stack) : ~ stack[i].disturbed /\ Remembered(stack[i], c[1]) =>
        \/ /\ Untouched(stack, i, axis, c)
           /\ Shown(rs, axis, c) = Shown(stack[i].before, axis, c)
        \/ \E j \in Styles(stack) :
              /\ FirstOver(stack, i, j, axis, c)
              /\ Shown(stack[j].before, axis, c) = Shown(stack[i].before, axis, c)

\* An entry was made after those below it.
Nested(stack) ==
    \A i, j \in Styles(stack) : i <= j =>
        stack[j].axes \subseteq stack[i].axes /\ (stack[j].disturbed => stack[i].disturbed)

\* The same entries, some of which claim less.
Weakened(stack, weak) ==
    /\ DOMAIN weak = DOMAIN stack
    /\ \A i \in DOMAIN stack :
          /\ weak[i].kind = stack[i].kind
          /\ stack[i].kind = "style" =>
                /\ weak[i].target = stack[i].target /\ weak[i].before = stack[i].before
                /\ weak[i].prior = stack[i].prior
                /\ stack[i].axes \subseteq weak[i].axes
                /\ stack[i].disturbed => weak[i].disturbed

LEMMA WeakFollows ==
    ASSUME NEW stack, NEW weak, Weakened(stack, weak), NEW rs, NEW axis, NEW c,
           Follows(stack, rs, axis, c)
    PROVE  Follows(weak, rs, axis, c)
<1>1. Styles(weak) = Styles(stack)
  BY DEF Weakened, Styles
<1>2. \A k \in Styles(stack) : weak[k].target = stack[k].target /\ weak[k].before = stack[k].before
  BY DEF Weakened, Styles
<1> SUFFICES ASSUME NEW i \in Styles(stack), ~ weak[i].disturbed, Remembered(weak[i], c[1])
             PROVE  \/ /\ Untouched(weak, i, axis, c)
                       /\ Shown(rs, axis, c) = Shown(weak[i].before, axis, c)
                    \/ \E j \in Styles(weak) :
                          /\ FirstOver(weak, i, j, axis, c)
                          /\ Shown(weak[j].before, axis, c) = Shown(weak[i].before, axis, c)
  BY <1>1 DEF Follows
<1>3. ~ stack[i].disturbed /\ stack[i].axes \subseteq weak[i].axes
  BY DEF Weakened, Styles
<1>4. Remembered(stack[i], c[1])
  BY <1>3 DEF Remembered
<1>5. CASE Untouched(stack, i, axis, c) /\ Shown(rs, axis, c) = Shown(stack[i].before, axis, c)
  BY <1>1, <1>2, <1>5 DEF Untouched
<1>6. ASSUME NEW j \in Styles(stack), FirstOver(stack, i, j, axis, c),
             Shown(stack[j].before, axis, c) = Shown(stack[i].before, axis, c)
      PROVE  FirstOver(weak, i, j, axis, c) /\ Shown(weak[j].before, axis, c) = Shown(weak[i].before, axis, c)
  BY <1>1, <1>2, <1>6 DEF FirstOver
<1> QED BY <1>1, <1>3, <1>4, <1>5, <1>6 DEF Follows

\* A new entry on top, made while the registry was rs, and what it did.
LEMMA AppendFollows ==
    ASSUME NEW R, NEW stack \in Seq(R), NEW e \in R, NEW rs, NEW new, NEW axis, NEW c,
           Follows(stack, rs, axis, c),
           e.kind = "style" =>
              /\ e.before = rs
              /\ Under(axis, e.target, c) \/ Shown(new, axis, c) = Shown(rs, axis, c),
           e.kind # "style" => new = rs
    PROVE  Follows(Append(stack, e), new, axis, c)
<1> DEFINE n == Len(stack)
           more == Append(stack, e)
<1>1. n \in Nat /\ DOMAIN stack = 1 .. n
  BY LenProperties
<1>2. /\ more \in Seq(R) /\ DOMAIN more = 1 .. n + 1 /\ more[n + 1] = e
      /\ \A i \in 1 .. n : more[i] = stack[i]
  <2>1. more \in Seq(R) /\ Len(more) = n + 1
    BY AppendProperties
  <2>2. DOMAIN more = 1 .. Len(more)
    BY <2>1, LenProperties
  <2> QED BY <1>1, <2>1, <2>2, AppendProperties
<1> HIDE DEF n, more
<1>3. Styles(more) = Styles(stack) \cup (IF e.kind = "style" THEN {n + 1} ELSE {})
  BY <1>1, <1>2 DEF Styles
<1>4. \A k \in Styles(stack) : k \in 1 .. n /\ more[k] = stack[k]
  BY <1>1, <1>2 DEF Styles
<1> SUFFICES ASSUME NEW i \in Styles(more), ~ more[i].disturbed, Remembered(more[i], c[1])
             PROVE  \/ /\ Untouched(more, i, axis, c)
                       /\ Shown(new, axis, c) = Shown(more[i].before, axis, c)
                    \/ \E j \in Styles(more) :
                          /\ FirstOver(more, i, j, axis, c)
                          /\ Shown(more[j].before, axis, c) = Shown(more[i].before, axis, c)
  BY DEF Follows, more
<1>5. CASE i \in Styles(stack)
  <2>1. more[i] = stack[i] /\ i \in 1 .. n
    BY <1>4, <1>5
  <2>2. CASE Untouched(stack, i, axis, c) /\ Shown(rs, axis, c) = Shown(stack[i].before, axis, c)
    <3>1. CASE e.kind = "style" /\ Under(axis, e.target, c)
      <4>1. n + 1 \in Styles(more) /\ i <= n + 1
        BY <1>1, <1>3, <2>1, <3>1
      <4>2. FirstOver(more, i, n + 1, axis, c)
        BY <1>1, <1>2, <1>3, <1>4, <2>2, <3>1, <4>1 DEF FirstOver, Untouched
      <4> QED BY <1>2, <2>1, <2>2, <3>1, <4>1, <4>2
    <3>2. CASE ~ (e.kind = "style" /\ Under(axis, e.target, c))
      <4>1. Untouched(more, i, axis, c)
        BY <1>2, <1>3, <1>4, <2>2, <3>2 DEF Untouched
      <4>2. Shown(new, axis, c) = Shown(rs, axis, c)
        BY <3>2
      <4> QED BY <2>1, <2>2, <4>1, <4>2
    <3> QED BY <3>1, <3>2
  <2>3. ASSUME NEW j \in Styles(stack), FirstOver(stack, i, j, axis, c),
               Shown(stack[j].before, axis, c) = Shown(stack[i].before, axis, c)
        PROVE  /\ j \in Styles(more) /\ FirstOver(more, i, j, axis, c)
               /\ Shown(more[j].before, axis, c) = Shown(more[i].before, axis, c)
    <3>1. more[j] = stack[j] /\ j \in 1 .. n /\ j \in Styles(more)
      BY <1>3, <1>4
    <3>2. \A k \in Styles(more) : k < j => k \in Styles(stack) /\ more[k] = stack[k]
      BY <1>1, <1>3, <1>4, <3>1
    <3>3. FirstOver(more, i, j, axis, c)
      BY <2>3, <3>1, <3>2 DEF FirstOver
    <3> QED BY <2>1, <2>3, <3>1, <3>3
  <2> QED BY <1>5, <2>1, <2>2, <2>3 DEF Follows
<1>6. CASE i \notin Styles(stack)
  <2>1. e.kind = "style" /\ i = n + 1 /\ more[i] = e
    BY <1>2, <1>3, <1>6
  <2>2. \A k \in Styles(more) : i <= k => k = n + 1
    BY <1>1, <1>3, <1>4, <2>1
  <2>3. CASE Under(axis, e.target, c)
    <3>1. FirstOver(more, i, i, axis, c)
      BY <1>1, <2>1, <2>2, <2>3 DEF FirstOver
    <3> QED BY <3>1
  <2>4. CASE ~ Under(axis, e.target, c)
    <3>1. Untouched(more, i, axis, c)
      BY <2>1, <2>2, <2>4 DEF Untouched
    <3> QED BY <2>1, <2>4, <3>1
  <2> QED BY <2>3, <2>4
<1> QED BY <1>5, <1>6

LEMMA FrontFields ==
    ASSUME NEW R, NEW stack \in Seq(R), stack # <<>>
    PROVE  /\ Len(stack) \in Nat \ {0} /\ DOMAIN stack = 1 .. Len(stack)
           /\ Front(stack) \in Seq(R) /\ DOMAIN Front(stack) = 1 .. Len(stack) - 1
           /\ \A i \in 1 .. Len(stack) - 1 : Front(stack)[i] = stack[i]
           /\ Last(stack) = stack[Len(stack)] /\ Last(stack) \in R
<1>1. Len(stack) \in Nat \ {0} /\ DOMAIN stack = 1 .. Len(stack)
  BY EmptySeq, LenProperties
<1>2. \A i \in 1 .. Len(stack) : stack[i] \in R
  BY ElementOfSeq
<1> DEFINE f == SubSeq(stack, 1, Len(stack) - 1)
<1>3. /\ f \in Seq(R) /\ Len(f) = Len(stack) - 1
      /\ \A i \in 1 .. Len(stack) - 1 : f[i] = stack[i]
  <2>1. \A i \in 1 .. Len(stack) - 1 : stack[i] \in R
    BY <1>1, <1>2
  <2> QED BY <1>1, <2>1, SubSeqProperties
<1>4. Front(stack) = f
  BY DEF Front
<1> HIDE DEF f
<1>5. DOMAIN f = 1 .. Len(stack) - 1
  BY <1>3, LenProperties
<1>6. Last(stack) = stack[Len(stack)] /\ Last(stack) \in R
  BY <1>1, <1>2 DEF Last
<1> QED BY <1>1, <1>3, <1>4, <1>5, <1>6

\* The top entry is taken back: under it the cell shows what it did before,
\* elsewhere what it does.
LEMMA FrontFollows ==
    ASSUME NEW R, NEW stack \in Seq(R), stack # <<>>, NEW e, e = Last(stack),
           NEW rs, NEW new, NEW axis, NEW c, Follows(stack, rs, axis, c), Nested(stack),
           e.kind = "style" =>
              /\ Under(axis, e.target, c) /\ Remembered(e, c[1])
                    => Shown(new, axis, c) = Shown(e.before, axis, c)
              /\ ~ Under(axis, e.target, c) => Shown(new, axis, c) = Shown(rs, axis, c),
           e.kind # "style" => new = rs
    PROVE  Follows(Front(stack), new, axis, c)
<1> DEFINE n == Len(stack)
           f == Front(stack)
<1>1. /\ n \in Nat \ {0} /\ DOMAIN stack = 1 .. n /\ DOMAIN f = 1 .. n - 1
      /\ \A i \in 1 .. n - 1 : f[i] = stack[i]
      /\ e = stack[n]
  BY FrontFields
<1> HIDE DEF n, f
<1>2. /\ Styles(f) \subseteq Styles(stack)
      /\ \A k \in Styles(f) : k \in 1 .. n - 1 /\ f[k] = stack[k]
      /\ \A k \in Styles(stack) : k \in Styles(f) \/ (k = n /\ e.kind = "style")
  BY <1>1 DEF Styles
<1> SUFFICES ASSUME NEW i \in Styles(f), ~ f[i].disturbed, Remembered(f[i], c[1])
             PROVE  \/ /\ Untouched(f, i, axis, c)
                       /\ Shown(new, axis, c) = Shown(f[i].before, axis, c)
                    \/ \E j \in Styles(f) :
                          /\ FirstOver(f, i, j, axis, c)
                          /\ Shown(f[j].before, axis, c) = Shown(f[i].before, axis, c)
  BY DEF Follows, f
<1>3. f[i] = stack[i] /\ i \in 1 .. n - 1 /\ i \in Styles(stack)
  BY <1>2
<1>4. CASE Untouched(stack, i, axis, c) /\ Shown(rs, axis, c) = Shown(stack[i].before, axis, c)
  <2>1. Untouched(f, i, axis, c)
    BY <1>2, <1>4 DEF Untouched
  <2>2. Shown(new, axis, c) = Shown(rs, axis, c)
    <3>1. CASE e.kind = "style"
      <4>1. n \in Styles(stack) /\ i <= n
        BY <1>1, <1>3, <3>1 DEF Styles
      <4>2. ~ Under(axis, e.target, c)
        BY <1>1, <1>4, <4>1 DEF Untouched
      <4> QED BY <3>1, <4>2
    <3>2. CASE e.kind # "style"
      BY <3>2
    <3> QED BY <3>1, <3>2
  <2> QED BY <1>3, <1>4, <2>1, <2>2
<1>5. ASSUME NEW j \in Styles(stack), FirstOver(stack, i, j, axis, c),
             Shown(stack[j].before, axis, c) = Shown(stack[i].before, axis, c)
      PROVE  \/ /\ Untouched(f, i, axis, c)
                /\ Shown(new, axis, c) = Shown(f[i].before, axis, c)
             \/ \E k \in Styles(f) :
                   /\ FirstOver(f, i, k, axis, c)
                   /\ Shown(f[k].before, axis, c) = Shown(f[i].before, axis, c)
  <2>1. CASE j \in Styles(f)
    <3>1. f[j] = stack[j]
      BY <1>2, <2>1
    <3>2. FirstOver(f, i, j, axis, c)
      BY <1>2, <1>5, <2>1, <3>1 DEF FirstOver
    <3> QED BY <1>3, <1>5, <2>1, <3>1, <3>2
  <2>2. CASE j \notin Styles(f)
    <3>1. j = n /\ e.kind = "style" /\ e = stack[j]
      BY <1>1, <1>2, <2>2
    <3>2. Untouched(f, i, axis, c)
      <4>1. \A k \in Styles(f) : k \in Styles(stack) /\ k < j /\ f[k] = stack[k]
        BY <1>1, <1>2, <3>1
      <4> QED BY <1>5, <4>1 DEF FirstOver, Untouched
    <3>3. e.axes \subseteq stack[i].axes
      BY <1>3, <1>5, <3>1 DEF Nested, FirstOver
    <3>4. Remembered(e, c[1])
      BY <1>3, <3>3 DEF Remembered
    <3>5. Under(axis, e.target, c)
      BY <1>5, <3>1 DEF FirstOver
    <3> QED BY <1>3, <1>5, <3>1, <3>2, <3>4, <3>5
  <2> QED BY <2>1, <2>2
<1> QED BY <1>3, <1>4, <1>5 DEF Follows

\* An entry that another author's rule has disturbed was the last not to be.
LEMMA FrontDisturbed ==
    ASSUME NEW R, NEW stack \in Seq(R), stack # <<>>, Nested(stack),
           Last(stack).kind = "style", Last(stack).disturbed, NEW rs, NEW axis, NEW c
    PROVE  Follows(Front(stack), rs, axis, c)
<1> DEFINE n == Len(stack)
           f == Front(stack)
<1>1. /\ n \in Nat \ {0} /\ DOMAIN stack = 1 .. n /\ DOMAIN f = 1 .. n - 1
      /\ \A i \in 1 .. n - 1 : f[i] = stack[i]
      /\ Last(stack) = stack[n]
  BY FrontFields
<1> HIDE DEF n, f
<1>2. ASSUME NEW i \in Styles(f)
      PROVE  f[i].disturbed
  <2>1. i \in 1 .. n - 1 /\ f[i] = stack[i] /\ i \in Styles(stack)
    BY <1>1 DEF Styles
  <2>2. n \in Styles(stack) /\ i <= n
    BY <1>1, <2>1 DEF Styles
  <2> QED BY <1>1, <2>1, <2>2 DEF Nested
<1> QED BY <1>2 DEF Follows, f

-----------------------------------------------------------------------------
(* Types, by an axis.                                                      *)

SpansOf(axis) ==
    {All} \union {s \in IdsOf(axis) \X IdsOf(axis) : PlaceOf(axis, s[1]) <= PlaceOf(axis, s[2])}
TargetsOf(axis) ==
    [rows : SpansOf(axis), cols : {<<1, 1>>}] \union {[rows |-> All, cols |-> All]}
RulesOf(axis) == [by : {"me", "other"}, target : TargetsOf(axis), value : Values]
StyleEntries(axis) ==
    [kind : {"style"}, target : TargetsOf(axis), prior : Seq(RulesOf(axis)),
     before : Seq(RulesOf(axis)), axes : SUBSET Seq(Slot), disturbed : BOOLEAN]
RowEntries(axis) == [kind : {"inserted", "deleted"}, row : IdsOf(axis)]
Entries(axis) == StyleEntries(axis) \union RowEntries(axis)

LEMMA TargetKnown ==
    ASSUME NEW axis, NEW t \in TargetsOf(axis)
    PROVE  KnownTarget(axis, t)
<1>1. 1 \in IdsOf(cols)
  BY ColsOK, StyleAssumption
<1>2. \A s \in SpansOf(axis) : Known(axis, s)
  BY DEF SpansOf, Known
<1>3. Known(axis, All) /\ Known(cols, All) /\ Known(cols, <<1, 1>>)
  BY <1>1 DEF Known
<1> QED BY <1>2, <1>3 DEF TargetsOf, KnownTarget

LEMMA TypesStay ==
    ASSUME NEW axis, NEW new, SameOrder(axis, new)
    PROVE  /\ TargetsOf(axis) \subseteq TargetsOf(new) /\ RulesOf(axis) \subseteq RulesOf(new)
           /\ StyleEntries(axis) \subseteq StyleEntries(new)
           /\ RowEntries(axis) \subseteq RowEntries(new)
<1>1. SpansOf(axis) \subseteq SpansOf(new)
  BY DEF SpansOf, SameOrder
<1>2. TargetsOf(axis) \subseteq TargetsOf(new)
  BY <1>1 DEF TargetsOf
<1>3. RulesOf(axis) \subseteq RulesOf(new)
  BY <1>2 DEF RulesOf
<1>4. Seq(RulesOf(axis)) \subseteq Seq(RulesOf(new))
  BY <1>3, SeqMonotonic
<1>5. StyleEntries(axis) \subseteq StyleEntries(new)
  BY <1>2, <1>4 DEF StyleEntries
<1>6. RowEntries(axis) \subseteq RowEntries(new)
  BY DEF RowEntries, SameOrder
<1> QED BY <1>2, <1>3, <1>5, <1>6

\* A rule clipped to a target is a rule.
LEMMA ClipType ==
    ASSUME NEW axis, AxisOK(axis), NEW r \in RulesOf(axis), NEW t \in TargetsOf(axis),
           Meets(axis, cols, r.target, t)
    PROVE  Clipped(r, axis, cols, t) \in RulesOf(axis)
<1> DEFINE rs == Clip(r.target.rows, t.rows, axis)
           cs == Clip(r.target.cols, t.cols, cols)
           rb == Window(axis, r.target.rows) \intersect Window(axis, t.rows)
           cb == Window(cols, r.target.cols) \intersect Window(cols, t.cols)
<1>1. r.target \in TargetsOf(axis) /\ rb # {} /\ cb # {} /\ AxisOK(cols) /\ 1 \in IdsOf(cols)
  BY ColsOK, StyleAssumption DEF RulesOf, Meets
<1>2. /\ r.target.cols = <<1, 1>> \/ (r.target.cols = All /\ r.target.rows = All)
      /\ t.cols = <<1, 1>> \/ (t.cols = All /\ t.rows = All)
  BY <1>1 DEF TargetsOf
<1>3. rs \in SpansOf(axis)
  <2>1. CASE r.target.rows = All /\ t.rows = All
    BY <2>1 DEF Clip, SpansOf
  <2>2. CASE ~ (r.target.rows = All /\ t.rows = All)
    <3>1. rb \subseteq DOMAIN axis
      <4>1. CASE r.target.rows # All
        BY <4>1, WindowBetween
      <4>2. CASE t.rows # All
        BY <4>2, WindowBetween
      <4> QED BY <2>2, <4>1, <4>2
    <3>2. rs = <<axis[Min(rb)].id, axis[Max(rb)].id>>
      BY <2>2 DEF Clip
    <3> HIDE DEF rb, rs
    <3>3. Min(rb) \in DOMAIN axis /\ Max(rb) \in DOMAIN axis /\ Min(rb) <= Max(rb)
      BY <1>1, <3>1, Ends
    <3>4. /\ axis[Min(rb)].id \in IdsOf(axis) /\ axis[Max(rb)].id \in IdsOf(axis)
          /\ PlaceOf(axis, axis[Min(rb)].id) <= PlaceOf(axis, axis[Max(rb)].id)
      BY <3>3, PlaceIs DEF IdsOf
    <3> QED BY <3>2, <3>4 DEF SpansOf
  <2> QED BY <2>1, <2>2
<1>4. (cs = <<1, 1>>) \/ (cs = All /\ rs = All)
  <2>1. CASE r.target.cols = All /\ t.cols = All
    BY <1>2, <2>1 DEF Clip, All
  <2>2. CASE ~ (r.target.cols = All /\ t.cols = All)
    <3>1. \A i \in cb : i \in DOMAIN cols /\ cols[i].id = 1
      <4>1. <<1, 1>> # All
        BY DEF All
      <4>2. PICK u \in {r.target.cols, t.cols} : u = <<1, 1>>
        BY <1>2, <2>2
      <4>3. ASSUME NEW i \in cb
            PROVE  i \in DOMAIN cols /\ cols[i].id = 1
        <5>1. i \in Window(cols, u)
          BY <4>2
        <5>2. i \in DOMAIN cols /\ Between(cols, cols[i].id, <<1, 1>>)
          BY <1>1, <4>1, <4>2, <5>1, WindowBetween
        <5>3. /\ PlaceOf(cols, cols[i].id) = i /\ PlaceOf(cols, 1) \in DOMAIN cols
              /\ cols[PlaceOf(cols, 1)].id = 1
          BY <1>1, <5>2, PlaceIs, IdAtPlace
        <5>4. i = PlaceOf(cols, 1)
          <6>1. DOMAIN cols \subseteq Nat
            BY LenProperties, ColsOK DEF AxisOK
          <6>2. (PlaceOf(cols, 1) <= i /\ i <= PlaceOf(cols, 1))
            BY <5>2, <5>3 DEF Between
          <6> QED BY <5>2, <5>3, <6>1, <6>2
        <5> QED BY <5>2, <5>3, <5>4
      <4> QED BY <4>3
    <3>2. cs = <<cols[Min(cb)].id, cols[Max(cb)].id>>
      BY <2>2 DEF Clip
    <3> HIDE DEF cb, cs
    <3>3. Min(cb) \in cb /\ Max(cb) \in cb
      BY <1>1, <3>1, Ends
    <3> QED BY <3>1, <3>2, <3>3
  <2> QED BY <2>1, <2>2
<1> HIDE DEF rs, cs, rb, cb
<1>5. [rows |-> rs, cols |-> cs] \in TargetsOf(axis)
  BY <1>3, <1>4 DEF TargetsOf
<1>6. Clipped(r, axis, cols, t) = [by |-> r.by, value |-> r.value, target |-> [rows |-> rs, cols |-> cs]]
  BY DEF Clipped, rs, cs
<1> QED BY <1>5, <1>6 DEF RulesOf

-----------------------------------------------------------------------------
(* Entries.                                                                *)

PriorInside(axis, e) ==
    \A i \in DOMAIN e.prior :
        /\ Inside(axis, e.prior[i].target.rows, e.target.rows)
        /\ Inside(cols, e.prior[i].target.cols, e.target.cols)

\* What an entry kept shows of a cell under its target what was there.
Exact(axis, e) ==
    \A new, c : Near(axis, new, c) /\ Remembered(e, c[1]) /\ Under(new, e.target, c)
                => Shown(e.prior, new, c) = Shown(e.before, new, c)

\* Nothing of another author is newer than what the entry is about.
Guarded(e, rs) ==
    ~ e.disturbed => \E k \in DOMAIN rs :
        /\ rs[k].by = "me" /\ rs[k].target = e.target
        /\ \A j \in DOMAIN rs : j > k => rs[j].by = "me"

StyleOK(e, axis, rs) ==
    e \in StyleEntries(axis) /\ PriorInside(axis, e) /\ Exact(axis, e) /\ Guarded(e, rs)
EntryOK(e, axis, rs) == StyleOK(e, axis, rs) \/ e \in RowEntries(axis)

\* What an edit of mine adds to the registry.
Mine(rs, new, target) ==
    /\ \E R : rs \in Seq(R) /\ new \in Seq(R)
    /\ Len(rs) < Len(new)
    /\ \A i \in 1 .. Len(rs) : new[i] = rs[i]
    /\ \A i \in Len(rs) + 1 .. Len(new) : new[i].by = "me"
    /\ new[Len(rs) + 1].target = target

LEMMA MineGuards ==
    ASSUME NEW rs, NEW new, NEW target, Mine(rs, new, target), NEW e,
           Guarded(e, rs) \/ e.target = target
    PROVE  Guarded(e, new)
<1>1. PICK R : rs \in Seq(R) /\ new \in Seq(R)
  BY DEF Mine
<1>2. /\ Len(rs) \in Nat /\ DOMAIN rs = 1 .. Len(rs)
      /\ Len(new) \in Nat /\ DOMAIN new = 1 .. Len(new)
      /\ Len(rs) < Len(new)
  BY <1>1, LenProperties DEF Mine
<1>3. CASE e.target = target
  <2>1. Len(rs) + 1 \in DOMAIN new /\ new[Len(rs) + 1].target = e.target
    BY <1>2, <1>3 DEF Mine
  <2>2. \A j \in DOMAIN new : j >= Len(rs) + 1 => new[j].by = "me"
    BY <1>2 DEF Mine
  <2>3. \A j \in DOMAIN new : j > Len(rs) + 1 => j >= Len(rs) + 1
    BY <1>2
  <2>4. Len(rs) + 1 >= Len(rs) + 1
    BY <1>2
  <2> QED BY <2>1, <2>2, <2>3, <2>4 DEF Guarded
<1>4. CASE Guarded(e, rs) /\ ~ e.disturbed
  <2>1. PICK k \in DOMAIN rs : /\ rs[k].by = "me" /\ rs[k].target = e.target
                               /\ \A j \in DOMAIN rs : j > k => rs[j].by = "me"
    BY <1>4 DEF Guarded
  <2>2. k \in DOMAIN new /\ new[k] = rs[k]
    BY <1>2, <2>1 DEF Mine
  <2>3. \A j \in DOMAIN new : j > k => new[j].by = "me"
    BY <1>2, <2>1 DEF Mine
  <2> QED BY <2>1, <2>2, <2>3 DEF Guarded
<1> QED BY <1>3, <1>4 DEF Guarded

\* So an undo of it goes through.
LEMMA GuardedWins ==
    ASSUME NEW R, NEW rs \in Seq(R), NEW e, Guarded(e, rs), ~ e.disturbed, NEW axis
    PROVE  Winner(rs, axis, cols, e.target, "me") = "me"
<1> DEFINE meeting == {i \in DOMAIN rs : Meets(axis, cols, rs[i].target, e.target)}
<1>1. Len(rs) \in Nat /\ DOMAIN rs = 1 .. Len(rs)
  BY LenProperties
<1>2. PICK k \in DOMAIN rs : /\ rs[k].by = "me" /\ rs[k].target = e.target
                             /\ \A j \in DOMAIN rs : j > k => rs[j].by = "me"
  BY DEF Guarded
<1>3. CASE meeting = {}
  BY <1>3 DEF Winner
<1>4. CASE meeting # {}
  <2>1. meeting \subseteq Nat /\ \A i \in meeting : i <= Len(rs)
    BY <1>1
  <2>2. k \in meeting
    BY <1>2, <1>4 DEF Meets
  <2>3. Max(meeting) \in meeting /\ k <= Max(meeting)
    <3> HIDE DEF meeting
    <3> QED BY <1>1, <1>4, <2>1, <2>2, MaxIsGreatest
  <2>4. rs[Max(meeting)].by = "me"
    <3>1. Max(meeting) \in DOMAIN rs
      BY <2>3
    <3>2. Max(meeting) = k \/ Max(meeting) > k
      <4> DEFINE m == Max(meeting)
      <4>1. k \in Nat
        BY <1>1
      <4> HIDE DEF meeting
      <4>2. m \in Nat /\ k <= m
        BY <2>1, <2>3
      <4> HIDE DEF m
      <4>3. m = k \/ m > k
        BY <4>1, <4>2
      <4> QED BY <4>3 DEF m
    <3> QED BY <1>2, <3>1, <3>2
  <2> QED BY <1>4, <2>4 DEF Winner
<1> QED BY <1>3, <1>4

\* A fresh entry, of the registry and the rows as they are.
LEMMA FreshEntry ==
    ASSUME AxisOK(rows), rows # <<>>, rules \in Seq(RulesOf(rows)),
           NEW target \in TargetsOf(rows), NEW new, Mine(rules, new, target)
    PROVE  StyleOK(StyleEntry(target), rows, new)
<1> DEFINE e == StyleEntry(target)
           prior == Overlapping(rules, rows, cols, target)
           S == {Clipped(rules[i], rows, cols, target) :
                    i \in {j \in 1 .. Len(rules) : Meets(rows, cols, rules[j].target, target)}}
<1>1. e = [kind |-> "style", target |-> target, prior |-> prior,
           before |-> rules, axes |-> {rows}, disturbed |-> FALSE]
  BY DEF StyleEntry
<1>2. /\ e.kind = "style" /\ e.target = target /\ e.prior = prior
      /\ e.before = rules /\ e.axes = {rows} /\ e.disturbed = FALSE
  BY <1>1
<1>3. Len(rules) \in Nat /\ DOMAIN rules = 1 .. Len(rules)
      /\ \A i \in 1 .. Len(rules) : rules[i] \in RulesOf(rows)
  BY LenProperties, ElementOfSeq
<1>4. prior \in Seq(S)
  <2>1. \A i \in 1 .. Len(rules) : Meets(rows, cols, rules[i].target, target)
                                    => Clipped(rules[i], rows, cols, target) \in S
    OBVIOUS
  <2> HIDE DEF S
  <2> QED BY <2>1, OverlapFrom
<1>5. S \subseteq RulesOf(rows)
  BY <1>3, ClipType
<1>6. prior \in Seq(RulesOf(rows))
  <2> HIDE DEF S, prior
  <2> QED BY <1>4, <1>5, SeqMonotonic
<1>7. rows \in Seq(Slot)
  BY DEF AxisOK
<1> HIDE DEF prior, e
<1>8. e \in StyleEntries(rows)
  BY <1>1, <1>6, <1>7 DEF StyleEntries
<1>9. PriorInside(rows, e)
  <2>1. ASSUME NEW i \in DOMAIN prior
        PROVE  /\ Inside(rows, prior[i].target.rows, target.rows)
               /\ Inside(cols, prior[i].target.cols, target.cols)
    <3>1. prior[i] \in S
      <4> HIDE DEF S
      <4> QED BY <1>4, <2>1, LenProperties, ElementOfSeq
    <3>2. PICK j \in 1 .. Len(rules) : /\ Meets(rows, cols, rules[j].target, target)
                                       /\ prior[i] = Clipped(rules[j], rows, cols, target)
      BY <3>1
    <3>3. /\ prior[i].target.rows = Clip(rules[j].target.rows, target.rows, rows)
          /\ prior[i].target.cols = Clip(rules[j].target.cols, target.cols, cols)
      BY <3>2 DEF Clipped
    <3>4. Inside(rows, Clip(rules[j].target.rows, target.rows, rows), target.rows)
      BY <3>2, ClipInside DEF Meets
    <3>5. Inside(cols, Clip(rules[j].target.cols, target.cols, cols), target.cols)
      BY <3>2, ClipInside, ColsOK DEF Meets
    <3> QED BY <3>3, <3>4, <3>5
  <2> QED BY <1>2, <2>1 DEF PriorInside
<1>10. Exact(rows, e)
  <2> SUFFICES ASSUME NEW x, NEW c, Near(rows, x, c), Remembered(e, c[1]), Under(x, target, c)
               PROVE  Shown(prior, x, c) = Shown(rules, x, c)
    BY <1>2 DEF Exact
  <2>1. Spared(rows, c[1])
    BY <1>2 DEF Remembered, Spared
  <2>2. \A i \in 1 .. Len(rules) : KnownTarget(rows, rules[i].target)
    BY <1>3, TargetKnown DEF RulesOf
  <2>3. KnownTarget(rows, target)
    BY TargetKnown
  <2> QED BY <2>1, <2>2, <2>3, OverlapExact DEF prior
<1>11. Guarded(e, new)
  BY <1>2, MineGuards
<1> QED BY <1>8, <1>9, <1>10, <1>11 DEF StyleOK, e

-----------------------------------------------------------------------------
(* What a format and a replay do to the registry.                          *)

LEMMA FormatMine ==
    ASSUME NEW R, NEW rs \in Seq(R), NEW r \in R, r.by = "me"
    PROVE  /\ Mine(rs, Append(rs, r), r.target)
           /\ \A axis, c : ~ Under(axis, r.target, c)
                            => Shown(Append(rs, r), axis, c) = Shown(rs, axis, c)
<1> DEFINE new == Append(rs, r)
<1>1. /\ Len(rs) \in Nat /\ new \in Seq(R) /\ Len(new) = Len(rs) + 1
      /\ new[Len(rs) + 1] = r /\ \A i \in 1 .. Len(rs) : new[i] = rs[i]
  BY LenProperties, AppendProperties
<1> HIDE DEF new
<1>2. \A i \in Len(rs) + 1 .. Len(new) : i = Len(rs) + 1
  BY <1>1
<1>3. Len(rs) < Len(new)
  BY <1>1
<1>4. Mine(rs, new, r.target)
  BY <1>1, <1>2, <1>3 DEF Mine
<1> QED BY <1>4, ShownAppend DEF new

LEMMA RenewedFields ==
    ASSUME NEW axis, NEW prior \in Seq(RulesOf(axis))
    PROVE  /\ Renewed(prior) \in Seq(RulesOf(axis)) /\ Len(Renewed(prior)) = Len(prior)
           /\ \A i \in DOMAIN prior :
                /\ Renewed(prior)[i].by = "me"
                /\ Renewed(prior)[i].target = prior[i].target
                /\ Renewed(prior)[i].value = prior[i].value
           /\ \A new, c : Shown(Renewed(prior), new, c) = Shown(prior, new, c)
<1> DEFINE q == Renewed(prior)
           n == Len(prior)
<1>1. n \in Nat /\ DOMAIN prior = 1 .. n /\ \A i \in 1 .. n : prior[i] \in RulesOf(axis)
  BY LenProperties, ElementOfSeq
<1>2. DOMAIN q = 1 .. n
      /\ \A i \in 1 .. n : q[i] = [by |-> "me", target |-> prior[i].target, value |-> prior[i].value]
  BY <1>1 DEF Renewed, Rule
<1>3. \A i \in 1 .. n : q[i] \in RulesOf(axis)
  BY <1>1, <1>2 DEF RulesOf
<1>4. q \in Seq(RulesOf(axis)) /\ Len(q) = n
  <2>0. q = [i \in 1 .. n |-> q[i]]
    BY <1>1 DEF Renewed
  <2> HIDE DEF q
  <2>1. q \in Seq(RulesOf(axis))
    BY <1>1, <1>3, <2>0
  <2> QED BY <1>1, <1>2, <2>1, LenProperties
<1> HIDE DEF q
<1>5. \A i \in 1 .. n : q[i].by = "me" /\ q[i].target = prior[i].target /\ q[i].value = prior[i].value
  BY <1>2
<1>6. ASSUME NEW new, NEW c
      PROVE  Shown(q, new, c) = Shown(prior, new, c)
  <2>1. CASE \A i \in DOMAIN prior : ~ Under(new, prior[i].target, c)
    <3>1. \A i \in DOMAIN q : ~ Under(new, q[i].target, c)
      BY <1>1, <1>2, <1>5, <2>1
    <3> QED BY <1>4, <2>1, <3>1 DEF Shown
  <2>2. CASE ~ \A i \in DOMAIN prior : ~ Under(new, prior[i].target, c)
    <3>1. PICK i \in DOMAIN prior : Newest(prior, new, c, i) /\ Shown(prior, new, c) = prior[i].value
      BY <2>2, ShownIsNewest
    <3>2. Newest(q, new, c, i)
      BY <1>1, <1>2, <1>5, <3>1 DEF Newest
    <3>3. Shown(q, new, c) = q[i].value
      BY <1>4, <3>2, NewestShown
    <3> QED BY <1>1, <1>5, <3>1, <3>3
  <2> QED BY <2>1, <2>2
<1> QED BY <1>1, <1>4, <1>5, <1>6 DEF q

\* A replay shows under its target what the entry kept, and elsewhere nothing.
LEMMA ReplayShown ==
    ASSUME AxisOK(rows), rules \in Seq(RulesOf(rows)),
           NEW e \in StyleEntries(rows), PriorInside(rows, e)
    PROVE  /\ Replayed(e) \in Seq(RulesOf(rows)) /\ Mine(rules, Replayed(e), e.target)
           /\ \A new, c : AxisOK(new) /\ SameOrder(rows, new) =>
                Shown(Replayed(e), new, c) = IF Under(new, e.target, c) THEN Shown(e.prior, new, c)
                                             ELSE Shown(rules, new, c)
<1> DEFINE R == RulesOf(rows)
           clear == Rule("me", e.target, Default)
           a == Append(rules, clear)
           q == Renewed(e.prior)
           new == a \o q
<1>1. e.target \in TargetsOf(rows) /\ e.prior \in Seq(R)
  BY DEF StyleEntries
<1>2. clear \in R /\ clear.by = "me" /\ clear.target = e.target /\ clear.value = Default
  BY <1>1 DEF Rule, RulesOf, Values
<1>3. /\ q \in Seq(R) /\ Len(q) = Len(e.prior) /\ DOMAIN q = DOMAIN e.prior
      /\ \A i \in DOMAIN q : q[i].by = "me" /\ q[i].target = e.prior[i].target
      /\ \A x, c : Shown(q, x, c) = Shown(e.prior, x, c)
  <2>1. q \in Seq(R) /\ Len(q) = Len(e.prior)
    BY <1>1, RenewedFields
  <2>2. DOMAIN q = DOMAIN e.prior
    BY <1>1, <2>1, LenProperties
  <2> QED BY <1>1, <2>1, <2>2, RenewedFields
<1>4. Replayed(e) = new
  <2>1. Append(rules, clear) = rules \o <<clear>>
    BY <1>2, AppendIsConcat
  <2> QED BY <2>1 DEF Replayed
<1> HIDE DEF R, clear, q
<1>5. /\ Len(rules) \in Nat /\ a \in Seq(R) /\ Len(a) = Len(rules) + 1
      /\ a[Len(rules) + 1] = clear /\ \A i \in 1 .. Len(rules) : a[i] = rules[i]
  BY <1>2, LenProperties, AppendProperties DEF R
<1>5a. \A x, c : Shown(a, x, c) = IF Under(x, e.target, c) THEN Default ELSE Shown(rules, x, c)
  BY <1>2, ShownAppend DEF R
<1> HIDE DEF a
<1>6a. Len(q) \in Nat /\ DOMAIN q = 1 .. Len(q)
  BY <1>3, LenProperties
<1>6b. /\ new \in Seq(R) /\ Len(new) = Len(a) + Len(q)
       /\ \A i \in 1 .. Len(a) + Len(q) : new[i] = IF i <= Len(a) THEN a[i] ELSE q[i - Len(a)]
  <2>1. a \in Seq(R) /\ q \in Seq(R)
    BY <1>3, <1>5
  <2> QED BY ONLY <2>1, ConcatProperties
<1>6. /\ Len(q) \in Nat /\ DOMAIN q = 1 .. Len(q)
      /\ new \in Seq(R) /\ Len(new) = Len(a) + Len(q)
      /\ \A i \in 1 .. Len(a) + Len(q) : new[i] = IF i <= Len(a) THEN a[i] ELSE q[i - Len(a)]
  <2> HIDE DEF new
  <2> QED BY <1>6a, <1>6b
<1>7. Mine(rules, new, e.target)
  <2>1. Len(rules) < Len(new)
    BY <1>5, <1>6
  <2>2. \A i \in 1 .. Len(rules) : new[i] = rules[i]
    BY <1>5, <1>6
  <2>3. new[Len(rules) + 1] = clear
    BY <1>5, <1>6
  <2>4. ASSUME NEW i \in Len(rules) + 1 .. Len(new)
        PROVE  new[i].by = "me"
    <3>1. CASE i = Len(rules) + 1
      BY <1>2, <2>3, <3>1
    <3>2. CASE i # Len(rules) + 1
      <4>1. i - Len(a) \in DOMAIN q /\ new[i] = q[i - Len(a)]
        BY <1>5, <1>6, <3>2
      <4> QED BY <1>3, <4>1
    <3> QED BY <3>1, <3>2
  <2>5. rules \in Seq(R)
    BY DEF R
  <2> HIDE DEF new
  <2> QED BY <1>2, <1>6, <2>1, <2>2, <2>3, <2>4, <2>5 DEF Mine
<1>8. ASSUME NEW x, NEW c, AxisOK(x), SameOrder(rows, x)
      PROVE  Shown(new, x, c) = IF Under(x, e.target, c) THEN Shown(e.prior, x, c) ELSE Shown(rules, x, c)
  <2>1. Shown(new, x, c) = IF \E i \in DOMAIN q : Under(x, q[i].target, c)
                           THEN Shown(q, x, c) ELSE Shown(a, x, c)
    BY <1>3, <1>5, ShownConcat
  <2>2. ASSUME NEW i \in DOMAIN q, Under(x, q[i].target, c)
        PROVE  Under(x, e.target, c)
    <3>1. /\ Inside(rows, e.prior[i].target.rows, e.target.rows)
          /\ Inside(cols, e.prior[i].target.cols, e.target.cols)
      BY <1>3, <2>2 DEF PriorInside
    <3>2. Inside(x, e.prior[i].target.rows, e.target.rows)
      BY <1>8, <3>1, InsideStays
    <3>3. Within(x, c[1], e.prior[i].target.rows) /\ Within(cols, c[2], e.prior[i].target.cols)
      BY <1>3, <2>2 DEF Under
    <3>4. Within(x, c[1], e.target.rows)
      BY <1>8, <3>2, <3>3, InsideWithin
    <3>5. Within(cols, c[2], e.target.cols)
      BY <3>1, <3>3, ColsOK, InsideWithin
    <3> QED BY <3>4, <3>5 DEF Under
  <2>3. CASE \E i \in DOMAIN q : Under(x, q[i].target, c)
    BY <1>3, <2>1, <2>2, <2>3
  <2>4. CASE ~ \E i \in DOMAIN q : Under(x, q[i].target, c)
    <3>1. Shown(q, x, c) = Default
      <4>1. ~ \E i \in DOMAIN q : Newest(q, x, c, i) /\ Shown(q, x, c) = q[i].value
        BY <2>4 DEF Newest
      <4>2. q \in Seq(R)
        BY <1>3
      <4> QED BY <4>1, <4>2, ShownIsNewest
    <3> QED BY <1>3, <1>5a, <2>1, <2>4, <3>1
  <2> QED BY <2>3, <2>4
<1> HIDE DEF new
<1> QED BY <1>4, <1>6, <1>7, <1>8 DEF R

-----------------------------------------------------------------------------
(* Stacks.                                                                 *)

StackOK(stack, axis, rs) ==
    /\ stack \in Seq(Entries(axis))
    /\ \A i \in DOMAIN stack : EntryOK(stack[i], axis, rs)
    /\ Nested(stack)
    /\ \A new, c : Near(axis, new, c) => Follows(stack, rs, new, c)

LEMMA EntryKinds ==
    ASSUME NEW axis, NEW e \in Entries(axis)
    PROVE  /\ e.kind = "style" <=> e \in StyleEntries(axis)
           /\ e.kind # "style" <=> e \in RowEntries(axis)
  BY DEF Entries, StyleEntries, RowEntries

LEMMA NearStays ==
    ASSUME NEW axis, NEW new, SameOrder(axis, new), NEW x, NEW c, Near(new, x, c)
    PROVE  Near(axis, x, c)
  BY DEF Near, SameOrder

LEMMA EntryStays ==
    ASSUME NEW axis, NEW new, SameOrder(axis, new), NEW rs, NEW e, EntryOK(e, axis, rs)
    PROVE  EntryOK(e, new, rs)
<1>1. CASE e \in RowEntries(axis)
  BY <1>1, TypesStay DEF EntryOK
<1>2. CASE StyleOK(e, axis, rs)
  <2>1. e \in StyleEntries(new) /\ Guarded(e, rs)
    BY <1>2, TypesStay DEF StyleOK
  <2>2. PriorInside(new, e)
    BY <1>2, InsideStays DEF StyleOK, PriorInside
  <2>3. Exact(new, e)
    BY <1>2, NearStays DEF StyleOK, Exact
  <2> QED BY <2>1, <2>2, <2>3 DEF EntryOK, StyleOK
<1> QED BY <1>1, <1>2 DEF EntryOK

\* An edit of the rows leaves the stacks as they were.
LEMMA StackStays ==
    ASSUME NEW axis, NEW new, SameOrder(axis, new), NEW rs, NEW stack, StackOK(stack, axis, rs)
    PROVE  StackOK(stack, new, rs)
<1>1. Entries(axis) \subseteq Entries(new)
  BY TypesStay DEF Entries
<1>2. stack \in Seq(Entries(new))
  BY <1>1, SeqMonotonic DEF StackOK
<1>3. \A i \in DOMAIN stack : EntryOK(stack[i], new, rs)
  BY EntryStays DEF StackOK
<1>4. \A x, c : Near(new, x, c) => Follows(stack, rs, x, c)
  BY NearStays DEF StackOK
<1> QED BY <1>2, <1>3, <1>4 DEF StackOK

LEMMA StackEmpty ==
    ASSUME NEW axis, NEW rs
    PROVE  StackOK(<<>>, axis, rs)
<1>1. <<>> \in Seq(Entries(axis)) /\ DOMAIN <<>> = {}
  BY EmptySeq
<1> QED BY <1>1 DEF StackOK, Nested, Follows, Styles

\* Entries that claim less are as good.
LEMMA StackWeak ==
    ASSUME NEW axis, NEW rs, NEW stack, StackOK(stack, axis, rs),
           NEW weak \in Seq(Entries(axis)), Weakened(stack, weak), Nested(weak)
    PROVE  StackOK(weak, axis, rs)
<1>1. ASSUME NEW i \in DOMAIN weak
      PROVE  EntryOK(weak[i], axis, rs)
  <2> DEFINE e == stack[i]
             w == weak[i]
  <2>1. i \in DOMAIN stack /\ EntryOK(e, axis, rs) /\ e \in Entries(axis) /\ w \in Entries(axis)
    BY LenProperties, ElementOfSeq DEF StackOK, Weakened
  <2>2. w.kind = e.kind
    BY <2>1 DEF Weakened
  <2>3. CASE w.kind # "style"
    BY <2>1, <2>3, EntryKinds DEF EntryOK
  <2>4. CASE w.kind = "style"
    <3>1. /\ w.target = e.target /\ w.before = e.before /\ w.prior = e.prior
          /\ e.axes \subseteq w.axes /\ (e.disturbed => w.disturbed)
      BY <2>1, <2>2, <2>4 DEF Weakened
    <3>2. w \in StyleEntries(axis) /\ StyleOK(e, axis, rs)
      BY <2>1, <2>2, <2>4, EntryKinds DEF EntryOK
    <3> HIDE DEF e, w
    <3>3. PriorInside(axis, w)
      BY <3>1, <3>2 DEF StyleOK, PriorInside
    <3>4. Exact(axis, w)
      <4>1. \A x : Remembered(w, x) => Remembered(e, x)
        BY <3>1 DEF Remembered
      <4> QED BY <3>1, <3>2, <4>1 DEF StyleOK, Exact
    <3>5. Guarded(w, rs)
      BY <3>1, <3>2 DEF StyleOK, Guarded
    <3> QED BY <3>2, <3>3, <3>4, <3>5 DEF EntryOK, StyleOK, w
  <2> QED BY <2>3, <2>4
<1>2. \A new, c : Near(axis, new, c) => Follows(weak, rs, new, c)
  BY WeakFollows DEF StackOK
<1> QED BY <1>1, <1>2 DEF StackOK

LEMMA AboveFields ==
    ASSUME AxisOK(rows), NEW stack \in Seq(Entries(rows)), NEW e
    PROVE  LET w == Above(stack, e)
           IN /\ w \in Seq(Entries(rows)) /\ Len(w) = Len(stack) /\ Weakened(stack, w)
              /\ Nested(stack) => Nested(w)
              /\ e.kind = "style" => \A i \in Styles(w) : rows \in w[i].axes
              /\ \A i \in Styles(w) : w[i].disturbed = stack[i].disturbed
              /\ e.kind # "style" => w = stack
<1> DEFINE w == Above(stack, e)
           n == Len(stack)
           mark(x) == IF e.kind = "style" /\ x.kind = "style"
                      THEN [x EXCEPT !.axes = @ \union {rows}] ELSE x
<1>1. n \in Nat /\ DOMAIN stack = 1 .. n /\ \A i \in 1 .. n : stack[i] \in Entries(rows)
  BY LenProperties, ElementOfSeq
<1>2. w = [i \in 1 .. n |-> mark(stack[i])]
  BY <1>1 DEF Above
<1>3. rows \in Seq(Slot)
  BY DEF AxisOK
<1>4. ASSUME NEW x \in Entries(rows)
      PROVE  /\ mark(x) \in Entries(rows) /\ mark(x).kind = x.kind
             /\ x.kind = "style" =>
                  /\ mark(x).target = x.target /\ mark(x).before = x.before
                  /\ mark(x).prior = x.prior /\ mark(x).disturbed = x.disturbed
                  /\ mark(x).axes = IF e.kind = "style" THEN x.axes \union {rows} ELSE x.axes
  <2>1. CASE e.kind = "style" /\ x.kind = "style"
    <3>1. x \in StyleEntries(rows)
      BY <2>1, EntryKinds
    <3>2. mark(x) = [x EXCEPT !.axes = @ \union {rows}]
      BY <2>1
    <3>3. mark(x) \in StyleEntries(rows)
      BY <1>3, <3>1, <3>2 DEF StyleEntries
    <3>4. /\ mark(x).target = x.target /\ mark(x).before = x.before
          /\ mark(x).prior = x.prior /\ mark(x).disturbed = x.disturbed
          /\ mark(x).kind = x.kind /\ mark(x).axes = x.axes \union {rows}
      BY <3>1, <3>2 DEF StyleEntries
    <3> QED BY <2>1, <3>3, <3>4 DEF Entries
  <2>2. CASE ~ (e.kind = "style" /\ x.kind = "style")
    <3>1. mark(x) = x
      BY <2>2
    <3> HIDE DEF mark
    <3> QED BY <2>2, <3>1
  <2> QED BY <2>1, <2>2
<1>5. CASE e.kind # "style"
  <2>1. w = [i \in 1 .. n |-> stack[i]]
    BY <1>2, <1>5
  <2>2. stack = [i \in 1 .. n |-> stack[i]]
    BY <1>1
  <2>3. w = stack
    BY <2>1, <2>2
  <2>4. Weakened(stack, stack)
    BY DEF Weakened
  <2> HIDE DEF w
  <2> QED BY <1>5, <2>3, <2>4 DEF w
<1>6. CASE e.kind = "style"
  <2>0. \A i \in 1 .. n : w[i] = mark(stack[i])
    BY <1>2
  <2>1. \A i \in 1 .. n :
            /\ w[i] \in Entries(rows) /\ w[i].kind = stack[i].kind
            /\ stack[i].kind = "style" =>
                  /\ w[i].target = stack[i].target /\ w[i].before = stack[i].before
                  /\ w[i].prior = stack[i].prior /\ w[i].disturbed = stack[i].disturbed
                  /\ w[i].axes = stack[i].axes \union {rows}
    <3> HIDE DEF w, mark
    <3> QED BY <1>1, <1>4, <1>6, <2>0
  <2>2. w \in Seq(Entries(rows)) /\ DOMAIN w = 1 .. n
    <3>1. \A i \in 1 .. n : mark(stack[i]) \in Entries(rows)
      <4> HIDE DEF mark
      <4> QED BY <1>1, <1>4
    <3> HIDE DEF mark, w
    <3> QED BY <1>1, <1>2, <3>1
  <2> HIDE DEF w, mark
  <2>3. Len(w) = n
    BY <1>1, <2>2, LenProperties
  <2>4. Weakened(stack, w)
    BY <1>1, <2>1, <2>2 DEF Weakened
  <2>5. Styles(w) = Styles(stack)
    BY <1>1, <2>1, <2>2 DEF Styles
  <2>6. Nested(stack) => Nested(w)
    <3> SUFFICES ASSUME Nested(stack), NEW i \in Styles(w), NEW j \in Styles(w), i <= j
                 PROVE  w[j].axes \subseteq w[i].axes /\ (w[j].disturbed => w[i].disturbed)
      BY DEF Nested
    <3>1. i \in 1 .. n /\ j \in 1 .. n /\ stack[i].kind = "style" /\ stack[j].kind = "style"
      BY <1>1, <2>5 DEF Styles
    <3>2. stack[j].axes \subseteq stack[i].axes /\ (stack[j].disturbed => stack[i].disturbed)
      BY <2>5 DEF Nested
    <3> QED BY <2>1, <3>1, <3>2
  <2>7. \A i \in Styles(w) : rows \in w[i].axes /\ w[i].disturbed = stack[i].disturbed
    BY <1>1, <2>1, <2>5 DEF Styles
  <2> QED BY <1>6, <2>2, <2>3, <2>4, <2>6, <2>7 DEF w
<1> QED BY <1>5, <1>6

LEMMA AppendFields ==
    ASSUME NEW R, NEW seq \in Seq(R), NEW e \in R
    PROVE  /\ Len(seq) \in Nat /\ DOMAIN seq = 1 .. Len(seq)
           /\ Append(seq, e) \in Seq(R) /\ DOMAIN Append(seq, e) = 1 .. Len(seq) + 1
           /\ Append(seq, e)[Len(seq) + 1] = e
           /\ \A i \in 1 .. Len(seq) : Append(seq, e)[i] = seq[i]
<1> DEFINE more == Append(seq, e)
<1>1. Len(seq) \in Nat /\ DOMAIN seq = 1 .. Len(seq)
  BY LenProperties
<1>2. /\ more \in Seq(R) /\ Len(more) = Len(seq) + 1 /\ more[Len(seq) + 1] = e
      /\ \A i \in 1 .. Len(seq) : more[i] = seq[i]
  BY AppendProperties
<1> HIDE DEF more
<1>3. DOMAIN more = 1 .. Len(seq) + 1
  BY <1>2, LenProperties
<1> QED BY <1>1, <1>2, <1>3 DEF more

\* Formatting pushes its entry, and guards what the entries below are about.
LEMMA PushStyle ==
    ASSUME AxisOK(rows), rows # <<>>, rules \in Seq(RulesOf(rows)),
           NEW stack, StackOK(stack, rows, rules),
           NEW target \in TargetsOf(rows), NEW new \in Seq(RulesOf(rows)),
           Mine(rules, new, target),
           \A x, c : AxisOK(x) /\ SameOrder(rows, x) /\ ~ Under(x, target, c)
                     => Shown(new, x, c) = Shown(rules, x, c)
    PROVE  StackOK(Push(stack, StyleEntry(target)), rows, new)
<1> DEFINE e == StyleEntry(target)
           w == Above(stack, e)
           n == Len(w)
           p == Append(w, e)
<1>1. /\ e.kind = "style" /\ e.target = target /\ e.before = rules
      /\ e.axes = {rows} /\ e.disturbed = FALSE
  BY DEF StyleEntry
<1>2. StyleOK(e, rows, new) /\ e \in Entries(rows)
  BY FreshEntry DEF StyleOK, Entries
<1> HIDE DEF e
<1>3. /\ w \in Seq(Entries(rows)) /\ Weakened(stack, w) /\ Nested(w)
      /\ \A i \in Styles(w) : rows \in w[i].axes
  BY <1>1, AboveFields DEF StackOK
<1> HIDE DEF w
<1>4. StackOK(w, rows, rules)
  BY <1>3, StackWeak
<1>5. /\ n \in Nat /\ DOMAIN w = 1 .. n /\ p \in Seq(Entries(rows)) /\ DOMAIN p = 1 .. n + 1
      /\ p[n + 1] = e /\ \A i \in 1 .. n : p[i] = w[i]
  BY <1>2, <1>3, AppendFields
<1>6. ASSUME NEW x, NEW c, Near(rows, x, c)
      PROVE  Follows(p, new, x, c)
  <2>1. Follows(w, rules, x, c)
    BY <1>4, <1>6 DEF StackOK
  <2>2. Under(x, e.target, c) \/ Shown(new, x, c) = Shown(rules, x, c)
    BY <1>1, <1>6 DEF Near
  <2> QED BY <1>1, <1>2, <1>3, <2>1, <2>2, AppendFollows
<1> HIDE DEF p, n
<1>7. ASSUME NEW i \in DOMAIN p
      PROVE  EntryOK(p[i], rows, new)
  <2>1. CASE i = n + 1
    BY <1>2, <1>5, <2>1 DEF EntryOK
  <2>2. CASE i # n + 1
    <3>1. p[i] = w[i] /\ i \in DOMAIN w
      BY <1>5, <1>7, <2>2
    <3>2. EntryOK(w[i], rows, rules)
      BY <1>4, <3>1 DEF StackOK
    <3> QED BY <3>1, <3>2, MineGuards DEF EntryOK, StyleOK
  <2> QED BY <2>1, <2>2
<1>8. Nested(p)
  <2> SUFFICES ASSUME NEW i \in Styles(p), NEW j \in Styles(p), i <= j
               PROVE  p[j].axes \subseteq p[i].axes /\ (p[j].disturbed => p[i].disturbed)
    BY DEF Nested
  <2>1. i \in 1 .. n + 1 /\ j \in 1 .. n + 1 /\ p[i].kind = "style" /\ p[j].kind = "style"
    BY <1>5 DEF Styles
  <2>2. CASE j # n + 1
    <3>1. i \in 1 .. n /\ j \in 1 .. n
      BY <1>5, <2>1, <2>2
    <3>2. i \in Styles(w) /\ j \in Styles(w) /\ p[i] = w[i] /\ p[j] = w[j]
      BY <1>5, <2>1, <3>1 DEF Styles
    <3> QED BY <1>3, <3>2 DEF Nested
  <2>3. CASE j = n + 1 /\ i # n + 1
    <3>1. i \in Styles(w) /\ p[i] = w[i]
      BY <1>5, <2>1, <2>3 DEF Styles
    <3> QED BY <1>1, <1>3, <1>5, <2>3, <3>1
  <2>4. CASE j = n + 1 /\ i = n + 1
    BY <2>4
  <2> QED BY <2>2, <2>3, <2>4
<1>9. StackOK(p, rows, new)
  BY <1>5, <1>6, <1>7, <1>8 DEF StackOK
<1> QED BY <1>9 DEF Push, p, w, e

\* A row's entry is about no formatting.
LEMMA PushRow ==
    ASSUME NEW axis, NEW rs, NEW stack, StackOK(stack, axis, rs), NEW e \in RowEntries(axis)
    PROVE  StackOK(Push(stack, e), axis, rs)
<1> DEFINE n == Len(stack)
           p == Append(stack, e)
<1>1. e.kind # "style" /\ e \in Entries(axis) /\ stack \in Seq(Entries(axis))
  BY DEF RowEntries, Entries, StackOK
<1>2. Above(stack, e) = stack
  <2>1. Above(stack, e) = [i \in DOMAIN stack |-> stack[i]]
    BY <1>1 DEF Above
  <2>2. stack = [i \in 1 .. Len(stack) |-> stack[i]] /\ DOMAIN stack = 1 .. Len(stack)
    BY <1>1, LenProperties
  <2> QED BY <2>1, <2>2
<1>3. /\ n \in Nat /\ DOMAIN stack = 1 .. n /\ p \in Seq(Entries(axis)) /\ DOMAIN p = 1 .. n + 1
      /\ p[n + 1] = e /\ \A i \in 1 .. n : p[i] = stack[i]
  BY <1>1, AppendFields
<1>4. ASSUME NEW x, NEW c, Near(axis, x, c)
      PROVE  Follows(p, rs, x, c)
  <2>1. Follows(stack, rs, x, c)
    BY <1>4 DEF StackOK
  <2> QED BY <1>1, <2>1, AppendFollows
<1> HIDE DEF p, n
<1>5. \A i \in DOMAIN p : EntryOK(p[i], axis, rs)
  <2>1. \A i \in DOMAIN p : i = n + 1 \/ i \in 1 .. n
    BY <1>3
  <2> QED BY <1>3, <2>1 DEF StackOK, EntryOK
<1>6. \A i \in Styles(p) : i \in Styles(stack) /\ p[i] = stack[i]
  <2>1. \A i \in DOMAIN p : i = n + 1 \/ i \in 1 .. n
    BY <1>3
  <2> QED BY <1>1, <1>3, <2>1 DEF Styles
<1>7. Nested(p)
  BY <1>6 DEF StackOK, Nested
<1>8. StackOK(p, axis, rs)
  BY <1>3, <1>4, <1>5, <1>7 DEF StackOK
<1> QED BY <1>2, <1>8 DEF Push, p

\* Without its top entry, apart from what the others then lead back to.
LEMMA PopFields ==
    ASSUME NEW axis, NEW rs, NEW stack, StackOK(stack, axis, rs), stack # <<>>
    PROVE  /\ stack \in Seq(Entries(axis)) /\ Front(stack) \in Seq(Entries(axis))
           /\ \A i \in DOMAIN Front(stack) : EntryOK(Front(stack)[i], axis, rs)
           /\ Nested(Front(stack))
           /\ Last(stack) \in Entries(axis) /\ EntryOK(Last(stack), axis, rs)
<1> DEFINE n == Len(stack)
           f == Front(stack)
<1>1. stack \in Seq(Entries(axis))
  BY DEF StackOK
<1>2. /\ n \in Nat \ {0} /\ DOMAIN stack = 1 .. n /\ DOMAIN f = 1 .. n - 1
      /\ \A i \in 1 .. n - 1 : f[i] = stack[i]
      /\ Last(stack) = stack[n] /\ Last(stack) \in Entries(axis) /\ f \in Seq(Entries(axis))
  BY <1>1, FrontFields
<1> HIDE DEF n, f
<1>3. \A i \in DOMAIN f : i \in DOMAIN stack /\ f[i] = stack[i]
  BY <1>2
<1>4. \A i \in DOMAIN f : EntryOK(f[i], axis, rs)
  BY <1>3 DEF StackOK
<1>5. EntryOK(Last(stack), axis, rs)
  BY <1>2 DEF StackOK
<1>6. \A i \in Styles(f) : i \in Styles(stack) /\ f[i] = stack[i]
  BY <1>3 DEF Styles
<1>7. Nested(f)
  BY <1>6 DEF StackOK, Nested
<1> QED BY <1>1, <1>2, <1>4, <1>5, <1>7 DEF f

\* Undo or redo of formatting that goes through.
LEMMA PopStyle ==
    ASSUME AxisOK(rows), rules \in Seq(RulesOf(rows)),
           NEW stack, StackOK(stack, rows, rules), stack # <<>>,
           NEW e, e = Last(stack), e.kind = "style"
    PROVE  StackOK(Above(Front(stack), e), rows, Replayed(e))
<1> DEFINE f == Front(stack)
           w == Above(f, e)
           new == Replayed(e)
<1>1. /\ stack \in Seq(Entries(rows)) /\ f \in Seq(Entries(rows))
      /\ \A i \in DOMAIN f : EntryOK(f[i], rows, rules)
      /\ Nested(f) /\ Nested(stack) /\ e \in Entries(rows) /\ EntryOK(e, rows, rules)
  BY PopFields DEF StackOK
<1>2. StyleOK(e, rows, rules)
  BY <1>1, EntryKinds DEF EntryOK
<1>3. /\ new \in Seq(RulesOf(rows)) /\ Mine(rules, new, e.target)
      /\ \A x, c : AxisOK(x) /\ SameOrder(rows, x) =>
            Shown(new, x, c) = IF Under(x, e.target, c) THEN Shown(e.prior, x, c)
                               ELSE Shown(rules, x, c)
  BY <1>2, ReplayShown DEF StyleOK
<1> HIDE DEF new, f, w
<1>4. ASSUME NEW i \in DOMAIN f
      PROVE  EntryOK(f[i], rows, new)
  BY <1>1, <1>3, <1>4, MineGuards DEF EntryOK, StyleOK
<1>5. ASSUME NEW x, NEW c, Near(rows, x, c)
      PROVE  Follows(f, new, x, c)
  <2>1. Follows(stack, rules, x, c)
    BY <1>5 DEF StackOK
  <2>2. AxisOK(x) /\ SameOrder(rows, x)
    BY <1>5 DEF Near
  <2>3. ASSUME Under(x, e.target, c), Remembered(e, c[1])
        PROVE  Shown(new, x, c) = Shown(e.before, x, c)
    <3>1. Shown(e.prior, x, c) = Shown(e.before, x, c)
      BY <1>2, <1>5, <2>3 DEF StyleOK, Exact
    <3> QED BY <1>3, <2>2, <2>3, <3>1
  <2>4. ~ Under(x, e.target, c) => Shown(new, x, c) = Shown(rules, x, c)
    BY <1>3, <2>2
  <2> QED BY <1>1, <2>1, <2>3, <2>4, FrontFollows DEF f
<1>6. StackOK(f, rows, new)
  BY <1>1, <1>4, <1>5 DEF StackOK
<1>7. w \in Seq(Entries(rows)) /\ Weakened(f, w) /\ Nested(w)
  BY <1>1, AboveFields DEF w
<1>8. StackOK(w, rows, new)
  BY <1>6, <1>7, StackWeak
<1> QED BY <1>8 DEF w, f, new

\* Undo or redo of a row.
LEMMA PopRow ==
    ASSUME AxisOK(rows), NEW stack, StackOK(stack, rows, rules), stack # <<>>,
           NEW e, e = Last(stack), e.kind # "style"
    PROVE  e \in RowEntries(rows) /\ StackOK(Above(Front(stack), e), rows, rules)
<1> DEFINE f == Front(stack)
<1>1. /\ stack \in Seq(Entries(rows)) /\ f \in Seq(Entries(rows))
      /\ \A i \in DOMAIN f : EntryOK(f[i], rows, rules)
      /\ Nested(f) /\ Nested(stack) /\ e \in Entries(rows)
  BY PopFields DEF StackOK
<1> HIDE DEF f
<1>2. ASSUME NEW x, NEW c, Near(rows, x, c)
      PROVE  Follows(f, rules, x, c)
  <2>1. Follows(stack, rules, x, c)
    BY <1>2 DEF StackOK
  <2> QED BY <1>1, <2>1, FrontFollows DEF f
<1>3. StackOK(f, rows, rules)
  BY <1>1, <1>2 DEF StackOK
<1>4. Above(f, e) = f
  BY <1>1, AboveFields
<1> QED BY <1>1, <1>3, <1>4, EntryKinds DEF f

\* An undo or redo that yields to another author.
LEMMA PopBlocked ==
    ASSUME AxisOK(rows), rules \in Seq(RulesOf(rows)),
           NEW stack, StackOK(stack, rows, rules), stack # <<>>, Blocked(Last(stack))
    PROVE  StackOK(Front(stack), rows, rules)
<1> DEFINE f == Front(stack)
           e == Last(stack)
<1>1. /\ stack \in Seq(Entries(rows)) /\ f \in Seq(Entries(rows))
      /\ \A i \in DOMAIN f : EntryOK(f[i], rows, rules)
      /\ Nested(f) /\ Nested(stack) /\ e \in Entries(rows) /\ EntryOK(e, rows, rules)
  BY PopFields DEF StackOK
<1>2. e.kind = "style" /\ Winner(rules, rows, cols, e.target, "me") # "me"
  BY DEF Blocked
<1>3. e.disturbed
  <2>1. Guarded(e, rules)
    BY <1>1, <1>2, EntryKinds DEF EntryOK, StyleOK
  <2> HIDE DEF e
  <2> QED BY <1>2, <2>1, GuardedWins
<1>4. \A x, c : Follows(f, rules, x, c)
  BY <1>1, <1>2, <1>3, FrontDisturbed
<1> QED BY <1>1, <1>4 DEF StackOK

\* Another author's rule: nothing is claimed of what was formatted before it.
LEMMA StackDisturbed ==
    ASSUME NEW axis, NEW rs, NEW stack, StackOK(stack, axis, rs), NEW new
    PROVE  StackOK(Disturb(stack), axis, new)
<1> DEFINE d == Disturb(stack)
           n == Len(stack)
           mark(x) == IF x.kind = "style" THEN [x EXCEPT !.disturbed = TRUE] ELSE x
<1>1. /\ n \in Nat /\ DOMAIN stack = 1 .. n
      /\ \A i \in 1 .. n : stack[i] \in Entries(axis) /\ EntryOK(stack[i], axis, rs)
  <2>1. stack \in Seq(Entries(axis))
    BY DEF StackOK
  <2> QED BY <2>1, LenProperties, ElementOfSeq DEF StackOK
<1>2. d = [i \in 1 .. n |-> mark(stack[i])]
  BY <1>1 DEF Disturb
<1>3. ASSUME NEW x \in Entries(axis), EntryOK(x, axis, rs)
      PROVE  /\ mark(x) \in Entries(axis) /\ EntryOK(mark(x), axis, new)
             /\ mark(x).kind = x.kind
             /\ x.kind = "style" => mark(x).disturbed /\ mark(x).axes = x.axes
  <2>1. CASE x.kind = "style"
    <3>1. x \in StyleEntries(axis) /\ StyleOK(x, axis, rs)
      BY <1>3, <2>1, EntryKinds DEF EntryOK
    <3>2. mark(x) = [x EXCEPT !.disturbed = TRUE]
      BY <2>1
    <3> DEFINE m == mark(x)
    <3>3. m \in StyleEntries(axis)
      BY <3>1, <3>2 DEF StyleEntries
    <3>4. /\ m.target = x.target /\ m.before = x.before /\ m.prior = x.prior
          /\ m.disturbed /\ m.kind = x.kind /\ m.axes = x.axes
      BY <3>1, <3>2 DEF StyleEntries
    <3> HIDE DEF m
    <3>5. PriorInside(axis, m) /\ Guarded(m, new)
      BY <3>1, <3>4 DEF StyleOK, PriorInside, Guarded
    <3>6. Exact(axis, m)
      <4>1. \A r : Remembered(m, r) => Remembered(x, r)
        BY <3>4 DEF Remembered
      <4> QED BY <3>1, <3>4, <4>1 DEF StyleOK, Exact
    <3> QED BY <2>1, <3>3, <3>4, <3>5, <3>6 DEF EntryOK, StyleOK, Entries, m
  <2>2. CASE x.kind # "style"
    <3>1. mark(x) = x
      BY <2>2
    <3> HIDE DEF mark
    <3> QED BY <1>3, <2>2, <3>1, EntryKinds DEF EntryOK, Entries
  <2> QED BY <2>1, <2>2
<1>4. /\ DOMAIN d = 1 .. n
      /\ \A i \in 1 .. n :
            /\ d[i] \in Entries(axis) /\ EntryOK(d[i], axis, new) /\ d[i].kind = stack[i].kind
            /\ stack[i].kind = "style" => d[i].disturbed /\ d[i].axes = stack[i].axes
  <2>1. DOMAIN d = 1 .. n /\ \A i \in 1 .. n : d[i] = mark(stack[i])
    BY <1>2
  <2> HIDE DEF d, mark
  <2> QED BY <1>1, <1>3, <2>1
<1>5. d \in Seq(Entries(axis))
  <2>1. d = [i \in 1 .. n |-> d[i]]
    BY <1>2
  <2> HIDE DEF d
  <2> QED BY <1>1, <1>4, <2>1
<1> HIDE DEF d
<1>6. \A i \in Styles(d) : i \in Styles(stack) /\ d[i].disturbed /\ d[i].axes = stack[i].axes
  BY <1>1, <1>4 DEF Styles
<1>7. Nested(d)
  BY <1>6 DEF StackOK, Nested
<1>8. \A x, c : Follows(d, new, x, c)
  BY <1>6 DEF Follows
<1> QED BY <1>4, <1>5, <1>7, <1>8 DEF StackOK, d

-----------------------------------------------------------------------------
(* The session.                                                            *)

SessionOK ==
    /\ AxisOK(rows) /\ rows # <<>>
    /\ rules \in Seq(RulesOf(rows))
    /\ StackOK(undo, rows, rules) /\ StackOK(redo, rows, rules)
    /\ own \in 0 .. MaxOwn /\ foreign \in 0 .. MaxForeign

LEMMA SessionInit == Init => SessionOK
<1> SUFFICES ASSUME Init PROVE SessionOK
  OBVIOUS
<1>1. Seeded \in Nat \ {0} /\ MaxOwn \in Nat /\ MaxForeign \in Nat
  BY StyleAssumption
<1>2. rows \in [1 .. Seeded -> Slot] /\ DOMAIN rows = 1 .. Seeded
      /\ \A i \in 1 .. Seeded : rows[i].id = i
  BY <1>1 DEF Init, Slot
<1>3. rows \in Seq(Slot) /\ rows # <<>>
  <2>1. rows \in Seq(Slot)
    BY <1>1, <1>2
  <2>2. DOMAIN rows = 1 .. Len(rows)
    BY <2>1, LenProperties
  <2>3. Len(rows) # 0
    BY <1>1, <1>2, <2>1, <2>2
  <2> QED BY <2>1, <2>3, EmptySeq
<1>4. AxisOK(rows)
  BY <1>2, <1>3 DEF AxisOK
<1>5. StackOK(undo, rows, rules) /\ StackOK(redo, rows, rules)
  BY StackEmpty DEF Init
<1>6. rules \in Seq(RulesOf(rows))
  BY EmptySeq DEF Init
<1>7. own \in 0 .. MaxOwn /\ foreign \in 0 .. MaxForeign
  BY <1>1 DEF Init
<1> QED BY <1>3, <1>4, <1>5, <1>6, <1>7 DEF SessionOK

LEMMA Counted ==
    ASSUME SessionOK
    PROVE  /\ Own => own' \in 0 .. MaxOwn /\ foreign' \in 0 .. MaxForeign
           /\ Foreign => own' \in 0 .. MaxOwn /\ foreign' \in 0 .. MaxForeign
<1>1. own \in 0 .. MaxOwn /\ foreign \in 0 .. MaxForeign /\ MaxOwn \in Nat /\ MaxForeign \in Nat
  BY StyleAssumption DEF SessionOK
<1> QED BY <1>1 DEF Own, Foreign

\* A command's or an op's target is one of the rows there are.
LEMMA TargetNamed ==
    /\ Targets(LiveIds(rows)) \subseteq TargetsOf(rows)
    /\ Targets(IdsOf(rows)) = TargetsOf(rows)
<1>1. Spans(LiveIds(rows)) \subseteq SpansOf(rows) /\ Spans(IdsOf(rows)) = SpansOf(rows)
  BY LiveInIds DEF Spans, SpansOf
<1> QED BY <1>1 DEF Targets, TargetsOf

\* An axis with something on it still has something after an edit.
LEMMA AxisStays ==
    ASSUME NEW axis, AxisOK(axis), axis # <<>>, NEW new, AxisOK(new), Len(new) >= Len(axis)
    PROVE  new # <<>>
<1>1. axis \in Seq(Slot) /\ new \in Seq(Slot)
  BY DEF AxisOK
<1>2. Len(axis) \in Nat \ {0} /\ Len(new) \in Nat
  BY <1>1, EmptySeq, LenProperties
<1> QED BY <1>1, <1>2, EmptySeq

\* An edit of the rows alone.
LEMMA RowsEdited ==
    ASSUME SessionOK, NEW new, SameOrder(rows, new)
    PROVE  /\ rules \in Seq(RulesOf(new))
           /\ StackOK(undo, new, rules) /\ StackOK(redo, new, rules)
<1>1. RulesOf(rows) \subseteq RulesOf(new)
  BY TypesStay
<1>2. rules \in Seq(RulesOf(new))
  BY <1>1, SeqMonotonic DEF SessionOK
<1> QED BY <1>2, StackStays DEF SessionOK

LEMMA RowInserted ==
    ASSUME SessionOK, NEW anchor, Inserted(anchor)
    PROVE  /\ AxisOK(rows') /\ rows' # <<>> /\ SameOrder(rows, rows')
           /\ NextRow \in IdsOf(rows')
<1>1. AxisOK(rows) /\ rows # <<>> /\ rows' = InsertAfter(rows, anchor, NextRow)
  BY DEF SessionOK, Inserted
<1>2. NextRow \in Nat \ IdsOf(rows)
  BY <1>1, NextIdFresh DEF NextRow
<1>3. /\ AxisOK(rows') /\ IdsOf(rows') = IdsOf(rows) \cup {NextRow}
      /\ Len(rows') = Len(rows) + 1 /\ SameOrder(rows, rows')
  BY <1>1, <1>2, InsertAfterKeeps
<1>4. Len(rows) \in Nat
  BY <1>1, LenProperties DEF AxisOK
<1> QED BY <1>1, <1>3, <1>4, AxisStays

LEMMA RowToggled ==
    ASSUME SessionOK, NEW row \in IdsOf(rows), NEW live \in BOOLEAN,
           rows' = SetLive(rows, row, live)
    PROVE  AxisOK(rows') /\ rows' # <<>> /\ SameOrder(rows, rows') /\ IdsOf(rows') = IdsOf(rows)
<1>1. AxisOK(rows) /\ rows # <<>>
  BY DEF SessionOK
<1>2. /\ AxisOK(rows') /\ IdsOf(rows') = IdsOf(rows)
      /\ Len(rows') = Len(rows) /\ SameOrder(rows, rows')
  BY <1>1, SetLiveKeeps
<1>3. Len(rows) \in Nat
  BY <1>1, LenProperties DEF AxisOK
<1> QED BY <1>1, <1>2, <1>3, AxisStays

\* A command on the rows: the new entry above what was done, nothing undone.
LEMMA RowDone ==
    ASSUME SessionOK, Own, AxisOK(rows'), rows' # <<>>, SameOrder(rows, rows'), rules' = rules,
           NEW e \in RowEntries(rows'), Done(e)
    PROVE  SessionOK'
<1>1. rules \in Seq(RulesOf(rows')) /\ StackOK(undo, rows', rules)
  BY RowsEdited
<1>2. undo' = Push(undo, e) /\ redo' = <<>>
  BY DEF Done
<1>3. StackOK(undo', rows', rules') /\ StackOK(redo', rows', rules')
  BY <1>1, <1>2, PushRow, StackEmpty
<1> QED BY <1>1, <1>3, Counted DEF SessionOK

\* An entry of one stack taken back, and what takes this back, on the other.
LEMMA Inverted ==
    ASSUME SessionOK, NEW stack, StackOK(stack, rows, rules), stack # <<>>,
           NEW other, StackOK(other, rows, rules),
           NEW e, e = Last(stack), Invert(e)
    PROVE  /\ AxisOK(rows') /\ rows' # <<>> /\ rules' \in Seq(RulesOf(rows'))
           /\ StackOK(Above(Front(stack), e), rows', rules')
           /\ StackOK(Push(other, Opposite(e)), rows', rules')
<1>0. AxisOK(rows) /\ rows # <<>> /\ rules \in Seq(RulesOf(rows))
  BY DEF SessionOK
<1>1. CASE e.kind = "style"
  <2>1. rows' = rows /\ rules' = Replayed(e) /\ Opposite(e) = StyleEntry(e.target)
    BY <1>1 DEF Invert, Opposite
  <2>2. StackOK(Above(Front(stack), e), rows, Replayed(e))
    BY <1>0, <1>1, PopStyle
  <2>3. StyleOK(e, rows, rules)
    BY <1>1, PopFields, EntryKinds DEF EntryOK
  <2>4. /\ Replayed(e) \in Seq(RulesOf(rows)) /\ Mine(rules, Replayed(e), e.target)
        /\ \A x, c : AxisOK(x) /\ SameOrder(rows, x) /\ ~ Under(x, e.target, c)
                     => Shown(Replayed(e), x, c) = Shown(rules, x, c)
    BY <1>0, <2>3, ReplayShown DEF StyleOK
  <2>5. e.target \in TargetsOf(rows)
    BY <2>3 DEF StyleOK, StyleEntries
  <2>6. StackOK(Push(other, StyleEntry(e.target)), rows, Replayed(e))
    BY <1>0, <2>4, <2>5, PushStyle
  <2> QED BY <1>0, <2>1, <2>2, <2>4, <2>6
<1>2. CASE e.kind # "style"
  <2>1. e \in RowEntries(rows) /\ StackOK(Above(Front(stack), e), rows, rules)
    BY <1>0, <1>2, PopRow
  <2>2. e.kind \in {"inserted", "deleted"} /\ e.row \in IdsOf(rows)
    BY <2>1 DEF RowEntries
  <2>3. rules' = rules /\ rows' = SetLive(rows, e.row, e.kind = "deleted")
    BY <1>2 DEF Invert
  <2>4. AxisOK(rows') /\ rows' # <<>> /\ SameOrder(rows, rows') /\ IdsOf(rows') = IdsOf(rows)
    BY <2>2, <2>3, RowToggled
  <2>5. Opposite(e) \in RowEntries(rows')
    BY <2>2, <2>4 DEF Opposite, RowEntry, RowEntries
  <2>6. rules \in Seq(RulesOf(rows')) /\ StackOK(Above(Front(stack), e), rows', rules)
    BY <2>1, <2>4, RowsEdited, StackStays
  <2>7. StackOK(Push(other, Opposite(e)), rows', rules)
    BY <2>4, <2>5, StackStays, PushRow
  <2> QED BY <2>3, <2>4, <2>6, <2>7
<1> QED BY <1>1, <1>2

LEMMA SessionStep == SessionOK /\ [Next]_vars => SessionOK'
<1> SUFFICES ASSUME SessionOK, [Next]_vars PROVE SessionOK'
  OBVIOUS
<1>0. /\ AxisOK(rows) /\ rows # <<>> /\ rules \in Seq(RulesOf(rows))
      /\ StackOK(undo, rows, rules) /\ StackOK(redo, rows, rules)
  BY DEF SessionOK
<1>1. ASSUME NEW target \in Targets(LiveIds(rows)), NEW value \in Values, Format(target, value)
      PROVE  SessionOK'
  <2> DEFINE r == Rule("me", target, value)
  <2>1. /\ rows' = rows /\ rules' = Append(rules, r) /\ Own
        /\ undo' = Push(undo, StyleEntry(target)) /\ redo' = <<>>
    BY <1>1 DEF Format, Done
  <2>2. target \in TargetsOf(rows)
    BY TargetNamed
  <2>3. r \in RulesOf(rows) /\ r.by = "me" /\ r.target = target
    BY <2>2 DEF Rule, RulesOf
  <2> HIDE DEF r
  <2>4. Append(rules, r) \in Seq(RulesOf(rows))
    BY <1>0, <2>3, AppendProperties
  <2>5. /\ Mine(rules, Append(rules, r), target)
        /\ \A x, c : ~ Under(x, target, c) => Shown(Append(rules, r), x, c) = Shown(rules, x, c)
    BY <1>0, <2>3, FormatMine
  <2>6. StackOK(Push(undo, StyleEntry(target)), rows, Append(rules, r))
    BY <1>0, <2>2, <2>4, <2>5, PushStyle
  <2> QED BY <1>0, <2>1, <2>4, <2>6, StackEmpty, Counted DEF SessionOK
<1>2. ASSUME NEW anchor, InsertRow(anchor)
      PROVE  SessionOK'
  <2>1. Inserted(anchor) /\ Own /\ rules' = rules /\ Done(RowEntry("inserted", NextRow))
    BY <1>2 DEF InsertRow
  <2>2. AxisOK(rows') /\ rows' # <<>> /\ SameOrder(rows, rows') /\ NextRow \in IdsOf(rows')
    BY <2>1, RowInserted
  <2>3. RowEntry("inserted", NextRow) \in RowEntries(rows')
    BY <2>2 DEF RowEntry, RowEntries
  <2> QED BY <2>1, <2>2, <2>3, RowDone
<1>3. ASSUME NEW row \in LiveIds(rows), DeleteRow(row)
      PROVE  SessionOK'
  <2>1. rows' = SetLive(rows, row, FALSE) /\ Own /\ rules' = rules /\ Done(RowEntry("deleted", row))
    BY <1>3 DEF DeleteRow
  <2>2. row \in IdsOf(rows)
    BY LiveInIds
  <2>3. AxisOK(rows') /\ rows' # <<>> /\ SameOrder(rows, rows') /\ IdsOf(rows') = IdsOf(rows)
    BY <2>1, <2>2, RowToggled
  <2>4. RowEntry("deleted", row) \in RowEntries(rows')
    BY <2>2, <2>3 DEF RowEntry, RowEntries
  <2> QED BY <2>1, <2>3, <2>4, RowDone
<1>4. CASE Undo
  <2>1. undo # <<>> /\ Own
    BY <1>4 DEF Undo
  <2>2. CASE Blocked(Last(undo))
    <3>1. undo' = Front(undo) /\ rules' = rules /\ rows' = rows /\ redo' = redo
      BY <1>4, <2>2 DEF Undo
    <3>2. StackOK(Front(undo), rows, rules)
      BY <1>0, <2>1, <2>2, PopBlocked
    <3> QED BY <1>0, <2>1, <3>1, <3>2, Counted DEF SessionOK
  <2>3. CASE ~ Blocked(Last(undo))
    <3>1. /\ Invert(Last(undo)) /\ undo' = Above(Front(undo), Last(undo))
          /\ redo' = Push(redo, Opposite(Last(undo)))
      BY <1>4, <2>3 DEF Undo
    <3>2. /\ AxisOK(rows') /\ rows' # <<>> /\ rules' \in Seq(RulesOf(rows'))
          /\ StackOK(Above(Front(undo), Last(undo)), rows', rules')
          /\ StackOK(Push(redo, Opposite(Last(undo))), rows', rules')
      BY <1>0, <2>1, <3>1, Inverted
    <3> QED BY <2>1, <3>1, <3>2, Counted DEF SessionOK
  <2> QED BY <2>2, <2>3
<1>5. CASE Redo
  <2>1. redo # <<>> /\ Own
    BY <1>5 DEF Redo
  <2>2. CASE Blocked(Last(redo))
    <3>1. redo' = Front(redo) /\ rules' = rules /\ rows' = rows /\ undo' = undo
      BY <1>5, <2>2 DEF Redo
    <3>2. StackOK(Front(redo), rows, rules)
      BY <1>0, <2>1, <2>2, PopBlocked
    <3> QED BY <1>0, <2>1, <3>1, <3>2, Counted DEF SessionOK
  <2>3. CASE ~ Blocked(Last(redo))
    <3>1. /\ Invert(Last(redo)) /\ redo' = Above(Front(redo), Last(redo))
          /\ undo' = Push(undo, Opposite(Last(redo)))
      BY <1>5, <2>3 DEF Redo
    <3>2. /\ AxisOK(rows') /\ rows' # <<>> /\ rules' \in Seq(RulesOf(rows'))
          /\ StackOK(Above(Front(redo), Last(redo)), rows', rules')
          /\ StackOK(Push(undo, Opposite(Last(redo))), rows', rules')
      BY <1>0, <2>1, <3>1, Inverted
    <3> QED BY <2>1, <3>1, <3>2, Counted DEF SessionOK
  <2> QED BY <2>2, <2>3
<1>6. ASSUME NEW target \in Targets(IdsOf(rows)), NEW value \in Values,
             NEW at \in 1 .. Len(rules) + 1, ForeignRule(target, value, at)
      PROVE  SessionOK'
  <2> DEFINE r == Rule("other", target, value)
  <2>1. /\ rows' = rows /\ rules' = InsertAt(rules, at, r) /\ Foreign
        /\ undo' = Disturb(undo) /\ redo' = Disturb(redo)
    BY <1>6 DEF ForeignRule
  <2>2. r \in RulesOf(rows)
    BY TargetNamed DEF Rule, RulesOf
  <2> HIDE DEF r
  <2>3. InsertAt(rules, at, r) \in Seq(RulesOf(rows))
    BY <1>0, <2>2, InsertedPlaces
  <2>4. StackOK(Disturb(undo), rows, rules') /\ StackOK(Disturb(redo), rows, rules')
    BY <1>0, StackDisturbed
  <2> QED BY <1>0, <2>1, <2>3, <2>4, Counted DEF SessionOK
<1>7. ASSUME NEW anchor, ForeignInsert(anchor)
      PROVE  SessionOK'
  <2>1. Inserted(anchor) /\ Foreign /\ rules' = rules /\ undo' = undo /\ redo' = redo
    BY <1>7 DEF ForeignInsert
  <2>2. AxisOK(rows') /\ rows' # <<>> /\ SameOrder(rows, rows')
    BY <2>1, RowInserted
  <2> QED BY <2>1, <2>2, RowsEdited, Counted DEF SessionOK
<1>8. ASSUME NEW row \in IdsOf(rows), NEW live \in BOOLEAN, ForeignDelete(row, live)
      PROVE  SessionOK'
  <2>1. /\ rows' = SetLive(rows, row, live) /\ Foreign /\ rules' = rules
        /\ undo' = undo /\ redo' = redo
    BY <1>8 DEF ForeignDelete
  <2>2. AxisOK(rows') /\ rows' # <<>> /\ SameOrder(rows, rows')
    BY <2>1, RowToggled
  <2> QED BY <2>1, <2>2, RowsEdited, Counted DEF SessionOK
<1>9. CASE UNCHANGED vars
  BY <1>9 DEF vars, SessionOK, StackOK, Near, EntryOK, StyleOK, PriorInside, Exact, Guarded
<1> QED BY <1>1, <1>2, <1>3, <1>4, <1>5, <1>6, <1>7, <1>8, <1>9 DEF Next

-----------------------------------------------------------------------------
(* What the session promises.                                              *)

LEMMA SessionTypes == SessionOK => TypeOK
<1> SUFFICES ASSUME SessionOK PROVE TypeOK
  OBVIOUS
<1>1. \A i \in DOMAIN rules : rules[i] \in RulesOf(rows)
  BY LenProperties, ElementOfSeq DEF SessionOK
<1> QED BY <1>1, TargetNamed DEF SessionOK, TypeOK, RulesOf

LEMMA SessionInside == SessionOK => PriorInsideTarget
<1> SUFFICES ASSUME SessionOK,
                    NEW e \in ToSet(undo) \union ToSet(redo), e.kind = "style",
                    NEW p \in ToSet(e.prior)
             PROVE  /\ Window(rows, p.target.rows) \subseteq Window(rows, e.target.rows)
                    /\ Window(cols, p.target.cols) \subseteq Window(cols, e.target.cols)
  BY DEF PriorInsideTarget
<1>1. ASSUME NEW stack, StackOK(stack, rows, rules), e \in ToSet(stack)
      PROVE  EntryOK(e, rows, rules) /\ e \in Entries(rows)
  <2>1. PICK i \in DOMAIN stack : e = stack[i]
    BY <1>1 DEF ToSet
  <2>2. stack \in Seq(Entries(rows)) /\ DOMAIN stack = 1 .. Len(stack)
    BY <1>1, LenProperties DEF StackOK
  <2> QED BY <1>1, <2>1, <2>2, ElementOfSeq DEF StackOK
<1>2. EntryOK(e, rows, rules) /\ e \in Entries(rows)
  BY <1>1 DEF SessionOK
<1>3. PriorInside(rows, e)
  BY <1>2, EntryKinds DEF EntryOK, StyleOK
<1>4. PICK i \in DOMAIN e.prior : p = e.prior[i]
  BY DEF ToSet
<1>5. Inside(rows, p.target.rows, e.target.rows) /\ Inside(cols, p.target.cols, e.target.cols)
  BY <1>3, <1>4 DEF PriorInside
<1>6. AxisOK(rows)
  BY DEF SessionOK
<1> QED BY <1>5, <1>6, ColsOK, InsideWindow

\* The top entry of a stack, replayed: under its target its own rules show what
\* was there, and elsewhere it has been so all along.
LEMMA TopRestores ==
    ASSUME SessionOK, NEW stack, StackOK(stack, rows, rules), stack # <<>>,
           NEW e, e = Last(stack), e.kind = "style", ~ e.disturbed,
           NEW c \in LiveIds(rows) \X LiveIds(cols), Remembered(e, c[1])
    PROVE  Look(Replayed(e), rows, cols, c) = Look(e.before, rows, cols, c)
<1>0. AxisOK(rows) /\ rules \in Seq(RulesOf(rows))
  BY DEF SessionOK
<1>1. StyleOK(e, rows, rules)
  BY PopFields, EntryKinds DEF EntryOK
<1>2. Near(rows, rows, c)
  BY <1>0, LiveInIds, OrderItself DEF Near
<1>3. Shown(Replayed(e), rows, c) = IF Under(rows, e.target, c) THEN Shown(e.prior, rows, c)
                                    ELSE Shown(rules, rows, c)
  BY <1>0, <1>1, OrderItself, ReplayShown DEF StyleOK
<1>4. CASE Under(rows, e.target, c)
  <2>1. Shown(e.prior, rows, c) = Shown(e.before, rows, c)
    BY <1>1, <1>2, <1>4 DEF StyleOK, Exact
  <2> QED BY <1>0, <1>3, <1>4, <2>1, LookIsShown
<1>5. CASE ~ Under(rows, e.target, c)
  <2> DEFINE n == Len(stack)
  <2>1. n \in Nat \ {0} /\ DOMAIN stack = 1 .. n /\ e = stack[n]
    BY FrontFields DEF StackOK
  <2>2. n \in Styles(stack)
    BY <2>1 DEF Styles
  <2>3. Follows(stack, rules, rows, c)
    BY <1>2 DEF StackOK
  <2> HIDE DEF n
  <2>4. ~ \E j \in Styles(stack) : FirstOver(stack, n, j, rows, c)
    <3> SUFFICES ASSUME NEW j \in Styles(stack), FirstOver(stack, n, j, rows, c) PROVE FALSE
      OBVIOUS
    <3>1. j \in 1 .. n /\ n <= j
      BY <2>1 DEF Styles, FirstOver
    <3>2. j = n
      BY <2>1, <3>1
    <3> QED BY <1>5, <2>1, <3>2 DEF FirstOver
  <2>5. Shown(rules, rows, c) = Shown(e.before, rows, c)
    BY <2>1, <2>2, <2>3, <2>4 DEF Follows
  <2> QED BY <1>0, <1>3, <1>5, <2>5, LookIsShown
<1> QED BY <1>4, <1>5

LEMMA EntryRestores ==
    ASSUME SessionOK, NEW stack, StackOK(stack, rows, rules), stack # <<>>,
           ~ Blocked(Last(stack)) => Invert(Last(stack))
    PROVE  AsIfNever(Last(stack))
<1> DEFINE e == Last(stack)
<1>0. rules \in Seq(RulesOf(rows))
  BY DEF SessionOK
<1>1. SUFFICES ASSUME e.kind = "style", ~ e.disturbed,
                      NEW c \in LiveIds(rows') \X LiveIds(cols), Remembered(e, c[1])
               PROVE  Look(rules', rows', cols, c) = Look(e.before, rows', cols, c)
  BY DEF AsIfNever
<1>2. Guarded(e, rules)
  BY <1>1, PopFields, EntryKinds DEF EntryOK, StyleOK
<1> HIDE DEF e
<1>3. ~ Blocked(e)
  BY <1>0, <1>1, <1>2, GuardedWins DEF Blocked
<1>4. rules' = Replayed(e) /\ rows' = rows
  BY <1>1, <1>3 DEF Invert, e
<1>5. c \in LiveIds(rows) \X LiveIds(cols)
  BY <1>4
<1>6. Look(Replayed(e), rows, cols, c) = Look(e.before, rows, cols, c)
  BY <1>1, <1>5, TopRestores DEF e
<1> QED BY <1>4, <1>6

\* The rows, the registry's rules and what they name stay of their kinds
\* (SpanId, StyleRule), in every reachable state.
THEOREM StyleType == Spec => []TypeOK
<1> QED BY SessionInit, SessionStep, SessionTypes, PTL DEF Spec

\* Whatever an undo or redo of formatting would rewrite lies inside the
\* rectangle it reverts (prior_rules, clip_span), in every reachable state.
THEOREM RevertStaysInside == Spec => []PriorInsideTarget
<1> QED BY SessionInit, SessionStep, SessionInside, PTL DEF Spec

\* An undo or redo of formatting that no other author's rule has disturbed goes
\* through, and leaves every cell its clips remember as if the command had never
\* run (prior_rules, invert_group), whatever was formatted, undone and redone
\* above it and whatever rows came and went.
THEOREM RevertBringsBack == Spec => RevertRestores
<1>1. SessionOK /\ [Next]_vars =>
        [(Undo => AsIfNever(Last(undo))) /\ (Redo => AsIfNever(Last(redo)))]_vars
  <2> SUFFICES ASSUME SessionOK
               PROVE  /\ Undo => AsIfNever(Last(undo))
                      /\ Redo => AsIfNever(Last(redo))
    OBVIOUS
  <2>1. Undo => undo # <<>> /\ (~ Blocked(Last(undo)) => Invert(Last(undo)))
    BY DEF Undo
  <2>2. Redo => redo # <<>> /\ (~ Blocked(Last(redo)) => Invert(Last(redo)))
    BY DEF Redo
  <2> QED BY <2>1, <2>2, EntryRestores DEF SessionOK
<1> QED BY <1>1, SessionInit, SessionStep, PTL DEF Spec, RevertRestores
=============================================================================
