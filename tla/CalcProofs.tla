----------------------------- MODULE CalcProofs -----------------------------
(***************************************************************************)
(* The band index of usk-calc answers exactly and the merged cover loses   *)
(* no cell, whatever the grid, the band height and the rectangles.         *)
(* References travel: on sheets of any size, with any formulas and any     *)
(* edits, an edit never changes which of the surviving cells a formula     *)
(* reads.  Every formula has a result: no pass leaves a slot unwritten.    *)
(* And the result is right: what a settled engine shows is what the        *)
(* formulas denote, and cycles show as such (CalcShows, CalcCircles), by   *)
(* way of the marking's fixed point, the levels' order and the pass.       *)
(***************************************************************************)
EXTENDS CalcEngine, AxisProofs

-----------------------------------------------------------------------------
(* Rectangles.                                                             *)

\* Rows in order lie in bands in order.
LEMMA BandMono ==
    ASSUME NEW x \in Nat, NEW y \in Nat, x <= y, NEW s \in Nat \ {0}
    PROVE  x \div s \in Nat /\ x \div s <= y \div s
<1>1. x \div s \in Nat /\ y \div s \in Nat
  OBVIOUS
<1>2. s * (x \div s) <= x /\ y < s * (y \div s) + s
  OBVIOUS
<1>3. ~ (y \div s + 1 <= x \div s)
  <2> SUFFICES ASSUME y \div s + 1 <= x \div s PROVE FALSE
    OBVIOUS
  <2>1. s * (y \div s + 1) <= s * (x \div s)
    BY <1>1
  <2>2. s * (y \div s + 1) = s * (y \div s) + s
    BY <1>1
  <2> QED
    BY <1>1, <1>2, <2>1, <2>2
<1> QED
  BY <1>1, <1>3

-----------------------------------------------------------------------------
LEMMA ProperBounds ==
    ASSUME NEW r \in Proper
    PROVE  /\ r.r0 \in Nat /\ r.r1 \in Nat /\ r.c0 \in Nat /\ r.c1 \in Nat
           /\ r.r0 <= r.r1 /\ r.c0 <= r.c1 /\ r.r1 <= Grid - 1
BY RectanglesAssumption DEF Proper, Rect, Coord

\* The bands of a rectangle are bands of the grid.
LEMMA BandsInGrid ==
    ASSUME NEW r \in Proper
    PROVE  BandsOf(r) \subseteq 0 .. (Grid - 1) \div Band
<1>1. /\ r.r0 \div Band \in Nat
      /\ r.r1 \div Band \in Nat
      /\ r.r1 \div Band <= (Grid - 1) \div Band
      /\ (Grid - 1) \div Band \in Nat
  <2>1. Grid - 1 \in Nat
    BY RectanglesAssumption
  <2> QED
    BY <2>1, ProperBounds, BandMono, RectanglesAssumption
<1> QED
  BY <1>1 DEF BandsOf

\* Rectangles that overlap cross a band together: the one of the lower of
\* their first rows.
LEMMA OverlapSharesBand ==
    ASSUME NEW a \in Proper, NEW b \in Proper, Overlaps(a, b)
    PROVE  BandsOf(a) \intersect BandsOf(b) # {}
<1> DEFINE x == Upper(a.r0, b.r0)
<1>1. /\ a.r0 \in Nat /\ a.r1 \in Nat /\ b.r0 \in Nat /\ b.r1 \in Nat
      /\ a.r0 <= a.r1 /\ b.r0 <= b.r1
  BY ProperBounds
<1>2. x \in Nat /\ a.r0 <= x /\ x <= a.r1 /\ b.r0 <= x /\ x <= b.r1
  BY <1>1 DEF Upper, Overlaps
<1> HIDE DEF x
<1>3. x \div Band \in BandsOf(a)
  <2>1. a.r0 \div Band <= x \div Band /\ x \div Band <= a.r1 \div Band
    BY <1>1, <1>2, BandMono, RectanglesAssumption
  <2>2. a.r0 \div Band \in Nat /\ x \div Band \in Nat /\ a.r1 \div Band \in Nat
    BY <1>1, <1>2, BandMono, RectanglesAssumption
  <2> QED
    BY <2>1, <2>2 DEF BandsOf
<1>4. x \div Band \in BandsOf(b)
  <2>1. b.r0 \div Band <= x \div Band /\ x \div Band <= b.r1 \div Band
    BY <1>1, <1>2, BandMono, RectanglesAssumption
  <2>2. b.r0 \div Band \in Nat /\ x \div Band \in Nat /\ b.r1 \div Band \in Nat
    BY <1>1, <1>2, BandMono, RectanglesAssumption
  <2> QED
    BY <2>1, <2>2 DEF BandsOf
<1> QED
  BY <1>3, <1>4

\* What the index holds per band.
LEMMA IndexEntries ==
    ASSUME NEW G, NEW reads \in [G -> SUBSET Proper],
           NEW b \in 0 .. (Grid - 1) \div Band, NEW g, NEW r
    PROVE  <<g, r>> \in Index(reads)[b] <=> g \in G /\ r \in reads[g] /\ b \in BandsOf(r)
<1>1. Index(reads)[b] =
        UNION {{<<h, x>> : x \in {y \in reads[h] : b \in BandsOf(y)}} : h \in G}
  BY DEF Index
<1> QED
  BY <1>1

\* A rectangle finds in the index exactly the groups that read a rectangle it
\* overlaps: no band misses a reader (BandIndex::insert, stab, and TD-20's
\* reason for indexing by rows).
THEOREM StabExact ==
    ASSUME NEW G, NEW reads \in [G -> SUBSET Proper], NEW rect \in Proper
    PROVE  Stab(Index(reads), rect) = {g \in G : \E r \in reads[g] : Overlaps(r, rect)}
<1> DEFINE index == Index(reads)
           bands == BandsOf(rect) \intersect DOMAIN index
           found == {x \in UNION {index[b] : b \in bands} : Overlaps(x[2], rect)}
<1>1. DOMAIN index = 0 .. (Grid - 1) \div Band
  BY DEF Index
<1>2. Stab(index, rect) = {e[1] : e \in found}
  BY DEF Stab
<1>3. ASSUME NEW g \in Stab(index, rect)
      PROVE  g \in G /\ \E r \in reads[g] : Overlaps(r, rect)
  <2>1. PICK e \in found : g = e[1]
    BY <1>2
  <2>2. PICK b \in bands : e \in index[b]
    OBVIOUS
  <2>3. e \in UNION {{<<h, x>> : x \in {y \in reads[h] : b \in BandsOf(y)}} : h \in G}
    BY <2>2, <1>1 DEF Index
  <2>4. PICK h \in G : \E x \in reads[h] : e = <<h, x>>
    BY <2>3
  <2>5. PICK x \in reads[h] : e = <<h, x>>
    BY <2>4
  <2>6. Overlaps(x, rect)
    BY <2>5
  <2> QED
    BY <2>1, <2>5, <2>6
<1>4. ASSUME NEW g \in G, NEW r \in reads[g], Overlaps(r, rect)
      PROVE  g \in Stab(index, rect)
  <2>1. r \in Proper
    OBVIOUS
  <2>2. PICK b : b \in BandsOf(r) /\ b \in BandsOf(rect)
    BY <2>1, <1>4, OverlapSharesBand
  <2>3. b \in bands
    BY <2>2, <1>1, BandsInGrid
  <2>4. <<g, r>> \in index[b]
    BY <2>2, <2>3, <1>1, IndexEntries
  <2>5. <<g, r>> \in found
    BY <2>3, <2>4, <1>4
  <2> QED
    BY <2>5, <1>2
<1> QED
  BY <1>3, <1>4

-----------------------------------------------------------------------------
\* The union covers what either covers, and no rectangle that covers both is
\* smaller (Rect::union).
LEMMA JoinLeast ==
    ASSUME NEW a \in Rect, NEW b \in Rect
    PROVE  /\ Join(a, b) \in Rect
           /\ \A p \in Coord \X Coord : Covers(a, p) \/ Covers(b, p) => Covers(Join(a, b), p)
           /\ \A c \in Rect :
                 /\ c.r0 <= a.r0 /\ c.r0 <= b.r0 /\ c.c0 <= a.c0 /\ c.c0 <= b.c0
                 /\ a.r1 <= c.r1 /\ b.r1 <= c.r1 /\ a.c1 <= c.c1 /\ b.c1 <= c.c1
                 => \A p \in Coord \X Coord : Covers(Join(a, b), p) => Covers(c, p)
<1>1. Join(a, b) = [r0 |-> Lower(a.r0, b.r0), r1 |-> Upper(a.r1, b.r1),
                    c0 |-> Lower(a.c0, b.c0), c1 |-> Upper(a.c1, b.c1)]
  BY DEF Join
<1>2. /\ a.r0 \in Coord /\ a.r1 \in Coord /\ a.c0 \in Coord /\ a.c1 \in Coord
      /\ b.r0 \in Coord /\ b.r1 \in Coord /\ b.c0 \in Coord /\ b.c1 \in Coord
  BY DEF Rect
<1>3. Join(a, b) \in Rect
  BY <1>1, <1>2 DEF Rect, Lower, Upper
<1>4. \A x \in Coord : x \in Int
  BY DEF Coord
<1> QED
  BY <1>1, <1>2, <1>3, <1>4 DEF Covers, Lower, Upper, Rect

\* One step of the sweep loses no cell: what the cover or the rectangle held
\* is still held (merge_rects).
THEOREM SweepLosesNothing ==
    ASSUME NEW out \in Seq(Rect), NEW r \in Rect, NEW p \in Coord \X Coord,
           Covers(r, p) \/ \E i \in DOMAIN out : Covers(out[i], p)
    PROVE  /\ Sweep(out, r) \in Seq(Rect)
           /\ \E i \in DOMAIN Sweep(out, r) : Covers(Sweep(out, r)[i], p)
<1> DEFINE new == Sweep(out, r)
<1>1. CASE out # <<>> /\ Mergeable(Last(out), r)
  <2> DEFINE n == Len(out)
  <2>1. n \in Nat \ {0} /\ Last(out) = out[n] /\ out[n] \in Rect
    BY <1>1 DEF Last
  <2>2. Join(out[n], r) \in Rect
    BY <2>1, JoinLeast
  <2>3. new = Append(Front(out), Join(out[n], r))
    BY <1>1, <2>1 DEF Sweep
  <2>4. /\ Front(out) \in Seq(Rect) /\ Len(Front(out)) = n - 1
        /\ \A i \in 1 .. n - 1 : Front(out)[i] = out[i]
    <3>1. Front(out) = SubSeq(out, 1, n - 1)
      BY DEF Front
    <3>2. \A i \in 1 .. n - 1 : out[i] \in Rect
      BY <2>1
    <3> HIDE DEF n
    <3> QED
      BY <3>1, <3>2, <2>1, SubSeqProperties
  <2>5. /\ new \in Seq(Rect) /\ DOMAIN new = 1 .. n
        /\ new[n] = Join(out[n], r)
        /\ \A i \in 1 .. n - 1 : new[i] = out[i]
    BY <2>1, <2>2, <2>3, <2>4
  <2>6. CASE Covers(r, p)
    BY <2>1, <2>5, <2>6, JoinLeast
  <2>7. CASE \E i \in DOMAIN out : Covers(out[i], p)
    <3>1. PICK i \in 1 .. n : Covers(out[i], p)
      BY <2>7
    <3>2. CASE i = n
      BY <2>1, <2>5, <3>1, <3>2, JoinLeast
    <3>3. CASE i # n
      BY <2>1, <2>5, <3>1, <3>3
    <3> QED
      BY <3>2, <3>3
  <2> QED
    BY <2>5, <2>6, <2>7
<1>2. CASE ~ (out # <<>> /\ Mergeable(Last(out), r))
  <2>1. new = Append(out, r)
    BY <1>2 DEF Sweep
  <2>2. /\ new \in Seq(Rect) /\ DOMAIN new = 1 .. Len(out) + 1
        /\ new[Len(out) + 1] = r
        /\ \A i \in 1 .. Len(out) : new[i] = out[i]
    BY <2>1
  <2>3. Len(out) \in Nat /\ DOMAIN out = 1 .. Len(out)
    OBVIOUS
  <2> QED
    BY <2>2, <2>3
<1> QED
  BY <1>1, <1>2

-----------------------------------------------------------------------------
(* What a binding covers.                                                  *)

\* The rectangle a binding resolves to covers exactly the live cells that
\* lie in both its intervals.
LEMMA CoversIsLies ==
    ASSUME NEW s, AxisOK(s.row), AxisOK(s.col), NEW b, NEW c \in LiveCells(s)
    PROVE  Covers(Resolved(s, b), Position(s, c)) <=>
            Lies(s.row, b.rows, c[1]) /\ Lies(s.col, b.cols, c[2])
<1> DEFINE rows == Resolve(s.row, b.rows[1], b.rows[2])
           cols == Resolve(s.col, b.cols[1], b.cols[2])
           R == {PositionOf(s.row, s.row[i].id) : i \in rows}
           C == {PositionOf(s.col, s.col[i].id) : i \in cols}
           r == PositionOf(s.row, c[1])
           k == PositionOf(s.col, c[2])
<1>1. c[1] \in LiveIds(s.row) /\ c[2] \in LiveIds(s.col)
  BY DEF LiveCells
<1>2. Position(s, c) = <<r, k>>
  BY DEF Position
<1>3. CASE rows = {} \/ cols = {}
  <2>1. Resolved(s, b) = NoRect
    BY <1>3 DEF Resolved
  <2>2. ~ (Grid <= r /\ r <= -1)
    <3>1. r \in Nat
      BY <1>1, LivePosition
    <3> HIDE DEF r
    <3> QED BY <3>1
  <2>3. ~ Covers(NoRect, <<r, k>>)
    <3> HIDE DEF r, k
    <3> QED BY <2>2 DEF NoRect, Covers
  <2> QED BY <1>2, <1>3, <2>1, <2>3 DEF Lies
<1>4. CASE rows # {} /\ cols # {}
  <2>1. Resolved(s, b) = [r0 |-> Min(R), r1 |-> Max(R), c0 |-> Min(C), c1 |-> Max(C)]
    BY <1>4 DEF Resolved
  <2>2. (Min(R) <= r /\ r <= Max(R)) <=> PlaceOf(s.row, c[1]) \in rows
    BY <1>1, <1>4, BetweenIsWithin
  <2>3. (Min(C) <= k /\ k <= Max(C)) <=> PlaceOf(s.col, c[2]) \in cols
    BY <1>1, <1>4, BetweenIsWithin
  <2> HIDE DEF R, C, r, k
  <2>4. Covers(Resolved(s, b), <<r, k>>) <=>
            (Min(R) <= r /\ r <= Max(R)) /\ (Min(C) <= k /\ k <= Max(C))
    BY <2>1 DEF Covers
  <2> QED BY <1>2, <2>2, <2>3, <2>4 DEF Lies
<1> QED BY <1>3, <1>4

-----------------------------------------------------------------------------
(* The sheet.                                                              *)

LEMMA Travels ==
    ASSUME NEW s, NEW t, SheetOK(s), AxisOK(t.row), AxisOK(t.col),
           Keeps(s.row, t.row), Keeps(s.col, t.col),
           NEW c \in Cells(s), t.formula[c] = s.formula[c]
    PROVE  LET both == LiveCells(s) \intersect LiveCells(t)
           IN Precedents(t, c) \intersect both = Precedents(s, c) \intersect both
<1> DEFINE f == s.formula[c]
           both == LiveCells(s) \intersect LiveCells(t)
<1>1. ASSUME NEW x \in both, NEW i \in DOMAIN f.bindings
      PROVE  Covers(Resolved(t, f.bindings[i]), Position(t, x))
                <=> Covers(Resolved(s, f.bindings[i]), Position(s, x))
  <2> DEFINE b == f.bindings[i]
  <2>1. /\ b.rows[1] \in IdsOf(s.row) /\ b.rows[2] \in IdsOf(s.row)
        /\ b.cols[1] \in IdsOf(s.col) /\ b.cols[2] \in IdsOf(s.col)
    BY DEF SheetOK
  <2>2. /\ x[1] \in LiveIds(s.row) \intersect LiveIds(t.row)
        /\ x[2] \in LiveIds(s.col) \intersect LiveIds(t.col)
    BY DEF LiveCells
  <2> HIDE DEF b
  <2>3. Lies(t.row, b.rows, x[1]) <=> Lies(s.row, b.rows, x[1])
    BY <2>1, <2>2 DEF Keeps, Lies
  <2>4. Lies(t.col, b.cols, x[2]) <=> Lies(s.col, b.cols, x[2])
    BY <2>1, <2>2 DEF Keeps, Lies
  <2>5. Covers(Resolved(t, b), Position(t, x))
            <=> Lies(t.row, b.rows, x[1]) /\ Lies(t.col, b.cols, x[2])
    BY CoversIsLies
  <2>6. Covers(Resolved(s, b), Position(s, x))
            <=> Lies(s.row, b.rows, x[1]) /\ Lies(s.col, b.cols, x[2])
    BY CoversIsLies DEF SheetOK
  <2> QED BY <2>3, <2>4, <2>5, <2>6 DEF b
<1>2. ASSUME NEW x \in both
      PROVE  x \in Precedents(t, c) <=> x \in Precedents(s, c)
  <2>1. x \in Precedents(t, c) <=>
            \E i \in DOMAIN f.bindings : Covers(Resolved(t, f.bindings[i]), Position(t, x))
    BY DEF Precedents
  <2>2. x \in Precedents(s, c) <=>
            \E i \in DOMAIN f.bindings : Covers(Resolved(s, f.bindings[i]), Position(s, x))
    BY DEF Precedents
  <2> QED BY <1>1, <2>1, <2>2
<1> QED BY <1>2

\* A formula is bound to identities the sheet knows.
LEMMA FormulaBound ==
    ASSUME NEW s, SheetOK(s), NEW c \in LiveCells(s), NEW f \in Formulas,
           Bindable(s, TypedAt(f, Position(s, c))),
           NEW i \in DOMAIN Formula(s, f, c).bindings
    PROVE  LET b == Formula(s, f, c).bindings[i]
           IN /\ {b.rows[1], b.rows[2]} \subseteq IdsOf(s.row)
              /\ {b.cols[1], b.cols[2]} \subseteq IdsOf(s.col)
<1> DEFINE p == Position(s, c)
           items == TypedAt(f, p)
           t == items[i].text
           at == f.items[i].at
<1>1. DOMAIN items = DOMAIN f.items /\ DOMAIN Bind(s, items) = DOMAIN items
  BY DEF TypedAt, Bind
<1>2. Formula(s, f, c).bindings = Bind(s, items)
  BY DEF Formula
<1>3. i \in DOMAIN f.items
  BY <1>1, <1>2
<1>4. p[1] \in Nat /\ p[2] \in Nat
  BY LivePosition DEF LiveCells, Position, SheetOK
<1>5. at \in [1 .. 4 -> Int]
  <2> DEFINE R == [at : [1 .. 4 -> Int], paren : BOOLEAN]
  <2>1. f.items \in Seq(R)
    BY CalcAssumption
  <2>2. \A x \in R : x.at \in [1 .. 4 -> Int]
    OBVIOUS
  <2> HIDE DEF R
  <2>3. f.items[i] \in R
    BY <1>3, <2>1
  <2> QED BY <2>2, <2>3
<1>6. t = [r0 |-> p[1] + at[1], c0 |-> p[2] + at[2], r1 |-> p[1] + at[3], c1 |-> p[2] + at[4]]
  BY <1>3 DEF TypedAt
<1>7. t.r0 \in Int /\ t.c0 \in Int /\ t.r1 \in Int /\ t.c1 \in Int
  <2>1. at[1] \in Int /\ at[2] \in Int /\ at[3] \in Int /\ at[4] \in Int
    BY <1>5
  <2> HIDE DEF p, at, t
  <2> QED BY <1>4, <1>6, <2>1
<1>8. /\ 0 <= t.r0 /\ t.r0 <= t.r1 /\ t.r1 < Cardinality(LiveIds(s.row))
      /\ 0 <= t.c0 /\ t.c0 <= t.c1 /\ t.c1 < Cardinality(LiveIds(s.col))
  BY <1>1, <1>3 DEF Bindable
<1>9. Bind(s, items)[i] = [rows |-> <<At(s.row, t.r0), At(s.row, t.r1)>>,
                           cols |-> <<At(s.col, t.c0), At(s.col, t.c1)>>]
  BY <1>1, <1>3 DEF Bind
<1> HIDE DEF t
<1>10. Cardinality(LiveIds(s.row)) \in Nat /\ Cardinality(LiveIds(s.col)) \in Nat
  <2>1. AxisOK(s.row) /\ AxisOK(s.col)
    BY DEF SheetOK
  <2>2. Len(s.row) + 1 \in Nat /\ Len(s.col) + 1 \in Nat
    BY <2>1, LenProperties DEF AxisOK
  <2> QED BY <2>1, <2>2, LiveCount, BeforeNat
<1>11. t.r0 \in Nat /\ t.r1 \in Nat /\ t.r0 < Cardinality(LiveIds(s.row))
       /\ t.c0 \in Nat /\ t.c1 \in Nat /\ t.c0 < Cardinality(LiveIds(s.col))
  BY <1>7, <1>8, <1>10
<1>12. At(s.row, t.r0) \in IdsOf(s.row) /\ At(s.row, t.r1) \in IdsOf(s.row)
  BY <1>8, <1>11, AtBound DEF SheetOK
<1>13. At(s.col, t.c0) \in IdsOf(s.col) /\ At(s.col, t.c1) \in IdsOf(s.col)
  BY <1>8, <1>11, AtBound DEF SheetOK
<1> QED BY <1>2, <1>9, <1>12, <1>13

\* Both axes keep what lies between any two identities.
Stands(s, t) == Keeps(s.row, t.row) /\ Keeps(s.col, t.col)

\* With its axes as they were, a sheet is well formed when its formulas are
\* the old ones but for one that is bound.
LEMMA SameAxes ==
    ASSUME NEW s, SheetOK(s), NEW c \in Cells(s), NEW f, NEW stored,
           \A i \in DOMAIN f.bindings :
                LET b == f.bindings[i]
                IN /\ {b.rows[1], b.rows[2]} \subseteq IdsOf(s.row)
                   /\ {b.cols[1], b.cols[2]} \subseteq IdsOf(s.col)
    PROVE  LET t == [row |-> s.row, col |-> s.col, stored |-> stored,
                     formula |-> [s.formula EXCEPT ![c] = f]]
           IN SheetOK(t) /\ Stands(s, t)
<1> DEFINE t == [row |-> s.row, col |-> s.col, stored |-> stored,
                 formula |-> [s.formula EXCEPT ![c] = f]]
<1>1. t.row = s.row /\ t.col = s.col /\ Cells(t) = Cells(s)
  BY DEF Cells
<1>2. DOMAIN t.formula = Cells(t)
  BY <1>1 DEF SheetOK
<1>3. \A x \in Cells(s) : t.formula[x] = IF x = c THEN f ELSE s.formula[x]
  BY DEF SheetOK
<1>4. t = [row |-> t.row, col |-> t.col, stored |-> t.stored, formula |-> t.formula]
  OBVIOUS
<1> HIDE DEF t
<1>5. ASSUME NEW x \in Cells(t), NEW i \in DOMAIN t.formula[x].bindings
      PROVE  LET b == t.formula[x].bindings[i]
             IN /\ {b.rows[1], b.rows[2]} \subseteq IdsOf(t.row)
                /\ {b.cols[1], b.cols[2]} \subseteq IdsOf(t.col)
  <2>1. CASE x = c
    <3>1. t.formula[x] = f
      BY <1>1, <1>3, <2>1
    <3>2. i \in DOMAIN f.bindings
      BY <1>5, <3>1
    <3> QED BY <1>1, <3>1, <3>2
  <2>2. CASE x # c
    <3>1. t.formula[x] = s.formula[x] /\ x \in Cells(s)
      BY <1>1, <1>3, <2>2
    <3>2. i \in DOMAIN s.formula[x].bindings
      BY <1>5, <3>1
    <3> QED BY <1>1, <3>1, <3>2 DEF SheetOK
  <2> QED BY <2>1, <2>2
<1>6. SheetOK(t)
  BY <1>1, <1>2, <1>4, <1>5 DEF SheetOK
<1>7. Stands(s, t)
  BY <1>1, KeepsItself DEF Stands
<1> QED BY <1>6, <1>7 DEF t

\* Nor does a sheet change otherwise when one of its axes keeps its
\* identities.
LEMMA SameIds ==
    ASSUME NEW s, SheetOK(s), NEW row, NEW col,
           AxisOK(row), row # <<>>, AxisOK(col),
           IdsOf(row) = IdsOf(s.row), IdsOf(col) = IdsOf(s.col)
    PROVE  SheetOK([row |-> row, col |-> col, stored |-> s.stored, formula |-> s.formula])
<1> DEFINE t == [row |-> row, col |-> col, stored |-> s.stored, formula |-> s.formula]
<1>1. t.row = row /\ t.col = col /\ t.formula = s.formula /\ Cells(t) = Cells(s)
  BY DEF Cells
<1>2. t = [row |-> t.row, col |-> t.col, stored |-> t.stored, formula |-> t.formula]
  OBVIOUS
<1> HIDE DEF t
<1>3. SheetOK(t)
  BY <1>1, <1>2 DEF SheetOK
<1> QED BY <1>3 DEF t

LEMMA SetCellStep ==
    ASSUME SheetOK(sheet), NEW c \in LiveCells(sheet), NEW v \in Typed, SetCell(c, v)
    PROVE  SheetOK(sheet') /\ Stands(sheet, sheet')
<1>1. c \in Cells(sheet)
  BY LiveInIds DEF LiveCells, Cells
<1>2. sheet' = [row |-> sheet.row, col |-> sheet.col,
                stored |-> [sheet.stored EXCEPT ![c] = v],
                formula |-> [sheet.formula EXCEPT ![c] = NoFormula]]
  BY DEF SetCell, SheetOK
<1>3. DOMAIN NoFormula.bindings = {}
  BY DEF NoFormula
<1> QED BY <1>1, <1>2, <1>3, SameAxes

LEMMA SetFormulaStep ==
    ASSUME SheetOK(sheet), NEW c \in LiveCells(sheet), NEW f \in Formulas, SetFormula(c, f)
    PROVE  SheetOK(sheet') /\ Stands(sheet, sheet')
<1> DEFINE new == Formula(sheet, f, c)
<1>1. c \in Cells(sheet)
  BY LiveInIds DEF LiveCells, Cells
<1>2. sheet' = [row |-> sheet.row, col |-> sheet.col, stored |-> sheet.stored,
                formula |-> [sheet.formula EXCEPT ![c] = new]]
  BY DEF SetFormula, SheetOK
<1>3. \A i \in DOMAIN new.bindings :
        LET b == new.bindings[i]
        IN /\ {b.rows[1], b.rows[2]} \subseteq IdsOf(sheet.row)
           /\ {b.cols[1], b.cols[2]} \subseteq IdsOf(sheet.col)
  BY FormulaBound DEF SetFormula
<1> HIDE DEF new
<1> QED BY <1>1, <1>2, <1>3, SameAxes

LEMMA RowLiveStep ==
    ASSUME SheetOK(sheet), NEW id \in IdsOf(sheet.row), NEW live \in BOOLEAN,
           sheet' = [sheet EXCEPT !.row = SetLive(@, id, live)]
    PROVE  SheetOK(sheet') /\ Stands(sheet, sheet')
<1> DEFINE new == SetLive(sheet.row, id, live)
<1>1. sheet' = [row |-> new, col |-> sheet.col, stored |-> sheet.stored, formula |-> sheet.formula]
  BY DEF SheetOK
<1>2. AxisOK(sheet.row) /\ sheet.row # <<>> /\ AxisOK(sheet.col)
  BY DEF SheetOK
<1>3. AxisOK(new) /\ IdsOf(new) = IdsOf(sheet.row) /\ Len(new) = Len(sheet.row)
      /\ Keeps(sheet.row, new)
  BY <1>2, SetLiveKeeps
<1> HIDE DEF new
<1>4. new # <<>>
  BY <1>2, <1>3, EmptySeq DEF AxisOK
<1>5. SheetOK(sheet')
  <2>1. SheetOK([row |-> new, col |-> sheet.col,
                 stored |-> sheet.stored, formula |-> sheet.formula])
    BY <1>2, <1>3, <1>4, SameIds
  <2> QED BY <1>1, <2>1
<1>6. sheet'.row = new /\ sheet'.col = sheet.col
  BY <1>1
<1>7. Keeps(sheet.col, sheet'.col)
  BY <1>6, KeepsItself
<1> QED BY <1>3, <1>5, <1>6, <1>7 DEF Stands

LEMMA ColLiveStep ==
    ASSUME SheetOK(sheet), NEW id \in IdsOf(sheet.col), NEW live \in BOOLEAN,
           sheet' = [sheet EXCEPT !.col = SetLive(@, id, live)]
    PROVE  SheetOK(sheet') /\ Stands(sheet, sheet')
<1> DEFINE new == SetLive(sheet.col, id, live)
<1>1. sheet' = [row |-> sheet.row, col |-> new, stored |-> sheet.stored, formula |-> sheet.formula]
  BY DEF SheetOK
<1>2. AxisOK(sheet.row) /\ sheet.row # <<>> /\ AxisOK(sheet.col)
  BY DEF SheetOK
<1>3. AxisOK(new) /\ IdsOf(new) = IdsOf(sheet.col) /\ Keeps(sheet.col, new)
  BY <1>2, SetLiveKeeps
<1> HIDE DEF new
<1>4. SheetOK(sheet')
  <2>1. SheetOK([row |-> sheet.row, col |-> new,
                 stored |-> sheet.stored, formula |-> sheet.formula])
    BY <1>2, <1>3, SameIds
  <2> QED BY <1>1, <2>1
<1>5. sheet'.col = new /\ sheet'.row = sheet.row
  BY <1>1
<1>6. Keeps(sheet.row, sheet'.row)
  BY <1>5, KeepsItself
<1> QED BY <1>3, <1>4, <1>5, <1>6 DEF Stands

LEMMA InsertRowStep ==
    ASSUME SheetOK(sheet), NEW before, InsertRow(before)
    PROVE  SheetOK(sheet') /\ Stands(sheet, sheet')
           /\ \A c \in Cells(sheet) : sheet'.formula[c] = sheet.formula[c]
<1> DEFINE id == Max(IdsOf(sheet.row)) + 1
           anchor == IF before = 0 THEN 0 ELSE At(sheet.row, before - 1)
           row == InsertAfter(sheet.row, anchor, id)
           new == {id} \X IdsOf(sheet.col)
           stored == Grown(sheet.stored, new, Blank)
           formula == Grown(sheet.formula, new, NoFormula)
<1>1. sheet' = [row |-> row, col |-> sheet.col, stored |-> stored, formula |-> formula]
  BY DEF InsertRow
<1>2. AxisOK(sheet.row) /\ sheet.row # <<>> /\ AxisOK(sheet.col)
      /\ DOMAIN sheet.formula = Cells(sheet)
  BY DEF SheetOK
<1>3. id \in Nat \ IdsOf(sheet.row)
  BY <1>2, NextIdFresh
<1> HIDE DEF id, anchor
<1>4. AxisOK(row) /\ IdsOf(row) = IdsOf(sheet.row) \cup {id} /\ Len(row) = Len(sheet.row) + 1
      /\ Keeps(sheet.row, row)
  BY <1>2, <1>3, InsertAfterKeeps
<1> HIDE DEF row
<1>5. row # <<>>
  <2>1. Len(sheet.row) \in Nat
    BY <1>2, LenProperties DEF AxisOK
  <2>2. Len(<<>>) = 0
    BY EmptySeq
  <2> QED BY <1>4, <2>1, <2>2
<1>6. Cells(sheet) \intersect new = {}
  BY <1>3 DEF Cells
<1>7. DOMAIN formula = Cells(sheet) \cup new
  BY <1>2 DEF Grown
<1>8. \A c \in Cells(sheet) : formula[c] = sheet.formula[c]
  BY <1>2, <1>6, <1>7 DEF Grown
<1>9. \A c \in new : formula[c] = NoFormula
  BY <1>7 DEF Grown
<1> HIDE DEF formula, stored
<1>10. /\ sheet'.row = row /\ sheet'.col = sheet.col /\ sheet'.formula = formula
       /\ sheet' = [row |-> sheet'.row, col |-> sheet'.col, stored |-> sheet'.stored,
                    formula |-> sheet'.formula]
  BY <1>1
<1>11. Cells(sheet') = Cells(sheet) \cup new
  BY <1>4, <1>10 DEF Cells
<1>12. ASSUME NEW c \in Cells(sheet'), NEW i \in DOMAIN sheet'.formula[c].bindings
       PROVE  LET b == sheet'.formula[c].bindings[i]
              IN /\ {b.rows[1], b.rows[2]} \subseteq IdsOf(sheet'.row)
                 /\ {b.cols[1], b.cols[2]} \subseteq IdsOf(sheet'.col)
  <2>1. CASE c \in new
    <3>1. sheet'.formula[c] = NoFormula
      BY <1>9, <1>10, <2>1
    <3>2. DOMAIN NoFormula.bindings = {}
      BY DEF NoFormula
    <3> QED BY <1>12, <3>1, <3>2
  <2>2. CASE c \in Cells(sheet)
    <3>1. sheet'.formula[c] = sheet.formula[c]
      BY <1>8, <1>10, <2>2
    <3>2. i \in DOMAIN sheet.formula[c].bindings
      BY <1>12, <3>1
    <3> QED BY <1>4, <1>10, <2>2, <3>1, <3>2 DEF SheetOK
  <2> QED BY <1>11, <2>1, <2>2
<1>13. SheetOK(sheet')
  BY <1>2, <1>4, <1>5, <1>7, <1>10, <1>11, <1>12 DEF SheetOK
<1>14. Stands(sheet, sheet')
  BY <1>4, <1>10, KeepsItself DEF Stands
<1> QED BY <1>8, <1>10, <1>13, <1>14

\* Every step leaves a sheet well formed, with what lies between any two of
\* its identities as it was.
LEMMA SheetStep ==
    ASSUME SheetOK(sheet), [Next]_vars
    PROVE  SheetOK(sheet') /\ Stands(sheet, sheet')
<1>1. ASSUME NEW c \in LiveCells(sheet), NEW v \in Typed, SetCell(c, v)
      PROVE  SheetOK(sheet') /\ Stands(sheet, sheet')
  BY <1>1, SetCellStep
<1>2. ASSUME NEW c \in LiveCells(sheet), NEW f \in Formulas, SetFormula(c, f)
      PROVE  SheetOK(sheet') /\ Stands(sheet, sheet')
  BY <1>2, SetFormulaStep
<1>3. ASSUME NEW before \in 0 .. Cardinality(LiveIds(sheet.row)), InsertRow(before)
      PROVE  SheetOK(sheet') /\ Stands(sheet, sheet')
  BY <1>3, InsertRowStep
<1>4. ASSUME NEW id \in LiveIds(sheet.row), DeleteRow(id)
      PROVE  SheetOK(sheet') /\ Stands(sheet, sheet')
  <2>1. id \in IdsOf(sheet.row)
    BY LiveInIds
  <2> QED BY <1>4, <2>1, RowLiveStep DEF DeleteRow
<1>5. ASSUME NEW id \in IdsOf(sheet.row), UndeleteRow(id)
      PROVE  SheetOK(sheet') /\ Stands(sheet, sheet')
  BY <1>5, RowLiveStep DEF UndeleteRow
<1>6. ASSUME NEW id \in LiveIds(sheet.col), DeleteCol(id)
      PROVE  SheetOK(sheet') /\ Stands(sheet, sheet')
  <2>1. id \in IdsOf(sheet.col)
    BY LiveInIds
  <2> QED BY <1>6, <2>1, ColLiveStep DEF DeleteCol
<1>7. CASE sheet' = sheet
  BY <1>7, KeepsItself DEF Stands
<1>8. Settle \/ UNCHANGED vars => sheet' = sheet
  BY DEF Settle, vars
<1> QED BY <1>1, <1>2, <1>3, <1>4, <1>5, <1>6, <1>7, <1>8 DEF Next

\* In every reachable state the sheet is well formed: its axes hold each
\* identity once and every formula is bound to identities its sheet knows.
THEOREM SheetAlwaysOK == Spec => []SheetOK(sheet)
<1>1. Init => SheetOK(sheet)
  BY CalcAssumption DEF Init
<1>2. SheetOK(sheet) /\ [Next]_vars => SheetOK(sheet)'
  BY SheetStep
<1> QED BY <1>1, <1>2, PTL DEF Spec

\* An edit never changes which of the cells that outlive it a formula reads
\* (Axis::resolve, rebind), on sheets of every size, with every formula.
THEOREM ReferencesTravel == Spec => ReadsTravel
<1> DEFINE both == LiveCells(sheet) \intersect LiveCells(sheet')
           Travelled(c) == sheet'.formula[c] = sheet.formula[c] =>
                Precedents(sheet', c) \intersect both = Precedents(sheet, c) \intersect both
<1>1. SheetOK(sheet) /\ [Next]_vars => \A c \in both : Travelled(c)
  <2> SUFFICES ASSUME SheetOK(sheet), [Next]_vars, NEW c \in both,
                      sheet'.formula[c] = sheet.formula[c]
               PROVE  Precedents(sheet', c) \intersect both = Precedents(sheet, c) \intersect both
    OBVIOUS
  <2>1. SheetOK(sheet') /\ Stands(sheet, sheet')
    BY SheetStep
  <2>2. c \in Cells(sheet)
    BY LiveInIds DEF LiveCells, Cells
  <2> QED BY <2>1, <2>2, Travels DEF SheetOK, Stands
<1>2. SheetOK(sheet) /\ [Next]_vars => [\A c \in both : Travelled(c)]_vars
  BY <1>1
<1> QED BY <1>2, SheetAlwaysOK, PTL DEF Spec, ReadsTravel

-----------------------------------------------------------------------------
(* Unions of rectangles.                                                   *)

Box == Proper \union {NoRect}
Inside(a, b) == b.r0 <= a.r0 /\ a.r1 <= b.r1 /\ b.c0 <= a.c0 /\ a.c1 <= b.c1

LEMMA BoxSides ==
    ASSUME NEW a \in Box
    PROVE  /\ a = [r0 |-> a.r0, r1 |-> a.r1, c0 |-> a.c0, c1 |-> a.c1]
           /\ a.r0 \in 0 .. Grid /\ a.r1 \in -1 .. Grid - 1
           /\ a.c0 \in 0 .. Grid /\ a.c1 \in -1 .. Grid - 1
           /\ a # NoRect <=> a.r0 <= a.r1
           /\ a # NoRect <=> a.c0 <= a.c1
           /\ a # NoRect => a.r0 \in Coord /\ a.r1 \in Coord /\ a.c0 \in Coord /\ a.c1 \in Coord
           /\ a = NoRect => a.r0 = Grid /\ a.c0 = Grid /\ a.r1 = -1 /\ a.c1 = -1
<1>1. Grid \in Nat \ {0}
  BY RectanglesAssumption
<1>2. CASE a = NoRect
  BY <1>1, <1>2 DEF NoRect
<1>3. CASE a \in Proper
  <2>1. a \in Rect /\ a.r0 <= a.r1 /\ a.c0 <= a.c1
    BY <1>3 DEF Proper
  <2>2. a.r0 \in Coord /\ a.r1 \in Coord /\ a.c0 \in Coord /\ a.c1 \in Coord
    BY <2>1 DEF Rect
  <2>3. a = [r0 |-> a.r0, r1 |-> a.r1, c0 |-> a.c0, c1 |-> a.c1]
    BY <2>1 DEF Rect
  <2>4. a # NoRect
    BY <1>1, <2>1 DEF NoRect
  <2> QED BY <1>1, <2>1, <2>2, <2>3, <2>4 DEF Coord
<1> QED BY <1>2, <1>3 DEF Box

\* The union of two holds both, and is empty when both are (Rect::union).
LEMMA JoinHolds ==
    ASSUME NEW a \in Box, NEW b \in Box
    PROVE  /\ Join(a, b) \in Box
           /\ Inside(a, Join(a, b)) /\ Inside(b, Join(a, b))
           /\ Join(a, b) = NoRect => a = NoRect /\ b = NoRect
<1> DEFINE j == Join(a, b)
<1>1. Grid \in Nat \ {0}
  BY RectanglesAssumption
<1>2. /\ j.r0 = Lower(a.r0, b.r0) /\ j.r1 = Upper(a.r1, b.r1)
      /\ j.c0 = Lower(a.c0, b.c0) /\ j.c1 = Upper(a.c1, b.c1)
      /\ j = [r0 |-> j.r0, r1 |-> j.r1, c0 |-> j.c0, c1 |-> j.c1]
  BY DEF Join
<1> HIDE DEF j
<1>3. /\ a.r0 \in 0 .. Grid /\ a.r1 \in -1 .. Grid - 1 /\ a.c0 \in 0 .. Grid /\ a.c1 \in -1 .. Grid - 1
      /\ b.r0 \in 0 .. Grid /\ b.r1 \in -1 .. Grid - 1 /\ b.c0 \in 0 .. Grid /\ b.c1 \in -1 .. Grid - 1
  BY BoxSides
<1>4. Inside(a, j) /\ Inside(b, j)
  BY <1>1, <1>2, <1>3 DEF Inside, Lower, Upper
<1>5. CASE a = NoRect /\ b = NoRect
  <2>1. j = NoRect
    BY <1>1, <1>2, <1>5 DEF NoRect, Lower, Upper
  <2> QED BY <1>4, <1>5, <2>1 DEF Box, j
<1>6. CASE a # NoRect \/ b # NoRect
  <2>1. /\ j.r0 \in Coord /\ j.r1 \in Coord /\ j.c0 \in Coord /\ j.c1 \in Coord
        /\ j.r0 <= j.r1 /\ j.c0 <= j.c1
    <3>1. \/ a.r0 \in Coord /\ a.r1 \in Coord /\ a.c0 \in Coord /\ a.c1 \in Coord
             /\ a.r0 <= a.r1 /\ a.c0 <= a.c1
          \/ b.r0 \in Coord /\ b.r1 \in Coord /\ b.c0 \in Coord /\ b.c1 \in Coord
             /\ b.r0 <= b.r1 /\ b.c0 <= b.c1
      BY <1>6, BoxSides
    <3> QED BY <1>1, <1>2, <1>3, <3>1 DEF Lower, Upper, Coord
  <2>2. j \in Proper
    BY <1>2, <2>1 DEF Proper, Rect
  <2>3. j # NoRect
    BY <1>1, <2>1 DEF NoRect
  <2> QED BY <1>4, <2>2, <2>3 DEF Box, j
<1> QED BY <1>5, <1>6

LEMMA InsideTwice ==
    ASSUME NEW a \in Box, NEW b \in Box, NEW c \in Box, Inside(a, b), Inside(b, c)
    PROVE  Inside(a, c)
<1>1. /\ a.r0 \in Int /\ a.r1 \in Int /\ a.c0 \in Int /\ a.c1 \in Int
      /\ b.r0 \in Int /\ b.r1 \in Int /\ b.c0 \in Int /\ b.c1 \in Int
      /\ c.r0 \in Int /\ c.r1 \in Int /\ c.c0 \in Int /\ c.c1 \in Int
  BY BoxSides
<1> QED BY <1>1 DEF Inside

\* The union of finitely many holds each, and is empty when all are.
LEMMA JoinAllHolds ==
    ASSUME NEW S, IsFiniteSet(S), S \subseteq Box
    PROVE  /\ JoinAll(S) \in Box
           /\ \A r \in S : Inside(r, JoinAll(S))
           /\ JoinAll(S) = NoRect => \A r \in S : r = NoRect
<1> DEFINE it == CHOOSE f : f = [s \in SUBSET S |->
                    IF s = {} THEN NoRect
                    ELSE Join(CHOOSE x \in s : TRUE, f[s \ {CHOOSE x \in s : TRUE}])]
           ch == [s \in SUBSET S |-> CHOOSE x \in s : TRUE]
           g == [x \in S |-> [d \in Box |-> Join(x, d)]]
<1>1. JoinAll(S) = it[S]
  BY Zenon DEF JoinAll, FoldSet, MapThenFoldSet
<1>2. Chooses(ch, S)
  BY DEF Chooses
<1>3. \A x \in S : \A d \in Box : g[x][d] = Join(x, d) /\ g[x][d] \in Box
  BY JoinHolds
<1>4. \A s \in SUBSET S : ch[s] = CHOOSE x \in s : TRUE
  OBVIOUS
<1> HIDE DEF g, ch
<1>5. NoRect \in Box
  BY DEF Box
<1>6. PICK h : Folds(h, S, Box, NoRect, ch, g)
  BY <1>2, <1>3, <1>5, FoldIsMade
<1>7. h \in [SUBSET S -> Box]
  BY <1>6 DEF Folds
<1>8. ASSUME NEW s \in SUBSET S
      PROVE  h[s] = IF s = {} THEN NoRect
                    ELSE Join(CHOOSE x \in s : TRUE, h[s \ {CHOOSE x \in s : TRUE}])
  <2>1. CASE s = {}
    BY <1>6, <2>1 DEF Folds
  <2>2. CASE s # {}
    <3>1. h[s] = g[ch[s]][h[s \ {ch[s]}]]
      BY <1>6, <2>2 DEF Folds
    <3>2. ch[s] \in S /\ s \ {ch[s]} \in SUBSET S
      BY <1>2, <2>2 DEF Chooses
    <3>3. h[s] = Join(ch[s], h[s \ {ch[s]}])
      BY <1>3, <1>7, <3>1, <3>2
    <3> QED BY <1>4, <2>2, <3>3
  <2> QED BY <2>1, <2>2
<1>9. h = [s \in SUBSET S |-> IF s = {} THEN NoRect
                    ELSE Join(CHOOSE x \in s : TRUE, h[s \ {CHOOSE x \in s : TRUE}])]
  BY <1>7, <1>8
<1>10. it = [s \in SUBSET S |-> IF s = {} THEN NoRect
                    ELSE Join(CHOOSE x \in s : TRUE, it[s \ {CHOOSE x \in s : TRUE}])]
  BY <1>9
<1> HIDE DEF it
<1>11. ASSUME NEW s \in SUBSET S
       PROVE  it[s] = IF s = {} THEN NoRect ELSE Join(ch[s], it[s \ {ch[s]}])
  BY <1>4, <1>10
<1> DEFINE Holds(s) == /\ it[s] \in Box /\ \A r \in s : Inside(r, it[s])
                       /\ it[s] = NoRect => \A r \in s : r = NoRect
           T == {s \in SUBSET S : Holds(s)}
<1>12. {} \in T
  <2>1. it[{}] = NoRect
    BY <1>11
  <2> QED BY <1>5, <2>1
<1>13. ASSUME NEW s \in SUBSET S, s # {}, s \ {ch[s]} \in T
       PROVE  s \in T
  <2> DEFINE x == ch[s]
             r == s \ {x}
             d == it[r]
  <2>1. x \in S /\ x \in Box /\ s = r \union {x}
    BY <1>2, <1>13 DEF Chooses
  <2>2. d \in Box /\ (\A y \in r : Inside(y, d)) /\ (d = NoRect => \A y \in r : y = NoRect)
    BY <1>13
  <2>3. it[s] = Join(x, d)
    BY <1>11, <1>13
  <2>4. r \subseteq Box
    OBVIOUS
  <2> HIDE DEF x, r, d
  <2>5. Join(x, d) \in Box /\ Inside(x, Join(x, d)) /\ Inside(d, Join(x, d))
        /\ (Join(x, d) = NoRect => x = NoRect /\ d = NoRect)
    BY <2>1, <2>2, JoinHolds
  <2>6. \A y \in r : Inside(y, Join(x, d))
    BY <2>2, <2>4, <2>5, InsideTwice
  <2>7. Holds(s)
    BY <2>1, <2>2, <2>3, <2>5, <2>6
  <2> HIDE DEF Holds
  <2> QED BY <2>7
<1>14. S \in T
  <2> HIDE DEF T
  <2> QED BY <1>2, <1>12, <1>13, ByChoice
<1> QED BY <1>1, <1>14

\* A rectangle holds the cell that its points do.
LEMMA PointInside ==
    ASSUME NEW p \in Coord \X Coord
    PROVE  /\ Point(p) \in Proper /\ Point(p) # NoRect
           /\ \A r : Covers(r, p) <=> Inside(Point(p), r)
<1>1. Point(p) = [r0 |-> p[1], r1 |-> p[1], c0 |-> p[2], c1 |-> p[2]]
      /\ p[1] \in Coord /\ p[2] \in Coord
  BY DEF Point
<1>2. Point(p) \in Rect /\ Point(p) # NoRect
  BY <1>1, RectanglesAssumption DEF Rect, NoRect, Coord
<1>3. Point(p).r0 <= Point(p).r1 /\ Point(p).c0 <= Point(p).c1
  BY <1>1 DEF Coord
<1> QED BY <1>1, <1>2, <1>3 DEF Proper, Covers, Inside

\* The bounding rectangle of cells covers them.
LEMMA BoundingCovers ==
    ASSUME NEW P, IsFiniteSet(P), P \subseteq Coord \X Coord
    PROVE  /\ Bounding(P) \in Box
           /\ \A p \in P : Covers(Bounding(P), p) /\ Bounding(P) # NoRect
<1> DEFINE S == {Point(p) : p \in P}
<1>1. IsFiniteSet(S) /\ S \subseteq Box
  <2> DEFINE f == [p \in P |-> Point(p)]
  <2>1. S = {f[p] : p \in P}
    OBVIOUS
  <2>2. IsFiniteSet({f[p] : p \in P})
    <3> HIDE DEF f
    <3> QED BY ImageFinite
  <2> QED BY <2>1, <2>2, PointInside DEF Box
<1>2. \A p \in P : Point(p) \in S /\ Point(p) # NoRect
  BY PointInside
<1>3. Bounding(P) = JoinAll(S)
  BY DEF Bounding
<1> HIDE DEF S
<1>4. /\ JoinAll(S) \in Box
      /\ \A r \in S : Inside(r, JoinAll(S))
      /\ JoinAll(S) = NoRect => \A r \in S : r = NoRect
  BY <1>1, JoinAllHolds
<1> QED BY <1>2, <1>3, <1>4, PointInside

-----------------------------------------------------------------------------
(* What a formula makes of the values it reads.                            *)

Value == Number \union {RefError, CircError}
Content == Value \union {Blank}

\* Added up, values are a number.
LEMMA TotalIsInt ==
    ASSUME NEW values \in Seq(Content)
    PROVE  FoldLeft(LAMBDA x, v : IF v = Blank THEN x ELSE x + v, 0, values) \in Int
<1> DEFINE n == Len(values)
           Plus(x, v) == IF v = Blank THEN x ELSE x + v
           it == CHOOSE f : f = [s \in SUBSET (1 .. n) |->
                    IF s = {} THEN 0 ELSE Plus(f[s \ {Max(s)}], values[Max(s)])]
           g == [i \in 1 .. n |-> [x \in Int |-> Plus(x, values[i])]]
<1>1. n \in Nat /\ DOMAIN values = 1 .. n
  OBVIOUS
<1>2. FoldLeft(LAMBDA x, v : IF v = Blank THEN x ELSE x + v, 0, values) = it[1 .. n]
  BY Zenon, <1>1 DEF FoldLeft, MapThenFoldSet
<1>3. \A i \in 1 .. n : \A x \in Int : g[i][x] = Plus(x, values[i]) /\ g[i][x] \in Int
  <2>1. \A v \in Content : v \in Int
    BY ModAssumption DEF Content, Value, Number, RefError, CircError, Blank
  <2>2. \A i \in 1 .. n : values[i] \in Int
    BY <2>1
  <2> QED BY <2>2
<1> HIDE DEF g, n, Plus
<1>4. PICK h : Solves(h, Int, 0, n, g)
  <2> DEFINE D == Int
             zero == 0
  <2>1. zero \in D /\ n \in Nat /\ \A i \in 1 .. n : \A x \in D : g[i][x] \in D
    BY <1>1, <1>3
  <2> HIDE DEF D, zero, it
  <2>2. \E h : Solves(h, D, zero, n, g)
    BY <2>1, FoldSolved
  <2> QED BY <2>2 DEF D, zero
<1>5. h \in [SUBSET (1 .. n) -> Int]
      /\ \A s \in SUBSET (1 .. n) :
            h[s] = IF s = {} THEN 0 ELSE Plus(h[s \ {Max(s)}], values[Max(s)])
  BY <1>3, <1>4 DEF Solves
<1>6. it \in [SUBSET (1 .. n) -> Int]
  <2>1. h = [s \in SUBSET (1 .. n) |->
                IF s = {} THEN 0 ELSE Plus(h[s \ {Max(s)}], values[Max(s)])]
    BY <1>5
  <2>2. it = [s \in SUBSET (1 .. n) |->
                IF s = {} THEN 0 ELSE Plus(it[s \ {Max(s)}], values[Max(s)])]
    BY <2>1
  <2> HIDE DEF it
  <2> DEFINE T == {s \in SUBSET (1 .. n) : it[s] \in Int}
  <2>3. {} \in T
    BY <2>2
  <2>4. ASSUME NEW s \in SUBSET (1 .. n), s # {}, s \ {Max(s)} \in T
        PROVE  s \in T
    <3>1. Max(s) \in 1 .. n
      BY <1>1, <2>4, LargestInside
    <3>2. it[s \ {Max(s)}] \in Int
      BY <2>4
    <3>3. it[s] = Plus(it[s \ {Max(s)}], values[Max(s)])
      BY <2>2, <2>4
    <3>4. Plus(it[s \ {Max(s)}], values[Max(s)]) \in Int
      BY <1>3, <3>1, <3>2
    <3> QED BY <3>3, <3>4
  <2>5. \A s \in SUBSET (1 .. n) : s \in T
    <3> HIDE DEF T
    <3> QED BY <1>1, <2>3, <2>4, ByLargest
  <2> QED BY <2>2, <2>5
<1>7. 1 .. n \in SUBSET (1 .. n)
  OBVIOUS
<1>8. it[1 .. n] \in Int
  <2> HIDE DEF it
  <2> QED BY <1>6, <1>7
<1> QED BY Zenon, <1>2, <1>8

\* A result is a number or one of the errors.
LEMMA CombineTyped ==
    ASSUME NEW kind, NEW values \in Seq(Content)
    PROVE  Combine(kind, values) \in Value
<1> DEFINE errors == {i \in DOMAIN values : IsError(values[i])}
           total == FoldLeft(LAMBDA n, v : IF v = Blank THEN n ELSE n + v, 0, values)
<1>1. total \in Int
  BY TotalIsInt
<1>2. errors # {} => values[Min(errors)] \in Value
  <2>1. errors \subseteq Nat
    OBVIOUS
  <2>2. ASSUME errors # {}
        PROVE  Min(errors) \in errors
    <3> HIDE DEF errors
    <3> QED BY <2>1, <2>2, MinIsLeast
  <2> QED BY <2>2 DEF IsError, Value
<1>3. 0 \in Value /\ 1 \in Value
  BY ModAssumption DEF Value, Number
<1>4. \A x \in Int : x % Mod \in Value
  BY ModAssumption DEF Value, Number
<1>5. Combine(kind, values) =
        CASE errors # {} -> IF kind = "guard" THEN 0 ELSE values[Min(errors)]
          [] kind = "sum" -> (total + 1) % Mod
          [] kind = "sign" -> IF total > 0 THEN 1 ELSE 0
          [] OTHER -> total % Mod
  BY DEF Combine
<1> HIDE DEF total, errors
<1>6. total + 1 \in Int
  BY <1>1
<1>7. CASE errors # {}
  <2>1. \/ Combine(kind, values) = IF kind = "guard" THEN 0 ELSE values[Min(errors)]
        \/ Combine(kind, values) \in {(total + 1) % Mod, 0, 1, total % Mod}
    BY <1>5, <1>7
  <2> QED BY <1>1, <1>2, <1>3, <1>4, <1>6, <1>7, <2>1
<1>8. CASE errors = {}
  <2>1. Combine(kind, values) \in {(total + 1) % Mod, 0, 1, total % Mod}
    BY <1>5, <1>8
  <2> QED BY <1>1, <1>3, <1>4, <1>6, <2>1
<1> QED BY <1>7, <1>8

\* Put one after the other, sequences of contents are one.
LEMMA FlatTyped ==
    ASSUME NEW S, NEW seqs \in Seq(Seq(S))
    PROVE  FlattenSeq(seqs) \in Seq(S)
<1> DEFINE n == Len(seqs)
           flat == CHOOSE f : f = [i \in 1 .. n |->
                        IF i = 1 THEN seqs[i] ELSE f[i - 1] \o seqs[i]]
           g == [i \in 1 .. n |-> [d \in Seq(S) |-> d \o seqs[i]]]
           none == <<>>
           D == Seq(S)
<1>1. n \in Nat /\ \A i \in 1 .. n : seqs[i] \in Seq(S)
  OBVIOUS
<1>2. FlattenSeq(seqs) = IF n = 0 THEN seqs ELSE flat[n]
  BY Zenon DEF FlattenSeq
<1>3. \A i \in 1 .. n : \A d \in D : g[i][d] = d \o seqs[i] /\ g[i][d] \in D
  BY <1>1
<1>4. none \in D /\ \A d \in D : none \o d = d
  OBVIOUS
<1>5. CASE n = 0
  <2>1. seqs = <<>>
    BY <1>5
  <2> QED BY <1>2, <1>5, <2>1
<1>6. CASE n # 0
  <2> HIDE DEF g, flat, n, none, D
  <2>1. \E h, run : /\ Folds(h, 1 .. n, D, none, Largest(n), g)
                    /\ Runs(run, D, none, n, g) /\ run[n] = h[1 .. n]
    <3>1. n \in Nat /\ none \in D
      BY <1>1, <1>4
    <3>2. \A i \in 1 .. n : \A d \in D : g[i][d] \in D
      BY <1>3
    <3> QED BY Zenon, <3>1, <3>2, FoldRuns
  <2>2. PICK run : Runs(run, D, none, n, g)
    BY <2>1
  <2>3. run \in [0 .. n -> D] /\ run[0] = none /\ \A i \in 1 .. n : run[i] = g[i][run[i - 1]]
    BY <2>2 DEF Runs
  <2> DEFINE f == [i \in 1 .. n |-> run[i]]
  <2>4. f \in [1 .. n -> D]
    BY <1>1, <2>3
  <2>5. ASSUME NEW i \in 1 .. n
        PROVE  f[i] = IF i = 1 THEN seqs[i] ELSE f[i - 1] \o seqs[i]
    <3>1. i - 1 \in 0 .. n
      BY <1>1
    <3>2. run[i - 1] \in D
      BY <2>3, <3>1
    <3>3. f[i] = run[i - 1] \o seqs[i]
      BY <1>3, <2>3, <3>2
    <3>4. CASE i = 1
      <4>1. run[i - 1] = none
        BY <2>3, <3>4
      <4>2. seqs[i] \in D
        BY <1>1 DEF D
      <4> QED BY <1>4, <3>3, <3>4, <4>1, <4>2
    <3>5. CASE i # 1
      <4>1. f[i - 1] = run[i - 1]
        BY <1>1, <3>5
      <4> QED BY <3>3, <3>5, <4>1
    <3> QED BY <3>4, <3>5
  <2>6. f = [i \in 1 .. n |-> IF i = 1 THEN seqs[i] ELSE f[i - 1] \o seqs[i]]
    BY <2>5
  <2> HIDE DEF f
  <2>7. flat = [i \in 1 .. n |-> IF i = 1 THEN seqs[i] ELSE flat[i - 1] \o seqs[i]]
    BY <2>6 DEF flat
  <2> DEFINE T == {k \in 0 .. n : k # 0 => flat[k] \in D}
  <2>8. 0 \in T
    BY <1>1
  <2>9. ASSUME NEW k \in 0 .. n - 1, k \in T
        PROVE  k + 1 \in T
    <3>1. k + 1 \in 1 .. n /\ k + 1 \in 0 .. n /\ (k + 1) - 1 = k
      BY <1>1
    <3>2. seqs[k + 1] \in D
      BY <1>1, <3>1 DEF D
    <3>3. CASE k = 0
      <4>1. flat[k + 1] = seqs[k + 1]
        BY <2>7, <3>1, <3>3
      <4> QED BY <3>1, <3>2, <4>1
    <3>4. CASE k # 0
      <4>1. flat[k] \in D
        BY <2>9, <3>4
      <4>2. k + 1 # 1
        BY <3>4
      <4>3. flat[k + 1] = flat[k] \o seqs[k + 1]
        BY <2>7, <3>1, <4>2
      <4>4. flat[k] \o seqs[k + 1] \in D
        BY <3>2, <4>1 DEF D
      <4> QED BY <3>1, <4>3, <4>4
    <3> QED BY <3>3, <3>4
  <2>10. 0 .. n \subseteq T
    <3> HIDE DEF T
    <3> QED BY <1>1, <2>8, <2>9, CountsUp
  <2>11. n \in 0 .. n
    BY <1>1
  <2>12. flat[n] \in D
    BY <1>6, <2>10, <2>11
  <2> QED BY <1>2, <1>6, <2>12 DEF D
<1> QED BY <1>5, <1>6

\* A sheet as the engine may be given it.
Grounded(s) ==
    /\ AxisOK(s.row) /\ AxisOK(s.col)
    /\ s.stored \in [Cells(s) -> Number \union {Blank}]

Cell == Nat \X Nat
Results(results, S) == results \in [S -> Value \union {Unset}]

\* What a cell is read as has a value, whether or not its formula has been
\* evaluated and whether or not it is on the sheet (EngineGrid::read).
LEMMA ReadTyped ==
    ASSUME NEW s, Grounded(s), NEW S, NEW results, Results(results, S), NEW p \in Cell
    PROVE  GridRead(s, results, p) \in Content
<1>1. CASE p \in DOMAIN results /\ results[p] # Unset
  <2>1. results[p] \in Value
    BY <1>1 DEF Results
  <2> QED BY <1>1, <2>1 DEF GridRead, Content
<1>2. CASE ~ (p \in DOMAIN results /\ results[p] # Unset) /\ OnGrid(s, p)
  <2>1. p[1] \in Nat /\ p[2] \in Nat
        /\ p[1] < Cardinality(LiveIds(s.row)) /\ p[2] < Cardinality(LiveIds(s.col))
    BY <1>2 DEF OnGrid, Cell
  <2>2. At(s.row, p[1]) \in IdsOf(s.row) /\ At(s.col, p[2]) \in IdsOf(s.col)
    BY <2>1, AtBound DEF Grounded
  <2>3. CellAt(s, p) \in Cells(s)
    BY <2>2 DEF CellAt, Cells
  <2>4. s.stored[CellAt(s, p)] \in Number \union {Blank}
    BY <2>3 DEF Grounded
  <2>5. GridRead(s, results, p) = s.stored[CellAt(s, p)]
    BY <1>2 DEF GridRead
  <2> QED BY <2>4, <2>5 DEF Content, Value
<1>3. CASE ~ (p \in DOMAIN results /\ results[p] # Unset) /\ ~ OnGrid(s, p)
  <2>1. GridRead(s, results, p) = RefError
    BY <1>3 DEF GridRead
  <2> QED BY <2>1 DEF Content, Value
<1> QED BY <1>1, <1>2, <1>3

\* A rectangle is read cell by cell.
LEMMA ReadingTyped ==
    ASSUME NEW r \in Proper
    PROVE  Reading(r) \in Seq(Cell)
<1> DEFINE w == r.c1 - r.c0 + 1
           h == r.r1 - r.r0 + 1
           size == h * w
<1>1. r.r0 \in Nat /\ r.r1 \in Nat /\ r.c0 \in Nat /\ r.c1 \in Nat
      /\ r.r0 <= r.r1 /\ r.c0 <= r.c1
  BY ProperBounds
<1>2. w \in Nat \ {0} /\ h \in Nat \ {0}
  BY <1>1
<1>3. Reading(r) = [i \in 1 .. size |-> <<r.r0 + (i - 1) \div w, r.c0 + ((i - 1) % w)>>]
  BY DEF Reading
<1>4. size \in Nat
  <2> HIDE DEF w, h
  <2> QED BY <1>2
<1> HIDE DEF size, w
<1>5. ASSUME NEW i \in 1 .. size
      PROVE  <<r.r0 + (i - 1) \div w, r.c0 + ((i - 1) % w)>> \in Cell
  <2>1. i - 1 \in Nat
    BY <1>4
  <2>2. (i - 1) % w \in Nat
    BY <1>2, <2>1
  <2>3. (i - 1) \div w \in Nat
    <3> DEFINE k == i - 1
    <3> HIDE DEF k
    <3>1. k \in Nat /\ w \in Nat \ {0}
      BY <1>2, <2>1 DEF k
    <3>2. k \div w \in Int /\ k % w \in 0 .. w - 1 /\ k = w * (k \div w) + (k % w)
      BY <3>1
    <3>3. k \div w >= 0
      BY <3>1
    <3>4. k \div w \in Nat
      BY <3>2, <3>3
    <3> QED BY <3>4 DEF k
  <2> QED BY <1>1, <2>2, <2>3 DEF Cell
<1> QED BY <1>3, <1>4, <1>5

ValueOf(s, results, kind, refs) == Evaluate(kind, refs, LAMBDA q : GridRead(s, results, q))

\* A formula has a value, whatever it reads (evaluate).
LEMMA EvaluateTyped ==
    ASSUME NEW s, Grounded(s), NEW S, NEW results, Results(results, S),
           NEW kind, NEW refs \in Seq(Box)
    PROVE  ValueOf(s, results, kind, refs) \in Value
<1> DEFINE Part(r) == IF r = NoRect THEN <<RefError>>
                      ELSE [j \in DOMAIN Reading(r) |-> GridRead(s, results, Reading(r)[j])]
           parts == [i \in DOMAIN refs |-> Part(refs[i])]
<1>1. ValueOf(s, results, kind, refs) = Combine(kind, FlattenSeq(parts))
  BY Zenon DEF ValueOf, Evaluate
<1>2. ASSUME NEW r \in Box
      PROVE  Part(r) \in Seq(Content)
  <2>1. CASE r = NoRect
    <3>1. RefError \in Content
      BY DEF Content, Value
    <3>2. <<RefError>> \in Seq(Content)
      BY <3>1
    <3> QED BY <2>1, <3>2
  <2>2. CASE r # NoRect
    <3> DEFINE q == Reading(r)
    <3>1. q \in Seq(Cell)
      BY <2>2, ReadingTyped DEF Box
    <3> HIDE DEF q
    <3>2. DOMAIN q = 1 .. Len(q) /\ Len(q) \in Nat /\ \A j \in DOMAIN q : q[j] \in Cell
      BY <3>1
    <3>3. \A j \in DOMAIN q : GridRead(s, results, q[j]) \in Content
      BY <3>2, ReadTyped
    <3>4. [j \in DOMAIN q |-> GridRead(s, results, q[j])] \in Seq(Content)
      BY <3>2, <3>3
    <3> QED BY <2>2, <3>4 DEF q
  <2> QED BY <2>1, <2>2
<1>3. parts \in Seq(Seq(Content))
  <2>1. DOMAIN refs = 1 .. Len(refs) /\ Len(refs) \in Nat /\ \A i \in DOMAIN refs : refs[i] \in Box
    OBVIOUS
  <2>2. \A i \in DOMAIN refs : Part(refs[i]) \in Seq(Content)
    BY <1>2, <2>1
  <2> HIDE DEF Part
  <2> QED BY <2>1, <2>2
<1> HIDE DEF parts
<1>4. Combine(kind, FlattenSeq(parts)) \in Value
  BY <1>3, FlatTyped, CombineTyped
<1> QED BY Zenon, <1>1, <1>4

-----------------------------------------------------------------------------
(* Where live cells are, and what references resolve to.                   *)

Fits(axis) == AxisOK(axis) /\ Cardinality(LiveIds(axis)) <= Grid

\* A live place has an ordinal of the grid, and no two have the same.
LEMMA LivePlaced ==
    ASSUME NEW axis, Fits(axis)
    PROVE  /\ \A i \in DOMAIN axis : axis[i].live => Before(axis, i) \in Coord
           /\ \A i, j \in DOMAIN axis :
                axis[i].live /\ axis[j].live /\ Before(axis, i) = Before(axis, j) => i = j
<1>1. Len(axis) \in Nat /\ DOMAIN axis = 1 .. Len(axis)
  BY LenProperties DEF AxisOK, Fits
<1>2. Cardinality(LiveIds(axis)) = Before(axis, Len(axis) + 1)
  BY LiveCount DEF Fits
<1>3. ASSUME NEW i \in DOMAIN axis, axis[i].live
      PROVE  Before(axis, i) \in Coord
  <2>1. Before(axis, i) < Before(axis, Len(axis) + 1)
    BY <1>1, <1>3, BeforeStrict
  <2>2. Before(axis, i) \in Nat /\ Before(axis, Len(axis) + 1) \in Nat
    BY <1>1, BeforeNat
  <2> QED BY <1>2, <2>1, <2>2, RectanglesAssumption DEF Fits, Coord
<1>4. ASSUME NEW i \in DOMAIN axis, NEW j \in DOMAIN axis, axis[i].live, i < j
      PROVE  Before(axis, i) # Before(axis, j)
  <2>1. i \in Nat \ {0} /\ j \in Nat
    BY <1>1
  <2>2. Before(axis, i) < Before(axis, j)
    BY <1>4, <2>1, BeforeStrict
  <2>3. Before(axis, i) \in Nat /\ Before(axis, j) \in Nat
    BY <2>1, BeforeNat
  <2> QED BY <2>2, <2>3
<1>5. \A i, j \in DOMAIN axis : i = j \/ i < j \/ j < i
  BY <1>1
<1> QED BY <1>3, <1>4, <1>5

LEMMA LiveOrdinal ==
    ASSUME NEW axis, Fits(axis)
    PROVE  /\ \A id \in LiveIds(axis) : PositionOf(axis, id) \in Coord
           /\ \A a, b \in LiveIds(axis) : PositionOf(axis, a) = PositionOf(axis, b) => a = b
<1>1. ASSUME NEW id \in LiveIds(axis)
      PROVE  /\ PlaceOf(axis, id) \in DOMAIN axis /\ axis[PlaceOf(axis, id)].id = id
             /\ axis[PlaceOf(axis, id)].live
             /\ PositionOf(axis, id) = Before(axis, PlaceOf(axis, id))
  <2>1. id \in IdsOf(axis) /\ axis[PlaceOf(axis, id)].live
    BY LivePlace DEF Fits
  <2> QED BY <2>1, IdAtPlace DEF PositionOf
<1> QED BY <1>1, LivePlaced

\* The ordinals an interval resolves to.
LEMMA IntervalOrdinals ==
    ASSUME NEW axis, Fits(axis), NEW a, NEW b, Resolve(axis, a, b) # {}
    PROVE  LET P == {PositionOf(axis, axis[i].id) : i \in Resolve(axis, a, b)}
           IN Min(P) \in Coord /\ Max(P) \in Coord /\ Min(P) <= Max(P)
<1> DEFINE S == Resolve(axis, a, b)
           P == {PositionOf(axis, axis[i].id) : i \in S}
<1>1. \A i \in S : i \in DOMAIN axis /\ axis[i].live
  <2>1. S \subseteq DOMAIN axis
    BY ResolveConvex DEF Fits
  <2>2. \A i \in S : axis[i].live
    BY ResolvedPlaces
  <2> QED BY <2>1, <2>2
<1>2. \A i \in S : PositionOf(axis, axis[i].id) \in Coord
  <2>1. \A i \in S : PositionOf(axis, axis[i].id) = Before(axis, i)
    BY <1>1, PlaceIs DEF Fits, PositionOf
  <2> QED BY <1>1, <2>1, LivePlaced
<1>3. P \subseteq Coord /\ P # {}
  BY <1>2
<1> HIDE DEF P
<1>4. P \subseteq Nat /\ Grid - 1 \in Nat /\ \A y \in P : y <= Grid - 1
  BY <1>3, RectanglesAssumption DEF Coord
<1>5. Min(P) \in P /\ \A y \in P : Min(P) <= y
  BY <1>3, <1>4, MinIsLeast
<1>6. Max(P) \in P
  BY <1>3, <1>4, MaxIsGreatest
<1> QED BY <1>3, <1>5, <1>6 DEF P

\* A reference is a rectangle of the grid, or lost.
LEMMA ResolvedTyped ==
    ASSUME NEW s, Fits(s.row), Fits(s.col), NEW b
    PROVE  Resolved(s, b) \in Box
<1> DEFINE rows == Resolve(s.row, b.rows[1], b.rows[2])
           cols == Resolve(s.col, b.cols[1], b.cols[2])
           R == {PositionOf(s.row, s.row[i].id) : i \in rows}
           C == {PositionOf(s.col, s.col[i].id) : i \in cols}
<1>1. CASE rows = {} \/ cols = {}
  BY <1>1 DEF Resolved, Box
<1>2. CASE rows # {} /\ cols # {}
  <2>1. Resolved(s, b) = [r0 |-> Min(R), r1 |-> Max(R), c0 |-> Min(C), c1 |-> Max(C)]
    BY <1>2 DEF Resolved
  <2>2. Min(R) \in Coord /\ Max(R) \in Coord /\ Min(R) <= Max(R)
    BY <1>2, IntervalOrdinals
  <2>3. Min(C) \in Coord /\ Max(C) \in Coord /\ Min(C) <= Max(C)
    BY <1>2, IntervalOrdinals
  <2> HIDE DEF R, C
  <2> QED BY <2>1, <2>2, <2>3 DEF Box, Proper, Rect
<1> QED BY <1>1, <1>2

\* A sheet that fits the grid, of values and formulas that name cells of it.
LEMMA TypedFits ==
    ASSUME NEW s, SheetOK(s), SheetTyped(s)
    PROVE  Fits(s.row) /\ Fits(s.col) /\ Grounded(s)
<1>1. AxisOK(s.row) /\ AxisOK(s.col)
  BY DEF SheetOK
<1>2. Cardinality(LiveIds(s.row)) <= Grid
  <2>1. LiveIds(s.row) \in SUBSET (1 .. MaxRow)
    BY LiveInIds DEF SheetTyped
  <2>2. IsFiniteSet(1 .. MaxRow) /\ Cardinality(1 .. MaxRow) = MaxRow
    BY FS_Interval, CalcAssumption
  <2>3. Cardinality(LiveIds(s.row)) <= MaxRow /\ Cardinality(LiveIds(s.row)) \in Nat
    BY <2>1, <2>2, FS_Subset, FS_CardinalityType
  <2> QED BY <2>3, CalcAssumption, RectanglesAssumption
<1>3. Cardinality(LiveIds(s.col)) <= Grid
  <2>1. Len(s.col) \in Nat
    BY <1>1, LenProperties DEF AxisOK
  <2>2. Cardinality(LiveIds(s.col)) = Cardinality(LivePlaces(s.col, Len(s.col)))
    <3>1. Before(s.col, Len(s.col) + 1) = Cardinality(LivePlaces(s.col, Len(s.col) + 1 - 1))
      BY <2>1, BeforeNat
    <3> QED BY <1>1, <2>1, <3>1, LiveCount
  <2>3. LivePlaces(s.col, Len(s.col)) \in SUBSET (1 .. Len(s.col))
    BY DEF LivePlaces
  <2>4. IsFiniteSet(1 .. Len(s.col)) /\ Cardinality(1 .. Len(s.col)) = Len(s.col)
    BY <2>1, FS_Interval
  <2>5. Cardinality(LivePlaces(s.col, Len(s.col))) <= Len(s.col)
        /\ Cardinality(LivePlaces(s.col, Len(s.col))) \in Nat
    BY <2>3, <2>4, FS_Subset, FS_CardinalityType
  <2> QED BY <2>1, <2>2, <2>5, RectanglesAssumption DEF SheetTyped
<1> QED BY <1>1, <1>2, <1>3 DEF Fits, Grounded, SheetTyped

\* A formula rebound reads rectangles of the grid (rebind).
LEMMA RebindTyped ==
    ASSUME NEW s, SheetOK(s), SheetTyped(s), NEW c \in Cells(s)
    PROVE  Rebind(s, s.formula[c]) \in Seq(Box)
<1> DEFINE f == s.formula[c]
           Taken(i) == Cardinality({j \in 1 .. i - 1 : ~ f.items[j].paren})
           Ref(i) == IF f.items[i].paren THEN f.items[i].text
                     ELSE Resolved(s, f.bindings[Taken(i) + 1])
<1> DEFINE R == [text : Proper, paren : BOOLEAN]
<1>1. f.items \in Seq(R)
  BY DEF SheetTyped
<1>2. DOMAIN f.items = 1 .. Len(f.items) /\ Len(f.items) \in Nat
      /\ \A i \in DOMAIN f.items : f.items[i].text \in Proper
  <2>1. \A x \in R : x.text \in Proper
    OBVIOUS
  <2>2. DOMAIN f.items = 1 .. Len(f.items) /\ Len(f.items) \in Nat
        /\ \A i \in DOMAIN f.items : f.items[i] \in R
    <3> HIDE DEF R, f
    <3> QED BY <1>1
  <2> HIDE DEF R, f
  <2> QED BY <2>1, <2>2
<1>3. Rebind(s, f) = [i \in DOMAIN f.items |-> Ref(i)]
  BY DEF Rebind
<1>4. \A i \in DOMAIN f.items : Ref(i) \in Box
  BY <1>2, TypedFits, ResolvedTyped DEF Box
<1> HIDE DEF Ref, f
<1>5. Rebind(s, f) \in Seq(Box)
  BY <1>2, <1>3, <1>4
<1> QED BY <1>5 DEF f

-----------------------------------------------------------------------------
(* The members of the graph and their groups.                              *)

MembersOK(ms) ==
    /\ IsFiniteSet(ms)
    /\ \A m \in ms : m.pos \in Coord \X Coord /\ m.refs \in Seq(Box)

LEMMA LiveIdsFinite ==
    ASSUME NEW axis, AxisOK(axis)
    PROVE  IsFiniteSet(LiveIds(axis))
<1> DEFINE ids == [i \in DOMAIN axis |-> axis[i].id]
<1>1. DOMAIN axis = 1 .. Len(axis) /\ Len(axis) \in Nat
  BY LenProperties DEF AxisOK
<1> DEFINE T == {ids[i] : i \in DOMAIN axis}
<1>2. IsFiniteSet(T)
  <2>1. IsFiniteSet(DOMAIN axis)
    BY <1>1, FS_Interval
  <2> HIDE DEF ids
  <2> QED BY <2>1, ImageFinite
<1>3. LiveIds(axis) \in SUBSET T
  BY DEF LiveIds
<1> HIDE DEF T
<1> QED BY <1>2, <1>3, FS_Subset

\* Every formula is one member, at a cell of the grid no other has.
LEMMA MembersTyped ==
    ASSUME NEW s, SheetOK(s), SheetTyped(s)
    PROVE  /\ MembersOK(Members(s))
           /\ \A m, n \in Members(s) : m.pos = n.pos => m = n
<1> DEFINE live == {x \in LiveCells(s) : HasFormula(s, x)}
           Of(c, refs) ==
              [cell |-> c, pos |-> Position(s, c), kind |-> s.formula[c].kind, refs |-> refs,
               bound |-> JoinAll({refs[i] : i \in DOMAIN refs}),
               pattern |-> Pattern(s.formula[c].kind, s.formula[c].items, refs, Position(s, c))]
           make == [c \in live |-> Of(c, Rebind(s, s.formula[c]))]
<1>1. Members(s) = {make[c] : c \in live}
  BY Zenon DEF Members
<1>2. \A c \in live : make[c].pos = Position(s, c) /\ make[c].refs = Rebind(s, s.formula[c])
  OBVIOUS
<1> HIDE DEF make
<1>3. Fits(s.row) /\ Fits(s.col)
  BY TypedFits
<1>4. IsFiniteSet(live)
  <2>1. IsFiniteSet(LiveIds(s.row)) /\ IsFiniteSet(LiveIds(s.col))
    <3>1. AxisOK(s.row) /\ AxisOK(s.col)
      BY DEF SheetOK
    <3> QED BY <3>1, LiveIdsFinite
  <2>2. IsFiniteSet(LiveCells(s))
    BY <2>1, FS_Product DEF LiveCells
  <2> QED BY <2>2, FS_Subset
<1>5. IsFiniteSet(Members(s))
  <2> HIDE DEF live
  <2>1. IsFiniteSet({make[c] : c \in live})
    BY <1>4, ImageFinite
  <2> QED BY <1>1, <2>1
<1>6. \A c \in live : /\ c \in Cells(s) /\ c \in LiveCells(s)
                      /\ c[1] \in LiveIds(s.row) /\ c[2] \in LiveIds(s.col) /\ c = <<c[1], c[2]>>
  BY LiveInIds DEF LiveCells, Cells
<1>7. ASSUME NEW c \in live
      PROVE  Position(s, c) \in Coord \X Coord /\ Rebind(s, s.formula[c]) \in Seq(Box)
  <2>1. Position(s, c) \in Coord \X Coord
    BY <1>3, <1>6, LiveOrdinal DEF Position
  <2> QED BY <1>6, <2>1, RebindTyped
<1>8. ASSUME NEW c \in live, NEW d \in live, Position(s, c) = Position(s, d)
      PROVE  c = d
  <2>1. PositionOf(s.row, c[1]) = PositionOf(s.row, d[1])
        /\ PositionOf(s.col, c[2]) = PositionOf(s.col, d[2])
    BY <1>8 DEF Position
  <2>2. c[1] = d[1] /\ c[2] = d[2]
    BY <1>3, <1>6, <2>1, LiveOrdinal
  <2> QED BY <1>6, <2>2
<1> HIDE DEF live
<1>9. \A m \in Members(s) : m.pos \in Coord \X Coord /\ m.refs \in Seq(Box)
  BY <1>1, <1>2, <1>7
<1>10. \A m, n \in Members(s) : m.pos = n.pos => m = n
  BY <1>1, <1>2, <1>8
<1> QED BY <1>5, <1>9, <1>10 DEF MembersOK

Partition(P, S) ==
    /\ UNION P = S /\ {} \notin P
    /\ \A a, b \in P : a \intersect b # {} => a = b

LEMMA ClassesPart ==
    ASSUME NEW S, NEW key
    PROVE  Partition({{y \in S : key[y] = key[x]} : x \in S}, S)
<1> DEFINE C(x) == {y \in S : key[y] = key[x]}
           P == {C(x) : x \in S}
<1>1. \A x \in S : x \in C(x) /\ C(x) \subseteq S
  OBVIOUS
<1>2. \A x, y \in S : C(x) \intersect C(y) # {} => C(x) = C(y)
  OBVIOUS
<1> HIDE DEF C
<1>3. UNION P = S
  BY <1>1
<1>4. {} \notin P
  BY <1>1
<1>5. \A a, b \in P : a \intersect b # {} => a = b
  BY <1>2
<1>6. Partition(P, S)
  BY <1>3, <1>4, <1>5 DEF Partition
<1> QED BY <1>6 DEF C

\* A partition whose parts are partitioned is one.
LEMMA FinerPart ==
    ASSUME NEW P, NEW S, Partition(P, S), NEW R, \A a \in P : Partition(R[a], a)
    PROVE  Partition(UNION {R[a] : a \in P}, S)
<1> DEFINE Q == UNION {R[a] : a \in P}
<1>1. UNION P = S /\ (\A a, b \in P : a \intersect b # {} => a = b)
  BY DEF Partition
<1>2. \A a \in P : UNION R[a] = a /\ {} \notin R[a]
                   /\ \A x, y \in R[a] : x \intersect y # {} => x = y
  BY DEF Partition
<1>3. UNION Q = S
  <2>1. UNION Q \subseteq S
    BY <1>1, <1>2
  <2>2. ASSUME NEW x \in S
        PROVE  x \in UNION Q
    <3>1. PICK a \in P : x \in a
      BY <1>1
    <3>2. PICK b \in R[a] : x \in b
      BY <1>2, <3>1
    <3> QED BY <3>2
  <2> QED BY <2>1, <2>2
<1>4. {} \notin Q
  BY <1>2
<1>5. ASSUME NEW x \in Q, NEW y \in Q, x \intersect y # {}
      PROVE  x = y
  <2>1. PICK a \in P : x \in R[a]
    OBVIOUS
  <2>2. PICK b \in P : y \in R[b]
    OBVIOUS
  <2>3. x \subseteq a /\ y \subseteq b
    BY <1>2, <2>1, <2>2
  <2>4. a = b
    BY <1>1, <1>5, <2>3
  <2> QED BY <1>2, <1>5, <2>1, <2>2, <2>4
<1> QED BY <1>3, <1>4, <1>5 DEF Partition

LEMMA SplitPart ==
    ASSUME NEW ms, ms # {}
    PROVE  Partition(Split(ms), ms)
<1> DEFINE column == [m \in ms |-> m.pos[2]]
           P == {{y \in ms : column[y] = column[x]} : x \in ms}
           Q == {{y \in ms : y.pos[2] = x.pos[2]} : x \in ms}
           R == [a \in P |-> IF ReadsItself(Group(a)) THEN {{m} : m \in a} ELSE {a}]
<1>1. Partition({ms}, ms)
  BY DEF Partition
<1>2. Partition(P, ms)
  <2> HIDE DEF column
  <2> QED BY ClassesPart
<1>3. P = Q
  OBVIOUS
<1>4. \A a \in P : a # {}
  BY <1>2 DEF Partition
<1>5. \A a : a # {} => Partition({{m} : m \in a}, a) /\ Partition({a}, a)
  BY DEF Partition
<1>6. \A a \in P : Partition(R[a], a)
  <2> HIDE DEF P
  <2> QED BY <1>4, <1>5
<1>7. Partition(UNION {R[a] : a \in P}, ms)
  <2> HIDE DEF P, R
  <2> QED BY <1>2, <1>6, FinerPart
<1>8. UNION {R[a] : a \in P} =
        UNION {IF ReadsItself(Group(part)) THEN {{m} : m \in part} ELSE {part} : part \in P}
  <2> HIDE DEF P
  <2> QED OBVIOUS
<1>9. Split(ms) = IF ReadsItself(Group(ms)) /\ Cardinality(ms) > 1
                  THEN UNION {IF ReadsItself(Group(part)) THEN {{m} : m \in part} ELSE {part} :
                              part \in Q}
                  ELSE {ms}
  BY Zenon DEF Split, Classes
<1> HIDE DEF P, Q, R
<1>10. Split(ms) = UNION {R[a] : a \in P} \/ Split(ms) = {ms}
  BY <1>3, <1>8, <1>9
<1> QED BY <1>1, <1>7, <1>10

\* A group is named by one of its cells.
LEMMA LeadInside ==
    ASSUME NEW ms, MembersOK(ms), ms # {}
    PROVE  Lead(ms) \in {m.pos : m \in ms}
<1> DEFINE C == {m.pos[2] : m \in ms}
<1>1. \A m \in ms : /\ m.pos = <<m.pos[1], m.pos[2]>>
                    /\ m.pos[1] \in Nat /\ m.pos[2] \in Nat
  BY DEF MembersOK, Coord
<1>2. C \subseteq Nat /\ C # {}
  BY <1>1
<1>3. PICK c \in C : \A k \in C : c <= k
  <2> HIDE DEF C
  <2> QED BY <1>2, LeastNat
<1> DEFINE R == {m.pos[1] : m \in {x \in ms : x.pos[2] = c}}
<1>4. R \subseteq Nat /\ R # {}
  BY <1>1, <1>3
<1>5. PICK r \in R : \A k \in R : r <= k
  <2> HIDE DEF R
  <2> QED BY <1>4, LeastNat
<1>6. PICK lead \in ms : lead.pos[2] = c /\ lead.pos[1] = r
  BY <1>5
<1>7. ASSUME NEW m \in ms
      PROVE  lead.pos[2] < m.pos[2] \/ (lead.pos[2] = m.pos[2] /\ lead.pos[1] <= m.pos[1])
  <2>1. c <= m.pos[2] /\ m.pos[2] \in Nat /\ c \in Nat
    BY <1>1, <1>2, <1>3
  <2>2. m.pos[2] = c => r <= m.pos[1]
    BY <1>5
  <2> QED BY <1>6, <2>1, <2>2
<1>8. \E p \in {m.pos : m \in ms} :
        \A m \in ms : p[2] < m.pos[2] \/ (p[2] = m.pos[2] /\ p[1] <= m.pos[1])
  BY <1>6, <1>7
<1> QED BY Zenon, <1>8 DEF Lead

\* A graph fits the results it is given a slot for.
GroupsOK(groups, S) ==
    /\ IsFiniteSet(DOMAIN groups)
    /\ \A g \in DOMAIN groups : /\ MembersOK(groups[g].members)
                                /\ Positions(groups[g]) \subseteq S

EngineOK(e) ==
    /\ e = [groups |-> e.groups, index |-> e.index, results |-> e.results]
    /\ GroupsOK(e.groups, DOMAIN e.results)

\* Every formula of the sheet is in one group of the graph built from it, and
\* has an empty slot (Engine::regroup).
LEMMA RegroupTyped ==
    ASSUME NEW s, SheetOK(s), SheetTyped(s)
    PROVE  /\ EngineOK(Regroup(s))
           /\ Results(Regroup(s).results, DOMAIN Regroup(s).results)
           /\ \A g \in DOMAIN Regroup(s).groups :
                Regroup(s).groups[g].writes = Bounding(Positions(Regroup(s).groups[g]))
           /\ \A p \in DOMAIN Regroup(s).results :
                \E g \in DOMAIN Regroup(s).groups : p \in Positions(Regroup(s).groups[g])
<1> DEFINE M == Members(s)
           pattern == [m \in M |-> m.pattern]
           P == {{y \in M : pattern[y] = pattern[x]} : x \in M}
           R == [a \in P |-> Split(a)]
           parts == UNION {R[a] : a \in P}
           L == {Lead(ms) : ms \in parts}
           groups == [p \in L |-> Group(CHOOSE ms \in parts : Lead(ms) = p)]
           S == {m.pos : m \in UNION parts}
           results == [p \in S |-> Unset]
           e == [groups |-> groups, index |-> Index([g \in DOMAIN groups |-> groups[g].reads]),
                 results |-> results]
<1>1. MembersOK(M) /\ \A m, n \in M : m.pos = n.pos => m = n
  BY MembersTyped
<1>2. Regroup(s) = e
  <2>1. {Split(a) : a \in P} = {R[a] : a \in P}
    <3> HIDE DEF P
    <3> QED OBVIOUS
  <2>2. P = Classes(Members(s), LAMBDA m : m.pattern)
    <3>1. P = {{y \in M : y.pattern = x.pattern} : x \in M}
      BY DEF P
    <3> QED BY Zenon, <3>1 DEF Classes
  <2>3. parts = UNION {Split(ms) : ms \in Classes(Members(s), LAMBDA m : m.pattern)}
    <3> HIDE DEF P, R
    <3> QED BY Zenon, <2>1, <2>2
  <2> DEFINE Q == UNION {Split(ms) : ms \in Classes(Members(s), LAMBDA m : m.pattern)}
             Graph(ps) ==
                LET G == [p \in {Lead(ms) : ms \in ps} |->
                            Group(CHOOSE ms \in ps : Lead(ms) = p)]
                IN [groups |-> G,
                    index |-> Index([g \in DOMAIN G |-> G[g].reads]),
                    results |-> [p \in {m.pos : m \in UNION ps} |-> Unset]]
  <2>4. Regroup(s) = Graph(Q)
    BY Zenon DEF Regroup
  <2> HIDE DEF parts
  <2>5. Graph(parts) = e
    BY Zenon
  <2> HIDE DEF Graph, Q, e
  <2>6. parts = Q
    BY <2>3 DEF Q
  <2> QED BY <2>4, <2>5, <2>6
<1>3. Partition(P, M)
  <2> HIDE DEF pattern, M
  <2> QED BY ClassesPart
<1>4. Partition(parts, M)
  <2>1. \A a \in P : a # {}
    BY <1>3 DEF Partition
  <2>2. \A a \in P : Partition(R[a], a)
    <3> HIDE DEF P
    <3> QED BY <2>1, SplitPart
  <2> HIDE DEF P, R, M
  <2> QED BY <1>3, <2>2, FinerPart
<1> HIDE DEF R, P, pattern, parts
<1>5. UNION parts = M /\ (\A a \in parts : a # {} /\ a \subseteq M)
      /\ (\A a, b \in parts : a \intersect b # {} => a = b)
  BY <1>4 DEF Partition
<1>6. \A a \in parts : MembersOK(a)
  BY <1>1, <1>5, FS_Subset DEF MembersOK
<1>7. \A a \in parts : Lead(a) \in {m.pos : m \in a}
  BY <1>5, <1>6, LeadInside
<1>8. \A a, b \in parts : Lead(a) = Lead(b) => a = b
  <2> SUFFICES ASSUME NEW a \in parts, NEW b \in parts, Lead(a) = Lead(b)
               PROVE  a = b
    OBVIOUS
  <2>1. PICK m \in a : m.pos = Lead(a)
    BY <1>7
  <2>2. PICK n \in b : n.pos = Lead(a)
    BY <1>7
  <2>3. m = n
    BY <1>1, <1>5, <2>1, <2>2
  <2> QED BY <1>5, <2>3
<1>9. \A a \in parts : Lead(a) \in L /\ groups[Lead(a)] = Group(a)
  <2> SUFFICES ASSUME NEW a \in parts
               PROVE  Lead(a) \in L /\ groups[Lead(a)] = Group(a)
    OBVIOUS
  <2>1. (CHOOSE ms \in parts : Lead(ms) = Lead(a)) = a
    BY <1>8
  <2> QED BY <2>1
<1>10. \A g \in L : \E a \in parts : g = Lead(a) /\ groups[g] = Group(a)
  BY <1>9
<1>11. \A a : Group(a).members = a /\ Group(a).writes = Bounding(Positions(Group(a)))
              /\ Positions(Group(a)) = {m.pos : m \in a}
  BY DEF Group, WritesOf, Positions
<1>12. IsFiniteSet(L)
  <2> DEFINE at == [m \in M |-> m.pos]
             T == {at[m] : m \in M}
  <2>1. IsFiniteSet(T)
    <3> HIDE DEF at
    <3> QED BY <1>1, ImageFinite DEF MembersOK
  <2>2. L \in SUBSET T
    BY <1>5, <1>7
  <2> HIDE DEF T, L
  <2> QED BY <2>1, <2>2, FS_Subset
<1>13. DOMAIN groups = L /\ DOMAIN results = S
  OBVIOUS
<1>14. Results(results, S)
  BY DEF Results
<1> HIDE DEF groups, results
<1>15. GroupsOK(groups, S)
  <2>1. \A g \in L : MembersOK(groups[g].members) /\ Positions(groups[g]) \subseteq S
    BY <1>6, <1>10, <1>11
  <2> QED BY <1>12, <1>13, <2>1 DEF GroupsOK
<1>16. \A g \in L : groups[g].writes = Bounding(Positions(groups[g]))
  BY <1>10, <1>11
<1>17. ASSUME NEW p \in S
       PROVE  \E g \in L : p \in Positions(groups[g])
  <2>1. PICK m \in UNION parts : p = m.pos
    OBVIOUS
  <2>2. PICK a \in parts : m \in a
    OBVIOUS
  <2> QED BY <1>9, <1>11, <2>1, <2>2
<1>18. e.groups = groups /\ e.results = results
       /\ e = [groups |-> e.groups, index |-> e.index, results |-> e.results]
  OBVIOUS
<1> HIDE DEF e, L, S
<1> QED BY <1>2, <1>13, <1>14, <1>15, <1>16, <1>17, <1>18 DEF EngineOK

-----------------------------------------------------------------------------
(* Marking what is dirty and placing it.                                   *)

LEMMA PositionsFinite ==
    ASSUME NEW ms, MembersOK(ms), NEW part \in SUBSET ms
    PROVE  IsFiniteSet({m.pos : m \in part}) /\ {m.pos : m \in part} \subseteq Coord \X Coord
<1> DEFINE at == [m \in part |-> m.pos]
           T == {at[m] : m \in part}
<1>1. IsFiniteSet(T)
  <2>1. IsFiniteSet(part)
    BY FS_Subset DEF MembersOK
  <2> HIDE DEF at
  <2> QED BY <2>1, ImageFinite
<1>2. {m.pos : m \in part} = T
  OBVIOUS
<1>3. {m.pos : m \in part} \subseteq Coord \X Coord
  BY DEF MembersOK
<1> HIDE DEF T
<1> QED BY <1>1, <1>2, <1>3

LEMMA AffectedTyped ==
    ASSUME NEW g, MembersOK(g.members), NEW source
    PROVE  AffectedMembers(g, source) \in Box
<1> DEFINE part == {x \in g.members : Overlaps(x.bound, source)}
           P == {m.pos : m \in part}
<1>1. IsFiniteSet(P) /\ P \subseteq Coord \X Coord
  <2>1. part \in SUBSET g.members
    OBVIOUS
  <2> HIDE DEF part
  <2> QED BY <2>1, PositionsFinite
<1>2. AffectedMembers(g, source) = Bounding(P) \/ AffectedMembers(g, source) = NoRect
  BY DEF AffectedMembers
<1> HIDE DEF P
<1>3. Bounding(P) \in Box /\ NoRect \in Box
  BY <1>1, BoundingCovers DEF Box
<1> QED BY <1>2, <1>3

\* The union of a rectangle and finitely many parts of a group.
LEMMA JoinedTyped ==
    ASSUME NEW r \in Box, NEW I, IsFiniteSet(I), NEW f \in [I -> Box]
    PROVE  LET S == {r} \union {f[i] : i \in I}
           IN JoinAll(S) \in Box /\ Inside(r, JoinAll(S))
<1> DEFINE T == {f[i] : i \in I}
           S == {r} \union T
<1>1. IsFiniteSet(T) /\ T \subseteq Box
  BY ImageFinite
<1> HIDE DEF T
<1>2. IsFiniteSet(S) /\ S \subseteq Box /\ r \in S
  BY <1>1, FS_Singleton, FS_Union
<1> HIDE DEF S
<1>3. JoinAll(S) \in Box /\ Inside(r, JoinAll(S))
  BY <1>2, JoinAllHolds
<1> QED BY <1>3 DEF S, T

\* Marking only grows what is dirty.
LEMMA MarkGrows ==
    ASSUME NEW e, EngineOK(e), NEW dirty \in [DOMAIN e.groups -> Box]
    PROVE  /\ Mark(e, dirty) \in [DOMAIN e.groups -> Box]
           /\ \A g \in DOMAIN e.groups : Inside(dirty[g], Mark(e, dirty)[g])
<1> DEFINE G == DOMAIN e.groups
           From(g) == {x \in Wanted(dirty) \ {g} : g \in Stab(e.index, dirty[x])}
           New(g) == JoinAll({dirty[g]} \union
                             {AffectedMembers(e.groups[g], dirty[s]) : s \in From(g)})
<1>1. Mark(e, dirty) = [g \in G |-> New(g)]
  BY DEF Mark
<1>2. IsFiniteSet(G) /\ \A g \in G : MembersOK(e.groups[g].members)
  BY DEF EngineOK, GroupsOK
<1>3. ASSUME NEW g \in G
      PROVE  New(g) \in Box /\ Inside(dirty[g], New(g))
  <2> DEFINE f == [s \in From(g) |-> AffectedMembers(e.groups[g], dirty[s])]
  <2>1. IsFiniteSet(From(g))
    <3>1. From(g) \in SUBSET G
      BY DEF Wanted
    <3> HIDE DEF From, G
    <3> QED BY <1>2, <3>1, FS_Subset
  <2>2. f \in [From(g) -> Box]
    <3> HIDE DEF From
    <3> QED BY <1>2, AffectedTyped
  <2>3. {AffectedMembers(e.groups[g], dirty[s]) : s \in From(g)} = {f[s] : s \in From(g)}
    <3> HIDE DEF From
    <3> QED OBVIOUS
  <2> HIDE DEF f, From
  <2>4. JoinAll({dirty[g]} \union {f[s] : s \in From(g)}) \in Box
        /\ Inside(dirty[g], JoinAll({dirty[g]} \union {f[s] : s \in From(g)}))
    BY <2>1, <2>2, JoinedTyped
  <2> QED BY <2>3, <2>4
<1> HIDE DEF New
<1> QED BY <1>1, <1>3

LEMMA InsideItself ==
    ASSUME NEW a \in Box
    PROVE  Inside(a, a)
<1>1. a.r0 \in Int /\ a.r1 \in Int /\ a.c0 \in Int /\ a.c1 \in Int
  BY BoxSides
<1> QED BY <1>1 DEF Inside

\* What was a seed is dirty.
LEMMA MarkedGrows ==
    ASSUME NEW e, EngineOK(e), NEW seeds \in [DOMAIN e.groups -> Box]
    PROVE  /\ Marked(e, seeds) \in [DOMAIN e.groups -> Box]
           /\ \A g \in DOMAIN e.groups : Inside(seeds[g], Marked(e, seeds)[g])
<1> DEFINE G == DOMAIN e.groups
           D == {d \in [dirty : [G -> Box], still : BOOLEAN] :
                    \A g \in G : Inside(seeds[g], d.dirty[g])}
           base == [dirty |-> seeds, still |-> FALSE]
           Round(state, i) ==
              IF state.still THEN state
              ELSE LET next == Mark(e, state.dirty)
                   IN [dirty |-> next, still |-> next = state.dirty]
           n == 4 * Grid * Cardinality(DOMAIN seeds)
           rounds == [i \in 1 .. n |-> i]
           it == CHOOSE f : f = [s \in SUBSET (1 .. n) |->
                    IF s = {} THEN base ELSE Round(f[s \ {Max(s)}], rounds[Max(s)])]
           g0 == [i \in 1 .. n |-> [d \in D |-> Round(d, rounds[i])]]
<1>1. n \in Nat /\ DOMAIN rounds = 1 .. n
  <2>1. Cardinality(DOMAIN seeds) \in Nat
    BY FS_CardinalityType DEF EngineOK, GroupsOK
  <2>2. Grid \in Nat
    BY RectanglesAssumption
  <2> QED BY <2>1, <2>2
<1>2. Marked(e, seeds) = it[1 .. n].dirty
  <2>1. FoldLeft(Round, base, rounds) = it[1 .. n]
    <3> HIDE DEF n, base
    <3> QED BY Zenon, <1>1 DEF FoldLeft, MapThenFoldSet
  <2>2. Marked(e, seeds) = FoldLeft(Round, base, rounds).dirty
    BY Zenon DEF Marked
  <2> QED BY Zenon, <2>1, <2>2
<1>3. base \in D
  <2>1. \A g \in G : Inside(seeds[g], seeds[g])
    BY InsideItself
  <2> QED BY <2>1
<1>4. ASSUME NEW d \in D, NEW i
      PROVE  Round(d, i) \in D
  <2>1. d.dirty \in [G -> Box] /\ \A g \in G : Inside(seeds[g], d.dirty[g])
    OBVIOUS
  <2>2. Mark(e, d.dirty) \in [G -> Box] /\ \A g \in G : Inside(d.dirty[g], Mark(e, d.dirty)[g])
    BY <2>1, MarkGrows
  <2> DEFINE next == Mark(e, d.dirty)
  <2> HIDE DEF next
  <2>3. \A g \in G : Inside(seeds[g], next[g])
    <3>1. \A g \in G : seeds[g] \in Box /\ d.dirty[g] \in Box /\ next[g] \in Box
      BY <2>1, <2>2 DEF next
    <3> QED BY <2>1, <2>2, <3>1, InsideTwice DEF next
  <2>4. Round(d, i) = d \/ Round(d, i) = [dirty |-> next, still |-> next = d.dirty]
    BY DEF next
  <2>5. [dirty |-> next, still |-> next = d.dirty] \in D
    BY <2>2, <2>3 DEF next
  <2> QED BY <2>4, <2>5
<1> HIDE DEF n, rounds, base, D, Round
<1>5. \A i \in 1 .. n : \A d \in D : g0[i][d] = Round(d, rounds[i]) /\ g0[i][d] \in D
  BY <1>4
<1> HIDE DEF g0
<1>6. PICK h : Solves(h, D, base, n, g0)
  <2>1. \A i \in 1 .. n : \A d \in D : g0[i][d] \in D
    BY <1>5
  <2>2. n \in Nat
    BY <1>1
  <2> HIDE DEF it
  <2> QED BY Zenon, <1>3, <2>1, <2>2, FoldSolved
<1>7. \A s \in SUBSET (1 .. n) :
        h[s] = IF s = {} THEN base ELSE Round(h[s \ {Max(s)}], rounds[Max(s)])
  BY <1>5, <1>6 DEF Solves
<1>8. h = [s \in SUBSET (1 .. n) |->
              IF s = {} THEN base ELSE Round(h[s \ {Max(s)}], rounds[Max(s)])]
  BY <1>6, <1>7 DEF Solves
<1>9. it = [s \in SUBSET (1 .. n) |->
              IF s = {} THEN base ELSE Round(it[s \ {Max(s)}], rounds[Max(s)])]
  BY <1>8
<1> HIDE DEF it
<1> DEFINE T == {s \in SUBSET (1 .. n) : it[s] \in D}
<1>10. {} \in T
  BY <1>3, <1>9
<1>11. ASSUME NEW s \in SUBSET (1 .. n), s # {}, s \ {Max(s)} \in T
       PROVE  s \in T
  <2>1. it[s] = Round(it[s \ {Max(s)}], rounds[Max(s)])
    BY <1>9, <1>11
  <2>2. it[s \ {Max(s)}] \in D
    BY <1>11
  <2> QED BY <1>4, <2>1, <2>2
<1>12. \A s \in SUBSET (1 .. n) : s \in T
  <2> HIDE DEF T
  <2> QED BY <1>1, <1>10, <1>11, ByLargest
<1>13. it[1 .. n] \in D
  BY <1>12
<1>14. \A d \in D : d.dirty \in [G -> Box] /\ \A g \in G : Inside(seeds[g], d.dirty[g])
  BY DEF D
<1> QED BY <1>2, <1>13, <1>14

\* The levels hold groups that are dirty.
LEMMA LevelsTyped ==
    ASSUME NEW e, EngineOK(e), NEW dirty \in [DOMAIN e.groups -> Box]
    PROVE  Levels(e, dirty) \in Seq(SUBSET Wanted(dirty))
<1> DEFINE groups == {g \in Wanted(dirty) : ~ ReadsItself(e.groups[g])}
           next(placed) == {g \in groups \ placed : Upstream(e, dirty, g) \subseteq placed}
           Place(levels, i) == Append(levels, next(UNION ToSet(levels)))
           n == Cardinality(groups)
           rounds == [i \in 1 .. n |-> i]
           D == Seq(SUBSET Wanted(dirty))
           base == <<>>
           it == CHOOSE f : f = [s \in SUBSET (1 .. n) |->
                    IF s = {} THEN base ELSE Place(f[s \ {Max(s)}], rounds[Max(s)])]
           g0 == [i \in 1 .. n |-> [d \in D |-> Place(d, rounds[i])]]
<1>1. n \in Nat /\ DOMAIN rounds = 1 .. n
  <2>1. groups \in SUBSET DOMAIN e.groups
    BY DEF Wanted
  <2> HIDE DEF groups
  <2> QED BY <2>1, FS_Subset, FS_CardinalityType DEF EngineOK, GroupsOK
<1>2. Levels(e, dirty) = it[1 .. n]
  <2>1. FoldLeft(Place, base, rounds) = it[1 .. n]
    <3> HIDE DEF n, base
    <3> QED BY Zenon, <1>1 DEF FoldLeft, MapThenFoldSet
  <2>2. Levels(e, dirty) = FoldLeft(Place, base, rounds)
    BY Zenon DEF Levels
  <2> QED BY Zenon, <2>1, <2>2
<1>3. base \in D
  OBVIOUS
<1>4. ASSUME NEW d \in D, NEW i
      PROVE  Place(d, i) \in D
  <2> DEFINE W == SUBSET Wanted(dirty)
             new == next(UNION ToSet(d))
  <2>1. new \in W /\ d \in Seq(W)
    OBVIOUS
  <2>2. Place(d, i) = Append(d, new)
    OBVIOUS
  <2> HIDE DEF W, new, Place
  <2>3. Append(d, new) \in Seq(W)
    BY <2>1
  <2> QED BY <2>2, <2>3 DEF W
<1> HIDE DEF n, rounds, base, D, Place
<1>5. \A i \in 1 .. n : \A d \in D : g0[i][d] = Place(d, rounds[i]) /\ g0[i][d] \in D
  BY <1>4
<1> HIDE DEF g0
<1>6. PICK h : Solves(h, D, base, n, g0)
  <2>1. \A i \in 1 .. n : \A d \in D : g0[i][d] \in D
    BY <1>5
  <2>2. n \in Nat
    BY <1>1
  <2> HIDE DEF it
  <2> QED BY Zenon, <1>3, <2>1, <2>2, FoldSolved
<1>7. \A s \in SUBSET (1 .. n) :
        h[s] = IF s = {} THEN base ELSE Place(h[s \ {Max(s)}], rounds[Max(s)])
  BY <1>5, <1>6 DEF Solves
<1>8. h = [s \in SUBSET (1 .. n) |->
              IF s = {} THEN base ELSE Place(h[s \ {Max(s)}], rounds[Max(s)])]
  BY <1>6, <1>7 DEF Solves
<1>9. it = [s \in SUBSET (1 .. n) |->
              IF s = {} THEN base ELSE Place(it[s \ {Max(s)}], rounds[Max(s)])]
  BY <1>8
<1> HIDE DEF it
<1> DEFINE T == {s \in SUBSET (1 .. n) : it[s] \in D}
<1>10. {} \in T
  BY <1>3, <1>9
<1>11. ASSUME NEW s \in SUBSET (1 .. n), s # {}, s \ {Max(s)} \in T
       PROVE  s \in T
  <2>1. it[s] = Place(it[s \ {Max(s)}], rounds[Max(s)])
    BY <1>9, <1>11
  <2>2. it[s \ {Max(s)}] \in D
    BY <1>11
  <2> QED BY <1>4, <2>1, <2>2
<1>12. \A s \in SUBSET (1 .. n) : s \in T
  <2> HIDE DEF T
  <2> QED BY <1>1, <1>10, <1>11, ByLargest
<1>13. it[1 .. n] \in D
  BY <1>12
<1> QED BY <1>2, <1>13 DEF D

-----------------------------------------------------------------------------
(* Evaluating groups.                                                      *)

\* Each member the region covers gets a value.
LEMMA GroupEvaluated ==
    ASSUME NEW s, Grounded(s), NEW S, NEW results, Results(results, S),
           NEW g, MembersOK(g.members), NEW region
    PROVE  LET fresh == EvaluateGroup(s, g, region, results)
           IN /\ DOMAIN fresh \subseteq Positions(g)
              /\ \A p \in Positions(g) : Covers(region, p) => p \in DOMAIN fresh
              /\ \A p \in DOMAIN fresh : fresh[p] \in Value
<1> DEFINE chosen == {m \in g.members : Covers(region, m.pos)}
           P == {m.pos : m \in chosen}
           Val(m) == ValueOf(s, results, m.kind, m.refs)
           At0(p) == CHOOSE x \in chosen : x.pos = p
           fresh == [p \in P |-> Val(At0(p))]
<1>1. EvaluateGroup(s, g, region, results) = fresh
  BY Zenon DEF EvaluateGroup, ValueOf
<1>2. ASSUME NEW m \in g.members
      PROVE  Val(m) \in Value
  <2>1. m.refs \in Seq(Box)
    BY DEF MembersOK
  <2> QED BY <2>1, EvaluateTyped
<1>3. \A p \in P : At0(p) \in g.members
  <2>1. \A p \in P : \E x \in chosen : x.pos = p
    OBVIOUS
  <2>2. \A p \in P : At0(p) \in chosen
    <3> HIDE DEF chosen, P
    <3> QED BY <2>1
  <2> HIDE DEF At0
  <2> QED BY <2>2
<1>4. P \subseteq Positions(g) /\ \A p \in Positions(g) : Covers(region, p) => p \in P
  BY DEF Positions
<1> HIDE DEF P, Val, At0
<1>5. DOMAIN fresh = P /\ \A p \in P : fresh[p] \in Value
  BY <1>2, <1>3
<1> HIDE DEF fresh
<1> QED BY <1>1, <1>4, <1>5

\* Part of a function replaced.
LEMMA OverTyped ==
    ASSUME NEW S, NEW V, NEW g \in [S -> V], NEW f, DOMAIN f \subseteq S,
           \A x \in DOMAIN f : f[x] \in V
    PROVE  /\ Over(f, g) \in [S -> V]
           /\ \A x \in S : Over(f, g)[x] = IF x \in DOMAIN f THEN f[x] ELSE g[x]
<1>1. DOMAIN f \union DOMAIN g = S
  OBVIOUS
<1>2. Over(f, g) = [x \in S |-> IF x \in DOMAIN f THEN f[x] ELSE g[x]]
  BY <1>1 DEF Over
<1> QED BY <1>2

State(e) ==
    [results : [DOMAIN e.results -> Value \union {Unset}],
     changed : [DOMAIN e.groups -> Box]]

\* Nothing that has a value loses it.
Later(before, after, S) ==
    \A p \in S : before.results[p] # Unset => after.results[p] # Unset

\* What evaluating one group makes of the state of a pass.
Stepped(s, e, seeds, dirty, cutoff, g, before) ==
    LET fresh == EvaluateGroup(s, e.groups[g],
                    Region(e, seeds, dirty, cutoff, before.changed, g), before.results)
    IN [results |-> Over(fresh, before.results),
        changed |-> [before.changed EXCEPT ![g] =
                        Bounding({p \in DOMAIN fresh : fresh[p] # before.results[p]})]]

LEMMA SteppedTyped ==
    ASSUME NEW s, Grounded(s), NEW e, EngineOK(e), NEW seeds, NEW dirty, NEW cutoff,
           NEW g \in DOMAIN e.groups, NEW before \in State(e)
    PROVE  LET after == Stepped(s, e, seeds, dirty, cutoff, g, before)
           IN /\ after \in State(e)
              /\ Later(before, after, DOMAIN e.results)
              /\ ~ cutoff => \A p \in Positions(e.groups[g]) :
                                Covers(dirty[g], p) => after.results[p] # Unset
<1> DEFINE S == DOMAIN e.results
           G == DOMAIN e.groups
           group == e.groups[g]
           region == Region(e, seeds, dirty, cutoff, before.changed, g)
           fresh == EvaluateGroup(s, group, region, before.results)
           new == {p \in DOMAIN fresh : fresh[p] # before.results[p]}
           results == Over(fresh, before.results)
           changed == [before.changed EXCEPT ![g] = Bounding(new)]
           after == Stepped(s, e, seeds, dirty, cutoff, g, before)
<1>1. after = [results |-> results, changed |-> changed]
  BY DEF Stepped
<1>2. MembersOK(group.members) /\ Positions(group) \subseteq S
  BY DEF EngineOK, GroupsOK
<1>3. before.results \in [S -> Value \union {Unset}] /\ before.changed \in [G -> Box]
  BY DEF State
<1>4. /\ DOMAIN fresh \subseteq Positions(group)
      /\ \A p \in Positions(group) : Covers(region, p) => p \in DOMAIN fresh
      /\ \A p \in DOMAIN fresh : fresh[p] \in Value
  <2>1. Results(before.results, S)
    BY <1>3 DEF Results
  <2> HIDE DEF group, region, S
  <2> QED BY <1>2, <2>1, GroupEvaluated
<1>5. ~ cutoff => region = dirty[g]
  BY DEF Region
<1>6. Bounding(new) \in Box
  <2> DEFINE part == {m \in group.members : m.pos \in new}
  <2>1. new = {m.pos : m \in part}
    <3>1. new \subseteq Positions(group)
      BY <1>4
    <3> HIDE DEF new, group
    <3> QED BY <3>1 DEF Positions
  <2>2. part \in SUBSET group.members
    OBVIOUS
  <2> HIDE DEF part, group, new
  <2> QED BY <1>2, <2>1, <2>2, PositionsFinite, BoundingCovers
<1> HIDE DEF new, fresh, region, group
<1>7. /\ results \in [S -> Value \union {Unset}]
      /\ \A p \in S : results[p] = IF p \in DOMAIN fresh THEN fresh[p] ELSE before.results[p]
  <2> DEFINE V == Value \union {Unset}
             old == before.results
  <2>1. old \in [S -> V] /\ DOMAIN fresh \subseteq S /\ \A p \in DOMAIN fresh : fresh[p] \in V
    BY <1>2, <1>3, <1>4
  <2> HIDE DEF V, S, old
  <2>2. /\ Over(fresh, old) \in [S -> V]
        /\ \A p \in S : Over(fresh, old)[p] = IF p \in DOMAIN fresh THEN fresh[p] ELSE old[p]
    BY <2>1, OverTyped
  <2> QED BY <2>2 DEF V, old
<1>10. changed \in [G -> Box]
  BY <1>3, <1>6
<1>11. Unset \notin Value
  BY ModAssumption DEF Value, Number, Unset, RefError, CircError
<1> HIDE DEF results, changed, after
<1>12. after.results = results /\ after.changed = changed /\ after \in State(e)
  BY <1>1, <1>7, <1>10 DEF State
<1>13. Later(before, after, S)
  BY <1>4, <1>7, <1>11, <1>12 DEF Later
<1>14. ASSUME ~ cutoff, NEW p \in Positions(group), Covers(dirty[g], p)
       PROVE  after.results[p] # Unset
  <2>1. p \in DOMAIN fresh /\ p \in S
    BY <1>2, <1>4, <1>5, <1>14
  <2> QED BY <1>4, <1>7, <1>11, <1>12, <2>1
<1> QED BY <1>12, <1>13, <1>14 DEF after, group

\* What is dirty of a group has values.
Done(e, dirty, g, after) ==
    \A p \in Positions(e.groups[g]) : Covers(dirty[g], p) => after.results[p] # Unset

\* A level evaluated has a value in every dirty cell of its groups.
LEMMA LevelEvaluated ==
    ASSUME NEW s, Grounded(s), NEW e, EngineOK(e), NEW seeds, NEW dirty, NEW cutoff,
           NEW level \in SUBSET DOMAIN e.groups, NEW pass \in State(e)
    PROVE  LET after == EvaluateLevel(s, e, seeds, dirty, cutoff, level, pass)
           IN /\ after \in State(e)
              /\ Later(pass, after, DOMAIN e.results)
              /\ ~ cutoff => \A g \in level : Done(e, dirty, g, after)
<1> DEFINE S == DOMAIN e.results
           D == State(e)
           Step(g, d) == Stepped(s, e, seeds, dirty, cutoff, g, d)
           it == CHOOSE f : f = [x \in SUBSET level |->
                    IF x = {} THEN pass
                    ELSE Step(CHOOSE y \in x : TRUE, f[x \ {CHOOSE y \in x : TRUE}])]
           ch == [x \in SUBSET level |-> CHOOSE y \in x : TRUE]
           step == [g \in level |-> [d \in D |-> Step(g, d)]]
<1>1. EvaluateLevel(s, e, seeds, dirty, cutoff, level, pass) = it[level]
  BY Zenon DEF EvaluateLevel, Stepped, FoldSet, MapThenFoldSet
<1>2. Chooses(ch, level) /\ IsFiniteSet(level)
  <2>1. Chooses(ch, level)
    BY DEF Chooses
  <2>2. IsFiniteSet(level)
    BY FS_Subset DEF EngineOK, GroupsOK
  <2> QED BY <2>1, <2>2
<1>3. \A g \in level : \A d \in D : /\ Step(g, d) \in D /\ Later(d, Step(g, d), S)
                                    /\ ~ cutoff => Done(e, dirty, g, Step(g, d))
  BY SteppedTyped DEF Done
<1> HIDE DEF Step, D
<1>4. \A g \in level : \A d \in D : step[g][d] = Step(g, d) /\ step[g][d] \in D
  BY <1>3
<1>5. \A x \in SUBSET level : ch[x] = CHOOSE y \in x : TRUE
  OBVIOUS
<1> HIDE DEF step, ch
<1>6. PICK h : Folds(h, level, D, pass, ch, step)
  <2>1. \A g \in level : \A d \in D : step[g][d] \in D
    BY <1>4
  <2>2. pass \in D
    BY DEF D
  <2> HIDE DEF it
  <2> QED BY <1>2, <2>1, <2>2, FoldIsMade
<1>7. h \in [SUBSET level -> D]
  BY <1>6 DEF Folds
<1>8. ASSUME NEW x \in SUBSET level
      PROVE  h[x] = IF x = {} THEN pass
                    ELSE Step(CHOOSE y \in x : TRUE, h[x \ {CHOOSE y \in x : TRUE}])
  <2>1. CASE x = {}
    BY <1>6, <2>1 DEF Folds
  <2>2. CASE x # {}
    <3>1. h[x] = step[ch[x]][h[x \ {ch[x]}]]
      BY <1>6, <2>2 DEF Folds
    <3>2. ch[x] \in level /\ x \ {ch[x]} \in SUBSET level
      BY <1>2, <2>2 DEF Chooses
    <3>3. h[x] = Step(ch[x], h[x \ {ch[x]}])
      BY <1>4, <1>7, <3>1, <3>2
    <3> QED BY <1>5, <2>2, <3>3
  <2> QED BY <2>1, <2>2
<1>9. h = [x \in SUBSET level |-> IF x = {} THEN pass
                    ELSE Step(CHOOSE y \in x : TRUE, h[x \ {CHOOSE y \in x : TRUE}])]
  BY <1>7, <1>8
<1>10. it = [x \in SUBSET level |-> IF x = {} THEN pass
                    ELSE Step(CHOOSE y \in x : TRUE, it[x \ {CHOOSE y \in x : TRUE}])]
  BY <1>9
<1> HIDE DEF it
<1>11. ASSUME NEW x \in SUBSET level
       PROVE  it[x] = IF x = {} THEN pass ELSE Step(ch[x], it[x \ {ch[x]}])
  BY <1>5, <1>10
<1> DEFINE Good(x) == /\ it[x] \in D /\ Later(pass, it[x], S)
                      /\ ~ cutoff => \A g \in x : Done(e, dirty, g, it[x])
           T == {x \in SUBSET level : Good(x)}
<1>12. {} \in T
  <2>1. it[{}] = pass
    BY <1>11
  <2> QED BY <2>1 DEF Later, D
<1>13. ASSUME NEW x \in SUBSET level, x # {}, x \ {ch[x]} \in T
       PROVE  x \in T
  <2> DEFINE g == ch[x]
             r == x \ {g}
             d == it[r]
  <2>1. g \in level /\ x = r \union {g} /\ r \subseteq level
    BY <1>2, <1>13 DEF Chooses
  <2>2. d \in D /\ Later(pass, d, S) /\ (~ cutoff => \A y \in r : Done(e, dirty, y, d))
    BY <1>13
  <2>3. it[x] = Step(g, d)
    BY <1>11, <1>13
  <2> HIDE DEF g, r, d
  <2>4. /\ it[x] \in D /\ Later(d, it[x], S)
        /\ ~ cutoff => Done(e, dirty, g, it[x])
    BY <1>3, <2>1, <2>2, <2>3
  <2>5. Later(pass, it[x], S)
    BY <2>2, <2>4 DEF Later
  <2>6. ASSUME ~ cutoff, NEW y \in r
        PROVE  Done(e, dirty, y, it[x])
    <3>1. Positions(e.groups[y]) \subseteq S
      BY <2>1 DEF EngineOK, GroupsOK
    <3>2. Done(e, dirty, y, d)
      BY <2>2, <2>6
    <3> QED BY <2>4, <3>1, <3>2 DEF Done, Later
  <2>7. Good(x)
    BY <2>1, <2>4, <2>5, <2>6
  <2> HIDE DEF Good
  <2> QED BY <2>7
<1>14. level \in T
  <2> HIDE DEF T
  <2> QED BY <1>2, <1>12, <1>13, ByChoice
<1> QED BY <1>1, <1>14 DEF D

\* The results of a pass: what had a value has one, and so has every dirty
\* cell when nothing is cut off (Engine::evaluate).
LEMMA PassTyped ==
    ASSUME NEW s, Grounded(s), NEW e, EngineOK(e), Results(e.results, DOMAIN e.results),
           NEW seeds \in [DOMAIN e.groups -> Box], NEW cutoff
    PROVE  LET after == Pass(s, e, seeds, cutoff)
           IN /\ after = [groups |-> e.groups, index |-> e.index, results |-> after.results]
              /\ Results(after.results, DOMAIN e.results)
              /\ Later(e, after, DOMAIN e.results)
              /\ ~ cutoff => \A g \in DOMAIN e.groups : Done(e, seeds, g, after)
<1> DEFINE S == DOMAIN e.results
           G == DOMAIN e.groups
           D == State(e)
           dirty == Marked(e, seeds)
           levels == Levels(e, dirty)
           circular == Circular(e, dirty)
           base == [results |-> Over([p \in circular |-> CircError], e.results),
                    changed |-> [g \in DOMAIN seeds |-> NoRect]]
           n == Len(levels)
           Step(d, level) == EvaluateLevel(s, e, seeds, dirty, cutoff, level, d)
           it == CHOOSE f : f = [x \in SUBSET (1 .. n) |->
                    IF x = {} THEN base ELSE Step(f[x \ {Max(x)}], levels[Max(x)])]
           g0 == [i \in 1 .. n |-> [d \in D |-> Step(d, levels[i])]]
           after == Pass(s, e, seeds, cutoff)
<1>1. dirty \in [G -> Box] /\ \A g \in G : Inside(seeds[g], dirty[g])
  BY MarkedGrows
<1>2. levels \in Seq(SUBSET Wanted(dirty))
  BY <1>1, LevelsTyped
<1>3. n \in Nat /\ DOMAIN levels = 1 .. n /\ \A i \in 1 .. n : levels[i] \in SUBSET G
  <2> DEFINE W == SUBSET Wanted(dirty)
  <2>1. W = SUBSET Wanted(dirty) /\ levels \in Seq(W)
    BY <1>2
  <2>2. Wanted(dirty) \subseteq G
    BY <1>1 DEF Wanted
  <2> HIDE DEF W, levels
  <2> QED BY <2>1, <2>2
<1>4. after = [e EXCEPT !.results = it[1 .. n].results]
  <2>1. FoldLeft(Step, base, levels) = it[1 .. n]
    <3> HIDE DEF n, base, levels, dirty
    <3> QED BY Zenon, <1>3 DEF FoldLeft, MapThenFoldSet
  <2>2. after = [e EXCEPT !.results = FoldLeft(Step, base, levels).results]
    BY Zenon DEF Pass
  <2> QED BY Zenon, <2>1, <2>2
<1>5. circular \subseteq S
  <2>1. \A g \in G : Positions(e.groups[g]) \subseteq S
    BY DEF EngineOK, GroupsOK
  <2>2. Wanted(dirty) \subseteq G
    BY <1>1 DEF Wanted
  <2> HIDE DEF dirty
  <2> QED BY <2>1, <2>2 DEF Circular
<1>6. /\ base \in D /\ Later(e, base, S)
      /\ \A p \in circular : base.results[p] # Unset
  <2> DEFINE V == Value \union {Unset}
             old == e.results
             circ == [p \in circular |-> CircError]
  <2>1. old \in [S -> V] /\ DOMAIN circ = circular
    BY DEF Results
  <2>2. \A p \in circular : circ[p] = CircError
    OBVIOUS
  <2>3. CircError \in V /\ CircError # Unset
    BY DEF Value, CircError, Unset
  <2> HIDE DEF V, old, circ
  <2>4. /\ Over(circ, old) \in [S -> V]
        /\ \A p \in S : Over(circ, old)[p] = IF p \in circular THEN CircError ELSE old[p]
    <3> HIDE DEF S, circular
    <3>1. \A p \in DOMAIN circ : circ[p] \in V
      BY <2>1, <2>2, <2>3
    <3>2. DOMAIN circ \subseteq S
      BY <1>5, <2>1
    <3>3. /\ Over(circ, old) \in [S -> V]
          /\ \A p \in S : Over(circ, old)[p] = IF p \in DOMAIN circ THEN circ[p] ELSE old[p]
      BY <2>1, <3>1, <3>2, OverTyped
    <3> QED BY <2>1, <2>2, <3>3
  <2>5. [g \in DOMAIN seeds |-> NoRect] \in [G -> Box]
    BY DEF Box
  <2>6. base.results = Over(circ, old) /\ base \in D
    BY <2>4, <2>5 DEF circ, old, V, State
  <2> HIDE DEF base, D, circular, S
  <2> QED BY <1>5, <2>3, <2>4, <2>6 DEF Later, old
<1> HIDE DEF base
<1>7. ASSUME NEW d \in D, NEW i \in 1 .. n
      PROVE  /\ Step(d, levels[i]) \in D /\ Later(d, Step(d, levels[i]), S)
             /\ ~ cutoff => \A g \in levels[i] : Done(e, dirty, g, Step(d, levels[i]))
  <2> DEFINE level == levels[i]
  <2>1. level \in SUBSET G /\ d \in State(e)
    BY <1>3
  <2> HIDE DEF level, dirty
  <2> QED BY <2>1, LevelEvaluated DEF level
<1> HIDE DEF n, levels, D, Step
<1>8. \A i \in 1 .. n : \A d \in D : g0[i][d] = Step(d, levels[i]) /\ g0[i][d] \in D
  BY <1>7
<1> HIDE DEF g0
<1>9. PICK h : Solves(h, D, base, n, g0)
  <2>1. \A i \in 1 .. n : \A d \in D : g0[i][d] \in D
    BY <1>8
  <2>2. n \in Nat /\ base \in D
    BY <1>3, <1>6
  <2> HIDE DEF it
  <2> QED BY <2>1, <2>2, FoldSolved
<1>10. \A x \in SUBSET (1 .. n) :
         h[x] = IF x = {} THEN base ELSE Step(h[x \ {Max(x)}], levels[Max(x)])
  BY <1>8, <1>9 DEF Solves
<1>11. h = [x \in SUBSET (1 .. n) |->
               IF x = {} THEN base ELSE Step(h[x \ {Max(x)}], levels[Max(x)])]
  BY <1>9, <1>10 DEF Solves
<1>12. it = [x \in SUBSET (1 .. n) |->
               IF x = {} THEN base ELSE Step(it[x \ {Max(x)}], levels[Max(x)])]
  BY <1>11
<1> HIDE DEF it
<1> DEFINE Good(x) == /\ it[x] \in D /\ Later(base, it[x], S)
                      /\ ~ cutoff => \A i \in x : \A g \in levels[i] : Done(e, dirty, g, it[x])
           T == {x \in SUBSET (1 .. n) : Good(x)}
<1>13. {} \in T
  <2>1. it[{}] = base
    BY <1>12
  <2> QED BY <1>6, <2>1 DEF Later
<1>14. ASSUME NEW x \in SUBSET (1 .. n), x # {}, x \ {Max(x)} \in T
       PROVE  x \in T
  <2> DEFINE k == Max(x)
             r == x \ {k}
             d == it[r]
  <2>1. k \in 1 .. n /\ x = r \union {k} /\ r \subseteq 1 .. n
    BY <1>3, <1>14, LargestInside
  <2>2. d \in D /\ Later(base, d, S)
        /\ (~ cutoff => \A i \in r : \A g \in levels[i] : Done(e, dirty, g, d))
    BY <1>14
  <2>3. it[x] = Step(d, levels[k])
    BY <1>12, <1>14
  <2> HIDE DEF k, r, d, dirty
  <2>4. /\ it[x] \in D /\ Later(d, it[x], S)
        /\ ~ cutoff => \A g \in levels[k] : Done(e, dirty, g, it[x])
    BY <1>7, <2>1, <2>2, <2>3
  <2>5. Later(base, it[x], S)
    BY <2>2, <2>4 DEF Later
  <2>6. ASSUME ~ cutoff, NEW i \in r, NEW g \in levels[i]
        PROVE  Done(e, dirty, g, it[x])
    <3>1. g \in G
      BY <1>3, <2>1
    <3>2. Positions(e.groups[g]) \subseteq S
      BY <3>1 DEF EngineOK, GroupsOK
    <3>3. Done(e, dirty, g, d)
      BY <2>2, <2>6
    <3> QED BY <2>4, <3>2, <3>3 DEF Done, Later
  <2>7. Good(x)
    BY <2>1, <2>4, <2>5, <2>6
  <2> HIDE DEF Good
  <2> QED BY <2>7
<1>15. \A x \in SUBSET (1 .. n) : x \in T
  <2>1. n \in Nat
    BY <1>3
  <2> HIDE DEF T
  <2> QED BY <1>13, <1>14, <2>1, ByLargest
<1> DEFINE last == it[1 .. n]
<1>16. /\ last \in D /\ Later(base, last, S)
       /\ ~ cutoff => \A i \in 1 .. n : \A g \in levels[i] : Done(e, dirty, g, last)
  BY <1>15
<1> HIDE DEF last
<1>17. after = [groups |-> e.groups, index |-> e.index, results |-> last.results]
  BY <1>4 DEF EngineOK, last
<1>18. last.results \in [S -> Value \union {Unset}]
  BY <1>16 DEF D, State
<1> HIDE DEF after
<1>19. after.results = last.results
  BY <1>17
<1>20. Later(e, after, S)
  BY <1>6, <1>16, <1>19 DEF Later
<1>21. ASSUME ~ cutoff, NEW g \in G
       PROVE  Done(e, seeds, g, after)
  <2> SUFFICES ASSUME NEW p \in Positions(e.groups[g]), Covers(seeds[g], p)
               PROVE  last.results[p] # Unset
    BY <1>19 DEF Done
  <2>1. p \in S /\ p \in Coord \X Coord
    BY DEF EngineOK, GroupsOK, MembersOK, Positions
  <2>2. Covers(dirty[g], p) /\ dirty[g] # NoRect
    <3>1. Point(p) \in Box /\ seeds[g] \in Box /\ dirty[g] \in Box
      BY <1>1, <2>1, PointInside DEF Box
    <3>2. Inside(Point(p), seeds[g]) /\ Inside(seeds[g], dirty[g])
      BY <1>1, <2>1, PointInside
    <3>3. Inside(Point(p), dirty[g])
      BY <3>1, <3>2, InsideTwice
    <3>4. Covers(dirty[g], p)
      BY <2>1, <3>3, PointInside
    <3>5. ~ Covers(NoRect, p)
      <4>1. p[1] \in Nat
        BY <2>1 DEF Coord
      <4> QED BY <4>1 DEF NoRect, Covers
    <3> QED BY <3>4, <3>5
  <2>3. CASE g \in Placed(levels)
    <3>1. PICK i \in 1 .. n : g \in levels[i]
      BY <1>3, <2>3 DEF Placed, ToSet
    <3> QED BY <1>16, <1>21, <2>2, <3>1 DEF Done
  <2>4. CASE g \notin Placed(levels)
    <3>1. p \in circular
      BY <1>1, <2>2, <2>4 DEF Circular, Wanted, levels
    <3> QED BY <1>6, <1>16, <2>1, <3>1 DEF Later
  <2> QED BY <2>3, <2>4
<1> QED BY <1>17, <1>18, <1>19, <1>20, <1>21 DEF Results, after

\* Every slot of the engine has a value.
EngineFull(e) == EngineOK(e) /\ e.results \in [DOMAIN e.results -> Value]

\* When every slot has been given a value, the engine is full.
LEMMA PassFills ==
    ASSUME NEW e, EngineOK(e), NEW after,
           after = [groups |-> e.groups, index |-> e.index, results |-> after.results],
           Results(after.results, DOMAIN e.results),
           \A p \in DOMAIN e.results : after.results[p] # Unset
    PROVE  EngineFull(after)
<1> DEFINE S == DOMAIN e.results
<1>1. after.results \in [S -> Value \union {Unset}]
  BY DEF Results
<1>2. after.results \in [S -> Value] /\ DOMAIN after.results = S
  BY <1>1
<1>3. after.groups = e.groups /\ after.index = e.index
  OBVIOUS
<1> QED BY <1>2, <1>3 DEF EngineFull, EngineOK

\* A graph built and evaluated anew gives every formula a value (recalc_all).
LEMMA RecalcAllFull ==
    ASSUME NEW s, SheetOK(s), SheetTyped(s)
    PROVE  EngineFull(RecalcAll(s, Regroup(s)))
<1> DEFINE e == Regroup(s)
           G == DOMAIN e.groups
           seeds == [g \in G |-> e.groups[g].writes]
           after == Pass(s, e, seeds, FALSE)
<1>1. RecalcAll(s, Regroup(s)) = after
  BY DEF RecalcAll
<1>2. /\ EngineOK(e) /\ Results(e.results, DOMAIN e.results)
      /\ \A g \in G : e.groups[g].writes = Bounding(Positions(e.groups[g]))
      /\ \A p \in DOMAIN e.results : \E g \in G : p \in Positions(e.groups[g])
  BY RegroupTyped
<1> HIDE DEF e
<1>3. ASSUME NEW g \in G
      PROVE  seeds[g] \in Box /\ \A p \in Positions(e.groups[g]) : Covers(seeds[g], p)
  <2> DEFINE ms == e.groups[g].members
             P == Positions(e.groups[g])
  <2>1. MembersOK(ms) /\ P = {m.pos : m \in ms}
    BY <1>2 DEF EngineOK, GroupsOK, Positions
  <2>2. IsFiniteSet(P) /\ P \subseteq Coord \X Coord
    <3> HIDE DEF ms, P
    <3>1. ms \in SUBSET ms
      OBVIOUS
    <3> QED BY <2>1, <3>1, PositionsFinite
  <2>3. seeds[g] = Bounding(P)
    BY <1>2
  <2> HIDE DEF seeds, P
  <2> QED BY <2>2, <2>3, BoundingCovers DEF P
<1>4. seeds \in [G -> Box]
  <2>1. \A g \in G : e.groups[g].writes \in Box
    BY <1>3
  <2> QED BY <2>1
<1>5. Grounded(s)
  BY TypedFits
<1> HIDE DEF seeds
<1>6. /\ after = [groups |-> e.groups, index |-> e.index, results |-> after.results]
      /\ Results(after.results, DOMAIN e.results)
      /\ \A g \in G : Done(e, seeds, g, after)
  BY <1>2, <1>4, <1>5, PassTyped
<1> HIDE DEF after
<1>7. \A p \in DOMAIN e.results : after.results[p] # Unset
  BY <1>2, <1>3, <1>6 DEF Done
<1> QED BY <1>1, <1>2, <1>6, <1>7, PassFills

\* A batch of values leaves every formula with a value (recalc_after).
LEMMA RecalcAfterFull ==
    ASSUME NEW s, SheetOK(s), SheetTyped(s), NEW e, EngineFull(e), NEW cells
    PROVE  EngineFull(RecalcAfter(s, e, cells))
<1> DEFINE S == DOMAIN e.results
           G == DOMAIN e.groups
           live == cells \intersect LiveCells(s)
           point == [c \in live |-> Point(Position(s, c))]
           points == {point[c] : c \in live}
           From(g) == {x \in points : g \in Stab(e.index, x)}
           seeds == [g \in G |-> JoinAll({AffectedMembers(e.groups[g], p) : p \in From(g)})]
           after == Pass(s, e, seeds, TRUE)
<1>1. EngineOK(e) /\ e.results \in [S -> Value]
  BY DEF EngineFull
<1>2. RecalcAfter(s, e, cells) = after
  <2>1. points = {Point(Position(s, c)) : c \in cells \intersect LiveCells(s)}
    OBVIOUS
  <2> DEFINE Seeded(ps) == [g \in G |->
                JoinAll({AffectedMembers(e.groups[g], p) : p \in {x \in ps : g \in Stab(e.index, x)}})]
             points2 == {Point(Position(s, c)) : c \in cells \intersect LiveCells(s)}
  <2>2. Seeds(s, e, cells) = Seeded(points2)
    BY Zenon DEF Seeds
  <2> HIDE DEF points
  <2>3. Seeded(points) = seeds
    OBVIOUS
  <2> HIDE DEF Seeded, points2, seeds
  <2>4. points = points2
    BY <2>1 DEF points2
  <2>5. Seeds(s, e, cells) = seeds
    BY <2>2, <2>3, <2>4
  <2> QED BY <2>5 DEF RecalcAfter
<1>3. IsFiniteSet(points)
  <2>1. AxisOK(s.row) /\ AxisOK(s.col)
    BY DEF SheetOK
  <2>2. IsFiniteSet(LiveCells(s))
    <3>1. IsFiniteSet(LiveIds(s.row)) /\ IsFiniteSet(LiveIds(s.col))
      BY <2>1, LiveIdsFinite
    <3> QED BY <3>1, FS_Product DEF LiveCells
  <2>3. IsFiniteSet(live)
    BY <2>2, FS_Subset
  <2> HIDE DEF live, point
  <2> QED BY <2>3, ImageFinite
<1>4. ASSUME NEW g \in G
      PROVE  JoinAll({AffectedMembers(e.groups[g], p) : p \in From(g)}) \in Box
  <2> DEFINE part == From(g)
             f == [p \in part |-> AffectedMembers(e.groups[g], p)]
             T == {f[p] : p \in part}
  <2>1. IsFiniteSet(part)
    <3>1. part \in SUBSET points
      OBVIOUS
    <3> HIDE DEF part, points
    <3> QED BY <1>3, <3>1, FS_Subset
  <2>2. MembersOK(e.groups[g].members)
    BY <1>1 DEF EngineOK, GroupsOK
  <2> HIDE DEF part
  <2>3. T \subseteq Box
    BY <2>2, AffectedTyped
  <2>4. {AffectedMembers(e.groups[g], p) : p \in part} = T
    OBVIOUS
  <2>5. IsFiniteSet(T)
    <3> HIDE DEF f
    <3> QED BY <2>1, ImageFinite
  <2> HIDE DEF T
  <2>6. JoinAll(T) \in Box
    BY <2>3, <2>5, JoinAllHolds
  <2> QED BY <2>4, <2>6 DEF part
<1>5. seeds \in [G -> Box]
  <2> HIDE DEF From
  <2> QED BY <1>4
<1>6. Grounded(s)
  BY TypedFits
<1>7. Results(e.results, S)
  BY <1>1 DEF Results
<1> HIDE DEF seeds
<1>8. /\ after = [groups |-> e.groups, index |-> e.index, results |-> after.results]
      /\ Results(after.results, S)
      /\ Later(e, after, S)
  BY <1>1, <1>5, <1>6, <1>7, PassTyped
<1> HIDE DEF after
<1>9. \A p \in S : after.results[p] # Unset
  <2>1. Unset \notin Value
    BY ModAssumption DEF Value, Number, Unset, RefError, CircError
  <2>2. \A p \in S : e.results[p] # Unset
    BY <1>1, <2>1
  <2> QED BY <1>8, <2>2 DEF Later
<1> QED BY <1>1, <1>2, <1>8, <1>9, PassFills

LEMMA ObserveFull ==
    ASSUME NEW s, SheetOK(s), SheetTyped(s), NEW e, EngineFull(e), NEW ops
    PROVE  EngineFull(Observe(s, e, ops))
<1> DEFINE cells == {op.cell : op \in {o \in ops : o.kind = "value"}}
<1>1. Observe(s, e, ops) = RecalcAll(s, Regroup(s)) \/ Observe(s, e, ops) = RecalcAfter(s, e, cells)
  BY DEF Observe
<1> HIDE DEF cells
<1> QED BY <1>1, RecalcAllFull, RecalcAfterFull

-----------------------------------------------------------------------------
(* Edits keep the sheet typed.                                             *)

Item == [text : Proper, paren : BOOLEAN]

LEMMA TypedSheet ==
    ASSUME NEW s
    PROVE  SheetTyped(s) <=>
            /\ s.stored \in [Cells(s) -> Number \union {Blank}]
            /\ \A c \in Cells(s) : s.formula[c].items \in Seq(Item)
            /\ IdsOf(s.row) \subseteq 1 .. MaxRow /\ Len(s.col) <= Grid
BY DEF SheetTyped, Item

\* What is written on the grid lies on the grid.
LEMMA ItemsTyped ==
    ASSUME NEW s, SheetOK(s), SheetTyped(s), NEW c \in LiveCells(s), NEW f \in Formulas,
           Bindable(s, TypedAt(f, Position(s, c)))
    PROVE  TypedAt(f, Position(s, c)) \in Seq(Item)
<1> DEFINE p == Position(s, c)
           items == TypedAt(f, p)
           R == [at : [1 .. 4 -> Int], paren : BOOLEAN]
           Text(at) == [r0 |-> p[1] + at[1], c0 |-> p[2] + at[2],
                        r1 |-> p[1] + at[3], c1 |-> p[2] + at[4]]
<1>1. items = [i \in DOMAIN f.items |-> [text |-> Text(f.items[i].at), paren |-> f.items[i].paren]]
  BY DEF TypedAt
<1>2. DOMAIN f.items = 1 .. Len(f.items) /\ Len(f.items) \in Nat
      /\ \A i \in DOMAIN f.items : f.items[i].at \in [1 .. 4 -> Int] /\ f.items[i].paren \in BOOLEAN
  <2>1. f.items \in Seq(R)
    BY CalcAssumption
  <2>2. \A x \in R : x.at \in [1 .. 4 -> Int] /\ x.paren \in BOOLEAN
    OBVIOUS
  <2> HIDE DEF R
  <2> QED BY <2>1, <2>2
<1>3. p[1] \in Nat /\ p[2] \in Nat
  BY LivePosition DEF LiveCells, Position, SheetOK
<1>4. /\ Cardinality(LiveIds(s.row)) \in Nat /\ Cardinality(LiveIds(s.row)) <= Grid
      /\ Cardinality(LiveIds(s.col)) \in Nat /\ Cardinality(LiveIds(s.col)) <= Grid
  <2>1. Fits(s.row) /\ Fits(s.col)
    BY TypedFits
  <2>2. IsFiniteSet(LiveIds(s.row)) /\ IsFiniteSet(LiveIds(s.col))
    <3>1. AxisOK(s.row) /\ AxisOK(s.col)
      BY DEF SheetOK
    <3> QED BY <3>1, LiveIdsFinite
  <2>3. Cardinality(LiveIds(s.row)) \in Nat /\ Cardinality(LiveIds(s.col)) \in Nat
    BY <2>2, FS_CardinalityType
  <2> QED BY <2>1, <2>3 DEF Fits
<1>5. ASSUME NEW i \in DOMAIN f.items
      PROVE  [text |-> Text(f.items[i].at), paren |-> f.items[i].paren] \in Item
  <2> DEFINE at == f.items[i].at
             t == Text(at)
  <2>1. items[i].text = t /\ i \in DOMAIN items
    BY <1>1
  <2>2. t.r0 \in Int /\ t.c0 \in Int /\ t.r1 \in Int /\ t.c1 \in Int
    <3>1. at[1] \in Int /\ at[2] \in Int /\ at[3] \in Int /\ at[4] \in Int
      BY <1>2
    <3> HIDE DEF p, at
    <3> QED BY <1>3, <3>1
  <2>3. /\ 0 <= t.r0 /\ t.r0 <= t.r1 /\ t.r1 < Cardinality(LiveIds(s.row))
        /\ 0 <= t.c0 /\ t.c0 <= t.c1 /\ t.c1 < Cardinality(LiveIds(s.col))
    <3> HIDE DEF t, items
    <3> QED BY <2>1 DEF Bindable, items
  <2>4. t = [r0 |-> t.r0, r1 |-> t.r1, c0 |-> t.c0, c1 |-> t.c1]
    OBVIOUS
  <2> HIDE DEF t
  <2>5. t.r0 \in Coord /\ t.r1 \in Coord /\ t.c0 \in Coord /\ t.c1 \in Coord
    BY <1>4, <2>2, <2>3, RectanglesAssumption DEF Coord
  <2>6. t \in Rect
    BY <2>4, <2>5 DEF Rect
  <2>7. t \in Proper
    BY <2>3, <2>6 DEF Proper
  <2> QED BY <1>2, <2>7 DEF Item, t
<1> DEFINE new == [i \in DOMAIN f.items |-> [text |-> Text(f.items[i].at), paren |-> f.items[i].paren]]
<1>6. new \in Seq(Item)
  <2> HIDE DEF Text, p
  <2> QED BY <1>2, <1>5
<1> QED BY <1>1, <1>6

LEMMA SetCellTyped ==
    ASSUME SheetOK(sheet), SheetTyped(sheet), NEW c \in LiveCells(sheet), NEW v \in Typed,
           SetCell(c, v)
    PROVE  SheetTyped(sheet')
<1>1. c \in Cells(sheet)
  BY LiveInIds DEF LiveCells, Cells
<1>2. sheet' = [row |-> sheet.row, col |-> sheet.col,
                stored |-> [sheet.stored EXCEPT ![c] = v],
                formula |-> [sheet.formula EXCEPT ![c] = NoFormula]]
  BY DEF SetCell, SheetOK
<1>3. /\ sheet'.row = sheet.row /\ sheet'.col = sheet.col
      /\ sheet'.stored = [sheet.stored EXCEPT ![c] = v]
      /\ sheet'.formula = [sheet.formula EXCEPT ![c] = NoFormula]
  BY <1>2
<1>4. Cells(sheet') = Cells(sheet)
  BY <1>3 DEF Cells
<1>5. sheet'.stored \in [Cells(sheet) -> Number \union {Blank}]
  BY <1>3, CalcAssumption, TypedSheet
<1>6. ASSUME NEW x \in Cells(sheet)
      PROVE  sheet'.formula[x].items \in Seq(Item)
  <2>1. sheet'.formula[x] = IF x = c THEN NoFormula ELSE sheet.formula[x]
    BY <1>3 DEF SheetOK
  <2>2. NoFormula.items \in Seq(Item)
    BY DEF NoFormula
  <2>3. sheet.formula[x].items \in Seq(Item)
    BY TypedSheet
  <2> QED BY <2>1, <2>2, <2>3
<1> QED BY <1>3, <1>4, <1>5, <1>6, TypedSheet

LEMMA SetFormulaTyped ==
    ASSUME SheetOK(sheet), SheetTyped(sheet), NEW c \in LiveCells(sheet), NEW f \in Formulas,
           SetFormula(c, f)
    PROVE  SheetTyped(sheet')
<1> DEFINE new == Formula(sheet, f, c)
<1>1. sheet' = [row |-> sheet.row, col |-> sheet.col, stored |-> sheet.stored,
                formula |-> [sheet.formula EXCEPT ![c] = new]]
  BY DEF SetFormula, SheetOK
<1>2. new.items \in Seq(Item)
  <2>1. new.items = TypedAt(f, Position(sheet, c))
    BY DEF Formula
  <2>2. TypedAt(f, Position(sheet, c)) \in Seq(Item)
    BY ItemsTyped DEF SetFormula
  <2> QED BY <2>1, <2>2
<1> HIDE DEF new
<1>3. /\ sheet'.row = sheet.row /\ sheet'.col = sheet.col /\ sheet'.stored = sheet.stored
      /\ sheet'.formula = [sheet.formula EXCEPT ![c] = new]
  BY <1>1
<1>4. Cells(sheet') = Cells(sheet)
  BY <1>3 DEF Cells
<1>5. ASSUME NEW x \in Cells(sheet)
      PROVE  sheet'.formula[x].items \in Seq(Item)
  <2>1. sheet'.formula[x] = IF x = c THEN new ELSE sheet.formula[x]
    BY <1>3 DEF SheetOK
  <2>2. sheet.formula[x].items \in Seq(Item)
    BY TypedSheet
  <2> QED BY <1>2, <2>1, <2>2
<1> QED BY <1>3, <1>4, <1>5, TypedSheet

LEMMA LiveTyped ==
    ASSUME SheetOK(sheet), SheetTyped(sheet), NEW row, NEW col,
           IdsOf(row) = IdsOf(sheet.row), IdsOf(col) = IdsOf(sheet.col),
           Len(col) = Len(sheet.col),
           sheet' = [row |-> row, col |-> col, stored |-> sheet.stored, formula |-> sheet.formula]
    PROVE  SheetTyped(sheet')
<1>1. /\ sheet'.row = row /\ sheet'.col = col /\ sheet'.stored = sheet.stored
      /\ sheet'.formula = sheet.formula
  OBVIOUS
<1>2. Cells(sheet') = Cells(sheet)
  BY <1>1 DEF Cells
<1> QED BY <1>1, <1>2, TypedSheet

LEMMA InsertRowTyped ==
    ASSUME SheetOK(sheet), SheetTyped(sheet), NEW before, InsertRow(before)
    PROVE  SheetTyped(sheet')
<1> DEFINE id == Max(IdsOf(sheet.row)) + 1
           anchor == IF before = 0 THEN 0 ELSE At(sheet.row, before - 1)
           row == InsertAfter(sheet.row, anchor, id)
           new == {id} \X IdsOf(sheet.col)
<1>1. /\ sheet' = [row |-> row, col |-> sheet.col, stored |-> Grown(sheet.stored, new, Blank),
                   formula |-> Grown(sheet.formula, new, NoFormula)]
      /\ id <= MaxRow
  BY DEF InsertRow
<1>2. AxisOK(sheet.row) /\ sheet.row # <<>> /\ DOMAIN sheet.formula = Cells(sheet)
  BY DEF SheetOK
<1>3. id \in Nat \ IdsOf(sheet.row) /\ id # 0
  <2>1. id \in Nat \ IdsOf(sheet.row)
    BY <1>2, NextIdFresh
  <2>2. IdsOf(sheet.row) \subseteq 1 .. MaxRow /\ IdsOf(sheet.row) # {}
    <3>1. DOMAIN sheet.row # {}
      BY <1>2, LenProperties, EmptySeq DEF AxisOK
    <3> QED BY <3>1 DEF IdsOf, SheetTyped
  <2>3. Max(IdsOf(sheet.row)) \in Nat
    <3> DEFINE ids == IdsOf(sheet.row)
    <3>1. ids \subseteq Nat /\ ids # {} /\ MaxRow \in Nat /\ \A y \in ids : y <= MaxRow
      BY <2>2, CalcAssumption
    <3> HIDE DEF ids
    <3>2. Max(ids) \in ids
      BY <3>1, MaxIsGreatest
    <3> QED BY <3>1, <3>2 DEF ids
  <2> QED BY <2>1, <2>3
<1> HIDE DEF id, anchor
<1>4. IdsOf(row) = IdsOf(sheet.row) \cup {id}
  BY <1>2, <1>3, InsertAfterKeeps
<1> HIDE DEF row, new
<1>5. /\ sheet'.row = row /\ sheet'.col = sheet.col
      /\ sheet'.stored = Grown(sheet.stored, new, Blank)
      /\ sheet'.formula = Grown(sheet.formula, new, NoFormula)
  BY <1>1
<1>6. Cells(sheet') = Cells(sheet) \union new
  BY <1>4, <1>5 DEF Cells, new
<1>7. sheet'.stored \in [Cells(sheet) \union new -> Number \union {Blank}]
  <2>1. sheet.stored \in [Cells(sheet) -> Number \union {Blank}]
    BY TypedSheet
  <2> QED BY <1>5, <2>1 DEF Grown
<1>8. ASSUME NEW x \in Cells(sheet) \union new
      PROVE  sheet'.formula[x].items \in Seq(Item)
  <2>1. sheet'.formula[x] = IF x \in new THEN NoFormula ELSE sheet.formula[x]
    BY <1>2, <1>5 DEF Grown
  <2>2. NoFormula.items \in Seq(Item)
    BY DEF NoFormula
  <2>3. x \notin new => sheet.formula[x].items \in Seq(Item)
    BY TypedSheet
  <2> QED BY <2>1, <2>2, <2>3
<1>9. IdsOf(row) \subseteq 1 .. MaxRow
  <2>1. id \in 1 .. MaxRow
    BY <1>1, <1>3, CalcAssumption
  <2> QED BY <1>4, <2>1, TypedSheet
<1>10. Len(sheet.col) <= Grid
  BY TypedSheet
<1> QED BY <1>5, <1>6, <1>7, <1>8, <1>9, <1>10, TypedSheet

LEMMA TypedStep ==
    ASSUME SheetOK(sheet), SheetTyped(sheet), [Next]_vars
    PROVE  SheetTyped(sheet')
<1>0. AxisOK(sheet.row) /\ AxisOK(sheet.col)
  BY DEF SheetOK
<1>1. ASSUME NEW c \in LiveCells(sheet), NEW v \in Typed, SetCell(c, v)
      PROVE  SheetTyped(sheet')
  BY <1>1, SetCellTyped
<1>2. ASSUME NEW c \in LiveCells(sheet), NEW f \in Formulas, SetFormula(c, f)
      PROVE  SheetTyped(sheet')
  BY <1>2, SetFormulaTyped
<1>3. ASSUME NEW before \in 0 .. Cardinality(LiveIds(sheet.row)), InsertRow(before)
      PROVE  SheetTyped(sheet')
  BY <1>3, InsertRowTyped
<1>4. ASSUME NEW id \in IdsOf(sheet.row), NEW live \in BOOLEAN,
             sheet' = [sheet EXCEPT !.row = SetLive(@, id, live)]
      PROVE  SheetTyped(sheet')
  <2> DEFINE new == SetLive(sheet.row, id, live)
  <2>1. sheet' = [row |-> new, col |-> sheet.col, stored |-> sheet.stored, formula |-> sheet.formula]
    BY <1>4 DEF SheetOK
  <2>2. IdsOf(new) = IdsOf(sheet.row)
    BY <1>0, SetLiveKeeps
  <2> HIDE DEF new
  <2> QED BY <2>1, <2>2, LiveTyped
<1>5. ASSUME NEW id \in IdsOf(sheet.col), NEW live \in BOOLEAN,
             sheet' = [sheet EXCEPT !.col = SetLive(@, id, live)]
      PROVE  SheetTyped(sheet')
  <2> DEFINE new == SetLive(sheet.col, id, live)
  <2>1. sheet' = [row |-> sheet.row, col |-> new, stored |-> sheet.stored, formula |-> sheet.formula]
    BY <1>5 DEF SheetOK
  <2>2. IdsOf(new) = IdsOf(sheet.col) /\ Len(new) = Len(sheet.col)
    BY <1>0, SetLiveKeeps
  <2> HIDE DEF new
  <2> QED BY <2>1, <2>2, LiveTyped
<1>6. ASSUME NEW id \in LiveIds(sheet.row), DeleteRow(id)
      PROVE  SheetTyped(sheet')
  <2>1. id \in IdsOf(sheet.row)
    BY LiveInIds
  <2> QED BY <1>4, <1>6, <2>1 DEF DeleteRow
<1>7. ASSUME NEW id \in IdsOf(sheet.row), UndeleteRow(id)
      PROVE  SheetTyped(sheet')
  BY <1>4, <1>7 DEF UndeleteRow
<1>8. ASSUME NEW id \in LiveIds(sheet.col), DeleteCol(id)
      PROVE  SheetTyped(sheet')
  <2>1. id \in IdsOf(sheet.col)
    BY LiveInIds
  <2> QED BY <1>5, <1>8, <2>1 DEF DeleteCol
<1>9. CASE sheet' = sheet
  BY <1>9
<1>10. Settle \/ UNCHANGED vars => sheet' = sheet
  BY DEF Settle, vars
<1> QED BY <1>1, <1>2, <1>3, <1>6, <1>7, <1>8, <1>9, <1>10 DEF Next

\* What holds of a session in every reachable state.
CalcInv ==
    /\ SheetOK(sheet) /\ SheetTyped(sheet)
    /\ EngineFull(engine)
    /\ left \in Nat

LEMMA CalcStep ==
    ASSUME CalcInv, [Next]_vars
    PROVE  CalcInv'
<1>1. SheetOK(sheet') /\ SheetTyped(sheet')
  BY SheetStep, TypedStep DEF CalcInv
<1>2. \/ \E op : Record(op)
      \/ Settle
      \/ UNCHANGED vars
  <2>1. CASE Next
    BY <2>1 DEF Next, SetCell, SetFormula, InsertRow, DeleteRow, UndeleteRow, DeleteCol
  <2> QED BY <2>1
<1>3. CASE \E op : Record(op)
  <2>1. engine' = engine /\ left > 0 /\ left' = left - 1
    BY <1>3 DEF Record
  <2>2. left' \in Nat
    BY <2>1 DEF CalcInv
  <2> QED BY <1>1, <2>1, <2>2 DEF CalcInv
<1>4. CASE Settle
  <2>1. engine' = Observe(sheet, engine, batch) /\ left' = left
    BY <1>4 DEF Settle
  <2>2. EngineFull(engine')
    BY <2>1, ObserveFull DEF CalcInv
  <2> QED BY <1>1, <2>1, <2>2 DEF CalcInv
<1>5. CASE UNCHANGED vars
  BY <1>5 DEF CalcInv, vars
<1> QED BY <1>2, <1>3, <1>4, <1>5

\* Every formula has a result, a number or an error, after every edit and in
\* whatever batches (recalc_all, recalc_after): no pass ends with a slot that
\* nothing was written to.
THEOREM CalcTypes == Spec => []TypeOK
<1>1. Init => CalcInv
  <2> SUFFICES ASSUME Init
               PROVE  CalcInv
    OBVIOUS
  <2>1. SheetOK(sheet) /\ SheetTyped(sheet) /\ left \in Nat
    BY CalcAssumption DEF Init
  <2>2. EngineFull(engine)
    BY <2>1, RecalcAllFull DEF Init, Opened
  <2> QED BY <2>1, <2>2 DEF CalcInv
<1>2. CalcInv /\ [Next]_vars => CalcInv'
  BY CalcStep
<1>3. CalcInv => TypeOK
  <2> SUFFICES ASSUME CalcInv
               PROVE  TypeOK
    OBVIOUS
  <2>1. sheet.stored \in [Cells(sheet) -> Number \union {Blank}]
    BY DEF CalcInv, SheetTyped
  <2>2. DOMAIN sheet.formula = Cells(sheet)
    BY DEF CalcInv, SheetOK
  <2>3. \A p \in DOMAIN engine.results : engine.results[p] \in Number \union {RefError, CircError}
    BY DEF CalcInv, EngineFull, Value
  <2> QED BY <2>1, <2>2, <2>3 DEF TypeOK, CalcInv
<1> QED BY <1>1, <1>2, <1>3, PTL DEF Spec

\* The fold behind a union of rectangles.
LEMMA JoinAllFolds ==
    ASSUME NEW S, IsFiniteSet(S), S \subseteq Box
    PROVE  \E it, ch :
            /\ Chooses(ch, S) /\ JoinAll(S) = it[S]
            /\ \A s \in SUBSET S : it[s] = IF s = {} THEN NoRect ELSE Join(ch[s], it[s \ {ch[s]}])
<1> DEFINE it == CHOOSE f : f = [s \in SUBSET S |->
                    IF s = {} THEN NoRect
                    ELSE Join(CHOOSE x \in s : TRUE, f[s \ {CHOOSE x \in s : TRUE}])]
           ch == [s \in SUBSET S |-> CHOOSE x \in s : TRUE]
           g == [x \in S |-> [d \in Box |-> Join(x, d)]]
<1>1. JoinAll(S) = it[S]
  BY Zenon DEF JoinAll, FoldSet, MapThenFoldSet
<1>2. Chooses(ch, S)
  BY DEF Chooses
<1>3. \A x \in S : \A d \in Box : g[x][d] = Join(x, d) /\ g[x][d] \in Box
  BY JoinHolds
<1>4. \A s \in SUBSET S : ch[s] = CHOOSE x \in s : TRUE
  OBVIOUS
<1> HIDE DEF g, ch
<1>5. NoRect \in Box
  BY DEF Box
<1>6. PICK h : Folds(h, S, Box, NoRect, ch, g)
  BY <1>2, <1>3, <1>5, FoldIsMade
<1>7. h \in [SUBSET S -> Box]
  BY <1>6 DEF Folds
<1>8. ASSUME NEW s \in SUBSET S
      PROVE  h[s] = IF s = {} THEN NoRect
                    ELSE Join(CHOOSE x \in s : TRUE, h[s \ {CHOOSE x \in s : TRUE}])
  <2>1. CASE s = {}
    BY <1>6, <2>1 DEF Folds
  <2>2. CASE s # {}
    <3>1. h[s] = g[ch[s]][h[s \ {ch[s]}]]
      BY <1>6, <2>2 DEF Folds
    <3>2. ch[s] \in S /\ s \ {ch[s]} \in SUBSET S
      BY <1>2, <2>2 DEF Chooses
    <3>3. h[s] = Join(ch[s], h[s \ {ch[s]}])
      BY <1>3, <1>7, <3>1, <3>2
    <3> QED BY <1>4, <2>2, <3>3
  <2> QED BY <2>1, <2>2
<1>9. h = [s \in SUBSET S |-> IF s = {} THEN NoRect
                    ELSE Join(CHOOSE x \in s : TRUE, h[s \ {CHOOSE x \in s : TRUE}])]
  BY <1>7, <1>8
<1>10. it = [s \in SUBSET S |-> IF s = {} THEN NoRect
                    ELSE Join(CHOOSE x \in s : TRUE, it[s \ {CHOOSE x \in s : TRUE}])]
  BY <1>9
<1> HIDE DEF it
<1>11. ASSUME NEW s \in SUBSET S
       PROVE  it[s] = IF s = {} THEN NoRect ELSE Join(ch[s], it[s \ {ch[s]}])
  BY <1>4, <1>10
<1> QED BY <1>1, <1>2, <1>11

\* What holds two rectangles holds their union.
LEMMA JoinWithin ==
    ASSUME NEW a \in Box, NEW b \in Box, NEW c \in Box, Inside(a, c), Inside(b, c)
    PROVE  Inside(Join(a, b), c)
<1>1. /\ a.r0 \in Int /\ a.r1 \in Int /\ a.c0 \in Int /\ a.c1 \in Int
      /\ b.r0 \in Int /\ b.r1 \in Int /\ b.c0 \in Int /\ b.c1 \in Int
      /\ c.r0 \in Int /\ c.r1 \in Int /\ c.c0 \in Int /\ c.c1 \in Int
  BY BoxSides
<1>2. /\ Join(a, b).r0 = Lower(a.r0, b.r0) /\ Join(a, b).r1 = Upper(a.r1, b.r1)
      /\ Join(a, b).c0 = Lower(a.c0, b.c0) /\ Join(a, b).c1 = Upper(a.c1, b.c1)
  BY DEF Join
<1> QED BY <1>1, <1>2 DEF Inside, Lower, Upper

\* An absent rectangle is inside every one.
LEMMA NoneInside ==
    ASSUME NEW c \in Box
    PROVE  Inside(NoRect, c)
<1>1. c.r0 \in 0 .. Grid /\ c.r1 \in -1 .. Grid - 1 /\ c.c0 \in 0 .. Grid /\ c.c1 \in -1 .. Grid - 1
  BY BoxSides
<1> QED BY <1>1, RectanglesAssumption DEF Inside, NoRect

\* What holds each rectangle holds their union.
LEMMA JoinAllWithin ==
    ASSUME NEW S, IsFiniteSet(S), S \subseteq Box, NEW c \in Box, \A r \in S : Inside(r, c)
    PROVE  Inside(JoinAll(S), c)
<1>1. PICK it, ch :
            /\ Chooses(ch, S) /\ JoinAll(S) = it[S]
            /\ \A s \in SUBSET S : it[s] = IF s = {} THEN NoRect ELSE Join(ch[s], it[s \ {ch[s]}])
  BY JoinAllFolds
<1> DEFINE T == {s \in SUBSET S : it[s] \in Box /\ Inside(it[s], c)}
<1>2. {} \in T
  BY <1>1, NoneInside DEF Box
<1>3. ASSUME NEW s \in SUBSET S, s # {}, s \ {ch[s]} \in T
      PROVE  s \in T
  <2>1. ch[s] \in S
    BY <1>1, <1>3 DEF Chooses
  <2>2. it[s] = Join(ch[s], it[s \ {ch[s]}])
    BY <1>1, <1>3
  <2>3. it[s \ {ch[s]}] \in Box /\ Inside(it[s \ {ch[s]}], c)
    BY <1>3
  <2>4. it[s] \in Box
    BY <2>1, <2>2, <2>3, JoinHolds
  <2>5. Inside(it[s], c)
    BY <2>1, <2>2, <2>3, JoinWithin
  <2> QED BY <2>4, <2>5
<1>4. S \in T
  <2> HIDE DEF T
  <2> QED BY <1>1, <1>2, <1>3, ByChoice
<1> QED BY <1>1, <1>4

\* What covers each of some cells holds their bounding rectangle.
LEMMA BoundingWithin ==
    ASSUME NEW P, IsFiniteSet(P), P \subseteq Coord \X Coord, NEW c \in Box,
           \A p \in P : Covers(c, p)
    PROVE  Inside(Bounding(P), c)
<1> DEFINE S == {Point(p) : p \in P}
           f == [p \in P |-> Point(p)]
<1>1. S = {f[p] : p \in P}
  OBVIOUS
<1>2. IsFiniteSet({f[p] : p \in P})
  <2> HIDE DEF f
  <2> QED BY ImageFinite
<1>3. S \subseteq Box /\ \A r \in S : Inside(r, c)
  BY PointInside DEF Box
<1>4. Bounding(P) = JoinAll(S)
  BY DEF Bounding
<1> HIDE DEF S, f
<1> QED BY <1>1, <1>2, <1>3, <1>4, JoinAllWithin

\* A box inside another covers no cell the other does not.
LEMMA CoversInside ==
    ASSUME NEW a \in Box, NEW b \in Box, Inside(a, b), NEW p \in Coord \X Coord, Covers(a, p)
    PROVE  Covers(b, p)
<1>1. Point(p) \in Box /\ Inside(Point(p), a)
  BY PointInside DEF Box
<1>2. Inside(Point(p), b)
  BY <1>1, InsideTwice
<1> QED BY <1>2, PointInside

\* NoRect covers no cell.
LEMMA NoneCovered ==
    ASSUME NEW p \in Coord \X Coord
    PROVE  ~ Covers(NoRect, p)
<1>1. p[1] \in Nat
  BY DEF Coord
<1> QED BY <1>1 DEF NoRect, Covers

\* Rectangles that cover one cell overlap.
LEMMA CoverOverlap ==
    ASSUME NEW a \in Box, NEW b \in Box, NEW p \in Coord \X Coord, Covers(a, p), Covers(b, p)
    PROVE  Overlaps(a, b) /\ a \in Proper /\ b \in Proper
<1>1. a \in Proper /\ b \in Proper
  BY NoneCovered DEF Box
<1>2. p[1] \in Int /\ p[2] \in Int
  BY DEF Coord
<1>3. /\ a.r0 \in Int /\ a.r1 \in Int /\ a.c0 \in Int /\ a.c1 \in Int
      /\ b.r0 \in Int /\ b.r1 \in Int /\ b.c0 \in Int /\ b.c1 \in Int
  BY BoxSides
<1> QED BY <1>1, <1>2, <1>3 DEF Covers, Overlaps

\* What overlaps a box overlaps every box around it.
LEMMA OverlapInside ==
    ASSUME NEW x \in Box, NEW a \in Box, NEW b \in Box, Inside(a, b), Overlaps(x, a)
    PROVE  Overlaps(x, b)
<1>1. /\ a.r0 \in Int /\ a.r1 \in Int /\ a.c0 \in Int /\ a.c1 \in Int
      /\ b.r0 \in Int /\ b.r1 \in Int /\ b.c0 \in Int /\ b.c1 \in Int
      /\ x.r0 \in Int /\ x.r1 \in Int /\ x.c0 \in Int /\ x.c1 \in Int
  BY BoxSides
<1> QED BY <1>1 DEF Inside, Overlaps

\* A running number below h * w, split into a row and a column of a grid of h by w.
LEMMA ScaledBelow ==
    ASSUME NEW w \in Nat \ {0}, NEW h \in Nat, NEW k \in Nat, k < h * w
    PROVE  k \div w \in 0 .. h - 1 /\ k % w \in 0 .. w - 1
<1> DEFINE q == k \div w
<1>1. q \in Int /\ k % w \in 0 .. w - 1 /\ k = w * q + (k % w)
  OBVIOUS
<1>2. q >= 0
  OBVIOUS
<1>3. q < h
  <2> SUFFICES ASSUME q >= h
               PROVE  FALSE
    BY <1>1
  <2> HIDE DEF q
  <2> DEFINE d == q - h
  <2>1. d \in Nat /\ q = h + d
    BY <1>1
  <2>2. w * q = w * h + w * d
    <3> HIDE DEF d
    <3> QED BY <2>1
  <2>3. w * d \in Nat /\ w * h = h * w /\ w * h \in Nat
    <3> HIDE DEF d
    <3> QED BY <2>1
  <2> HIDE DEF d
  <2> DEFINE x == w * d
             y == w * h
             z == w * q
             u == h * w
             v == k % w
  <2>4. z = y + x /\ x \in Nat /\ y = u /\ y \in Nat /\ k = z + v /\ v >= 0 /\ v \in Int /\ k < u
    BY <1>1, <2>2, <2>3
  <2> HIDE DEF x, y, z, u, v
  <2> QED BY <2>4
<1> QED BY <1>1, <1>2, <1>3

\* A rectangle's cells are read, and no other.
LEMMA ReadingCovered ==
    ASSUME NEW r \in Proper, NEW j \in DOMAIN Reading(r)
    PROVE  Reading(r)[j] \in Coord \X Coord /\ Covers(r, Reading(r)[j])
<1> DEFINE w == r.c1 - r.c0 + 1
           h == r.r1 - r.r0 + 1
           size == h * w
           k == j - 1
<1>1. r.r0 \in Nat /\ r.r1 \in Nat /\ r.c0 \in Nat /\ r.c1 \in Nat
      /\ r.r0 <= r.r1 /\ r.c0 <= r.c1 /\ r.r1 <= Grid - 1 /\ r.c1 <= Grid - 1
  BY RectanglesAssumption DEF Proper, Rect, Coord
<1>2. w \in Nat \ {0} /\ h \in Nat \ {0}
  BY <1>1
<1>3. Reading(r) = [i \in 1 .. size |-> <<r.r0 + (i - 1) \div w, r.c0 + ((i - 1) % w)>>]
  BY DEF Reading
<1>4. size \in Nat
  <2> HIDE DEF w, h
  <2> QED BY <1>2
<1>5. j \in 1 .. size
  BY <1>3
<1> HIDE DEF size, w, h
<1>6. k \in Nat /\ k < size
  BY <1>4, <1>5
<1>7. Reading(r)[j] = <<r.r0 + k \div w, r.c0 + (k % w)>>
  BY <1>3, <1>5
<1> HIDE DEF k
<1>8. k \div w \in 0 .. h - 1 /\ k % w \in 0 .. w - 1
  BY <1>2, <1>6, ScaledBelow DEF size
<1>9. k \div w <= r.r1 - r.r0 /\ k % w <= r.c1 - r.c0
  BY <1>1, <1>8 DEF w, h
<1> DEFINE a == k \div w
           b == k % w
<1>10. a \in Nat /\ b \in Nat /\ a <= r.r1 - r.r0 /\ b <= r.c1 - r.c0
  BY <1>2, <1>8, <1>9
<1> HIDE DEF a, b
<1>11. r.r0 + a \in Coord /\ r.c0 + b \in Coord
  BY <1>1, <1>10, RectanglesAssumption DEF Coord
<1>12. Covers(r, <<r.r0 + a, r.c0 + b>>)
  BY <1>1, <1>10 DEF Covers
<1> QED BY <1>7, <1>11, <1>12 DEF a, b

-----------------------------------------------------------------------------
(* Positions and live cells.                                               *)

\* A live identity has an ordinal below the count of live ones.
LEMMA OrdinalBelow ==
    ASSUME NEW axis, AxisOK(axis), NEW id \in LiveIds(axis)
    PROVE  PositionOf(axis, id) \in Nat /\ PositionOf(axis, id) < Cardinality(LiveIds(axis))
<1> DEFINE k == PlaceOf(axis, id)
<1>1. k \in DOMAIN axis /\ axis[k].live
  BY LivePlace, LiveInIds, IdAtPlace
<1>2. Len(axis) \in Nat /\ DOMAIN axis = 1 .. Len(axis)
  BY LenProperties DEF AxisOK
<1>3. Before(axis, k) < Before(axis, Len(axis) + 1)
  <2> HIDE DEF k
  <2> QED BY <1>1, <1>2, BeforeStrict
<1> QED BY <1>3, LiveCount, LivePosition DEF PositionOf

\* On the grid, positions and live cells are each other's.
LEMMA CellThere ==
    ASSUME NEW s, Fits(s.row), Fits(s.col)
    PROVE  /\ \A p \in Coord \X Coord : OnGrid(s, p) =>
                CellAt(s, p) \in LiveCells(s) /\ Position(s, CellAt(s, p)) = p
           /\ \A c \in LiveCells(s) : /\ Position(s, c) \in Coord \X Coord
                                      /\ OnGrid(s, Position(s, c))
                                      /\ CellAt(s, Position(s, c)) = c
           /\ \A c, d \in LiveCells(s) : Position(s, c) = Position(s, d) => c = d
<1>1. AxisOK(s.row) /\ AxisOK(s.col)
  BY DEF Fits
<1>2. ASSUME NEW p \in Coord \X Coord, OnGrid(s, p)
      PROVE  CellAt(s, p) \in LiveCells(s) /\ Position(s, CellAt(s, p)) = p
  <2>1. p[1] \in Nat /\ p[2] \in Nat /\ p = <<p[1], p[2]>>
    BY DEF Coord
  <2>2. p[1] < Cardinality(LiveIds(s.row)) /\ p[2] < Cardinality(LiveIds(s.col))
    BY <1>2 DEF OnGrid
  <2>3. At(s.row, p[1]) \in LiveIds(s.row) /\ PositionOf(s.row, At(s.row, p[1])) = p[1]
    BY <1>1, <2>1, <2>2, AtBound
  <2>4. At(s.col, p[2]) \in LiveIds(s.col) /\ PositionOf(s.col, At(s.col, p[2])) = p[2]
    BY <1>1, <2>1, <2>2, AtBound
  <2> QED BY <2>1, <2>3, <2>4 DEF CellAt, LiveCells, Position
<1>3. \A c \in LiveCells(s) : c[1] \in LiveIds(s.row) /\ c[2] \in LiveIds(s.col) /\ c = <<c[1], c[2]>>
  BY DEF LiveCells
<1>4. ASSUME NEW c \in LiveCells(s), NEW d \in LiveCells(s), Position(s, c) = Position(s, d)
      PROVE  c = d
  <2>1. PositionOf(s.row, c[1]) = PositionOf(s.row, d[1])
        /\ PositionOf(s.col, c[2]) = PositionOf(s.col, d[2])
    BY <1>4 DEF Position
  <2>2. c[1] = d[1] /\ c[2] = d[2]
    BY <1>3, <2>1, LiveOrdinal
  <2> QED BY <1>3, <2>2
<1>5. ASSUME NEW c \in LiveCells(s)
      PROVE  Position(s, c) \in Coord \X Coord /\ OnGrid(s, Position(s, c))
  <2>1. Position(s, c) = <<PositionOf(s.row, c[1]), PositionOf(s.col, c[2])>>
    BY DEF Position
  <2>2. PositionOf(s.row, c[1]) \in Coord /\ PositionOf(s.col, c[2]) \in Coord
    BY <1>3, LiveOrdinal
  <2>3. /\ PositionOf(s.row, c[1]) < Cardinality(LiveIds(s.row))
        /\ PositionOf(s.col, c[2]) < Cardinality(LiveIds(s.col))
    BY <1>1, <1>3, OrdinalBelow
  <2> QED BY <2>1, <2>2, <2>3 DEF OnGrid
<1> QED BY <1>2, <1>4, <1>5

\* What a reference covers is on the grid.
LEMMA ResolvedOnGrid ==
    ASSUME NEW s, Fits(s.row), Fits(s.col), NEW b, NEW p \in Coord \X Coord,
           Covers(Resolved(s, b), p)
    PROVE  OnGrid(s, p)
<1> DEFINE rows == Resolve(s.row, b.rows[1], b.rows[2])
           cols == Resolve(s.col, b.cols[1], b.cols[2])
           R == {PositionOf(s.row, s.row[i].id) : i \in rows}
           C == {PositionOf(s.col, s.col[i].id) : i \in cols}
<1>1. rows # {} /\ cols # {}
  BY NoneCovered DEF Resolved
<1>2. Resolved(s, b) = [r0 |-> Min(R), r1 |-> Max(R), c0 |-> Min(C), c1 |-> Max(C)]
  BY <1>1 DEF Resolved
<1>3. ASSUME NEW axis, Fits(axis), NEW x, NEW y, Resolve(axis, x, y) # {},
             NEW n \in Coord, n <= Max({PositionOf(axis, axis[i].id) : i \in Resolve(axis, x, y)})
      PROVE  n < Cardinality(LiveIds(axis))
  <2> DEFINE S == Resolve(axis, x, y)
             P == {PositionOf(axis, axis[i].id) : i \in S}
  <2>1. \A i \in S : axis[i].id \in LiveIds(axis)
    <3>1. S \subseteq DOMAIN axis
      BY <1>3, ResolveConvex DEF Fits
    <3>2. \A i \in S : axis[i].live
      BY ResolvedPlaces
    <3> QED BY <3>1, <3>2 DEF LiveIds
  <2>2. \A q \in P : q \in Coord /\ q < Cardinality(LiveIds(axis))
    BY <1>3, <2>1, LiveOrdinal, OrdinalBelow DEF Fits
  <2>3. P # {}
    BY <1>3
  <2> HIDE DEF P
  <2>4. P \subseteq Nat /\ Grid - 1 \in Nat /\ \A q \in P : q <= Grid - 1
    BY <2>2, RectanglesAssumption DEF Coord
  <2>5. Max(P) \in P
    BY <2>3, <2>4, MaxIsGreatest
  <2>6. Max(P) \in Nat /\ Max(P) < Cardinality(LiveIds(axis)) /\ n <= Max(P)
    BY <1>3, <2>2, <2>4, <2>5 DEF P
  <2>7. Cardinality(LiveIds(axis)) \in Nat
    BY <1>3, LiveIdsFinite, FS_CardinalityType DEF Fits
  <2> QED BY <2>6, <2>7 DEF Coord
<1>4. p[1] \in Coord /\ p[2] \in Coord /\ p[1] <= Max(R) /\ p[2] <= Max(C)
  <2> HIDE DEF R, C
  <2> QED BY <1>2 DEF Covers
<1>5. p[1] < Cardinality(LiveIds(s.row))
  BY <1>1, <1>3, <1>4
<1>6. p[2] < Cardinality(LiveIds(s.col))
  BY <1>1, <1>3, <1>4
<1> QED BY <1>5, <1>6 DEF OnGrid

-----------------------------------------------------------------------------
(* A formula's value is a matter of what it reads.                         *)

\* The cells a formula with these references reads.
ReadsCell(refs, p) == \E i \in DOMAIN refs : Covers(refs[i], p)

\* The value when F gives what each cell is read as.
ValueBy(F, kind, refs) == Evaluate(kind, refs, LAMBDA q : F[q])

\* What each reference contributes, row by row.
Parts(F, refs) ==
    [i \in DOMAIN refs |->
        IF refs[i] = NoRect THEN <<RefError>>
        ELSE [j \in DOMAIN Reading(refs[i]) |-> F[Reading(refs[i])[j]]]]

\* A value is its parts, combined.
LEMMA ValueByParts ==
    ASSUME NEW F, NEW kind, NEW refs
    PROVE  ValueBy(F, kind, refs) = Combine(kind, FlattenSeq(Parts(F, refs)))
BY Zenon DEF ValueBy, Evaluate, Parts

\* Grids that agree on the cells read give the same parts ...
LEMMA PartsSame ==
    ASSUME NEW F, NEW H, NEW refs \in Seq(Box),
           \A p \in Coord \X Coord : ReadsCell(refs, p) => F[p] = H[p]
    PROVE  Parts(F, refs) = Parts(H, refs)
<1>1. \A i \in DOMAIN refs : refs[i] \in Box
  OBVIOUS
<1>2. ASSUME NEW i \in DOMAIN refs, refs[i] # NoRect, NEW j \in DOMAIN Reading(refs[i])
      PROVE  F[Reading(refs[i])[j]] = H[Reading(refs[i])[j]]
  <2>1. refs[i] \in Proper
    BY <1>1, <1>2 DEF Box
  <2>2. Reading(refs[i])[j] \in Coord \X Coord /\ Covers(refs[i], Reading(refs[i])[j])
    BY <2>1, ReadingCovered
  <2> QED BY <2>2 DEF ReadsCell
<1> DEFINE Half(X, r) == IF r = NoRect THEN <<RefError>>
                         ELSE [j \in DOMAIN Reading(r) |-> X[Reading(r)[j]]]
<1>3. \A i \in DOMAIN refs : Half(F, refs[i]) = Half(H, refs[i])
  BY <1>2
<1>4. Parts(F, refs) = [i \in DOMAIN refs |-> Half(F, refs[i])]
      /\ Parts(H, refs) = [i \in DOMAIN refs |-> Half(H, refs[i])]
  BY Zenon DEF Parts
<1> HIDE DEF Half
<1> QED BY <1>3, <1>4

\* ... and so the same value.
LEMMA ValueBySame ==
    ASSUME NEW F, NEW H, NEW kind, NEW refs \in Seq(Box),
           \A p \in Coord \X Coord : ReadsCell(refs, p) => F[p] = H[p]
    PROVE  ValueBy(F, kind, refs) = ValueBy(H, kind, refs)
BY PartsSame, ValueByParts

\* What each cell is read as from the results of the engine.
Seen(s, results) == [q \in Coord \X Coord |-> GridRead(s, results, q)]

\* Evaluating over an engine is evaluating over the grid it shows.
LEMMA ValueOfSeen ==
    ASSUME NEW s, NEW results, NEW kind, NEW refs \in Seq(Box)
    PROVE  ValueOf(s, results, kind, refs) = ValueBy(Seen(s, results), kind, refs)
<1> DEFINE F == Seen(s, results)
           Part(r) == IF r = NoRect THEN <<RefError>>
                      ELSE [j \in DOMAIN Reading(r) |-> GridRead(s, results, Reading(r)[j])]
           Half(r) == IF r = NoRect THEN <<RefError>>
                      ELSE [j \in DOMAIN Reading(r) |-> F[Reading(r)[j]]]
<1>1. ValueOf(s, results, kind, refs) = Combine(kind, FlattenSeq([i \in DOMAIN refs |-> Part(refs[i])]))
  BY Zenon DEF ValueOf, Evaluate
<1>2. Parts(F, refs) = [i \in DOMAIN refs |-> Half(refs[i])]
  BY Zenon DEF Parts
<1>3. \A q : (\A j \in DOMAIN q : GridRead(s, results, q[j]) = F[q[j]]) =>
          [j \in DOMAIN q |-> GridRead(s, results, q[j])] = [j \in DOMAIN q |-> F[q[j]]]
  <2> HIDE DEF F
  <2> QED OBVIOUS
<1>4. ASSUME NEW r \in Box, r # NoRect
      PROVE  [j \in DOMAIN Reading(r) |-> GridRead(s, results, Reading(r)[j])]
                = [j \in DOMAIN Reading(r) |-> F[Reading(r)[j]]]
  <2>1. \A j \in DOMAIN Reading(r) : GridRead(s, results, Reading(r)[j]) = F[Reading(r)[j]]
    BY <1>4, ReadingCovered DEF Box, Seen
  <2> HIDE DEF F
  <2> QED BY <1>3, <2>1
<1> HIDE DEF F
<1>5. \A r \in Box : Part(r) = Half(r)
  BY <1>4
<1>6. \A i \in DOMAIN refs : Part(refs[i]) = Half(refs[i])
  BY <1>5
<1> HIDE DEF Part, Half
<1>7. [i \in DOMAIN refs |-> Part(refs[i])] = Parts(F, refs)
  BY <1>2, <1>6
<1>8. ValueBy(F, kind, refs) = Combine(kind, FlattenSeq(Parts(F, refs)))
  BY ValueByParts
<1> QED BY <1>1, <1>7, <1>8 DEF F

\* Results that agree where a formula reads give it the same value.
LEMMA ValueOfSame ==
    ASSUME NEW s, NEW old, NEW new, DOMAIN new = DOMAIN old, NEW kind, NEW refs \in Seq(Box),
           \A p \in DOMAIN old : p \in Coord \X Coord /\ ReadsCell(refs, p) => new[p] = old[p]
    PROVE  ValueOf(s, new, kind, refs) = ValueOf(s, old, kind, refs)
<1>1. \A p \in Coord \X Coord : ReadsCell(refs, p) => GridRead(s, new, p) = GridRead(s, old, p)
  BY DEF GridRead
<1>2. \A p \in Coord \X Coord : ReadsCell(refs, p) => Seen(s, new)[p] = Seen(s, old)[p]
  BY <1>1 DEF Seen
<1>3. ValueBy(Seen(s, new), kind, refs) = ValueBy(Seen(s, old), kind, refs)
  BY <1>2, ValueBySame
<1> QED BY <1>3, ValueOfSeen

-----------------------------------------------------------------------------
(* The merged cover of any rectangles.                                     *)

\* The sort key, side by side.
LEMMA SoonerSides ==
    ASSUME NEW a, NEW b
    PROVE  Sooner(a, b) <=>
            \/ a.c0 < b.c0
            \/ a.c0 = b.c0 /\ a.c1 < b.c1
            \/ a.c0 = b.c0 /\ a.c1 = b.c1 /\ a.r0 < b.r0
            \/ a.c0 = b.c0 /\ a.c1 = b.c1 /\ a.r0 = b.r0 /\ a.r1 < b.r1
<1> DEFINE ka == <<a.c0, a.c1, a.r0, a.r1>>
           kb == <<b.c0, b.c1, b.r0, b.r1>>
           At0(i) == ka[i] < kb[i] /\ \A j \in 1 .. i - 1 : ka[j] = kb[j]
<1>1. Sooner(a, b) <=> \E i \in 1 .. 4 : At0(i)
  BY DEF Sooner
<1>2. /\ ka[1] = a.c0 /\ ka[2] = a.c1 /\ ka[3] = a.r0 /\ ka[4] = a.r1
      /\ kb[1] = b.c0 /\ kb[2] = b.c1 /\ kb[3] = b.r0 /\ kb[4] = b.r1
  OBVIOUS
<1> HIDE DEF ka, kb
<1>3. /\ 1 .. 1 - 1 = {} /\ 1 .. 2 - 1 = {1} /\ 1 .. 3 - 1 = {1, 2} /\ 1 .. 4 - 1 = {1, 2, 3}
      /\ 1 .. 4 = {1, 2, 3, 4}
  OBVIOUS
<1>4. At0(1) <=> ka[1] < kb[1]
  BY <1>3
<1>5. At0(2) <=> ka[2] < kb[2] /\ ka[1] = kb[1]
  BY <1>3
<1>6. At0(3) <=> ka[3] < kb[3] /\ ka[1] = kb[1] /\ ka[2] = kb[2]
  BY <1>3
<1>7. At0(4) <=> ka[4] < kb[4] /\ ka[1] = kb[1] /\ ka[2] = kb[2] /\ ka[3] = kb[3]
  BY <1>3
<1>8. (\E i \in 1 .. 4 : At0(i)) <=> At0(1) \/ At0(2) \/ At0(3) \/ At0(4)
  <2> HIDE DEF At0
  <2> QED BY <1>3
<1> HIDE DEF At0
<1> QED BY <1>1, <1>2, <1>4, <1>5, <1>6, <1>7, <1>8

\* It orders rectangles.
LEMMA SoonerOrders ==
    ASSUME NEW a \in Rect, NEW b \in Rect, NEW c \in Rect
    PROVE  /\ ~ Sooner(a, a)
           /\ Sooner(a, b) /\ Sooner(b, c) => Sooner(a, c)
           /\ a # b => Sooner(a, b) \/ Sooner(b, a)
<1>1. /\ a.r0 \in Int /\ a.r1 \in Int /\ a.c0 \in Int /\ a.c1 \in Int
      /\ b.r0 \in Int /\ b.r1 \in Int /\ b.c0 \in Int /\ b.c1 \in Int
      /\ c.r0 \in Int /\ c.r1 \in Int /\ c.c0 \in Int /\ c.c1 \in Int
  BY DEF Rect, Coord
<1>2. ~ Sooner(a, a)
  BY <1>1, SoonerSides
<1>3. Sooner(a, b) /\ Sooner(b, c) => Sooner(a, c)
  <2>1. Sooner(a, b) <=>
            \/ a.c0 < b.c0
            \/ a.c0 = b.c0 /\ a.c1 < b.c1
            \/ a.c0 = b.c0 /\ a.c1 = b.c1 /\ a.r0 < b.r0
            \/ a.c0 = b.c0 /\ a.c1 = b.c1 /\ a.r0 = b.r0 /\ a.r1 < b.r1
    BY SoonerSides
  <2>2. Sooner(b, c) <=>
            \/ b.c0 < c.c0
            \/ b.c0 = c.c0 /\ b.c1 < c.c1
            \/ b.c0 = c.c0 /\ b.c1 = c.c1 /\ b.r0 < c.r0
            \/ b.c0 = c.c0 /\ b.c1 = c.c1 /\ b.r0 = c.r0 /\ b.r1 < c.r1
    BY SoonerSides
  <2>3. Sooner(a, c) <=>
            \/ a.c0 < c.c0
            \/ a.c0 = c.c0 /\ a.c1 < c.c1
            \/ a.c0 = c.c0 /\ a.c1 = c.c1 /\ a.r0 < c.r0
            \/ a.c0 = c.c0 /\ a.c1 = c.c1 /\ a.r0 = c.r0 /\ a.r1 < c.r1
    BY SoonerSides
  <2> QED BY <1>1, <2>1, <2>2, <2>3
<1>4. ASSUME a # b
      PROVE  Sooner(a, b) \/ Sooner(b, a)
  <2>1. a = [r0 |-> a.r0, r1 |-> a.r1, c0 |-> a.c0, c1 |-> a.c1]
        /\ b = [r0 |-> b.r0, r1 |-> b.r1, c0 |-> b.c0, c1 |-> b.c1]
    BY DEF Rect
  <2>2. a.r0 # b.r0 \/ a.r1 # b.r1 \/ a.c0 # b.c0 \/ a.c1 # b.c1
    BY <1>4, <2>1
  <2>3. Sooner(a, b) <=>
            \/ a.c0 < b.c0
            \/ a.c0 = b.c0 /\ a.c1 < b.c1
            \/ a.c0 = b.c0 /\ a.c1 = b.c1 /\ a.r0 < b.r0
            \/ a.c0 = b.c0 /\ a.c1 = b.c1 /\ a.r0 = b.r0 /\ a.r1 < b.r1
    BY SoonerSides
  <2>4. Sooner(b, a) <=>
            \/ b.c0 < a.c0
            \/ b.c0 = a.c0 /\ b.c1 < a.c1
            \/ b.c0 = a.c0 /\ b.c1 = a.c1 /\ b.r0 < a.r0
            \/ b.c0 = a.c0 /\ b.c1 = a.c1 /\ b.r0 = a.r0 /\ b.r1 < a.r1
    BY SoonerSides
  <2> QED BY <1>1, <2>2, <2>3, <2>4
<1> QED BY <1>2, <1>3, <1>4

\* Sorting keeps every rectangle.
LEMMA SortedAll ==
    ASSUME NEW S, IsFiniteSet(S), S \subseteq Rect
    PROVE  /\ Cardinality(S) \in Nat /\ DOMAIN Sorted(S) = 1 .. Cardinality(S)
           /\ \A i \in DOMAIN Sorted(S) : Sorted(S)[i] \in S
           /\ \A r \in S : \E i \in DOMAIN Sorted(S) : Sorted(S)[i] = r
<1> DEFINE n == Cardinality(S)
           Lower0(r) == {x \in S : Sooner(x, r)}
           rank == [r \in S |-> Cardinality(Lower0(r)) + 1]
<1>1. n \in Nat
  BY FS_CardinalityType
<1>2. \A r \in S : /\ IsFiniteSet(Lower0(r)) /\ Cardinality(Lower0(r)) \in Nat
                   /\ Cardinality(Lower0(r)) < n
  <2> SUFFICES ASSUME NEW r \in S
               PROVE  /\ IsFiniteSet(Lower0(r)) /\ Cardinality(Lower0(r)) \in Nat
                      /\ Cardinality(Lower0(r)) < n
    OBVIOUS
  <2>1. Lower0(r) \in SUBSET S /\ r \notin Lower0(r)
    BY SoonerOrders
  <2> HIDE DEF Lower0
  <2>2. IsFiniteSet(Lower0(r)) /\ Cardinality(Lower0(r)) <= n /\ Cardinality(Lower0(r)) # n
    BY <2>1, FS_Subset
  <2> QED BY <1>1, <2>2, FS_CardinalityType
<1>3. ASSUME NEW a \in S, NEW b \in S, Sooner(a, b)
      PROVE  Cardinality(Lower0(a)) < Cardinality(Lower0(b))
  <2>1. Lower0(a) \in SUBSET Lower0(b)
    BY <1>3, SoonerOrders
  <2>2. a \in Lower0(b) /\ a \notin Lower0(a)
    BY <1>3, SoonerOrders
  <2> HIDE DEF Lower0
  <2>3. Cardinality(Lower0(a)) <= Cardinality(Lower0(b)) /\ Cardinality(Lower0(a)) # Cardinality(Lower0(b))
    BY <1>2, <2>1, <2>2, FS_Subset
  <2> QED BY <1>2, <2>3
<1>4. \A a, b \in S : Cardinality(Lower0(a)) = Cardinality(Lower0(b)) => a = b
  <2> SUFFICES ASSUME NEW a \in S, NEW b \in S,
                      Cardinality(Lower0(a)) = Cardinality(Lower0(b)), a # b
               PROVE  FALSE
    OBVIOUS
  <2>1. Sooner(a, b) \/ Sooner(b, a)
    BY SoonerOrders
  <2> HIDE DEF Lower0
  <2> QED BY <1>2, <1>3, <2>1
<1> HIDE DEF Lower0
<1>5. rank \in Injection(S, 1 .. n)
  <2>1. rank \in [S -> 1 .. n]
    BY <1>1, <1>2
  <2>2. \A a, b \in S : rank[a] = rank[b] => a = b
    BY <1>2, <1>4
  <2> QED BY <2>1, <2>2 DEF Injection, IsInjective
<1>6. rank \in Surjection(S, 1 .. n)
  <2>1. IsFiniteSet(1 .. n) /\ Cardinality(1 .. n) = n
    BY <1>1, FS_Interval
  <2> HIDE DEF rank
  <2> QED BY <1>5, <2>1, FS_Injection DEF n
<1>7. \A i \in 1 .. n : \E r \in S : Cardinality(Lower0(r)) = i - 1
  <2>1. \A i \in 1 .. n : \E r \in S : rank[r] = i
    BY <1>6 DEF Surjection
  <2>2. \A r \in S : rank[r] = Cardinality(Lower0(r)) + 1
    OBVIOUS
  <2> HIDE DEF rank
  <2> QED BY <1>2, <2>1, <2>2
<1>8. Sorted(S) = [i \in 1 .. n |-> CHOOSE r \in S : Cardinality(Lower0(r)) = i - 1]
  BY Zenon DEF Sorted, Lower0
<1>9. \A i \in 1 .. n : Sorted(S)[i] \in S /\ Cardinality(Lower0(Sorted(S)[i])) = i - 1
  BY <1>7, <1>8
<1>10. DOMAIN Sorted(S) = 1 .. n
  BY <1>8
<1>11. ASSUME NEW r \in S
       PROVE  \E i \in 1 .. n : Sorted(S)[i] = r
  <2>1. PICK i \in 1 .. n : i - 1 = Cardinality(Lower0(r))
    <3>1. Cardinality(Lower0(r)) + 1 \in 1 .. n
      BY <1>1, <1>2
    <3> QED BY <1>2, <3>1
  <2>2. Sorted(S)[i] \in S /\ Cardinality(Lower0(Sorted(S)[i])) = i - 1
    BY <1>9
  <2>3. Sorted(S)[i] = r
    BY <1>4, <2>1, <2>2
  <2> QED BY <2>3
<1> QED BY <1>1, <1>9, <1>10, <1>11

\* The sweep keeps to rectangles on the grid.
LEMMA SweepProper ==
    ASSUME NEW out \in Seq(Proper), NEW r \in Proper
    PROVE  Sweep(out, r) \in Seq(Proper)
<1>1. CASE out # <<>> /\ Mergeable(Last(out), r)
  <2>1. Last(out) \in Proper /\ Front(out) \in Seq(Proper)
    <3>1. Len(out) \in Nat /\ Len(out) >= 1 /\ \A i \in 1 .. Len(out) : out[i] \in Proper
      BY <1>1
    <3>2. Last(out) = out[Len(out)]
      BY DEF Last
    <3>3. Front(out) = SubSeq(out, 1, Len(out) - 1)
      BY DEF Front
    <3>4. SubSeq(out, 1, Len(out) - 1) \in Seq(Proper)
      BY <3>1, SubSeqProperties
    <3> QED BY <3>1, <3>2, <3>3, <3>4
  <2>2. Join(Last(out), r) \in Proper
    <3>1. Join(Last(out), r) \in Box /\ (Join(Last(out), r) = NoRect => r = NoRect)
      BY <2>1, JoinHolds DEF Box
    <3>2. r # NoRect
      <4>1. r.r0 # Grid
        BY RectanglesAssumption DEF Proper, Rect, Coord
      <4> QED BY <4>1 DEF NoRect
    <3> QED BY <3>1, <3>2 DEF Box
  <2>3. Append(Front(out), Join(Last(out), r)) \in Seq(Proper)
    BY <2>1, <2>2
  <2> QED BY <1>1, <2>3 DEF Sweep
<1>2. CASE ~ (out # <<>> /\ Mergeable(Last(out), r))
  <2>1. Append(out, r) \in Seq(Proper)
    OBVIOUS
  <2> QED BY <1>2, <2>1 DEF Sweep
<1> QED BY <1>1, <1>2

\* The merged cover covers what its rectangles do, with rectangles of the grid.
LEMMA MergedCovers ==
    ASSUME NEW S, IsFiniteSet(S), S \subseteq Proper
    PROVE  /\ ToSet(MergeRects(S)) \subseteq Proper
           /\ \A r \in S : \A p \in Coord \X Coord : Covers(r, p) =>
                \E m \in ToSet(MergeRects(S)) : Covers(m, p)
<1> DEFINE seq == Sorted(S)
           n == Cardinality(S)
           D == Seq(Proper)
           base == <<>>
           Step(d, r) == Sweep(d, r)
           it == CHOOSE f : f = [s \in SUBSET (1 .. n) |->
                    IF s = {} THEN base ELSE Step(f[s \ {Max(s)}], seq[Max(s)])]
           g0 == [i \in 1 .. n |-> [d \in D |-> Step(d, seq[i])]]
<1>1. n \in Nat /\ DOMAIN seq = 1 .. n /\ (\A i \in 1 .. n : seq[i] \in S)
      /\ \A r \in S : \E i \in 1 .. n : seq[i] = r
  BY SortedAll DEF Proper
<1>2. MergeRects(S) = it[1 .. n]
  <2>1. FoldLeft(Sweep, base, seq) = it[1 .. n]
    <3> HIDE DEF n, base, seq
    <3> QED BY Zenon, <1>1 DEF FoldLeft, MapThenFoldSet
  <2>2. MergeRects(S) = FoldLeft(Sweep, base, seq)
    BY Zenon DEF MergeRects
  <2> QED BY Zenon, <2>1, <2>2
<1>3. base \in D
  OBVIOUS
<1>4. ASSUME NEW d \in D, NEW i \in 1 .. n
      PROVE  Step(d, seq[i]) \in D
  BY <1>1, SweepProper
<1>5. ASSUME NEW d \in D, NEW i \in 1 .. n, NEW p \in Coord \X Coord,
             Covers(seq[i], p) \/ \E k \in DOMAIN d : Covers(d[k], p)
      PROVE  \E k \in DOMAIN Step(d, seq[i]) : Covers(Step(d, seq[i])[k], p)
  <2>1. seq[i] \in Rect /\ d \in Seq(Rect)
    <3>1. Proper \subseteq Rect
      BY DEF Proper
    <3>2. seq[i] \in Rect
      BY <1>1, <3>1
    <3> HIDE DEF seq
    <3> QED BY <3>1, <3>2
  <2> HIDE DEF seq
  <2> QED BY <1>5, <2>1, SweepLosesNothing
<1> HIDE DEF n, seq, base, D, Step
<1>6. \A i \in 1 .. n : \A d \in D : g0[i][d] = Step(d, seq[i]) /\ g0[i][d] \in D
  BY <1>4
<1> HIDE DEF g0
<1>7. PICK h : Solves(h, D, base, n, g0)
  <2>1. \A i \in 1 .. n : \A d \in D : g0[i][d] \in D
    BY <1>6
  <2>2. n \in Nat
    BY <1>1
  <2> HIDE DEF it
  <2> QED BY Zenon, <1>3, <2>1, <2>2, FoldSolved
<1>8. \A s \in SUBSET (1 .. n) :
        h[s] = IF s = {} THEN base ELSE Step(h[s \ {Max(s)}], seq[Max(s)])
  BY <1>6, <1>7 DEF Solves
<1>9. h = [s \in SUBSET (1 .. n) |->
              IF s = {} THEN base ELSE Step(h[s \ {Max(s)}], seq[Max(s)])]
  BY <1>7, <1>8 DEF Solves
<1>10. it = [s \in SUBSET (1 .. n) |->
              IF s = {} THEN base ELSE Step(it[s \ {Max(s)}], seq[Max(s)])]
  BY <1>9
<1> HIDE DEF it
<1> DEFINE Holds(s) == /\ it[s] \in D
                       /\ \A i \in s : \A p \in Coord \X Coord : Covers(seq[i], p) =>
                                \E k \in DOMAIN it[s] : Covers(it[s][k], p)
           T == {s \in SUBSET (1 .. n) : Holds(s)}
<1>11. {} \in T
  BY <1>3, <1>10
<1>12. ASSUME NEW s \in SUBSET (1 .. n), s # {}, s \ {Max(s)} \in T
       PROVE  s \in T
  <2> DEFINE k == Max(s)
             r == s \ {k}
             d == it[r]
  <2>1. it[s] = Step(d, seq[k])
    BY <1>10, <1>12
  <2>2. d \in D /\ \A i \in r : \A p \in Coord \X Coord : Covers(seq[i], p) =>
                                \E j \in DOMAIN d : Covers(d[j], p)
    BY <1>12
  <2>3. k \in 1 .. n /\ s = r \union {k} /\ r \subseteq 1 .. n
    BY <1>1, <1>12, LargestInside
  <2> HIDE DEF k, r, d
  <2>4. it[s] \in D
    BY <1>4, <2>1, <2>2, <2>3
  <2>5. ASSUME NEW i \in s, NEW p \in Coord \X Coord, Covers(seq[i], p)
        PROVE  \E j \in DOMAIN it[s] : Covers(it[s][j], p)
    <3>1. Covers(seq[k], p) \/ \E j \in DOMAIN d : Covers(d[j], p)
      BY <2>2, <2>3, <2>5
    <3> QED BY <1>5, <2>1, <2>2, <2>3, <3>1
  <2>6. Holds(s)
    BY <2>4, <2>5
  <2> HIDE DEF Holds
  <2> QED BY <2>6
<1>13. \A s \in SUBSET (1 .. n) : s \in T
  <2> HIDE DEF T
  <2> QED BY <1>1, <1>11, <1>12, ByLargest
<1>14. Holds(1 .. n)
  BY <1>13
<1> DEFINE out == it[1 .. n]
<1>15. out \in Seq(Proper) /\ \A i \in 1 .. n : \A p \in Coord \X Coord : Covers(seq[i], p) =>
                                \E k \in DOMAIN out : Covers(out[k], p)
  BY <1>14 DEF D
<1> HIDE DEF out
<1>16. ToSet(out) = {out[k] : k \in DOMAIN out}
  BY DEF ToSet
<1>17. ToSet(out) \subseteq Proper
  BY <1>15, <1>16
<1>18. ASSUME NEW r \in S, NEW p \in Coord \X Coord, Covers(r, p)
       PROVE  \E m \in ToSet(out) : Covers(m, p)
  <2>1. PICK i \in 1 .. n : seq[i] = r
    BY <1>1
  <2>2. PICK k \in DOMAIN out : Covers(out[k], p)
    BY <1>15, <1>18, <2>1
  <2> QED BY <1>16, <2>2
<1> QED BY <1>2, <1>17, <1>18 DEF out

-----------------------------------------------------------------------------
(* The graph of a sheet.                                                   *)

\* A group that reads its own extent is one cell.
LEMMA SplitSingle ==
    ASSUME NEW ms, IsFiniteSet(ms), NEW a \in Split(ms), ReadsItself(Group(a)),
           NEW m \in a, NEW n \in a
    PROVE  m = n
<1> DEFINE Q == Classes(ms, LAMBDA x : x.pos[2])
           Pieces(part) == IF ReadsItself(Group(part)) THEN {{x} : x \in part} ELSE {part}
<1>1. Split(ms) = IF ReadsItself(Group(ms)) /\ Cardinality(ms) > 1
                  THEN UNION {Pieces(part) : part \in Q}
                  ELSE {ms}
  BY Zenon DEF Split
<1>2. CASE ReadsItself(Group(ms)) /\ Cardinality(ms) > 1
  <2>1. PICK part \in Q : a \in Pieces(part)
    <3> HIDE DEF Pieces, Q
    <3> QED BY <1>1, <1>2
  <2>2. CASE ReadsItself(Group(part))
    BY <2>1, <2>2
  <2>3. CASE ~ ReadsItself(Group(part))
    BY <2>1, <2>3
  <2> QED BY <2>2, <2>3
<1>3. CASE ~ (ReadsItself(Group(ms)) /\ Cardinality(ms) > 1)
  <2>1. a = ms
    BY <1>1, <1>3
  <2>2. ~ (Cardinality(ms) > 1)
    BY <1>3, <2>1
  <2>3. Cardinality({m, n}) <= Cardinality(ms) /\ IsFiniteSet({m, n})
    BY <2>1, FS_Subset
  <2>4. m # n => Cardinality({m, n}) = 2
    <3>1. IsFiniteSet({m}) /\ Cardinality({m}) = 1
      BY FS_Singleton
    <3>2. {m} \union {n} = {m, n}
      OBVIOUS
    <3>3. m # n => Cardinality({m} \union {n}) = 1 + 1
      BY <3>1, FS_AddElement
    <3> QED BY <3>2, <3>3
  <2>5. Cardinality(ms) \in Nat
    BY FS_CardinalityType
  <2> QED BY <2>2, <2>3, <2>4, <2>5
<1> QED BY <1>2, <1>3

\* What regroup makes of the parts it divides the formulas into.
GraphOf(parts) ==
    LET groups == [p \in {Lead(ms) : ms \in parts} |->
                    Group(CHOOSE ms \in parts : Lead(ms) = p)]
    IN [groups |-> groups,
        index |-> Index([g \in DOMAIN groups |-> groups[g].reads]),
        results |-> [p \in {m.pos : m \in UNION parts} |-> Unset]]

\* Regrouping parts the members into groups, one by one where they read themselves.
LEMMA RegroupParts ==
    ASSUME NEW s, SheetOK(s), SheetTyped(s)
    PROVE  \E parts : /\ Partition(parts, Members(s))
                      /\ \A a \in parts : ReadsItself(Group(a)) => \A m, n \in a : m = n
                      /\ Regroup(s) = GraphOf(parts)
<1> DEFINE M == Members(s)
           pattern == [m \in M |-> m.pattern]
           P == {{y \in M : pattern[y] = pattern[x]} : x \in M}
           R == [a \in P |-> Split(a)]
           parts == UNION {R[a] : a \in P}
           Q == UNION {Split(ms) : ms \in Classes(Members(s), LAMBDA m : m.pattern)}
<1>1. IsFiniteSet(M)
  BY MembersTyped DEF MembersOK
<1>2. parts = Q
  <2>1. {Split(a) : a \in P} = {R[a] : a \in P}
    <3> HIDE DEF P
    <3> QED OBVIOUS
  <2>2. P = Classes(Members(s), LAMBDA m : m.pattern)
    <3>1. P = {{y \in M : y.pattern = x.pattern} : x \in M}
      BY DEF P
    <3> QED BY Zenon, <3>1 DEF Classes
  <2> HIDE DEF P, R
  <2> QED BY Zenon, <2>1, <2>2
<1>3. Regroup(s) = GraphOf(Q)
  BY Zenon DEF Regroup, GraphOf
<1>4. Partition(P, M)
  <2> HIDE DEF pattern, M
  <2> QED BY ClassesPart
<1>5. Partition(parts, M)
  <2>1. \A a \in P : a # {}
    BY <1>4 DEF Partition
  <2>2. \A a \in P : Partition(R[a], a)
    <3> HIDE DEF P
    <3> QED BY <2>1, SplitPart
  <2> HIDE DEF P, R, M
  <2> QED BY <1>4, <2>2, FinerPart
<1>6. ASSUME NEW a \in parts, ReadsItself(Group(a))
      PROVE  \A m, n \in a : m = n
  <2>1. PICK b \in P : a \in Split(b)
    <3> HIDE DEF P
    <3> QED OBVIOUS
  <2>2. IsFiniteSet(b)
    <3>1. b \in SUBSET M
      OBVIOUS
    <3> QED BY <1>1, <3>1, FS_Subset
  <2> HIDE DEF P, parts
  <2> QED BY <1>6, <2>1, <2>2, SplitSingle
<1>7. Partition(Q, M) /\ \A a \in Q : ReadsItself(Group(a)) => \A m, n \in a : m = n
  <2> HIDE DEF parts, Q, M
  <2> QED BY <1>2, <1>5, <1>6
<1> HIDE DEF Q
<1> QED BY <1>3, <1>7

\* The engine's groups are those of the sheet's formulas.
Built(s, e) ==
    /\ EngineOK(e)
    /\ \A g \in DOMAIN e.groups :
            /\ e.groups[g] = Group(e.groups[g].members)
            /\ e.groups[g].members \subseteq Members(s) /\ e.groups[g].members # {}
            /\ ReadsItself(e.groups[g]) => \A m, n \in e.groups[g].members : m = n
    /\ \A m \in Members(s) : \E g \in DOMAIN e.groups : m \in e.groups[g].members
    /\ \A g, h \in DOMAIN e.groups :
            e.groups[g].members \intersect e.groups[h].members # {} => g = h
    /\ e.index = Index([g \in DOMAIN e.groups |-> e.groups[g].reads])
    /\ DOMAIN e.results = {m.pos : m \in Members(s)}

\* What regroup builds is a graph of the sheet.
LEMMA RegroupBuilt ==
    ASSUME NEW s, SheetOK(s), SheetTyped(s)
    PROVE  Built(s, Regroup(s))
<1> DEFINE M == Members(s)
<1>1. PICK parts : /\ Partition(parts, M)
                   /\ \A a \in parts : ReadsItself(Group(a)) => \A m, n \in a : m = n
                   /\ Regroup(s) = GraphOf(parts)
  BY RegroupParts
<1> DEFINE L == {Lead(ms) : ms \in parts}
           groups == [p \in L |-> Group(CHOOSE ms \in parts : Lead(ms) = p)]
           e == Regroup(s)
<1>2. /\ e.groups = groups
      /\ e.index = Index([g \in DOMAIN groups |-> groups[g].reads])
      /\ e.results = [p \in {m.pos : m \in UNION parts} |-> Unset]
  BY <1>1 DEF GraphOf
<1>3. MembersOK(M) /\ \A m, n \in M : m.pos = n.pos => m = n
  BY MembersTyped
<1>4. UNION parts = M /\ (\A a \in parts : a # {} /\ a \subseteq M)
      /\ (\A a, b \in parts : a \intersect b # {} => a = b)
  BY <1>1 DEF Partition
<1>5. \A a \in parts : MembersOK(a)
  BY <1>3, <1>4, FS_Subset DEF MembersOK
<1>6. \A a \in parts : Lead(a) \in {m.pos : m \in a}
  BY <1>4, <1>5, LeadInside
<1>7. \A a, b \in parts : Lead(a) = Lead(b) => a = b
  <2> SUFFICES ASSUME NEW a \in parts, NEW b \in parts, Lead(a) = Lead(b)
               PROVE  a = b
    OBVIOUS
  <2>1. PICK m \in a : m.pos = Lead(a)
    BY <1>6
  <2>2. PICK n \in b : n.pos = Lead(a)
    BY <1>6
  <2>3. m = n
    BY <1>3, <1>4, <2>1, <2>2
  <2> QED BY <1>4, <2>3
<1>8. \A a \in parts : Lead(a) \in L /\ groups[Lead(a)] = Group(a)
  <2> SUFFICES ASSUME NEW a \in parts
               PROVE  Lead(a) \in L /\ groups[Lead(a)] = Group(a)
    OBVIOUS
  <2>1. (CHOOSE ms \in parts : Lead(ms) = Lead(a)) = a
    BY <1>7
  <2> QED BY <2>1
<1>9. \A g \in L : \E a \in parts : g = Lead(a) /\ groups[g] = Group(a)
  BY <1>8
<1>10. \A a : Group(a).members = a
  BY DEF Group
<1>11. DOMAIN groups = L
  OBVIOUS
<1> HIDE DEF groups, L, M
<1>12. \A g \in L : \E a \in parts : g = Lead(a) /\ groups[g].members = a /\ groups[g] = Group(a)
  BY <1>9, <1>10
<1>13. ASSUME NEW g \in L
       PROVE  /\ groups[g] = Group(groups[g].members)
              /\ groups[g].members \subseteq M /\ groups[g].members # {}
              /\ ReadsItself(groups[g]) => \A m, n \in groups[g].members : m = n
  BY <1>1, <1>4, <1>12
<1>14. ASSUME NEW m \in M
       PROVE  \E g \in L : m \in groups[g].members
  <2>1. PICK a \in parts : m \in a
    BY <1>4
  <2> QED BY <1>8, <1>10, <2>1
<1>15. \A g, h \in L : groups[g].members \intersect groups[h].members # {} => g = h
  BY <1>4, <1>12
<1>16. DOMAIN e.results = {m.pos : m \in M}
  BY <1>2, <1>4
<1> HIDE DEF e
<1>17. EngineOK(e)
  BY RegroupTyped DEF e
<1>18. e.groups = groups /\ DOMAIN e.groups = L
  BY <1>2, <1>11
<1>19. e.index = Index([g \in DOMAIN e.groups |-> e.groups[g].reads])
  BY Zenon, <1>2, <1>18
<1>20. \A g \in DOMAIN e.groups :
            /\ e.groups[g] = Group(e.groups[g].members)
            /\ e.groups[g].members \subseteq M /\ e.groups[g].members # {}
            /\ ReadsItself(e.groups[g]) => \A m, n \in e.groups[g].members : m = n
  BY <1>13, <1>18
<1>21. /\ \A m \in M : \E g \in DOMAIN e.groups : m \in e.groups[g].members
       /\ \A g, h \in DOMAIN e.groups :
            e.groups[g].members \intersect e.groups[h].members # {} => g = h
  BY <1>14, <1>15, <1>18
<1>22. Built(s, e)
  BY Zenon, <1>16, <1>17, <1>19, <1>20, <1>21 DEF Built, M
<1> QED BY <1>22 DEF e

\* What is known of a member.
LEMMA MemberShape ==
    ASSUME NEW s, SheetOK(s), SheetTyped(s), NEW m \in Members(s)
    PROVE  /\ m.cell \in LiveCells(s) /\ HasFormula(s, m.cell)
           /\ m.pos = Position(s, m.cell) /\ m.pos \in Coord \X Coord
           /\ m.kind = s.formula[m.cell].kind
           /\ m.refs = Rebind(s, s.formula[m.cell]) /\ m.refs \in Seq(Box)
           /\ m.bound = JoinAll({m.refs[i] : i \in DOMAIN m.refs})
<1> DEFINE live == {x \in LiveCells(s) : HasFormula(s, x)}
           Of(c, refs) ==
              [cell |-> c, pos |-> Position(s, c), kind |-> s.formula[c].kind, refs |-> refs,
               bound |-> JoinAll({refs[i] : i \in DOMAIN refs}),
               pattern |-> Pattern(s.formula[c].kind, s.formula[c].items, refs, Position(s, c))]
<1>1. Members(s) = {Of(c, Rebind(s, s.formula[c])) : c \in live}
  BY Zenon DEF Members
<1>2. PICK c \in live : m = Of(c, Rebind(s, s.formula[c]))
  <2> HIDE DEF Of, live
  <2> QED BY <1>1
<1>3. m.pos \in Coord \X Coord /\ m.refs \in Seq(Box)
  BY MembersTyped DEF MembersOK
<1> QED BY <1>2, <1>3

\* Every live formula is a member, at its position.
LEMMA MemberThere ==
    ASSUME NEW s, NEW c \in LiveCells(s), HasFormula(s, c)
    PROVE  \E m \in Members(s) : m.cell = c /\ m.pos = Position(s, c)
<1> DEFINE live == {x \in LiveCells(s) : HasFormula(s, x)}
           Of(x, refs) ==
              [cell |-> x, pos |-> Position(s, x), kind |-> s.formula[x].kind, refs |-> refs,
               bound |-> JoinAll({refs[i] : i \in DOMAIN refs}),
               pattern |-> Pattern(s.formula[x].kind, s.formula[x].items, refs, Position(s, x))]
<1>1. Members(s) = {Of(x, Rebind(s, s.formula[x])) : x \in live}
  BY Zenon DEF Members
<1>2. Of(c, Rebind(s, s.formula[c])) \in Members(s)
  BY <1>1
<1> QED BY <1>2

-----------------------------------------------------------------------------
(* What the graph answers about who reads what.                            *)

\* The reads of a group cover what its members read.
LEMMA ReadsCover ==
    ASSUME NEW ms, MembersOK(ms)
    PROVE  /\ ReadsOf(ms) \subseteq Proper
           /\ \A m \in ms : \A p \in Coord \X Coord : ReadsCell(m.refs, p) =>
                \E r \in ReadsOf(ms) : Covers(r, p)
<1> DEFINE ofm == [m \in ms |-> {m.refs[i] : i \in DOMAIN m.refs}]
           all == {ofm[m] : m \in ms}
           U == (UNION all) \ {NoRect}
<1>1. ReadsOf(ms) = ToSet(MergeRects(U))
  <2>1. {ofm[m] : m \in ms} = {{m.refs[i] : i \in DOMAIN m.refs} : m \in ms}
    OBVIOUS
  <2> HIDE DEF ofm
  <2> QED BY Zenon, <2>1 DEF ReadsOf
<1>2. ASSUME NEW m \in ms
      PROVE  IsFiniteSet(ofm[m]) /\ ofm[m] \subseteq Box
  <2> DEFINE refs == m.refs
             T == {refs[i] : i \in DOMAIN refs}
  <2>1. refs \in Seq(Box)
    BY DEF MembersOK
  <2> HIDE DEF refs
  <2>2. IsFiniteSet(DOMAIN refs)
    <3>1. DOMAIN refs = 1 .. Len(refs) /\ Len(refs) \in Nat /\ 1 \in Int
      BY <2>1, LenProperties
    <3>2. IsFiniteSet(1 .. Len(refs))
      BY <3>1, FS_Interval
    <3> QED BY <3>1, <3>2
  <2>3. IsFiniteSet(T)
    BY <2>2, ImageFinite
  <2>4. T \subseteq Box
    BY <2>1
  <2> QED BY <2>3, <2>4 DEF refs
<1>3. IsFiniteSet(all)
  <2>1. IsFiniteSet(ms)
    BY DEF MembersOK
  <2> HIDE DEF ofm
  <2> QED BY <2>1, ImageFinite
<1>4. IsFiniteSet(UNION all)
  <2>1. \A T \in all : IsFiniteSet(T)
    <3> HIDE DEF ofm
    <3> QED BY <1>2
  <2> HIDE DEF all
  <2> QED BY <1>3, <2>1, FS_UNION
<1>5. IsFiniteSet(U) /\ U \subseteq Proper
  <2>1. U \in SUBSET UNION all
    OBVIOUS
  <2>2. IsFiniteSet(U)
    <3> HIDE DEF U, all
    <3> QED BY <1>4, <2>1, FS_Subset
  <2>3. UNION all \subseteq Box
    <3> HIDE DEF ofm
    <3> QED BY <1>2
  <2> HIDE DEF all
  <2> QED BY <2>2, <2>3 DEF Box
<1>6. ASSUME NEW m \in ms, NEW p \in Coord \X Coord, ReadsCell(m.refs, p)
      PROVE  \E r \in U : Covers(r, p)
  <2>1. PICK i \in DOMAIN m.refs : Covers(m.refs[i], p)
    BY <1>6 DEF ReadsCell
  <2>2. m.refs[i] # NoRect
    BY <2>1, NoneCovered
  <2>3. m.refs[i] \in ofm[m] /\ ofm[m] \in all
    OBVIOUS
  <2> HIDE DEF ofm, all
  <2> QED BY <2>1, <2>2, <2>3
<1> HIDE DEF U
<1>7. /\ ToSet(MergeRects(U)) \subseteq Proper
      /\ \A r \in U : \A p \in Coord \X Coord : Covers(r, p) =>
                \E m \in ToSet(MergeRects(U)) : Covers(m, p)
  BY <1>5, MergedCovers
<1> QED BY <1>1, <1>6, <1>7

\* Every group's rectangle dirty: what a full recalculation starts from.
Everywhere(e) == [g \in DOMAIN e.groups |-> e.groups[g].writes]

\* A cell of one group reads another's: the index finds the reader from any
\* rectangle over that cell, and what the rectangle dirties is over the reader.
Linked(e) ==
    LET G == DOMAIN e.groups
    IN /\ Everywhere(e) \in [G -> Box] /\ Wanted(Everywhere(e)) = G
       /\ \A g \in G : \A p \in Positions(e.groups[g]) :
            p \in Coord \X Coord /\ Covers(e.groups[g].writes, p)
       /\ \A g, h \in G : Positions(e.groups[g]) \intersect Positions(e.groups[h]) # {} => g = h
       /\ \A g \in G : \A m, n \in e.groups[g].members : m.pos = n.pos => m = n
       /\ \A g \in G : \A m \in e.groups[g].members :
            \A p \in Coord \X Coord : ReadsCell(m.refs, p) =>
                /\ \A rect \in Box : Covers(rect, p) =>
                        /\ g \in Stab(e.index, rect)
                        /\ Covers(AffectedMembers(e.groups[g], rect), m.pos)
                /\ p \in Positions(e.groups[g]) => ReadsItself(e.groups[g])
       /\ \A g \in G : ReadsItself(e.groups[g]) => \A m, n \in e.groups[g].members : m = n
       /\ \A g \in G : \A a, b \in Box : Inside(a, b) =>
            \/ AffectedMembers(e.groups[g], a) = NoRect
            \/ /\ g \in Stab(e.index, b)
               /\ Inside(AffectedMembers(e.groups[g], a), AffectedMembers(e.groups[g], b))

\* A group is affected where its members are.
LEMMA AffectedGrows ==
    ASSUME NEW g, MembersOK(g.members), g.reads \subseteq Proper,
           \A m \in g.members : m.bound \in Box,
           NEW a \in Box, NEW b \in Box, Inside(a, b), AffectedMembers(g, a) # NoRect
    PROVE  /\ b \in Proper /\ \E r \in g.reads : Overlaps(r, b)
           /\ Inside(AffectedMembers(g, a), AffectedMembers(g, b))
<1> DEFINE PartOf(x) == {m \in g.members : Overlaps(m.bound, x)}
           P(x) == {m.pos : m \in PartOf(x)}
<1>1. PICK r \in g.reads : Overlaps(r, a)
  BY DEF AffectedMembers
<1>2. r \in Box /\ r \in Proper
  BY DEF Box
<1>3. Overlaps(r, b)
  BY <1>1, <1>2, OverlapInside
<1>4. b \in Proper
  <2>1. ~ Overlaps(r, NoRect)
    <3>1. r.r0 \in Nat
      BY <1>2, ProperBounds
    <3> QED BY <3>1 DEF Overlaps, NoRect
  <2> QED BY <1>3, <2>1 DEF Box
<1>5. AffectedMembers(g, a) = Bounding(P(a)) /\ AffectedMembers(g, b) = Bounding(P(b))
  BY <1>1, <1>3 DEF AffectedMembers
<1>6. \A x : IsFiniteSet(P(x)) /\ P(x) \subseteq Coord \X Coord
  <2> SUFFICES ASSUME NEW x
               PROVE  IsFiniteSet(P(x)) /\ P(x) \subseteq Coord \X Coord
    OBVIOUS
  <2>1. PartOf(x) \in SUBSET g.members
    OBVIOUS
  <2> HIDE DEF PartOf
  <2> QED BY <2>1, PositionsFinite
<1>7. P(a) \subseteq P(b)
  BY OverlapInside
<1> HIDE DEF P
<1>8. Bounding(P(b)) \in Box /\ \A p \in P(b) : Covers(Bounding(P(b)), p)
  BY <1>6, BoundingCovers
<1>9. Inside(Bounding(P(a)), Bounding(P(b)))
  BY <1>6, <1>7, <1>8, BoundingWithin
<1> QED BY <1>3, <1>4, <1>5, <1>9

\* The box over a formula's references covers every cell they cover.
LEMMA BoundCovers ==
    ASSUME NEW refs \in Seq(Box)
    PROVE  LET bound == JoinAll({refs[i] : i \in DOMAIN refs})
           IN /\ bound \in Box
              /\ \A p \in Coord \X Coord : ReadsCell(refs, p) => Covers(bound, p)
<1> DEFINE T == {refs[i] : i \in DOMAIN refs}
<1>1. IsFiniteSet(T) /\ T \subseteq Box
  <2>1. DOMAIN refs = 1 .. Len(refs) /\ Len(refs) \in Nat /\ 1 \in Int
    BY LenProperties
  <2>2. IsFiniteSet(1 .. Len(refs))
    BY <2>1, FS_Interval
  <2>3. IsFiniteSet(T)
    BY <2>1, <2>2, ImageFinite
  <2>4. T \subseteq Box
    OBVIOUS
  <2> HIDE DEF T
  <2> QED BY <2>3, <2>4
<1>2. ASSUME NEW p \in Coord \X Coord, ReadsCell(refs, p)
      PROVE  \E r \in T : Covers(r, p)
  BY <1>2 DEF ReadsCell
<1> HIDE DEF T
<1>3. JoinAll(T) \in Box /\ \A r \in T : r \in Box /\ Inside(r, JoinAll(T))
  BY <1>1, JoinAllHolds
<1>4. \A p \in Coord \X Coord : ReadsCell(refs, p) => Covers(JoinAll(T), p)
  BY <1>2, <1>3, CoversInside
<1> QED BY <1>3, <1>4 DEF T

\* A graph of the sheet is linked: whoever reads a cell is found from it.
LEMMA BuiltLinked ==
    ASSUME NEW s, SheetOK(s), SheetTyped(s), NEW e, Built(s, e)
    PROVE  Linked(e)
<1> DEFINE G == DOMAIN e.groups
           reads == [g \in G |-> e.groups[g].reads]
<1>1. \A m \in Members(s) :
        /\ m.pos \in Coord \X Coord /\ m.refs \in Seq(Box) /\ m.bound \in Box
        /\ \A p \in Coord \X Coord : ReadsCell(m.refs, p) => Covers(m.bound, p)
  <2> SUFFICES ASSUME NEW m \in Members(s)
               PROVE  /\ m.pos \in Coord \X Coord /\ m.refs \in Seq(Box) /\ m.bound \in Box
                      /\ \A p \in Coord \X Coord : ReadsCell(m.refs, p) => Covers(m.bound, p)
    OBVIOUS
  <2> DEFINE refs == m.refs
  <2>1. m.pos \in Coord \X Coord /\ refs \in Seq(Box)
        /\ m.bound = JoinAll({refs[i] : i \in DOMAIN refs})
    BY MemberShape
  <2> HIDE DEF refs
  <2>2. m.bound \in Box /\ \A p \in Coord \X Coord : ReadsCell(refs, p) => Covers(m.bound, p)
    BY <2>1, BoundCovers
  <2> QED BY <2>1, <2>2 DEF refs
<1>2. \A m, n \in Members(s) : m.pos = n.pos => m = n
  BY MembersTyped
<1>3. ASSUME NEW g \in G
      PROVE  /\ e.groups[g] = Group(e.groups[g].members) /\ MembersOK(e.groups[g].members)
             /\ e.groups[g].members \subseteq Members(s) /\ e.groups[g].members # {}
             /\ ReadsItself(e.groups[g]) => \A m, n \in e.groups[g].members : m = n
  BY DEF Built, EngineOK, GroupsOK
<1>4. \A g, h \in G : e.groups[g].members \intersect e.groups[h].members # {} => g = h
  BY DEF Built
<1>5. e.index = Index(reads)
  BY DEF Built
<1>6. ASSUME NEW g \in G
      PROVE  /\ e.groups[g].reads = ReadsOf(e.groups[g].members)
             /\ e.groups[g].writes = Bounding(Positions(e.groups[g]))
             /\ IsFiniteSet(Positions(e.groups[g]))
             /\ Positions(e.groups[g]) \subseteq Coord \X Coord /\ Positions(e.groups[g]) # {}
  <2> DEFINE ms == e.groups[g].members
  <2>1. e.groups[g] = Group(ms) /\ MembersOK(ms) /\ ms # {}
    BY <1>3
  <2>2. Group(ms).reads = ReadsOf(ms) /\ Group(ms).writes = WritesOf(ms)
    BY DEF Group
  <2>3. Positions(e.groups[g]) = {m.pos : m \in ms}
    BY DEF Positions
  <2>4. e.groups[g].reads = ReadsOf(ms) /\ e.groups[g].writes = Bounding(Positions(e.groups[g]))
    BY <2>1, <2>2, <2>3 DEF WritesOf
  <2> HIDE DEF ms
  <2>5. IsFiniteSet({m.pos : m \in ms}) /\ {m.pos : m \in ms} \subseteq Coord \X Coord
    BY <2>1, PositionsFinite
  <2> QED BY <2>1, <2>3, <2>4, <2>5 DEF ms
<1>7. ASSUME NEW g \in G
      PROVE  /\ e.groups[g].reads \subseteq Proper
             /\ \A m \in e.groups[g].members : \A p \in Coord \X Coord : ReadsCell(m.refs, p) =>
                    \E r \in e.groups[g].reads : Covers(r, p)
  BY <1>3, <1>6, ReadsCover
<1>8. ASSUME NEW g \in G
      PROVE  /\ e.groups[g].writes \in Box /\ e.groups[g].writes # NoRect
             /\ \A p \in Positions(e.groups[g]) :
                    p \in Coord \X Coord /\ Covers(e.groups[g].writes, p)
  <2> DEFINE P == Positions(e.groups[g])
  <2>1. IsFiniteSet(P) /\ P \subseteq Coord \X Coord /\ P # {} /\ e.groups[g].writes = Bounding(P)
    BY <1>6
  <2> HIDE DEF P
  <2>2. Bounding(P) \in Box /\ \A p \in P : Covers(Bounding(P), p) /\ Bounding(P) # NoRect
    BY <2>1, BoundingCovers
  <2> QED BY <2>1, <2>2 DEF P
<1>9. ASSUME NEW g \in G, NEW rect \in Proper, \E r \in e.groups[g].reads : Overlaps(r, rect)
      PROVE  g \in Stab(e.index, rect)
  <2>1. reads \in [G -> SUBSET Proper] /\ \A h \in G : reads[h] = e.groups[h].reads
    BY <1>7
  <2> HIDE DEF reads
  <2>2. Stab(Index(reads), rect) = {h \in G : \E r \in reads[h] : Overlaps(r, rect)}
    BY <2>1, StabExact
  <2> QED BY <1>5, <1>9, <2>1, <2>2
<1>10. ASSUME NEW g \in G, NEW m \in e.groups[g].members, NEW p \in Coord \X Coord,
              ReadsCell(m.refs, p), NEW rect \in Box, Covers(rect, p)
       PROVE  /\ g \in Stab(e.index, rect)
              /\ Covers(AffectedMembers(e.groups[g], rect), m.pos)
              /\ \E r \in e.groups[g].reads : Overlaps(r, rect)
  <2>1. PICK r \in e.groups[g].reads : Covers(r, p)
    BY <1>7, <1>10
  <2>2. r \in Box
    BY <1>7 DEF Box
  <2>3. Overlaps(r, rect) /\ rect \in Proper
    BY <1>10, <2>1, <2>2, CoverOverlap
  <2>4. m \in Members(s) /\ m.bound \in Box /\ Covers(m.bound, p)
    BY <1>1, <1>3, <1>10
  <2>5. Overlaps(m.bound, rect)
    BY <1>10, <2>4, CoverOverlap
  <2> DEFINE part == {x \in e.groups[g].members : Overlaps(x.bound, rect)}
             P == {x.pos : x \in part}
  <2>6. AffectedMembers(e.groups[g], rect) = Bounding(P)
    BY <2>1, <2>3 DEF AffectedMembers
  <2>7. m.pos \in P
    BY <2>5
  <2>8. IsFiniteSet(P) /\ P \subseteq Coord \X Coord
    <3> DEFINE ms == e.groups[g].members
    <3>1. part \in SUBSET ms /\ MembersOK(ms)
      BY <1>3
    <3> HIDE DEF part, ms
    <3>2. IsFiniteSet({x.pos : x \in part}) /\ {x.pos : x \in part} \subseteq Coord \X Coord
      BY <3>1, PositionsFinite
    <3> QED BY <3>2
  <2> HIDE DEF P
  <2>9. Covers(Bounding(P), m.pos)
    BY <2>7, <2>8, BoundingCovers
  <2> QED BY <1>9, <2>3, <2>6, <2>9, <2>1
<1>11. ASSUME NEW g \in G, NEW m \in e.groups[g].members, NEW p \in Coord \X Coord,
              ReadsCell(m.refs, p), p \in Positions(e.groups[g])
       PROVE  ReadsItself(e.groups[g])
  <2>1. e.groups[g].writes \in Box /\ Covers(e.groups[g].writes, p)
    BY <1>8, <1>11
  <2> QED BY <1>10, <1>11, <2>1 DEF ReadsItself
<1>12. ASSUME NEW g \in G, NEW a \in Box, NEW b \in Box, Inside(a, b)
       PROVE  \/ AffectedMembers(e.groups[g], a) = NoRect
              \/ /\ g \in Stab(e.index, b)
                 /\ Inside(AffectedMembers(e.groups[g], a), AffectedMembers(e.groups[g], b))
  <2> SUFFICES ASSUME AffectedMembers(e.groups[g], a) # NoRect
               PROVE  /\ g \in Stab(e.index, b)
                      /\ Inside(AffectedMembers(e.groups[g], a), AffectedMembers(e.groups[g], b))
    OBVIOUS
  <2> DEFINE grp == e.groups[g]
  <2>1. /\ MembersOK(grp.members) /\ grp.reads \subseteq Proper
        /\ \A m \in grp.members : m.bound \in Box
    BY <1>1, <1>3, <1>7
  <2>2. AffectedMembers(grp, a) # NoRect
    OBVIOUS
  <2> HIDE DEF grp
  <2>3. /\ b \in Proper /\ \E r \in grp.reads : Overlaps(r, b)
        /\ Inside(AffectedMembers(grp, a), AffectedMembers(grp, b))
    BY <1>12, <2>1, <2>2, AffectedGrows
  <2> QED BY <1>9, <2>3 DEF grp
<1>13. \A g, h \in G : Positions(e.groups[g]) \intersect Positions(e.groups[h]) # {} => g = h
  <2> SUFFICES ASSUME NEW g \in G, NEW h \in G,
                      NEW m \in e.groups[g].members, NEW n \in e.groups[h].members, m.pos = n.pos
               PROVE  g = h
    BY DEF Positions
  <2>1. m = n
    BY <1>2, <1>3
  <2> QED BY <1>4, <2>1
<1>14. \A g \in G : \A m, n \in e.groups[g].members : m.pos = n.pos => m = n
  BY <1>2, <1>3
<1>15. Everywhere(e) \in [G -> Box] /\ Wanted(Everywhere(e)) = G
  BY <1>8 DEF Everywhere, Wanted
<1>16. \A g \in G : ReadsItself(e.groups[g]) => \A m, n \in e.groups[g].members : m = n
  BY <1>3
<1>17. \A g \in G : \A m \in e.groups[g].members :
         \A p \in Coord \X Coord : ReadsCell(m.refs, p) =>
                /\ \A rect \in Box : Covers(rect, p) =>
                        /\ g \in Stab(e.index, rect)
                        /\ Covers(AffectedMembers(e.groups[g], rect), m.pos)
                /\ p \in Positions(e.groups[g]) => ReadsItself(e.groups[g])
  BY <1>10, <1>11
<1>18. \A g \in G : \A p \in Positions(e.groups[g]) :
            p \in Coord \X Coord /\ Covers(e.groups[g].writes, p)
  BY <1>8
<1>19. \A g \in G : \A a, b \in Box : Inside(a, b) =>
            \/ AffectedMembers(e.groups[g], a) = NoRect
            \/ /\ g \in Stab(e.index, b)
               /\ Inside(AffectedMembers(e.groups[g], a), AffectedMembers(e.groups[g], b))
  BY <1>12
<1> QED BY Zenon, <1>13, <1>14, <1>15, <1>16, <1>17, <1>18, <1>19 DEF Linked

-----------------------------------------------------------------------------
(* Marking reaches its fixed point.                                        *)

\* Marking's loop: its state, one round, and the model's bound on the rounds.
MarkState(e) == [dirty : [DOMAIN e.groups -> Box], still : BOOLEAN]
MarkRound(e, state) ==
    IF state.still THEN state
    ELSE [dirty |-> Mark(e, state.dirty), still |-> Mark(e, state.dirty) = state.dirty]
MarkRounds(e) == 4 * Grid * Cardinality(DOMAIN e.groups)

\* The states marking goes through.
LEMMA MarkedRuns ==
    ASSUME NEW e, EngineOK(e), NEW seeds \in [DOMAIN e.groups -> Box]
    PROVE  \E run : /\ run[0] = [dirty |-> seeds, still |-> FALSE]
                    /\ \A i \in 1 .. MarkRounds(e) : run[i] = MarkRound(e, run[i - 1])
                    /\ Marked(e, seeds) = run[MarkRounds(e)].dirty
                    /\ MarkRounds(e) \in Nat
<1> DEFINE G == DOMAIN e.groups
           D == MarkState(e)
           base == [dirty |-> seeds, still |-> FALSE]
           Round(state, i) ==
              IF state.still THEN state
              ELSE LET next == Mark(e, state.dirty)
                   IN [dirty |-> next, still |-> next = state.dirty]
           n == 4 * Grid * Cardinality(DOMAIN seeds)
           rounds == [i \in 1 .. n |-> i]
           it == CHOOSE f : f = [s \in SUBSET (1 .. n) |->
                    IF s = {} THEN base ELSE Round(f[s \ {Max(s)}], rounds[Max(s)])]
           g0 == [i \in 1 .. n |-> [d \in D |-> Round(d, rounds[i])]]
<1>1. n \in Nat /\ DOMAIN rounds = 1 .. n /\ n = MarkRounds(e)
  <2>1. Cardinality(DOMAIN seeds) \in Nat
    BY FS_CardinalityType DEF EngineOK, GroupsOK
  <2>2. Grid \in Nat
    BY RectanglesAssumption
  <2>3. DOMAIN seeds = DOMAIN e.groups
    OBVIOUS
  <2> QED BY <2>1, <2>2, <2>3 DEF MarkRounds
<1>2. Marked(e, seeds) = it[1 .. n].dirty
  <2>1. FoldLeft(Round, base, rounds) = it[1 .. n]
    <3> HIDE DEF n, base
    <3> QED BY Zenon, <1>1 DEF FoldLeft, MapThenFoldSet
  <2>2. Marked(e, seeds) = FoldLeft(Round, base, rounds).dirty
    BY Zenon DEF Marked
  <2> QED BY Zenon, <2>1, <2>2
<1>3. base \in D
  BY DEF MarkState
<1>4. ASSUME NEW d \in D, NEW i
      PROVE  Round(d, i) \in D
  <2>1. d.dirty \in [G -> Box]
    BY DEF MarkState
  <2>2. Mark(e, d.dirty) \in [G -> Box]
    BY <2>1, MarkGrows
  <2> QED BY <2>2 DEF MarkState
<1>5. \A d, i : Round(d, i) = MarkRound(e, d)
  BY DEF MarkRound
<1> HIDE DEF n, rounds, base, D, Round
<1>6. \A i \in 1 .. n : \A d \in D : g0[i][d] = Round(d, rounds[i]) /\ g0[i][d] \in D
  BY <1>4
<1> HIDE DEF g0
<1>7. PICK h : Solves(h, D, base, n, g0)
  <2>1. \A i \in 1 .. n : \A d \in D : g0[i][d] \in D
    BY <1>6
  <2>2. n \in Nat
    BY <1>1
  <2> HIDE DEF it
  <2> QED BY Zenon, <1>3, <2>1, <2>2, FoldSolved
<1>8. \A s \in SUBSET (1 .. n) :
        h[s] = IF s = {} THEN base ELSE Round(h[s \ {Max(s)}], rounds[Max(s)])
  BY <1>6, <1>7 DEF Solves
<1>9. h = [s \in SUBSET (1 .. n) |->
              IF s = {} THEN base ELSE Round(h[s \ {Max(s)}], rounds[Max(s)])]
  BY <1>7, <1>8 DEF Solves
<1>10. it = [s \in SUBSET (1 .. n) |->
              IF s = {} THEN base ELSE Round(it[s \ {Max(s)}], rounds[Max(s)])]
  BY <1>9
<1> HIDE DEF it
<1> DEFINE run == [i \in 0 .. n |-> it[1 .. i]]
<1>11. run[0] = base
  <2>1. 1 .. 0 = {} /\ 0 \in 0 .. n
    BY <1>1
  <2> QED BY <1>10, <2>1
<1>12. ASSUME NEW i \in 1 .. n
       PROVE  run[i] = MarkRound(e, run[i - 1])
  <2>1. 1 .. i \in SUBSET (1 .. n) /\ 1 .. i # {} /\ Max(1 .. i) = i /\ (1 .. i) \ {i} = 1 .. i - 1
    BY <1>1, LargestChosen
  <2>2. it[1 .. i] = Round(it[1 .. i - 1], rounds[i])
    BY <1>10, <2>1
  <2>3. i \in 0 .. n /\ i - 1 \in 0 .. n
    BY <1>1
  <2> QED BY <1>5, <2>2, <2>3
<1>13. run[n] = it[1 .. n]
  BY <1>1
<1> HIDE DEF run
<1> QED BY <1>1, <1>2, <1>11, <1>12, <1>13 DEF base

\* What a side of a rectangle has passed.
Past(r, side, k) ==
    \/ side = 1 /\ r.r0 <= k
    \/ side = 2 /\ k <= r.r1
    \/ side = 3 /\ r.c0 <= k
    \/ side = 4 /\ k <= r.c1

\* A box is the lines it passes: growing it passes more of them.
LEMMA PastInside ==
    ASSUME NEW a \in Box, NEW b \in Box, Inside(a, b)
    PROVE  /\ \A side \in 1 .. 4, k \in Coord : Past(a, side, k) => Past(b, side, k)
           /\ (\A side \in 1 .. 4, k \in Coord : Past(b, side, k) => Past(a, side, k)) => a = b
<1>1. /\ a = [r0 |-> a.r0, r1 |-> a.r1, c0 |-> a.c0, c1 |-> a.c1]
      /\ a.r0 \in 0 .. Grid /\ a.r1 \in -1 .. Grid - 1
      /\ a.c0 \in 0 .. Grid /\ a.c1 \in -1 .. Grid - 1
  BY BoxSides
<1>2. /\ b = [r0 |-> b.r0, r1 |-> b.r1, c0 |-> b.c0, c1 |-> b.c1]
      /\ b.r0 \in 0 .. Grid /\ b.r1 \in -1 .. Grid - 1
      /\ b.c0 \in 0 .. Grid /\ b.c1 \in -1 .. Grid - 1
  BY BoxSides
<1>3. Grid \in Nat
  BY RectanglesAssumption
<1>4. ASSUME NEW side \in 1 .. 4, NEW k \in Coord, Past(a, side, k)
      PROVE  Past(b, side, k)
  BY <1>1, <1>2, <1>3, <1>4 DEF Past, Inside, Coord
<1>5. ASSUME \A side \in 1 .. 4, k \in Coord : Past(b, side, k) => Past(a, side, k)
      PROVE  a = b
  <2>1. a.r0 = b.r0
    <3>1. b.r0 < a.r0 => b.r0 \in Coord /\ Past(b, 1, b.r0) /\ ~ Past(a, 1, b.r0)
      BY <1>1, <1>2, <1>3 DEF Past, Coord
    <3> QED BY <1>1, <1>2, <1>5, <3>1 DEF Inside
  <2>2. a.r1 = b.r1
    <3>1. a.r1 < b.r1 => b.r1 \in Coord /\ Past(b, 2, b.r1) /\ ~ Past(a, 2, b.r1)
      BY <1>1, <1>2, <1>3 DEF Past, Coord
    <3> QED BY <1>1, <1>2, <1>5, <3>1 DEF Inside
  <2>3. a.c0 = b.c0
    <3>1. b.c0 < a.c0 => b.c0 \in Coord /\ Past(b, 3, b.c0) /\ ~ Past(a, 3, b.c0)
      BY <1>1, <1>2, <1>3 DEF Past, Coord
    <3> QED BY <1>1, <1>2, <1>5, <3>1 DEF Inside
  <2>4. a.c1 = b.c1
    <3>1. a.c1 < b.c1 => b.c1 \in Coord /\ Past(b, 4, b.c1) /\ ~ Past(a, 4, b.c1)
      BY <1>1, <1>2, <1>3 DEF Past, Coord
    <3> QED BY <1>1, <1>2, <1>5, <3>1 DEF Inside
  <2> QED BY <1>1, <1>2, <2>1, <2>2, <2>3, <2>4
<1> QED BY <1>4, <1>5

\* How far the sides of all rectangles have gone.
Sides == (1 .. 4) \X Coord
\* The lines all the dirty rectangles pass: the measure of the marking.
Extent(G, dirty) == {x \in G \X Sides : Past(dirty[x[1]], x[2][1], x[2][2])}

\* There are four sides of each group, Grid lines to a side.
LEMMA ExtentFinite ==
    ASSUME NEW G, IsFiniteSet(G)
    PROVE  /\ IsFiniteSet(G \X Sides)
           /\ Cardinality(G \X Sides) = 4 * Grid * Cardinality(G)
<1>1. Grid \in Nat
  BY RectanglesAssumption
<1>2. IsFiniteSet(Coord) /\ Cardinality(Coord) = Grid
  BY <1>1, FS_Interval DEF Coord
<1>3. IsFiniteSet(1 .. 4) /\ Cardinality(1 .. 4) = 4
  <2>1. 1 \in Int /\ 4 \in Int /\ ~ (1 > 4) /\ 4 - 1 + 1 = 4
    OBVIOUS
  <2>2. IsFiniteSet(1 .. 4)
    BY <2>1, FS_Interval
  <2>3. Cardinality(1 .. 4) = 4 - 1 + 1
    BY <2>1, FS_Interval
  <2> QED BY <2>1, <2>2, <2>3
<1>4. IsFiniteSet(Sides) /\ Cardinality(Sides) = 4 * Grid
  BY <1>2, <1>3, FS_Product DEF Sides
<1>5. IsFiniteSet(G \X Sides) /\ Cardinality(G \X Sides) = Cardinality(G) * Cardinality(Sides)
  BY <1>4, FS_Product
<1>6. Cardinality(G) \in Nat
  BY FS_CardinalityType
<1> QED BY <1>1, <1>4, <1>5, <1>6

\* A round that changes a dirty rectangle passes a line more.
LEMMA ExtentGrows ==
    ASSUME NEW G, IsFiniteSet(G), NEW a \in [G -> Box], NEW b \in [G -> Box],
           \A g \in G : Inside(a[g], b[g])
    PROVE  /\ Cardinality(Extent(G, a)) \in Nat /\ Cardinality(Extent(G, b)) \in Nat
           /\ Cardinality(Extent(G, b)) <= 4 * Grid * Cardinality(G)
           /\ a # b => Cardinality(Extent(G, a)) < Cardinality(Extent(G, b))
<1>1. IsFiniteSet(G \X Sides) /\ Cardinality(G \X Sides) = 4 * Grid * Cardinality(G)
  BY ExtentFinite
<1>2. Extent(G, a) \in SUBSET (G \X Sides) /\ Extent(G, b) \in SUBSET (G \X Sides)
  BY DEF Extent
<1>3. /\ IsFiniteSet(Extent(G, a)) /\ IsFiniteSet(Extent(G, b))
      /\ Cardinality(Extent(G, b)) <= 4 * Grid * Cardinality(G)
  BY <1>1, <1>2, FS_Subset
<1>4. Cardinality(Extent(G, a)) \in Nat /\ Cardinality(Extent(G, b)) \in Nat
  BY <1>3, FS_CardinalityType
<1>5. \A g \in G : \A side \in 1 .. 4, k \in Coord : Past(a[g], side, k) => Past(b[g], side, k)
  <2>1. \A g \in G : a[g] \in Box /\ b[g] \in Box
    OBVIOUS
  <2> QED BY <2>1, PastInside
<1>6. Extent(G, a) \subseteq Extent(G, b)
  BY <1>5 DEF Extent, Sides
<1>7. ASSUME a # b
      PROVE  Extent(G, a) # Extent(G, b)
  <2>1. PICK g \in G : a[g] # b[g]
    BY <1>7
  <2>2. a[g] \in Box /\ b[g] \in Box
    OBVIOUS
  <2>3. PICK side \in 1 .. 4, k \in Coord : Past(b[g], side, k) /\ ~ Past(a[g], side, k)
    BY <2>1, <2>2, PastInside
  <2>4. <<g, <<side, k>>>> \in G \X Sides
    BY DEF Sides
  <2> QED BY <2>3, <2>4 DEF Extent
<1>8. a # b => Cardinality(Extent(G, a)) < Cardinality(Extent(G, b))
  BY <1>3, <1>4, <1>6, <1>7, FS_Subset
<1> QED BY <1>3, <1>4, <1>8

\* Marking terminates where evaluate's frontier runs dry: after the rounds the
\* model allows, another round over the band index changes nothing.  Each earlier
\* round makes a dirty rectangle pass a line more, and there are only so many.
THEOREM MarkedStill ==
    ASSUME NEW e, EngineOK(e), NEW seeds \in [DOMAIN e.groups -> Box]
    PROVE  Mark(e, Marked(e, seeds)) = Marked(e, seeds)
<1> DEFINE G == DOMAIN e.groups
           n == MarkRounds(e)
<1>1. PICK run : /\ run[0] = [dirty |-> seeds, still |-> FALSE]
                 /\ \A i \in 1 .. n : run[i] = MarkRound(e, run[i - 1])
                 /\ Marked(e, seeds) = run[n].dirty
                 /\ n \in Nat
  BY MarkedRuns
<1>2. IsFiniteSet(G) /\ n = 4 * Grid * Cardinality(G)
  BY DEF EngineOK, GroupsOK, MarkRounds
<1> DEFINE Holds(i) == /\ run[i] \in MarkState(e)
                       /\ run[i].still => Mark(e, run[i].dirty) = run[i].dirty
                       /\ ~ run[i].still => Cardinality(Extent(G, run[i].dirty)) >= i
           T == {i \in 0 .. n : Holds(i)}
<1> HIDE DEF n, G
<1>3. 0 \in T
  <2>1. run[0] \in MarkState(e) /\ run[0].dirty = seeds /\ ~ run[0].still
    BY <1>1 DEF MarkState
  <2>2. \A g \in G : seeds[g] \in Box /\ Inside(seeds[g], seeds[g])
    BY InsideItself DEF G
  <2>3. seeds \in [G -> Box]
    BY DEF G
  <2>4. Cardinality(Extent(G, seeds)) \in Nat
    BY <1>2, <2>2, <2>3, ExtentGrows
  <2> QED BY <1>1, <2>1, <2>4
<1>4. ASSUME NEW k \in 0 .. n - 1, k \in T
      PROVE  k + 1 \in T
  <2>1. k + 1 \in 1 .. n /\ k + 1 - 1 = k /\ k + 1 \in 0 .. n /\ k \in Nat
    BY <1>1
  <2>2. run[k + 1] = MarkRound(e, run[k])
    <3>1. run[k + 1] = MarkRound(e, run[k + 1 - 1])
      BY <1>1, <2>1
    <3> QED BY <2>1, <3>1
  <2> DEFINE old == run[k]
             next == Mark(e, old.dirty)
  <2>3. Holds(k)
    BY <1>4
  <2>4. old.dirty \in [G -> Box] /\ old.still \in BOOLEAN
    BY <2>3 DEF MarkState, G
  <2>5. next \in [G -> Box] /\ \A g \in G : Inside(old.dirty[g], next[g])
    BY <2>4, MarkGrows DEF G
  <2>6. CASE old.still
    <3>1. run[k + 1] = run[k]
      BY <2>2, <2>6 DEF MarkRound
    <3> QED BY <2>1, <2>3, <2>6, <3>1
  <2>7. CASE ~ old.still
    <3> HIDE DEF next
    <3>1. run[k + 1] = [dirty |-> next, still |-> next = old.dirty]
      BY <2>2, <2>7 DEF MarkRound, next
    <3>2. run[k + 1] \in MarkState(e)
      BY <2>5, <3>1 DEF MarkState, G
    <3>3. run[k + 1].dirty = next /\ run[k + 1].still = (next = old.dirty)
      BY <3>1
    <3>4. run[k + 1].still => Mark(e, run[k + 1].dirty) = run[k + 1].dirty
      BY <3>3 DEF next
    <3>5. ASSUME ~ run[k + 1].still
          PROVE  Cardinality(Extent(G, run[k + 1].dirty)) >= k + 1
      <4> DEFINE a == Cardinality(Extent(G, old.dirty))
                 b == Cardinality(Extent(G, next))
      <4>1. a \in Nat /\ b \in Nat /\ a < b
        <5>1. next # old.dirty
          BY <3>3, <3>5
        <5> HIDE DEF old
        <5> QED BY <1>2, <2>4, <2>5, <5>1, ExtentGrows
      <4>2. a >= k
        BY <2>3, <2>7
      <4> HIDE DEF a, b
      <4>3. b >= k + 1
        BY <2>1, <4>1, <4>2
      <4> QED BY <3>3, <4>3 DEF b
    <3>6. Holds(k + 1)
      BY <3>2, <3>4, <3>5
    <3> HIDE DEF Holds
    <3> QED BY <2>1, <3>6
  <2> QED BY <2>4, <2>6, <2>7
<1>5. n \in T
  <2> HIDE DEF T
  <2>1. 0 .. n \subseteq T
    BY <1>1, <1>3, <1>4, CountsUp
  <2> QED BY <1>1, <2>1
<1> DEFINE dirty == run[n].dirty
<1>6. Holds(n)
  BY <1>5
<1>7. CASE run[n].still
  BY <1>1, <1>6, <1>7
<1>8. CASE ~ run[n].still
  <2>1. dirty \in [G -> Box]
    BY <1>6 DEF MarkState, G
  <2>2. Cardinality(Extent(G, dirty)) >= n
    BY <1>6, <1>8
  <2> HIDE DEF dirty
  <2> DEFINE next == Mark(e, dirty)
  <2>3. next \in [G -> Box] /\ \A g \in G : Inside(dirty[g], next[g])
    BY <2>1, MarkGrows DEF G
  <2> HIDE DEF next
  <2>4. /\ Cardinality(Extent(G, dirty)) \in Nat /\ Cardinality(Extent(G, next)) \in Nat
        /\ Cardinality(Extent(G, next)) <= n
        /\ dirty # next => Cardinality(Extent(G, dirty)) < Cardinality(Extent(G, next))
    BY <1>2, <2>1, <2>3, ExtentGrows
  <2>5. dirty = next
    BY <1>1, <2>2, <2>4
  <2> QED BY <1>1, <2>5 DEF dirty, next
<1> QED BY <1>6, <1>7, <1>8 DEF MarkState

-----------------------------------------------------------------------------
(* What finds a level.                                                     *)

\* The groups a level may hold: dirty, and not reading themselves.
Placeable(e, dirty) == {g \in Wanted(dirty) : ~ ReadsItself(e.groups[g])}
\* The next level, after those that hold placed.
NextLevel(e, dirty, placed) ==
    {g \in Placeable(e, dirty) \ placed : Upstream(e, dirty, g) \subseteq placed}

\* Q[k] is what the first k levels hold.
Ordered(e, dirty, Q) ==
    LET n == Cardinality(Placeable(e, dirty))
    IN /\ n \in Nat /\ DOMAIN Q = 0 .. n /\ Q[0] = {}
       /\ \A k \in 1 .. n : /\ Levels(e, dirty)[k] = NextLevel(e, dirty, Q[k - 1])
                            /\ Q[k] = Q[k - 1] \union Levels(e, dirty)[k]
       /\ Len(Levels(e, dirty)) = n /\ DOMAIN Levels(e, dirty) = 1 .. n
       /\ Placed(Levels(e, dirty)) = Q[n]

\* The sequences of levels Levels goes through.
LEMMA LevelsRun ==
    ASSUME NEW e, EngineOK(e), NEW dirty \in [DOMAIN e.groups -> Box]
    PROVE  LET n == Cardinality(Placeable(e, dirty))
           IN \E run : /\ n \in Nat /\ run[0] = <<>>
                       /\ \A i \in 1 .. n :
                            run[i] = Append(run[i - 1],
                                        NextLevel(e, dirty, Placed(run[i - 1])))
                       /\ Levels(e, dirty) = run[n]
<1> DEFINE groups == {g \in Wanted(dirty) : ~ ReadsItself(e.groups[g])}
           next(placed) == {g \in groups \ placed : Upstream(e, dirty, g) \subseteq placed}
           Place(levels, i) == Append(levels, next(UNION ToSet(levels)))
           n == Cardinality(groups)
           rounds == [i \in 1 .. n |-> i]
           D == Seq(SUBSET Wanted(dirty))
           base == <<>>
           it == CHOOSE f : f = [s \in SUBSET (1 .. n) |->
                    IF s = {} THEN base ELSE Place(f[s \ {Max(s)}], rounds[Max(s)])]
           g0 == [i \in 1 .. n |-> [d \in D |-> Place(d, rounds[i])]]
<1>0. groups = Placeable(e, dirty)
  BY DEF Placeable
<1>1. n \in Nat /\ DOMAIN rounds = 1 .. n
  <2>1. groups \in SUBSET DOMAIN e.groups
    BY DEF Wanted
  <2> HIDE DEF groups
  <2> QED BY <2>1, FS_Subset, FS_CardinalityType DEF EngineOK, GroupsOK
<1>2. Levels(e, dirty) = it[1 .. n]
  <2>1. FoldLeft(Place, base, rounds) = it[1 .. n]
    <3> HIDE DEF n, base
    <3> QED BY Zenon, <1>1 DEF FoldLeft, MapThenFoldSet
  <2>2. Levels(e, dirty) = FoldLeft(Place, base, rounds)
    BY Zenon DEF Levels
  <2> QED BY Zenon, <2>1, <2>2
<1>3. base \in D
  OBVIOUS
<1>4. ASSUME NEW d \in D, NEW i
      PROVE  Place(d, i) \in D
  <2> DEFINE W == SUBSET Wanted(dirty)
             new == next(UNION ToSet(d))
  <2>1. new \in W /\ d \in Seq(W)
    OBVIOUS
  <2>2. Place(d, i) = Append(d, new)
    OBVIOUS
  <2> HIDE DEF W, new, Place
  <2>3. Append(d, new) \in Seq(W)
    BY <2>1
  <2> QED BY <2>2, <2>3 DEF W
<1>5. \A d, i : Place(d, i) = Append(d, NextLevel(e, dirty, Placed(d)))
  BY <1>0 DEF NextLevel, Placed
<1> HIDE DEF n, rounds, base, D, Place
<1>6. \A i \in 1 .. n : \A d \in D : g0[i][d] = Place(d, rounds[i]) /\ g0[i][d] \in D
  BY <1>4
<1> HIDE DEF g0
<1>7. PICK h : Solves(h, D, base, n, g0)
  <2>1. \A i \in 1 .. n : \A d \in D : g0[i][d] \in D
    BY <1>6
  <2>2. n \in Nat
    BY <1>1
  <2> HIDE DEF it
  <2> QED BY Zenon, <1>3, <2>1, <2>2, FoldSolved
<1>8. \A s \in SUBSET (1 .. n) :
        h[s] = IF s = {} THEN base ELSE Place(h[s \ {Max(s)}], rounds[Max(s)])
  BY <1>6, <1>7 DEF Solves
<1>9. h = [s \in SUBSET (1 .. n) |->
              IF s = {} THEN base ELSE Place(h[s \ {Max(s)}], rounds[Max(s)])]
  BY <1>7, <1>8 DEF Solves
<1>10. it = [s \in SUBSET (1 .. n) |->
              IF s = {} THEN base ELSE Place(it[s \ {Max(s)}], rounds[Max(s)])]
  BY <1>9
<1> HIDE DEF it
<1> DEFINE run == [i \in 0 .. n |-> it[1 .. i]]
<1>11. run[0] = base
  <2>1. 1 .. 0 = {} /\ 0 \in 0 .. n
    BY <1>1
  <2> QED BY <1>10, <2>1
<1>12. ASSUME NEW i \in 1 .. n
       PROVE  run[i] = Append(run[i - 1], NextLevel(e, dirty, Placed(run[i - 1])))
  <2>1. 1 .. i \in SUBSET (1 .. n) /\ 1 .. i # {} /\ Max(1 .. i) = i /\ (1 .. i) \ {i} = 1 .. i - 1
    BY <1>1, LargestChosen
  <2>2. it[1 .. i] = Place(it[1 .. i - 1], rounds[i])
    BY <1>10, <2>1
  <2>3. i \in 0 .. n /\ i - 1 \in 0 .. n
    BY <1>1
  <2> QED BY <1>5, <2>2, <2>3
<1>13. run[n] = it[1 .. n]
  BY <1>1
<1> HIDE DEF run
<1>14. n = Cardinality(Placeable(e, dirty))
  BY <1>0 DEF n
<1> HIDE DEF groups
<1> QED BY <1>1, <1>2, <1>11, <1>12, <1>13, <1>14 DEF base

\* The levels of any marking: each holds what reads only earlier ones, and the last adds none.
LEMMA LevelsOrdered ==
    ASSUME NEW e, EngineOK(e), NEW dirty \in [DOMAIN e.groups -> Box]
    PROVE  \E Q : Ordered(e, dirty, Q)
<1> DEFINE n == Cardinality(Placeable(e, dirty))
           W == SUBSET Wanted(dirty)
<1>1. PICK run : /\ n \in Nat /\ run[0] = <<>>
                 /\ \A i \in 1 .. n :
                      run[i] = Append(run[i - 1], NextLevel(e, dirty, Placed(run[i - 1])))
                 /\ Levels(e, dirty) = run[n]
  BY LevelsRun
<1> DEFINE Holds(i) == run[i] \in Seq(W) /\ Len(run[i]) = i
           T == {i \in 0 .. n : Holds(i)}
           Q == [i \in 0 .. n |-> Placed(run[i])]
<1>2. \A P : NextLevel(e, dirty, P) \in W
  BY DEF NextLevel, Placeable
<1> HIDE DEF n, W
<1>3. 0 \in T
  <2>1. 0 \in 0 .. n
    BY <1>1
  <2>2. <<>> \in Seq(W) /\ Len(<<>>) = 0
    OBVIOUS
  <2> QED BY <1>1, <2>1, <2>2
<1>4. ASSUME NEW k \in 0 .. n - 1, k \in T
      PROVE  k + 1 \in T
  <2>1. k + 1 \in 1 .. n /\ k + 1 - 1 = k /\ k + 1 \in 0 .. n /\ k \in Nat
    BY <1>1
  <2> DEFINE new == NextLevel(e, dirty, Placed(run[k]))
             old == run[k]
  <2>2. run[k + 1] = Append(old, new)
    <3>1. run[k + 1] = Append(run[k + 1 - 1], NextLevel(e, dirty, Placed(run[k + 1 - 1])))
      BY <1>1, <2>1
    <3> QED BY <2>1, <3>1
  <2>3. old \in Seq(W) /\ Len(old) = k /\ new \in W
    BY <1>2, <1>4
  <2> HIDE DEF old, new
  <2>4. Append(old, new) \in Seq(W) /\ Len(Append(old, new)) = k + 1
    BY <2>3
  <2> QED BY <2>1, <2>2, <2>4
<1>5. \A i \in 0 .. n : Holds(i)
  <2> HIDE DEF T
  <2>1. 0 .. n \subseteq T
    BY <1>1, <1>3, <1>4, CountsUp
  <2> QED BY <2>1 DEF T
\* A level stays where it was put.
<1> DEFINE Kept(i) == \A k \in 1 .. i : run[i][k] = NextLevel(e, dirty, Placed(run[k - 1]))
           U == {i \in 0 .. n : Kept(i)}
<1>6. 0 \in U
  <2>1. 1 .. 0 = {} /\ 0 \in 0 .. n
    BY <1>1
  <2> QED BY <2>1
<1>7. ASSUME NEW j \in 1 .. n
      PROVE  /\ run[j - 1] \in Seq(W) /\ Len(run[j - 1]) = j - 1 /\ j - 1 \in Nat
             /\ \A k \in 1 .. j - 1 : run[j][k] = run[j - 1][k]
             /\ run[j][j] = NextLevel(e, dirty, Placed(run[j - 1]))
  <2> DEFINE old == run[j - 1]
             new == NextLevel(e, dirty, Placed(run[j - 1]))
  <2>1. run[j] = Append(old, new)
    BY <1>1
  <2>2. j - 1 \in 0 .. n /\ j - 1 \in Nat /\ j - 1 + 1 = j
    BY <1>1
  <2>3. old \in Seq(W) /\ Len(old) = j - 1 /\ new \in W
    BY <1>2, <1>5, <2>2
  <2> HIDE DEF old, new
  <2>4. (\A k \in 1 .. j - 1 : Append(old, new)[k] = old[k]) /\ Append(old, new)[j] = new
    BY <2>2, <2>3
  <2> QED BY <2>1, <2>2, <2>3, <2>4 DEF old, new
<1>8. ASSUME NEW k \in 0 .. n - 1, k \in U
      PROVE  k + 1 \in U
  <2>1. k + 1 \in 1 .. n /\ k + 1 - 1 = k /\ k + 1 \in 0 .. n /\ k \in Nat
    BY <1>1
  <2>2. (\A m \in 1 .. k : run[k + 1][m] = run[k][m])
        /\ run[k + 1][k + 1] = NextLevel(e, dirty, Placed(run[k]))
    <3>1. (\A m \in 1 .. k + 1 - 1 : run[k + 1][m] = run[k + 1 - 1][m])
          /\ run[k + 1][k + 1] = NextLevel(e, dirty, Placed(run[k + 1 - 1]))
      BY <1>7, <2>1
    <3> QED BY <2>1, <3>1
  <2>3. Kept(k)
    BY <1>8
  <2>4. ASSUME NEW m \in 1 .. k + 1
        PROVE  run[k + 1][m] = NextLevel(e, dirty, Placed(run[m - 1]))
    <3>1. m \in 1 .. k \/ m = k + 1
      BY <2>1
    <3>2. CASE m \in 1 .. k
      BY <2>2, <2>3, <3>2
    <3>3. CASE m = k + 1
      <4>1. run[m - 1] = run[k]
        BY <2>1, <3>3
      <4> QED BY <2>2, <3>3, <4>1
    <3> QED BY <3>1, <3>2, <3>3
  <2>5. Kept(k + 1)
    BY <2>4
  <2> HIDE DEF Kept
  <2> QED BY <2>1, <2>5
<1>9. Kept(n)
  <2> HIDE DEF U
  <2>1. 0 .. n \subseteq U
    BY <1>1, <1>6, <1>8, CountsUp
  <2>2. n \in U
    BY <1>1, <2>1
  <2> QED BY <2>2 DEF U
<1>10. Q[0] = {} /\ DOMAIN Q = 0 .. n
  <2>1. 0 \in 0 .. n /\ ToSet(<<>>) = {}
    BY <1>1 DEF ToSet
  <2> QED BY <1>1, <2>1 DEF Placed
<1>11. ASSUME NEW j \in 1 .. n
       PROVE  /\ Levels(e, dirty)[j] = NextLevel(e, dirty, Q[j - 1])
              /\ Q[j] = Q[j - 1] \union Levels(e, dirty)[j]
  <2>1. j \in 0 .. n /\ j - 1 \in 0 .. n /\ j - 1 \in Nat /\ j \in Nat
    BY <1>1
  <2>2. Levels(e, dirty)[j] = NextLevel(e, dirty, Placed(run[j - 1]))
    BY <1>1, <1>9
  <2>3. Placed(run[j]) = Placed(run[j - 1]) \union NextLevel(e, dirty, Placed(run[j - 1]))
    <3> DEFINE old == run[j - 1]
               new == NextLevel(e, dirty, Placed(run[j - 1]))
               all == run[j]
    <3>1. DOMAIN old = 1 .. j - 1 /\ DOMAIN all = 1 .. j
      <4>1. old \in Seq(W) /\ Len(old) = j - 1 /\ all \in Seq(W) /\ Len(all) = j
        BY <1>5, <2>1
      <4> HIDE DEF old, all
      <4> QED BY <4>1
    <3>2. (\A k \in 1 .. j - 1 : all[k] = old[k]) /\ all[j] = new
      BY <1>7
    <3> HIDE DEF old, new, all
    <3>3. 1 .. j = (1 .. j - 1) \union {j} /\ j \notin 1 .. j - 1
      BY <2>1
    <3>4. Placed(all) = Placed(old) \union new
      BY <3>1, <3>2, <3>3 DEF Placed, ToSet
    <3> QED BY <3>4 DEF old, new, all
  <2> QED BY <2>1, <2>2, <2>3
<1>12. /\ Len(Levels(e, dirty)) = n /\ DOMAIN Levels(e, dirty) = 1 .. n
       /\ Placed(Levels(e, dirty)) = Q[n]
  <2>1. n \in 0 .. n
    BY <1>1
  <2>2. run[n] \in Seq(W) /\ Len(run[n]) = n
    BY <1>5, <2>1
  <2>3. DOMAIN run[n] = 1 .. n
    BY <2>2
  <2> QED BY <1>1, <2>1, <2>2, <2>3
<1> HIDE DEF Q
<1>13. Ordered(e, dirty, Q)
  BY <1>1, <1>10, <1>11, <1>12 DEF Ordered, n
<1> QED BY <1>13

\* What a group placed by level k waits for has a level before k, and nothing
\* that could be placed is left.
LEMMA OrderedClosed ==
    ASSUME NEW e, EngineOK(e), NEW dirty \in [DOMAIN e.groups -> Box], NEW Q, Ordered(e, dirty, Q)
    PROVE  LET n == Cardinality(Placeable(e, dirty))
           IN /\ n \in Nat
              /\ \A k \in 0 .. n : Q[k] \subseteq Placeable(e, dirty)
              /\ \A k \in 1 .. n : \A g \in Q[k] : Upstream(e, dirty, g) \subseteq Q[k - 1]
              /\ \A k \in 1 .. n : Q[k - 1] \subseteq Q[k]
              /\ \A g \in Placeable(e, dirty) :
                    Upstream(e, dirty, g) \subseteq Q[n] => g \in Q[n]
<1> DEFINE P == Placeable(e, dirty)
           n == Cardinality(P)
<1>1. /\ n \in Nat /\ Q[0] = {}
      /\ \A k \in 1 .. n : Q[k] = Q[k - 1] \union NextLevel(e, dirty, Q[k - 1])
  BY DEF Ordered
<1>2. IsFiniteSet(P)
  <2>1. P \in SUBSET DOMAIN e.groups /\ IsFiniteSet(DOMAIN e.groups)
    BY DEF Placeable, Wanted, EngineOK, GroupsOK
  <2> QED BY <2>1, FS_Subset
<1>3. \A X : NextLevel(e, dirty, X) \subseteq P \ X
  BY DEF NextLevel
<1>4. \A X : \A g \in NextLevel(e, dirty, X) : Upstream(e, dirty, g) \subseteq X
  BY DEF NextLevel
<1> HIDE DEF n, P
<1> DEFINE Holds(k) == /\ Q[k] \subseteq P
                       /\ \A g \in Q[k] : Upstream(e, dirty, g) \subseteq Q[k]
                       /\ NextLevel(e, dirty, Q[k]) = {} \/ Cardinality(Q[k]) >= k
           T == {k \in 0 .. n : Holds(k)}
<1>5. 0 \in T
  <2>1. 0 \in 0 .. n /\ Cardinality({}) = 0
    BY <1>1, FS_EmptySet
  <2> QED BY <1>1, <2>1
<1>6. ASSUME NEW k \in 0 .. n - 1, k \in T
      PROVE  k + 1 \in T
  <2>1. k + 1 \in 1 .. n /\ k + 1 - 1 = k /\ k + 1 \in 0 .. n /\ k \in Nat
    BY <1>1
  <2> DEFINE old == Q[k]
             new == NextLevel(e, dirty, old)
             both == Q[k + 1]
  <2>2. both = old \union new
    <3>1. Q[k + 1] = Q[k + 1 - 1] \union NextLevel(e, dirty, Q[k + 1 - 1])
      BY <1>1, <2>1
    <3> QED BY <2>1, <3>1
  <2>3. /\ old \subseteq P /\ \A g \in old : Upstream(e, dirty, g) \subseteq old
        /\ new = {} \/ Cardinality(old) >= k
    BY <1>6
  <2>4. new \subseteq P \ old /\ \A g \in new : Upstream(e, dirty, g) \subseteq old
    BY <1>3, <1>4
  <2> HIDE DEF old, both
  <2>5. both \subseteq P /\ \A g \in both : Upstream(e, dirty, g) \subseteq both
    BY <2>2, <2>3, <2>4
  <2>6. CASE new = {}
    <3>1. both = old
      BY <2>2, <2>6
    <3>2. NextLevel(e, dirty, both) = {}
      BY <2>6, <3>1
    <3> QED BY <2>1, <2>5, <3>2 DEF both
  <2>7. CASE new # {}
    <3> HIDE DEF new
    <3>1. IsFiniteSet(both) /\ IsFiniteSet(old) /\ old \subseteq both /\ old # both
      BY <1>2, <2>2, <2>3, <2>4, <2>5, <2>7, FS_Subset
    <3>2. Cardinality(old) \in Nat /\ Cardinality(both) \in Nat
      BY <3>1, FS_CardinalityType
    <3>3. Cardinality(old) < Cardinality(both)
      BY <3>1, <3>2, FS_Subset
    <3>4. Cardinality(both) >= k + 1
      BY <2>1, <2>3, <2>7, <3>2, <3>3
    <3> QED BY <2>1, <2>5, <3>4 DEF both
  <2> QED BY <2>6, <2>7
<1>7. \A k \in 0 .. n : Holds(k)
  <2> HIDE DEF T
  <2>1. 0 .. n \subseteq T
    BY <1>1, <1>5, <1>6, CountsUp
  <2> QED BY <2>1 DEF T
<1>8. ASSUME NEW k \in 1 .. n
      PROVE  /\ Q[k - 1] \subseteq Q[k]
             /\ \A g \in Q[k] : Upstream(e, dirty, g) \subseteq Q[k - 1]
  <2>1. k - 1 \in 0 .. n
    BY <1>1
  <2>2. \A g \in Q[k - 1] : Upstream(e, dirty, g) \subseteq Q[k - 1]
    BY <1>7, <2>1
  <2>3. Q[k] = Q[k - 1] \union NextLevel(e, dirty, Q[k - 1])
    BY <1>1
  <2> QED BY <1>4, <2>2, <2>3
<1>9. ASSUME NEW g \in P, Upstream(e, dirty, g) \subseteq Q[n]
      PROVE  g \in Q[n]
  <2>1. n \in 0 .. n
    BY <1>1
  <2>2. Holds(n)
    BY <1>7, <2>1
  <2>3. CASE NextLevel(e, dirty, Q[n]) = {}
    BY <1>9, <2>3 DEF NextLevel, P
  <2>4. CASE Cardinality(Q[n]) >= n
    <3> DEFINE X == Q[n]
    <3>1. X \subseteq P /\ Cardinality(X) >= Cardinality(P)
      BY <2>2, <2>4 DEF n
    <3> HIDE DEF X
    <3>2. IsFiniteSet(X) /\ Cardinality(X) \in Nat /\ Cardinality(P) \in Nat
      BY <1>2, <3>1, FS_Subset, FS_CardinalityType
    <3>3. X = P
      BY <1>2, <3>1, <3>2, FS_Subset
    <3> QED BY <1>9, <3>3 DEF X
  <2> QED BY <2>2, <2>3, <2>4
<1> QED BY <1>1, <1>7, <1>8, <1>9 DEF n, P

\* A group the whole graph places is placed in any pass it is dirty in.
LEMMA PlacedStays ==
    ASSUME NEW e, EngineOK(e), Linked(e), NEW dirty \in [DOMAIN e.groups -> Box]
    PROVE  Placed(Levels(e, Everywhere(e))) \intersect Wanted(dirty)
                \subseteq Placed(Levels(e, dirty))
<1> DEFINE all == Everywhere(e)
           n == Cardinality(Placeable(e, all))
           m == Cardinality(Placeable(e, dirty))
<1>1. all \in [DOMAIN e.groups -> Box] /\ Wanted(all) = DOMAIN e.groups
  BY DEF Linked
<1>2. PICK Q : Ordered(e, all, Q)
  BY <1>1, LevelsOrdered
<1>3. PICK R : Ordered(e, dirty, R)
  BY LevelsOrdered
<1> HIDE DEF all
<1>4. /\ n \in Nat /\ \A k \in 0 .. n : Q[k] \subseteq Placeable(e, all)
      /\ \A k \in 1 .. n : \A g \in Q[k] : Upstream(e, all, g) \subseteq Q[k - 1]
  BY <1>1, <1>2, OrderedClosed
<1>5. \A g \in Placeable(e, dirty) : Upstream(e, dirty, g) \subseteq R[m] => g \in R[m]
  BY <1>3, OrderedClosed
<1>6. Q[0] = {} /\ Placed(Levels(e, all)) = Q[n] /\ Placed(Levels(e, dirty)) = R[m]
  BY <1>2, <1>3 DEF Ordered
<1>7. Wanted(dirty) \subseteq DOMAIN e.groups
  BY DEF Wanted
<1>8. \A g : Upstream(e, dirty, g) = Upstream(e, all, g) \intersect Wanted(dirty)
  BY <1>1, <1>7 DEF Upstream
<1>9. \A g \in Placeable(e, all) \intersect Wanted(dirty) : g \in Placeable(e, dirty)
  BY DEF Placeable
<1> DEFINE T == {k \in 0 .. n : Q[k] \intersect Wanted(dirty) \subseteq R[m]}
<1> HIDE DEF n, m
<1>10. 0 \in T
  BY <1>4, <1>6
<1>11. ASSUME NEW k \in 0 .. n - 1, k \in T
       PROVE  k + 1 \in T
  <2>1. k + 1 \in 1 .. n /\ k + 1 - 1 = k /\ k + 1 \in 0 .. n
    BY <1>4
  <2>2. ASSUME NEW g \in Q[k + 1], g \in Wanted(dirty)
        PROVE  g \in R[m]
    <3>1. Upstream(e, all, g) \subseteq Q[k] /\ g \in Placeable(e, all)
      <4>1. Upstream(e, all, g) \subseteq Q[k + 1 - 1]
        BY <1>4, <2>1
      <4> QED BY <1>4, <2>1, <4>1
    <3>2. Q[k] \intersect Wanted(dirty) \subseteq R[m]
      BY <1>11
    <3> QED BY <1>5, <1>8, <1>9, <2>2, <3>1, <3>2
  <2> QED BY <2>1, <2>2
<1>12. Q[n] \intersect Wanted(dirty) \subseteq R[m]
  <2> HIDE DEF T
  <2>1. 0 .. n \subseteq T
    BY <1>4, <1>10, <1>11, CountsUp
  <2>2. n \in T
    BY <1>4, <2>1
  <2> QED BY <2>2 DEF T
<1> QED BY <1>6, <1>12 DEF all

-----------------------------------------------------------------------------
(* What a pass relies on.                                                  *)

\* A rectangle and finitely many more join inside whatever holds them all.
LEMMA JoinedWithin ==
    ASSUME NEW r \in Box, NEW I, IsFiniteSet(I), NEW f \in [I -> Box]
    PROVE  LET S == {r} \union {f[i] : i \in I}
           IN /\ \A i \in I : Inside(f[i], JoinAll(S))
              /\ \A c \in Box : Inside(r, c) /\ (\A i \in I : Inside(f[i], c))
                                    => Inside(JoinAll(S), c)
<1> DEFINE T == {f[i] : i \in I}
           S == {r} \union T
<1>1. IsFiniteSet(T) /\ T \subseteq Box
  BY ImageFinite
<1>2. \A i \in I : f[i] \in T
  OBVIOUS
<1>3. \A c : (\A i \in I : Inside(f[i], c)) => \A t \in T : Inside(t, c)
  OBVIOUS
<1> HIDE DEF T
<1>4. IsFiniteSet(S) /\ S \subseteq Box /\ T \subseteq S
  BY <1>1, FS_Singleton, FS_Union
<1>5. \A c : Inside(r, c) /\ (\A t \in T : Inside(t, c)) => \A t \in S : Inside(t, c)
  OBVIOUS
<1> HIDE DEF S
<1>6. \A t \in S : Inside(t, JoinAll(S))
  BY <1>4, JoinAllHolds
<1>7. \A c \in Box : (\A t \in S : Inside(t, c)) => Inside(JoinAll(S), c)
  BY <1>4, JoinAllWithin
<1> QED BY <1>2, <1>3, <1>4, <1>5, <1>6, <1>7 DEF S, T

\* A graph of the sheet, seeds, and what marking makes of them.
Ready(s, e, seeds, dirty) ==
    LET G == DOMAIN e.groups
    IN /\ SheetOK(s) /\ SheetTyped(s) /\ Built(s, e) /\ Linked(e)
       /\ Results(e.results, DOMAIN e.results)
       /\ seeds \in [G -> Box] /\ dirty \in [G -> Box]
       /\ \A g \in G : Inside(seeds[g], dirty[g])
       /\ \A g \in G : \A u \in Wanted(dirty) \ {g} : g \in Stab(e.index, dirty[u]) =>
            Inside(AffectedMembers(e.groups[g], dirty[u]), dirty[g])

\* A recalculation of a graph of the sheet starts with what a pass relies on.
LEMMA PassReady ==
    ASSUME NEW s, SheetOK(s), SheetTyped(s), NEW e, Built(s, e),
           Results(e.results, DOMAIN e.results), NEW seeds \in [DOMAIN e.groups -> Box]
    PROVE  Ready(s, e, seeds, Marked(e, seeds))
<1> DEFINE G == DOMAIN e.groups
           dirty == Marked(e, seeds)
<1>1. EngineOK(e) /\ Linked(e)
  BY BuiltLinked DEF Built
<1>2. dirty \in [G -> Box] /\ \A g \in G : Inside(seeds[g], dirty[g])
  BY <1>1, MarkedGrows
<1>3. Mark(e, dirty) = dirty
  BY <1>1, MarkedStill
<1> HIDE DEF dirty
<1>4. ASSUME NEW g \in G, NEW u \in Wanted(dirty) \ {g}, g \in Stab(e.index, dirty[u])
      PROVE  Inside(AffectedMembers(e.groups[g], dirty[u]), dirty[g])
  <2> DEFINE From == {x \in Wanted(dirty) \ {g} : g \in Stab(e.index, dirty[x])}
             f == [x \in From |-> AffectedMembers(e.groups[g], dirty[x])]
             T == {AffectedMembers(e.groups[g], dirty[x]) : x \in From}
  <2>1. dirty[g] = JoinAll({dirty[g]} \union T)
    <3>1. Mark(e, dirty)[g] = JoinAll({dirty[g]} \union T)
      BY <1>2 DEF Mark
    <3> QED BY <1>3, <3>1
  <2>2. T = {f[x] : x \in From} /\ u \in From
    BY <1>4
  <2>3. IsFiniteSet(From)
    <3>1. From \in SUBSET G /\ IsFiniteSet(G)
      BY <1>1, <1>2 DEF Wanted, EngineOK, GroupsOK
    <3> HIDE DEF From
    <3> QED BY <3>1, FS_Subset
  <2>4. f \in [From -> Box] /\ f[u] = AffectedMembers(e.groups[g], dirty[u])
    <3>1. MembersOK(e.groups[g].members)
      BY <1>1 DEF EngineOK, GroupsOK
    <3> HIDE DEF From
    <3> QED BY <2>2, <3>1, AffectedTyped
  <2> DEFINE top == dirty[g]
  <2>5. top \in Box
    BY <1>2
  <2> HIDE DEF f, From, T, top
  <2>6. Inside(f[u], JoinAll({top} \union {f[x] : x \in From}))
    BY <2>2, <2>3, <2>4, <2>5, JoinedWithin
  <2> QED BY <2>1, <2>2, <2>4, <2>6 DEF top
<1> QED BY <1>1, <1>2, <1>4 DEF Ready, dirty

\* What a member reads of another group that is dirty dirties the member.
LEMMA DirtyReaches ==
    ASSUME NEW s, NEW e, NEW seeds, NEW dirty, Ready(s, e, seeds, dirty),
           NEW g \in DOMAIN e.groups, NEW u \in DOMAIN e.groups, u # g,
           NEW m \in e.groups[g].members, NEW p \in Positions(e.groups[u]),
           ReadsCell(m.refs, p)
    PROVE  /\ p \in Coord \X Coord
           /\ u \in Wanted(dirty) => u \in Upstream(e, dirty, g)
           /\ Covers(dirty[u], p) => u \in Wanted(dirty) /\ Covers(dirty[g], m.pos)
<1>1. /\ Linked(e) /\ dirty \in [DOMAIN e.groups -> Box]
      /\ \A x \in Wanted(dirty) \ {g} : g \in Stab(e.index, dirty[x]) =>
            Inside(AffectedMembers(e.groups[g], dirty[x]), dirty[g])
  BY DEF Ready
<1>2. p \in Coord \X Coord /\ Covers(e.groups[u].writes, p)
  BY <1>1 DEF Linked
<1>3. \A rect \in Box : Covers(rect, p) =>
            g \in Stab(e.index, rect) /\ Covers(AffectedMembers(e.groups[g], rect), m.pos)
  BY <1>1, <1>2 DEF Linked
<1>4. e.groups[u].writes \in Box
  BY <1>1 DEF Linked, Everywhere
<1>5. u \in Wanted(dirty) => u \in Upstream(e, dirty, g)
  BY <1>2, <1>3, <1>4 DEF Upstream
<1>6. ASSUME Covers(dirty[u], p)
      PROVE  u \in Wanted(dirty) /\ Covers(dirty[g], m.pos)
  <2>1. dirty[u] \in Box /\ dirty[g] \in Box
    BY <1>1
  <2>2. u \in Wanted(dirty)
    <3>1. dirty[u] # NoRect
      BY <1>2, <1>6, NoneCovered
    <3> QED BY <1>1, <3>1 DEF Wanted
  <2> DEFINE part == AffectedMembers(e.groups[g], dirty[u])
  <2>3. g \in Stab(e.index, dirty[u]) /\ Covers(part, m.pos)
    BY <1>3, <1>6, <2>1
  <2>4. Inside(part, dirty[g])
    BY <1>1, <2>2, <2>3
  <2>5. MembersOK(e.groups[g].members)
    BY DEF Ready, Built, EngineOK, GroupsOK
  <2>6. part \in Box
    BY <2>5, AffectedTyped
  <2>7. m.pos \in Coord \X Coord
    BY <2>5 DEF MembersOK
  <2> HIDE DEF part
  <2>8. Covers(dirty[g], m.pos)
    BY <2>1, <2>3, <2>4, <2>6, <2>7, CoversInside
  <2> QED BY <2>2, <2>8
<1> QED BY <1>2, <1>5, <1>6

\* The region of a group holds its seed and every member that reads a change,
\* and is dirty.
LEMMA RegionHolds ==
    ASSUME NEW s, NEW e, NEW seeds, NEW dirty, Ready(s, e, seeds, dirty), NEW cutoff,
           NEW g \in DOMAIN e.groups, NEW changed \in [DOMAIN e.groups -> Box],
           \A u \in Upstream(e, dirty, g) : Inside(changed[u], dirty[u])
    PROVE  LET region == Region(e, seeds, dirty, cutoff, changed, g)
           IN /\ region \in Box /\ Inside(seeds[g], region) /\ Inside(region, dirty[g])
              /\ \A u \in Upstream(e, dirty, g) : \A m \in e.groups[g].members :
                    \A p \in Positions(e.groups[u]) :
                        ReadsCell(m.refs, p) /\ Covers(changed[u], p) => Covers(region, m.pos)
<1> DEFINE G == DOMAIN e.groups
           group == e.groups[g]
           Up == Upstream(e, dirty, g)
           region == Region(e, seeds, dirty, cutoff, changed, g)
<1>1. /\ Linked(e) /\ EngineOK(e) /\ seeds \in [G -> Box] /\ dirty \in [G -> Box]
      /\ Inside(seeds[g], dirty[g])
      /\ \A x \in Wanted(dirty) \ {g} : g \in Stab(e.index, dirty[x]) =>
            Inside(AffectedMembers(group, dirty[x]), dirty[g])
  BY DEF Ready, Built
<1>2. Up \subseteq Wanted(dirty) \ {g} /\ Wanted(dirty) \subseteq G
  BY <1>1 DEF Upstream, Wanted
<1>3. seeds[g] \in Box /\ dirty[g] \in Box /\ \A u \in G : changed[u] \in Box /\ dirty[u] \in Box
  BY <1>1
<1>4. MembersOK(group.members)
  BY <1>1 DEF EngineOK, GroupsOK
<1>5. CASE ~ cutoff
  <2>1. region = dirty[g]
    BY <1>5 DEF Region
  <2>2. Inside(dirty[g], dirty[g])
    BY <1>3, InsideItself
  <2>3. ASSUME NEW u \in Up, NEW m \in group.members, NEW p \in Positions(e.groups[u]),
               ReadsCell(m.refs, p), Covers(changed[u], p)
        PROVE  Covers(dirty[g], m.pos)
    <3>1. u \in G /\ u # g /\ changed[u] \in Box /\ dirty[u] \in Box /\ Inside(changed[u], dirty[u])
      BY <1>2, <1>3
    <3>2. p \in Coord \X Coord
      BY <2>3, <3>1, DirtyReaches
    <3>3. Covers(dirty[u], p)
      BY <2>3, <3>1, <3>2, CoversInside
    <3> QED BY <2>3, <3>1, <3>3, DirtyReaches
  <2> HIDE DEF region
  <2>4. region \in Box /\ Inside(seeds[g], region) /\ Inside(region, dirty[g])
    BY <1>1, <1>3, <2>1, <2>2
  <2>5. \A u \in Up : \A m \in group.members : \A p \in Positions(e.groups[u]) :
            ReadsCell(m.refs, p) /\ Covers(changed[u], p) => Covers(region, m.pos)
    BY <2>1, <2>3
  <2> QED BY <2>4, <2>5 DEF region
<1>6. CASE cutoff
  <2> DEFINE f == [u \in Up |-> AffectedMembers(group, changed[u])]
             T == {AffectedMembers(group, changed[u]) : u \in Up}
             seed == seeds[g]
  <2>1. region = JoinAll({seed} \union T)
    BY <1>6 DEF Region
  <2>2. T = {f[u] : u \in Up}
    OBVIOUS
  <2>3. IsFiniteSet(Up)
    <3>1. IsFiniteSet(G) /\ Up \in SUBSET G
      BY <1>1, <1>2 DEF EngineOK, GroupsOK
    <3> HIDE DEF Up
    <3> QED BY <3>1, FS_Subset
  <2>4. f \in [Up -> Box] /\ \A u \in Up : f[u] = AffectedMembers(group, changed[u])
    <3> HIDE DEF Up
    <3> QED BY <1>4, AffectedTyped
  <2>5. seed \in Box
    BY <1>3
  <2>6. ASSUME NEW u \in Up
        PROVE  Inside(f[u], dirty[g])
    <3>1. u \in G /\ u # g /\ u \in Wanted(dirty) /\ changed[u] \in Box /\ dirty[u] \in Box
          /\ Inside(changed[u], dirty[u])
      BY <1>2, <1>3
    <3>2. \/ AffectedMembers(group, changed[u]) = NoRect
          \/ /\ g \in Stab(e.index, dirty[u])
             /\ Inside(AffectedMembers(group, changed[u]), AffectedMembers(group, dirty[u]))
      BY <1>1, <3>1 DEF Linked
    <3>3. CASE AffectedMembers(group, changed[u]) = NoRect
      BY <1>3, <2>4, <3>3, NoneInside
    <3>4. CASE /\ g \in Stab(e.index, dirty[u])
               /\ Inside(AffectedMembers(group, changed[u]), AffectedMembers(group, dirty[u]))
      <4>1. Inside(AffectedMembers(group, dirty[u]), dirty[g])
        BY <1>1, <3>1, <3>4
      <4>2. AffectedMembers(group, changed[u]) \in Box /\ AffectedMembers(group, dirty[u]) \in Box
        BY <1>4, AffectedTyped
      <4>3. Inside(AffectedMembers(group, changed[u]), dirty[g])
        BY <1>3, <3>4, <4>1, <4>2, InsideTwice
      <4> QED BY <2>4, <4>3
    <3> QED BY <3>2, <3>3, <3>4
  <2> DEFINE all == JoinAll({seed} \union {f[u] : u \in Up})
  <2>7. all = region
    BY <2>1, <2>2
  <2> HIDE DEF f, Up, T, seed, region
  <2>8. all \in Box /\ Inside(seed, all)
    BY <2>3, <2>4, <2>5, JoinedTyped
  <2>9. (\A u \in Up : Inside(f[u], all))
        /\ \A c \in Box : Inside(seed, c) /\ (\A u \in Up : Inside(f[u], c)) => Inside(all, c)
    BY <2>3, <2>4, <2>5, JoinedWithin
  <2> HIDE DEF all
  <2>10. Inside(all, dirty[g])
    BY <1>1, <1>3, <2>6, <2>9 DEF seed
  <2>11. ASSUME NEW u \in Up, NEW m \in group.members, NEW p \in Positions(e.groups[u]),
                ReadsCell(m.refs, p), Covers(changed[u], p)
         PROVE  Covers(all, m.pos)
    <3>1. u \in G /\ u # g /\ changed[u] \in Box
      BY <1>2, <1>3 DEF Up
    <3>2. p \in Coord \X Coord
      BY <2>11, <3>1, DirtyReaches
    <3>3. Covers(AffectedMembers(group, changed[u]), m.pos)
      BY <1>1, <2>11, <3>1, <3>2 DEF Linked
    <3>4. m.pos \in Coord \X Coord /\ f[u] \in Box /\ Covers(f[u], m.pos) /\ Inside(f[u], all)
      BY <1>4, <2>4, <2>9, <3>3 DEF MembersOK
    <3> QED BY <2>8, <3>4, CoversInside
  <2>12. Inside(seeds[g], all)
    BY <2>8 DEF seed
  <2> QED BY <2>7, <2>8, <2>10, <2>11, <2>12 DEF region, Up
<1> QED BY <1>5, <1>6

-----------------------------------------------------------------------------
(* A pass makes results say what their formulas mean.                      *)

\* A member's result is its formula's value over the results.
Consistent(s, results, m) == results[m.pos] = ValueOf(s, results, m.kind, m.refs)

\* The members in the region get the value they have over what was there.
LEMMA FreshValues ==
    ASSUME NEW s, NEW g, \A m, n \in g.members : m.pos = n.pos => m = n,
           NEW results, NEW region
    PROVE  LET fresh == EvaluateGroup(s, g, region, results)
           IN /\ \A p \in DOMAIN fresh : p \in Positions(g) /\ Covers(region, p)
              /\ \A m \in g.members : Covers(region, m.pos) =>
                    m.pos \in DOMAIN fresh /\ fresh[m.pos] = ValueOf(s, results, m.kind, m.refs)
<1> DEFINE chosen == {m \in g.members : Covers(region, m.pos)}
           P == {m.pos : m \in chosen}
           Val(m) == ValueOf(s, results, m.kind, m.refs)
           At0(p) == CHOOSE x \in chosen : x.pos = p
           fresh == [p \in P |-> Val(At0(p))]
<1>1. EvaluateGroup(s, g, region, results) = fresh
  BY Zenon DEF EvaluateGroup, ValueOf
<1>2. ASSUME NEW m \in chosen
      PROVE  At0(m.pos) = m
  <2>1. \E x \in chosen : x.pos = m.pos
    OBVIOUS
  <2>2. \A x \in chosen : x.pos = m.pos => x = m
    OBVIOUS
  <2> HIDE DEF chosen
  <2> QED BY <2>1, <2>2
<1>3. DOMAIN fresh = P /\ \A p \in P : p \in Positions(g) /\ Covers(region, p)
  BY DEF Positions
<1>4. \A m \in chosen : m.pos \in P
  OBVIOUS
<1>5. \A m \in g.members : Covers(region, m.pos) => m \in chosen
  OBVIOUS
<1> HIDE DEF chosen, P, At0, Val
<1>6. \A m \in chosen : fresh[m.pos] = Val(m)
  BY <1>2, <1>4
<1> HIDE DEF fresh
<1> QED BY <1>1, <1>3, <1>4, <1>5, <1>6 DEF Val

\* The pass has evaluated the groups in Done: what changed since base lies
\* where it says, and each member it had to bring up to date is.
Brought(s, e, seeds, dirty, base, done, d) ==
    LET G == DOMAIN e.groups
    IN /\ d \in State(e)
       /\ done \subseteq Placeable(e, dirty)
       /\ \A u \in done : Upstream(e, dirty, u) \subseteq done
       /\ \A u \in G \ done : \A p \in Positions(e.groups[u]) : d.results[p] = base[p]
       /\ \A u \in done : /\ Inside(d.changed[u], dirty[u])
                          /\ \A p \in Positions(e.groups[u]) :
                                d.results[p] # base[p] => Covers(d.changed[u], p)
       /\ \A u \in done : \A m \in e.groups[u].members :
            Covers(seeds[u], m.pos) \/ Consistent(s, base, m) => Consistent(s, d.results, m)

\* A member that reads nothing two results differ in is consistent in both or
\* in neither.
LEMMA ConsistentSame ==
    ASSUME NEW s, NEW e, NEW seeds, NEW dirty, Ready(s, e, seeds, dirty),
           NEW old, NEW new, DOMAIN old = DOMAIN e.results, DOMAIN new = DOMAIN e.results,
           NEW g \in DOMAIN e.groups, NEW m \in e.groups[g].members,
           \A u \in DOMAIN e.groups : \A p \in Positions(e.groups[u]) :
                ReadsCell(m.refs, p) => new[p] = old[p]
    PROVE  ValueOf(s, new, m.kind, m.refs) = ValueOf(s, old, m.kind, m.refs)
<1>1. Built(s, e)
  BY DEF Ready
<1>2. m.refs \in Seq(Box)
  BY <1>1 DEF Built, EngineOK, GroupsOK, MembersOK
<1>3. ASSUME NEW p \in DOMAIN old
      PROVE  \E u \in DOMAIN e.groups : p \in Positions(e.groups[u])
  <2>1. PICK n \in Members(s) : n.pos = p
    BY <1>1 DEF Built
  <2>2. PICK u \in DOMAIN e.groups : n \in e.groups[u].members
    BY <1>1 DEF Built
  <2> QED BY <2>1, <2>2 DEF Positions
<1>4. \A p \in DOMAIN old : p \in Coord \X Coord /\ ReadsCell(m.refs, p) => new[p] = old[p]
  BY <1>3
<1> QED BY <1>2, <1>4, ValueOfSame

\* Stepping a group whose upstream groups are done brings it to date, and undoes none of them.
LEMMA SteppedBrings ==
    ASSUME NEW s, NEW e, NEW seeds, NEW dirty, Ready(s, e, seeds, dirty), NEW cutoff, NEW base,
           DOMAIN base = DOMAIN e.results,
           NEW done, NEW before, Brought(s, e, seeds, dirty, base, done, before),
           NEW g \in Placeable(e, dirty), g \notin done, Upstream(e, dirty, g) \subseteq done
    PROVE  Brought(s, e, seeds, dirty, base, done \union {g},
                   Stepped(s, e, seeds, dirty, cutoff, g, before))
<1> DEFINE G == DOMAIN e.groups
           S == DOMAIN e.results
           group == e.groups[g]
           region == Region(e, seeds, dirty, cutoff, before.changed, g)
           fresh == EvaluateGroup(s, group, region, before.results)
           new == {p \in DOMAIN fresh : fresh[p] # before.results[p]}
           results == Over(fresh, before.results)
           after == Stepped(s, e, seeds, dirty, cutoff, g, before)
           now == done \union {g}
<1>1. after = [results |-> results, changed |-> [before.changed EXCEPT ![g] = Bounding(new)]]
  BY DEF Stepped
<1>2. /\ SheetOK(s) /\ SheetTyped(s) /\ Built(s, e) /\ Linked(e) /\ EngineOK(e)
      /\ seeds \in [G -> Box] /\ dirty \in [G -> Box]
  BY DEF Ready, Built
<1>3. g \in G /\ g \in Wanted(dirty) /\ ~ ReadsItself(group)
  BY <1>2 DEF Placeable, Wanted
<1>4. /\ before \in State(e)
      /\ before.results \in [S -> Value \union {Unset}] /\ before.changed \in [G -> Box]
  BY DEF Brought, State
<1>5. /\ done \subseteq Placeable(e, dirty) /\ Placeable(e, dirty) \subseteq Wanted(dirty)
      /\ done \subseteq G
  BY <1>2 DEF Brought, Placeable, Wanted
<1>6. MembersOK(group.members) /\ Positions(group) \subseteq S
      /\ \A m, n \in group.members : m.pos = n.pos => m = n
  BY <1>2, <1>3 DEF EngineOK, GroupsOK, Linked
<1>7. /\ region \in Box /\ Inside(seeds[g], region) /\ Inside(region, dirty[g])
      /\ \A u \in Upstream(e, dirty, g) : \A m \in group.members :
            \A p \in Positions(e.groups[u]) :
                ReadsCell(m.refs, p) /\ Covers(before.changed[u], p) => Covers(region, m.pos)
  <2>1. \A u \in Upstream(e, dirty, g) : Inside(before.changed[u], dirty[u])
    BY DEF Brought
  <2> HIDE DEF region
  <2> QED BY <1>3, <1>4, <2>1, RegionHolds DEF region
<1> HIDE DEF region
<1>8. /\ \A p \in DOMAIN fresh : p \in Positions(group) /\ Covers(region, p)
      /\ \A m \in group.members : Covers(region, m.pos) =>
            m.pos \in DOMAIN fresh
            /\ fresh[m.pos] = ValueOf(s, before.results, m.kind, m.refs)
  <2> DEFINE R == before.results
             new0 == EvaluateGroup(s, group, region, R)
  <2>1. \A m, n \in group.members : m.pos = n.pos => m = n
    BY <1>6
  <2>2. fresh = new0
    OBVIOUS
  <2> HIDE DEF group, R, fresh
  <2>3. /\ \A p \in DOMAIN new0 : p \in Positions(group) /\ Covers(region, p)
        /\ \A m \in group.members : Covers(region, m.pos) =>
            m.pos \in DOMAIN new0
            /\ new0[m.pos] = ValueOf(s, R, m.kind, m.refs)
    BY Zenon, <2>1, FreshValues
  <2> QED BY <2>2, <2>3 DEF R
<1> HIDE DEF fresh
<1>9. after \in State(e)
  <2>1. Grounded(s)
    BY <1>2, TypedFits
  <2> HIDE DEF after
  <2> QED BY <1>2, <1>3, <1>4, <2>1, SteppedTyped DEF after
<1>10. /\ after.results = results /\ after.changed[g] = Bounding(new)
       /\ \A u \in G \ {g} : after.changed[u] = before.changed[u]
       /\ DOMAIN results = S
       /\ \A p \in S : results[p] = IF p \in DOMAIN fresh THEN fresh[p] ELSE before.results[p]
  <2>1. DOMAIN fresh \subseteq S
    BY <1>6, <1>8
  <2>2. DOMAIN results = S
        /\ \A p \in S : results[p] = IF p \in DOMAIN fresh THEN fresh[p] ELSE before.results[p]
    BY <1>4, <2>1 DEF Over
  <2> HIDE DEF new, results, after
  <2> QED BY <1>1, <1>3, <1>4, <2>2
<1> HIDE DEF after, results
<1>11. \A u \in G : Positions(e.groups[u]) \subseteq S
  BY <1>2 DEF EngineOK, GroupsOK
<1>12. ASSUME NEW u \in G, u # g, NEW p \in Positions(e.groups[u])
       PROVE  results[p] = before.results[p]
  <2>1. p \notin Positions(group)
    BY <1>2, <1>3, <1>12 DEF Linked
  <2> QED BY <1>8, <1>10, <1>11, <2>1
<1>13. \A u \in G \ now : \A p \in Positions(e.groups[u]) : after.results[p] = base[p]
  BY <1>10, <1>12 DEF Brought
<1>14. \A p \in Positions(group) : before.results[p] = base[p]
  BY <1>3 DEF Brought
<1>15. \A p \in Positions(group) : results[p] # base[p] => p \in new
  BY <1>6, <1>8, <1>10, <1>14
<1>16. IsFiniteSet(new) /\ new \subseteq Coord \X Coord /\ \A p \in new : Covers(region, p)
  <2> DEFINE P == Positions(group)
  <2>1. IsFiniteSet(P) /\ P \subseteq Coord \X Coord
    <3>1. group.members \in SUBSET group.members
      OBVIOUS
    <3> HIDE DEF group
    <3> QED BY <1>6, <3>1, PositionsFinite DEF Positions
  <2>2. new \in SUBSET P /\ \A p \in new : Covers(region, p)
    BY <1>8
  <2> HIDE DEF P, new
  <2> QED BY <2>1, <2>2, FS_Subset
<1> HIDE DEF new
<1>17. ASSUME NEW u \in now
       PROVE  /\ Inside(after.changed[u], dirty[u])
              /\ \A p \in Positions(e.groups[u]) :
                    after.results[p] # base[p] => Covers(after.changed[u], p)
  <2>1. CASE u = g
    <3>1. Bounding(new) \in Box /\ \A p \in new : Covers(Bounding(new), p)
      BY <1>16, BoundingCovers
    <3>2. Inside(Bounding(new), region)
      BY <1>7, <1>16, BoundingWithin
    <3>3. dirty[g] \in Box
      BY <1>2, <1>3
    <3>4. Inside(Bounding(new), dirty[g])
      BY <1>7, <3>1, <3>2, <3>3, InsideTwice
    <3> QED BY <1>10, <1>15, <2>1, <3>1, <3>4
  <2>2. CASE u # g
    <3>1. u \in done /\ u \in G
      BY <1>5, <2>2
    <3>2. /\ Inside(before.changed[u], dirty[u])
          /\ \A p \in Positions(e.groups[u]) :
                before.results[p] # base[p] => Covers(before.changed[u], p)
      BY <3>1 DEF Brought
    <3> QED BY <1>10, <1>12, <2>2, <3>1, <3>2
  <2> QED BY <2>1, <2>2
<1>18. ASSUME NEW u \in done, NEW m \in e.groups[u].members,
              Covers(seeds[u], m.pos) \/ Consistent(s, base, m)
       PROVE  Consistent(s, after.results, m)
  <2>1. u \in G /\ u # g
    BY <1>5
  <2>2. Consistent(s, before.results, m)
    BY <1>18 DEF Brought
  <2>3. ASSUME NEW v \in G, NEW p \in Positions(e.groups[v]), ReadsCell(m.refs, p)
        PROVE  results[p] = before.results[p]
    <3>1. CASE v # g
      BY <1>12, <3>1
    <3>2. CASE v = g
      <4>1. g \in Upstream(e, dirty, u)
        BY <1>3, <2>1, <2>3, <3>2, DirtyReaches
      <4>2. Upstream(e, dirty, u) \subseteq done
        BY DEF Brought
      <4> QED BY <4>1, <4>2
    <3> QED BY <3>1, <3>2
  <2>4. DOMAIN results = S /\ DOMAIN before.results = S
    BY <1>4, <1>10
  <2>5. ValueOf(s, results, m.kind, m.refs) = ValueOf(s, before.results, m.kind, m.refs)
    BY <2>1, <2>3, <2>4, ConsistentSame
  <2>6. m.pos \in Positions(e.groups[u])
    BY DEF Positions
  <2>7. results[m.pos] = before.results[m.pos]
    BY <1>12, <2>1, <2>6
  <2> QED BY <1>10, <2>2, <2>5, <2>7 DEF Consistent
<1>19. ASSUME NEW m \in group.members,
              Covers(seeds[g], m.pos) \/ Consistent(s, base, m)
       PROVE  Consistent(s, after.results, m)
  <2>1. m.pos \in Positions(group) /\ m.pos \in S /\ m.pos \in Coord \X Coord
    BY <1>6 DEF Positions, MembersOK
  <2>2. \A p \in Positions(group) : ~ ReadsCell(m.refs, p)
    <3>1. \A p \in Positions(group) : p \in Coord \X Coord
      BY <1>2, <1>3 DEF Linked
    <3> QED BY <1>2, <1>3, <3>1 DEF Linked
  <2>3. CASE Covers(region, m.pos)
    <3>1. results[m.pos] = ValueOf(s, before.results, m.kind, m.refs)
      BY <1>8, <1>10, <2>1, <2>3
    <3>2. \A v \in G : \A p \in Positions(e.groups[v]) :
                ReadsCell(m.refs, p) => results[p] = before.results[p]
      BY <1>12, <2>2
    <3>3. DOMAIN results = S /\ DOMAIN before.results = S
      BY <1>4, <1>10
    <3>4. ValueOf(s, results, m.kind, m.refs) = ValueOf(s, before.results, m.kind, m.refs)
      BY <1>3, <3>2, <3>3, ConsistentSame
    <3> QED BY <1>10, <3>1, <3>4 DEF Consistent
  <2>4. CASE ~ Covers(region, m.pos)
    <3>1. results[m.pos] = base[m.pos]
      BY <1>8, <1>10, <1>14, <2>1, <2>4
    <3>2. Consistent(s, base, m)
      <4>1. seeds[g] \in Box
        BY <1>2, <1>3
      <4> QED BY <1>7, <1>19, <2>1, <2>4, <4>1, CoversInside
    <3>3. ASSUME NEW v \in G, NEW p \in Positions(e.groups[v]), ReadsCell(m.refs, p)
          PROVE  results[p] = base[p]
      <4>1. v # g
        BY <2>2, <3>3
      <4>2. results[p] = before.results[p]
        BY <1>12, <4>1
      <4>3. CASE v \notin done
        BY <3>3, <4>2, <4>3 DEF Brought
      <4>4. CASE v \in done
        <5>1. before.results[p] # base[p] => Covers(before.changed[v], p)
          BY <4>4 DEF Brought
        <5>2. v \in Wanted(dirty)
          BY <1>5, <4>4
        <5>3. v \in Upstream(e, dirty, g)
          BY <1>3, <3>3, <4>1, <5>2, DirtyReaches
        <5> QED BY <1>7, <2>4, <3>3, <4>2, <5>1, <5>3
      <4> QED BY <4>3, <4>4
    <3>4. ValueOf(s, results, m.kind, m.refs) = ValueOf(s, base, m.kind, m.refs)
      BY <1>3, <1>10, <3>3, ConsistentSame
    <3> QED BY <1>10, <3>1, <3>2, <3>4 DEF Consistent
  <2> QED BY <2>3, <2>4
<1>20. now \subseteq Placeable(e, dirty) /\ \A u \in now : Upstream(e, dirty, u) \subseteq now
  BY <1>5 DEF Brought
<1>21. \A u \in now : \A m \in e.groups[u].members :
            Covers(seeds[u], m.pos) \/ Consistent(s, base, m) => Consistent(s, after.results, m)
  BY <1>18, <1>19
<1> HIDE DEF now
<1> QED BY <1>9, <1>13, <1>17, <1>20, <1>21 DEF Brought, now, after

\* Evaluating a level brings its groups up to date.
LEMMA LevelBrings ==
    ASSUME NEW s, NEW e, NEW seeds, NEW dirty, Ready(s, e, seeds, dirty), NEW cutoff, NEW base,
           DOMAIN base = DOMAIN e.results,
           NEW done, NEW pass, Brought(s, e, seeds, dirty, base, done, pass),
           NEW level, level \subseteq Placeable(e, dirty) \ done,
           \A g \in level : Upstream(e, dirty, g) \subseteq done
    PROVE  Brought(s, e, seeds, dirty, base, done \union level,
                   EvaluateLevel(s, e, seeds, dirty, cutoff, level, pass))
<1> DEFINE D == State(e)
           Step(g, d) == Stepped(s, e, seeds, dirty, cutoff, g, d)
           it == CHOOSE f : f = [x \in SUBSET level |->
                    IF x = {} THEN pass
                    ELSE Step(CHOOSE y \in x : TRUE, f[x \ {CHOOSE y \in x : TRUE}])]
           ch == [x \in SUBSET level |-> CHOOSE y \in x : TRUE]
           step == [g \in level |-> [d \in D |-> Step(g, d)]]
<1>1. EvaluateLevel(s, e, seeds, dirty, cutoff, level, pass) = it[level]
  BY Zenon DEF EvaluateLevel, Stepped, FoldSet, MapThenFoldSet
<1>2. Chooses(ch, level) /\ IsFiniteSet(level) /\ level \subseteq DOMAIN e.groups /\ EngineOK(e)
  <2>1. Chooses(ch, level)
    BY DEF Chooses
  <2>2. EngineOK(e) /\ dirty \in [DOMAIN e.groups -> Box]
    BY DEF Ready, Built
  <2>3. level \in SUBSET DOMAIN e.groups /\ IsFiniteSet(DOMAIN e.groups)
    BY <2>2 DEF EngineOK, GroupsOK, Placeable, Wanted
  <2>4. IsFiniteSet(level)
    BY <2>3, FS_Subset
  <2> QED BY <2>1, <2>2, <2>3, <2>4
<1>3. \A g \in level : \A d \in D : Step(g, d) \in D
  <2>1. Grounded(s)
    BY TypedFits DEF Ready
  <2> QED BY <1>2, <2>1, SteppedTyped
<1>16. ASSUME NEW g \in level, NEW x, g \notin x, x \subseteq level, NEW d,
             Brought(s, e, seeds, dirty, base, done \union x, d)
      PROVE  Brought(s, e, seeds, dirty, base, (done \union x) \union {g}, Step(g, d))
  <2> DEFINE was == done \union x
  <2>1. g \in Placeable(e, dirty) /\ g \notin was /\ Upstream(e, dirty, g) \subseteq was
    BY <1>16
  <2>2. Brought(s, e, seeds, dirty, base, was, d)
    BY <1>16
  <2> HIDE DEF was
  <2> QED BY <2>1, <2>2, SteppedBrings DEF was
<1>15. pass \in D
  BY DEF Brought
<1> HIDE DEF Step, D
<1>4. \A g \in level : \A d \in D : step[g][d] = Step(g, d) /\ step[g][d] \in D
  BY <1>3
<1>5. \A x \in SUBSET level : ch[x] = CHOOSE y \in x : TRUE
  OBVIOUS
<1> HIDE DEF step, ch
<1>6. PICK h : Folds(h, level, D, pass, ch, step)
  <2>1. \A g \in level : \A d \in D : step[g][d] \in D
    BY <1>4
  <2> HIDE DEF it
  <2> QED BY <1>15, <1>2, <2>1, FoldIsMade
<1>7. h \in [SUBSET level -> D]
  BY <1>6 DEF Folds
<1>8. ASSUME NEW x \in SUBSET level
      PROVE  h[x] = IF x = {} THEN pass
                    ELSE Step(CHOOSE y \in x : TRUE, h[x \ {CHOOSE y \in x : TRUE}])
  <2>1. CASE x = {}
    BY <1>6, <2>1 DEF Folds
  <2>2. CASE x # {}
    <3>1. h[x] = step[ch[x]][h[x \ {ch[x]}]]
      BY <1>6, <2>2 DEF Folds
    <3>2. ch[x] \in level /\ x \ {ch[x]} \in SUBSET level
      BY <1>2, <2>2 DEF Chooses
    <3>3. h[x] = Step(ch[x], h[x \ {ch[x]}])
      BY <1>4, <1>7, <3>1, <3>2
    <3> QED BY <1>5, <2>2, <3>3
  <2> QED BY <2>1, <2>2
<1>9. h = [x \in SUBSET level |-> IF x = {} THEN pass
                    ELSE Step(CHOOSE y \in x : TRUE, h[x \ {CHOOSE y \in x : TRUE}])]
  BY <1>7, <1>8
<1>10. it = [x \in SUBSET level |-> IF x = {} THEN pass
                    ELSE Step(CHOOSE y \in x : TRUE, it[x \ {CHOOSE y \in x : TRUE}])]
  <2> DEFINE Rec(f) == f = [x \in SUBSET level |-> IF x = {} THEN pass
                    ELSE Step(CHOOSE y \in x : TRUE, f[x \ {CHOOSE y \in x : TRUE}])]
  <2>1. Rec(h) /\ it = CHOOSE f : Rec(f)
    BY Zenon, <1>9
  <2> HIDE DEF it
  <2>2. Rec(it)
    <3> HIDE DEF Rec
    <3> QED BY Zenon, <2>1
  <2> QED BY <2>2
<1> HIDE DEF it
<1>11. ASSUME NEW x \in SUBSET level
       PROVE  it[x] = IF x = {} THEN pass ELSE Step(ch[x], it[x \ {ch[x]}])
  BY <1>5, <1>10
<1> DEFINE Good(x) == Brought(s, e, seeds, dirty, base, done \union x, it[x])
           T == {x \in SUBSET level : Good(x)}
<1>12. {} \in T
  <2>1. it[{}] = pass /\ done \union {} = done
    BY <1>11
  <2>2. Good({})
    BY <2>1
  <2> HIDE DEF Good
  <2> QED BY <2>2
<1>13. ASSUME NEW x \in SUBSET level, x # {}, x \ {ch[x]} \in T
       PROVE  x \in T
  <2> DEFINE g == ch[x]
             r == x \ {g}
             d == it[r]
  <2>1. g \in level /\ x = r \union {g} /\ r \subseteq level /\ g \notin r
    BY <1>2, <1>13 DEF Chooses
  <2>2. Brought(s, e, seeds, dirty, base, done \union r, d)
    BY <1>13
  <2>3. it[x] = Step(g, d)
    BY <1>11, <1>13
  <2> HIDE DEF g, r, d
  <2>4. Brought(s, e, seeds, dirty, base, (done \union r) \union {g}, it[x])
    BY <1>16, <2>1, <2>2, <2>3
  <2>5. (done \union r) \union {g} = done \union x
    BY <2>1
  <2>6. Good(x)
    BY <2>4, <2>5
  <2> HIDE DEF Good
  <2> QED BY <2>6
<1>14. level \in T
  <2> HIDE DEF T
  <2> QED BY <1>2, <1>12, <1>13, ByChoice
<1> QED BY <1>1, <1>14

\* What a pass starts from.
Started(e, dirty) == Over([p \in Circular(e, dirty) |-> CircError], e.results)

\* A pass starts with #CIRC! at what no level holds, and with nothing changed.
LEMMA StartedIs ==
    ASSUME NEW s, NEW e, NEW seeds, NEW dirty, Ready(s, e, seeds, dirty)
    PROVE  LET base == Started(e, dirty)
               start == [results |-> base, changed |-> [g \in DOMAIN seeds |-> NoRect]]
           IN /\ DOMAIN base = DOMAIN e.results
              /\ \A p \in DOMAIN e.results :
                    base[p] = IF p \in Circular(e, dirty) THEN CircError ELSE e.results[p]
              /\ start \in State(e)
              /\ Brought(s, e, seeds, dirty, base, {}, start)
<1> DEFINE S == DOMAIN e.results
           G == DOMAIN e.groups
           V == Value \union {Unset}
           circular == Circular(e, dirty)
           circ == [p \in circular |-> CircError]
           old == e.results
           base == Started(e, dirty)
           start == [results |-> base, changed |-> [g \in DOMAIN seeds |-> NoRect]]
<1>1. EngineOK(e) /\ seeds \in [G -> Box] /\ dirty \in [G -> Box] /\ old \in [S -> V]
  BY DEF Ready, Built, Results
<1>2. circular \subseteq S
  <2>1. \A g \in G : Positions(e.groups[g]) \subseteq S
    BY <1>1 DEF EngineOK, GroupsOK
  <2>2. Wanted(dirty) \subseteq G
    BY <1>1 DEF Wanted
  <2> QED BY <2>1, <2>2 DEF Circular
<1>3. DOMAIN circ = circular /\ \A p \in circular : circ[p] = CircError
  OBVIOUS
<1>4. CircError \in V
  BY DEF Value
<1>5. base = Over(circ, old)
  BY DEF Started
<1> HIDE DEF circ, old, V, circular, S
<1>6. /\ base \in [S -> V]
      /\ \A p \in S : base[p] = IF p \in circular THEN CircError ELSE old[p]
  <2>1. \A p \in DOMAIN circ : circ[p] \in V
    BY <1>3, <1>4
  <2>2. DOMAIN circ \subseteq S
    BY <1>2, <1>3
  <2>3. /\ Over(circ, old) \in [S -> V]
        /\ \A p \in S : Over(circ, old)[p] = IF p \in DOMAIN circ THEN circ[p] ELSE old[p]
    BY <1>1, <2>1, <2>2, OverTyped
  <2> QED BY <1>3, <1>5, <2>3
<1> HIDE DEF base
<1>7. start \in State(e) /\ start.results = base
  <2>1. [g \in DOMAIN seeds |-> NoRect] \in [G -> Box]
    BY <1>1 DEF Box
  <2> QED BY <1>6, <2>1 DEF State, V, S
<1> HIDE DEF start
<1>8. Brought(s, e, seeds, dirty, base, {}, start)
  BY <1>7 DEF Brought
<1> QED BY <1>6, <1>7, <1>8 DEF S, old, circular, base, start

\* A pass brings every group up to date that it places.
LEMMA PassBrings ==
    ASSUME NEW s, NEW e, NEW seeds, Ready(s, e, seeds, Marked(e, seeds)), NEW cutoff
    PROVE  LET dirty == Marked(e, seeds)
           IN \E d : /\ Brought(s, e, seeds, dirty, Started(e, dirty),
                                Placed(Levels(e, dirty)), d)
                     /\ Pass(s, e, seeds, cutoff)
                            = [groups |-> e.groups, index |-> e.index, results |-> d.results]
<1> DEFINE D == State(e)
           dirty == Marked(e, seeds)
           levels == Levels(e, dirty)
           first == Started(e, dirty)
           base == [results |-> Over([p \in Circular(e, dirty) |-> CircError], e.results),
                    changed |-> [g \in DOMAIN seeds |-> NoRect]]
           n == Len(levels)
           Step(d, level) == EvaluateLevel(s, e, seeds, dirty, cutoff, level, d)
           it == CHOOSE f : f = [x \in SUBSET (1 .. n) |->
                    IF x = {} THEN base ELSE Step(f[x \ {Max(x)}], levels[Max(x)])]
           g0 == [i \in 1 .. n |-> [d \in D |-> Step(d, levels[i])]]
           after == Pass(s, e, seeds, cutoff)
<1>1. EngineOK(e) /\ dirty \in [DOMAIN e.groups -> Box] /\ Grounded(s)
  BY TypedFits DEF Ready, Built
<1>2. PICK Q : Ordered(e, dirty, Q)
  <2> HIDE DEF dirty
  <2> QED BY <1>1, LevelsOrdered
<1>3. /\ n \in Nat /\ DOMAIN levels = 1 .. n /\ Q[0] = {} /\ Placed(levels) = Q[n]
      /\ \A k \in 1 .. n : levels[k] = NextLevel(e, dirty, Q[k - 1])
                           /\ Q[k] = Q[k - 1] \union levels[k]
  <2> HIDE DEF dirty
  <2> QED BY <1>2 DEF Ordered
<1>4. after = [e EXCEPT !.results = it[1 .. n].results]
  <2>1. FoldLeft(Step, base, levels) = it[1 .. n]
    <3> HIDE DEF n, base, levels, dirty
    <3> QED BY Zenon, <1>3 DEF FoldLeft, MapThenFoldSet
  <2>2. after = [e EXCEPT !.results = FoldLeft(Step, base, levels).results]
    BY Zenon DEF Pass
  <2> QED BY Zenon, <2>1, <2>2
<1>5. /\ DOMAIN first = DOMAIN e.results /\ base \in D
      /\ Brought(s, e, seeds, dirty, first, {}, base)
  <2>1. Ready(s, e, seeds, dirty)
    OBVIOUS
  <2>2. base = [results |-> first, changed |-> [g \in DOMAIN seeds |-> NoRect]]
    BY DEF Started
  <2> HIDE DEF dirty, first, base
  <2> QED BY <2>1, <2>2, StartedIs DEF first
<1> HIDE DEF base, first
<1>6. ASSUME NEW d \in D, NEW i \in 1 .. n
      PROVE  Step(d, levels[i]) \in D
  <2> DEFINE level == levels[i]
  <2>1. level \in SUBSET DOMAIN e.groups
    <3>1. level = NextLevel(e, dirty, Q[i - 1])
      BY <1>3
    <3> HIDE DEF dirty
    <3> QED BY <1>1, <3>1 DEF NextLevel, Placeable, Wanted
  <2> HIDE DEF level, dirty
  <2> QED BY <1>1, <2>1, LevelEvaluated DEF level
<1>7. ASSUME NEW d, NEW i \in 1 .. n, Brought(s, e, seeds, dirty, first, Q[i - 1], d)
      PROVE  Brought(s, e, seeds, dirty, first, Q[i], Step(d, levels[i]))
  <2> DEFINE level == levels[i]
             was == Q[i - 1]
  <2>1. level = NextLevel(e, dirty, was) /\ Q[i] = was \union level
    BY <1>3
  <2>2. Ready(s, e, seeds, dirty)
    OBVIOUS
  <2> HIDE DEF level, dirty, was
  <2>3. level \subseteq Placeable(e, dirty) \ was
        /\ \A g \in level : Upstream(e, dirty, g) \subseteq was
    BY <2>1 DEF NextLevel
  <2>4. Brought(s, e, seeds, dirty, first, was, d)
    BY <1>7 DEF was
  <2>5. Brought(s, e, seeds, dirty, first, was \union level,
                EvaluateLevel(s, e, seeds, dirty, cutoff, level, d))
    BY <1>5, <2>2, <2>3, <2>4, LevelBrings
  <2> QED BY <2>1, <2>5 DEF level
<1> HIDE DEF n, levels, D, Step
<1>8. \A i \in 1 .. n : \A d \in D : g0[i][d] = Step(d, levels[i]) /\ g0[i][d] \in D
  BY <1>6
<1> HIDE DEF g0
<1>9. PICK h : Solves(h, D, base, n, g0)
  <2>1. \A i \in 1 .. n : \A d \in D : g0[i][d] \in D
    BY <1>8
  <2>2. n \in Nat /\ base \in D
    BY <1>3, <1>5
  <2> HIDE DEF it
  <2> QED BY <2>1, <2>2, FoldSolved
<1>10. \A x \in SUBSET (1 .. n) :
         h[x] = IF x = {} THEN base ELSE Step(h[x \ {Max(x)}], levels[Max(x)])
  BY <1>8, <1>9 DEF Solves
<1>11. h = [x \in SUBSET (1 .. n) |->
               IF x = {} THEN base ELSE Step(h[x \ {Max(x)}], levels[Max(x)])]
  BY <1>9, <1>10 DEF Solves
<1>12. it = [x \in SUBSET (1 .. n) |->
               IF x = {} THEN base ELSE Step(it[x \ {Max(x)}], levels[Max(x)])]
  BY <1>11
<1> HIDE DEF it
<1> DEFINE T == {i \in 0 .. n : Brought(s, e, seeds, dirty, first, Q[i], it[1 .. i])}
<1>13. 0 \in T
  <2>1. 1 .. 0 = {} /\ 0 \in 0 .. n
    BY <1>3
  <2>2. it[1 .. 0] = base
    BY <1>12, <2>1
  <2> HIDE DEF dirty
  <2> QED BY <1>3, <1>5, <2>1, <2>2
<1>14. ASSUME NEW k \in 0 .. n - 1, k \in T
       PROVE  k + 1 \in T
  <2>1. k + 1 \in 1 .. n /\ k + 1 - 1 = k /\ k + 1 \in 0 .. n
    BY <1>3
  <2> DEFINE i == k + 1
  <2>2. 1 .. i \in SUBSET (1 .. n) /\ 1 .. i # {} /\ Max(1 .. i) = i /\ (1 .. i) \ {i} = 1 .. i - 1
    BY <1>3, <2>1, LargestChosen
  <2>3. it[1 .. i] = Step(it[1 .. i - 1], levels[i])
    BY <1>12, <2>2
  <2>4. Brought(s, e, seeds, dirty, first, Q[i - 1], it[1 .. i - 1])
    <3>1. i - 1 = k
      BY <2>1
    <3> HIDE DEF i, dirty
    <3> QED BY <1>14, <3>1
  <2> HIDE DEF i, dirty
  <2>5. Brought(s, e, seeds, dirty, first, Q[i], it[1 .. i])
    BY <1>7, <2>1, <2>3, <2>4 DEF i
  <2> QED BY <2>1, <2>5 DEF i
<1> DEFINE last == it[1 .. n]
<1>15. Brought(s, e, seeds, dirty, first, Q[n], last)
  <2> HIDE DEF T
  <2>1. 0 .. n \subseteq T
    BY <1>3, <1>13, <1>14, CountsUp
  <2>2. n \in T
    BY <1>3, <2>1
  <2> QED BY <2>2 DEF T
<1> HIDE DEF last
<1>16. after = [groups |-> e.groups, index |-> e.index, results |-> last.results]
  BY <1>1, <1>4 DEF EngineOK, last
<1> HIDE DEF after, dirty
<1>17. Brought(s, e, seeds, dirty, first, Placed(levels), last)
  BY <1>3, <1>15
<1> QED BY <1>16, <1>17 DEF after, dirty, levels, first

\* What is placed waits for what is placed, and does not read itself.
LEMMA PlacedRests ==
    ASSUME NEW e, EngineOK(e), NEW dirty \in [DOMAIN e.groups -> Box]
    PROVE  /\ Placed(Levels(e, dirty)) \subseteq Placeable(e, dirty)
           /\ \A g \in Placed(Levels(e, dirty)) :
                Upstream(e, dirty, g) \subseteq Placed(Levels(e, dirty))
<1> DEFINE n == Cardinality(Placeable(e, dirty))
<1>1. PICK Q : Ordered(e, dirty, Q)
  BY LevelsOrdered
<1>2. /\ n \in Nat /\ \A k \in 0 .. n : Q[k] \subseteq Placeable(e, dirty)
      /\ \A k \in 1 .. n : \A g \in Q[k] : Upstream(e, dirty, g) \subseteq Q[k - 1]
      /\ \A k \in 1 .. n : Q[k - 1] \subseteq Q[k]
  BY <1>1, OrderedClosed
<1>3. Q[0] = {} /\ Placed(Levels(e, dirty)) = Q[n]
  BY <1>1 DEF Ordered
<1> HIDE DEF n
<1>4. n = 0 \/ n \in 1 .. n
  BY <1>2
<1>5. n \in 0 .. n
  BY <1>2
<1>6. \A g \in Q[n] : Upstream(e, dirty, g) \subseteq Q[n]
  BY <1>2, <1>3, <1>4
<1> QED BY <1>2, <1>3, <1>5, <1>6

\* The groups the whole graph places.
Ranked(e) == Placed(Levels(e, Everywhere(e)))

\* They read nothing but what they place before them, and nothing of it is
\* circular in any pass.
LEMMA SettledReads ==
    ASSUME NEW s, NEW e, NEW seeds, NEW dirty, Ready(s, e, seeds, dirty), NEW g \in Ranked(e)
    PROVE  /\ g \in DOMAIN e.groups /\ ~ ReadsItself(e.groups[g])
           /\ g \in Wanted(dirty) => g \in Placed(Levels(e, dirty))
           /\ \A p \in Positions(e.groups[g]) : Started(e, dirty)[p] = e.results[p]
           /\ \A m \in e.groups[g].members : \A v \in DOMAIN e.groups :
                \A p \in Positions(e.groups[v]) : ReadsCell(m.refs, p) => v # g /\ v \in Ranked(e)
<1> DEFINE G == DOMAIN e.groups
           all == Everywhere(e)
<1>1. EngineOK(e) /\ Linked(e) /\ dirty \in [G -> Box]
  BY DEF Ready, Built
<1>2. all \in [G -> Box] /\ Wanted(all) = G
  BY <1>1 DEF Linked
<1>3. /\ Ranked(e) \subseteq Placeable(e, all)
      /\ Upstream(e, all, g) \subseteq Ranked(e)
  <2> HIDE DEF all
  <2> QED BY <1>1, <1>2, PlacedRests DEF Ranked, all
<1>4. g \in G /\ ~ ReadsItself(e.groups[g])
  BY <1>2, <1>3 DEF Placeable
<1>5. g \in Wanted(dirty) => g \in Placed(Levels(e, dirty))
  BY <1>1, PlacedStays DEF Ranked
<1>6. ASSUME NEW p \in Positions(e.groups[g])
      PROVE  Started(e, dirty)[p] = e.results[p]
  <2>1. p \in DOMAIN e.results
    BY <1>1, <1>4 DEF EngineOK, GroupsOK
  <2>2. p \notin Circular(e, dirty)
    <3> SUFFICES ASSUME NEW v \in Wanted(dirty) \ Placed(Levels(e, dirty)),
                        p \in Positions(e.groups[v])
                 PROVE  FALSE
      BY DEF Circular
    <3>1. v \in G
      BY <1>1 DEF Wanted
    <3>2. v = g
      BY <1>1, <1>4, <3>1 DEF Linked
    <3> QED BY <1>5, <3>2
  <2> QED BY <2>1, <2>2, StartedIs
<1>7. ASSUME NEW m \in e.groups[g].members, NEW v \in G, NEW p \in Positions(e.groups[v]),
             ReadsCell(m.refs, p)
      PROVE  v # g /\ v \in Ranked(e)
  <2>1. p \in Coord \X Coord /\ Covers(e.groups[v].writes, p)
    BY <1>1 DEF Linked
  <2>2. v # g
    BY <1>1, <1>4, <1>7, <2>1 DEF Linked
  <2>3. e.groups[v].writes \in Box
    BY <1>2 DEF Everywhere
  <2>4. g \in Stab(e.index, e.groups[v].writes)
    BY <1>1, <1>4, <1>7, <2>1, <2>3 DEF Linked
  <2>5. v \in Upstream(e, all, g)
    BY <1>2, <2>2, <2>4 DEF Upstream
  <2> QED BY <1>3, <2>2, <2>5
<1> QED BY <1>4, <1>5, <1>6, <1>7

\* A pass brings up to date what was seeded, and leaves up to date what was
\* (Engine::evaluate, with its dirty rectangles and its cutoff): a formula that
\* the marking, the regions or the cutoff skip reads nothing that changed.
THEOREM PassSound ==
    ASSUME NEW s, NEW e, NEW seeds, Ready(s, e, seeds, Marked(e, seeds)), NEW cutoff,
           NEW g \in Ranked(e), NEW m \in e.groups[g].members,
           Covers(seeds[g], m.pos) \/ Consistent(s, e.results, m)
    PROVE  Consistent(s, Pass(s, e, seeds, cutoff).results, m)
<1> DEFINE G == DOMAIN e.groups
           dirty == Marked(e, seeds)
           base == Started(e, dirty)
           P == Placed(Levels(e, dirty))
           after == Pass(s, e, seeds, cutoff)
<1>1. PICK d : /\ Brought(s, e, seeds, dirty, base, P, d)
               /\ after = [groups |-> e.groups, index |-> e.index, results |-> d.results]
  BY PassBrings
<1>2. Ready(s, e, seeds, dirty)
  OBVIOUS
<1>3. after.results = d.results
  BY <1>1
<1> HIDE DEF after, dirty
<1>4. /\ EngineOK(e) /\ Linked(e) /\ seeds \in [G -> Box] /\ dirty \in [G -> Box]
      /\ \A u \in G : Inside(seeds[u], dirty[u])
  BY <1>2 DEF Ready, Built
<1>5. /\ g \in G
      /\ g \in Wanted(dirty) => g \in P
      /\ \A p \in Positions(e.groups[g]) : base[p] = e.results[p]
      /\ \A v \in G : \A p \in Positions(e.groups[v]) :
            ReadsCell(m.refs, p) => v # g /\ v \in Ranked(e)
  BY <1>2, SettledReads
<1>6. \A v \in Ranked(e) : \A p \in Positions(e.groups[v]) : base[p] = e.results[p]
  BY <1>2, SettledReads
<1>7. DOMAIN base = DOMAIN e.results /\ DOMAIN d.results = DOMAIN e.results
  BY <1>1, <1>2, StartedIs DEF Brought, State
<1>8. P \subseteq Wanted(dirty) /\ P \subseteq G
  BY <1>4, PlacedRests DEF Placeable, Wanted
<1>9. m.pos \in Positions(e.groups[g]) /\ m.pos \in Coord \X Coord
  BY <1>4, <1>5 DEF Positions, Linked
<1> HIDE DEF base, P
<1>10. Consistent(s, e.results, m) => Consistent(s, base, m)
  <2>1. \A v \in G : \A p \in Positions(e.groups[v]) :
            ReadsCell(m.refs, p) => base[p] = e.results[p]
    BY <1>5, <1>6
  <2>2. ValueOf(s, base, m.kind, m.refs) = ValueOf(s, e.results, m.kind, m.refs)
    BY <1>2, <1>5, <1>7, <2>1, ConsistentSame
  <2>3. base[m.pos] = e.results[m.pos]
    BY <1>5, <1>9
  <2> QED BY <2>2, <2>3 DEF Consistent
<1>11. CASE g \in P
  <2>1. Consistent(s, d.results, m)
    BY <1>1, <1>10, <1>11 DEF Brought
  <2> QED BY <1>3, <2>1 DEF after
<1>12. CASE g \notin P
  <2>1. ~ Covers(dirty[g], m.pos)
    <3>1. dirty[g] = NoRect
      BY <1>4, <1>5, <1>12 DEF Wanted
    <3> QED BY <1>9, <3>1, NoneCovered
  <2>2. ~ Covers(seeds[g], m.pos)
    <3>1. seeds[g] \in Box /\ dirty[g] \in Box /\ Inside(seeds[g], dirty[g])
      BY <1>4, <1>5
    <3> QED BY <1>9, <2>1, <3>1, CoversInside
  <2>3. Consistent(s, base, m)
    BY <1>10, <2>2
  <2>4. d.results[m.pos] = base[m.pos]
    BY <1>1, <1>5, <1>9, <1>12 DEF Brought
  <2>5. ASSUME NEW v \in G, NEW p \in Positions(e.groups[v]), ReadsCell(m.refs, p)
        PROVE  d.results[p] = base[p]
    <3>1. CASE v \notin P
      BY <1>1, <2>5, <3>1 DEF Brought
    <3>2. CASE v \in P
      <4>1. /\ Inside(d.changed[v], dirty[v])
            /\ d.results[p] # base[p] => Covers(d.changed[v], p)
        BY <1>1, <3>2 DEF Brought
      <4>2. d.changed[v] \in Box /\ dirty[v] \in Box
        BY <1>1, <1>4 DEF Brought, State
      <4>3. p \in Coord \X Coord
        BY <1>4 DEF Linked
      <4>4. Covers(d.changed[v], p) => Covers(dirty[v], p)
        BY <4>1, <4>2, <4>3, CoversInside
      <4>5. Covers(dirty[v], p) => Covers(dirty[g], m.pos)
        BY <1>2, <1>5, <2>5, DirtyReaches
      <4> QED BY <2>1, <4>1, <4>4, <4>5
    <3> QED BY <3>1, <3>2
  <2>6. ValueOf(s, d.results, m.kind, m.refs) = ValueOf(s, base, m.kind, m.refs)
    BY <1>2, <1>5, <1>7, <2>5, ConsistentSame
  <2>7. Consistent(s, d.results, m)
    BY <2>3, <2>4, <2>6 DEF Consistent
  <2> QED BY <1>3, <2>7 DEF after
<1> QED BY <1>11, <1>12

-----------------------------------------------------------------------------
(* Cells that can reach themselves.                                        *)

\* No reference stands in parentheses: each item has the binding made for it.
Plain(s) ==
    \A c \in Cells(s) :
        /\ DOMAIN s.formula[c].bindings = DOMAIN s.formula[c].items
        /\ \A i \in DOMAIN s.formula[c].items : ~ s.formula[c].items[i].paren

\* A formula of a plain sheet is rebound reference by reference.
LEMMA PlainRefs ==
    ASSUME NEW s, SheetOK(s), SheetTyped(s), Plain(s), NEW c \in LiveCells(s)
    PROVE  Rebind(s, s.formula[c])
                = [i \in DOMAIN s.formula[c].bindings |-> Resolved(s, s.formula[c].bindings[i])]
<1> DEFINE f == s.formula[c]
<1>1. c \in Cells(s)
  BY LiveInIds DEF LiveCells, Cells
<1>2. /\ DOMAIN f.bindings = DOMAIN f.items /\ \A i \in DOMAIN f.items : ~ f.items[i].paren
      /\ f.items \in Seq([text : Proper, paren : BOOLEAN])
  BY <1>1 DEF Plain, SheetTyped
<1> HIDE DEF f
<1>3. ASSUME NEW i \in DOMAIN f.items
      PROVE  Cardinality({j \in 1 .. i - 1 : ~ f.items[j].paren}) = i - 1
  <2>1. DOMAIN f.items = 1 .. Len(f.items) /\ Len(f.items) \in Nat
    BY <1>2, LenProperties
  <2>2. i \in Nat /\ 1 .. i - 1 \subseteq DOMAIN f.items
    BY <2>1
  <2>3. {j \in 1 .. i - 1 : ~ f.items[j].paren} = 1 .. i - 1
    BY <1>2, <2>2
  <2>4. 1 \in Int /\ i - 1 \in Int
    BY <2>2
  <2>5. Cardinality(1 .. i - 1) = IF 1 > i - 1 THEN 0 ELSE i - 1 - 1 + 1
    BY <2>4, FS_Interval
  <2>6. i \in Nat /\ 1 <= i
    BY <2>1
  <2>7. Cardinality(1 .. i - 1) = i - 1
    <3> DEFINE size == Cardinality(1 .. i - 1)
    <3>1. size = IF 1 > i - 1 THEN 0 ELSE i - 1 - 1 + 1
      BY <2>5
    <3> HIDE DEF size
    <3>2. size = i - 1
      BY <2>6, <3>1
    <3> QED BY <3>2 DEF size
  <2> QED BY <2>3, <2>7
<1>4. \A i \in DOMAIN f.items : i \in Nat /\ i - 1 + 1 = i
  <2>1. DOMAIN f.items = 1 .. Len(f.items) /\ Len(f.items) \in Nat
    BY <1>2, LenProperties
  <2> QED BY <2>1
<1>5. \A i \in DOMAIN f.items :
        f.bindings[Cardinality({j \in 1 .. i - 1 : ~ f.items[j].paren}) + 1] = f.bindings[i]
  BY <1>3, <1>4
<1>6. Rebind(s, f) = [i \in DOMAIN f.items |-> Resolved(s, f.bindings[i])]
  <2> DEFINE Taken(i) == f.bindings[Cardinality({j \in 1 .. i - 1 : ~ f.items[j].paren}) + 1]
             Ref(i) == IF f.items[i].paren THEN f.items[i].text ELSE Resolved(s, Taken(i))
  <2>1. Rebind(s, f) = [i \in DOMAIN f.items |-> Ref(i)]
    BY Zenon DEF Rebind
  <2>2. \A i \in DOMAIN f.items : Taken(i) = f.bindings[i]
    BY <1>5
  <2> HIDE DEF Taken
  <2>3. \A i \in DOMAIN f.items : Ref(i) = Resolved(s, f.bindings[i])
    BY <1>2, <2>2
  <2> HIDE DEF Ref
  <2> QED BY <2>1, <2>3
<1> QED BY <1>2, <1>6 DEF f

\* What a cell reads, cell by cell and by its member.
LEMMA PrecedentsRead ==
    ASSUME NEW s, SheetOK(s), SheetTyped(s), Plain(s)
    PROVE  /\ \A c : Precedents(s, c) \subseteq LiveCells(s)
           /\ \A c \in LiveCells(s) : ~ HasFormula(s, c) => Precedents(s, c) = {}
           /\ \A m \in Members(s) : \A y \in LiveCells(s) :
                y \in Precedents(s, m.cell) <=> ReadsCell(m.refs, Position(s, y))
<1>1. \A c : Precedents(s, c) \subseteq LiveCells(s)
  BY DEF Precedents
<1>2. ASSUME NEW c \in LiveCells(s), ~ HasFormula(s, c)
      PROVE  Precedents(s, c) = {}
  <2>1. s.formula[c].bindings = <<>>
    BY <1>2 DEF HasFormula, NoFormula
  <2>2. DOMAIN s.formula[c].bindings = {}
    BY <2>1
  <2> QED BY <2>2 DEF Precedents
<1>3. ASSUME NEW m \in Members(s), NEW y \in LiveCells(s)
      PROVE  y \in Precedents(s, m.cell) <=> ReadsCell(m.refs, Position(s, y))
  <2> DEFINE b == s.formula[m.cell].bindings
  <2>1. m.cell \in LiveCells(s) /\ m.refs = Rebind(s, s.formula[m.cell])
    BY MemberShape
  <2>2. m.refs = [i \in DOMAIN b |-> Resolved(s, b[i])]
    BY <2>1, PlainRefs
  <2>3. Precedents(s, m.cell)
            = {c \in LiveCells(s) : \E r \in {Resolved(s, b[i]) : i \in DOMAIN b} :
                    Covers(r, Position(s, c))}
    BY DEF Precedents
  <2>4. y \in Precedents(s, m.cell) <=> \E i \in DOMAIN b : Covers(Resolved(s, b[i]), Position(s, y))
    BY <2>3
  <2> HIDE DEF b
  <2> QED BY <2>2, <2>4 DEF ReadsCell
<1> QED BY <1>1, <1>2, <1>3

\* A set of cells that holds what it reads.
Grounds(s, Z) == \A z \in Z : Precedents(s, z) \subseteq Z

\* What the cell reads rests on the cell itself.
Loops(s, c) ==
    \A Z \in SUBSET LiveCells(s) : Grounds(s, Z) /\ Precedents(s, c) \subseteq Z => c \in Z

\* The groups placed before a group that is placed.
LEMMA PlacedBefore ==
    ASSUME NEW e, EngineOK(e), NEW dirty \in [DOMAIN e.groups -> Box],
           NEW g \in Placed(Levels(e, dirty))
    PROVE  \E low : /\ low \subseteq Placeable(e, dirty) /\ g \notin low
                    /\ Upstream(e, dirty, g) \subseteq low
                    /\ \A u \in low : Upstream(e, dirty, u) \subseteq low
<1> DEFINE n == Cardinality(Placeable(e, dirty))
<1>1. PICK Q : Ordered(e, dirty, Q)
  BY LevelsOrdered
<1>2. /\ n \in Nat /\ \A k \in 0 .. n : Q[k] \subseteq Placeable(e, dirty)
      /\ \A k \in 1 .. n : \A u \in Q[k] : Upstream(e, dirty, u) \subseteq Q[k - 1]
      /\ \A k \in 1 .. n : Q[k - 1] \subseteq Q[k]
  BY <1>1, OrderedClosed
<1>3. Q[0] = {} /\ Placed(Levels(e, dirty)) = Q[n]
  BY <1>1 DEF Ordered
<1> HIDE DEF n
<1> DEFINE T == {k \in 0 .. n : g \notin Q[k]}
<1>4. ~ (0 .. n \subseteq T)
  BY <1>2, <1>3
<1>5. 0 \in T
  BY <1>2, <1>3
<1>6. ~ \A k \in 0 .. n - 1 : k \in T => k + 1 \in T
  <2> HIDE DEF T
  <2> QED BY <1>2, <1>4, <1>5, CountsUp
<1>7. PICK k \in 0 .. n - 1 : k \in T /\ k + 1 \notin T
  BY <1>6
<1>8. k \in Nat /\ k + 1 \in 1 .. n /\ k + 1 - 1 = k /\ k + 1 \in 0 .. n /\ k \in 0 .. n
  BY <1>2
<1>9. g \in Q[k + 1] /\ g \notin Q[k]
  BY <1>7, <1>8
<1>10. Upstream(e, dirty, g) \subseteq Q[k]
  <2>1. Upstream(e, dirty, g) \subseteq Q[k + 1 - 1]
    BY <1>2, <1>8, <1>9
  <2> QED BY <1>8, <2>1
<1>11. ASSUME NEW u \in Q[k]
       PROVE  Upstream(e, dirty, u) \subseteq Q[k]
  <2>1. k # 0
    BY <1>3
  <2>2. k \in 1 .. n
    BY <1>8, <2>1
  <2> QED BY <1>2, <2>2
<1> QED BY <1>2, <1>8, <1>9, <1>10, <1>11

\* A dirty cell that feeds one of a group that is clean, or does not read
\* itself, is of a group before it.
LEMMA FeedsBefore ==
    ASSUME NEW s, NEW e, NEW seeds, NEW dirty, Ready(s, e, seeds, dirty), Plain(s),
           NEW u \in DOMAIN e.groups, NEW n \in e.groups[u].members,
           NEW v \in DOMAIN e.groups, NEW o \in e.groups[v].members,
           o.cell \in Precedents(s, n.cell), Covers(dirty[v], o.pos),
           ~ Covers(dirty[u], n.pos) \/ ~ ReadsItself(e.groups[u])
    PROVE  v \in Upstream(e, dirty, u) /\ Covers(dirty[u], n.pos)
<1>1. SheetOK(s) /\ SheetTyped(s) /\ Built(s, e) /\ Linked(e)
  BY DEF Ready
<1>2. n \in Members(s) /\ o \in Members(s)
  BY <1>1 DEF Built
<1>3. o.cell \in LiveCells(s) /\ o.pos = Position(s, o.cell) /\ o.pos \in Coord \X Coord
  BY <1>1, <1>2, MemberShape
<1>4. ReadsCell(n.refs, o.pos)
  BY <1>1, <1>2, <1>3, PrecedentsRead
<1>5. o.pos \in Positions(e.groups[v])
  BY DEF Positions
<1>6. v # u
  <2>1. SUFFICES ASSUME v = u
                 PROVE  FALSE
    OBVIOUS
  <2>2. ReadsItself(e.groups[u])
    BY <1>1, <1>3, <1>4, <1>5, <2>1 DEF Linked
  <2>3. n = o
    BY <1>1, <2>1, <2>2 DEF Linked
  <2> QED BY <2>1, <2>2, <2>3
<1> QED BY <1>4, <1>5, <1>6, DirtyReaches

\* The group of a dirty cell that can reach itself finds no level.
LEMMA CycleUnplaced ==
    ASSUME NEW s, NEW e, NEW seeds, NEW dirty, Ready(s, e, seeds, dirty), Plain(s),
           NEW g \in DOMAIN e.groups, NEW m \in e.groups[g].members,
           Loops(s, m.cell), Covers(dirty[g], m.pos)
    PROVE  g \notin Placed(Levels(e, dirty))
<1> SUFFICES ASSUME g \in Placed(Levels(e, dirty))
             PROVE  FALSE
  OBVIOUS
<1> DEFINE G == DOMAIN e.groups
<1>1. SheetOK(s) /\ SheetTyped(s) /\ Built(s, e) /\ EngineOK(e) /\ dirty \in [G -> Box]
  BY DEF Ready, Built
<1>2. PICK low : /\ low \subseteq Placeable(e, dirty) /\ g \notin low
                 /\ Upstream(e, dirty, g) \subseteq low
                 /\ \A u \in low : Upstream(e, dirty, u) \subseteq low
  BY <1>1, PlacedBefore
<1>3. \A u \in low : u \in G /\ ~ ReadsItself(e.groups[u])
  BY <1>1, <1>2 DEF Placeable, Wanted
<1>4. ~ ReadsItself(e.groups[g])
  <2>1. g \in Placeable(e, dirty)
    BY <1>1, PlacedRests
  <2> QED BY <2>1 DEF Placeable
<1> DEFINE Z == {x \in LiveCells(s) : \A u \in G : \A n \in e.groups[u].members :
                    n.cell = x /\ Covers(dirty[u], n.pos) => u \in low}
<1>5. Precedents(s, m.cell) \subseteq Z
  <2> SUFFICES ASSUME NEW y \in Precedents(s, m.cell), NEW v \in G, NEW o \in e.groups[v].members,
                      o.cell = y, Covers(dirty[v], o.pos)
               PROVE  v \in low
    BY <1>1, PrecedentsRead
  <2>1. v \in Upstream(e, dirty, g)
    BY <1>4, FeedsBefore
  <2> QED BY <1>2, <2>1
<1>6. ASSUME NEW z \in Z
      PROVE  Precedents(s, z) \subseteq Z
  <2> SUFFICES ASSUME NEW y \in Precedents(s, z), NEW v \in G, NEW o \in e.groups[v].members,
                      o.cell = y, Covers(dirty[v], o.pos)
               PROVE  v \in low
    BY <1>1, PrecedentsRead
  <2>1. HasFormula(s, z)
    BY <1>1, PrecedentsRead
  <2>2. PICK n \in Members(s) : n.cell = z
    BY <2>1, MemberThere
  <2>3. PICK u \in G : n \in e.groups[u].members
    BY <1>1 DEF Built
  <2>4. CASE ~ Covers(dirty[u], n.pos)
    BY <2>2, <2>3, <2>4, FeedsBefore
  <2>5. CASE Covers(dirty[u], n.pos)
    <3>1. u \in low
      BY <2>2, <2>3, <2>5
    <3>2. v \in Upstream(e, dirty, u)
      BY <1>3, <2>2, <2>3, <3>1, FeedsBefore
    <3> QED BY <1>2, <3>1, <3>2
  <2> QED BY <2>4, <2>5
<1>7. m.cell \in Z
  <2>1. Z \in SUBSET LiveCells(s) /\ Grounds(s, Z)
    BY <1>6 DEF Grounds
  <2> HIDE DEF Z
  <2> QED BY <1>5, <2>1 DEF Loops
<1> QED BY <1>2, <1>7

\* A pass leaves #CIRC! in every cell that can reach itself, where it was or
\* where the pass is seeded.
THEOREM PassCirc ==
    ASSUME NEW s, NEW e, NEW seeds, Ready(s, e, seeds, Marked(e, seeds)), NEW cutoff, Plain(s),
           NEW g \in DOMAIN e.groups, NEW m \in e.groups[g].members, Loops(s, m.cell),
           Covers(seeds[g], m.pos) \/ e.results[m.pos] = CircError
    PROVE  Pass(s, e, seeds, cutoff).results[m.pos] = CircError
<1> DEFINE G == DOMAIN e.groups
           dirty == Marked(e, seeds)
           base == Started(e, dirty)
           P == Placed(Levels(e, dirty))
           after == Pass(s, e, seeds, cutoff)
<1>1. PICK d : /\ Brought(s, e, seeds, dirty, base, P, d)
               /\ after = [groups |-> e.groups, index |-> e.index, results |-> d.results]
  BY PassBrings
<1>2. Ready(s, e, seeds, dirty)
  OBVIOUS
<1>3. after.results = d.results
  BY <1>1
<1> HIDE DEF after, dirty
<1>4. /\ EngineOK(e) /\ Linked(e) /\ seeds \in [G -> Box] /\ dirty \in [G -> Box]
      /\ \A u \in G : Inside(seeds[u], dirty[u])
  BY <1>2 DEF Ready, Built
<1>5. m.pos \in Positions(e.groups[g]) /\ m.pos \in Coord \X Coord /\ m.pos \in DOMAIN e.results
  BY <1>4 DEF Positions, Linked, EngineOK, GroupsOK
<1>6. base[m.pos] = IF m.pos \in Circular(e, dirty) THEN CircError ELSE e.results[m.pos]
  BY <1>2, <1>5, StartedIs
<1>7. g \notin P => d.results[m.pos] = base[m.pos]
  BY <1>1, <1>5 DEF Brought
<1>8. seeds[g] \in Box /\ dirty[g] \in Box /\ Inside(seeds[g], dirty[g])
  BY <1>4
<1> HIDE DEF base
<1>9. CASE Covers(dirty[g], m.pos)
  <2>1. g \notin P
    BY <1>2, <1>9, CycleUnplaced
  <2>2. g \in Wanted(dirty)
    <3>1. dirty[g] # NoRect
      BY <1>5, <1>9, NoneCovered
    <3> QED BY <1>4, <3>1 DEF Wanted
  <2>3. m.pos \in Circular(e, dirty)
    BY <1>5, <2>1, <2>2 DEF Circular
  <2> QED BY <1>3, <1>6, <1>7, <2>1, <2>3 DEF after
<1>10. CASE ~ Covers(dirty[g], m.pos)
  <2>1. ~ Covers(seeds[g], m.pos)
    BY <1>5, <1>8, <1>10, CoversInside
  <2>2. base[m.pos] = CircError
    BY <1>6, <2>1
  <2>3. d.results[m.pos] = base[m.pos]
    <3>1. CASE g \in P
      <4>1. Inside(d.changed[g], dirty[g])
            /\ (d.results[m.pos] # base[m.pos] => Covers(d.changed[g], m.pos))
        BY <1>1, <1>5, <3>1 DEF Brought
      <4>2. d.changed[g] \in Box
        BY <1>1 DEF Brought, State
      <4> QED BY <1>5, <1>8, <1>10, <4>1, <4>2, CoversInside
    <3> QED BY <1>7, <3>1
  <2> QED BY <1>3, <2>2, <2>3 DEF after
<1> QED BY <1>9, <1>10

\* A sheet has finitely many live cells.
LEMMA LiveCellsFinite ==
    ASSUME NEW s, SheetOK(s)
    PROVE  IsFiniteSet(LiveCells(s)) /\ Cardinality(LiveCells(s)) \in Nat
<1>1. IsFiniteSet(LiveIds(s.row)) /\ IsFiniteSet(LiveIds(s.col))
  BY LiveIdsFinite DEF SheetOK
<1>2. IsFiniteSet(LiveCells(s))
  BY <1>1, FS_Product DEF LiveCells
<1> QED BY <1>2, FS_CardinalityType

\* What a relation says of cells that rest on each other.
Rests(s, R) ==
    \A x \in R : \A Z \in SUBSET LiveCells(s) :
        Grounds(s, Z) /\ Precedents(s, x[1]) \subseteq Z => x[2] \in Z

\* Who reads whom, and the paths one step longer.
Feeds(s) == UNION {{<<c, d>> : d \in Precedents(s, c)} : c \in LiveCells(s)}
Farther(R, feeds) ==
    R \union {<<x[1][1], x[2][2]>> : x \in {y \in R \X feeds : y[1][2] = y[2][1]}}

\* Lengthening paths adds no cell that is not grounded in what it reaches.
LEMMA FartherRests ==
    ASSUME NEW s, SheetOK(s), SheetTyped(s), Plain(s),
           NEW R \in SUBSET (LiveCells(s) \X LiveCells(s)), Rests(s, R)
    PROVE  /\ Farther(R, Feeds(s)) \in SUBSET (LiveCells(s) \X LiveCells(s))
           /\ Rests(s, Farther(R, Feeds(s)))
           /\ Feeds(s) \in SUBSET (LiveCells(s) \X LiveCells(s)) /\ Rests(s, Feeds(s))
<1> DEFINE L == LiveCells(s)
           F == Feeds(s)
<1>1. \A x \in F : x \in L \X L /\ x[2] \in Precedents(s, x[1])
  BY PrecedentsRead DEF Feeds
<1>2. Rests(s, F)
  BY <1>1 DEF Rests
<1> HIDE DEF F
<1>3. ASSUME NEW x \in Farther(R, F)
      PROVE  /\ x \in L \X L
             /\ \A Z \in SUBSET L : Grounds(s, Z) /\ Precedents(s, x[1]) \subseteq Z => x[2] \in Z
  <2>1. CASE x \in R
    BY <2>1 DEF Rests
  <2>2. CASE x \notin R
    <3>1. PICK y \in R, z \in F : y[2] = z[1] /\ x = <<y[1], z[2]>>
      BY <2>2 DEF Farther
    <3>2. z \in L \X L /\ z[2] \in Precedents(s, z[1]) /\ y \in L \X L
      BY <1>1
    <3>3. ASSUME NEW Z \in SUBSET L, Grounds(s, Z), Precedents(s, x[1]) \subseteq Z
          PROVE  x[2] \in Z
      <4>1. y[2] \in Z
        BY <3>1, <3>3 DEF Rests
      <4>2. Precedents(s, z[1]) \subseteq Z
        BY <3>1, <3>3, <4>1 DEF Grounds
      <4> QED BY <3>1, <3>2, <4>2
    <3> QED BY <3>1, <3>2, <3>3
  <2> QED BY <2>1, <2>2
<1>4. Farther(R, F) \in SUBSET (L \X L) /\ Rests(s, Farther(R, F))
  BY <1>3 DEF Rests
<1>5. F \in SUBSET (L \X L)
  BY <1>1
<1> QED BY <1>2, <1>4, <1>5 DEF F

\* A cell that can reach itself rests on itself.
LEMMA OnCycleLoops ==
    ASSUME SheetOK(sheet), SheetTyped(sheet), Plain(sheet)
    PROVE  \A c \in OnCycle :
                c \in LiveCells(sheet) /\ HasFormula(sheet, c) /\ Loops(sheet, c)
<1> DEFINE L == LiveCells(sheet)
           F == Feeds(sheet)
           n == Cardinality(L)
           Round(R, i) == R \union {<<x[1][1], x[2][2]>> :
                                        x \in {y \in R \X F : y[1][2] = y[2][1]}}
           rounds == [i \in 1 .. n |-> i]
           D == {R \in SUBSET (L \X L) : Rests(sheet, R)}
           it == CHOOSE f : f = [s \in SUBSET (1 .. n) |->
                    IF s = {} THEN F ELSE Round(f[s \ {Max(s)}], rounds[Max(s)])]
           g0 == [i \in 1 .. n |-> [d \in D |-> Round(d, rounds[i])]]
<1>1. n \in Nat /\ DOMAIN rounds = 1 .. n
  BY LiveCellsFinite
<1>2. OnCycle = {c \in L : <<c, c>> \in it[1 .. n]}
  <2>1. FoldLeft(Round, F, rounds) = it[1 .. n]
    <3> HIDE DEF n, F
    <3> QED BY Zenon, <1>1 DEF FoldLeft, MapThenFoldSet
  <2>2. OnCycle = {c \in L : <<c, c>> \in FoldLeft(Round, F, rounds)}
    BY Zenon DEF OnCycle, Saturate, Feeds
  <2> HIDE DEF it, Round, F, rounds, n, L
  <2> QED BY <2>1, <2>2
<1>3. F \in D
  <2>1. {} \in SUBSET (L \X L) /\ Rests(sheet, {})
    BY DEF Rests
  <2> QED BY <2>1, FartherRests
<1>4. ASSUME NEW d \in D, NEW i
      PROVE  Round(d, i) \in D
  <2>1. Round(d, i) = Farther(d, Feeds(sheet))
    BY DEF Farther
  <2>2. Farther(d, Feeds(sheet)) \in D
    BY FartherRests
  <2> QED BY <2>1, <2>2
<1> HIDE DEF n, rounds, F, D, Round
<1>6. \A i \in 1 .. n : \A d \in D : g0[i][d] = Round(d, rounds[i]) /\ g0[i][d] \in D
  BY <1>4
<1> HIDE DEF g0
<1>7. PICK h : Solves(h, D, F, n, g0)
  <2>1. \A i \in 1 .. n : \A d \in D : g0[i][d] \in D
    BY <1>6
  <2>2. n \in Nat
    BY <1>1
  <2> HIDE DEF it
  <2> QED BY Zenon, <1>3, <2>1, <2>2, FoldSolved
<1>8. \A s \in SUBSET (1 .. n) :
        h[s] = IF s = {} THEN F ELSE Round(h[s \ {Max(s)}], rounds[Max(s)])
  BY <1>6, <1>7 DEF Solves
<1>9. h = [s \in SUBSET (1 .. n) |->
              IF s = {} THEN F ELSE Round(h[s \ {Max(s)}], rounds[Max(s)])]
  BY <1>7, <1>8 DEF Solves
<1>10. it = [s \in SUBSET (1 .. n) |->
              IF s = {} THEN F ELSE Round(it[s \ {Max(s)}], rounds[Max(s)])]
  BY <1>9
<1> HIDE DEF it
<1> DEFINE T == {s \in SUBSET (1 .. n) : it[s] \in D}
<1>11. {} \in T
  BY <1>3, <1>10
<1>12. ASSUME NEW s \in SUBSET (1 .. n), s # {}, s \ {Max(s)} \in T
       PROVE  s \in T
  <2>1. it[s] = Round(it[s \ {Max(s)}], rounds[Max(s)])
    BY <1>10, <1>12
  <2>2. it[s \ {Max(s)}] \in D
    BY <1>12
  <2> QED BY <1>4, <2>1, <2>2
<1>13. \A s \in SUBSET (1 .. n) : s \in T
  <2> HIDE DEF T
  <2> QED BY <1>1, <1>11, <1>12, ByLargest
<1>14. it[1 .. n] \in D
  BY <1>13
<1>15. ASSUME NEW c \in OnCycle
       PROVE  c \in L /\ HasFormula(sheet, c) /\ Loops(sheet, c)
  <2>1. c \in L /\ <<c, c>> \in it[1 .. n]
    BY <1>2
  <2>2. Rests(sheet, it[1 .. n])
    BY <1>14 DEF D
  <2>3. \A Z \in SUBSET LiveCells(sheet) :
            Grounds(sheet, Z) /\ Precedents(sheet, c) \subseteq Z => c \in Z
    BY <2>1, <2>2 DEF Rests
  <2>4. Loops(sheet, c)
    BY <2>3 DEF Loops
  <2>5. HasFormula(sheet, c)
    <3>1. SUFFICES ASSUME ~ HasFormula(sheet, c)
                   PROVE  FALSE
      OBVIOUS
    <3>2. Precedents(sheet, c) = {}
      BY <2>1, <3>1, PrecedentsRead
    <3>3. Grounds(sheet, {})
      BY DEF Grounds
    <3> QED BY <2>3, <3>2, <3>3
  <2> QED BY <2>1, <2>4, <2>5
<1> QED BY <1>15

-----------------------------------------------------------------------------
(* Formulas re-evaluated until nothing can change.                         *)

\* Evaluation over typed contents gives a value.
LEMMA ValueByTyped ==
    ASSUME NEW F \in [Coord \X Coord -> Content], NEW kind, NEW refs \in Seq(Box)
    PROVE  ValueBy(F, kind, refs) \in Value
<1> DEFINE Half(r) == IF r = NoRect THEN <<RefError>>
                      ELSE [j \in DOMAIN Reading(r) |-> F[Reading(r)[j]]]
           parts == [i \in DOMAIN refs |-> Half(refs[i])]
<1>1. ValueBy(F, kind, refs) = Combine(kind, FlattenSeq(parts))
  BY Zenon, ValueByParts DEF Parts
<1>2. ASSUME NEW r \in Box
      PROVE  Half(r) \in Seq(Content)
  <2>1. CASE r = NoRect
    <3>1. RefError \in Content
      BY DEF Content, Value
    <3>2. <<RefError>> \in Seq(Content)
      BY <3>1
    <3> QED BY <2>1, <3>2
  <2>2. CASE r # NoRect
    <3> DEFINE q == Reading(r)
    <3>1. r \in Proper
      BY <2>2 DEF Box
    <3>2. q \in Seq(Cell) /\ \A j \in DOMAIN q : q[j] \in Coord \X Coord
      BY <3>1, ReadingTyped, ReadingCovered
    <3> HIDE DEF q
    <3>3. DOMAIN q = 1 .. Len(q) /\ Len(q) \in Nat
      BY <3>2
    <3>4. \A j \in DOMAIN q : F[q[j]] \in Content
      BY <3>2
    <3>5. [j \in DOMAIN q |-> F[q[j]]] \in Seq(Content)
      BY <3>3, <3>4
    <3> QED BY <2>2, <3>5 DEF q
  <2> QED BY <2>1, <2>2
<1>3. parts \in Seq(Seq(Content))
  <2>1. DOMAIN refs = 1 .. Len(refs) /\ Len(refs) \in Nat /\ \A i \in DOMAIN refs : refs[i] \in Box
    OBVIOUS
  <2>2. \A i \in DOMAIN refs : Half(refs[i]) \in Seq(Content)
    BY <1>2, <2>1
  <2> HIDE DEF Half
  <2> QED BY <2>1, <2>2
<1> HIDE DEF parts
<1>4. Combine(kind, FlattenSeq(parts)) \in Value
  BY <1>3, FlatTyped, CombineTyped
<1> QED BY Zenon, <1>1, <1>4

\* A cell's formula over given values of all cells.
Meaning(s, c, V) ==
    LET f == s.formula[c]
    IN Evaluate(f.kind, [i \in DOMAIN f.bindings |-> Resolved(s, f.bindings[i])],
                LAMBDA p : V[CellAt(s, p)])

\* The grid a map of cells to values gives, cells off the sheet in error.
Given(s, V) == [q \in Coord \X Coord |-> IF OnGrid(s, q) THEN V[CellAt(s, q)] ELSE RefError]

\* What a formula means is what its member evaluates to.
LEMMA MeaningIs ==
    ASSUME NEW s, SheetOK(s), SheetTyped(s), Plain(s), NEW V, NEW m \in Members(s)
    PROVE  Meaning(s, m.cell, V) = ValueBy(Given(s, V), m.kind, m.refs)
<1> DEFINE c == m.cell
           b == s.formula[c].bindings
           refs == [i \in DOMAIN b |-> Resolved(s, b[i])]
           F == Given(s, V)
           Part(r) == IF r = NoRect THEN <<RefError>>
                      ELSE [j \in DOMAIN Reading(r) |-> V[CellAt(s, Reading(r)[j])]]
           Half(r) == IF r = NoRect THEN <<RefError>>
                      ELSE [j \in DOMAIN Reading(r) |-> F[Reading(r)[j]]]
<1>1. /\ c \in LiveCells(s) /\ m.kind = s.formula[c].kind
      /\ m.refs = Rebind(s, s.formula[c]) /\ m.refs \in Seq(Box)
  BY MemberShape
<1>2. m.refs = refs
  BY <1>1, PlainRefs
<1>3. Meaning(s, c, V) = Combine(m.kind, FlattenSeq([i \in DOMAIN refs |-> Part(refs[i])]))
  BY Zenon, <1>1 DEF Meaning, Evaluate
<1>4. Parts(F, refs) = [i \in DOMAIN refs |-> Half(refs[i])]
  BY Zenon DEF Parts
<1>5. Fits(s.row) /\ Fits(s.col)
  BY TypedFits
<1>6. ASSUME NEW i \in DOMAIN b
      PROVE  Part(refs[i]) = Half(refs[i])
  <2> DEFINE r == refs[i]
  <2>1. r = Resolved(s, b[i]) /\ r \in Box
    BY <1>1, <1>2
  <2> HIDE DEF refs, r, b
  <2>2. CASE r = NoRect
    BY <2>2 DEF r
  <2>3. CASE r # NoRect
    <3> DEFINE q == Reading(r)
    <3>1. \A j \in DOMAIN q : q[j] \in Coord \X Coord /\ Covers(r, q[j])
      BY <2>1, <2>3, ReadingCovered DEF Box
    <3>2. \A j \in DOMAIN q : OnGrid(s, q[j])
      BY <1>5, <2>1, <3>1, ResolvedOnGrid
    <3> HIDE DEF q
    <3>3. \A j \in DOMAIN q : V[CellAt(s, q[j])] = F[q[j]]
      BY <3>1, <3>2 DEF Given
    <3> HIDE DEF F
    <3>4. [j \in DOMAIN q |-> V[CellAt(s, q[j])]] = [j \in DOMAIN q |-> F[q[j]]]
      BY <3>3
    <3> QED BY <2>3, <3>4 DEF q, r
  <2> QED BY <2>2, <2>3 DEF r
<1>7. DOMAIN refs = DOMAIN b
  OBVIOUS
<1> HIDE DEF Part, Half, refs, F, b
<1>8. [i \in DOMAIN refs |-> Part(refs[i])] = Parts(F, refs)
  BY <1>4, <1>6, <1>7
<1>9. ValueBy(F, m.kind, m.refs) = Combine(m.kind, FlattenSeq(Parts(F, refs)))
  BY <1>2, ValueByParts
<1> QED BY <1>3, <1>8, <1>9 DEF F

\* The denotation's rounds: every formula evaluated again, from all of them in error.
Formulae(s) == {c \in LiveCells(s) : HasFormula(s, c)}
Again(s, V) == Over([c \in Formulae(s) |-> Meaning(s, c, V)], V)
First(s) == Over([c \in Formulae(s) |-> CircError], s.stored)

\* Values in which only formulas differ from what is stored.
Values(s) ==
    {V \in [Cells(s) -> Content] : \A c \in Cells(s) \ Formulae(s) : V[c] = s.stored[c]}

\* The grid of typed values is typed.
LEMMA GivenTyped ==
    ASSUME NEW s, SheetOK(s), SheetTyped(s), NEW V \in Values(s)
    PROVE  Given(s, V) \in [Coord \X Coord -> Content]
<1>1. Fits(s.row) /\ Fits(s.col)
  BY TypedFits
<1>2. RefError \in Content
  BY DEF Content, Value
<1>3. V \in [Cells(s) -> Content]
  BY DEF Values
<1>4. \A q \in Coord \X Coord : OnGrid(s, q) => CellAt(s, q) \in Cells(s)
  <2>1. LiveCells(s) \subseteq Cells(s)
    BY LiveInIds DEF LiveCells, Cells
  <2> QED BY <1>1, <2>1, CellThere
<1> QED BY <1>2, <1>3, <1>4 DEF Given

\* A round keeps values typed and evaluates every member once.
LEMMA AgainTyped ==
    ASSUME NEW s, SheetOK(s), SheetTyped(s), Plain(s)
    PROVE  /\ First(s) \in Values(s)
           /\ \A V \in Values(s) :
                /\ Again(s, V) \in Values(s)
                /\ \A m \in Members(s) :
                    Again(s, V)[m.cell] = ValueBy(Given(s, V), m.kind, m.refs)
<1> DEFINE F == Formulae(s)
<1>1. F \subseteq Cells(s)
  BY LiveInIds DEF Formulae, LiveCells, Cells
<1>2. s.stored \in [Cells(s) -> Content]
  BY DEF SheetTyped, Content, Value
<1>3. First(s) \in Values(s)
  <2>1. CircError \in Content
    BY DEF Content, Value
  <2> QED BY <1>1, <1>2, <2>1 DEF First, Over, Values
<1>4. ASSUME NEW V \in Values(s)
      PROVE  /\ Again(s, V) \in Values(s)
             /\ \A m \in Members(s) :
                    Again(s, V)[m.cell] = ValueBy(Given(s, V), m.kind, m.refs)
  <2>1. V \in [Cells(s) -> Content] /\ \A c \in Cells(s) \ F : V[c] = s.stored[c]
    BY DEF Values
  <2>2. ASSUME NEW m \in Members(s)
        PROVE  /\ m.cell \in F
               /\ Meaning(s, m.cell, V) = ValueBy(Given(s, V), m.kind, m.refs)
               /\ Meaning(s, m.cell, V) \in Content
    <3>1. m.cell \in F /\ m.refs \in Seq(Box)
      BY MemberShape DEF Formulae
    <3>2. Meaning(s, m.cell, V) = ValueBy(Given(s, V), m.kind, m.refs)
      BY MeaningIs
    <3>3. ValueBy(Given(s, V), m.kind, m.refs) \in Value
      BY <3>1, GivenTyped, ValueByTyped
    <3> QED BY <3>1, <3>2, <3>3 DEF Content
  <2>3. \A c \in F : Meaning(s, c, V) \in Content
    BY <2>2, MemberThere DEF Formulae
  <2> HIDE DEF F
  <2>4. Again(s, V) = [c \in Cells(s) |-> IF c \in F THEN Meaning(s, c, V) ELSE V[c]]
    BY <1>1, <2>1 DEF Again, Over, F
  <2>5. F \subseteq Cells(s)
    BY <1>1 DEF F
  <2>6. Again(s, V) \in [Cells(s) -> Content]
    BY <2>1, <2>3, <2>4
  <2>7. \A c \in Cells(s) \ F : Again(s, V)[c] = s.stored[c]
    BY <2>1, <2>4
  <2>8. \A m \in Members(s) : Again(s, V)[m.cell] = ValueBy(Given(s, V), m.kind, m.refs)
    BY <2>2, <2>4, <2>5
  <2> QED BY <2>6, <2>7, <2>8 DEF Values, F
<1> QED BY <1>3, <1>4

\* The values Denoted goes through.
LEMMA DenotedRuns ==
    ASSUME SheetOK(sheet), SheetTyped(sheet), Plain(sheet)
    PROVE  LET n == Cardinality(LiveCells(sheet))
           IN \E run : /\ n \in Nat /\ run[0] = First(sheet)
                       /\ \A i \in 0 .. n : run[i] \in Values(sheet)
                       /\ \A i \in 1 .. n : run[i] = Again(sheet, run[i - 1])
                       /\ Denoted = run[n]
<1> DEFINE L == LiveCells(sheet)
           F == {c \in LiveCells(sheet) : HasFormula(sheet, c)}
           n == Cardinality(L)
           meaning(c, value) ==
             LET f == sheet.formula[c]
             IN Evaluate(f.kind, [i \in DOMAIN f.bindings |-> Resolved(sheet, f.bindings[i])],
                         LAMBDA p : value[CellAt(sheet, p)])
           Round(value, i) == Over([c \in F |-> meaning(c, value)], value)
           rounds == [i \in 1 .. n |-> i]
           base == Over([c \in F |-> CircError], sheet.stored)
           D == Values(sheet)
           it == CHOOSE f : f = [s \in SUBSET (1 .. n) |->
                    IF s = {} THEN base ELSE Round(f[s \ {Max(s)}], rounds[Max(s)])]
           g0 == [i \in 1 .. n |-> [d \in D |-> Round(d, rounds[i])]]
<1>1. n \in Nat /\ DOMAIN rounds = 1 .. n
  BY LiveCellsFinite
<1>2. Denoted = it[1 .. n]
  <2>1. FoldLeft(Round, base, rounds) = it[1 .. n]
    <3> HIDE DEF n, base, F
    <3> QED BY Zenon, <1>1 DEF FoldLeft, MapThenFoldSet
  <2>2. Denoted = FoldLeft(Round, base, rounds)
    BY Zenon DEF Denoted, Saturate
  <2> QED BY Zenon, <2>1, <2>2
<1>3. base = First(sheet) /\ base \in D
  BY AgainTyped DEF First, Formulae
<1>5. \A d, i : Round(d, i) = Again(sheet, d)
  BY Zenon DEF Again, Formulae, Meaning
<1>4. \A d \in D : \A i : Round(d, i) \in D
  <2> HIDE DEF Round
  <2> QED BY <1>5, AgainTyped
<1> HIDE DEF n, rounds, base, D, Round
<1>6. \A i \in 1 .. n : \A d \in D : g0[i][d] = Round(d, rounds[i]) /\ g0[i][d] \in D
  BY <1>4
<1> HIDE DEF g0
<1>7. PICK h : Solves(h, D, base, n, g0)
  <2>1. \A i \in 1 .. n : \A d \in D : g0[i][d] \in D
    BY <1>6
  <2>2. n \in Nat
    BY <1>1
  <2> HIDE DEF it
  <2> QED BY Zenon, <1>3, <2>1, <2>2, FoldSolved
<1>8. \A s \in SUBSET (1 .. n) :
        h[s] = IF s = {} THEN base ELSE Round(h[s \ {Max(s)}], rounds[Max(s)])
  BY <1>6, <1>7 DEF Solves
<1>9. h = [s \in SUBSET (1 .. n) |->
              IF s = {} THEN base ELSE Round(h[s \ {Max(s)}], rounds[Max(s)])]
  BY <1>7, <1>8 DEF Solves
<1>10. it = [s \in SUBSET (1 .. n) |->
              IF s = {} THEN base ELSE Round(it[s \ {Max(s)}], rounds[Max(s)])]
  BY <1>9
<1> HIDE DEF it
<1> DEFINE T == {s \in SUBSET (1 .. n) : it[s] \in D}
<1>11. {} \in T
  BY <1>3, <1>10
<1>12. ASSUME NEW s \in SUBSET (1 .. n), s # {}, s \ {Max(s)} \in T
       PROVE  s \in T
  <2>1. it[s] = Round(it[s \ {Max(s)}], rounds[Max(s)])
    BY <1>10, <1>12
  <2>2. it[s \ {Max(s)}] \in D
    BY <1>12
  <2> QED BY <1>4, <2>1, <2>2
<1>13. \A s \in SUBSET (1 .. n) : s \in T
  <2> HIDE DEF T
  <2> QED BY <1>1, <1>11, <1>12, ByLargest
<1> DEFINE run == [i \in 0 .. n |-> it[1 .. i]]
<1>14. run[0] = First(sheet)
  <2>1. 1 .. 0 = {} /\ 0 \in 0 .. n
    BY <1>1
  <2> QED BY <1>3, <1>10, <2>1
<1>15. ASSUME NEW i \in 1 .. n
       PROVE  run[i] = Again(sheet, run[i - 1])
  <2>1. 1 .. i \in SUBSET (1 .. n) /\ 1 .. i # {} /\ Max(1 .. i) = i /\ (1 .. i) \ {i} = 1 .. i - 1
    BY <1>1, LargestChosen
  <2>2. it[1 .. i] = Round(it[1 .. i - 1], rounds[i])
    BY <1>10, <2>1
  <2>3. i \in 0 .. n /\ i - 1 \in 0 .. n
    BY <1>1
  <2> QED BY <1>5, <2>2, <2>3
<1>16. \A i \in 0 .. n : run[i] \in D
  <2>1. \A i \in 0 .. n : 1 .. i \in SUBSET (1 .. n)
    BY <1>1
  <2> QED BY <1>13, <2>1
<1>17. run[n] = it[1 .. n]
  BY <1>1
<1> HIDE DEF run
<1> QED BY <1>1, <1>2, <1>14, <1>15, <1>16, <1>17 DEF D, n

\* There are no more groups than live cells.
LEMMA FewGroups ==
    ASSUME NEW s, SheetOK(s), SheetTyped(s), NEW e, Built(s, e), NEW P \in SUBSET DOMAIN e.groups
    PROVE  Cardinality(P) <= Cardinality(LiveCells(s))
<1> DEFINE L == LiveCells(s)
           f == [g \in P |-> CHOOSE c \in L : \E m \in e.groups[g].members : m.cell = c]
<1>1. ASSUME NEW g \in P
      PROVE  f[g] \in L /\ \E m \in e.groups[g].members : m.cell = f[g]
  <2>1. PICK m \in e.groups[g].members : m \in Members(s)
    BY DEF Built
  <2>2. m.cell \in L
    BY <2>1, MemberShape
  <2> QED BY <2>1, <2>2
<1>2. DOMAIN f = P /\ f = [g \in P |-> f[g]]
  OBVIOUS
<1> HIDE DEF f
<1>3. ASSUME NEW g \in P, NEW h \in P, f[g] = f[h]
      PROVE  g = h
  <2>1. PICK m \in e.groups[g].members : m.cell = f[g]
    BY <1>1
  <2>2. PICK n \in e.groups[h].members : n.cell = f[g]
    BY <1>1, <1>3
  <2>3. m \in Members(s) /\ n \in Members(s)
    BY DEF Built
  <2>4. m.pos = n.pos
    <3>1. m.pos = Position(s, m.cell) /\ n.pos = Position(s, n.cell)
      BY <2>3, MemberShape
    <3> QED BY <2>1, <2>2, <3>1
  <2>5. m = n
    BY <2>3, <2>4, MembersTyped
  <2> QED BY <2>5 DEF Built
<1>4. f \in [P -> L]
  BY <1>1, <1>2
<1>5. f \in Injection(P, L)
  BY <1>2, <1>3, <1>4 DEF Injection, IsInjective
<1>6. IsFiniteSet(L)
  BY LiveCellsFinite
<1> HIDE DEF L
<1> QED BY <1>5, <1>6, FS_Injection DEF L

\* What a placed group reads is placed before it.
LEMMA ReadsUpstream ==
    ASSUME NEW e, Linked(e), NEW g \in DOMAIN e.groups, ~ ReadsItself(e.groups[g]),
           NEW m \in e.groups[g].members, NEW v \in DOMAIN e.groups,
           NEW p \in Positions(e.groups[v]), ReadsCell(m.refs, p)
    PROVE  v \in Upstream(e, Everywhere(e), g)
<1>1. p \in Coord \X Coord /\ Covers(e.groups[v].writes, p)
  BY DEF Linked
<1>2. v # g
  BY <1>1 DEF Linked
<1>3. e.groups[v].writes \in Box
  BY DEF Linked, Everywhere
<1>4. g \in Stab(e.index, e.groups[v].writes)
  BY <1>1, <1>3 DEF Linked
<1>5. Wanted(Everywhere(e)) = DOMAIN e.groups
  BY DEF Linked
<1> QED BY <1>2, <1>4, <1>5 DEF Upstream

\* What a formula reads of values that agree with the results as far as it reads.
LEMMA AgreedReads ==
    ASSUME NEW s, SheetOK(s), SheetTyped(s), Plain(s), NEW e, Built(s, e),
           e.results \in [DOMAIN e.results -> Value], NEW V \in Values(s),
           NEW m \in Members(s), Consistent(s, e.results, m),
           \A o \in Members(s) : ReadsCell(m.refs, o.pos) => V[o.cell] = e.results[o.pos]
    PROVE  ValueBy(Given(s, V), m.kind, m.refs) = e.results[m.pos]
<1>1. Fits(s.row) /\ Fits(s.col)
  BY TypedFits
<1>2. m.cell \in LiveCells(s) /\ m.refs = Rebind(s, s.formula[m.cell]) /\ m.refs \in Seq(Box)
  BY MemberShape
<1>3. DOMAIN e.results = {o.pos : o \in Members(s)}
  BY DEF Built
<1>4. Unset \notin Value
  BY DEF Value, Number, Unset, RefError, CircError, ModAssumption
<1>5. ASSUME NEW p \in Coord \X Coord, ReadsCell(m.refs, p)
      PROVE  Given(s, V)[p] = Seen(s, e.results)[p]
  <2> DEFINE c == CellAt(s, p)
  <2>1. OnGrid(s, p)
    <3> DEFINE b == s.formula[m.cell].bindings
    <3>1. m.refs = [i \in DOMAIN b |-> Resolved(s, b[i])]
      BY <1>2, PlainRefs
    <3>2. PICK i \in DOMAIN b : Covers(Resolved(s, b[i]), p)
      <4> HIDE DEF b
      <4> QED BY <1>5, <3>1 DEF ReadsCell
    <3> QED BY <1>1, <3>2, ResolvedOnGrid
  <2>2. c \in LiveCells(s) /\ Position(s, c) = p
    BY <1>1, <2>1, CellThere
  <2>3. Given(s, V)[p] = V[c] /\ Seen(s, e.results)[p] = GridRead(s, e.results, p)
    BY <2>1 DEF Given, Seen
  <2>4. CASE p \in DOMAIN e.results
    <3>1. PICK o \in Members(s) : o.pos = p
      BY <1>3, <2>4
    <3>2. o.cell = c
      <4>1. o.cell \in LiveCells(s) /\ Position(s, o.cell) = Position(s, c)
        BY <2>2, <3>1, MemberShape
      <4> HIDE DEF c
      <4> QED BY <1>1, <2>2, <4>1, CellThere
    <3>3. V[c] = e.results[p]
      BY <1>5, <3>1, <3>2
    <3>4. e.results[p] # Unset
      BY <1>4, <2>4
    <3> QED BY <2>3, <2>4, <3>3, <3>4 DEF GridRead
  <2>5. CASE p \notin DOMAIN e.results
    <3>1. ~ HasFormula(s, c)
      BY <1>3, <2>2, <2>5, MemberThere
    <3>2. V[c] = s.stored[c]
      <4>1. c \in Cells(s)
        BY <2>2, LiveInIds DEF LiveCells, Cells
      <4> QED BY <3>1, <4>1 DEF Values, Formulae
    <3> QED BY <2>1, <2>3, <2>5, <3>2 DEF GridRead
  <2> QED BY <2>4, <2>5
<1>6. ValueBy(Given(s, V), m.kind, m.refs) = ValueBy(Seen(s, e.results), m.kind, m.refs)
  BY <1>2, <1>5, ValueBySame
<1> QED BY <1>2, <1>6, ValueOfSeen DEF Consistent

\* Where the results agree with themselves, they are what re-evaluating ends with.
LEMMA DenotedReached ==
    ASSUME SheetOK(sheet), SheetTyped(sheet), Plain(sheet), NEW e, Built(sheet, e),
           e.results \in [DOMAIN e.results -> Value],
           \A g \in Ranked(e) : \A m \in e.groups[g].members : Consistent(sheet, e.results, m)
    PROVE  /\ \A g \in Ranked(e) : \A m \in e.groups[g].members :
                Denoted[m.cell] = e.results[m.pos]
           /\ Denoted \in Values(sheet)
<1> DEFINE all == Everywhere(e)
           n == Cardinality(LiveCells(sheet))
           N == Cardinality(Placeable(e, all))
<1>1. PICK run : /\ n \in Nat /\ run[0] = First(sheet)
                 /\ \A i \in 0 .. n : run[i] \in Values(sheet)
                 /\ \A i \in 1 .. n : run[i] = Again(sheet, run[i - 1])
                 /\ Denoted = run[n]
  BY DenotedRuns
<1>2. EngineOK(e) /\ Linked(e)
  BY BuiltLinked DEF Built
<1>3. all \in [DOMAIN e.groups -> Box]
  BY <1>2 DEF Linked
<1> HIDE DEF all
<1>4. PICK Q : Ordered(e, all, Q)
  BY <1>2, <1>3, LevelsOrdered
<1>5. /\ N \in Nat /\ \A k \in 0 .. N : Q[k] \subseteq Placeable(e, all)
      /\ \A k \in 1 .. N : \A g \in Q[k] : Upstream(e, all, g) \subseteq Q[k - 1]
      /\ \A k \in 1 .. N : Q[k - 1] \subseteq Q[k]
  BY <1>2, <1>3, <1>4, OrderedClosed
<1>6. Q[0] = {} /\ Ranked(e) = Q[N]
  BY <1>4 DEF Ordered, Ranked, all
<1>7. N <= n
  <2>1. Placeable(e, all) \in SUBSET DOMAIN e.groups
    BY <1>3 DEF Placeable, Wanted
  <2> QED BY <2>1, FewGroups
<1>8. \A k \in 0 .. N : Q[k] \subseteq Ranked(e)
  <2> DEFINE T == {k \in 0 .. N : Q[N - k] \subseteq Q[N]}
  <2> HIDE DEF N
  <2>1. 0 \in T
    BY <1>5
  <2>2. \A k \in 0 .. N - 1 : k \in T => k + 1 \in T
    <3> SUFFICES ASSUME NEW k \in 0 .. N - 1, Q[N - k] \subseteq Q[N]
                 PROVE  k + 1 \in 0 .. N /\ Q[N - (k + 1)] \subseteq Q[N]
      OBVIOUS
    <3>1. N - k \in 1 .. N /\ N - k - 1 = N - (k + 1) /\ k + 1 \in 0 .. N
      BY <1>5
    <3>2. Q[N - k - 1] \subseteq Q[N - k]
      BY <1>5, <3>1
    <3> QED BY <3>1, <3>2
  <2>3. 0 .. N \subseteq T
    <3> HIDE DEF T
    <3> QED BY <1>5, <2>1, <2>2, CountsUp
  <2>4. ASSUME NEW k \in 0 .. N
        PROVE  Q[k] \subseteq Q[N]
    <3>1. N - k \in 0 .. N /\ N - (N - k) = k
      BY <1>5
    <3>2. Q[N - (N - k)] \subseteq Q[N]
      BY <2>3, <3>1
    <3> QED BY <3>1, <3>2
  <2> QED BY <1>6, <2>4
<1> DEFINE Good(j) == \A k \in 0 .. N : k <= j => \A g \in Q[k] : \A m \in e.groups[g].members :
                            run[j][m.cell] = e.results[m.pos]
           T == {j \in 0 .. n : Good(j)}
<1> HIDE DEF N, n
<1>9. 0 \in T
  <2>1. \A k \in 0 .. N : k <= 0 => k = 0
    BY <1>5
  <2>2. 0 \in 0 .. n
    BY <1>1
  <2>3. Good(0)
    BY <1>6, <2>1
  <2> HIDE DEF Good
  <2> QED BY <2>2, <2>3
<1>10. ASSUME NEW j \in 0 .. n - 1, j \in T
       PROVE  j + 1 \in T
  <2>1. j \in 0 .. n /\ j + 1 \in 1 .. n /\ j + 1 - 1 = j /\ j + 1 \in 0 .. n
    BY <1>1
  <2>2. Good(j)
    BY <1>10
  <2>3. run[j] \in Values(sheet) /\ run[j + 1] = Again(sheet, run[j])
    <3>1. run[j + 1] = Again(sheet, run[j + 1 - 1])
      BY <1>1, <2>1
    <3> QED BY <1>1, <2>1, <3>1
  <2>4. ASSUME NEW k \in 0 .. N, k <= j + 1, NEW g \in Q[k], NEW m \in e.groups[g].members
        PROVE  run[j + 1][m.cell] = e.results[m.pos]
    <3>1. k # 0
      BY <1>6
    <3>2. k \in 1 .. N /\ k - 1 \in 0 .. N /\ k - 1 <= j
      BY <1>5, <2>1, <2>4, <3>1
    <3>3. g \in DOMAIN e.groups /\ ~ ReadsItself(e.groups[g])
      BY <1>3, <1>5 DEF Placeable, Wanted
    <3>4. m \in Members(sheet) /\ Consistent(sheet, e.results, m)
      BY <1>8, <3>3 DEF Built
    <3>5. ASSUME NEW o \in Members(sheet), ReadsCell(m.refs, o.pos)
          PROVE  run[j][o.cell] = e.results[o.pos]
      <4>1. PICK v \in DOMAIN e.groups : o \in e.groups[v].members
        BY DEF Built
      <4>2. o.pos \in Positions(e.groups[v])
        BY <4>1 DEF Positions
      <4>3. v \in Upstream(e, all, g)
        BY <1>2, <3>3, <3>5, <4>2, ReadsUpstream DEF all
      <4>4. v \in Q[k - 1]
        BY <1>5, <3>2, <4>3
      <4> QED BY <2>2, <3>2, <4>1, <4>4
    <3>6. ValueBy(Given(sheet, run[j]), m.kind, m.refs) = e.results[m.pos]
      BY <2>3, <3>4, <3>5, AgreedReads
    <3>7. Again(sheet, run[j])[m.cell] = ValueBy(Given(sheet, run[j]), m.kind, m.refs)
      BY <2>3, <3>4, AgainTyped
    <3> QED BY <2>3, <3>6, <3>7
  <2>5. Good(j + 1)
    BY <2>4
  <2> HIDE DEF Good
  <2> QED BY <2>1, <2>5
<1>11. 0 .. n \subseteq T
  <2> HIDE DEF T
  <2> QED BY <1>1, <1>9, <1>10, CountsUp
<1>12. Good(n) /\ N \in 0 .. N /\ n \in 0 .. n
  BY <1>1, <1>5, <1>11
<1>13. N <= n
  BY <1>7 DEF N, n
<1> QED BY <1>1, <1>6, <1>12, <1>13

-----------------------------------------------------------------------------
(* An engine that is up to date but for some cells.                        *)

\* What is placed is a matter of the groups and their index.
LEMMA PlacedSame ==
    ASSUME NEW e, EngineOK(e), NEW h, EngineOK(h), h.groups = e.groups, h.index = e.index,
           Everywhere(e) \in [DOMAIN e.groups -> Box]
    PROVE  Ranked(h) = Ranked(e)
<1> DEFINE all == Everywhere(e)
<1>1. Everywhere(h) = all
  BY DEF Everywhere
<1> HIDE DEF all
<1>2. all \in [DOMAIN e.groups -> Box] /\ all \in [DOMAIN h.groups -> Box]
  BY DEF all
<1>3. PICK Q : Ordered(e, all, Q)
  BY <1>2, LevelsOrdered
<1>4. PICK R : Ordered(h, all, R)
  BY <1>2, LevelsOrdered
<1>5. Placeable(h, all) = Placeable(e, all)
  BY DEF Placeable
<1>6. \A P : NextLevel(h, all, P) = NextLevel(e, all, P)
  <2>1. \A g : Upstream(h, all, g) = Upstream(e, all, g)
    BY DEF Upstream
  <2> QED BY <1>5, <2>1 DEF NextLevel
<1> DEFINE n == Cardinality(Placeable(e, all))
           T == {k \in 0 .. n : Q[k] = R[k]}
<1>7. /\ n \in Nat /\ Q[0] = {} /\ Placed(Levels(e, all)) = Q[n]
      /\ \A k \in 1 .. n : Q[k] = Q[k - 1] \union NextLevel(e, all, Q[k - 1])
  BY <1>3 DEF Ordered
<1>8. /\ R[0] = {} /\ Placed(Levels(h, all)) = R[n]
      /\ \A k \in 1 .. n : R[k] = R[k - 1] \union NextLevel(e, all, R[k - 1])
  BY <1>4, <1>5, <1>6 DEF Ordered
<1> HIDE DEF n
<1>9. 0 \in T
  BY <1>7, <1>8
<1>10. ASSUME NEW k \in 0 .. n - 1, k \in T
       PROVE  k + 1 \in T
  <2>1. k + 1 \in 1 .. n /\ k + 1 - 1 = k /\ k + 1 \in 0 .. n
    BY <1>7
  <2>2. Q[k + 1] = Q[k] \union NextLevel(e, all, Q[k])
        /\ R[k + 1] = R[k] \union NextLevel(e, all, R[k])
    BY <1>7, <1>8, <2>1
  <2>3. Q[k] = R[k]
    BY <1>10
  <2> QED BY <2>1, <2>2, <2>3
<1>11. 0 .. n \subseteq T
  <2> HIDE DEF T
  <2> QED BY <1>7, <1>9, <1>10, CountsUp
<1>12. Q[n] = R[n]
  BY <1>7, <1>11
<1> QED BY <1>1, <1>7, <1>8, <1>12 DEF Ranked, all

\* A pass leaves the groups, the index and the slots as they are.
LEMMA PassKeeps ==
    ASSUME NEW s, SheetOK(s), SheetTyped(s), NEW e, EngineOK(e),
           Results(e.results, DOMAIN e.results), NEW seeds \in [DOMAIN e.groups -> Box], NEW cutoff
    PROVE  LET after == Pass(s, e, seeds, cutoff)
           IN /\ after.groups = e.groups /\ DOMAIN after.results = DOMAIN e.results
              /\ Built(s, e) => Built(s, after) /\ Ranked(after) = Ranked(e)
<1> DEFINE after == Pass(s, e, seeds, cutoff)
<1>1. /\ after = [groups |-> e.groups, index |-> e.index, results |-> after.results]
      /\ Results(after.results, DOMAIN e.results)
  BY TypedFits, PassTyped
<1> HIDE DEF after
<1>2. after.groups = e.groups /\ after.index = e.index /\ DOMAIN after.results = DOMAIN e.results
  BY <1>1 DEF Results
<1>3. EngineOK(after)
  BY <1>1, <1>2 DEF EngineOK
<1>4. ASSUME Built(s, e)
      PROVE  Built(s, after) /\ Ranked(after) = Ranked(e)
  <2>1. e.index = Index([g \in DOMAIN e.groups |-> e.groups[g].reads])
    BY <1>4 DEF Built
  <2>2. after.index = Index([g \in DOMAIN after.groups |-> after.groups[g].reads])
    BY Zenon, <1>2, <2>1
  <2>3. /\ \A g \in DOMAIN after.groups :
            /\ after.groups[g] = Group(after.groups[g].members)
            /\ after.groups[g].members \subseteq Members(s) /\ after.groups[g].members # {}
            /\ ReadsItself(after.groups[g]) => \A m, n \in after.groups[g].members : m = n
        /\ \A m \in Members(s) : \E g \in DOMAIN after.groups : m \in after.groups[g].members
        /\ \A g, h \in DOMAIN after.groups :
            after.groups[g].members \intersect after.groups[h].members # {} => g = h
        /\ DOMAIN after.results = {m.pos : m \in Members(s)}
    <3> USE <1>2
    <3>1. DOMAIN e.results = {m.pos : m \in Members(s)}
      BY <1>4 DEF Built
    <3> QED BY <1>4, <3>1 DEF Built
  <2>4. Built(s, after)
    BY Zenon, <1>3, <2>2, <2>3 DEF Built
  <2>5. Everywhere(e) \in [DOMAIN e.groups -> Box]
    BY <1>4, BuiltLinked DEF Linked
  <2> QED BY <1>2, <1>3, <2>4, <2>5, PlacedSame
<1> QED BY <1>2, <1>4 DEF after

\* The cells of a batch the engine has not observed, and what holds of the
\* rest: each placed member has the value its formula makes of the results,
\* and each cell that can reach itself shows it.
UpToDate(s, e, cells) ==
    /\ Built(s, e)
    /\ \A g \in Ranked(e) : \A m \in e.groups[g].members :
            (\A c \in cells \intersect LiveCells(s) : ~ ReadsCell(m.refs, Position(s, c)))
                => Consistent(s, e.results, m)
    /\ \A m \in Members(s) : Loops(s, m.cell) => e.results[m.pos] = CircError

\* A pass brings the engine up to date when it is seeded with what is not.
LEMMA PassUpToDate ==
    ASSUME NEW s, SheetOK(s), SheetTyped(s), Plain(s), NEW e, Built(s, e),
           Results(e.results, DOMAIN e.results), NEW seeds \in [DOMAIN e.groups -> Box], NEW cutoff,
           \A g \in Ranked(e) : \A m \in e.groups[g].members :
                Covers(seeds[g], m.pos) \/ Consistent(s, e.results, m),
           \A g \in DOMAIN e.groups : \A m \in e.groups[g].members : Loops(s, m.cell) =>
                Covers(seeds[g], m.pos) \/ e.results[m.pos] = CircError
    PROVE  UpToDate(s, Pass(s, e, seeds, cutoff), {})
<1> DEFINE after == Pass(s, e, seeds, cutoff)
<1>1. Ready(s, e, seeds, Marked(e, seeds))
  BY PassReady
<1>2. after.groups = e.groups /\ Built(s, after) /\ Ranked(after) = Ranked(e)
  <2>1. EngineOK(e)
    BY DEF Built
  <2> QED BY <2>1, PassKeeps
<1>3. \A g \in Ranked(e) : \A m \in e.groups[g].members : Consistent(s, after.results, m)
  BY <1>1, PassSound
<1>4. ASSUME NEW m \in Members(s), Loops(s, m.cell)
      PROVE  after.results[m.pos] = CircError
  <2>1. PICK g \in DOMAIN e.groups : m \in e.groups[g].members
    BY DEF Built
  <2> QED BY <1>1, <1>4, <2>1, PassCirc
<1> HIDE DEF after
<1>5. UpToDate(s, after, {})
  BY <1>2, <1>3, <1>4 DEF UpToDate
<1> QED BY <1>5 DEF after

\* A full recalculation leaves nothing to bring up to date.
LEMMA RecalcAllUpToDate ==
    ASSUME NEW s, SheetOK(s), SheetTyped(s), Plain(s)
    PROVE  UpToDate(s, RecalcAll(s, Regroup(s)), {})
<1> DEFINE e == Regroup(s)
           seeds == Everywhere(e)
<1>1. Built(s, e) /\ Results(e.results, DOMAIN e.results)
  BY RegroupBuilt, RegroupTyped
<1>2. Linked(e)
  BY <1>1, BuiltLinked
<1>3. RecalcAll(s, e) = Pass(s, e, seeds, FALSE)
  BY Zenon DEF RecalcAll, Everywhere
<1> HIDE DEF e
<1>4. seeds \in [DOMAIN e.groups -> Box] /\ \A g \in DOMAIN e.groups : seeds[g] = e.groups[g].writes
  <2>1. seeds \in [DOMAIN e.groups -> Box]
    BY <1>2 DEF Linked
  <2> QED BY <2>1 DEF Everywhere
<1> HIDE DEF seeds
<1>5. \A g \in DOMAIN e.groups : \A m \in e.groups[g].members : Covers(seeds[g], m.pos)
  <2>1. \A g \in DOMAIN e.groups : \A p \in Positions(e.groups[g]) : Covers(e.groups[g].writes, p)
    BY <1>2 DEF Linked
  <2>2. \A g \in DOMAIN e.groups : \A m \in e.groups[g].members : m.pos \in Positions(e.groups[g])
    BY DEF Positions
  <2> QED BY <1>4, <2>1, <2>2
<1>6. Ranked(e) \subseteq DOMAIN e.groups
  <2>1. EngineOK(e) /\ Everywhere(e) \in [DOMAIN e.groups -> Box]
    BY <1>1, <1>2 DEF Built, Linked
  <2>2. Ranked(e) \subseteq Placeable(e, Everywhere(e))
    BY <2>1, PlacedRests DEF Ranked
  <2> QED BY <2>1, <2>2 DEF Placeable, Wanted
<1>7. UpToDate(s, Pass(s, e, seeds, FALSE), {})
  BY <1>1, <1>4, <1>5, <1>6, PassUpToDate
<1> QED BY <1>3, <1>7 DEF e

\* The seeds cover the members that read a cell of the batch.
LEMMA SeedsCover ==
    ASSUME NEW s, SheetOK(s), SheetTyped(s), NEW e, EngineOK(e), NEW cells
    PROVE  /\ Seeds(s, e, cells) \in [DOMAIN e.groups -> Box]
           /\ Linked(e) =>
                \A g \in DOMAIN e.groups : \A m \in e.groups[g].members :
                    \A c \in cells \intersect LiveCells(s) :
                        ReadsCell(m.refs, Position(s, c)) => Covers(Seeds(s, e, cells)[g], m.pos)
<1> DEFINE G == DOMAIN e.groups
           live == cells \intersect LiveCells(s)
           point == [c \in live |-> Point(Position(s, c))]
           points == {point[c] : c \in live}
           points2 == {Point(Position(s, c)) : c \in cells \intersect LiveCells(s)}
           From(g) == {x \in points : g \in Stab(e.index, x)}
           Of(g) == {AffectedMembers(e.groups[g], p) : p \in From(g)}
           seeds == [g \in G |-> JoinAll(Of(g))]
<1>1. Seeds(s, e, cells) = seeds
  <2>1. points = points2
    OBVIOUS
  <2> DEFINE Seeded(ps) == [g \in G |->
                JoinAll({AffectedMembers(e.groups[g], p) : p \in {x \in ps : g \in Stab(e.index, x)}})]
  <2>2. Seeds(s, e, cells) = Seeded(points2)
    BY Zenon DEF Seeds
  <2> HIDE DEF points
  <2>3. Seeded(points) = seeds
    OBVIOUS
  <2> HIDE DEF Seeded, points2, seeds
  <2> QED BY <2>1, <2>2, <2>3
<1>2. IsFiniteSet(points)
  <2>1. IsFiniteSet(LiveCells(s))
    BY LiveCellsFinite
  <2>2. IsFiniteSet(live)
    BY <2>1, FS_Subset
  <2> HIDE DEF live, point
  <2> QED BY <2>2, ImageFinite
<1>3. ASSUME NEW g \in G
      PROVE  Of(g) \subseteq Box /\ IsFiniteSet(Of(g))
  <2> DEFINE part == From(g)
             f == [p \in part |-> AffectedMembers(e.groups[g], p)]
             T == {f[p] : p \in part}
  <2>1. IsFiniteSet(part)
    <3>1. part \in SUBSET points
      OBVIOUS
    <3> HIDE DEF part, points
    <3> QED BY <1>2, <3>1, FS_Subset
  <2>2. MembersOK(e.groups[g].members)
    BY DEF EngineOK, GroupsOK
  <2>3. Of(g) = {AffectedMembers(e.groups[g], p) : p \in part}
    OBVIOUS
  <2> HIDE DEF part, Of
  <2>4. T \subseteq Box
    BY <2>2, AffectedTyped
  <2>5. Of(g) = T
    BY <2>3
  <2>6. IsFiniteSet(T)
    <3> HIDE DEF f
    <3> QED BY <2>1, ImageFinite
  <2> HIDE DEF T
  <2> QED BY <2>4, <2>5, <2>6
<1>4. ASSUME NEW g \in G
      PROVE  JoinAll(Of(g)) \in Box /\ \A r \in Of(g) : Inside(r, JoinAll(Of(g)))
  <2> HIDE DEF Of
  <2> QED BY <1>3, JoinAllHolds
<1>5. seeds \in [G -> Box]
  <2> HIDE DEF Of
  <2> QED BY <1>4
<1>6. ASSUME Linked(e), NEW g \in G, NEW m \in e.groups[g].members, NEW c \in live,
             ReadsCell(m.refs, Position(s, c))
      PROVE  Covers(seeds[g], m.pos)
  <2> DEFINE p == Position(s, c)
             q == Point(p)
             r == AffectedMembers(e.groups[g], q)
  <2>1. p \in Coord \X Coord
    BY TypedFits, CellThere
  <2> HIDE DEF p
  <2>2. q \in Box /\ Covers(q, p)
    <3>1. q \in Proper
      BY <2>1, PointInside
    <3>2. q \in Box
      BY <3>1 DEF Box
    <3>3. Inside(q, q)
      BY <3>2, InsideItself
    <3> QED BY <2>1, <3>2, <3>3, PointInside
  <2>3. g \in Stab(e.index, q) /\ Covers(r, m.pos)
    BY <1>6, <2>1, <2>2 DEF Linked, p
  <2>4. q \in points
    BY DEF p
  <2>5. r \in Of(g)
    <3> HIDE DEF q, points
    <3> QED BY <2>3, <2>4
  <2> HIDE DEF r, Of
  <2>6. r \in Box /\ JoinAll(Of(g)) \in Box /\ Inside(r, JoinAll(Of(g)))
    BY <1>3, <1>4, <2>5
  <2>7. m.pos \in Coord \X Coord
    BY <1>6 DEF Linked, Positions
  <2>8. Covers(JoinAll(Of(g)), m.pos)
    BY <2>3, <2>6, <2>7, CoversInside
  <2> QED BY <2>8
<1> HIDE DEF seeds
<1> QED BY <1>1, <1>5, <1>6

\* A recalculation after the pending cells leaves nothing to bring up to date.
LEMMA RecalcAfterUpToDate ==
    ASSUME NEW s, SheetOK(s), SheetTyped(s), Plain(s), NEW e, NEW cells, UpToDate(s, e, cells),
           Results(e.results, DOMAIN e.results)
    PROVE  UpToDate(s, RecalcAfter(s, e, cells), {})
<1> DEFINE seeds == Seeds(s, e, cells)
<1>1. Built(s, e) /\ EngineOK(e) /\ Linked(e)
  BY BuiltLinked DEF UpToDate, Built
<1>2. RecalcAfter(s, e, cells) = Pass(s, e, seeds, TRUE)
  BY DEF RecalcAfter
<1> HIDE DEF seeds
<1>3. /\ seeds \in [DOMAIN e.groups -> Box]
      /\ \A g \in DOMAIN e.groups : \A m \in e.groups[g].members :
            \A c \in cells \intersect LiveCells(s) :
                ReadsCell(m.refs, Position(s, c)) => Covers(seeds[g], m.pos)
  BY <1>1, SeedsCover DEF seeds
<1>4. Ranked(e) \subseteq DOMAIN e.groups
  <2>1. Everywhere(e) \in [DOMAIN e.groups -> Box]
    BY <1>1 DEF Linked
  <2>2. Ranked(e) \subseteq Placeable(e, Everywhere(e))
    BY <1>1, <2>1, PlacedRests DEF Ranked
  <2> QED BY <2>1, <2>2 DEF Placeable, Wanted
<1>5. \A g \in Ranked(e) : \A m \in e.groups[g].members :
        Covers(seeds[g], m.pos) \/ Consistent(s, e.results, m)
  BY <1>3, <1>4 DEF UpToDate
<1>6. \A g \in DOMAIN e.groups : \A m \in e.groups[g].members : Loops(s, m.cell) =>
        Covers(seeds[g], m.pos) \/ e.results[m.pos] = CircError
  BY <1>1 DEF UpToDate, Built
<1>7. UpToDate(s, Pass(s, e, seeds, TRUE), {})
  BY <1>1, <1>3, <1>5, <1>6, PassUpToDate
<1> QED BY <1>2, <1>7

\* Where its axes and formulas are the same, a sheet's formulas are.
LEMMA SameMembers ==
    ASSUME NEW s, NEW t, t.row = s.row, t.col = s.col,
           \A c \in LiveCells(s) : t.formula[c] = s.formula[c]
    PROVE  /\ Members(t) = Members(s) /\ LiveCells(t) = LiveCells(s) /\ Cells(t) = Cells(s)
           /\ \A c : Position(t, c) = Position(s, c)
           /\ \A c \in LiveCells(s) : /\ Precedents(t, c) = Precedents(s, c)
                                      /\ Loops(t, c) <=> Loops(s, c)
           /\ \A p : CellAt(t, p) = CellAt(s, p) /\ (OnGrid(t, p) <=> OnGrid(s, p))
<1>1. LiveCells(t) = LiveCells(s) /\ Cells(t) = Cells(s)
  BY DEF LiveCells, Cells
<1>2. \A c : Position(t, c) = Position(s, c)
  BY DEF Position
<1>3. \A p : CellAt(t, p) = CellAt(s, p) /\ (OnGrid(t, p) <=> OnGrid(s, p))
  BY DEF CellAt, OnGrid
<1>4. ASSUME NEW b
      PROVE  Resolved(t, b) = Resolved(s, b)
  <2> DEFINE rows == Resolve(s.row, b.rows[1], b.rows[2])
             cols == Resolve(s.col, b.cols[1], b.cols[2])
             pos(axis, S) == {PositionOf(axis, axis[i].id) : i \in S}
  <2>1. Resolved(s, b) =
            IF rows = {} \/ cols = {} THEN NoRect
            ELSE [r0 |-> Min(pos(s.row, rows)), r1 |-> Max(pos(s.row, rows)),
                  c0 |-> Min(pos(s.col, cols)), c1 |-> Max(pos(s.col, cols))]
    BY Zenon DEF Resolved
  <2>2. Resolved(t, b) =
            IF Resolve(t.row, b.rows[1], b.rows[2]) = {} \/ Resolve(t.col, b.cols[1], b.cols[2]) = {}
            THEN NoRect
            ELSE [r0 |-> Min(pos(t.row, Resolve(t.row, b.rows[1], b.rows[2]))),
                  r1 |-> Max(pos(t.row, Resolve(t.row, b.rows[1], b.rows[2]))),
                  c0 |-> Min(pos(t.col, Resolve(t.col, b.cols[1], b.cols[2]))),
                  c1 |-> Max(pos(t.col, Resolve(t.col, b.cols[1], b.cols[2])))]
    BY Zenon DEF Resolved
  <2> HIDE DEF pos
  <2> QED BY <2>1, <2>2
<1>5. ASSUME NEW f
      PROVE  Rebind(t, f) = Rebind(s, f)
  <2> DEFINE Ref(r, i) ==
                LET taken == Cardinality({j \in 1 .. i - 1 : ~ f.items[j].paren})
                IN IF f.items[i].paren THEN f.items[i].text
                   ELSE Resolved(r, f.bindings[taken + 1])
  <2>1. \A i : Ref(t, i) = Ref(s, i)
    BY <1>4
  <2>2. Rebind(t, f) = [i \in DOMAIN f.items |-> Ref(t, i)]
        /\ Rebind(s, f) = [i \in DOMAIN f.items |-> Ref(s, i)]
    BY Zenon DEF Rebind
  <2> HIDE DEF Ref
  <2> QED BY <2>1, <2>2
<1>6. Members(t) = Members(s)
  <2> DEFINE live(r) == {x \in LiveCells(r) : HasFormula(r, x)}
             Of(f, p, c, refs) ==
                [cell |-> c, pos |-> p, kind |-> f.kind, refs |-> refs,
                 bound |-> JoinAll({refs[i] : i \in DOMAIN refs}),
                 pattern |-> Pattern(f.kind, f.items, refs, p)]
  <2>1. Members(s) = {Of(s.formula[c], Position(s, c), c, Rebind(s, s.formula[c])) : c \in live(s)}
        /\ Members(t) = {Of(t.formula[c], Position(t, c), c, Rebind(t, t.formula[c])) : c \in live(t)}
    BY Zenon DEF Members
  <2>2. live(t) = live(s)
    BY <1>1 DEF HasFormula
  <2>3. \A c \in live(s) : t.formula[c] = s.formula[c]
    OBVIOUS
  <2> HIDE DEF Of, live
  <2>4. \A c \in live(s) : Of(t.formula[c], Position(t, c), c, Rebind(t, t.formula[c]))
                            = Of(s.formula[c], Position(s, c), c, Rebind(s, s.formula[c]))
    BY <1>2, <1>5, <2>3
  <2> QED BY <2>1, <2>2, <2>4
<1>7. ASSUME NEW c \in LiveCells(s)
      PROVE  Precedents(t, c) = Precedents(s, c)
  <2> DEFINE f == s.formula[c]
  <2>1. \A x : x \in Precedents(s, c) <=>
            x \in LiveCells(s) /\ \E i \in DOMAIN f.bindings :
                Covers(Resolved(s, f.bindings[i]), Position(s, x))
    BY DEF Precedents
  <2>2. \A x : x \in Precedents(t, c) <=>
            x \in LiveCells(t) /\ \E i \in DOMAIN f.bindings :
                Covers(Resolved(t, f.bindings[i]), Position(t, x))
    BY DEF Precedents
  <2>3. \A x : x \in Precedents(t, c) <=> x \in Precedents(s, c)
    BY <1>1, <1>2, <1>4, <2>1, <2>2
  <2> QED BY <2>3 DEF Precedents
<1>8. \A c \in LiveCells(s) : Loops(t, c) <=> Loops(s, c)
  BY <1>1, <1>7 DEF Loops, Grounds
<1> QED BY <1>1, <1>2, <1>3, <1>6, <1>7, <1>8

\* A value in a cell without a formula leaves what does not read it up to date.
LEMMA ValueUpToDate ==
    ASSUME NEW s, SheetOK(s), SheetTyped(s), NEW c \in LiveCells(s),
           NEW t, t.row = s.row, t.col = s.col,
           \A x \in LiveCells(s) : t.formula[x] = s.formula[x],
           \A x \in Cells(s) : x # c => t.stored[x] = s.stored[x],
           NEW e, NEW cells, UpToDate(s, e, cells)
    PROVE  UpToDate(t, e, cells \union {c})
<1>1. /\ Members(t) = Members(s) /\ LiveCells(t) = LiveCells(s)
      /\ \A x : Position(t, x) = Position(s, x)
      /\ \A x \in LiveCells(s) : Loops(t, x) <=> Loops(s, x)
      /\ \A p : CellAt(t, p) = CellAt(s, p) /\ (OnGrid(t, p) <=> OnGrid(s, p))
  BY SameMembers
<1>2. Fits(s.row) /\ Fits(s.col)
  BY TypedFits
<1>3. Built(s, e) /\ EngineOK(e)
  BY DEF UpToDate, Built
<1>4. Built(t, e)
  BY <1>1, <1>3 DEF Built
<1>5. Ranked(e) \subseteq DOMAIN e.groups
  <2>1. Everywhere(e) \in [DOMAIN e.groups -> Box]
    BY <1>3, BuiltLinked DEF Linked
  <2>2. Ranked(e) \subseteq Placeable(e, Everywhere(e))
    BY <1>3, <2>1, PlacedRests DEF Ranked
  <2> QED BY <2>1, <2>2 DEF Placeable, Wanted
<1>6. ASSUME NEW g \in Ranked(e), NEW m \in e.groups[g].members,
             \A x \in (cells \union {c}) \intersect LiveCells(t) : ~ ReadsCell(m.refs, Position(t, x))
      PROVE  Consistent(t, e.results, m)
  <2>1. Consistent(s, e.results, m)
    BY <1>1, <1>6 DEF UpToDate
  <2>2. ~ ReadsCell(m.refs, Position(s, c))
    BY <1>1, <1>6
  <2>3. m.refs \in Seq(Box)
    BY <1>3, <1>5, MemberShape DEF Built
  <2>4. ASSUME NEW p \in Coord \X Coord, ReadsCell(m.refs, p)
        PROVE  Seen(t, e.results)[p] = Seen(s, e.results)[p]
    <3>1. OnGrid(s, p) => CellAt(s, p) \in Cells(s) /\ CellAt(s, p) # c
      <4>1. OnGrid(s, p) => CellAt(s, p) \in LiveCells(s) /\ Position(s, CellAt(s, p)) = p
        BY <1>2, CellThere
      <4>2. LiveCells(s) \subseteq Cells(s)
        BY LiveInIds DEF LiveCells, Cells
      <4> QED BY <2>2, <2>4, <4>1, <4>2
    <3>2. GridRead(t, e.results, p) = GridRead(s, e.results, p)
      BY <1>1, <3>1 DEF GridRead
    <3> QED BY <3>2 DEF Seen
  <2>5. ValueBy(Seen(t, e.results), m.kind, m.refs) = ValueBy(Seen(s, e.results), m.kind, m.refs)
    BY <2>3, <2>4, ValueBySame
  <2>6. ValueOf(t, e.results, m.kind, m.refs) = ValueOf(s, e.results, m.kind, m.refs)
    BY <2>3, <2>5, ValueOfSeen
  <2> QED BY <2>1, <2>6 DEF Consistent
<1>7. \A m \in Members(t) : Loops(t, m.cell) => e.results[m.pos] = CircError
  <2>1. \A m \in Members(s) : m.cell \in LiveCells(s)
    BY MemberShape
  <2> QED BY <1>1, <2>1 DEF UpToDate
<1> QED BY <1>4, <1>6, <1>7 DEF UpToDate

\* No reference of a document or of a text that is typed is in parentheses.
PlainTexts ==
    /\ \A doc \in Documents : Plain(doc.sheet)
    /\ \A f \in Formulas : \A i \in DOMAIN f.items : ~ f.items[i].paren

\* What the plainness of the texts gives of one stored formula.
PlainFormula(f) ==
    /\ DOMAIN f.bindings = DOMAIN f.items
    /\ \A i \in DOMAIN f.items : ~ f.items[i].paren

\* What is typed from plain texts is a plain formula.
LEMMA PlainWritten ==
    /\ PlainFormula(NoFormula)
    /\ PlainTexts => \A f \in Formulas : \A c : PlainFormula(Formula(sheet, f, c))
<1>1. PlainFormula(NoFormula)
  BY DEF PlainFormula, NoFormula
<1>2. ASSUME PlainTexts, NEW f \in Formulas, NEW c
      PROVE  PlainFormula(Formula(sheet, f, c))
  <2> DEFINE items == TypedAt(f, Position(sheet, c))
  <2>1. DOMAIN items = DOMAIN f.items /\ \A i \in DOMAIN f.items : items[i].paren = f.items[i].paren
    BY DEF TypedAt
  <2> HIDE DEF items
  <2>2. DOMAIN Bind(sheet, items) = DOMAIN items
    BY DEF Bind
  <2>3. Formula(sheet, f, c) = [kind |-> f.kind, items |-> items, bindings |-> Bind(sheet, items)]
    BY DEF Formula, items
  <2> QED BY <1>2, <2>1, <2>2, <2>3 DEF PlainFormula, PlainTexts
<1> QED BY <1>1, <1>2

\* Typing plain texts, inserting and deleting keep the sheet plain.
LEMMA PlainStep ==
    ASSUME PlainTexts, SheetOK(sheet), SheetOK(sheet'), Plain(sheet), [Next]_vars
    PROVE  Plain(sheet')
<1>1. \A c \in DOMAIN sheet.formula : PlainFormula(sheet.formula[c])
  BY DEF Plain, PlainFormula, SheetOK
<1>2. SUFFICES \A c \in DOMAIN sheet'.formula : PlainFormula(sheet'.formula[c])
  BY DEF Plain, PlainFormula, SheetOK
<1>3. ASSUME NEW c \in LiveCells(sheet), NEW v \in Typed, SetCell(c, v)
      PROVE  \A x \in DOMAIN sheet'.formula : PlainFormula(sheet'.formula[x])
  <2>1. sheet'.formula = [sheet.formula EXCEPT ![c] = NoFormula]
    BY <1>3 DEF SetCell, SheetOK
  <2> QED BY <1>1, <2>1, PlainWritten
<1>4. ASSUME NEW c \in LiveCells(sheet), NEW f \in Formulas, SetFormula(c, f)
      PROVE  \A x \in DOMAIN sheet'.formula : PlainFormula(sheet'.formula[x])
  <2>1. sheet'.formula = [sheet.formula EXCEPT ![c] = Formula(sheet, f, c)]
    BY <1>4 DEF SetFormula, SheetOK
  <2> QED BY <1>1, <2>1, PlainWritten
<1>5. ASSUME NEW before, InsertRow(before)
      PROVE  \A x \in DOMAIN sheet'.formula : PlainFormula(sheet'.formula[x])
  <2>1. PICK new : sheet'.formula = Grown(sheet.formula, new, NoFormula)
    BY <1>5 DEF InsertRow
  <2> QED BY <1>1, <2>1, PlainWritten DEF Grown
<1>6. ASSUME \/ \E id : DeleteRow(id) \/ UndeleteRow(id) \/ DeleteCol(id)
             \/ Settle \/ UNCHANGED vars
      PROVE  \A x \in DOMAIN sheet'.formula : PlainFormula(sheet'.formula[x])
  <2>1. sheet'.formula = sheet.formula
    BY <1>6 DEF DeleteRow, UndeleteRow, DeleteCol, Settle, vars, SheetOK
  <2> QED BY <1>1, <2>1
<1> QED BY <1>3, <1>4, <1>5, <1>6 DEF Next

-----------------------------------------------------------------------------
(* The graph beside the sheet.                                             *)

\* The cells the batch has written, and where the sheet has its formulas.
Pending(ops) == {op.cell : op \in {o \in ops : o.kind = "value"}}
FormulaPositions(s) == {Position(s, c) : c \in Formulae(s)}

\* While no op that changes the graph is pending, the graph has a slot for
\* every formula; when it has no other, it is up to date but for the cells
\* whose values are pending.
GraphInv(s, e, ops) ==
    (\A op \in ops : ~ Structural(op)) =>
        /\ FormulaPositions(s) \subseteq DOMAIN e.results
        /\ DOMAIN e.results = FormulaPositions(s) => UpToDate(s, e, Pending(ops))

\* The members are at the sheet's formula positions.
LEMMA BuiltPositions ==
    ASSUME NEW s, SheetOK(s), SheetTyped(s)
    PROVE  {m.pos : m \in Members(s)} = FormulaPositions(s)
<1>1. \A m \in Members(s) : m.pos \in FormulaPositions(s)
  <2> SUFFICES ASSUME NEW m \in Members(s)
               PROVE  m.pos \in FormulaPositions(s)
    OBVIOUS
  <2>1. m.cell \in LiveCells(s) /\ HasFormula(s, m.cell) /\ m.pos = Position(s, m.cell)
    BY MemberShape
  <2> QED BY <2>1 DEF FormulaPositions, Formulae
<1>2. \A c \in Formulae(s) : \E m \in Members(s) : m.pos = Position(s, c)
  BY MemberThere DEF Formulae
<1> QED BY <1>1, <1>2 DEF FormulaPositions

\* Typing over a cell: set_cell keeps the graph, or drops it when a formula comes or goes.
LEMMA SetCellGraph ==
    ASSUME SheetOK(sheet), SheetTyped(sheet), EngineFull(engine), GraphInv(sheet, engine, batch),
           NEW c \in LiveCells(sheet), NEW v \in Typed, SetCell(c, v)
    PROVE  GraphInv(sheet', engine', batch')
<1> DEFINE op == [kind |-> "value", cell |-> c]
           t == sheet'
<1>1. /\ batch' = batch \union {op} /\ engine' = engine
      /\ t = [sheet EXCEPT !.stored[c] = v, !.formula[c] = NoFormula]
  BY DEF SetCell, Record
<1>2. c \in Cells(sheet) /\ LiveCells(sheet) \subseteq Cells(sheet)
  BY LiveInIds DEF LiveCells, Cells
<1>3. /\ t.row = sheet.row /\ t.col = sheet.col
      /\ t.formula = [sheet.formula EXCEPT ![c] = NoFormula]
      /\ t.stored = [sheet.stored EXCEPT ![c] = v]
      /\ DOMAIN sheet.formula = Cells(sheet) /\ DOMAIN sheet.stored = Cells(sheet)
  BY <1>1 DEF SheetOK, SheetTyped
<1> HIDE DEF t
<1>4. SUFFICES ASSUME \A o \in batch' : ~ Structural(o)
               PROVE  /\ FormulaPositions(t) \subseteq DOMAIN engine.results
                      /\ DOMAIN engine.results = FormulaPositions(t) =>
                            UpToDate(t, engine, Pending(batch'))
  BY <1>1 DEF GraphInv, t
<1>5. /\ FormulaPositions(sheet) \subseteq DOMAIN engine.results
      /\ DOMAIN engine.results = FormulaPositions(sheet) => UpToDate(sheet, engine, Pending(batch))
  BY <1>1, <1>4 DEF GraphInv
<1>6. LiveCells(t) = LiveCells(sheet) /\ \A x : Position(t, x) = Position(sheet, x)
  BY <1>3 DEF LiveCells, Position
<1>7. Formulae(t) = Formulae(sheet) \ {c}
  BY <1>2, <1>3, <1>6 DEF Formulae, HasFormula
<1>8. FormulaPositions(t) = {Position(sheet, x) : x \in Formulae(sheet) \ {c}}
  BY <1>6, <1>7 DEF FormulaPositions
<1>9. FormulaPositions(t) \subseteq DOMAIN engine.results
  BY <1>5, <1>8 DEF FormulaPositions
<1>10. ASSUME DOMAIN engine.results = FormulaPositions(t)
       PROVE  UpToDate(t, engine, Pending(batch'))
  <2>1. c \notin Formulae(sheet)
    <3>1. SUFFICES ASSUME c \in Formulae(sheet)
                   PROVE  FALSE
      OBVIOUS
    <3>2. Position(sheet, c) \in FormulaPositions(t)
      BY <1>5, <1>10, <3>1 DEF FormulaPositions
    <3>3. PICK x \in Formulae(sheet) \ {c} : Position(sheet, x) = Position(sheet, c)
      BY <1>8, <3>2
    <3>4. x \in LiveCells(sheet)
      BY DEF Formulae
    <3>5. Fits(sheet.row) /\ Fits(sheet.col)
      BY TypedFits
    <3>6. x = c
      BY <3>3, <3>4, <3>5, CellThere
    <3> QED BY <3>3, <3>6
  <2>2. sheet.formula[c] = NoFormula
    BY <2>1 DEF Formulae, HasFormula
  <2>3. \A x \in LiveCells(sheet) : t.formula[x] = sheet.formula[x]
    BY <1>2, <1>3, <2>2
  <2>4. FormulaPositions(t) = FormulaPositions(sheet)
    BY <1>8, <2>1 DEF FormulaPositions
  <2>5. UpToDate(sheet, engine, Pending(batch))
    BY <1>5, <1>10, <2>4
  <2>6. UpToDate(t, engine, Pending(batch) \union {c})
    BY <1>3, <2>3, <2>5, ValueUpToDate
  <2>7. Pending(batch') = Pending(batch) \union {c}
    <3>1. op.kind = "value" /\ op.cell = c
      OBVIOUS
    <3> HIDE DEF op
    <3>2. \A x : x \in Pending(batch') <=> x \in Pending(batch) \/ x = c
      BY <1>1, <3>1 DEF Pending
    <3> QED BY <3>2
  <2> QED BY <2>6, <2>7
<1> QED BY <1>9, <1>10

\* A recalculation writes into the slots there are.
LEMMA RecalcAfterKeeps ==
    ASSUME NEW s, SheetOK(s), SheetTyped(s), NEW e, EngineOK(e),
           Results(e.results, DOMAIN e.results), NEW cells
    PROVE  DOMAIN RecalcAfter(s, e, cells).results = DOMAIN e.results
<1> DEFINE seeds == Seeds(s, e, cells)
           after == Pass(s, e, seeds, TRUE)
<1>1. seeds \in [DOMAIN e.groups -> Box]
  BY SeedsCover
<1>2. RecalcAfter(s, e, cells) = after
  BY DEF RecalcAfter
<1> HIDE DEF seeds
<1>3. after = [groups |-> e.groups, index |-> e.index, results |-> after.results]
      /\ Results(after.results, DOMAIN e.results)
  BY <1>1, TypedFits, PassTyped
<1> HIDE DEF after
<1> QED BY <1>2, <1>3 DEF Results

\* Settling the batch: a rebuilt engine or a recalculated one, up to date either way.
LEMMA SettleGraph ==
    ASSUME SheetOK(sheet), SheetTyped(sheet), Plain(sheet), EngineFull(engine),
           GraphInv(sheet, engine, batch), Settle
    PROVE  GraphInv(sheet', engine', batch')
<1>1. sheet' = sheet /\ batch' = {} /\ engine' = Observe(sheet, engine, batch)
  BY DEF Settle
<1>2. Pending({}) = {}
  BY DEF Pending
<1>3. SUFFICES /\ FormulaPositions(sheet) \subseteq DOMAIN engine'.results
               /\ DOMAIN engine'.results = FormulaPositions(sheet) => UpToDate(sheet, engine', {})
  BY <1>1, <1>2 DEF GraphInv
<1>4. CASE \E op \in batch : Structural(op)
  <2>1. engine' = RecalcAll(sheet, Regroup(sheet))
    BY <1>1, <1>4 DEF Observe
  <2>2. UpToDate(sheet, engine', {})
    BY <2>1, RecalcAllUpToDate
  <2>3. DOMAIN engine'.results = FormulaPositions(sheet)
    BY <2>2, BuiltPositions DEF UpToDate, Built
  <2> QED BY <2>2, <2>3
<1>5. CASE ~ \E op \in batch : Structural(op)
  <2>1. engine' = RecalcAfter(sheet, engine, Pending(batch))
    BY <1>1, <1>5 DEF Observe, Pending
  <2>2. /\ FormulaPositions(sheet) \subseteq DOMAIN engine.results
        /\ DOMAIN engine.results = FormulaPositions(sheet) =>
                UpToDate(sheet, engine, Pending(batch))
    BY <1>5 DEF GraphInv
  <2>3. EngineOK(engine) /\ Results(engine.results, DOMAIN engine.results)
    BY DEF EngineFull, Results
  <2>4. DOMAIN engine'.results = DOMAIN engine.results
    BY <2>1, <2>3, RecalcAfterKeeps
  <2>5. DOMAIN engine.results = FormulaPositions(sheet) => UpToDate(sheet, engine', {})
    BY <2>1, <2>2, <2>3, RecalcAfterUpToDate
  <2> QED BY <2>2, <2>4, <2>5
<1> QED BY <1>4, <1>5

\* What holds of a session whose texts are plain.
SettledInv ==
    /\ CalcInv
    /\ Plain(sheet)
    /\ GraphInv(sheet, engine, batch)

\* Every step keeps it.
LEMMA SettledStep ==
    ASSUME PlainTexts, SettledInv, [Next]_vars
    PROVE  SettledInv'
<1>1. CalcInv' /\ SheetOK(sheet) /\ SheetTyped(sheet) /\ EngineFull(engine) /\ SheetOK(sheet')
  BY CalcStep DEF SettledInv, CalcInv
<1>2. Plain(sheet')
  BY <1>1, PlainStep DEF SettledInv
<1>3. GraphInv(sheet', engine', batch')
  <2>1. ASSUME NEW c \in LiveCells(sheet), NEW v \in Typed, SetCell(c, v)
        PROVE  GraphInv(sheet', engine', batch')
    BY <1>1, <2>1, SetCellGraph DEF SettledInv
  <2>2. CASE Settle
    BY <1>1, <2>2, SettleGraph DEF SettledInv
  <2>3. CASE UNCHANGED vars
    BY <2>3 DEF SettledInv, vars
  <2>4. ASSUME NEW op, Structural(op), Record(op)
        PROVE  GraphInv(sheet', engine', batch')
    BY <2>4 DEF Record, GraphInv
  <2>5. CASE \E c \in LiveCells(sheet), f \in Formulas : SetFormula(c, f)
    <3>1. PICK c \in LiveCells(sheet), f \in Formulas : SetFormula(c, f)
      BY <2>5
    <3>2. Record([kind |-> "formula", cell |-> c])
      BY <3>1 DEF SetFormula
    <3> QED BY <2>4, <3>2 DEF Structural
  <2>6. CASE \E before \in 0 .. Cardinality(LiveIds(sheet.row)) : InsertRow(before)
    <3>1. PICK id : Record([kind |-> "insert", id |-> id])
      BY <2>6 DEF InsertRow
    <3> QED BY <2>4, <3>1 DEF Structural
  <2>7. CASE \E id : DeleteRow(id) \/ DeleteCol(id)
    <3>1. PICK id : Record([kind |-> "delete", id |-> id])
      BY <2>7 DEF DeleteRow, DeleteCol
    <3> QED BY <2>4, <3>1 DEF Structural
  <2>8. CASE \E id : UndeleteRow(id)
    <3>1. PICK id : Record([kind |-> "undelete", id |-> id])
      BY <2>8 DEF UndeleteRow
    <3> QED BY <2>4, <3>1 DEF Structural
  <2> QED BY <2>1, <2>2, <2>3, <2>5, <2>6, <2>7, <2>8 DEF Next
<1> QED BY <1>1, <1>2, <1>3 DEF SettledInv

\* Opening a workbook of plain texts establishes it.
LEMMA SettledInit ==
    ASSUME PlainTexts, Init
    PROVE  SettledInv
<1>1. SheetOK(sheet) /\ SheetTyped(sheet) /\ left \in Nat /\ Plain(sheet)
  BY CalcAssumption DEF Init, PlainTexts
<1>2. engine = RecalcAll(sheet, Regroup(sheet)) /\ batch = {}
  BY DEF Init, Opened
<1>3. EngineFull(engine)
  BY <1>1, <1>2, RecalcAllFull
<1>4. UpToDate(sheet, engine, {})
  BY <1>1, <1>2, RecalcAllUpToDate
<1>5. DOMAIN engine.results = FormulaPositions(sheet)
  BY <1>1, <1>4, BuiltPositions DEF UpToDate, Built
<1>6. Pending({}) = {}
  BY DEF Pending
<1>7. GraphInv(sheet, engine, batch)
  BY <1>2, <1>4, <1>5, <1>6 DEF GraphInv
<1> QED BY <1>1, <1>3, <1>7 DEF SettledInv, CalcInv

\* A settled engine whose graph is that of the sheet.
LEMMA SettledIsUpToDate ==
    ASSUME SettledInv, Settled, GraphCurrent
    PROVE  /\ SheetOK(sheet) /\ SheetTyped(sheet) /\ Plain(sheet)
           /\ engine.results \in [DOMAIN engine.results -> Value]
           /\ UpToDate(sheet, engine, {})
<1>1. DOMAIN engine.results = FormulaPositions(sheet)
  BY DEF GraphCurrent, FormulaPositions, Formulae
<1>2. Pending({}) = {} /\ batch = {}
  BY DEF Pending, Settled
<1>3. UpToDate(sheet, engine, {})
  BY <1>1, <1>2 DEF SettledInv, GraphInv
<1> QED BY <1>3 DEF SettledInv, CalcInv, EngineFull

\* A member's result is what its cell shows.
LEMMA ShownOfMember ==
    ASSUME NEW s, SheetOK(s), SheetTyped(s), NEW e, Built(s, e),
           e.results \in [DOMAIN e.results -> Value], NEW m \in Members(s)
    PROVE  Shown(s, e, m.cell) = e.results[m.pos]
<1>1. m.pos = Position(s, m.cell)
  BY MemberShape
<1>2. m.pos \in DOMAIN e.results
  BY DEF Built
<1>3. Unset \notin Value
  BY ModAssumption DEF Value, Number, Unset, RefError, CircError
<1> QED BY <1>1, <1>2, <1>3 DEF Shown, GridRead

\* What is settled shows what its formulas mean, and #CIRC! on every cycle.
LEMMA InvShows ==
    ASSUME SettledInv
    PROVE  ShownIsDenoted /\ CycleIsShown
<1>1. ASSUME Settled, GraphCurrent, NEW c \in OnCycle
      PROVE  Shown(sheet, engine, c) = CircError
  <2>1. /\ SheetOK(sheet) /\ SheetTyped(sheet) /\ Plain(sheet) /\ UpToDate(sheet, engine, {})
        /\ engine.results \in [DOMAIN engine.results -> Value]
    BY <1>1, SettledIsUpToDate
  <2>2. c \in LiveCells(sheet) /\ HasFormula(sheet, c) /\ Loops(sheet, c)
    BY <1>1, <2>1, OnCycleLoops
  <2>3. PICK m \in Members(sheet) : m.cell = c
    BY <2>2, MemberThere
  <2>4. engine.results[m.pos] = CircError
    BY <2>1, <2>2, <2>3 DEF UpToDate
  <2>5. Shown(sheet, engine, m.cell) = engine.results[m.pos]
    BY <2>1, ShownOfMember DEF UpToDate
  <2> QED BY <2>3, <2>4, <2>5
<1>2. ASSUME Settled, GraphCurrent, NEW c \in LiveCells(sheet) \ Tainted
      PROVE  Shown(sheet, engine, c) = Denoted[c]
  <2>1. /\ SheetOK(sheet) /\ SheetTyped(sheet) /\ Plain(sheet) /\ UpToDate(sheet, engine, {})
        /\ engine.results \in [DOMAIN engine.results -> Value]
    BY <1>2, SettledIsUpToDate
  <2>2. Built(sheet, engine) /\ Linked(engine)
    BY <2>1, BuiltLinked DEF UpToDate
  <2>3. \A g \in Ranked(engine) : \A m \in engine.groups[g].members :
            Consistent(sheet, engine.results, m)
    BY <2>1 DEF UpToDate
  <2>4. /\ \A g \in Ranked(engine) : \A m \in engine.groups[g].members :
                Denoted[m.cell] = engine.results[m.pos]
        /\ Denoted \in Values(sheet)
    BY <2>1, <2>2, <2>3, DenotedReached
  <2>5. CASE HasFormula(sheet, c)
    <3>1. PICK m \in Members(sheet) : m.cell = c /\ m.pos = Position(sheet, c)
      BY <2>5, MemberThere
    <3>2. PICK g \in DOMAIN engine.groups : m \in engine.groups[g].members
      BY <2>2 DEF Built
    <3>3. g \in Ranked(engine)
      <4>1. Everything = Everywhere(engine)
        BY DEF Everything, Everywhere
      <4>2. Wanted(Everywhere(engine)) = DOMAIN engine.groups
        BY <2>2 DEF Linked
      <4>3. m.pos \notin Circular(engine, Everything)
        BY <1>2, <3>1 DEF Tainted
      <4>4. m.pos \in Positions(engine.groups[g])
        BY <3>2 DEF Positions
      <4> QED BY <3>2, <4>1, <4>2, <4>3, <4>4 DEF Circular, Ranked
    <3>4. Shown(sheet, engine, m.cell) = engine.results[m.pos]
      BY <2>1, <2>2, ShownOfMember
    <3> QED BY <2>4, <3>1, <3>2, <3>3, <3>4
  <2>6. CASE ~ HasFormula(sheet, c)
    <3> DEFINE p == Position(sheet, c)
    <3>1. p \in Coord \X Coord /\ OnGrid(sheet, p) /\ CellAt(sheet, p) = c
      BY <2>1, TypedFits, CellThere
    <3>2. p \notin DOMAIN engine.results
      <4>1. SUFFICES ASSUME p \in FormulaPositions(sheet)
                     PROVE  FALSE
        BY <1>2 DEF GraphCurrent, FormulaPositions, Formulae
      <4>2. PICK x \in Formulae(sheet) : Position(sheet, x) = p
        BY <4>1 DEF FormulaPositions
      <4>3. x \in LiveCells(sheet) /\ HasFormula(sheet, x)
        BY DEF Formulae
      <4>4. x = c
        BY <2>1, <4>2, <4>3, TypedFits, CellThere
      <4> QED BY <2>6, <4>3, <4>4
    <3>3. Shown(sheet, engine, c) = sheet.stored[c]
      BY <3>1, <3>2 DEF Shown, GridRead
    <3>4. Denoted[c] = sheet.stored[c]
      <4>1. c \in Cells(sheet)
        BY LiveInIds DEF LiveCells, Cells
      <4> QED BY <2>4, <2>6, <4>1 DEF Values, Formulae
    <3> QED BY <3>3, <3>4
  <2> QED BY <2>5, <2>6
<1>3. ShownIsDenoted
  <2> HIDE DEF Denoted
  <2> QED BY <1>2 DEF ShownIsDenoted
<1> QED BY <1>1, <1>3 DEF CycleIsShown

\* A settled engine with the sheet's graph shows what the formulas mean: on
\* sheets of any size, after any edits in any batches, every live cell that no
\* circular group taints shows the value that evaluating its formula over and
\* over arrives at.  This is what the incremental recalculation of usk-calc
\* (regroup, seed, mark, levels, step, early cutoff) promises against a full
\* evaluation.
THEOREM CalcShows ==
    ASSUME PlainTexts
    PROVE  Spec => []ShownIsDenoted
<1>1. Init => SettledInv
  BY SettledInit
<1>2. SettledInv /\ [Next]_vars => SettledInv'
  BY SettledStep
<1>3. SettledInv => ShownIsDenoted
  BY InvShows
<1> QED BY <1>1, <1>2, <1>3, PTL DEF Spec

\* No cycle hides behind a stale number: a settled engine with the sheet's
\* graph shows #CIRC! in every live cell that reaches itself through the
\* references, whichever edit closed the cycle and whatever the cell showed
\* before it.
THEOREM CalcCircles ==
    ASSUME PlainTexts
    PROVE  Spec => []CycleIsShown
<1>1. Init => SettledInv
  BY SettledInit
<1>2. SettledInv /\ [Next]_vars => SettledInv'
  BY SettledStep
<1>3. SettledInv => CycleIsShown
  BY InvShows
<1> QED BY <1>1, <1>2, <1>3, PTL DEF Spec
=============================================================================
