----------------------------- MODULE Rectangles -----------------------------
(***************************************************************************)
(* The rectangles of usk-calc: what a formula group reads and writes, the  *)
(* merged cover of its reads, and the band index that answers "who reads   *)
(* what I just wrote".  Positions are derived view coordinates <<r, c>>.   *)
(*                                                                         *)
(* An absent rectangle is NoRect: it overlaps nothing and is the unit of   *)
(* the union, so it stands both for an Option's None and for the far       *)
(* corner the code gives a formula that reads nothing.                     *)
(***************************************************************************)
EXTENDS Integers, FiniteSets, Sequences, SequencesExt, FiniteSetsExt

CONSTANTS
    Grid,   \* greatest coordinate of either axis, plus one
    Band    \* rows per index band (BAND, 256 in the code)

ASSUME RectanglesAssumption == Grid \in Nat \ {0} /\ Band \in Nat \ {0}

Coord == 0 .. Grid - 1
Rect == [r0 : Coord, r1 : Coord, c0 : Coord, c1 : Coord]
\* With a cell in it.
Proper == {r \in Rect : r.r0 <= r.r1 /\ r.c0 <= r.c1}
NoRect == [r0 |-> Grid, r1 |-> -1, c0 |-> Grid, c1 |-> -1]

Point(p) == [r0 |-> p[1], r1 |-> p[1], c0 |-> p[2], c1 |-> p[2]]

Overlaps(a, b) ==
    /\ a.r0 <= b.r1 /\ b.r0 <= a.r1
    /\ a.c0 <= b.c1 /\ b.c0 <= a.c1

Covers(a, p) ==
    /\ a.r0 <= p[1] /\ p[1] <= a.r1
    /\ a.c0 <= p[2] /\ p[2] <= a.c1

Lower(x, y) == IF x <= y THEN x ELSE y
Upper(x, y) == IF x <= y THEN y ELSE x

\* The bounding rectangle of two.
Join(a, b) ==
    [r0 |-> Lower(a.r0, b.r0), r1 |-> Upper(a.r1, b.r1),
     c0 |-> Lower(a.c0, b.c0), c1 |-> Upper(a.c1, b.c1)]

JoinAll(S) == FoldSet(Join, NoRect, S)

Bounding(positions) == JoinAll({Point(p) : p \in positions})

-----------------------------------------------------------------------------
(* The merged cover.                                                       *)

RowsTouch(a, b) == a.r0 <= b.r1 + 1 /\ b.r0 <= a.r1 + 1
ColsTouch(a, b) == a.c0 <= b.c1 + 1 /\ b.c0 <= a.c1 + 1

Mergeable(a, b) ==
    \/ a.c0 = b.c0 /\ a.c1 = b.c1 /\ RowsTouch(a, b)
    \/ a.r0 = b.r0 /\ a.r1 = b.r1 /\ ColsTouch(a, b)
    \/ Overlaps(a, b)

\* The sort key of the sweep: by columns, then by rows.
Sooner(a, b) ==
    LET ka == <<a.c0, a.c1, a.r0, a.r1>>
        kb == <<b.c0, b.c1, b.r0, b.r1>>
    IN \E i \in 1 .. 4 : ka[i] < kb[i] /\ \A j \in 1 .. i - 1 : ka[j] = kb[j]

\* One step of the sweep: a rectangle joins the last one or starts another.
Sweep(out, r) ==
    IF out # <<>> /\ Mergeable(Last(out), r)
    THEN Append(Front(out), Join(Last(out), r))
    ELSE Append(out, r)

Sorted(S) ==
    [i \in 1 .. Cardinality(S) |->
        CHOOSE r \in S : Cardinality({x \in S : Sooner(x, r)}) = i - 1]

MergeRects(S) == FoldLeft(Sweep, <<>>, Sorted(S))

-----------------------------------------------------------------------------
(* The band index: per band, the rectangles crossing it and their groups.  *)

\* MUTANT of BandsOf: a rectangle is filed under its first row's band only.
FirstBandOf(r) == {r.r0 \div Band}

BandsOf(r) == (r.r0 \div Band) .. (r.r1 \div Band)

\* reads[g] is the set of rectangles group g reads.
Index(reads) ==
    [b \in 0 .. (Grid - 1) \div Band |->
        UNION {{<<g, r>> : r \in {x \in reads[g] : b \in BandsOf(x)}} :
               g \in DOMAIN reads}]

Stab(index, rect) ==
    {e[1] : e \in {x \in UNION {index[b] : b \in BandsOf(rect) \intersect DOMAIN index} :
                   Overlaps(x[2], rect)}}
=============================================================================
