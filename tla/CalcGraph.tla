----------------------------- MODULE CalcGraph ------------------------------
(***************************************************************************)
(* usk-calc: formula groups, their dependency graph and its evaluation.    *)
(*                                                                         *)
(* A sheet is a record                                                     *)
(*   row, col   the two axes (AxisOrder)                                   *)
(*   stored     the value of each cell, by identity                        *)
(*   formula    the formula of each cell, or NoFormula                     *)
(* and a formula is what SetFormula carries: the items of its source text, *)
(* with the view rectangle each was typed as and whether it stands inside  *)
(* parentheses, and one binding of identities per item.  Its operators are *)
(* abstracted to a kind: "sum" adds one to the sum of what it reads,       *)
(* "sign" tells whether the sum is positive (so results often do not       *)
(* change), "guard" turns an error to zero.  Arithmetic is modulo Mod.     *)
(***************************************************************************)
EXTENDS Rectangles, AxisOrder, Functions

CONSTANT Mod
ASSUME ModAssumption == Mod \in Nat \ {0, 1}

Number == 0 .. Mod - 1
Blank == -1
RefError == -2      \* #REF!
CircError == -3     \* #CIRC!
Unset == -9         \* a slot not evaluated yet
NoFormula == [kind |-> "none", items |-> <<>>, bindings |-> <<>>]

IsError(v) == v \in {RefError, CircError}
HasFormula(sheet, cell) == sheet.formula[cell] # NoFormula

Cells(sheet) == IdsOf(sheet.row) \X IdsOf(sheet.col)
LiveCells(sheet) == LiveIds(sheet.row) \X LiveIds(sheet.col)
Position(sheet, cell) ==
    <<PositionOf(sheet.row, cell[1]), PositionOf(sheet.col, cell[2])>>
OnGrid(sheet, p) ==
    /\ p[1] < Cardinality(LiveIds(sheet.row))
    /\ p[2] < Cardinality(LiveIds(sheet.col))
CellAt(sheet, p) == <<At(sheet.row, p[1]), At(sheet.col, p[2])>>

\* A sheet has had a row, and its formulas are bound to identities it knows.
SheetOK(s) ==
    /\ s = [row |-> s.row, col |-> s.col, stored |-> s.stored, formula |-> s.formula]
    /\ AxisOK(s.row) /\ s.row # <<>>
    /\ AxisOK(s.col)
    /\ DOMAIN s.formula = Cells(s)
    /\ \A c \in Cells(s) : \A i \in DOMAIN s.formula[c].bindings :
            LET b == s.formula[c].bindings[i]
            IN /\ {b.rows[1], b.rows[2]} \subseteq IdsOf(s.row)
               /\ {b.cols[1], b.cols[2]} \subseteq IdsOf(s.col)

-----------------------------------------------------------------------------
(* References: bound to identities once, to positions at every regroup.    *)

\* collect_refs and Binder::bind: every item, parenthesised or not, in order.
Bind(sheet, items) ==
    [i \in DOMAIN items |->
        LET t == items[i].text
        IN [rows |-> <<At(sheet.row, t.r0), At(sheet.row, t.r1)>>,
            cols |-> <<At(sheet.col, t.c0), At(sheet.col, t.c1)>>]]

\* The view rectangle of a binding; NoRect is the #REF! of an interval whose
\* identities are all deleted.
Resolved(sheet, b) ==
    LET rows == Resolve(sheet.row, b.rows[1], b.rows[2])
        cols == Resolve(sheet.col, b.cols[1], b.cols[2])
        pos(axis, S) == {PositionOf(axis, axis[i].id) : i \in S}
    IN IF rows = {} \/ cols = {}
       THEN NoRect
       ELSE [r0 |-> Min(pos(sheet.row, rows)), r1 |-> Max(pos(sheet.row, rows)),
             c0 |-> Min(pos(sheet.col, cols)), c1 |-> Max(pos(sheet.col, cols))]

\* rebind: an item inside parentheses keeps the text it was typed with and
\* takes no binding, so the items after it take the bindings before theirs.
Rebind(sheet, f) ==
    [i \in DOMAIN f.items |->
        LET taken == Cardinality({j \in 1 .. i - 1 : ~ f.items[j].paren})
        IN IF f.items[i].paren
           THEN f.items[i].text
           ELSE Resolved(sheet, f.bindings[taken + 1])]

\* r1c1: what two formulas must share to be one group.
Relative(rect, p) ==
    <<rect.r0 - p[1], rect.r1 - p[1], rect.c0 - p[2], rect.c1 - p[2]>>
Pattern(kind, items, refs, p) ==
    <<kind,
      [i \in DOMAIN refs |->
        IF refs[i] = NoRect THEN <<"ref">>
        ELSE <<items[i].paren>> \o Relative(refs[i], p)]>>

-----------------------------------------------------------------------------
(* Groups.                                                                 *)

Members(sheet) ==
    {LET p == Position(sheet, c)
         f == sheet.formula[c]
         refs == Rebind(sheet, f)
     IN [cell |-> c, pos |-> p, kind |-> f.kind, refs |-> refs,
         bound |-> JoinAll({refs[i] : i \in DOMAIN refs}),
         pattern |-> Pattern(f.kind, f.items, refs, p)] :
        c \in {x \in LiveCells(sheet) : HasFormula(sheet, x)}}

ReadsOf(members) ==
    ToSet(MergeRects((UNION {{m.refs[i] : i \in DOMAIN m.refs} : m \in members}) \ {NoRect}))
WritesOf(members) == Bounding({m.pos : m \in members})
Group(members) ==
    [members |-> members, reads |-> ReadsOf(members), writes |-> WritesOf(members)]

ReadsItself(g) == \E r \in g.reads : Overlaps(r, g.writes)

\* The classes of a set under a key.
Classes(S, Key(_)) == {{y \in S : Key(y) = Key(x)} : x \in S}

\* A pattern whose members may feed each other is split by column, and a
\* column that still may, into single cells.
Split(members) ==
    IF ReadsItself(Group(members)) /\ Cardinality(members) > 1
    THEN UNION {IF ReadsItself(Group(part)) THEN {{m} : m \in part} ELSE {part} :
                part \in Classes(members, LAMBDA m : m.pos[2])}
    ELSE {members}

\* A group is named by the first of its cells, which no other group has.
Lead(members) ==
    CHOOSE p \in {m.pos : m \in members} :
        \A m \in members : p[2] < m.pos[2] \/ (p[2] = m.pos[2] /\ p[1] <= m.pos[1])

\* Engine::regroup: the groups, their index, and an empty slot per formula.
Regroup(sheet) ==
    LET parts == UNION {Split(ms) : ms \in Classes(Members(sheet), LAMBDA m : m.pattern)}
        groups == [p \in {Lead(ms) : ms \in parts} |->
                    Group(CHOOSE ms \in parts : Lead(ms) = p)]
    IN [groups |-> groups,
        index |-> Index([g \in DOMAIN groups |-> groups[g].reads]),
        results |-> [p \in {m.pos : m \in UNION parts} |-> Unset]]

\* The bounding rectangle of the members of a group that read source.
AffectedMembers(g, source) ==
    IF \E r \in g.reads : Overlaps(r, source)
    THEN Bounding({m.pos : m \in {x \in g.members : Overlaps(x.bound, source)}})
    ELSE NoRect

-----------------------------------------------------------------------------
(* Evaluating one formula.                                                 *)

\* A rectangle's cells in reading order.
Reading(rect) ==
    LET w == rect.c1 - rect.c0 + 1
        h == rect.r1 - rect.r0 + 1
    IN [i \in 1 .. h * w |->
            <<rect.r0 + (i - 1) \div w, rect.c0 + ((i - 1) % w)>>]

\* What a kind of formula makes of the values it reads, in order.
Combine(kind, values) ==
    LET errors == {i \in DOMAIN values : IsError(values[i])}
        total == FoldLeft(LAMBDA n, v : IF v = Blank THEN n ELSE n + v, 0, values)
    IN CASE errors # {} -> IF kind = "guard" THEN 0 ELSE values[Min(errors)]
         [] kind = "sum" -> (total + 1) % Mod
         [] kind = "sign" -> IF total > 0 THEN 1 ELSE 0
         [] OTHER -> total % Mod

\* read(p) is the value at a position; a lost reference reads as #REF!.
Evaluate(kind, refs, read(_)) ==
    Combine(kind,
        FlattenSeq([i \in DOMAIN refs |->
            IF refs[i] = NoRect THEN <<RefError>>
            ELSE [j \in DOMAIN Reading(refs[i]) |-> read(Reading(refs[i])[j])]]))

\* EngineGrid: an evaluated result, else the stored value, else off the grid.
GridRead(sheet, results, p) ==
    IF p \in DOMAIN results /\ results[p] # Unset THEN results[p]
    ELSE IF OnGrid(sheet, p) THEN sheet.stored[CellAt(sheet, p)]
    ELSE RefError

\* Engine::value: what a reader is shown.
Shown(sheet, engine, cell) == GridRead(sheet, engine.results, Position(sheet, cell))

-----------------------------------------------------------------------------
(* A pass (Engine::evaluate).  A map of rectangles by group holds NoRect   *)
(* for a group that has none.                                              *)

Wanted(rects) == {g \in DOMAIN rects : rects[g] # NoRect}

\* One round of transitive marking: each dirty rectangle reaches the members
\* of other groups that read it.  The code's worklist ends at the same least
\* fixed point as rounds do, since rectangles only grow.
Mark(engine, dirty) ==
    [g \in DOMAIN dirty |->
        JoinAll({dirty[g]} \union
                {AffectedMembers(engine.groups[g], dirty[s]) :
                    s \in {x \in Wanted(dirty) \ {g} : g \in Stab(engine.index, dirty[x])}})]

\* Rounds until nothing grows; a side of a rectangle grows Grid times at most.
Marked(engine, seeds) ==
    LET round(state, i) ==
            IF state.still THEN state
            ELSE LET next == Mark(engine, state.dirty)
                 IN [dirty |-> next, still |-> next = state.dirty]
        rounds == [i \in 1 .. 4 * Grid * Cardinality(DOMAIN seeds) |-> i]
    IN FoldLeft(round, [dirty |-> seeds, still |-> FALSE], rounds).dirty

\* The groups a dirty group waits for: those whose whole extent it reads.
Upstream(engine, dirty, g) ==
    {u \in Wanted(dirty) \ {g} : g \in Stab(engine.index, engine.groups[u].writes)}

\* MUTANT of Levels: a group that reads its own extent is placed too.
LevelsWithLoops(engine, dirty) ==
    LET groups == Wanted(dirty)
        next(placed) == {g \in groups \ placed : Upstream(engine, dirty, g) \subseteq placed}
    IN FoldLeft(LAMBDA levels, i : Append(levels, next(UNION ToSet(levels))),
                <<>>, [i \in 1 .. Cardinality(groups) |-> i])

\* Kahn's levels: a group is placed after all it waits for, unless it reads
\* its own extent.  Trailing levels may be empty.
Levels(engine, dirty) ==
    LET groups == {g \in Wanted(dirty) : ~ ReadsItself(engine.groups[g])}
        next(placed) == {g \in groups \ placed : Upstream(engine, dirty, g) \subseteq placed}
    IN FoldLeft(LAMBDA levels, i : Append(levels, next(UNION ToSet(levels))),
                <<>>, [i \in 1 .. Cardinality(groups) |-> i])

Placed(levels) == UNION ToSet(levels)
Positions(g) == {m.pos : m \in g.members}

\* MUTANT of Circular: what found no level keeps whatever its slot holds.
NoneCircular(engine, dirty) == {}

\* Every cell of a group that found no level.
Circular(engine, dirty) ==
    UNION {Positions(engine.groups[g]) :
           g \in Wanted(dirty) \ Placed(Levels(engine, dirty))}

\* The part of a placed group to evaluate: all that is dirty, or with the
\* cutoff only what was seeded or reads what changed in this pass.
Region(engine, seeds, dirty, cutoff, changed, g) ==
    IF ~ cutoff THEN dirty[g]
    ELSE JoinAll({seeds[g]} \union
                 {AffectedMembers(engine.groups[g], changed[u]) :
                     u \in Upstream(engine, dirty, g)})

\* f where it has a value, g elsewhere.
Over(f, g) == [x \in DOMAIN f \union DOMAIN g |-> IF x \in DOMAIN f THEN f[x] ELSE g[x]]

\* A group's members are all computed before any is written.
EvaluateGroup(sheet, g, region, results) ==
    LET chosen == {m \in g.members : Covers(region, m.pos)}
    IN [p \in {m.pos : m \in chosen} |->
            LET m == CHOOSE x \in chosen : x.pos = p
            IN Evaluate(m.kind, m.refs, LAMBDA q : GridRead(sheet, results, q))]

\* The groups of one level do not read each other, so their order in the
\* level says nothing.
EvaluateLevel(sheet, engine, seeds, dirty, cutoff, level, pass) ==
    FoldSet(LAMBDA g, before :
                LET fresh == EvaluateGroup(sheet, engine.groups[g],
                                Region(engine, seeds, dirty, cutoff, before.changed, g),
                                before.results)
                IN [results |-> Over(fresh, before.results),
                    changed |-> [before.changed EXCEPT ![g] =
                        Bounding({p \in DOMAIN fresh : fresh[p] # before.results[p]})]],
            pass, level)

\* The whole pass: circular cells first, then level by level.
Pass(sheet, engine, seeds, cutoff) ==
    LET dirty == Marked(engine, seeds)
        levels == Levels(engine, dirty)
        start == [results |-> Over([p \in Circular(engine, dirty) |-> CircError], engine.results),
                  changed |-> [g \in DOMAIN seeds |-> NoRect]]
        done == FoldLeft(LAMBDA pass, level :
                            EvaluateLevel(sheet, engine, seeds, dirty, cutoff, level, pass),
                         start, levels)
    IN [engine EXCEPT !.results = done.results]

RecalcAll(sheet, engine) ==
    Pass(sheet, engine,
         [g \in DOMAIN engine.groups |-> engine.groups[g].writes], FALSE)

\* Value edits: the members that read a changed cell are the seeds.
Seeds(sheet, engine, cells) ==
    LET points == {Point(Position(sheet, c)) : c \in cells \intersect LiveCells(sheet)}
    IN [g \in DOMAIN engine.groups |->
        JoinAll({AffectedMembers(engine.groups[g], p) :
                 p \in {x \in points : g \in Stab(engine.index, x)}})]

RecalcAfter(sheet, engine, cells) ==
    Pass(sheet, engine, Seeds(sheet, engine, cells), TRUE)

\* Engine::observe: an op that changes the graph rebuilds it; a batch of
\* value ops only recomputes what reads the cells they name.
Structural(op) == op.kind \in {"formula", "insert", "delete", "undelete"}
Observe(sheet, engine, ops) ==
    IF \E op \in ops : Structural(op)
    THEN RecalcAll(sheet, Regroup(sheet))
    ELSE RecalcAfter(sheet, engine, {op.cell : op \in {o \in ops : o.kind = "value"}})
=============================================================================
