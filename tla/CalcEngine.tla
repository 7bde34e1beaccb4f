----------------------------- MODULE CalcEngine -----------------------------
(***************************************************************************)
(* The calculation engine beside a session: edits change the sheet and     *)
(* queue, and a reader settles them in one batch before it looks           *)
(* (Session::settle folds the ops and hands the same batch to              *)
(* Engine::observe).  A session opens on any document and evaluates it     *)
(* whole.                                                                  *)
(***************************************************************************)
EXTENDS CalcGraph

CONSTANTS
    Documents,  \* [sheet, edits]: what a session may open, and how many edits
                \* it then makes at most (a bound)
    Formulas,   \* formula texts: [kind, items], with items as offsets
    Typed,      \* values a user types, Blank for a cleared cell
    MaxRow      \* greatest row identity (a bound)

\* Cells hold values, formulas name cells of the grid, and the sheet fits it.
SheetTyped(s) ==
    /\ s.stored \in [Cells(s) -> Number \union {Blank}]
    /\ \A c \in Cells(s) : s.formula[c].items \in Seq([text : Proper, paren : BOOLEAN])
    /\ IdsOf(s.row) \subseteq 1 .. MaxRow /\ Len(s.col) <= Grid

ASSUME CalcAssumption ==
    /\ \A doc \in Documents : SheetOK(doc.sheet) /\ SheetTyped(doc.sheet) /\ doc.edits \in Nat
    /\ \A f \in Formulas : f.items \in Seq([at : [1 .. 4 -> Int], paren : BOOLEAN])
    /\ Typed \subseteq Number \union {Blank}
    /\ MaxRow \in Nat /\ MaxRow <= Grid

VARIABLES
    sheet,      \* the workbook state
    engine,     \* groups, index and results
    batch,      \* ops the engine has not observed
    left        \* edits left

vars == <<sheet, engine, batch, left>>

\* Session::from_log: build the graph, then evaluate everything.
Opened(doc) == RecalcAll(doc, Regroup(doc))

Init ==
    /\ \E doc \in Documents : sheet = doc.sheet /\ left = doc.edits
    /\ engine = Opened(sheet)
    /\ batch = {}

-----------------------------------------------------------------------------
(* Edits.                                                                  *)

Record(op) ==
    /\ left > 0
    /\ batch' = batch \union {op}
    /\ left' = left - 1
    /\ UNCHANGED engine

\* SetCell and ClearCell: the value wins the cell from any formula.
SetCell(c, v) ==
    /\ Record([kind |-> "value", cell |-> c])
    /\ sheet' = [sheet EXCEPT !.stored[c] = v, !.formula[c] = NoFormula]

\* A formula text written at a position: where its items lie.
TypedAt(f, p) ==
    [i \in DOMAIN f.items |->
        [text |-> [r0 |-> p[1] + f.items[i].at[1], c0 |-> p[2] + f.items[i].at[2],
                   r1 |-> p[1] + f.items[i].at[3], c1 |-> p[2] + f.items[i].at[4]],
         paren |-> f.items[i].paren]]

Bindable(s, items) ==
    \A i \in DOMAIN items :
        LET t == items[i].text
        IN /\ 0 <= t.r0 /\ t.r0 <= t.r1 /\ t.r1 < Cardinality(LiveIds(s.row))
           /\ 0 <= t.c0 /\ t.c0 <= t.c1 /\ t.c1 < Cardinality(LiveIds(s.col))

\* SetFormula: refused when a reference is off the grid; the stored value
\* stays under the formula.
Formula(s, f, c) ==
    LET items == TypedAt(f, Position(s, c))
    IN [kind |-> f.kind, items |-> items, bindings |-> Bind(s, items)]

SetFormula(c, f) ==
    /\ Bindable(sheet, TypedAt(f, Position(sheet, c)))
    /\ Record([kind |-> "formula", cell |-> c])
    /\ sheet' = [sheet EXCEPT !.formula[c] = Formula(sheet, f, c)]

\* A function over cells that also takes value v at new ones.
Grown(f, new, v) == [c \in DOMAIN f \union new |-> IF c \in new THEN v ELSE f[c]]

\* Insert before a live ordinal: after the live row that precedes it.
InsertRow(before) ==
    LET id == Max(IdsOf(sheet.row)) + 1
        anchor == IF before = 0 THEN 0 ELSE At(sheet.row, before - 1)
        new == {id} \X IdsOf(sheet.col)
    IN /\ id <= MaxRow
       /\ Record([kind |-> "insert", id |-> id])
       /\ sheet' = [row |-> InsertAfter(sheet.row, anchor, id),
                    col |-> sheet.col,
                    stored |-> Grown(sheet.stored, new, Blank),
                    formula |-> Grown(sheet.formula, new, NoFormula)]

DeleteRow(id) ==
    /\ Record([kind |-> "delete", id |-> id])
    /\ sheet' = [sheet EXCEPT !.row = SetLive(@, id, FALSE)]

\* The undo of a deletion; a row nobody deleted has no such op.
UndeleteRow(id) ==
    /\ id \notin LiveIds(sheet.row)
    /\ Record([kind |-> "undelete", id |-> id])
    /\ sheet' = [sheet EXCEPT !.row = SetLive(@, id, TRUE)]

DeleteCol(id) ==
    /\ Record([kind |-> "delete", id |-> id])
    /\ sheet' = [sheet EXCEPT !.col = SetLive(@, id, FALSE)]

\* Session::settle.
Settle ==
    /\ batch # {}
    /\ engine' = Observe(sheet, engine, batch)
    /\ batch' = {}
    /\ UNCHANGED <<sheet, left>>

Next ==
    \/ \E c \in LiveCells(sheet) : \E v \in Typed : SetCell(c, v)
    \/ \E c \in LiveCells(sheet), f \in Formulas : SetFormula(c, f)
    \/ \E before \in 0 .. Cardinality(LiveIds(sheet.row)) : InsertRow(before)
    \/ \E id \in LiveIds(sheet.row) : DeleteRow(id)
    \/ \E id \in IdsOf(sheet.row) : UndeleteRow(id)
    \/ \E id \in LiveIds(sheet.col) : DeleteCol(id)
    \/ Settle

Spec == Init /\ [][Next]_vars

-----------------------------------------------------------------------------
(* Cell by cell, without groups.                                           *)

\* The cells a formula names today.
Precedents(s, cell) ==
    LET f == s.formula[cell]
        rects == {Resolved(s, f.bindings[i]) : i \in DOMAIN f.bindings}
    IN {c \in LiveCells(s) : \E r \in rects : Covers(r, Position(s, c))}

\* Repeats a step as often as there are live cells: enough for anything that
\* travels along references to arrive.
Saturate(start, Step(_)) ==
    FoldLeft(LAMBDA x, i : Step(x), start,
             [i \in 1 .. Cardinality(LiveCells(sheet)) |-> i])

\* Cells that can reach themselves.
OnCycle ==
    LET feeds == UNION {{<<c, d>> : d \in Precedents(sheet, c)} : c \in LiveCells(sheet)}
        reach == Saturate(feeds,
                    LAMBDA R : R \union {<<x[1][1], x[2][2]>> :
                                        x \in {y \in R \X feeds : y[1][2] = y[2][1]}})
    IN {c \in LiveCells(sheet) : <<c, c>> \in reach}

\* What each cell stands for: formulas re-evaluated until nothing can change.
Denoted ==
    LET formulas == {c \in LiveCells(sheet) : HasFormula(sheet, c)}
        meaning(c, value) ==
            LET f == sheet.formula[c]
            IN Evaluate(f.kind, [i \in DOMAIN f.bindings |-> Resolved(sheet, f.bindings[i])],
                        LAMBDA p : value[CellAt(sheet, p)])
    IN Saturate(Over([c \in formulas |-> CircError], sheet.stored),
                LAMBDA value : Over([c \in formulas |-> meaning(c, value)], value))

-----------------------------------------------------------------------------
(* Properties.  They speak of a settled engine: a reader settles first.    *)

Settled == batch = {}
Everything == [g \in DOMAIN engine.groups |-> engine.groups[g].writes]

\* The graph holds exactly the formulas of the sheet.
GraphCurrent ==
    DOMAIN engine.results =
        {Position(sheet, c) : c \in {x \in LiveCells(sheet) : HasFormula(sheet, x)}}

\* Cells of groups the whole graph cannot place, or downstream of one.
Tainted ==
    {c \in LiveCells(sheet) : Position(sheet, c) \in Circular(engine, Everything)}

TypeOK ==
    /\ sheet.stored \in [Cells(sheet) -> Number \union {Blank}]
    /\ DOMAIN sheet.formula = Cells(sheet)
    /\ \A p \in DOMAIN engine.results :
            engine.results[p] \in Number \union {RefError, CircError}
    /\ left \in Nat

\* After any edits, in whatever batches, each cell shows what its formula
\* means on the sheet as it is: the incremental pass, its dirty rectangles
\* and its cutoff lose no update (recalc_after, evaluate).  Only a graph that
\* misses a removed formula, and cells behind a cycle of groups, are out.
ShownIsDenoted ==
    Settled /\ GraphCurrent =>
        LET denoted == Denoted
        IN \A c \in LiveCells(sheet) \ Tainted : Shown(sheet, engine, c) = denoted[c]

\* Every cell that can reach itself shows #CIRC!, whatever part of the graph
\* the last pass looked at.
CycleIsShown ==
    Settled /\ GraphCurrent => \A c \in OnCycle : Shown(sheet, engine, c) = CircError

\* An edit never changes which of the cells that outlive it a formula reads:
\* a reference travels with its identities, through insertions beside and
\* inside it and through the deletion and the return of its own ends
\* (Axis::resolve, rebind).
ReadsTravel ==
    [][\A c \in LiveCells(sheet) \intersect LiveCells(sheet') :
        sheet'.formula[c] = sheet.formula[c] =>
            LET both == LiveCells(sheet) \intersect LiveCells(sheet')
            IN Precedents(sheet', c) \intersect both = Precedents(sheet, c) \intersect both]_vars

=============================================================================
