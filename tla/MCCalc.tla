------------------------------- MODULE MCCalc -------------------------------
(* Small sheets for the calculation engine. *)
EXTENDS CalcEngine

\* Texts, each item as the offsets of its corners from the formula's cell.
Ref(dr, dc) == [at |-> <<dr, dc, dr, dc>>, paren |-> FALSE]
Range2(dr, dc, er, ec) == [at |-> <<dr, dc, er, ec>>, paren |-> FALSE]

LeftOf == [kind |-> "sum", items |-> <<Ref(0, -1)>>]
SignLeft == [kind |-> "sign", items |-> <<Ref(0, -1)>>]
Above == [kind |-> "sum", items |-> <<Ref(-1, 0)>>]
RightOf == [kind |-> "sum", items |-> <<Ref(0, 1)>>]
RightAbove == [kind |-> "sum", items |-> <<Ref(-1, 1)>>]
GuardLeft == [kind |-> "guard", items |-> <<Ref(0, -1)>>]
LeftTwo == [kind |-> "sum", items |-> <<Range2(0, -1, 1, -1)>>]
OwnRow == [kind |-> "sum", items |-> <<Range2(0, -1, 0, 0)>>]

Empty(rows, cols) ==
    [row |-> [i \in 1 .. rows |-> [id |-> i, live |-> TRUE]],
     col |-> [i \in 1 .. cols |-> [id |-> i, live |-> TRUE]],
     stored |-> [c \in (1 .. rows) \X (1 .. cols) |-> IF c[2] = 1 THEN 1 ELSE Blank],
     formula |-> [c \in (1 .. rows) \X (1 .. cols) |-> NoFormula]]

\* Every way to put the given texts in the cells that can bind them.
Filled(rows, cols, texts) ==
    LET blank == Empty(rows, cols)
        fits(c) == {Formula(blank, f, c) :
                    f \in {x \in texts : Bindable(blank, TypedAt(x, Position(blank, c)))}}
    IN FoldSet(LAMBDA c, docs : docs \union {[d EXCEPT !.formula[c] = f] : d \in docs, f \in fits(c)},
               {blank}, Cells(blank))

\* A sheet with the given texts at the given cells, and its edits.
With(rows, cols, placed, edits) ==
    LET blank == Empty(rows, cols)
    IN [sheet |-> [blank EXCEPT !.formula =
                    [c \in DOMAIN placed |-> Formula(blank, placed[c], c)] @@ @],
        edits |-> edits]

Texts == {LeftOf, SignLeft, Above, RightAbove}
Fillers == {LeftOf, SignLeft, RightAbove}
\* Every filling of a small sheet, then one edit; and some sheets with a
\* shape of their own, then two edits, in one batch or in two.
RecalcDocuments ==
    {[sheet |-> s, edits |-> 1] : s \in Filled(2, 3, Fillers)}
    \union
    {\* a column that reads the one before it by pairs of rows
     With(3, 2, (<<1, 2>> :> LeftTwo) @@ (<<2, 2>> :> LeftTwo), 2),
     \* opening and closing balances with a guard behind them
     With(3, 4, (<<2, 2>> :> RightAbove) @@ (<<3, 2>> :> RightAbove) @@ (<<1, 3>> :> LeftOf)
                @@ (<<2, 3>> :> LeftOf) @@ (<<3, 4>> :> GuardLeft), 1),
     \* a guard over a cycle
     With(2, 3, (<<1, 1>> :> RightOf) @@ (<<1, 2>> :> LeftOf) @@ (<<1, 3>> :> GuardLeft), 2),
     \* a total that takes in its own cell
     With(2, 3, (<<1, 2>> :> OwnRow) @@ (<<1, 3>> :> LeftOf), 2),
     \* a running total with a gap
     With(4, 1, (<<2, 1>> :> Above) @@ (<<4, 1>> :> Above), 2)}
ValueTyped == {0, 1}
=============================================================================
