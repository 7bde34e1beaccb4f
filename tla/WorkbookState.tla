--------------------------- MODULE WorkbookState ---------------------------
(***************************************************************************)
(* usk-state: a workbook is the fold of its ops.  State::replay folds a    *)
(* whole log in canonical order; apply_tip extends a folded state; an      *)
(* image plus apply_tail rebuilds one from a snapshot.                     *)
(*                                                                         *)
(* Rows stand for both axes (their code is the same), with one column: a   *)
(* cell is named by its row.  All cells lie in one tile.  The tile's       *)
(* packing, presence bitmap and causal frontier are left out, as are style *)
(* rules and opaque ops.                                                   *)
(***************************************************************************)
EXTENDS Integers, SequencesExt

-----------------------------------------------------------------------------
(* Ops (usk-oplog).  ClearCell is a cell write of Blank, as the applier    *)
(* treats it.                                                              *)

OpKind == {"insert", "delete", "undelete", "cell", "formula"}

Id(op) == <<op.actor, op.counter>>

\* The canonical key, and its strict order.
Key(op) == <<op.lamport, op.actor, op.counter>>

Before(s, t) ==
    \/ s[1] < t[1]
    \/ s[1] = t[1] /\ s[2] < t[2]
    \/ s[1] = t[1] /\ s[2] = t[2] /\ s[3] < t[3]

Floor == <<0, 0, 0>>    \* below every key
Root == <<0, 0>>        \* Anchor::Start
Blank == <<0, 0>>       \* Value::Blank; in the registry, no formula

IdOf(key) == <<key[2], key[3]>>

\* The members of a set in a strict total order: each follows as many others
\* as its place says.
Sorted(S, less(_, _)) ==
    [i \in 1 .. Cardinality(S) |->
        CHOOSE x \in S : Cardinality({y \in S : less(y, x)}) = i - 1]

Canonical(ops) == Sorted(ops, LAMBDA o, p : Before(Key(o), Key(p)))

-----------------------------------------------------------------------------
(* The axis: an insertion tree and tombstones (AxisSeq).                   *)

Live(s, row) == row \notin s.tombs

\* Children of an anchor, greatest key first.
Children(tree, anchor) ==
    LET keys == {e.key : e \in {t \in tree : t.anchor = anchor}}
        desc == Sorted(keys, LAMBDA k, l : Before(l, k))
    IN [i \in DOMAIN desc |-> IdOf(desc[i])]

\* Pre-order walk with a stack, tombstones included: each step pops a row and
\* pushes its children, and a tree of n rows is walked in n steps.
FullOrder(tree) ==
    LET walk[n \in 0 .. Cardinality(tree)] ==
            IF n = 0 THEN [out |-> <<>>, stack |-> Children(tree, Root)]
            ELSE LET w == walk[n - 1]
                 IN IF w.stack = <<>> THEN w
                    ELSE [out |-> Append(w.out, Head(w.stack)),
                          stack |-> Children(tree, Head(w.stack)) \o Tail(w.stack)]
    IN walk[Cardinality(tree)].out

\* The members of a sequence that are in S, in its order.
Kept(seq, S) ==
    FoldLeft(LAMBDA kept, x : IF x \in S THEN Append(kept, x) ELSE kept, <<>>, seq)

LiveOrder(s) ==
    LET order == FullOrder(s.tree)
    IN Kept(order, {r \in ToSet(order) : Live(s, r)})

-----------------------------------------------------------------------------
(* The cell store (TileStore): a contested cell keeps its winner's key and *)
(* the losers; any other cell is overwritten by whatever comes last.       *)

Intern(slots, row) == IF Contains(slots, row) THEN slots ELSE Append(slots, row)

\* One value per competing actor, none of the winner's own.
RetainConcurrent(losers, winner) ==
    {l \in losers : /\ l.key[2] # winner
                    /\ \A m \in losers : m.key[2] = l.key[2] => ~Before(l.key, m.key)}

\* A function that also takes y at x.
Put(f, x, y) == [z \in DOMAIN f \union {x} |-> IF z = x THEN y ELSE f[z]]

Overwrite(s, op) == [s EXCEPT !.value = Put(@, op.row, op.val)]

\* A write to a stamped cell: the greater key wins, the other is kept.
Contend(s, op) ==
    LET r == op.row
        mine == [key |-> Key(op), val |-> op.val]
        held == [key |-> s.meta[r].key, val |-> s.value[r]]
        won == Before(held.key, mine.key)
        winner == IF won THEN mine ELSE held
        loser == IF won THEN held ELSE mine
    IN [s EXCEPT !.value[r] = winner.val,
                 !.meta[r] = [key |-> winner.key,
                              losers |-> RetainConcurrent(@.losers \union {loser}, winner.key[2])]]

\* The first write to a contested cell.
Stamp(s, op) ==
    [Overwrite(s, op) EXCEPT !.meta = Put(@, op.row, [key |-> Key(op), losers |-> {}])]

WriteCell(s, op) ==
    LET t == [s EXCEPT !.slots = Intern(@, op.row)]
    IN IF op.row \notin s.contested THEN Overwrite(t, op)
       ELSE IF op.row \in DOMAIN s.meta THEN Contend(t, op)
       ELSE Stamp(t, op)

Losers(s, row) == IF row \in DOMAIN s.meta THEN s.meta[row].losers ELSE {}

-----------------------------------------------------------------------------
(* The formula registry: a stamped register per cell a formula ever named. *)

Seed(s, row) ==
    IF row \in DOMAIN s.formulas THEN s
    ELSE [s EXCEPT !.formulas = Put(@, row, [key |-> Floor, text |-> Blank])]

\* The later of what the register holds and this write; a value write to a
\* cell no formula named leaves no trace.
Register(s, op, text) ==
    IF op.row \in DOMAIN s.formulas /\ Before(s.formulas[op.row].key, Key(op))
    THEN [s EXCEPT !.formulas[op.row] = [key |-> Key(op), text |-> text]]
    ELSE s

\* A formula for a cell that was never seeded is kept all the same.
SetFormula(s, op) == Register(Seed(s, op.row), op, op.val)

Formula(s, row) == IF row \in DOMAIN s.formulas THEN s.formulas[row].text ELSE Blank

-----------------------------------------------------------------------------
(* Applying ops (State::apply).                                            *)

\* Every actor that wrote a value; the code keeps the first and whether there
\* was a second.
Note(s, op) ==
    [s EXCEPT !.tip = IF Before(@, Key(op)) THEN Key(op) ELSE @,
              !.writers = IF op.kind = "cell" THEN @ \union {op.actor} ELSE @]

InsertRow(s, op) ==
    [s EXCEPT !.tree = @ \union {[anchor |-> op.row, key |-> Key(op)]},
              !.slots = Intern(@, Id(op))]

ApplyOp(s, op) ==
    LET n == Note(s, op)
    IN CASE op.kind = "insert"   -> InsertRow(n, op)
         [] op.kind = "delete"   -> [n EXCEPT !.tombs = @ \union {op.row}]
         [] op.kind = "undelete" -> [n EXCEPT !.tombs = @ \ {op.row}]
         [] op.kind = "cell"     -> WriteCell(Register(n, op, Blank), op)
         [] op.kind = "formula"  -> SetFormula(n, op)

NoMap == [r \in {} |-> r]

EmptyState ==
    [tree |-> {}, tombs |-> {}, slots |-> <<>>, contested |-> {}, value |-> NoMap,
     meta |-> NoMap, formulas |-> NoMap, tip |-> Floor, folded |-> FALSE, writers |-> {}]

-----------------------------------------------------------------------------
(* Replay: plan, then apply, both in canonical order.                      *)

CellWrites(ops, row) == {op \in ops : op.kind = "cell" /\ op.row = row}
CellRows(ops) == {op.row : op \in {o \in ops : o.kind = "cell"}}
FormulaRows(ops) == {op.row : op \in {o \in ops : o.kind = "formula"}}

\* Slots follow creation order: an insert claims one, so does a cell write.
PlanSlots(ordered) ==
    FoldLeft(LAMBDA slots, op :
                 CASE op.kind = "insert" -> Intern(slots, Id(op))
                   [] op.kind = "cell"   -> Intern(slots, op.row)
                   [] OTHER              -> slots,
             <<>>, ordered)

\* Cells two actors wrote.
Contested(ops) ==
    {r \in CellRows(ops) : \E o, p \in CellWrites(ops, r) : o.actor # p.actor}

FromPlan(ops) ==
    [EmptyState EXCEPT
        !.slots = PlanSlots(Canonical(ops)),
        !.contested = Contested(ops),
        !.formulas = [r \in FormulaRows(ops) |-> [key |-> Floor, text |-> Blank]]]

Replay(ops) ==
    [FoldLeft(ApplyOp, FromPlan(ops), Canonical(ops)) EXCEPT !.folded = TRUE]

-----------------------------------------------------------------------------
(* The tip path (State::apply_tip).                                        *)

\* MUTANT of Ascends: the batch is held to itself and not to the state's tip.
AscendsWithin(s, batch) ==
    \A i \in 2 .. Len(batch) : Before(Key(batch[i - 1]), Key(batch[i]))

Ascends(s, batch) ==
    \A i \in DOMAIN batch :
        Before(IF i = 1 THEN s.tip ELSE Key(batch[i - 1]), Key(batch[i]))

\* Writers of the document when batch[i] is checked.
WritersAt(s, batch, i) ==
    s.writers \union {batch[j].actor : j \in {k \in 1 .. (i - 1) : batch[k].kind = "cell"}}

\* MUTANT of CannotContend: only a batch's first op is looked at.
FirstCannotContend(s, batch, i) ==
    i = 1 => \/ batch[i].row \in s.contested
             \/ batch[i].row \notin DOMAIN s.value
             \/ s.writers = {batch[i].actor}

\* The write is stamped, or the cell holds nothing, or its author is the only
\* writer of the document.  The cell is looked up in the state before the batch.
CannotContend(s, batch, i) ==
    LET row == batch[i].row
    IN \/ row \in s.contested
       \/ row \notin DOMAIN s.value
       \/ WritersAt(s, batch, i) = {batch[i].actor}

TipAccepts(s, batch) ==
    /\ s.folded
    /\ Ascends(s, batch)
    /\ \A i \in DOMAIN batch : batch[i].kind = "cell" => CannotContend(s, batch, i)

ApplyTip(s, batch) ==
    FoldLeft(LAMBDA t, op : ApplyOp(IF op.kind = "formula" THEN Seed(t, op.row) ELSE t, op),
             s, batch)

-----------------------------------------------------------------------------
(* Images and their tail (stamps.rs, apply_tail, Salvaged::into_state).    *)

\* The greatest of a set of keys, Floor if there is none.
GreatestKey(keys) ==
    IF keys = {} THEN Floor ELSE CHOOSE k \in keys : \A l \in keys : ~Before(k, l)

\* The winning value write of a row, Floor if it has none.
Winner(ops, row) == GreatestKey({Key(op) : op \in CellWrites(ops, row)})

GreatestWrite(ops) == GreatestKey({Key(op) : op \in {o \in ops : o.kind = "cell"}})

\* An image restores everything but the bookkeeping of the tip path.
FromImage(ops) == [Replay(ops) EXCEPT !.tip = Floor, !.folded = FALSE, !.writers = {}]

\* Cell writes the image cannot place are filtered out.
Predates(op, greatest) ==
    op.kind \in {"cell", "formula"} /\ ~Before(greatest, Key(op))

\* MUTANT of AdoptStamp: the cell is left on the unstamped path.
AdoptNothing(s, row, key) == s

\* Promote a cell the image holds, with the winner the sidecar recorded.
AdoptStamp(s, row, key) ==
    IF key = Floor \/ row \in s.contested THEN s
    ELSE [s EXCEPT !.contested = @ \union {row},
                   !.meta = Put(@, row, [key |-> key, losers |-> {}])]

ApplyTail(s, image, tail) ==
    FoldLeft(LAMBDA t, op :
                 ApplyOp(IF op.kind \in {"cell", "formula"}
                         THEN AdoptStamp(t, op.row, Winner(image, op.row)) ELSE t, op),
             s, tail)

\* Opening a snapshot of image with the other ops as its tail: all of the tail
\* is refused if any op left in it is at or before the greatest cell write.
IntoState(image, tail) ==
    LET greatest == GreatestWrite(image)
        fresh == {op \in tail : ~Predates(op, greatest)}
    IN IF \E op \in fresh : ~Before(greatest, Key(op)) THEN FromImage(image)
       ELSE ApplyTail(FromImage(image), image, Canonical(fresh))

-----------------------------------------------------------------------------
(* What a workbook shows, and what its hash folds.                         *)

Present(s) == {r \in DOMAIN s.value : Live(s, r)}

Sheet(s) ==
    [order |-> LiveOrder(s),
     cells |-> [r \in Present(s) |-> s.value[r]],
     formulas |-> {<<r, Formula(s, r)>> : r \in {q \in DOMAIN s.formulas :
                                                    Live(s, q) /\ Formula(s, q) # Blank}}]

\* state_hash visits the cells in slot order.
Hashed(s) == <<Sheet(s), Kept(s.slots, Present(s))>>
=============================================================================
