-------------------------- MODULE SheetReference --------------------------
(***************************************************************************)
(* What a workbook means, said of its op set alone, and the properties     *)
(* that hold the fold, the sessions and their undo to it.                  *)
(***************************************************************************)
EXTENDS EditSession

-----------------------------------------------------------------------------
(* The reference.                                                          *)

\* A row is dead when the last op about its life deletes it.
Dead(ops, row) ==
    LET life == {op \in ops : op.kind \in {"delete", "undelete"} /\ op.row = row}
    IN \E op \in life : op.kind = "delete" /\ \A o \in life : ~Before(Key(op), Key(o))

\* Oldest first, each row goes directly below its anchor.
RefOrder(ops) ==
    LET inserts == Canonical({op \in ops : op.kind = "insert"})
        below(order, op) ==
            IF op.row = Root THEN <<Id(op)>> \o order
            ELSE IF Contains(order, op.row)
                 THEN InsertAt(order, SelectInSeq(order, LAMBDA r : r = op.row) + 1, Id(op))
                 ELSE order
        order == FoldLeft(below, <<>>, inserts)
    IN Kept(order, {r \in ToSet(order) : ~Dead(ops, r)})

WonBy(ops, row, kinds) ==
    LET writes == {op \in ops : op.kind \in kinds /\ op.row = row}
    IN CHOOSE op \in writes : \A o \in writes : ~Before(Key(op), Key(o))

RefSheet(ops) ==
    [order |-> RefOrder(ops),
     cells |-> [r \in {q \in CellRows(ops) : ~Dead(ops, q)} |-> WonBy(ops, r, {"cell"}).val],
     formulas |-> {<<r, WonBy(ops, r, {"cell", "formula"}).val>> :
                      r \in {q \in FormulaRows(ops) :
                                /\ ~Dead(ops, q)
                                /\ WonBy(ops, q, {"cell", "formula"}).kind = "formula"}}]

\* The first op that names a row, as an insert or as a cell.
FirstMention(ops, row) ==
    CHOOSE k \in {Key(op) : op \in {o \in ops : \/ o.kind = "insert" /\ Id(o) = row
                                                \/ o.kind = "cell" /\ o.row = row}} :
        \A op \in ops : (op.kind = "insert" /\ Id(op) = row) \/ (op.kind = "cell" /\ op.row = row)
                            => ~Before(Key(op), k)

\* Rows with live cells, in the order they were first mentioned.
RefSlots(ops) ==
    Sorted({q \in CellRows(ops) : ~Dead(ops, q)},
           LAMBDA q, r : Before(FirstMention(ops, q), FirstMention(ops, r)))

\* The greatest write of every actor but the winner's.
RefLosers(ops, row) ==
    LET writes == CellWrites(ops, row)
    IN {[key |-> Key(op), val |-> op.val] :
            op \in {o \in writes : /\ o.actor # WonBy(ops, row, {"cell"}).actor
                                   /\ \A p \in writes : p.actor = o.actor => ~Before(Key(o), Key(p))}}

-----------------------------------------------------------------------------
(* Properties.                                                             *)

AnyOp == [actor : Actor \union {Genesis}, counter : Nat, lamport : Nat,
          kind : OpKind, row : Nat \X Nat, val : Nat \X Nat]

Entry == [kind : {"wrote", "inserted", "deleted"}, row : Nat \X Nat,
          prior : [kind : {"cell", "formula"}, val : Nat \X Nat]]

\* Every variable holds what its declaration says, and what is pending is in
\* the log (Session's fields).
TypeOK ==
    /\ \A a \in Actor : log[a] \subseteq AnyOp
    /\ \A a \in Actor : ToSet(pending[a]) \subseteq log[a]
    /\ \A a \in Actor : ToSet(undo[a]) \union ToSet(redo[a]) \subseteq Entry
    /\ counter \in [Actor -> Nat]
    /\ lamport \in [Actor -> Nat]
    /\ DOMAIN state = Actor

\* An op id names one op, in all logs together: a session that is reopened,
\* that joins, or that undoes never mints an id again (Session::from_log,
\* integrate_batch).
OneOpPerId ==
    \A a, b \in Actor : \A o \in log[a], p \in log[b] : Id(o) = Id(p) => o = p

\* What an actor authors follows, canonically, everything it holds: a local edit
\* never needs a refold of its own (Session::settle, State::apply_tip).
MintedLast ==
    [][\A a \in Actor : \A op \in log'[a] \ log[a] :
          op.actor = a => \A o \in log[a] : Before(Key(o), Key(op))]_vars

\* Whatever mixture of tip appends and replays led there, the state a session
\* reads, in the slot order its hash folds, is the one its op set determines;
\* so sessions with the same ops agree (Session::settle, State::apply_tip).
SettledIsFold ==
    \A a \in Actor :
        pending[a] = <<>> => Hashed(state[a]) = <<RefSheet(log[a]), RefSlots(log[a])>>

HoldsLosers(s, ops) == \A row \in CellRows(ops) : Losers(s, row) = RefLosers(ops, row)

\* The batch is the first to write the cell, and two actors do: apply_tip stamps
\* neither write, because the cell "holds nothing yet" when both are checked.
OpenedTogether(row, before, batch) ==
    /\ row \notin CellRows(before)
    /\ \E o, p \in CellWrites(batch, row) : o.actor # p.actor

\* Folding a whole deferred batch into a state that has kept every loser loses
\* none, by whichever path (the contention check of apply_tip, which looks a cell
\* up in the state before the batch), but at a cell the batch itself opens twice.
TipKeepsLosers ==
    \A a \in Actor :
        LET batch == ToSet(pending[a])
            before == log[a] \ batch
        IN HoldsLosers(state[a], before) =>
               \A row \in CellRows(log[a]) :
                   OpenedTogether(row, before, batch)
                       \/ Losers(Settled(a), row) = RefLosers(log[a], row)

\* What an author sees of a sheet: live rows, and each one's content.
View(s) == [order |-> LiveOrder(s),
            content |-> [r \in ToSet(LiveOrder(s)) |-> Content(s, r)]]

\* The entry was pushed for this op.
Matches(entry, op) ==
    CASE entry.kind = "wrote"    -> op.kind \in {"cell", "formula"} /\ op.row = entry.row
      [] entry.kind = "inserted" -> \/ op.kind = "insert" /\ Id(op) = entry.row
                                    \/ op.kind = "undelete" /\ op.row = entry.row
      [] entry.kind = "deleted"  -> op.kind = "delete" /\ op.row = entry.row

\* The top of a stack takes back what this op did.
TakesBack(a, stack, op) ==
    /\ stack # <<>>
    /\ Matches(Last(stack), op)
    /\ \/ Blocked(a, Last(stack))
       \/ View(Replay(log[a] \union {InverseOp(a, Last(stack))})) = View(state[a])

\* What this actor did last in this session, if nothing arrived since and it was
\* not read yet.
LastOwn(a, op) == pending[a] = <<op>> /\ op.actor = a /\ undo[a] \o redo[a] # <<>>

\* A command, undo or redo that changed the sheet can be taken back: the sheet
\* is then as it was before, unless another's write blocks it (invert_group).
UndoInverts ==
    \A a \in Actor : \A op \in log[a] :
        LastOwn(a, op) /\ View(Settled(a)) # View(state[a]) =>
            TakesBack(a, undo[a], op) \/ TakesBack(a, redo[a], op)

\* A snapshot of a settled session, opened with a tail that follows everything in
\* it, shows what a replay shows, and still has the losers of every cell the
\* image held (State::apply_tail).
AdoptedTailIsFold ==
    \A a \in {b \in Actor : pending[b] = <<>>} : \A cut \in log[a] :
        LET image == {op \in log[a] : ~Before(Key(cut), Key(op))}
            adopted == IntoState(image, log[a] \ image)
        IN /\ Sheet(adopted) = RefSheet(log[a])
           /\ \A row \in CellRows(image) : Losers(adopted, row) = RefLosers(log[a], row)

=============================================================================
