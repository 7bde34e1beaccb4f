---------------------------- MODULE EditSession ----------------------------
(***************************************************************************)
(* usk-reduce: one editing Session per actor over a shared workbook.  A    *)
(* session keeps a log, a state folded from it, the ops not folded yet,    *)
(* undo and redo stacks, and the counters it mints ops from.               *)
(*                                                                         *)
(* A session starts by opening the base workbook or empty, as a peer that  *)
(* joins does.  Ops reach other sessions in any interleaving, each         *)
(* author's in order, which is what the replica delivers.  Every value an  *)
(* op writes is the id of the op that first wrote it.                      *)
(***************************************************************************)
EXTENDS WorkbookState

CONSTANTS
    Actor,      \* editing actors
    BaseRows,   \* rows of the workbook everybody may open
    MaxOps,     \* bound: ops minted altogether
    MaxGrown    \* bound: the same once one of them inserts a row

Genesis == 0

ASSUME ActorAssumption == Actor \subseteq Nat \ {Genesis}
ASSUME BaseRowsAssumption == BaseRows \in Nat
ASSUME MaxOpsAssumption == MaxOps \in Nat /\ MaxGrown \in 0 .. MaxOps

VARIABLES
    log,        \* actor -> ops held
    state,      \* actor -> the fold taken last
    pending,    \* actor -> ops in the log and not yet in state
    undo,       \* actor -> undo stack, one entry per command
    redo,
    counter,    \* actor -> last counter minted
    lamport     \* actor -> greatest lamport seen

vars == <<log, state, pending, undo, redo, counter, lamport>>

BaseRow(n) == <<Genesis, n>>

\* BaseRows rows, each below the one before.
Base ==
    {[actor |-> Genesis, counter |-> n, lamport |-> n, kind |-> "insert",
      row |-> IF n = 1 THEN Root ELSE BaseRow(n - 1), val |-> Blank] : n \in 1 .. BaseRows}

\* Greatest member of a set of numbers, 0 if it is empty.
Greatest(S) == IF S = {} THEN 0 ELSE CHOOSE n \in S : \A m \in S : m <= n

Counters(ops, a) == {op.counter : op \in {o \in ops : o.actor = a}}
Lamports(ops) == {op.lamport : op \in ops}

\* Session::new with an empty log, Session::from_log with the base workbook.
Init ==
    \E joining \in SUBSET Actor :
        LET opened(a) == IF a \in joining THEN {} ELSE Base
        IN /\ log = [a \in Actor |-> opened(a)]
           /\ state = [a \in Actor |-> IF a \in joining THEN EmptyState ELSE Replay(Base)]
           /\ pending = [a \in Actor |-> <<>>]
           /\ undo = [a \in Actor |-> <<>>]
           /\ redo = [a \in Actor |-> <<>>]
           /\ counter = [a \in Actor |-> 0]
           /\ lamport = [a \in Actor |-> Greatest(Lamports(opened(a)))]

-----------------------------------------------------------------------------
(* Folding.                                                                *)

\* The state a read sees: the tip path if it takes the batch, else a replay.
Settled(a) ==
    IF pending[a] = <<>> THEN state[a]
    ELSE IF TipAccepts(state[a], pending[a]) THEN ApplyTip(state[a], pending[a])
    ELSE Replay(log[a])

Settle(a) ==
    /\ pending[a] # <<>>
    /\ state' = [state EXCEPT ![a] = Settled(a)]
    /\ pending' = [pending EXCEPT ![a] = <<>>]
    /\ UNCHANGED <<log, undo, redo, counter, lamport>>

-----------------------------------------------------------------------------
(* Commands (reduce_v1).  A command settles, then mints one op.            *)

\* MUTANT of Mint: the clock ticks with this actor's own ops only.
MintByCounter(a, kind, row, val) ==
    [actor |-> a, counter |-> counter[a] + 1, lamport |-> counter[a] + 1,
     kind |-> kind, row |-> row, val |-> val]

Mint(a, kind, row, val) ==
    [actor |-> a, counter |-> counter[a] + 1, lamport |-> lamport[a] + 1,
     kind |-> kind, row |-> row, val |-> val]

NextId(a) == <<a, counter[a] + 1>>

Minted == FoldFunction(+, 0, counter)

Grown == \E a \in Actor : \E op \in log[a] : op.actor # Genesis /\ op.kind = "insert"

Room == Minted < IF Grown THEN MaxGrown ELSE MaxOps

\* A cell's content as undo restores it.
Content(s, row) ==
    IF Formula(s, row) # Blank THEN [kind |-> "formula", val |-> Formula(s, row)]
    ELSE [kind |-> "cell", val |-> IF row \in DOMAIN s.value THEN s.value[row] ELSE Blank]

NoContent == [kind |-> "cell", val |-> Blank]

\* What undoing would have to invert: a cell write with what was there before,
\* a row that appeared, a row that went.
WroteCell(row, prior) == [kind |-> "wrote", row |-> row, prior |-> prior]
Inserted(row) == [kind |-> "inserted", row |-> row, prior |-> NoContent]
Deleted(row) == [kind |-> "deleted", row |-> row, prior |-> NoContent]

\* MUTANT of Emit: the op is queued for the fold and never logged.
EmitUnlogged(a, now, op) ==
    /\ log' = log
    /\ counter' = [counter EXCEPT ![a] = op.counter]
    /\ lamport' = [lamport EXCEPT ![a] = op.lamport]
    /\ state' = [state EXCEPT ![a] = now]
    /\ pending' = [pending EXCEPT ![a] = <<op>>]

\* Append one op of this actor to a session settled to now; the new batch waits
\* for the next read.
Emit(a, now, op) ==
    /\ log' = [log EXCEPT ![a] = @ \union {op}]
    /\ counter' = [counter EXCEPT ![a] = op.counter]
    /\ lamport' = [lamport EXCEPT ![a] = op.lamport]
    /\ state' = [state EXCEPT ![a] = now]
    /\ pending' = [pending EXCEPT ![a] = <<op>>]

Command(a, now, op, entry) ==
    /\ Emit(a, now, op)
    /\ undo' = [undo EXCEPT ![a] = Append(@, entry)]
    /\ redo' = [redo EXCEPT ![a] = <<>>]

SetValue(a, now, row) ==
    Command(a, now, Mint(a, "cell", row, NextId(a)), WroteCell(row, Content(now, row)))

ClearCell(a, now, row) ==
    Command(a, now, Mint(a, "cell", row, Blank), WroteCell(row, Content(now, row)))

EnterFormula(a, now, row) ==
    Command(a, now, Mint(a, "formula", row, NextId(a)), WroteCell(row, Content(now, row)))

\* At the top, or below a live row.
AddRow(a, now, anchor) ==
    Command(a, now, Mint(a, "insert", anchor, Blank), Inserted(NextId(a)))

DeleteRow(a, now, row) ==
    Command(a, now, Mint(a, "delete", row, Blank), Deleted(row))

\* Coordinates are ordinals of the live view.
Edit(a) ==
    LET now == Settled(a)
        live == ToSet(LiveOrder(now))
    IN /\ Room
       /\ \/ \E row \in live : \/ SetValue(a, now, row)
                               \/ ClearCell(a, now, row)
                               \/ EnterFormula(a, now, row)
                               \/ DeleteRow(a, now, row)
          \/ /\ Minted < MaxGrown
             /\ \E anchor \in live \union {Root} : AddRow(a, now, anchor)

-----------------------------------------------------------------------------
(* Undo and redo: the inverse of the top entry, made against current state.*)

CellOps(ops, row) == {op \in ops : op.kind \in {"cell", "formula"} /\ op.row = row}

WinningOp(ops, row) ==
    CHOOSE op \in CellOps(ops, row) : \A o \in CellOps(ops, row) : ~Before(Key(op), Key(o))

OthersWroteIn(a, row) == \E op \in CellOps(log[a], row) : op.actor # a

\* Undoing it would take away another actor's work.
Blocked(a, entry) ==
    CASE entry.kind = "wrote"    -> \/ CellOps(log[a], entry.row) = {}
                                    \/ WinningOp(log[a], entry.row).actor # a
      [] entry.kind = "inserted" -> OthersWroteIn(a, entry.row)
      [] entry.kind = "deleted"  -> FALSE

InverseOp(a, entry) ==
    Mint(a,
         CASE entry.kind = "wrote"    -> entry.prior.kind
           [] entry.kind = "inserted" -> "delete"
           [] entry.kind = "deleted"  -> "undelete",
         entry.row,
         IF entry.kind = "wrote" THEN entry.prior.val ELSE Blank)

\* MUTANT of InverseEntry: redo would put back what undo puts back.
InverseEntryPrior(s, entry) ==
    CASE entry.kind = "wrote"    -> WroteCell(entry.row, entry.prior)
      [] entry.kind = "inserted" -> Deleted(entry.row)
      [] entry.kind = "deleted"  -> Inserted(entry.row)

\* The entry that undoes the inverse.
InverseEntry(s, entry) ==
    CASE entry.kind = "wrote"    -> WroteCell(entry.row, Content(s, entry.row))
      [] entry.kind = "inserted" -> Deleted(entry.row)
      [] entry.kind = "deleted"  -> Inserted(entry.row)

\* A blocked entry is dropped; the session has settled all the same.
Drop(a, now) ==
    /\ state' = [state EXCEPT ![a] = now]
    /\ pending' = [pending EXCEPT ![a] = <<>>]
    /\ UNCHANGED <<log, counter, lamport>>

\* Invert the top of one stack; what undoes that goes to the other.
Undo(a) ==
    /\ undo[a] # <<>>
    /\ undo' = [undo EXCEPT ![a] = Front(@)]
    /\ LET entry == Last(undo[a])
           now == Settled(a)
       IN \/ /\ Blocked(a, entry)
             /\ Drop(a, now)
             /\ redo' = redo
          \/ /\ ~Blocked(a, entry)
             /\ Room
             /\ Emit(a, now, InverseOp(a, entry))
             /\ redo' = [redo EXCEPT ![a] = Append(@, InverseEntry(now, entry))]

Redo(a) ==
    /\ redo[a] # <<>>
    /\ redo' = [redo EXCEPT ![a] = Front(@)]
    /\ LET entry == Last(redo[a])
           now == Settled(a)
       IN \/ /\ Blocked(a, entry)
             /\ Drop(a, now)
             /\ undo' = undo
          \/ /\ ~Blocked(a, entry)
             /\ Room
             /\ Emit(a, now, InverseOp(a, entry))
             /\ undo' = [undo EXCEPT ![a] = Append(@, InverseEntry(now, entry))]

-----------------------------------------------------------------------------
(* Ops of others, and reopening.                                           *)

Published == Base \union UNION {log[a] : a \in Actor}

Deliverable(a, op) ==
    /\ op \in Published \ log[a]
    /\ \A o \in Published : o.actor = op.actor /\ o.counter < op.counter => o \in log[a]

\* integrate_batch, one op at a time: a batch is its ops with no read between.
Integrate(a) ==
    \E op \in Published :
        /\ Deliverable(a, op)
        /\ log' = [log EXCEPT ![a] = @ \union {op}]
        /\ lamport' = [lamport EXCEPT ![a] = Greatest({@, op.lamport})]
        /\ counter' = [counter EXCEPT ![a] = IF op.actor = a THEN Greatest({@, op.counter}) ELSE @]
        /\ pending' = [pending EXCEPT ![a] = Append(@, op)]
        /\ UNCHANGED <<state, undo, redo>>

\* MUTANT of ReopenCounter: the mint restarts.
ReopenCounterFresh(a) == 0

\* The mint resumes past every counter this actor's log shows.
ReopenCounter(a) == Greatest(Counters(log[a], a))

\* A session starts over from the log a had, its mint past all of it.
Resumed(a) ==
    /\ counter' = [counter EXCEPT ![a] = ReopenCounter(a)]
    /\ lamport' = [lamport EXCEPT ![a] = Greatest(Lamports(log[a]))]
    /\ undo' = [undo EXCEPT ![a] = <<>>]
    /\ redo' = [redo EXCEPT ![a] = <<>>]
    /\ log' = log

\* The workbook is closed and opened again: Session::from_log.
Reopen(a) ==
    /\ Resumed(a)
    /\ state' = [state EXCEPT ![a] = Replay(log[a])]
    /\ pending' = [pending EXCEPT ![a] = <<>>]

\* A replica restarts: a new session integrates its own log as one batch.  No
\* order of the batch can matter, an empty session has no tip.
Recover(a) ==
    /\ Resumed(a)
    /\ state' = [state EXCEPT ![a] = EmptyState]
    /\ pending' = [pending EXCEPT ![a] = Canonical(log[a])]

Next == \E a \in Actor :
            \/ Settle(a) \/ Edit(a) \/ Undo(a) \/ Redo(a)
            \/ Integrate(a) \/ Reopen(a) \/ Recover(a)

Spec == Init /\ [][Next]_vars
=============================================================================
