----------------------------- MODULE ShellBook ------------------------------
(***************************************************************************)
(* The session (usk-reduce) as the desktop shell drives it: commands by    *)
(* ordinal, each compiled against the live order and pushed as one undo    *)
(* group, and the shell's clipboard, fill and reference translation over   *)
(* it.  The sheet is one column, so a cell is its row.  One actor edits,   *)
(* so no undo is blocked (EditSession has that).                           *)
(*                                                                         *)
(* A text is a sequence of characters: an equals sign, a letter, #REF!, or *)
(* the A1 name of an ordinal as one character.  A word reads back as       *)
(* typed.  A formula's bindings and its result are not kept (CalcEngine    *)
(* has them): a cell is its source.                                        *)
(***************************************************************************)
EXTENDS AxisOrder

CONSTANT MaxRow     \* greatest row identity (a bound)

Equals == -1
Letter == -2
Broken == -3        \* #REF!
Blank == <<>>

IsFormula(text) == Len(text) > 1 /\ text[1] = Equals
NamedIn(text) == {n \in Range(text) : n >= 0}

\* The live identities in order: row_order.
LiveOrder(rows) == [n \in 1 .. Cardinality(LiveIds(rows)) |-> At(rows, n - 1)]

-----------------------------------------------------------------------------
(* Commands.                                                               *)

Write(ordinal, text) == [kind |-> "write", at |-> ordinal, text |-> text]
Clear(ordinal) == Write(ordinal, Blank)
Structural(kind, ordinal) == [kind |-> kind, at |-> ordinal]

NextRow(book) == Max({0} \union IdsOf(book.rows)) + 1

\* An ordinal off the sheet, or a formula that names one, is refused.
Refused(book, command) ==
    LET size == Cardinality(LiveIds(book.rows))
    IN CASE command.kind = "write" ->
              \/ command.at >= size
              \/ IsFormula(command.text) /\ \E n \in NamedIn(command.text) : n >= size
         [] command.kind = "insert" -> command.at > size
         [] command.kind = "delete" -> command.at >= size

\* The undo entry of a command: what a cell held, or what happened to a row.
CellEntry(book, row) == [kind |-> "cell", row |-> row, prior |-> book.content[row]]
RowEntry(kind, row) == [kind |-> kind, row |-> row]

Accomplished(book, command) ==
    LET row == At(book.rows, command.at)
    IN CASE command.kind = "write" ->
              [book EXCEPT !.content[row] = command.text,
                           !.undo = Append(@, CellEntry(book, row))]
         [] command.kind = "insert" ->
              [book EXCEPT
                 !.rows = InsertAfter(@, IF command.at = 0 THEN 0
                                         ELSE At(@, command.at - 1), NextRow(book)),
                 !.undo = Append(@, RowEntry("inserted", NextRow(book)))]
         [] command.kind = "delete" ->
              [book EXCEPT !.rows = SetLive(@, row, FALSE),
                           !.undo = Append(@, RowEntry("deleted", row))]

\* Session::apply: a fresh edit forgets what was undone; a refusal changes nothing.
Apply(book, command) ==
    IF Refused(book, command) THEN book
    ELSE [Accomplished(book, command) EXCEPT !.redo = <<>>]

ApplyAll(book, commands) == FoldLeft(Apply, book, commands)

-----------------------------------------------------------------------------
(* Undo and redo: an inverse is written as an edit of today's sheet.       *)

\* What inverting an entry does, and the entry that inverts that.
Inverted(book, entry) ==
    CASE entry.kind = "cell" -> [book EXCEPT !.content[entry.row] = entry.prior]
      [] entry.kind = "inserted" -> [book EXCEPT !.rows = SetLive(@, entry.row, FALSE)]
      [] entry.kind = "deleted" -> [book EXCEPT !.rows = SetLive(@, entry.row, TRUE)]
InverseOf(book, entry) ==
    CASE entry.kind = "cell" -> CellEntry(book, entry.row)
      [] entry.kind = "inserted" -> RowEntry("deleted", entry.row)
      [] entry.kind = "deleted" -> RowEntry("inserted", entry.row)

Undone(book) ==
    IF book.undo = <<>> THEN book
    ELSE [Inverted(book, Last(book.undo)) EXCEPT
            !.undo = Front(@), !.redo = Append(@, InverseOf(book, Last(book.undo)))]
Redone(book) ==
    IF book.redo = <<>> THEN book
    ELSE [Inverted(book, Last(book.redo)) EXCEPT
            !.redo = Front(@), !.undo = Append(@, InverseOf(book, Last(book.redo)))]

-----------------------------------------------------------------------------
(* Blocks: clipboard, fill and translate.                                  *)

\* Moves every relative reference; one that leaves the top of the grid breaks.
Translated(text, delta) ==
    IF ~IsFormula(text) THEN text
    ELSE [i \in DOMAIN text |->
            IF text[i] < 0 THEN text[i]
            ELSE IF text[i] + delta < 0 THEN Broken ELSE text[i] + delta]

\* What the clipboard and a fill read of a cell; nothing off the sheet.
ClipCell(book, axis, ordinal) ==
    IF ordinal < Len(axis) THEN book.content[axis[ordinal + 1]] ELSE Blank

\* The commands of a paste at "top": one delta for the block, no row beyond the axis.
PasteCommands(axis, block, top) ==
    LET text(i) == IF block.translate
                   THEN Translated(block.cells[i], top - block.origin)
                   ELSE block.cells[i]
        fitting == Min({Len(block.cells), Len(axis) - top})
    IN [i \in 1 .. fitting |-> Write(top + i - 1, text(i))]

ClearCommands(range) ==
    [i \in 1 .. range[2] - range[1] + 1 |-> Clear(range[1] + i - 1)]

\* The commands of a fill, in drag order: the origin's cells repeat beyond it, each
\* moved by how far it travelled.
FillCommands(book, axis, origin, target) ==
    LET size == origin[2] - origin[1] + 1
        down == target[2] > origin[2]
        count == IF down THEN target[2] - origin[2] ELSE origin[1] - target[1]
        from(i) == IF down THEN origin[1] + ((i - 1) % size) ELSE origin[2] - ((i - 1) % size)
        to(i) == IF down THEN origin[2] + i ELSE origin[1] - i
    IN [i \in 1 .. count |->
          Write(to(i), Translated(ClipCell(book, axis, from(i)), to(i) - from(i)))]
=============================================================================
