------------------------------- MODULE Shell --------------------------------
(***************************************************************************)
(* The desktop shell's App (ehkatra-shell app.rs), between the window's    *)
(* events and the session: cursor and selection, in-cell editor and input  *)
(* method, clipboard and pending cut, pointer gestures, and the viewport.  *)
(*                                                                         *)
(* One column, so a cell is a row and a step to the side stays put.  A     *)
(* pointer is the slot it is over, or the fill handle; the theme's offsets *)
(* are left out, with the status line.                                     *)
(***************************************************************************)
EXTENDS GridView, ShellBook

CONSTANTS
    Scenes,     \* how the shell may open: a text per row, the window's height, and
                \* whether there is a system's clipboard
    Heights,    \* heights the window may have, in pixels
    Scrolls,    \* pixel deltas of the wheel
    Keys,       \* characters the user may type
    Foreign,    \* words another application may put on the clipboard
    Results,    \* words a formula may show
    MaxText,    \* longest text in the editor (a bound)
    MaxEvents   \* bound: events

Texts == {text \in Seq(Int) : Len(text) <= MaxText}

ASSUME ShellAssumption ==
    /\ MaxRow \in Nat \ {0} /\ MaxText \in Nat \ {0} /\ MaxEvents \in Nat
    /\ \A scene \in Scenes :
         /\ scene.texts \in Seq(Texts) /\ Len(scene.texts) <= MaxRow
         /\ scene.height \in Heights /\ scene.system \in BOOLEAN
    /\ Heights \subseteq Nat /\ Scrolls \subseteq Int
    /\ Keys \subseteq Int /\ Foreign \union Results \subseteq Texts
    /\ \A word \in Foreign \union Results : ~IsFormula(word)

VARIABLES
    book,       \* the session
    axis,       \* the shell's copy of the live order
    view,       \* anchor and height
    active, anchor,     \* the cursor, and the selection's other corner
    editor,     \* row, text, caret and preedit; or None
    mine,       \* block last copied, its text and the identities it came from; or None
    os,         \* the system's clipboard: whether there is one, and its text by rows
    cut,        \* ordinals to clear when its block is pasted; or None
    drag,       \* the gesture: none, select, or a fill and its preview
    pressed,    \* the button is down
    events      \* events so far

doc == <<book, axis>>
cursor == <<active, anchor>>
board == <<mine, os, cut>>
pointer == <<drag, pressed>>
vars == <<book, axis, view, active, anchor, editor, mine, os, cut, drag, pressed, events>>

None == <<>>
NoDrag == [kind |-> "none"]
SelectDrag == [kind |-> "select"]
FillDrag(origin, preview) == [kind |-> "fill", origin |-> origin, preview |-> preview]

Shown == Visible(axis, view.anchor, view.height)
ActiveIndex == IndexOr0(axis, active)

\* The selected ordinals, first and last; nothing on an empty sheet.
Selection ==
    IF ~Has(axis, active) THEN None
    ELSE LET a == ActiveIndex
             h == IF Has(axis, anchor) THEN IndexOf(axis, anchor) ELSE a
         IN <<Min({a, h}), Max({a, h})>>

Init ==
    \E scene \in Scenes :
        LET n == Len(scene.texts) IN
        /\ book = [rows |-> [i \in 1 .. n |-> [id |-> i, live |-> TRUE]],
                   content |-> [id \in 1 .. MaxRow |->
                                  IF id <= n THEN scene.texts[id] ELSE Blank],
                   undo |-> <<>>, redo |-> <<>>]
        /\ axis = [i \in 1 .. n |-> i]
        /\ view = [anchor |-> DefaultAnchor, height |-> scene.height]
        /\ active = 1 /\ anchor = 1
        /\ editor = None /\ mine = None /\ cut = None
        /\ os = [there |-> scene.system, text |-> <<>>]
        /\ drag = NoDrag /\ pressed = FALSE /\ events = 0

Event == events < MaxEvents /\ events' = events + 1

-----------------------------------------------------------------------------
(* Committing an editor, and moving the cursor.                            *)

Open == editor # None
Composing == Open /\ editor.preedit # <<>>

\* MUTANT of Landing: the edit lands where the cursor is.
LandingAtCursor ==
    IF ~Open \/ ~Has(axis, active) THEN [book |-> book, editor |-> None]
    ELSE LET command == Write(IndexOf(axis, active), editor.text)
         IN IF Refused(book, command) THEN [book |-> book, editor |-> editor]
            ELSE [book |-> Apply(book, command), editor |-> None]

\* What a commit leaves: an edit of a deleted cell is dropped, a refused one stays open.
Landing ==
    IF ~Open \/ ~Has(axis, editor.row) THEN [book |-> book, editor |-> None]
    ELSE LET command == Write(IndexOf(axis, editor.row), editor.text)
         IN IF Refused(book, command) THEN [book |-> book, editor |-> editor]
            ELSE [book |-> Apply(book, command), editor |-> None]

Commit == book' = Landing.book /\ editor' = Landing.editor

LastRow == Max({0, Len(axis) - 1})
Occupied(ordinal) == book.content[IdAt(axis, ordinal)] # Blank

\* Ctrl+arrow: as many steps as lead to the end of the run that starts at the
\* next cell, or else to the next cell that holds something, or to the edge.
DataEdge(from, direction) ==
    LET ahead == IF direction > 0 THEN LastRow - from ELSE from
        full == {k \in 1 .. ahead : Occupied(from + direction * k)}
        empty == (1 .. ahead) \ full
    IN from + direction *
         (IF 1 \in full THEN Min(empty \union {ahead + 1}) - 1 ELSE Min(full \union {ahead}))

Page == Max({1, Cardinality(Shown) - 1})

\* The ordinal each step leads to; one beyond the sheet's end stops there.
Steps == {"side", "up", "down", "page up", "page down", "start", "end",
          "edge up", "edge down"}
Reached(step, from) ==
    CASE step = "side" -> from
      [] step = "up" -> Max({0, from - 1})
      [] step = "down" -> Min({from + 1, LastRow})
      [] step = "page up" -> Max({0, from - Page})
      [] step = "page down" -> Min({from + Page, LastRow})
      [] step = "start" -> 0
      [] step = "end" -> LastRow
      [] step = "edge up" -> DataEdge(from, -1)
      [] step = "edge down" -> DataEdge(from, 1)

\* Moving commits first; the cursor is then scrolled into view.
MoveCursor(step, extend) ==
    /\ Commit
    /\ IF axis = <<>> THEN UNCHANGED <<cursor, view>>
       ELSE LET row == IdAt(axis, Reached(step, ActiveIndex))
                delta == ScrollNeeded(axis, view.anchor, view.height, row)
            IN /\ active' = row
               /\ anchor' = IF extend THEN anchor ELSE row
               /\ view' = IF delta = 0 THEN view
                          ELSE [view EXCEPT
                                  !.anchor = Scrolled(axis, @, delta, view.height)]
    /\ UNCHANGED <<axis, board, pointer>>

-----------------------------------------------------------------------------
(* Keys.  An open editor and the grid have keymaps of their own, and a     *)
(* composing editor heeds Escape alone.                                    *)

GridKey == Event /\ ~Open
EditKey == Event /\ Open /\ ~Composing

Move(step, extend) == GridKey /\ MoveCursor(step, extend)

\* Enter, Tab and the vertical arrows.
CommitAnd(step) == EditKey /\ step \in {"side", "up", "down"} /\ MoveCursor(step, FALSE)

Opened(text) == [row |-> active, text |-> text, caret |-> Len(text), preedit |-> <<>>]

\* F2 opens the cell's source, Backspace nothing, a character itself.
BeginEdit(text) ==
    /\ GridKey
    /\ editor' = Opened(text)
    /\ anchor' = active
    /\ UNCHANGED <<doc, view, active, board, pointer>>

\* The text with the characters after "from" up to "to" replaced.
Spliced(text, from, to, new) ==
    SubSeq(text, 1, from) \o new \o SubSeq(text, to + 1, Len(text))

EditTo(text, caret) ==
    /\ editor' = [editor EXCEPT !.text = text, !.caret = caret]
    /\ UNCHANGED <<doc, view, cursor, board, pointer>>

Insert(char) ==
    /\ EditKey /\ Len(editor.text) < MaxText
    /\ EditTo(Spliced(editor.text, editor.caret, editor.caret, <<char>>), editor.caret + 1)
Backspace ==
    /\ EditKey /\ editor.caret > 0
    /\ EditTo(Spliced(editor.text, editor.caret - 1, editor.caret, <<>>), editor.caret - 1)
DeleteForward ==
    /\ EditKey /\ editor.caret < Len(editor.text)
    /\ EditTo(Spliced(editor.text, editor.caret, editor.caret + 1, <<>>), editor.caret)
\* Left, right, Home and End.
CaretTo(at) ==
    /\ EditKey
    /\ at \in {Max({0, editor.caret - 1}), Min({editor.caret + 1, Len(editor.text)}),
               0, Len(editor.text)}
    /\ EditTo(editor.text, at)

\* Escape closes the innermost thing open: composition, editor, selection.
Cancel ==
    /\ Event
    /\ IF Composing
       THEN editor' = [editor EXCEPT !.preedit = <<>>] /\ UNCHANGED anchor
       ELSE editor' = None /\ anchor' = IF Open THEN anchor ELSE active
    /\ UNCHANGED <<doc, view, active, board, pointer>>

\* Delete: one command for each selected cell.
ClearSelection ==
    /\ GridKey /\ Selection # None
    /\ book' = ApplyAll(book, ClearCommands(Selection))
    /\ UNCHANGED <<axis, view, cursor, editor, board, pointer>>

-----------------------------------------------------------------------------
(* The input method.  A composition is apart from the buffer; it opens an  *)
(* empty editor when none is open.                                         *)

Editing == IF Open THEN editor ELSE Opened(<<>>)
Anchored == anchor' = IF Open THEN anchor ELSE active

Preedit(text) ==
    /\ Event
    /\ editor' = [Editing EXCEPT !.preedit = text]
    /\ Anchored
    /\ UNCHANGED <<doc, view, active, board, pointer>>

PreeditWithdrawn ==
    /\ Event /\ Composing
    /\ editor' = [editor EXCEPT !.preedit = <<>>]
    /\ UNCHANGED <<doc, view, cursor, board, pointer>>

\* What is finalised goes in at the caret as a unit.
ImeCommit(text) ==
    /\ Event /\ Len(Editing.text) + Len(text) <= MaxText
    /\ text = <<>> => Open
    /\ editor' = [Editing EXCEPT
                    !.text = Spliced(@, Editing.caret, Editing.caret, text),
                    !.caret = @ + Len(text), !.preedit = <<>>]
    /\ Anchored
    /\ UNCHANGED <<doc, view, active, board, pointer>>

-----------------------------------------------------------------------------
(* The clipboard.                                                          *)

\* from_tsv: a text is cut into rows, and a blank one at its end is none.
Fields(text) == IF text # <<>> /\ Last(text) = Blank THEN Front(text) ELSE text

\* What a paste takes (Clipboard::read): the block copied here while the system holds
\* its text or there is no system's clipboard, and else the text as any other.
clip ==
    IF mine # None /\ (~os.there \/ os.text = mine.text) THEN mine
    ELSE IF Fields(os.text) = <<>> THEN None
    ELSE [cells |-> Fields(os.text), origin |-> 0, translate |-> TRUE, ids |-> <<>>,
          text |-> os.text]

\* The text has what each cell shows.  The system may refuse it.
Copy(cutting, refused) ==
    /\ GridKey /\ Selection # None
    /\ refused => os.there
    /\ LET size == Selection[2] - Selection[1] + 1
           cell(i) == ClipCell(book, axis, Selection[1] + i - 1)
       IN \E shows \in [1 .. size -> Results] :
            mine' = [cells |-> [i \in 1 .. size |-> cell(i)],
                     origin |-> Selection[1], translate |-> ~cutting,
                     ids |-> [i \in 1 .. size |-> IdAt(axis, Selection[1] + i - 1)],
                     text |-> [i \in 1 .. size |->
                                 IF IsFormula(cell(i)) THEN shows[i] ELSE cell(i)]]
    /\ os' = IF os.there /\ ~refused THEN [os EXCEPT !.text = mine'.text] ELSE os
    /\ cut' = IF cutting THEN Selection ELSE None
    /\ UNCHANGED <<doc, view, cursor, editor, pointer>>

\* Another application's text displaces ours, and leaves a pending cut alone.
ForeignCopy(word) ==
    /\ Event
    /\ os.there
    /\ os' = [os EXCEPT !.text = <<word>>]
    /\ UNCHANGED <<doc, view, cursor, editor, mine, cut, pointer>>

\* MUTANT of Pasted: the cut range is cleared after the block is written.
PastedThenCleared ==
    LET written == ApplyAll(book, PasteCommands(axis, clip, ActiveIndex))
    IN IF cut = None THEN written ELSE ApplyAll(written, ClearCommands(cut))

\* The cut range is cleared before the block is written: they may overlap.
Pasted ==
    LET cleared == IF cut = None THEN book ELSE ApplyAll(book, ClearCommands(cut))
    IN ApplyAll(cleared, PasteCommands(axis, clip, ActiveIndex))

Paste ==
    /\ GridKey /\ clip # None
    /\ book' = Pasted
    /\ cut' = None
    /\ UNCHANGED <<axis, view, cursor, editor, mine, os, pointer>>

\* Nothing is on the clipboard, or the system does not let it be read.
PasteNothing ==
    /\ GridKey
    /\ clip = None \/ os.there
    /\ UNCHANGED <<doc, view, cursor, editor, board, pointer>>

-----------------------------------------------------------------------------
(* The sheet's shape.  After an edit of it everything that pointed into    *)
(* the old axis is found again: by identity, or else by place.             *)

\* MUTANT of Refound: what pointed into the old axis is kept.
Kept(row, to) == row

Refound(row, to) ==
    IF Has(to, row) \/ to = <<>> THEN row
    ELSE IdAt(to, Min({IndexOr0(axis, row), Len(to) - 1}))

Rebuilt ==
    LET to == LiveOrder(book'.rows) IN
    /\ axis' = to
    /\ view' = [view EXCEPT !.anchor = Reanchored(to, axis, @)]
    /\ active' = Refound(active, to) /\ anchor' = Refound(anchor, to)
    /\ UNCHANGED <<editor, board, pointer>>

\* Insert and delete at the cursor.  On a sheet with no row a delete is refused.
Restructure(kind) ==
    /\ GridKey
    /\ kind = "insert" => NextRow(book) <= MaxRow
    /\ ~Refused(book, Structural(kind, ActiveIndex))
    /\ book' = Apply(book, Structural(kind, ActiveIndex))
    /\ Rebuilt

History(undoing) ==
    /\ GridKey
    /\ book' = IF undoing THEN Undone(book) ELSE Redone(book)
    /\ Rebuilt

-----------------------------------------------------------------------------
(* The pointer, the wheel and the window.                                  *)

\* The handle hangs at the selection's lower corner, when that is on screen.
HandleShown == ~Open /\ Selection # None /\ \E slot \in Shown : slot.index = Selection[2]

PressHandle ==
    /\ Event /\ ~pressed /\ pressed' = TRUE
    /\ HandleShown
    /\ drag' = FillDrag(Selection, None)
    /\ UNCHANGED <<doc, view, cursor, editor, board>>

\* A point of the grid is over a slot that is not wholly above the edge.
Under(slot) == slot.at + RowHeight > 0

\* A press away from an open editor commits it, composing or not.
PressCell(slot, extend) ==
    /\ Event /\ ~pressed /\ pressed' = TRUE
    /\ Under(slot)
    /\ Commit
    /\ drag' = SelectDrag
    /\ active' = slot.id
    /\ anchor' = IF extend THEN anchor ELSE slot.id
    /\ UNCHANGED <<axis, view, board>>

\* A press outside the grid starts no gesture, yet the button is down.
PressOutside ==
    /\ Event /\ ~pressed /\ pressed' = TRUE
    /\ UNCHANGED <<doc, view, cursor, editor, board, drag>>

\* A fill reaches for the slot under the pointer, or the nearest one shown; within the
\* origin it is nothing.
FillTarget(origin, slot) ==
    IF slot.index \in origin[1] .. origin[2] THEN None
    ELSE <<Min({origin[1], slot.index}), Max({origin[2], slot.index})>>

DragTo(slot) ==
    /\ Event /\ pressed
    /\ IF drag.kind = "fill"
       THEN drag' = FillDrag(drag.origin, FillTarget(drag.origin, slot)) /\ UNCHANGED active
       ELSE Under(slot) /\ active' = slot.id /\ UNCHANGED drag
    /\ UNCHANGED <<doc, view, anchor, editor, board, pressed>>

\* Nothing on screen to reach for.
DragOverNothing ==
    /\ Event /\ pressed /\ Shown = {} /\ drag.kind = "fill"
    /\ drag' = FillDrag(drag.origin, None)
    /\ UNCHANGED <<doc, view, cursor, editor, board, pressed>>

\* The selection grows over what was filled, unless the sheet no longer reaches it.
Filled(origin, target) ==
    /\ book' = ApplyAll(book, FillCommands(book, axis, origin, target))
    /\ IF target[2] < Len(axis)
       THEN anchor' = IdAt(axis, target[1]) /\ active' = IdAt(axis, target[2])
       ELSE UNCHANGED cursor

Release ==
    /\ Event /\ pressed /\ pressed' = FALSE
    /\ drag' = NoDrag
    /\ IF drag.kind = "fill" /\ drag.preview # None
       THEN Filled(drag.origin, drag.preview)
       ELSE UNCHANGED <<book, cursor>>
    /\ UNCHANGED <<axis, view, editor, board>>

Scroll(delta) ==
    /\ Event
    /\ view' = [view EXCEPT !.anchor = Scrolled(axis, @, delta, view.height)]
    /\ UNCHANGED <<doc, cursor, editor, board, pointer>>

Resize(height) ==
    /\ Event
    /\ view' = [view EXCEPT !.height = height]
    /\ UNCHANGED <<doc, cursor, editor, board, pointer>>

-----------------------------------------------------------------------------
\* source_at: what the cell holds, were its row deleted.
Source == book.content[active]

Typing ==
    \/ \E text \in {Source, Blank} \union {<<char>> : char \in Keys} : BeginEdit(text)
    \/ \E char \in Keys : Insert(char)
    \/ Backspace \/ DeleteForward
    \/ \E at \in 0 .. MaxText : CaretTo(at)
    \/ Cancel
    \/ \E char \in Keys : Preedit(<<char>>) \/ ImeCommit(<<char>>)
    \/ PreeditWithdrawn \/ ImeCommit(<<>>)

Moving ==
    \/ \E step \in Steps, extend \in BOOLEAN : Move(step, extend)
    \/ \E step \in Steps : CommitAnd(step)
    \/ \E delta \in Scrolls : Scroll(delta)
    \/ \E height \in Heights : Resize(height)

Changing ==
    \/ ClearSelection
    \/ \E cutting, refused \in BOOLEAN : Copy(cutting, refused)
    \/ \E word \in Foreign : ForeignCopy(word)
    \/ Paste \/ PasteNothing
    \/ \E kind \in {"insert", "delete"} : Restructure(kind)
    \/ \E undoing \in BOOLEAN : History(undoing)

Pointing ==
    \/ PressHandle \/ PressOutside \/ DragOverNothing \/ Release
    \/ \E slot \in Shown :
         \/ \E extend \in BOOLEAN : PressCell(slot, extend)
         \/ DragTo(slot)

Next == Typing \/ Moving \/ Changing \/ Pointing
Spec == Init /\ [][Next]_vars

-----------------------------------------------------------------------------
(* Properties.                                                             *)

Pending(range) == range # None => range[1] <= range[2]

\* TYPE: the shell's axis is the session's live order (rebuild_axes after every
\* structural edit), cursor, selection and editor are on live rows whenever there is
\* one, a caret is within its text, and a fill has a gesture to belong to.
TypeOK ==
    /\ AxisOK(book.rows) /\ IdsOf(book.rows) \subseteq 1 .. MaxRow
    /\ axis = LiveOrder(book.rows)
    /\ view.anchor \in Anchor /\ view.height \in Heights
    /\ axis # <<>> => /\ {active, anchor} \subseteq Range(axis)
                      /\ view.anchor.id \in Range(axis) \union {NoId}
    /\ Open => /\ axis # <<>> => Has(axis, editor.row)
               /\ editor.caret \in 0 .. Len(editor.text)
               /\ Len(editor.text) <= MaxText
    /\ Pending(cut)
    /\ drag.kind = "fill" => pressed /\ Pending(drag.origin) /\ Pending(drag.preview)

FillReleased == drag.kind = "fill" /\ drag' = NoDrag

\* While an editor is open the document changes only by a write of the whole buffer
\* into the editor's own row (Editor: "remembered by identity"), wherever a drag, a
\* refused formula or a click has left the cursor, and never by an unfinished
\* composition; a fill begun before it may land.  An editor that closes has written
\* its buffer, unless it was abandoned or its row is gone.
EditLandsInItsCell ==
    [][Open =>
        /\ \/ FillReleased
           \/ book'.content = book.content
           \/ book'.content = [book.content EXCEPT ![editor.row] = editor.text]
        /\ editor' = None =>
             \/ book'.content[editor.row] = editor.text
             \/ ~Has(axis, editor.row)
             \/ UNCHANGED <<doc, view, cursor, board, pointer>>
      ]_vars

\* The cut still stands: its block is what a paste takes, the sheet has not moved
\* under it nor its cells changed, and the block fits, with formulas that bind.
CutStands ==
    /\ cut # None /\ clip # None /\ clip.ids # <<>> /\ ~clip.translate
    /\ \A i \in DOMAIN clip.ids :
         /\ clip.origin + i <= Len(axis) /\ axis[clip.origin + i] = clip.ids[i]
         /\ book.content[clip.ids[i]] = clip.cells[i]
         /\ ~Refused(book, Write(ActiveIndex, clip.cells[i]))
    /\ ActiveIndex + Len(clip.cells) <= Len(axis)

\* Pasting a cut that still stands moves it: the target holds the block as it was,
\* the rest of the source is blank, overlap or no, and nothing else changes (App::paste).
CutMoves ==
    [][CutStands /\ cut' = None /\ clip' = clip =>
        LET moved == {IndexOf(axis, id) : id \in Range(clip.ids)}
            target == {ActiveIndex + i - 1 : i \in DOMAIN clip.cells}
        IN \A i \in 0 .. Len(axis) - 1 :
             book'.content[IdAt(axis, i)] =
                IF i \in target THEN clip.cells[i - ActiveIndex + 1]
                ELSE IF i \in moved THEN Blank
                ELSE book.content[IdAt(axis, i)]
      ]_vars

FullyShown(id) ==
    \E slot \in Shown : slot.id = id /\ slot.at >= 0 /\ slot.at + RowHeight <= view.height

\* Nothing teleports (ADR-022): after an edit of the sheet's shape the cursor is on
\* the cell it was on if that lives, the rows from the first shown one on are drawn
\* where they were if none of them changed, and a viewport whose own row is gone
\* keeps its pixel.  And a cursor that moves by key is fully on screen.  Left out: a
\* window neither scrolled nor reshaped yet, which is on no row (DefaultAnchor) and
\* is shifted by a row inserted above the first; and a cursor moved by the pointer
\* or by a fill, which may be on a row cut off.
ViewHolds ==
    [][/\ axis' # axis /\ axis' # <<>> =>
            /\ Has(axis', active) => active' = active
            /\ LET first == AnchorIndex(axis, view.anchor)
                   rest == SubSeq(axis, first + 1, Len(axis))
                   shownRows(slots) == {[id |-> slot.id, at |-> slot.at] : slot \in slots}
               IN view.anchor.id # NoId =>
                    /\ IsSuffix(rest, axis') => shownRows(Shown') = shownRows(Shown)
                    /\ ~Has(axis', view.anchor.id) =>
                          TopPixel(axis', view'.anchor) = TopPixel(axis, view.anchor)
       /\ active' # active /\ axis' = axis /\ ~pressed /\ ~pressed'
            /\ RowHeight <= view.height => FullyShown(active)'
      ]_vars
=============================================================================
