---------------------------- MODULE StyleSession ----------------------------
(***************************************************************************)
(* Formatting commands of a session and their undo (usk-reduce), while     *)
(* another author's ops arrive.  One actor, "me", formats and clears,      *)
(* inserts and deletes rows, undoes and redoes; what it mints is newer     *)
(* than all it holds.  Rules of "other" arrive with any stamp that follows *)
(* that author's own.  Undo and redo swap inverse entries; a style entry   *)
(* keeps the rules that were under it, clipped to its target.              *)
(*                                                                         *)
(* Columns stand still.  No cell is written, so no row's undo is blocked   *)
(* (EditSession has that).                                                 *)
(***************************************************************************)
EXTENDS StyleRules

CONSTANTS
    Facets,     \* values of the facet
    Columns,    \* number of columns
    Seeded,     \* rows at the start
    MaxRow,     \* greatest row identity (a bound)
    MaxOwn,     \* bound: own steps
    MaxForeign  \* bound: another author's ops

ASSUME StyleAssumption ==
    {Seeded, Columns} \subseteq Nat \ {0} /\ {MaxOwn, MaxForeign} \subseteq Nat

VARIABLES
    rules,      \* the registry
    rows,       \* the row axis
    undo, redo, \* stacks of entries; for the properties a style entry also has
                \* the rules it was made on, the axes formatting was done on
                \* since, and whether another author's rule has arrived since
    own,        \* own steps so far
    foreign     \* another author's ops so far

vars == <<rules, rows, undo, redo, own, foreign>>

cols == [i \in 1 .. Columns |-> [id |-> i, live |-> TRUE]]
Values == Facets \union {Default}

Cells == LiveIds(rows) \X LiveIds(cols)
LookOf(cell) == Look(rules, rows, cols, cell)

Rule(by, target, value) == [by |-> by, target |-> target, value |-> value]

\* The spans a command or an op may name; either order of the ends is one window.
Spans(ids) ==
    {All} \union {s \in ids \X ids : PlaceOf(rows, s[1]) <= PlaceOf(rows, s[2])}
\* Bound: parts of the first column, and the whole sheet.
Targets(ids) ==
    [rows : Spans(ids), cols : {<<1, 1>>}] \union {[rows |-> All, cols |-> All]}

\* A style write's entry: prior_rules, taken before it.
StyleEntry(target) ==
    [kind |-> "style", target |-> target,
     prior |-> Overlapping(rules, rows, cols, target),
     before |-> rules, axes |-> {rows}, disturbed |-> FALSE]
RowEntry(kind, row) == [kind |-> kind, row |-> row]

Init ==
    /\ rules = <<>>
    /\ rows = [i \in 1 .. Seeded |-> [id |-> i, live |-> TRUE]]
    /\ undo = <<>> /\ redo = <<>>
    /\ own = 0 /\ foreign = 0

Own == own < MaxOwn /\ own' = own + 1 /\ UNCHANGED foreign
Foreign == foreign < MaxForeign /\ foreign' = foreign + 1 /\ UNCHANGED own

-----------------------------------------------------------------------------
(* Commands: a fresh edit forgets what was undone.                         *)

\* For the properties: the entries that formatting an axis is done above.
Above(stack, entry) ==
    [i \in DOMAIN stack |->
        IF entry.kind = "style" /\ stack[i].kind = "style"
        THEN [stack[i] EXCEPT !.axes = @ \union {rows}] ELSE stack[i]]
Push(stack, entry) == Append(Above(stack, entry), entry)

Done(entry) == undo' = Push(undo, entry) /\ redo' = <<>>

\* SetStyle and ClearStyle; the ends of a span are live.
Format(target, value) ==
    /\ Own
    /\ rules' = Append(rules, Rule("me", target, value))
    /\ Done(StyleEntry(target))
    /\ UNCHANGED rows

NextRow == Max(IdsOf(rows)) + 1
Inserted(anchor) == NextRow <= MaxRow /\ rows' = InsertAfter(rows, anchor, NextRow)

\* After the live row that precedes, or first (0).
InsertRow(anchor) ==
    /\ Own
    /\ Inserted(anchor)
    /\ Done(RowEntry("inserted", NextRow))
    /\ UNCHANGED rules

DeleteRow(row) ==
    /\ Own
    /\ rows' = SetLive(rows, row, FALSE)
    /\ Done(RowEntry("deleted", row))
    /\ UNCHANGED rules

-----------------------------------------------------------------------------
(* Undo and redo (invert_group).                                           *)

\* A style entry yields to another author's newest rule.
Blocked(entry) ==
    entry.kind = "style" /\ Winner(rules, rows, cols, entry.target, "me") # "me"

\* The prior rules as new ones, oldest first.
Renewed(prior) == [n \in DOMAIN prior |-> Rule("me", prior[n].target, prior[n].value)]

\* Clear the target, then the prior rules again, all of them new.
Replayed(entry) == rules \o <<Rule("me", entry.target, Default)>> \o Renewed(entry.prior)

\* The effect of an entry, and the entry that takes it back.
Opposite(entry) ==
    CASE entry.kind = "style" -> StyleEntry(entry.target)
      [] entry.kind = "inserted" -> RowEntry("deleted", entry.row)
      [] entry.kind = "deleted" -> RowEntry("inserted", entry.row)

Invert(entry) ==
    /\ rules' = IF entry.kind = "style" THEN Replayed(entry) ELSE rules
    /\ rows' = IF entry.kind = "style" THEN rows
               ELSE SetLive(rows, entry.row, entry.kind = "deleted")

Undo ==
    /\ undo # <<>>
    /\ Own
    /\ IF Blocked(Last(undo))
       THEN undo' = Front(undo) /\ UNCHANGED <<rules, rows, redo>>
       ELSE /\ Invert(Last(undo))
            /\ undo' = Above(Front(undo), Last(undo))
            /\ redo' = Push(redo, Opposite(Last(undo)))

Redo ==
    /\ redo # <<>>
    /\ Own
    /\ IF Blocked(Last(redo))
       THEN redo' = Front(redo) /\ UNCHANGED <<rules, rows, undo>>
       ELSE /\ Invert(Last(redo))
            /\ redo' = Above(Front(redo), Last(redo))
            /\ undo' = Push(undo, Opposite(Last(redo)))

-----------------------------------------------------------------------------
(* Another author's ops.                                                   *)

Disturb(stack) ==
    [i \in DOMAIN stack |->
        IF stack[i].kind = "style" THEN [stack[i] EXCEPT !.disturbed = TRUE] ELSE stack[i]]

\* A rule lands by its stamp, after that author's own.
ForeignRule(target, value, at) ==
    /\ Foreign
    /\ \A i \in DOMAIN rules : rules[i].by = "other" => i < at
    /\ rules' = InsertAt(rules, at, Rule("other", target, value))
    /\ undo' = Disturb(undo) /\ redo' = Disturb(redo)
    /\ UNCHANGED rows

ForeignInsert(anchor) ==
    /\ Foreign
    /\ Inserted(anchor)
    /\ UNCHANGED <<rules, undo, redo>>

ForeignDelete(row, live) ==
    /\ Foreign
    /\ rows' = SetLive(rows, row, live)
    /\ rows' # rows
    /\ UNCHANGED <<rules, undo, redo>>

Next ==
    \/ \E target \in Targets(LiveIds(rows)), value \in Values : Format(target, value)
    \/ \E anchor \in LiveIds(rows) \union {0} : InsertRow(anchor)
    \/ \E row \in LiveIds(rows) : DeleteRow(row)
    \/ Undo
    \/ Redo
    \/ \E target \in Targets(IdsOf(rows)), value \in Values, at \in 1 .. Len(rules) + 1 :
            ForeignRule(target, value, at)
    \/ \E anchor \in IdsOf(rows) \union {0} : ForeignInsert(anchor)
    \/ \E row \in IdsOf(rows), live \in BOOLEAN : ForeignDelete(row, live)

Spec == Init /\ [][Next]_vars

-----------------------------------------------------------------------------
(* Properties.                                                             *)

TypeOK ==
    /\ AxisOK(rows)
    /\ \A i \in DOMAIN rules : rules[i] \in [by : {"me", "other"}, target : Targets(IdsOf(rows)), value : Values]
    /\ own \in 0 .. MaxOwn /\ foreign \in 0 .. MaxForeign

\* What an undo or redo rewrites lies inside the rectangle it reverts, now and
\* whatever rows come and go before it runs (Decision 5 of ADR-041: "nothing
\* outside my target is touched").
PriorInsideTarget ==
    \A e \in {x \in ToSet(undo) \union ToSet(redo) : x.kind = "style"} :
        \A p \in ToSet(e.prior) :
            /\ Window(rows, p.target.rows) \subseteq Window(rows, e.target.rows)
            /\ Window(cols, p.target.cols) \subseteq Window(cols, e.target.cols)

\* An undo or redo of formatting leaves every cell as if the command had never
\* run, whatever was formatted and undone above it: each row that was live, and
\* each inserted later unless some row was deleted, whenever formatting was done
\* since (the clipped ends forget where a rule reached).  Rows may have come and
\* gone; another author's rules may not have (prior_rules, invert_group,
\* "cell-for-cell what it was before").
Remembered(e, row) == \A axis \in e.axes : row \in LiveIds(axis) \/ LiveIds(axis) = IdsOf(axis)
AsIfNever(e) ==
    e.kind = "style" /\ ~ e.disturbed =>
        \A c \in LiveIds(rows') \X LiveIds(cols) :
            Remembered(e, c[1]) => Look(rules', rows', cols, c) = Look(e.before, rows', cols, c)
RevertRestores ==
    [][(Undo => AsIfNever(Last(undo))) /\ (Redo => AsIfNever(Last(redo)))]_vars
=============================================================================
