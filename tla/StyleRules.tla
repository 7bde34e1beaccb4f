----------------------------- MODULE StyleRules -----------------------------
(***************************************************************************)
(* The formatting of usk-state (style.rs): every style op is one rule over *)
(* a rectangle of identities, and a cell shows the newest rule covering    *)
(* it.  Facets do not meet, so one facet is modelled.                      *)
(*                                                                         *)
(* The registry is a sequence of rules by ascending stamp.  A target has a *)
(* span per axis: the whole axis, or between two identities.  A value is a *)
(* facet's, or Default for a clear.                                        *)
(***************************************************************************)
EXTENDS AxisOrder

Default == "default"
All == <<>>

\* The places of an axis that a span covers: ends moved inward to something
\* live, and nothing when all it named is gone.
Window(axis, span) ==
    IF span = All THEN DOMAIN axis
    ELSE LET live == Resolve(axis, span[1], span[2])
         IN IF live = {} THEN {} ELSE Min(live) .. Max(live)

Covers(rows, cols, target, cell) ==
    /\ PlaceOf(rows, cell[1]) \in Window(rows, target.rows)
    /\ PlaceOf(cols, cell[2]) \in Window(cols, target.cols)

\* StyleResolver::facet: the newest covering rule decides.
Look(rules, rows, cols, cell) ==
    LET covering == {i \in DOMAIN rules : Covers(rows, cols, rules[i].target, cell)}
    IN IF covering = {} THEN Default ELSE rules[Max(covering)].value

\* MUTANT of Clip: a whole axis is today's first to last.
ClipBounded(a, b, axis) ==
    LET both == Window(axis, a) \intersect Window(axis, b)
    IN <<axis[Min(both)].id, axis[Max(both)].id>>

\* MUTANT of Clip: a whole axis on either side is one.
ClipLoose(a, b, axis) ==
    LET both == Window(axis, a) \intersect Window(axis, b)
    IN IF a = All \/ b = All THEN All ELSE <<axis[Min(both)].id, axis[Max(both)].id>>

\* MUTANT of Clip: ends by place, not by identity.
ClipPlaces(a, b, axis) ==
    LET both == Window(axis, a) \intersect Window(axis, b)
    IN IF a = All /\ b = All THEN All ELSE <<Min(both), Max(both)>>

\* clip_span: the whole axis only if both are, else bounded by identities.
Clip(a, b, axis) ==
    LET both == Window(axis, a) \intersect Window(axis, b)
    IN IF a = All /\ b = All THEN All ELSE <<axis[Min(both)].id, axis[Max(both)].id>>

Meets(rows, cols, a, b) ==
    /\ Window(rows, a.rows) \intersect Window(rows, b.rows) # {}
    /\ Window(cols, a.cols) \intersect Window(cols, b.cols) # {}

\* StyleResolver::overlapping: the rules that meet a target, clipped to it, in
\* the order of the registry.
Clipped(rule, rows, cols, target) ==
    [by |-> rule.by, value |-> rule.value,
     target |-> [rows |-> Clip(rule.target.rows, target.rows, rows),
                 cols |-> Clip(rule.target.cols, target.cols, cols)]]
Overlapping(rules, rows, cols, target) ==
    LET over[i \in 0 .. Len(rules)] ==
            IF i = 0 THEN <<>>
            ELSE IF Meets(rows, cols, rules[i].target, target)
                 THEN Append(over[i - 1], Clipped(rules[i], rows, cols, target))
                 ELSE over[i - 1]
    IN over[Len(rules)]

\* style_winner: the author of the newest rule that meets the target, or me.
Winner(rules, rows, cols, target, me) ==
    LET meeting == {i \in DOMAIN rules : Meets(rows, cols, rules[i].target, target)}
    IN IF meeting = {} THEN me ELSE rules[Max(meeting)].by
=============================================================================
