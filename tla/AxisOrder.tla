----------------------------- MODULE AxisOrder ------------------------------
(***************************************************************************)
(* One axis of a workbook as usk-calc reads it (refs.rs): every identity   *)
(* ever inserted, in order, tagged live or deleted.  Ordinals count the    *)
(* live ones from 0.  A reference keeps two identities, and Resolve finds  *)
(* what lies between them today.                                           *)
(***************************************************************************)
EXTENDS Integers, Sequences, FiniteSets, SequencesExt, FiniteSetsExt

\* An axis is a sequence of slots with distinct identities.
Slot == [id : Nat, live : BOOLEAN]
AxisOK(axis) ==
    /\ axis \in Seq(Slot)
    /\ \A i, j \in DOMAIN axis : axis[i].id = axis[j].id => i = j

IdsOf(axis) == {axis[i].id : i \in DOMAIN axis}
PlaceOf(axis, id) == CHOOSE i \in DOMAIN axis : axis[i].id = id

LiveIds(axis) == {axis[i].id : i \in {j \in DOMAIN axis : axis[j].live}}

\* The live ordinal of a live identity, and the identity at an ordinal.
Before(axis, i) == Cardinality({j \in 1 .. i - 1 : axis[j].live})
PositionOf(axis, id) == Before(axis, PlaceOf(axis, id))
At(axis, ordinal) ==
    axis[CHOOSE i \in DOMAIN axis : axis[i].live /\ Before(axis, i) = ordinal].id

\* MUTANT of Resolve: an interval is lost with either of its ends.
ResolveLive(axis, start, end) ==
    IF {start, end} \subseteq LiveIds(axis)
    THEN LET a == PlaceOf(axis, start)
             b == PlaceOf(axis, end)
             lo == IF a <= b THEN a ELSE b
             hi == IF a <= b THEN b ELSE a
         IN {i \in lo .. hi : axis[i].live}
    ELSE {}

\* Both endpoints are moved inward to something live; empty when they cross.
\* The result is the set of places, so that its ends are its Min and Max.
Resolve(axis, start, end) ==
    IF {start, end} \subseteq IdsOf(axis)
    THEN LET a == PlaceOf(axis, start)
             b == PlaceOf(axis, end)
             lo == IF a <= b THEN a ELSE b
             hi == IF a <= b THEN b ELSE a
         IN {i \in lo .. hi : axis[i].live}
    ELSE {}

-----------------------------------------------------------------------------
(* Edits of an axis.                                                       *)

\* A new identity lands straight after its anchor, or first: nothing
\* inserted earlier at the same place outranks the newest key.
InsertAfter(axis, anchor, id) ==
    LET at == IF anchor \in IdsOf(axis) THEN PlaceOf(axis, anchor) ELSE 0
    IN InsertAt(axis, at + 1, [id |-> id, live |-> TRUE])

SetLive(axis, id, live) == [axis EXCEPT ![PlaceOf(axis, id)].live = live]
=============================================================================
