------------------------------ MODULE GridView ------------------------------
(***************************************************************************)
(* usk-view along one axis: the live identities in order, and a viewport   *)
(* whose place is an identity and an offset into it, never a pixel count.  *)
(* Ordinals count from 0.  Every identity has the same size, since the     *)
(* shell never sets a row's height; pixels are integers.                   *)
(***************************************************************************)
EXTENDS Integers, Sequences, FiniteSets, SequencesExt, FiniteSetsExt

CONSTANT RowHeight  \* pixels of one row

ASSUME RowHeightAssumption == RowHeight \in Nat \ {0}

NoId == 0
Anchor == [id : Nat, offset : Nat]
DefaultAnchor == [id |-> NoId, offset |-> 0]

-----------------------------------------------------------------------------
(* The axis: identities, and the pixel each starts at.                     *)

Has(axis, id) == id \in Range(axis)
IdAt(axis, ordinal) == axis[ordinal + 1]
IndexOf(axis, id) == (CHOOSE i \in DOMAIN axis : axis[i] = id) - 1
IndexOr0(axis, id) == IF Has(axis, id) THEN IndexOf(axis, id) ELSE 0

StartOf(ordinal) == ordinal * RowHeight
Extent(axis) == StartOf(Len(axis))
PixelOf(axis, id) == StartOf(IndexOf(axis, id))

\* The greatest ordinal that starts at or before the pixel, clamped into the axis.
IndexAtPixel(axis, pixel) ==
    Max({0} \union {i \in 0 .. Len(axis) - 1 : StartOf(i) <= pixel})

-----------------------------------------------------------------------------
(* The viewport: what it shows, and how it moves.                          *)

AnchorIndex(axis, anchor) == IndexOr0(axis, anchor.id)
TopPixel(axis, anchor) == StartOf(AnchorIndex(axis, anchor)) + anchor.offset

\* One slot per identity that meets the viewport; "at" counts from its edge.
Visible(axis, anchor, height) ==
    LET first == AnchorIndex(axis, anchor)
        slot(i) == [id |-> IdAt(axis, i), index |-> i,
                    at |-> StartOf(i - first) - anchor.offset]
    IN {slot(i) : i \in {j \in first .. Len(axis) - 1 :
                            StartOf(j - first) - anchor.offset < height}}

\* The last row cannot pass the bottom edge, nor the first one the top.
Scrolled(axis, anchor, delta, height) ==
    IF axis = <<>> THEN DefaultAnchor
    ELSE LET lowest == Max({0, Extent(axis) - height})
             target == Max({0, Min({lowest, TopPixel(axis, anchor) + delta})})
             index == IndexAtPixel(axis, target)
         IN [id |-> IdAt(axis, index), offset |-> target - StartOf(index)]

\* A live anchor stays; a deleted one gives way to what is now at its pixel.
Reanchored(axis, previous, anchor) ==
    IF axis = <<>> THEN DefaultAnchor
    ELSE IF anchor.id = NoId THEN [id |-> IdAt(axis, 0), offset |-> 0]
    ELSE IF Has(axis, anchor.id) THEN anchor
    ELSE LET pixel == (IF Has(previous, anchor.id)
                       THEN PixelOf(previous, anchor.id) ELSE 0) + anchor.offset
             index == IndexAtPixel(axis, pixel)
         IN [id |-> IdAt(axis, index), offset |-> Max({0, pixel - StartOf(index)})]

\* MUTANT of ScrollNeeded: how far the anchor is scrolled off is forgotten.
ScrollNeededToAnchor(axis, anchor, height, id) ==
    LET top == IF Has(axis, anchor.id) THEN PixelOf(axis, anchor.id) ELSE 0
        at == PixelOf(axis, id)
    IN IF ~Has(axis, id) THEN 0
       ELSE IF at < top THEN at - top
       ELSE IF at + RowHeight > top + height THEN at + RowHeight - (top + height)
       ELSE 0

\* The least scroll that brings an identity fully into view.
ScrollNeeded(axis, anchor, height, id) ==
    LET top == (IF Has(axis, anchor.id) THEN PixelOf(axis, anchor.id) ELSE 0)
               + anchor.offset
        at == PixelOf(axis, id)
    IN IF ~Has(axis, id) THEN 0
       ELSE IF at < top THEN at - top
       ELSE IF at + RowHeight > top + height THEN at + RowHeight - (top + height)
       ELSE 0
=============================================================================
