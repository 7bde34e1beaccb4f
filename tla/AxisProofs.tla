----------------------------- MODULE AxisProofs -----------------------------
(***************************************************************************)
(* What holds of any axis: where identities stand, what lies between two   *)
(* of them, and what its edits leave as it was; and what the folds of the  *)
(* community modules make, over a set, a range of numbers or a sequence.   *)
(***************************************************************************)
EXTENDS AxisOrder, FiniteSetTheorems, SequenceTheorems, WellFoundedInduction, TLAPS

-----------------------------------------------------------------------------
(* Least and greatest elements.                                            *)

LEMMA LeastNat ==
    ASSUME NEW S, S \subseteq Nat, S # {}
    PROVE  \E x \in S : \A y \in S : x <= y
<1> DEFINE R == OpToRel(<, Nat)
<1>1. \A x, y \in Nat : (<<y, x>> \in R) <=> y < x
  BY DEF OpToRel
<1>2. IsWellFoundedOn(R, Nat)
  BY NatLessThanWellFounded
<1> HIDE DEF R
<1>3. PICK x \in S : \A y \in S : ~ (<<y, x>> \in R)
  BY <1>2, WFMin
<1>4. ASSUME NEW y \in S
      PROVE  x <= y
  <2>1. x \in Nat /\ y \in Nat
    OBVIOUS
  <2>2. ~ (<<y, x>> \in R)
    BY <1>3
  <2>3. ~ (y < x)
    BY <1>1, <2>1, <2>2
  <2> QED BY <2>1, <2>3
<1> QED BY <1>4

LEMMA MinIsLeast ==
    ASSUME NEW S, S \subseteq Nat, S # {}
    PROVE  Min(S) \in S /\ \A y \in S : Min(S) <= y
BY LeastNat DEF Min

LEMMA MaxIsGreatest ==
    ASSUME NEW S, S \subseteq Nat, S # {}, NEW n \in Nat, \A y \in S : y <= n
    PROVE  Max(S) \in S /\ \A y \in S : y <= Max(S)
<1> DEFINE T == {n - y : y \in S}
<1>1. T \subseteq Nat /\ T # {}
  OBVIOUS
<1>2. PICK t \in T : \A u \in T : t <= u
  BY <1>1, LeastNat
<1>3. PICK x \in S : t = n - x
  BY <1>2
<1>4. \A y \in S : y <= x
  <2> TAKE y \in S
  <2>1. t <= n - y
    BY <1>2
  <2> QED BY <2>1, <1>3
<1>5. \E z \in S : \A y \in S : z >= y
  BY <1>4
<1> QED BY <1>5 DEF Max

-----------------------------------------------------------------------------
(* One axis.                                                               *)

LivePlaces(axis, n) == {j \in 1 .. n : axis[j].live}

\* An identity is found where it stands.
LEMMA PlaceIs ==
    ASSUME NEW axis, AxisOK(axis), NEW i \in DOMAIN axis
    PROVE  PlaceOf(axis, axis[i].id) = i
BY DEF PlaceOf, AxisOK

LEMMA IdAtPlace ==
    ASSUME NEW axis, NEW id \in IdsOf(axis)
    PROVE  PlaceOf(axis, id) \in DOMAIN axis /\ axis[PlaceOf(axis, id)].id = id
BY DEF PlaceOf, IdsOf

LEMMA LiveFinite ==
    ASSUME NEW axis, NEW n \in Int
    PROVE  /\ IsFiniteSet(LivePlaces(axis, n))
           /\ Cardinality(LivePlaces(axis, n)) \in Nat
<1>1. IsFiniteSet(1 .. n)
  BY FS_Interval
<1>2. LivePlaces(axis, n) \in SUBSET (1 .. n)
  BY DEF LivePlaces
<1>3. IsFiniteSet(LivePlaces(axis, n))
  BY <1>1, <1>2, FS_Subset
<1> QED BY <1>3, FS_CardinalityType

LEMMA BeforeNat ==
    ASSUME NEW axis, NEW i \in Nat
    PROVE  Before(axis, i) = Cardinality(LivePlaces(axis, i - 1)) /\ Before(axis, i) \in Nat
<1>1. Before(axis, i) = Cardinality(LivePlaces(axis, i - 1))
  BY DEF Before, LivePlaces
<1>2. i - 1 \in Int
  OBVIOUS
<1> QED BY <1>1, <1>2, LiveFinite

\* The count grows by one past every live place and past no other.
LEMMA BeforeStep ==
    ASSUME NEW axis, NEW i \in Nat \ {0}
    PROVE  Before(axis, i + 1) = Before(axis, i) + (IF axis[i].live THEN 1 ELSE 0)
<1>1. IsFiniteSet(LivePlaces(axis, i - 1))
  BY LiveFinite
<1>2. Before(axis, i + 1) = Cardinality(LivePlaces(axis, i))
  BY BeforeNat
<1>3. Before(axis, i) = Cardinality(LivePlaces(axis, i - 1)) /\ Before(axis, i) \in Nat
  BY BeforeNat
<1>4. CASE axis[i].live
  <2>1. LivePlaces(axis, i) = LivePlaces(axis, i - 1) \cup {i}
    BY <1>4 DEF LivePlaces
  <2>2. i \notin LivePlaces(axis, i - 1)
    BY DEF LivePlaces
  <2> QED BY <1>1, <1>2, <1>3, <1>4, <2>1, <2>2, FS_AddElement
<1>5. CASE ~ axis[i].live
  <2>1. LivePlaces(axis, i) = LivePlaces(axis, i - 1)
    BY <1>5 DEF LivePlaces
  <2> QED BY <1>2, <1>3, <1>5, <2>1
<1> QED BY <1>4, <1>5

\* A live place counts strictly below every later one.
LEMMA BeforeStrict ==
    ASSUME NEW axis, NEW k \in Nat \ {0}, NEW i \in Nat, k < i, axis[k].live
    PROVE  Before(axis, k) < Before(axis, i)
<1>1. Before(axis, k + 1) = Before(axis, k) + 1
  BY BeforeStep
<1>2. LivePlaces(axis, k) \in SUBSET LivePlaces(axis, i - 1)
  BY DEF LivePlaces
<1>3. Cardinality(LivePlaces(axis, k)) <= Cardinality(LivePlaces(axis, i - 1))
  BY <1>2, LiveFinite, FS_Subset
<1>4. Before(axis, k + 1) = Cardinality(LivePlaces(axis, k)) /\ Before(axis, k) \in Nat
  BY BeforeNat
<1>5. Before(axis, i) = Cardinality(LivePlaces(axis, i - 1)) /\ Before(axis, i) \in Nat
  BY BeforeNat
<1> QED BY <1>1, <1>3, <1>4, <1>5

LEMMA LiveCount ==
    ASSUME NEW axis, AxisOK(axis)
    PROVE  Cardinality(LiveIds(axis)) = Before(axis, Len(axis) + 1)
<1> DEFINE places == LivePlaces(axis, Len(axis))
           name == [j \in places |-> axis[j].id]
<1>1. Len(axis) \in Nat /\ DOMAIN axis = 1 .. Len(axis)
  BY LenProperties DEF AxisOK
<1>2. IsFiniteSet(places)
  BY <1>1, LiveFinite
<1>3. LiveIds(axis) = {axis[j].id : j \in places}
  BY <1>1 DEF LiveIds, LivePlaces
<1>4. \A i, j \in places : axis[i].id = axis[j].id => i = j
  BY <1>1 DEF AxisOK, LivePlaces
<1>5. name \in Bijection(places, LiveIds(axis))
  BY <1>3, <1>4 DEF Bijection, Injection, Surjection, IsInjective
<1>6. ExistsBijection(places, LiveIds(axis))
  BY <1>5 DEF ExistsBijection
<1>7. Cardinality(LiveIds(axis)) = Cardinality(places)
  BY <1>2, <1>6, FS_Bijection
<1>8. Before(axis, Len(axis) + 1) = Cardinality(LivePlaces(axis, Len(axis) + 1 - 1))
  BY <1>1, BeforeNat
<1> QED BY <1>1, <1>7, <1>8

\* What stands at a live ordinal is an identity of the axis.
LEMMA AtBound ==
    ASSUME NEW axis, AxisOK(axis), NEW ordinal \in Nat,
           ordinal < Cardinality(LiveIds(axis))
    PROVE  /\ At(axis, ordinal) \in IdsOf(axis) /\ At(axis, ordinal) \in LiveIds(axis)
           /\ PositionOf(axis, At(axis, ordinal)) = ordinal
<1> DEFINE T == {i \in DOMAIN axis : Before(axis, i + 1) > ordinal}
<1>1. Len(axis) \in Nat /\ DOMAIN axis = 1 .. Len(axis)
  BY LenProperties DEF AxisOK
<1>2. Before(axis, 1) = 0
  <2>1. LivePlaces(axis, 1 - 1) = {}
    BY DEF LivePlaces
  <2> QED BY <2>1, BeforeNat, FS_EmptySet
<1>3. Before(axis, Len(axis) + 1) > ordinal
  BY LiveCount
<1>4. Len(axis) # 0
  BY <1>2, <1>3
<1>5. T \subseteq Nat /\ T # {}
  <2>1. Len(axis) \in T
    BY <1>1, <1>3, <1>4
  <2>2. T \subseteq DOMAIN axis
    OBVIOUS
  <2> HIDE DEF T
  <2> QED BY <1>1, <2>1, <2>2
<1>6. PICK i \in T : \A j \in T : i <= j
  <2> HIDE DEF T
  <2> QED BY <1>5, LeastNat
<1>7. Before(axis, i) <= ordinal
  <2>1. CASE i = 1
    BY <2>1, <1>2
  <2>2. CASE i # 1
    <3>1. i - 1 \in DOMAIN axis /\ i - 1 \notin T
      BY <2>2, <1>1, <1>6
    <3>2. ~ (Before(axis, i - 1 + 1) > ordinal)
      BY <3>1
    <3>3. i - 1 + 1 = i /\ Before(axis, i) \in Nat
      BY <1>1, <1>6, BeforeNat
    <3> QED BY <3>2, <3>3
  <2> QED BY <2>1, <2>2
<1>8. axis[i].live /\ Before(axis, i) = ordinal
  <2>1. i \in Nat \ {0} /\ Before(axis, i) \in Nat /\ Before(axis, i + 1) > ordinal
    BY <1>1, <1>6, BeforeNat
  <2>2. Before(axis, i + 1) = Before(axis, i) + (IF axis[i].live THEN 1 ELSE 0)
    BY <2>1, BeforeStep
  <2> QED BY <1>7, <2>1, <2>2
<1>9. \E k \in DOMAIN axis : axis[k].live /\ Before(axis, k) = ordinal
  BY <1>6, <1>8
<1>10. PICK k \in DOMAIN axis :
          axis[k].live /\ Before(axis, k) = ordinal /\ At(axis, ordinal) = axis[k].id
  BY <1>9 DEF At
<1>11. PlaceOf(axis, At(axis, ordinal)) = k
  BY <1>10, PlaceIs
<1> QED BY <1>10, <1>11 DEF IdsOf, LiveIds, PositionOf

-----------------------------------------------------------------------------
(* What an interval of an axis holds.                                      *)

\* An identity lies in the interval of a binding's two ends.
Lies(axis, ends, id) == PlaceOf(axis, id) \in Resolve(axis, ends[1], ends[2])

Lesser(x, y) == IF x <= y THEN x ELSE y
Greater(x, y) == IF x <= y THEN y ELSE x

LEMMA ResolvedPlaces ==
    ASSUME NEW axis, NEW a, NEW b
    PROVE  Resolve(axis, a, b) =
            IF a \in IdsOf(axis) /\ b \in IdsOf(axis)
            THEN {i \in Lesser(PlaceOf(axis, a), PlaceOf(axis, b)) ..
                         Greater(PlaceOf(axis, a), PlaceOf(axis, b)) : axis[i].live}
            ELSE {}
BY DEF Resolve, Lesser, Greater

LEMMA ResolveConvex ==
    ASSUME NEW axis, AxisOK(axis), NEW a, NEW b
    PROVE  \E lo, hi \in Nat :
            /\ Resolve(axis, a, b) \subseteq DOMAIN axis
            /\ \A i \in DOMAIN axis :
                    i \in Resolve(axis, a, b) <=> lo <= i /\ i <= hi /\ axis[i].live
<1> DEFINE lo == Lesser(PlaceOf(axis, a), PlaceOf(axis, b))
           hi == Greater(PlaceOf(axis, a), PlaceOf(axis, b))
<1>1. Len(axis) \in Nat /\ DOMAIN axis = 1 .. Len(axis)
  BY LenProperties DEF AxisOK
<1>2. CASE a \in IdsOf(axis) /\ b \in IdsOf(axis)
  <2>1. PlaceOf(axis, a) \in DOMAIN axis /\ PlaceOf(axis, b) \in DOMAIN axis
    BY <1>2, IdAtPlace
  <2>2. lo \in DOMAIN axis /\ hi \in DOMAIN axis
    BY <2>1, <1>1 DEF Lesser, Greater
  <2>3. Resolve(axis, a, b) = {i \in lo .. hi : axis[i].live}
    BY <1>2, ResolvedPlaces
  <2> HIDE DEF lo, hi
  <2>4. \A i \in DOMAIN axis :
            i \in Resolve(axis, a, b) <=> lo <= i /\ i <= hi /\ axis[i].live
    BY <1>1, <2>2, <2>3
  <2>5. Resolve(axis, a, b) \subseteq DOMAIN axis
    BY <1>1, <2>2, <2>3
  <2>6. lo \in Nat /\ hi \in Nat
    BY <1>1, <2>2
  <2> QED BY <2>4, <2>5, <2>6
<1>3. CASE ~ (a \in IdsOf(axis) /\ b \in IdsOf(axis))
  <2>1. Resolve(axis, a, b) = {}
    BY <1>3, ResolvedPlaces
  <2>2. \A i \in DOMAIN axis : ~ (1 <= i /\ i <= 0)
    BY <1>1
  <2>3. \A i \in DOMAIN axis : i \in Resolve(axis, a, b) <=> 1 <= i /\ i <= 0 /\ axis[i].live
    BY <2>1, <2>2
  <2>4. Resolve(axis, a, b) \subseteq DOMAIN axis
    BY <2>1
  <2> QED BY <2>3, <2>4
<1> QED BY <1>2, <1>3

\* Among live identities, to stand between the first and the last position
\* of an interval is to lie in it.
LEMMA BetweenIsWithin ==
    ASSUME NEW axis, AxisOK(axis), NEW a, NEW b, Resolve(axis, a, b) # {},
           NEW id \in LiveIds(axis)
    PROVE  LET P == {PositionOf(axis, axis[i].id) : i \in Resolve(axis, a, b)}
           IN /\ Min(P) \in Nat /\ Max(P) \in Nat /\ PositionOf(axis, id) \in Nat
              /\ (Min(P) <= PositionOf(axis, id) /\ PositionOf(axis, id) <= Max(P))
                    <=> PlaceOf(axis, id) \in Resolve(axis, a, b)
<1> DEFINE S == Resolve(axis, a, b)
           P == {PositionOf(axis, axis[i].id) : i \in S}
           k == PlaceOf(axis, id)
<1>1. Len(axis) \in Nat /\ DOMAIN axis = 1 .. Len(axis)
  BY LenProperties DEF AxisOK
<1>2. PICK lo, hi \in Nat :
            /\ S \subseteq DOMAIN axis
            /\ \A i \in DOMAIN axis : i \in S <=> lo <= i /\ i <= hi /\ axis[i].live
  BY ResolveConvex
<1>3. k \in DOMAIN axis /\ axis[k].live /\ axis[k].id = id
  <2>1. PICK j \in DOMAIN axis : axis[j].live /\ axis[j].id = id
    BY DEF LiveIds
  <2>2. PlaceOf(axis, axis[j].id) = j
    BY <2>1, PlaceIs
  <2> QED BY <2>1, <2>2
<1>4. PositionOf(axis, id) = Before(axis, k)
  BY DEF PositionOf
<1>5. \A i \in DOMAIN axis : PositionOf(axis, axis[i].id) = Before(axis, i)
  BY PlaceIs DEF PositionOf
<1>6. P = {Before(axis, i) : i \in S}
  BY <1>2, <1>5
<1>7. \A i \in DOMAIN axis : Before(axis, i) \in Nat
  BY <1>1, BeforeNat
<1>8. \A i, j \in DOMAIN axis : i < j /\ axis[i].live => Before(axis, i) < Before(axis, j)
  BY <1>1, BeforeStrict
<1>9. \A i \in S : i \in DOMAIN axis /\ axis[i].live
  BY <1>2
<1>10. P \subseteq Nat /\ P # {}
  BY <1>2, <1>6, <1>7
<1>11. \A y \in P : y <= Before(axis, Len(axis) + 1)
  <2>1. \A i \in S : Before(axis, i) < Before(axis, Len(axis) + 1)
    BY <1>1, <1>9, BeforeStrict
  <2>2. Before(axis, Len(axis) + 1) \in Nat
    BY <1>1, BeforeNat
  <2> QED BY <1>6, <1>7, <1>9, <2>1, <2>2
<1>12. Before(axis, Len(axis) + 1) \in Nat
  BY <1>1, BeforeNat
<1> HIDE DEF P, S, k
<1>13. Min(P) \in P /\ \A y \in P : Min(P) <= y
  BY <1>10, MinIsLeast
<1>14. Max(P) \in P /\ \A y \in P : y <= Max(P)
  BY <1>10, <1>11, <1>12, MaxIsGreatest
<1>15. ASSUME k \in S
       PROVE  Min(P) <= Before(axis, k) /\ Before(axis, k) <= Max(P)
  BY <1>6, <1>13, <1>14, <1>15
<1>16. ASSUME Min(P) <= Before(axis, k), Before(axis, k) <= Max(P)
       PROVE  k \in S
  <2>1. PICK i \in S : Min(P) = Before(axis, i)
    BY <1>6, <1>13
  <2>2. PICK j \in S : Max(P) = Before(axis, j)
    BY <1>6, <1>14
  <2>3. ~ (k < i)
    BY <1>3, <1>7, <1>8, <1>9, <1>16, <2>1
  <2>4. ~ (j < k)
    BY <1>3, <1>7, <1>8, <1>9, <1>16, <2>2
  <2>5. i \in Nat /\ j \in Nat /\ k \in Nat
    BY <1>1, <1>3, <1>9
  <2>6. lo <= i /\ j <= hi
    BY <1>2, <1>9
  <2>7. lo <= k /\ k <= hi
    BY <2>3, <2>4, <2>5, <2>6
  <2> QED BY <1>2, <1>3, <2>7
<1>17. (Min(P) <= Before(axis, k) /\ Before(axis, k) <= Max(P)) <=> k \in S
  BY <1>15, <1>16
<1>18. Min(P) \in Nat /\ Max(P) \in Nat /\ PositionOf(axis, id) \in Nat
  BY <1>3, <1>4, <1>7, <1>10, <1>13, <1>14
<1> QED BY <1>4, <1>17, <1>18 DEF P, S, k

LEMMA LivePosition ==
    ASSUME NEW axis, AxisOK(axis), NEW id \in LiveIds(axis)
    PROVE  PositionOf(axis, id) \in Nat
<1>1. id \in IdsOf(axis)
  BY DEF LiveIds, IdsOf
<1>2. PlaceOf(axis, id) \in DOMAIN axis
  BY <1>1, IdAtPlace
<1>3. DOMAIN axis \subseteq Nat
  BY LenProperties DEF AxisOK
<1> QED BY <1>2, <1>3, BeforeNat DEF PositionOf

-----------------------------------------------------------------------------
(* Edits of an axis keep what lies between two identities.                 *)

\* Nor does an identity, deleted or not, change places with another.
SameOrder(a, b) ==
    /\ IdsOf(a) \subseteq IdsOf(b)
    /\ \A p, q \in IdsOf(a) :
            PlaceOf(a, p) <= PlaceOf(a, q) <=> PlaceOf(b, p) <= PlaceOf(b, q)

Keeps(a, b) ==
    \A x \in LiveIds(a) \intersect LiveIds(b), p \in IdsOf(a), q \in IdsOf(a) :
        PlaceOf(b, x) \in Resolve(b, p, q) <=> PlaceOf(a, x) \in Resolve(a, p, q)

LEMMA LivePlace ==
    ASSUME NEW axis, AxisOK(axis), NEW id
    PROVE  id \in LiveIds(axis) <=> id \in IdsOf(axis) /\ axis[PlaceOf(axis, id)].live
<1>1. ASSUME NEW j \in DOMAIN axis
      PROVE  PlaceOf(axis, axis[j].id) = j
  BY PlaceIs
<1> QED BY <1>1 DEF LiveIds, IdsOf

LEMMA SetLiveKeeps ==
    ASSUME NEW axis, AxisOK(axis), NEW id \in IdsOf(axis), NEW live \in BOOLEAN
    PROVE  LET new == SetLive(axis, id, live)
           IN AxisOK(new) /\ IdsOf(new) = IdsOf(axis) /\ Len(new) = Len(axis) /\ Keeps(axis, new)
              /\ SameOrder(axis, new)
<1> DEFINE new == SetLive(axis, id, live)
           at == PlaceOf(axis, id)
<1>1. Len(axis) \in Nat /\ DOMAIN axis = 1 .. Len(axis) /\ axis \in Seq(Slot)
  BY LenProperties DEF AxisOK
<1>2. at \in DOMAIN axis /\ axis[at].id = id
  BY IdAtPlace
<1>3. axis[at] \in Slot
  BY <1>1, <1>2
<1>4. new = [axis EXCEPT ![at] = [axis[at] EXCEPT !.live = live]]
  BY DEF SetLive
<1>5. [axis[at] EXCEPT !.live = live] \in Slot /\ [axis[at] EXCEPT !.live = live].id = id
  BY <1>2, <1>3 DEF Slot
<1>6. new \in Seq(Slot) /\ Len(new) = Len(axis)
  BY <1>1, <1>2, <1>4, <1>5, ExceptSeq
<1>7. DOMAIN new = DOMAIN axis
  BY <1>4
<1>8. \A i \in DOMAIN axis : new[i].id = axis[i].id
  BY <1>2, <1>4, <1>5
<1>9. \A i \in DOMAIN axis : i # at => new[i] = axis[i]
  BY <1>4
<1> HIDE DEF new, at
<1>10. AxisOK(new)
  BY <1>6, <1>7, <1>8 DEF AxisOK
<1>11. IdsOf(new) = IdsOf(axis)
  BY <1>7, <1>8 DEF IdsOf
<1>12. \A x : PlaceOf(new, x) = PlaceOf(axis, x)
  BY <1>7, <1>8 DEF PlaceOf
<1>13. ASSUME NEW x \in LiveIds(axis) \intersect LiveIds(new),
              NEW p \in IdsOf(axis), NEW q \in IdsOf(axis)
       PROVE  PlaceOf(new, x) \in Resolve(new, p, q) <=> PlaceOf(axis, x) \in Resolve(axis, p, q)
  <2> DEFINE places == Lesser(PlaceOf(axis, p), PlaceOf(axis, q)) ..
                       Greater(PlaceOf(axis, p), PlaceOf(axis, q))
  <2>1. Resolve(axis, p, q) = {i \in places : axis[i].live}
    BY ResolvedPlaces
  <2>2. Resolve(new, p, q) = {i \in places : new[i].live}
    BY <1>11, <1>12, ResolvedPlaces
  <2>3. axis[PlaceOf(axis, x)].live
    BY LivePlace
  <2>4. new[PlaceOf(new, x)].live
    BY <1>10, LivePlace
  <2> HIDE DEF places
  <2> QED BY <1>12, <2>1, <2>2, <2>3, <2>4
<1>14. Keeps(axis, new)
  BY <1>13 DEF Keeps
<1>15. SameOrder(axis, new)
  BY <1>11, <1>12 DEF SameOrder
<1> QED BY <1>6, <1>10, <1>11, <1>14, <1>15 DEF new

\* Where each place of a sequence goes when one element is inserted.
LEMMA InsertedPlaces ==
    ASSUME NEW S, NEW seq \in Seq(S), NEW n \in 1 .. Len(seq) + 1, NEW e \in S
    PROVE  /\ InsertAt(seq, n, e) \in Seq(S)
           /\ Len(InsertAt(seq, n, e)) = Len(seq) + 1
           /\ InsertAt(seq, n, e)[n] = e
           /\ \A i \in 1 .. Len(seq) :
                InsertAt(seq, n, e)[IF i < n THEN i ELSE i + 1] = seq[i]
<1> DEFINE head == SubSeq(seq, 1, n - 1)
           tail == SubSeq(seq, n, Len(seq))
           start == head \o <<e>>
<1>1. Len(seq) \in Nat /\ n \in Nat \ {0} /\ \A i \in 1 .. Len(seq) : seq[i] \in S
  BY LenProperties, ElementOfSeq
<1>2. head \in Seq(S) /\ Len(head) = n - 1 /\ \A i \in 1 .. n - 1 : head[i] = seq[i]
  <2>1. \A i \in 1 .. n - 1 : seq[i] \in S
    BY <1>1
  <2>2. /\ head \in Seq(S)
        /\ Len(head) = IF 1 <= n - 1 THEN n - 1 - 1 + 1 ELSE 0
        /\ \A i \in 1 .. n - 1 - 1 + 1 : head[i] = seq[1 + i - 1]
    BY <1>1, <2>1, SubSeqProperties
  <2> HIDE DEF head
  <2> QED BY <1>1, <2>2
<1>3. /\ tail \in Seq(S) /\ Len(tail) = Len(seq) - n + 1
      /\ \A i \in 1 .. Len(seq) - n + 1 : tail[i] = seq[n + i - 1]
  <2>1. \A i \in n .. Len(seq) : seq[i] \in S
    BY <1>1
  <2>2. /\ tail \in Seq(S)
        /\ Len(tail) = IF n <= Len(seq) THEN Len(seq) - n + 1 ELSE 0
        /\ \A i \in 1 .. Len(seq) - n + 1 : tail[i] = seq[n + i - 1]
    BY <1>1, <2>1, SubSeqProperties
  <2> HIDE DEF tail
  <2> QED BY <1>1, <2>2
<1>4. <<e>> \in Seq(S) /\ Len(<<e>>) = 1 /\ <<e>>[1] = e
  OBVIOUS
<1> HIDE DEF head, tail
<1>5. /\ start \in Seq(S) /\ Len(start) = n /\ start[n] = e
      /\ \A i \in 1 .. n - 1 : start[i] = seq[i]
  <2>1. /\ start \in Seq(S) /\ Len(start) = Len(head) + Len(<<e>>)
        /\ \A i \in 1 .. Len(head) + Len(<<e>>) :
                start[i] = IF i <= Len(head) THEN head[i] ELSE <<e>>[i - Len(head)]
    BY <1>2, <1>4, ConcatProperties
  <2> HIDE DEF start
  <2> QED BY <1>1, <1>2, <1>4, <2>1
<1> HIDE DEF start
<1>6. InsertAt(seq, n, e) = start \o tail
  BY DEF InsertAt, start, head, tail
<1>7. /\ start \o tail \in Seq(S) /\ Len(start \o tail) = Len(start) + Len(tail)
      /\ \A i \in 1 .. Len(start) + Len(tail) :
            (start \o tail)[i] = IF i <= Len(start) THEN start[i] ELSE tail[i - Len(start)]
  BY <1>3, <1>5, ConcatProperties
<1> DEFINE all == start \o tail
<1>8. /\ all \in Seq(S) /\ Len(all) = Len(seq) + 1
      /\ \A i \in 1 .. Len(seq) + 1 : all[i] = IF i <= n THEN start[i] ELSE tail[i - n]
  <2> HIDE DEF all
  <2> QED BY <1>1, <1>3, <1>5, <1>7 DEF all
<1> HIDE DEF all
<1>9. all[n] = e
  BY <1>1, <1>5, <1>8
<1>10. ASSUME NEW i \in 1 .. Len(seq)
       PROVE  all[IF i < n THEN i ELSE i + 1] = seq[i]
  <2>1. CASE i < n
    BY <1>1, <1>5, <1>8, <2>1
  <2>2. CASE ~ (i < n)
    <3>1. all[i + 1] = tail[i + 1 - n]
      BY <1>1, <1>8, <2>2
    <3>2. tail[i + 1 - n] = seq[n + (i + 1 - n) - 1]
      BY <1>1, <1>3, <2>2
    <3>3. n + (i + 1 - n) - 1 = i
      BY <1>1
    <3> QED BY <2>2, <3>1, <3>2, <3>3
  <2> QED BY <2>1, <2>2
<1> QED BY <1>6, <1>8, <1>9, <1>10 DEF all

LEMMA InsertAfterKeeps ==
    ASSUME NEW axis, AxisOK(axis), NEW anchor, NEW id \in Nat \ IdsOf(axis)
    PROVE  LET new == InsertAfter(axis, anchor, id)
           IN AxisOK(new) /\ IdsOf(new) = IdsOf(axis) \cup {id} /\ Len(new) = Len(axis) + 1
              /\ Keeps(axis, new) /\ SameOrder(axis, new)
<1> DEFINE n == (IF anchor \in IdsOf(axis) THEN PlaceOf(axis, anchor) ELSE 0) + 1
           slot == [id |-> id, live |-> TRUE]
           new == InsertAt(axis, n, slot)
           shift(i) == IF i < n THEN i ELSE i + 1
<1>1. Len(axis) \in Nat /\ DOMAIN axis = 1 .. Len(axis) /\ axis \in Seq(Slot)
  BY LenProperties DEF AxisOK
<1>2. n \in 1 .. Len(axis) + 1
  <2>1. CASE anchor \in IdsOf(axis)
    <3>1. PlaceOf(axis, anchor) \in DOMAIN axis
      BY <2>1, IdAtPlace
    <3> QED BY <1>1, <2>1, <3>1
  <2>2. CASE anchor \notin IdsOf(axis)
    BY <1>1, <2>2
  <2> QED BY <2>1, <2>2
<1>3. slot \in Slot /\ slot.id = id
  BY DEF Slot
<1>4. InsertAfter(axis, anchor, id) = new
  BY DEF InsertAfter
<1> HIDE DEF n, slot
<1>5. /\ new \in Seq(Slot) /\ Len(new) = Len(axis) + 1 /\ new[n] = slot
      /\ \A i \in 1 .. Len(axis) : new[shift(i)] = axis[i]
  BY <1>1, <1>2, <1>3, InsertedPlaces
<1> HIDE DEF new
<1>6. DOMAIN new = 1 .. Len(axis) + 1
  BY <1>5, LenProperties
<1>7. \A i \in 1 .. Len(axis) : shift(i) \in DOMAIN new
  BY <1>1, <1>2, <1>6
<1>8. ASSUME NEW j \in DOMAIN new, j # n
      PROVE  \E i \in 1 .. Len(axis) : j = shift(i)
  <2>1. CASE j < n
    <3>1. j \in 1 .. Len(axis) /\ j = shift(j)
      BY <1>1, <1>2, <1>6, <2>1
    <3> QED BY <3>1
  <2>2. CASE ~ (j < n)
    <3>1. j - 1 \in 1 .. Len(axis) /\ j = shift(j - 1)
      BY <1>1, <1>2, <1>6, <1>8, <2>2
    <3> QED BY <3>1
  <2> QED BY <2>1, <2>2
<1>9. \A i, j \in 1 .. Len(axis) : i <= j <=> shift(i) <= shift(j)
  BY <1>1, <1>2
<1>10. \A i \in 1 .. Len(axis) : axis[i].id # id
  BY <1>1 DEF IdsOf
<1> HIDE DEF shift
<1>11. AxisOK(new)
  <2>1. ASSUME NEW i \in DOMAIN new, NEW j \in DOMAIN new, new[i].id = new[j].id
        PROVE  i = j
    <3>1. CASE i = n /\ j = n
      BY <3>1
    <3>2. CASE i # n /\ j = n
      BY <1>3, <1>5, <1>8, <1>10, <2>1, <3>2
    <3>3. CASE i = n /\ j # n
      BY <1>3, <1>5, <1>8, <1>10, <2>1, <3>3
    <3>4. CASE i # n /\ j # n
      <4>1. PICK a \in 1 .. Len(axis) : i = shift(a)
        BY <1>8, <3>4
      <4>2. PICK b \in 1 .. Len(axis) : j = shift(b)
        BY <1>8, <3>4
      <4>3. axis[a].id = axis[b].id
        BY <1>5, <2>1, <4>1, <4>2
      <4>4. a = b
        BY <1>1, <4>3 DEF AxisOK
      <4> QED BY <4>1, <4>2, <4>4
    <3> QED BY <3>1, <3>2, <3>3, <3>4
  <2> QED BY <1>5, <2>1 DEF AxisOK
<1>12. IdsOf(new) = IdsOf(axis) \cup {id}
  <2>1. ASSUME NEW x \in IdsOf(new)
        PROVE  x \in IdsOf(axis) \cup {id}
    <3>1. PICK j \in DOMAIN new : x = new[j].id
      BY DEF IdsOf
    <3>2. CASE j = n
      BY <1>3, <1>5, <3>1, <3>2
    <3>3. CASE j # n
      <4>1. PICK i \in 1 .. Len(axis) : j = shift(i)
        BY <1>8, <3>3
      <4>2. x = axis[i].id
        BY <1>5, <3>1, <4>1
      <4> QED BY <1>1, <4>2 DEF IdsOf
    <3> QED BY <3>2, <3>3
  <2>2. ASSUME NEW x \in IdsOf(axis)
        PROVE  x \in IdsOf(new)
    <3>1. PICK i \in 1 .. Len(axis) : x = axis[i].id
      BY <1>1 DEF IdsOf
    <3>2. shift(i) \in DOMAIN new /\ x = new[shift(i)].id
      BY <1>5, <1>7, <3>1
    <3> QED BY <3>2 DEF IdsOf
  <2>3. id \in IdsOf(new)
    <3>1. n \in DOMAIN new /\ new[n].id = id
      BY <1>2, <1>3, <1>5, <1>6
    <3> QED BY <3>1 DEF IdsOf
  <2> QED BY <2>1, <2>2, <2>3
<1>13. ASSUME NEW x \in IdsOf(axis)
       PROVE  PlaceOf(axis, x) \in 1 .. Len(axis) /\ PlaceOf(new, x) = shift(PlaceOf(axis, x))
  <2>1. PlaceOf(axis, x) \in 1 .. Len(axis) /\ axis[PlaceOf(axis, x)].id = x
    BY <1>1, IdAtPlace
  <2>2. shift(PlaceOf(axis, x)) \in DOMAIN new /\ new[shift(PlaceOf(axis, x))].id = x
    BY <1>5, <1>7, <2>1
  <2>3. PlaceOf(new, new[shift(PlaceOf(axis, x))].id) = shift(PlaceOf(axis, x))
    BY <1>11, <2>2, PlaceIs
  <2> QED BY <2>1, <2>2, <2>3
<1>14. ASSUME NEW x \in LiveIds(axis) \intersect LiveIds(new),
              NEW p \in IdsOf(axis), NEW q \in IdsOf(axis)
       PROVE  PlaceOf(new, x) \in Resolve(new, p, q) <=> PlaceOf(axis, x) \in Resolve(axis, p, q)
  <2> DEFINE k == PlaceOf(axis, x)
             a == PlaceOf(axis, p)
             b == PlaceOf(axis, q)
  <2>1. x \in IdsOf(axis) /\ axis[k].live
    BY LivePlace
  <2>2. PlaceOf(new, x) = shift(k) /\ PlaceOf(new, p) = shift(a) /\ PlaceOf(new, q) = shift(b)
    BY <1>13, <2>1
  <2>3. k \in 1 .. Len(axis) /\ a \in 1 .. Len(axis) /\ b \in 1 .. Len(axis)
    BY <1>13, <2>1
  <2>4. new[shift(k)] = axis[k]
    BY <1>5, <2>3
  <2>5. Resolve(axis, p, q) = {i \in Lesser(a, b) .. Greater(a, b) : axis[i].live}
    BY ResolvedPlaces
  <2>6. Resolve(new, p, q) = {i \in Lesser(shift(a), shift(b)) .. Greater(shift(a), shift(b)) : new[i].live}
    BY <1>12, <2>2, ResolvedPlaces
  <2>7. shift(k) \in Nat /\ shift(a) \in Nat /\ shift(b) \in Nat
    BY <1>1, <1>6, <1>7, <2>3
  <2> HIDE DEF k, a, b
  <2>8. k \in Lesser(a, b) .. Greater(a, b) <=> (a <= k /\ k <= b) \/ (b <= k /\ k <= a)
    BY <1>1, <2>3 DEF Lesser, Greater
  <2>9. shift(k) \in Lesser(shift(a), shift(b)) .. Greater(shift(a), shift(b))
            <=> (shift(a) <= shift(k) /\ shift(k) <= shift(b))
                \/ (shift(b) <= shift(k) /\ shift(k) <= shift(a))
    BY <2>7 DEF Lesser, Greater
  <2>10. shift(k) \in Lesser(shift(a), shift(b)) .. Greater(shift(a), shift(b))
            <=> k \in Lesser(a, b) .. Greater(a, b)
    BY <1>9, <2>3, <2>8, <2>9
  <2>11. PlaceOf(new, x) = shift(k) /\ PlaceOf(axis, x) = k
    BY <2>2 DEF k
  <2> QED BY <2>1, <2>4, <2>5, <2>6, <2>10, <2>11
<1>15. Keeps(axis, new)
  BY <1>14 DEF Keeps
<1>16. SameOrder(axis, new)
  <2> SUFFICES ASSUME NEW p \in IdsOf(axis), NEW q \in IdsOf(axis)
               PROVE  PlaceOf(axis, p) <= PlaceOf(axis, q) <=> PlaceOf(new, p) <= PlaceOf(new, q)
    BY <1>12 DEF SameOrder
  <2> QED BY <1>9, <1>13
<1> QED BY <1>4, <1>5, <1>11, <1>12, <1>15, <1>16

\* The identity an insertion takes is new.
LEMMA NextIdFresh ==
    ASSUME NEW axis, AxisOK(axis), axis # <<>>
    PROVE  Max(IdsOf(axis)) + 1 \in Nat \ IdsOf(axis)
<1> DEFINE Bounded(n) == \E m \in Nat : \A i \in 1 .. n : axis[i].id <= m
           T == {n \in 0 .. Len(axis) : ~ Bounded(n)}
<1>1. Len(axis) \in Nat \ {0} /\ DOMAIN axis = 1 .. Len(axis)
      /\ \A i \in DOMAIN axis : axis[i].id \in Nat
  <2>1. axis \in Seq(Slot) /\ Len(axis) \in Nat /\ DOMAIN axis = 1 .. Len(axis)
        /\ axis \in [1 .. Len(axis) -> Slot]
    BY LenProperties DEF AxisOK
  <2>2. Len(axis) # 0
    BY <2>1, EmptySeq
  <2>3. \A i \in DOMAIN axis : axis[i] \in Slot
    BY <2>1
  <2> QED BY <2>1, <2>2, <2>3 DEF Slot
<1>2. T = {}
  <2>1. SUFFICES ASSUME T # {} PROVE FALSE
    OBVIOUS
  <2>2. T \subseteq Nat
    BY <1>1
  <2>3. PICK n \in T : \A k \in T : n <= k
    <3> HIDE DEF T
    <3> QED BY <2>1, <2>2, LeastNat
  <2>4. n # 0
    <3>1. \A i \in 1 .. 0 : axis[i].id <= 0
      OBVIOUS
    <3> QED BY <2>3, <3>1
  <2>5. n \in DOMAIN axis /\ n - 1 \in 0 .. Len(axis) /\ n - 1 \notin T
    <3>1. n \in 0 .. Len(axis)
      BY <2>3
    <3>2. n \in 1 .. Len(axis) /\ n - 1 \in 0 .. Len(axis) /\ ~ (n <= n - 1)
      BY <1>1, <2>4, <3>1
    <3> HIDE DEF T
    <3> QED BY <1>1, <2>3, <3>2
  <2>6. PICK m \in Nat : \A i \in 1 .. n - 1 : axis[i].id <= m
    BY <2>5
  <2> HIDE DEF T
  <2>7. axis[n].id \in Nat /\ Greater(m, axis[n].id) \in Nat
        /\ m <= Greater(m, axis[n].id) /\ axis[n].id <= Greater(m, axis[n].id)
    <3>1. axis[n].id \in Nat
      BY <1>1, <2>5
    <3> QED BY <3>1 DEF Greater
  <2>8. \A i \in 1 .. n : axis[i].id <= Greater(m, axis[n].id)
    <3> TAKE i \in 1 .. n
    <3>1. CASE i = n
      BY <2>7, <3>1
    <3>2. CASE i # n
      <4>1. i \in 1 .. n - 1 /\ i \in DOMAIN axis /\ axis[i].id \in Nat
        <5>1. n \in 1 .. Len(axis) /\ Len(axis) \in Nat
          BY <1>1, <2>5
        <5>2. i \in 1 .. n - 1 /\ i \in 1 .. Len(axis)
          BY <3>2, <5>1
        <5> QED BY <1>1, <5>2
      <4>2. axis[i].id <= m
        BY <2>6, <4>1
      <4> QED BY <2>7, <4>1, <4>2
    <3> QED BY <3>1, <3>2
  <2>9. Bounded(n)
    BY <2>7, <2>8
  <2> QED BY <2>3, <2>9 DEF T
<1>3. Bounded(Len(axis))
  <2>1. Len(axis) \in 0 .. Len(axis)
    BY <1>1
  <2> QED BY <1>2, <2>1
<1>4. PICK m \in Nat : \A i \in 1 .. Len(axis) : axis[i].id <= m
  BY <1>3
<1>5. IdsOf(axis) \subseteq Nat /\ IdsOf(axis) # {} /\ \A x \in IdsOf(axis) : x <= m
  BY <1>1, <1>4 DEF IdsOf
<1>6. Max(IdsOf(axis)) \in IdsOf(axis) /\ \A x \in IdsOf(axis) : x <= Max(IdsOf(axis))
  BY <1>5, MaxIsGreatest
<1>7. Max(IdsOf(axis)) \in Nat
  BY <1>5, <1>6
<1> QED BY <1>5, <1>6, <1>7

LEMMA LiveInIds ==
    ASSUME NEW axis
    PROVE  LiveIds(axis) \subseteq IdsOf(axis)
BY DEF LiveIds, IdsOf

LEMMA KeepsItself ==
    ASSUME NEW axis
    PROVE  Keeps(axis, axis)
BY DEF Keeps

-----------------------------------------------------------------------------
(* Folds.  The library's folds are one recursion over the subsets of what  *)
(* is folded, that takes a chosen element away.                            *)

\* A set with the first number, and the next of each below the bound, has all.
LEMMA CountsUp ==
    ASSUME NEW n \in Nat, NEW T, 0 \in T, \A k \in 0 .. n - 1 : k \in T => k + 1 \in T
    PROVE  0 .. n \subseteq T
<1> DEFINE Bad == 0 .. n \ T
<1>1. SUFFICES ASSUME Bad # {}
               PROVE  FALSE
  OBVIOUS
<1>2. PICK least \in Bad : \A k \in Bad : least <= k
  <2>1. Bad \subseteq Nat
    OBVIOUS
  <2> HIDE DEF Bad
  <2> QED BY <1>1, <2>1, LeastNat
<1>3. least # 0 /\ least - 1 \in 0 .. n - 1 /\ ~ (least <= least - 1)
  OBVIOUS
<1>4. least - 1 \in T
  BY <1>2, <1>3
<1> QED BY <1>3, <1>4

\* ch chooses an element of every subset there is one in.
Chooses(ch, S) == \A s \in SUBSET S : s # {} => ch[s] \in s

\* Taking the chosen element away makes a finite set smaller by one.
LEMMA ChosenAway ==
    ASSUME NEW S, IsFiniteSet(S), NEW ch, Chooses(ch, S), NEW s \in SUBSET S, s # {}
    PROVE  /\ ch[s] \in S /\ s \ {ch[s]} \in SUBSET S
           /\ Cardinality(s) \in Nat /\ Cardinality(s \ {ch[s]}) = Cardinality(s) - 1
<1>1. ch[s] \in s
  BY DEF Chooses
<1>2. IsFiniteSet(s)
  BY FS_Subset
<1> QED BY <1>1, <1>2, FS_RemoveElement, FS_CardinalityType

\* What holds of nothing, and of a set when it does without its chosen
\* element, holds of every subset of a finite set.
LEMMA ByChoice ==
    ASSUME NEW S, IsFiniteSet(S), NEW ch, Chooses(ch, S), NEW T, {} \in T,
           \A s \in SUBSET S : s # {} /\ s \ {ch[s]} \in T => s \in T
    PROVE  \A s \in SUBSET S : s \in T
<1> DEFINE N == {k \in Nat : \A s \in SUBSET S : Cardinality(s) = k => s \in T}
<1>1. 0 \in N
  <2>1. \A s \in SUBSET S : Cardinality(s) = 0 => s = {}
    BY FS_Subset, FS_EmptySet
  <2> QED BY <2>1
<1>2. ASSUME NEW k \in Nat, k \in N
      PROVE  k + 1 \in N
  <2> SUFFICES ASSUME NEW s \in SUBSET S, Cardinality(s) = k + 1
               PROVE  s \in T
    OBVIOUS
  <2>1. s # {}
    BY FS_EmptySet
  <2>2. Cardinality(s \ {ch[s]}) = k /\ s \ {ch[s]} \in SUBSET S
    BY <2>1, ChosenAway
  <2>3. s \ {ch[s]} \in T
    BY <1>2, <2>2
  <2> QED BY <2>1, <2>3
<1>3. ASSUME NEW s \in SUBSET S
      PROVE  s \in T
  <2>1. Cardinality(s) \in Nat
    BY FS_Subset, FS_CardinalityType
  <2>2. 0 .. Cardinality(s) \subseteq N
    <3> HIDE DEF N
    <3> QED BY <1>1, <1>2, <2>1, CountsUp
  <2>3. Cardinality(s) \in N
    BY <2>1, <2>2
  <2> QED BY <2>3
<1> QED BY <1>3

\* The result of folding each subset.
Folds(h, S, D, base, ch, g) ==
    /\ h \in [SUBSET S -> D]
    /\ \A s \in SUBSET S : h[s] = IF s = {} THEN base ELSE g[ch[s]][h[s \ {ch[s]}]]

\* The recursion has a solution.
LEMMA FoldIsMade ==
    ASSUME NEW S, IsFiniteSet(S), NEW ch, Chooses(ch, S), NEW D, NEW base \in D, NEW g,
           \A x \in S : \A d \in D : g[x][d] \in D
    PROVE  \E h : Folds(h, S, D, base, ch, g)
<1> DEFINE Small(k) == {s \in SUBSET S : Cardinality(s) <= k}
           Made(h, k) ==
              /\ h \in [Small(k) -> D]
              /\ \A s \in Small(k) : h[s] = IF s = {} THEN base ELSE g[ch[s]][h[s \ {ch[s]}]]
           n == Cardinality(S)
           T == {k \in 0 .. n : \E h : Made(h, k)}
<1>0. n \in Nat
  BY FS_CardinalityType
<1>1. 0 \in T
  <2> DEFINE h == [s \in Small(0) |-> base]
  <2>1. \A s \in Small(0) : s = {}
    <3> SUFFICES ASSUME NEW s \in Small(0)
                 PROVE  s = {}
      OBVIOUS
    <3>1. IsFiniteSet(s)
      BY FS_Subset
    <3>2. Cardinality(s) \in Nat /\ Cardinality(s) <= 0
      BY <3>1, FS_CardinalityType
    <3>3. Cardinality(s) = 0
      BY <3>2
    <3> QED BY <3>1, <3>3, FS_EmptySet
  <2>2. h \in [Small(0) -> D] /\ \A s \in Small(0) : h[s] = base
    OBVIOUS
  <2>3. Made(h, 0)
    BY <2>1, <2>2
  <2> HIDE DEF h, Made
  <2> QED BY <1>0, <2>3
<1>2. ASSUME NEW k \in 0 .. n - 1, k \in T
      PROVE  k + 1 \in T
  <2>1. PICK h : Made(h, k)
    BY <1>2
  <2> DEFINE h2 == [s \in Small(k + 1) |->
                      IF Cardinality(s) <= k THEN h[s] ELSE g[ch[s]][h[s \ {ch[s]}]]]
  <2>2. \A s \in Small(k + 1) : Cardinality(s) \in Nat
    BY FS_Subset, FS_CardinalityType
  <2>3. ASSUME NEW s \in Small(k + 1), s # {}
        PROVE  ch[s] \in S /\ s \ {ch[s]} \in Small(k) /\ s \ {ch[s]} \in Small(k + 1)
               /\ Cardinality(s \ {ch[s]}) <= k
    <3>1. /\ ch[s] \in S /\ s \ {ch[s]} \in SUBSET S /\ Cardinality(s) \in Nat
          /\ Cardinality(s \ {ch[s]}) = Cardinality(s) - 1
      BY <2>3, ChosenAway
    <3>2. Cardinality(s) <= k + 1
      OBVIOUS
    <3>3. Cardinality(s \ {ch[s]}) <= k /\ Cardinality(s \ {ch[s]}) <= k + 1
      BY <3>1, <3>2
    <3> QED BY <3>1, <3>3
  <2>4. ASSUME NEW s \in Small(k + 1), ~ (Cardinality(s) <= k)
        PROVE  s # {}
    BY <2>4, FS_EmptySet
  <2>5. h \in [Small(k) -> D]
    BY <2>1
  <2>6. \A s \in Small(k + 1) : Cardinality(s) <= k => s \in Small(k)
    OBVIOUS
  <2>7. h2 \in [Small(k + 1) -> D]
    <3>1. ASSUME NEW s \in Small(k + 1)
          PROVE  h2[s] \in D
      <4>1. CASE Cardinality(s) <= k
        BY <2>5, <2>6, <4>1
      <4>2. CASE ~ (Cardinality(s) <= k)
        <5>1. s # {}
          BY <2>4, <4>2
        <5>2. ch[s] \in S /\ s \ {ch[s]} \in Small(k)
          BY <2>3, <5>1
        <5>3. h[s \ {ch[s]}] \in D
          BY <2>5, <5>2
        <5>4. h2[s] = g[ch[s]][h[s \ {ch[s]}]]
          BY <4>2
        <5> HIDE DEF h2, Small
        <5> QED BY <5>2, <5>3, <5>4
      <4> QED BY <4>1, <4>2
    <3> HIDE DEF Small
    <3> QED BY <3>1
  <2>8. ASSUME NEW s \in Small(k + 1)
        PROVE  h2[s] = IF s = {} THEN base ELSE g[ch[s]][h2[s \ {ch[s]}]]
    <3>1. CASE s = {}
      <4>1. Cardinality(s) <= k
        BY <3>1, FS_EmptySet
      <4>2. s \in Small(k)
        BY <2>6, <4>1
      <4>3. h[s] = base
        BY <2>1, <3>1, <4>2
      <4> QED BY <3>1, <4>1, <4>3
    <3>2. CASE s # {}
      <4>1. s \ {ch[s]} \in Small(k + 1) /\ Cardinality(s \ {ch[s]}) <= k
        BY <2>3, <3>2
      <4>2. h2[s \ {ch[s]}] = h[s \ {ch[s]}]
        BY <4>1
      <4>3. h2[s] = g[ch[s]][h[s \ {ch[s]}]]
        <5>1. CASE Cardinality(s) <= k
          <6>1. s \in Small(k)
            BY <2>6, <5>1
          <6>2. h[s] = g[ch[s]][h[s \ {ch[s]}]]
            BY <2>1, <3>2, <6>1
          <6> QED BY <5>1, <6>2
        <5> QED BY <5>1
      <4> HIDE DEF h2, Small
      <4> QED BY <3>2, <4>2, <4>3
    <3> QED BY <3>1, <3>2
  <2>9. Made(h2, k + 1)
    <3> HIDE DEF h2, Small
    <3> QED BY <2>7, <2>8
  <2>10. k + 1 \in 0 .. n
    BY <1>0
  <2> HIDE DEF h2, Made, n
  <2> QED BY <2>9, <2>10
<1>3. n \in T
  <2>1. 0 .. n \subseteq T
    <3> HIDE DEF T, n
    <3> QED BY <1>0, <1>1, <1>2, CountsUp
  <2> HIDE DEF T
  <2> QED BY <1>0, <2>1
<1>4. PICK h : Made(h, n)
  BY <1>3
<1>5. Small(n) = SUBSET S
  <2>1. \A s \in SUBSET S : Cardinality(s) <= n
    BY FS_Subset
  <2> QED BY <2>1
<1>6. Folds(h, S, D, base, ch, g)
  <2> HIDE DEF Small
  <2> QED BY <1>4, <1>5 DEF Folds
<1> QED BY <1>6

LEMMA ImageFinite ==
    ASSUME NEW S, IsFiniteSet(S), NEW f
    PROVE  IsFiniteSet({f[x] : x \in S})
<1> DEFINE T == {f[x] : x \in S}
           e == [x \in S |-> f[x]]
<1>1. e \in Surjection(S, T)
  BY DEF Surjection
<1> HIDE DEF e, T
<1>2. IsFiniteSet(T)
  BY <1>1, FS_Surjection
<1> QED BY <1>2 DEF T

\* What a fold of a sequence takes away is the last index.
Largest(n) == [s \in SUBSET (1 .. n) |-> Max(s)]

LEMMA LargestChosen ==
    ASSUME NEW n \in Nat
    PROVE  /\ IsFiniteSet(1 .. n) /\ Chooses(Largest(n), 1 .. n)
           /\ \A s \in SUBSET (1 .. n) : Largest(n)[s] = Max(s)
           /\ \A i \in 1 .. n : /\ 1 .. i \in SUBSET (1 .. n) /\ 1 .. i # {}
                                 /\ Max(1 .. i) = i /\ (1 .. i) \ {i} = 1 .. i - 1
<1>1. IsFiniteSet(1 .. n)
  BY FS_Interval
<1>2. \A s \in SUBSET (1 .. n) : Largest(n)[s] = Max(s)
  BY DEF Largest
<1>3. ASSUME NEW s \in SUBSET (1 .. n), s # {}
      PROVE  Max(s) \in s /\ \A y \in s : y <= Max(s)
  <2>1. s \subseteq Nat /\ \A y \in s : y <= n
    OBVIOUS
  <2> QED BY <1>3, <2>1, MaxIsGreatest
<1>4. Chooses(Largest(n), 1 .. n)
  BY <1>2, <1>3 DEF Chooses
<1>5. ASSUME NEW i \in 1 .. n
      PROVE  /\ 1 .. i \in SUBSET (1 .. n) /\ 1 .. i # {}
             /\ Max(1 .. i) = i /\ (1 .. i) \ {i} = 1 .. i - 1
  <2> DEFINE m == Max(1 .. i)
  <2>1. 1 .. i \in SUBSET (1 .. n) /\ i \in 1 .. i /\ (1 .. i) \ {i} = 1 .. i - 1
    OBVIOUS
  <2>2. m \in 1 .. i /\ i <= m
    BY <1>3, <2>1
  <2> HIDE DEF m
  <2>3. m = i
    BY <2>2
  <2> QED BY <2>1, <2>3 DEF m
<1> QED BY <1>1, <1>2, <1>4, <1>5

LEMMA LargestInside ==
    ASSUME NEW n \in Nat, NEW s \in SUBSET (1 .. n), s # {}
    PROVE  Largest(n)[s] = Max(s) /\ Max(s) \in s /\ Max(s) \in 1 .. n
           /\ s \ {Max(s)} \in SUBSET (1 .. n)
<1>1. Largest(n)[s] = Max(s) /\ Largest(n)[s] \in s
  BY LargestChosen DEF Chooses
<1> QED BY <1>1

LEMMA ByLargest ==
    ASSUME NEW n \in Nat, NEW T, {} \in T,
           \A s \in SUBSET (1 .. n) : s # {} /\ s \ {Max(s)} \in T => s \in T
    PROVE  \A s \in SUBSET (1 .. n) : s \in T
<1> DEFINE S == 1 .. n
<1>1. IsFiniteSet(S) /\ Chooses(Largest(n), S)
  BY LargestChosen
<1>2. \A s \in SUBSET S : Largest(n)[s] = Max(s)
  BY LargestChosen
<1> HIDE DEF S
<1>3. \A s \in SUBSET S : s # {} /\ s \ {Largest(n)[s]} \in T => s \in T
  BY <1>2 DEF S
<1>4. \A s \in SUBSET S : s \in T
  BY <1>1, <1>3, ByChoice
<1> QED BY <1>4 DEF S

\* The states a fold of a sequence goes through.
Runs(run, D, base, n, g) ==
    /\ run \in [0 .. n -> D]
    /\ run[0] = base
    /\ \A i \in 1 .. n : run[i] = g[i][run[i - 1]]

LEMMA FoldRuns ==
    ASSUME NEW n \in Nat, NEW D, NEW base \in D, NEW g,
           \A i \in 1 .. n : \A d \in D : g[i][d] \in D
    PROVE  \E h, run : /\ Folds(h, 1 .. n, D, base, Largest(n), g)
                       /\ Runs(run, D, base, n, g) /\ run[n] = h[1 .. n]
<1>1. PICK h : Folds(h, 1 .. n, D, base, Largest(n), g)
  BY LargestChosen, FoldIsMade
<1>2. h \in [SUBSET (1 .. n) -> D]
      /\ \A s \in SUBSET (1 .. n) :
            h[s] = IF s = {} THEN base ELSE g[Largest(n)[s]][h[s \ {Largest(n)[s]}]]
  BY <1>1 DEF Folds
<1> DEFINE run == [i \in 0 .. n |-> h[1 .. i]]
<1>3. \A i \in 0 .. n : 1 .. i \in SUBSET (1 .. n)
  OBVIOUS
<1>4. run \in [0 .. n -> D] /\ run[n] = h[1 .. n]
  BY <1>2, <1>3
<1>5. run[0] = base
  <2>1. 1 .. 0 = {} /\ {} \in SUBSET (1 .. n)
    OBVIOUS
  <2>2. h[{}] = base
    BY <1>2, <2>1
  <2> QED BY <2>1, <2>2
<1>6. ASSUME NEW i \in 1 .. n
      PROVE  run[i] = g[i][run[i - 1]]
  <2>1. /\ 1 .. i \in SUBSET (1 .. n) /\ 1 .. i # {} /\ Largest(n)[1 .. i] = i
        /\ (1 .. i) \ {i} = 1 .. i - 1
    BY LargestChosen
  <2>2. h[1 .. i] = g[i][h[1 .. i - 1]]
    BY <1>2, <2>1
  <2> QED BY <2>2
<1> HIDE DEF run
<1>7. Runs(run, D, base, n, g)
  BY <1>4, <1>5, <1>6 DEF Runs
<1> QED BY <1>1, <1>4, <1>7

\* A fold of a sequence whose steps stay in D is solved in D.
Solves(h, D, base, n, g) ==
    /\ h \in [SUBSET (1 .. n) -> D]
    /\ \A s \in SUBSET (1 .. n) :
          /\ h[s] = IF s = {} THEN base ELSE g[Max(s)][h[s \ {Max(s)}]]
          /\ s # {} => Max(s) \in 1 .. n /\ h[s \ {Max(s)}] \in D

LEMMA FoldSolved ==
    ASSUME NEW n \in Nat, NEW D, NEW base \in D, NEW g,
           \A i \in 1 .. n : \A d \in D : g[i][d] \in D
    PROVE  \E h : Solves(h, D, base, n, g)
<1>1. PICK h : Folds(h, 1 .. n, D, base, Largest(n), g)
  BY LargestChosen, FoldIsMade
<1>2. h \in [SUBSET (1 .. n) -> D]
  BY <1>1 DEF Folds
<1>3. ASSUME NEW s \in SUBSET (1 .. n)
      PROVE  /\ h[s] = IF s = {} THEN base ELSE g[Max(s)][h[s \ {Max(s)}]]
             /\ s # {} => Max(s) \in 1 .. n /\ h[s \ {Max(s)}] \in D
  <2>1. CASE s = {}
    BY <1>1, <2>1 DEF Folds
  <2>2. CASE s # {}
    <3>1. Largest(n)[s] = Max(s) /\ Max(s) \in 1 .. n /\ s \ {Max(s)} \in SUBSET (1 .. n)
      BY <2>2, LargestInside
    <3>2. h[s] = g[Max(s)][h[s \ {Max(s)}]]
      BY <1>1, <2>2, <3>1 DEF Folds
    <3> QED BY <1>2, <2>2, <3>1, <3>2
  <2> QED BY <2>1, <2>2
<1> QED BY <1>2, <1>3 DEF Solves
=============================================================================
