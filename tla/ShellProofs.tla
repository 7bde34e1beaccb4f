---------------------------- MODULE ShellProofs -----------------------------
(***************************************************************************)
(* The shell's four properties, for every height of the sheet, window and  *)
(* row, every opening sheet, key, wheel step and foreign text, and any     *)
(* number of events.  The first sections say what commands make of a book, *)
(* alone and in batches, and what a viewport shows; then comes IInv, and   *)
(* that every action keeps it; then one section for each property.         *)
(***************************************************************************)
EXTENDS Shell, AxisProofs

-----------------------------------------------------------------------------
(* Numbers and texts.                                                      *)

LEMMA MaxPair ==
    ASSUME NEW a \in Int, NEW b \in Int
    PROVE  Max({a, b}) = IF a >= b THEN a ELSE b
<1>1. \E x \in {a, b} : \A y \in {a, b} : x >= y
  OBVIOUS
<1>2. Max({a, b}) \in {a, b} /\ Max({a, b}) >= a /\ Max({a, b}) >= b
  BY <1>1 DEF Max
<1> QED BY <1>2

LEMMA MinPair ==
    ASSUME NEW a \in Int, NEW b \in Int
    PROVE  Min({a, b}) = IF a <= b THEN a ELSE b
<1>1. \E x \in {a, b} : \A y \in {a, b} : x =< y
  OBVIOUS
<1>2. Min({a, b}) \in {a, b} /\ Min({a, b}) <= a /\ Min({a, b}) <= b
  BY <1>1 DEF Min
<1> QED BY <1>2

\* A formula moved by a number of rows is as long as it was.
LEMMA TranslatedText ==
    ASSUME NEW text \in Texts, NEW delta \in Int
    PROVE  Translated(text, delta) \in Texts
<1>1. text \in Seq(Int) /\ Len(text) \in Nat /\ DOMAIN text = 1 .. Len(text)
  BY LenProperties DEF Texts
<1>2. \A i \in DOMAIN text : text[i] \in Int
  BY <1>1
<1> DEFINE new == [i \in DOMAIN text |->
            IF text[i] < 0 THEN text[i]
            ELSE IF text[i] + delta < 0 THEN Broken ELSE text[i] + delta]
<1>3. new \in [1 .. Len(text) -> Int]
  BY <1>1, <1>2 DEF Broken
<1>4. new \in Seq(Int) /\ Len(new) = Len(text)
  BY <1>1, <1>3
<1> HIDE DEF new
<1>5. new \in Texts
  BY <1>4 DEF Texts
<1> QED BY <1>5 DEF Translated, new

\* Characters taken out and put in.
LEMMA SplicedText ==
    ASSUME NEW text \in Seq(Int), NEW new \in Seq(Int), NEW from \in Nat, NEW to \in Nat,
           from <= to, to <= Len(text)
    PROVE  /\ Spliced(text, from, to, new) \in Seq(Int)
           /\ Len(Spliced(text, from, to, new)) = Len(text) - (to - from) + Len(new)
<1>1. Len(text) \in Nat /\ Len(new) \in Nat
  BY LenProperties
<1>2. SubSeq(text, 1, from) \in Seq(Int) /\ Len(SubSeq(text, 1, from)) = from
  BY <1>1
<1>3. SubSeq(text, to + 1, Len(text)) \in Seq(Int)
      /\ Len(SubSeq(text, to + 1, Len(text))) = Len(text) - to
  BY <1>1
<1> DEFINE head == SubSeq(text, 1, from)
           tail == SubSeq(text, to + 1, Len(text))
<1> HIDE DEF head, tail
<1>4. head \in Seq(Int) /\ Len(head) = from /\ tail \in Seq(Int) /\ Len(tail) = Len(text) - to
  BY <1>2, <1>3 DEF head, tail
<1>5. head \o new \in Seq(Int) /\ Len(head \o new) = from + Len(new)
  BY Zenon, <1>4, ConcatProperties
<1> DEFINE both == head \o new
<1> HIDE DEF both
<1>6. both \in Seq(Int) /\ Len(both) = from + Len(new)
  BY <1>5 DEF both
<1>7. tail \in Seq(Int) /\ Len(tail) = Len(text) - to
  BY <1>4
<1>8. both \o tail \in Seq(Int) /\ Len(both \o tail) = Len(both) + Len(tail)
  <2>1. \A s, t \in Seq(Int) : s \o t \in Seq(Int) /\ Len(s \o t) = Len(s) + Len(t)
    BY ConcatProperties
  <2> QED BY Zenon, <1>6, <1>7, <2>1
<1>9. Spliced(text, from, to, new) = both \o tail
  BY Zenon DEF Spliced, both, head, tail
<1>10. Len(text) - (to - from) + Len(new) = Len(both) + Len(tail)
  BY <1>1, <1>6, <1>7
<1> QED BY Zenon, <1>8, <1>9, <1>10

-----------------------------------------------------------------------------
(* The live order of an axis.                                              *)

LEMMA CountNat ==
    ASSUME NEW rows, AxisOK(rows)
    PROVE  Cardinality(LiveIds(rows)) \in Nat
<1>1. Len(rows) + 1 \in Nat
  BY LenProperties DEF AxisOK
<1> QED BY <1>1, LiveCount, BeforeNat

LEMMA OrderIs ==
    ASSUME NEW rows, AxisOK(rows)
    PROVE  /\ LiveOrder(rows) \in Seq(IdsOf(rows))
           /\ Len(LiveOrder(rows)) = Cardinality(LiveIds(rows))
           /\ Len(LiveOrder(rows)) \in Nat
           /\ DOMAIN LiveOrder(rows) = 1 .. Len(LiveOrder(rows))
           /\ \A i \in 1 .. Len(LiveOrder(rows)) :
                /\ LiveOrder(rows)[i] = At(rows, i - 1)
                /\ LiveOrder(rows)[i] \in IdsOf(rows)
                /\ PositionOf(rows, LiveOrder(rows)[i]) = i - 1
<1> DEFINE n == Cardinality(LiveIds(rows))
<1>1. n \in Nat
  BY CountNat
<1>2. ASSUME NEW i \in 1 .. n
      PROVE  At(rows, i - 1) \in IdsOf(rows) /\ PositionOf(rows, At(rows, i - 1)) = i - 1
  <2>1. i - 1 \in Nat /\ i - 1 < Cardinality(LiveIds(rows))
    BY <1>1
  <2> QED BY <2>1, AtBound
<1> DEFINE order == [i \in 1 .. n |-> At(rows, i - 1)]
<1> HIDE DEF n
<1>3. order \in [1 .. n -> IdsOf(rows)]
  BY <1>2
<1>4. order \in Seq(IdsOf(rows)) /\ Len(order) = n /\ DOMAIN order = 1 .. n
  BY <1>1, <1>3
<1>5. \A i \in 1 .. n : order[i] = At(rows, i - 1)
  OBVIOUS
<1>6. LiveOrder(rows) = order
  BY DEF LiveOrder, n
<1> HIDE DEF order
<1> QED BY <1>1, <1>2, <1>4, <1>5, <1>6 DEF n

\* No identity stands twice in it.
LEMMA OrderInjective ==
    ASSUME NEW rows, AxisOK(rows), NEW i \in 1 .. Len(LiveOrder(rows)),
           NEW j \in 1 .. Len(LiveOrder(rows)), LiveOrder(rows)[i] = LiveOrder(rows)[j]
    PROVE  i = j
<1>1. i - 1 = j - 1
  BY OrderIs
<1> QED BY <1>1, OrderIs

\* An axis: identities in some order, none twice.
Order(ids, seq) ==
    /\ seq \in Seq(ids)
    /\ \A i, j \in 1 .. Len(seq) : seq[i] = seq[j] => i = j

LEMMA OrderOfRows ==
    ASSUME NEW rows, AxisOK(rows)
    PROVE  Order(IdsOf(rows), LiveOrder(rows))
BY OrderIs, OrderInjective DEF Order

LEMMA HasIs ==
    ASSUME NEW ids, NEW ax \in Seq(ids), NEW id
    PROVE  /\ Has(ax, id) <=> \E i \in 1 .. Len(ax) : ax[i] = id
           /\ Has(ax, id) => id \in ids
<1>1. DOMAIN ax = 1 .. Len(ax) /\ ax \in [1 .. Len(ax) -> ids]
  BY LenProperties
<1>2. Range(ax) = {ax[i] : i \in 1 .. Len(ax)}
  BY <1>1 DEF Range
<1> QED BY <1>1, <1>2 DEF Has

\* A shown identity is at its ordinal.
LEMMA IndexIs ==
    ASSUME NEW ids, NEW ax \in Seq(ids), NEW id, Has(ax, id)
    PROVE  /\ IndexOf(ax, id) \in 0 .. Len(ax) - 1
           /\ IndexOf(ax, id) \in Nat
           /\ IdAt(ax, IndexOf(ax, id)) = id
<1>1. DOMAIN ax = 1 .. Len(ax) /\ Len(ax) \in Nat
  BY LenProperties
<1>2. \E i \in DOMAIN ax : ax[i] = id
  BY <1>1, HasIs
<1> DEFINE k == CHOOSE i \in DOMAIN ax : ax[i] = id
<1>3. k \in DOMAIN ax /\ ax[k] = id
  BY <1>2
<1>4. IndexOf(ax, id) = k - 1
  BY DEF IndexOf
<1> HIDE DEF k
<1>5. k \in 1 .. Len(ax) /\ k - 1 + 1 = k
  BY <1>1, <1>3
<1> QED BY <1>1, <1>3, <1>4, <1>5 DEF IdAt

LEMMA IndexAt ==
    ASSUME NEW ids, NEW ax, Order(ids, ax), NEW n \in 0 .. Len(ax) - 1
    PROVE  /\ Has(ax, IdAt(ax, n)) /\ IndexOf(ax, IdAt(ax, n)) = n /\ IdAt(ax, n) \in ids
<1>1. ax \in Seq(ids) /\ Len(ax) \in Nat
  BY LenProperties DEF Order
<1>2. n + 1 \in 1 .. Len(ax) /\ n \in Int
  BY <1>1
<1>3. Has(ax, IdAt(ax, n)) /\ IdAt(ax, n) \in ids
  BY <1>1, <1>2, HasIs DEF IdAt
<1>4. IndexOf(ax, IdAt(ax, n)) \in 0 .. Len(ax) - 1
      /\ IdAt(ax, IndexOf(ax, IdAt(ax, n))) = IdAt(ax, n)
  BY <1>1, <1>3, IndexIs
<1> DEFINE m == IndexOf(ax, IdAt(ax, n))
<1>5. m + 1 \in 1 .. Len(ax) /\ ax[m + 1] = ax[n + 1]
  BY <1>1, <1>4 DEF IdAt
<1> HIDE DEF m
<1>6. m + 1 = n + 1
  BY <1>2, <1>5 DEF Order
<1>7. m \in Int
  BY <1>4, <1>1 DEF m
<1> QED BY <1>2, <1>3, <1>6, <1>7 DEF m

LEMMA Index0Is ==
    ASSUME NEW ids, NEW ax \in Seq(ids), NEW id
    PROVE  IndexOr0(ax, id) \in Nat /\ (ax # <<>> => IndexOr0(ax, id) \in 0 .. Len(ax) - 1)
<1>1. Len(ax) \in Nat
  BY LenProperties
<1>2. CASE Has(ax, id)
  BY <1>2, IndexIs DEF IndexOr0
<1>3. CASE ~ Has(ax, id)
  <2>1. ax # <<>> => Len(ax) # 0
    BY EmptySeq
  <2> QED BY <1>1, <1>3, <2>1 DEF IndexOr0
<1> QED BY <1>2, <1>3
-----------------------------------------------------------------------------
(* The session: a book, and what commands make of it.                      *)

Ids == 1 .. MaxRow

CellEntries == [kind : {"cell"}, row : Ids, prior : Texts]
RowEntries == [kind : {"inserted", "deleted"}, row : Ids]
Entries == CellEntries \union RowEntries

\* The rows that undo and redo would touch are rows of the sheet.
Names(rows, entries) ==
    \A i \in DOMAIN entries : entries[i].kind # "cell" => entries[i].row \in IdsOf(rows)

Books == [rows : Seq(Slot), content : [Ids -> Texts], undo : Seq(Entries), redo : Seq(Entries)]
BookOK(b) ==
    /\ b \in Books
    /\ AxisOK(b.rows) /\ IdsOf(b.rows) \subseteq Ids
    /\ Names(b.rows, b.undo) /\ Names(b.rows, b.redo)

LEMMA NoEntries ==
    /\ <<>> \in Seq(Entries)
    /\ \A rows : Names(rows, <<>>)
BY DEF Names

LEMMA EntryAppended ==
    ASSUME NEW entries \in Seq(Entries), NEW entry \in Entries, NEW rows, Names(rows, entries),
           entry.kind # "cell" => entry.row \in IdsOf(rows)
    PROVE  Append(entries, entry) \in Seq(Entries) /\ Names(rows, Append(entries, entry))
<1> DEFINE E == Entries
<1> HIDE DEF E
<1>1. entries \in Seq(E) /\ entry \in E
  BY DEF E
<1>2. /\ Append(entries, entry) \in Seq(E)
      /\ DOMAIN entries = 1 .. Len(entries)
      /\ DOMAIN Append(entries, entry) = 1 .. Len(entries) + 1
      /\ \A i \in 1 .. Len(entries) : Append(entries, entry)[i] = entries[i]
      /\ Append(entries, entry)[Len(entries) + 1] = entry
      /\ Len(entries) \in Nat
  BY <1>1
<1>3. \A i \in 1 .. Len(entries) + 1 : i \in 1 .. Len(entries) \/ i = Len(entries) + 1
  BY <1>2
<1> QED BY <1>2, <1>3 DEF Names, E

LEMMA EntryTaken ==
    ASSUME NEW entries \in Seq(Entries), entries # <<>>, NEW rows, Names(rows, entries)
    PROVE  /\ Last(entries) \in Entries
           /\ Last(entries).kind # "cell" => Last(entries).row \in IdsOf(rows)
           /\ Front(entries) \in Seq(Entries) /\ Names(rows, Front(entries))
<1> DEFINE E == Entries
           n == Len(entries)
<1> HIDE DEF E
<1>1. entries \in Seq(E) /\ n \in Nat /\ DOMAIN entries = 1 .. n /\ n # 0
  <2>1. entries \in Seq(E)
    BY DEF E
  <2>2. n \in Nat /\ DOMAIN entries = 1 .. n
    BY <2>1, LenProperties
  <2>3. n # 0
    BY <2>1, EmptySeq
  <2> QED BY <2>1, <2>2, <2>3
<1>2. entries[n] \in E /\ n \in DOMAIN entries
  BY <1>1
<1>3. /\ Front(entries) \in Seq(E) /\ DOMAIN Front(entries) = 1 .. n - 1
      /\ \A i \in 1 .. n - 1 : Front(entries)[i] = entries[i] /\ i \in DOMAIN entries
  BY <1>1 DEF Front
<1> QED BY <1>2, <1>3 DEF Names, E, Last

\* More rows, or the same ones, name what they named.
LEMMA NamesGrow ==
    ASSUME NEW entries, NEW a, NEW b, Names(a, entries), IdsOf(a) \subseteq IdsOf(b)
    PROVE  Names(b, entries)
BY DEF Names

LEMMA BookFields ==
    ASSUME NEW b, BookOK(b)
    PROVE  /\ b = [rows |-> b.rows, content |-> b.content, undo |-> b.undo, redo |-> b.redo]
           /\ b.rows \in Seq(Slot) /\ b.content \in [Ids -> Texts]
           /\ b.undo \in Seq(Entries) /\ b.redo \in Seq(Entries)
           /\ AxisOK(b.rows) /\ IdsOf(b.rows) \subseteq Ids
           /\ Names(b.rows, b.undo) /\ Names(b.rows, b.redo)
BY DEF BookOK, Books

LEMMA BookMade ==
    ASSUME NEW b,
           b = [rows |-> b.rows, content |-> b.content, undo |-> b.undo, redo |-> b.redo],
           b.content \in [Ids -> Texts],
           b.undo \in Seq(Entries), b.redo \in Seq(Entries),
           AxisOK(b.rows), IdsOf(b.rows) \subseteq Ids,
           Names(b.rows, b.undo), Names(b.rows, b.redo)
    PROVE  BookOK(b)
<1>1. b.rows \in Seq(Slot)
  BY DEF AxisOK
<1> QED BY <1>1 DEF BookOK, Books

\* What a write does, refused or not.
LEMMA WriteApplied ==
    ASSUME NEW b, BookOK(b), NEW at \in Nat, NEW text \in Texts
    PROVE  LET after == Apply(b, Write(at, text))
           IN /\ BookOK(after) /\ after.rows = b.rows
              /\ Refused(b, Write(at, text)) => after = b
              /\ ~ Refused(b, Write(at, text)) =>
                    /\ at < Cardinality(LiveIds(b.rows))
                    /\ after.content = [b.content EXCEPT ![At(b.rows, at)] = text]
<1> DEFINE command == Write(at, text)
           row == At(b.rows, at)
           after == Apply(b, command)
<1>1. command.kind = "write" /\ command.at = at /\ command.text = text
  BY DEF Write
<1>2. CASE Refused(b, command)
  BY <1>2 DEF Apply
<1>3. CASE ~ Refused(b, command)
  <2>1. at < Cardinality(LiveIds(b.rows))
    <3>1. ~ (at >= Cardinality(LiveIds(b.rows)))
      BY <1>1, <1>3 DEF Refused
    <3> QED BY <3>1, CountNat DEF BookOK
  <2>2. row \in IdsOf(b.rows) /\ row \in Ids
    BY <2>1, AtBound DEF BookOK
  <2> DEFINE entry == CellEntry(b, row)
  <2>3. b = [rows |-> b.rows, content |-> b.content, undo |-> b.undo, redo |-> b.redo]
        /\ b.content \in [Ids -> Texts] /\ b.undo \in Seq(Entries)
    BY BookFields
  <2>4. entry \in Entries /\ entry.kind = "cell"
    <3>1. b.content[row] \in Texts
      BY <2>2, <2>3
    <3>2. entry = [kind |-> "cell", row |-> row, prior |-> b.content[row]]
      BY DEF CellEntry
    <3> HIDE DEF entry, row
    <3>3. entry \in CellEntries
      BY <2>2, <3>1, <3>2 DEF CellEntries
    <3> QED BY <3>2, <3>3 DEF Entries
  <2> HIDE DEF entry
  <2>5. Append(b.undo, entry) \in Seq(Entries) /\ Names(b.rows, Append(b.undo, entry))
    BY <2>3, <2>4, EntryAppended DEF BookOK
  <2>6. after = [[b EXCEPT !.content[row] = text, !.undo = Append(@, entry)]
                    EXCEPT !.redo = <<>>]
    <3>1. Accomplished(b, command)
            = [b EXCEPT !.content[row] = text, !.undo = Append(@, entry)]
      BY <1>1 DEF Accomplished, entry
    <3> QED BY <1>3, <3>1 DEF Apply
  <2>7. after = [rows |-> b.rows, content |-> [b.content EXCEPT ![row] = text],
                 undo |-> Append(b.undo, entry), redo |-> <<>>]
    BY <2>3, <2>6
  <2> HIDE DEF after, row, command
  <2>8. [b.content EXCEPT ![row] = text] \in [Ids -> Texts]
    BY <2>2, <2>3
  <2>9. BookOK(after)
    BY <2>5, <2>7, <2>8, NoEntries, BookMade, BookFields
  <2> QED BY <1>3, <2>1, <2>7, <2>9 DEF row, after, command
<1> QED BY <1>2, <1>3

-----------------------------------------------------------------------------
(* Several commands at once.                                               *)

\* What a fold goes through: when each command leads from one set of books to
\* the next, all of them lead from the first set to the last.
LEMMA AppliedInTurn ==
    ASSUME NEW D, NEW b \in D, NEW n \in Nat, NEW commands, DOMAIN commands = 1 .. n,
           \A i \in 1 .. n : \A x \in D : Apply(x, commands[i]) \in D,
           NEW T, b \in T[0],
           \A i \in 1 .. n : \A x \in D : x \in T[i - 1] => Apply(x, commands[i]) \in T[i]
    PROVE  ApplyAll(b, commands) \in D /\ ApplyAll(b, commands) \in T[n]
<1> DEFINE it == CHOOSE f : f = [s \in SUBSET (1 .. n) |->
                    IF s = {} THEN b ELSE Apply(f[s \ {Max(s)}], commands[Max(s)])]
           g == [i \in 1 .. n |-> [x \in D |-> Apply(x, commands[i])]]
<1>1. ApplyAll(b, commands) = it[1 .. n]
  <2>1. FoldLeft(Apply, b, commands) = it[1 .. n]
    BY Zenon DEF FoldLeft, MapThenFoldSet
  <2> QED BY Zenon, <2>1 DEF ApplyAll
<1>2. \A i \in 1 .. n : \A x \in D : g[i][x] = Apply(x, commands[i]) /\ g[i][x] \in D
  OBVIOUS
<1> HIDE DEF g
<1>3. PICK h : Solves(h, D, b, n, g)
  <2> HIDE DEF it
  <2>1. \A i \in 1 .. n : \A x \in D : g[i][x] \in D
    BY <1>2
  <2> QED BY Zenon, <2>1, FoldSolved
<1>4. \A s \in SUBSET (1 .. n) :
        h[s] = IF s = {} THEN b ELSE Apply(h[s \ {Max(s)}], commands[Max(s)])
  BY <1>2, <1>3 DEF Solves
<1>5. h = [s \in SUBSET (1 .. n) |->
              IF s = {} THEN b ELSE Apply(h[s \ {Max(s)}], commands[Max(s)])]
  BY <1>3, <1>4 DEF Solves
<1>6. it = [s \in SUBSET (1 .. n) |->
              IF s = {} THEN b ELSE Apply(it[s \ {Max(s)}], commands[Max(s)])]
  BY <1>5
<1> HIDE DEF it
<1> DEFINE U == {i \in 0 .. n : it[1 .. i] \in D /\ it[1 .. i] \in T[i]}
<1>7. 0 \in U
  <2>1. 1 .. 0 = {} /\ {} \in SUBSET (1 .. n)
    OBVIOUS
  <2>2. it[{}] = b
    BY <1>6, <2>1
  <2> QED BY <2>1, <2>2
<1>8. ASSUME NEW k \in 0 .. n - 1, k \in U
      PROVE  k + 1 \in U
  <2>1. k + 1 \in 1 .. n /\ k + 1 - 1 = k /\ k + 1 \in 0 .. n
    OBVIOUS
  <2>2. /\ 1 .. k + 1 \in SUBSET (1 .. n) /\ 1 .. k + 1 # {}
        /\ Max(1 .. k + 1) = k + 1 /\ (1 .. k + 1) \ {k + 1} = 1 .. k
    BY <2>1, LargestChosen
  <2>3. it[1 .. k + 1] = Apply(it[1 .. k], commands[k + 1])
    BY <1>6, <2>2
  <2>4. it[1 .. k] \in D /\ it[1 .. k] \in T[k]
    BY <1>8
  <2> QED BY <2>1, <2>3, <2>4
<1>9. 0 .. n \subseteq U
  <2> HIDE DEF U
  <2> QED BY <1>7, <1>8, CountsUp
<1> QED BY <1>1, <1>9
\* A sequence of writes.
Written(commands) ==
    \E n \in Nat : /\ DOMAIN commands = 1 .. n
                   /\ \A i \in 1 .. n : \E at \in Nat, text \in Texts :
                        commands[i] = Write(at, text)

LEMMA WritesApplied ==
    ASSUME NEW b, BookOK(b), NEW commands, Written(commands)
    PROVE  BookOK(ApplyAll(b, commands)) /\ ApplyAll(b, commands).rows = b.rows
<1> DEFINE D == {x \in Books : BookOK(x) /\ x.rows = b.rows}
<1>1. b \in D
  BY DEF BookOK
<1>2. PICK n \in Nat : /\ DOMAIN commands = 1 .. n
                       /\ \A i \in 1 .. n : \E at \in Nat, text \in Texts :
                            commands[i] = Write(at, text)
  BY DEF Written
<1>3. ASSUME NEW i \in 1 .. n, NEW x \in D
      PROVE  Apply(x, commands[i]) \in D
  <2>1. PICK at \in Nat, text \in Texts : commands[i] = Write(at, text)
    BY <1>2
  <2>2. BookOK(Apply(x, Write(at, text))) /\ Apply(x, Write(at, text)).rows = x.rows
    BY WriteApplied
  <2> QED BY <2>1, <2>2 DEF BookOK
<1> DEFINE T == [i \in 0 .. n |-> D]
<1>4. b \in T[0] /\ \A i \in 1 .. n : \A x \in D : x \in T[i - 1] => Apply(x, commands[i]) \in T[i]
  <2>1. \A i \in 0 .. n : T[i] = D
    OBVIOUS
  <2> HIDE DEF T, D
  <2> QED BY <1>1, <1>3, <2>1
<1> HIDE DEF T
<1>5. ApplyAll(b, commands) \in D
  <2> HIDE DEF D
  <2> QED BY <1>1, <1>2, <1>3, <1>4, AppliedInTurn
<1> QED BY <1>5

LEMMA SameRefusals ==
    ASSUME NEW a, NEW b, a.rows = b.rows, NEW command
    PROVE  Refused(a, command) <=> Refused(b, command)
BY DEF Refused

\* Ordinals of live rows name different rows.
LEMMA AtDiffers ==
    ASSUME NEW rows, AxisOK(rows), NEW i \in Nat, NEW j \in Nat,
           i < Cardinality(LiveIds(rows)), j < Cardinality(LiveIds(rows)),
           At(rows, i) = At(rows, j)
    PROVE  i = j
BY AtBound

\* Commands that write n texts from an ordinal on, none of them refused.
Lays(commands, b, start, n, text) ==
    /\ DOMAIN commands = 1 .. n /\ text \in [1 .. n -> Texts]
    /\ \A i \in 1 .. n : /\ commands[i] = Write(start + i - 1, text[i])
                          /\ ~ Refused(b, commands[i])

\* A block lands where it is written, and nowhere else.
LEMMA BlockLands ==
    ASSUME NEW b, BookOK(b), NEW start \in Nat, NEW n \in Nat, NEW commands, NEW text,
           Lays(commands, b, start, n, text)
    PROVE  \A o \in 0 .. Cardinality(LiveIds(b.rows)) - 1 :
             ApplyAll(b, commands).content[At(b.rows, o)] =
                IF o \in start .. start + n - 1 THEN text[o - start + 1]
                ELSE b.content[At(b.rows, o)]
<1> DEFINE D == {x \in Books : BookOK(x) /\ x.rows = b.rows}
           size == Cardinality(LiveIds(b.rows))
           Holds(x, i) ==
              \A o \in 0 .. size - 1 :
                x.content[At(b.rows, o)] =
                    IF o \in start .. start + i - 1 THEN text[o - start + 1]
                    ELSE b.content[At(b.rows, o)]
           T == [i \in 0 .. n |-> {x \in D : Holds(x, i)}]
<1>7. /\ DOMAIN commands = 1 .. n /\ text \in [1 .. n -> Texts]
      /\ \A i \in 1 .. n : /\ commands[i] = Write(start + i - 1, text[i])
                            /\ ~ Refused(b, commands[i])
  BY DEF Lays
<1>0. size \in Nat
  BY CountNat DEF BookOK
<1>1. b \in D
  BY DEF BookOK
<1>2. ASSUME NEW i \in 1 .. n, NEW x \in D
      PROVE  /\ Apply(x, commands[i]) \in D
             /\ start + i - 1 < size
             /\ Apply(x, commands[i]).content
                    = [x.content EXCEPT ![At(b.rows, start + i - 1)] = text[i]]
  <2>1. start + i - 1 \in Nat /\ text[i] \in Texts
    BY <1>7
  <2>2. ~ Refused(x, commands[i]) /\ commands[i] = Write(start + i - 1, text[i])
    BY <1>7, SameRefusals
  <2>3. LET after == Apply(x, Write(start + i - 1, text[i]))
        IN /\ BookOK(after) /\ after.rows = x.rows
           /\ ~ Refused(x, Write(start + i - 1, text[i])) =>
                 /\ start + i - 1 < Cardinality(LiveIds(x.rows))
                 /\ after.content = [x.content EXCEPT ![At(x.rows, start + i - 1)] = text[i]]
    BY <2>1, WriteApplied
  <2> QED BY <2>2, <2>3 DEF BookOK
<1>3. b \in T[0]
  <2>1. Holds(b, 0)
    BY <1>0
  <2>2. 0 \in 0 .. n
    OBVIOUS
  <2> HIDE DEF Holds
  <2> QED BY <1>1, <2>1, <2>2
<1>4. ASSUME NEW i \in 1 .. n, NEW x \in D, x \in T[i - 1]
      PROVE  Apply(x, commands[i]) \in T[i]
  <2>1. i - 1 \in 0 .. n /\ i \in 0 .. n
    OBVIOUS
  <2>2. Holds(x, i - 1)
    <3> HIDE DEF Holds
    <3> QED BY <1>4, <2>1
  <2> DEFINE after == Apply(x, commands[i])
  <2>3. after \in D /\ start + i - 1 < size
        /\ after.content = [x.content EXCEPT ![At(b.rows, start + i - 1)] = text[i]]
    BY <1>2
  <2>4. x.content \in [Ids -> Texts]
    BY BookFields
  <2> HIDE DEF after
  <2>5. ASSUME NEW o \in 0 .. size - 1
        PROVE  after.content[At(b.rows, o)] =
                IF o \in start .. start + i - 1 THEN text[o - start + 1]
                ELSE b.content[At(b.rows, o)]
    <3>1. o \in Nat /\ o < size /\ start + i - 1 \in Nat
      BY <1>0
    <3>2. At(b.rows, o) \in Ids
      BY <3>1, AtBound DEF BookOK
    <3>3. x.content[At(b.rows, o)] =
                IF o \in start .. start + (i - 1) - 1 THEN text[o - start + 1]
                ELSE b.content[At(b.rows, o)]
      BY <2>2
    <3>4. CASE o = start + i - 1
      <4>1. after.content[At(b.rows, o)] = text[i]
        BY <2>3, <2>4, <3>2, <3>4
      <4>2. o - start + 1 = i /\ o \in start .. start + i - 1
        BY <3>4
      <4> QED BY <4>1, <4>2
    <3>5. CASE o # start + i - 1
      <4>1. At(b.rows, o) # At(b.rows, start + i - 1)
        BY <3>1, <3>5, <2>3, AtDiffers DEF BookOK
      <4>2. after.content[At(b.rows, o)] = x.content[At(b.rows, o)]
        BY <2>3, <2>4, <3>2, <4>1
      <4>3. o \in start .. start + i - 1 <=> o \in start .. start + (i - 1) - 1
        BY <3>1, <3>5
      <4> QED BY <3>3, <4>2, <4>3
    <3> QED BY <3>4, <3>5
  <2>6. Holds(after, i)
    BY <2>5
  <2> HIDE DEF Holds
  <2> QED BY <2>1, <2>3, <2>6 DEF after
<1>5. ApplyAll(b, commands) \in T[n]
  <2> HIDE DEF T, D, Holds
  <2> QED BY <1>1, <1>2, <1>3, <1>4, <1>7, AppliedInTurn
<1>6. Holds(ApplyAll(b, commands), n)
  <2>1. n \in 0 .. n
    OBVIOUS
  <2> HIDE DEF Holds, D
  <2> QED BY <1>5, <2>1
<1> QED BY <1>6

LEMMA WrittenUpTo ==
    ASSUME NEW commands, NEW n \in Int, DOMAIN commands = 1 .. n,
           \A i \in 1 .. n : \E at \in Nat, text \in Texts : commands[i] = Write(at, text)
    PROVE  Written(commands)
<1>1. CASE n >= 0
  <2>1. n \in Nat
    BY <1>1
  <2> QED BY <2>1 DEF Written
<1>2. CASE n < 0
  <2>1. DOMAIN commands = 1 .. 0 /\ 0 \in Nat
    BY <1>2
  <2>2. \A i \in 1 .. 0 : \E at \in Nat, text \in Texts : commands[i] = Write(at, text)
    OBVIOUS
  <2> QED BY <2>1, <2>2 DEF Written
<1> QED BY <1>1, <1>2

LEMMA BlankText == Blank \in Texts
BY ShellAssumption DEF Blank, Texts

LEMMA ClearsWritten ==
    ASSUME NEW span \in Nat \X Nat
    PROVE  Written(ClearCommands(span))
<1> DEFINE size == span[2] - span[1] + 1
           commands == [i \in 1 .. size |-> Clear(span[1] + i - 1)]
<1>1. ClearCommands(span) = commands
  BY DEF ClearCommands
<1>2. size \in Int
  OBVIOUS
<1>3. ASSUME NEW i \in 1 .. size
      PROVE  \E at \in Nat, text \in Texts : commands[i] = Write(at, text)
  <2>1. span[1] + i - 1 \in Nat
    OBVIOUS
  <2>2. commands[i] = Write(span[1] + i - 1, Blank)
    BY DEF Clear
  <2> QED BY BlankText, <2>1, <2>2
<1>4. DOMAIN commands = 1 .. size
  OBVIOUS
<1> HIDE DEF commands, size
<1> QED BY <1>1, <1>2, <1>3, <1>4, WrittenUpTo

Spans == {span \in Nat \X Nat : span[1] <= span[2]}
Blocks == [cells : Seq(Texts), origin : Nat, translate : BOOLEAN, ids : Seq(Ids),
           text : Seq(Texts)]

LEMMA CellText ==
    ASSUME NEW cells \in Seq(Texts), NEW i \in 1 .. Len(cells)
    PROVE  cells[i] \in Texts
<1> DEFINE R == Texts
<1> HIDE DEF R
<1>1. cells \in Seq(R)
  BY DEF R
<1>2. cells[i] \in R
  BY <1>1
<1> QED BY <1>2 DEF R

LEMMA PasteWritten ==
    ASSUME NEW ax, Len(ax) \in Nat, NEW block \in Blocks, NEW top \in Nat
    PROVE  Written(PasteCommands(ax, block, top))
<1> DEFINE text(i) == IF block.translate
                      THEN Translated(block.cells[i], top - block.origin)
                      ELSE block.cells[i]
           fitting == Min({Len(block.cells), Len(ax) - top})
           commands == [i \in 1 .. fitting |-> Write(top + i - 1, text(i))]
<1>1. PasteCommands(ax, block, top) = commands
  BY DEF PasteCommands
<1>2. block.cells \in Seq(Texts) /\ block.origin \in Nat /\ Len(block.cells) \in Nat
  BY LenProperties DEF Blocks
<1>3. fitting \in Int /\ fitting <= Len(block.cells)
  BY <1>2, MinPair
<1> HIDE DEF fitting
<1>4. ASSUME NEW i \in 1 .. fitting
      PROVE  \E at \in Nat, t \in Texts : commands[i] = Write(at, t)
  <2>1. top + i - 1 \in Nat /\ i \in 1 .. Len(block.cells)
    BY <1>2, <1>3
  <2>2. block.cells[i] \in Texts
    BY <1>2, <2>1, CellText
  <2>3. text(i) \in Texts
    BY <1>2, <2>2, TranslatedText
  <2>4. commands[i] = Write(top + i - 1, text(i))
    OBVIOUS
  <2> HIDE DEF text, commands
  <2> QED BY <2>1, <2>3, <2>4
<1>5. DOMAIN commands = 1 .. fitting
  OBVIOUS
<1> HIDE DEF commands
<1> QED BY <1>1, <1>3, <1>4, <1>5, WrittenUpTo

LEMMA ClippedText ==
    ASSUME NEW b, BookOK(b), NEW n \in Nat
    PROVE  ClipCell(b, LiveOrder(b.rows), n) \in Texts
<1>1. CASE n < Len(LiveOrder(b.rows))
  <2>1. n + 1 \in 1 .. Len(LiveOrder(b.rows))
    BY <1>1, OrderIs DEF BookOK
  <2>2. LiveOrder(b.rows)[n + 1] \in Ids
    BY <2>1, OrderIs DEF BookOK
  <2> QED BY <1>1, <2>2, BookFields DEF ClipCell
<1>2. CASE ~ (n < Len(LiveOrder(b.rows)))
  BY <1>2, BlankText DEF ClipCell
<1> QED BY <1>1, <1>2

LEMMA FillWritten ==
    ASSUME NEW b, BookOK(b), NEW origin \in Spans, NEW target \in Nat \X Nat
    PROVE  Written(FillCommands(b, LiveOrder(b.rows), origin, target))
<1> DEFINE ax == LiveOrder(b.rows)
           size == origin[2] - origin[1] + 1
           down == target[2] > origin[2]
           count == IF down THEN target[2] - origin[2] ELSE origin[1] - target[1]
           from(i) == IF down THEN origin[1] + ((i - 1) % size) ELSE origin[2] - ((i - 1) % size)
           to(i) == IF down THEN origin[2] + i ELSE origin[1] - i
           text(i) == Translated(ClipCell(b, ax, from(i)), to(i) - from(i))
           commands == [i \in 1 .. count |-> Write(to(i), text(i))]
<1>1. FillCommands(b, LiveOrder(b.rows), origin, target) = commands
  BY DEF FillCommands
<1>2. /\ origin[1] \in Nat /\ origin[2] \in Nat /\ origin[1] <= origin[2]
      /\ target[1] \in Nat /\ target[2] \in Nat
  BY DEF Spans
<1>3. count \in Int
  BY <1>2
<1>4. ASSUME NEW i \in 1 .. count
      PROVE  \E at \in Nat, t \in Texts : commands[i] = Write(at, t)
  <2>1. size \in Nat \ {0} /\ i - 1 \in Nat
    BY <1>2
  <2>2. (i - 1) % size \in 0 .. size - 1
    <3> HIDE DEF size
    <3> QED BY <2>1
  <2>3. from(i) \in Nat
    <3> DEFINE r == (i - 1) % size
    <3>1. r \in Nat /\ r <= origin[2] - origin[1]
      BY <1>2, <2>2
    <3> HIDE DEF r
    <3>2. from(i) = IF down THEN origin[1] + r ELSE origin[2] - r
      BY DEF r
    <3> QED BY <1>2, <3>1, <3>2
  <2>4. to(i) \in Nat
    BY <1>2
  <2>5. commands[i] = Write(to(i), text(i))
    OBVIOUS
  <2>6. text(i) \in Texts
    <3>1. ClipCell(b, ax, from(i)) \in Texts
      <4> HIDE DEF from
      <4> QED BY <2>3, ClippedText
    <3>2. to(i) - from(i) \in Int
      <4> HIDE DEF from, to
      <4> QED BY <2>3, <2>4
    <3> HIDE DEF from, to, ax
    <3> QED BY <3>1, <3>2, TranslatedText
  <2> HIDE DEF text, commands, to
  <2> QED BY <2>4, <2>5, <2>6
<1>5. DOMAIN commands = 1 .. count
  OBVIOUS
<1> HIDE DEF commands, count
<1> QED BY <1>1, <1>3, <1>4, <1>5, WrittenUpTo

-----------------------------------------------------------------------------
(* Rows that come and go, and what undo and redo do.                       *)

LEMMA NextRowFresh ==
    ASSUME NEW b, BookOK(b)
    PROVE  NextRow(b) \in Nat \ IdsOf(b.rows) /\ NextRow(b) # 0
<1> DEFINE S == {0} \union IdsOf(b.rows)
<1>1. S \subseteq Nat /\ S # {} /\ \A x \in S : x <= MaxRow
  BY ShellAssumption DEF BookOK, Ids
<1>2. MaxRow \in Nat
  BY ShellAssumption
<1>3. Max(S) \in S /\ \A x \in S : x <= Max(S)
  <2> HIDE DEF S
  <2> QED BY <1>1, <1>2, MaxIsGreatest
<1>4. Max(S) \in Nat
  BY <1>1, <1>3
<1>5. NextRow(b) = Max(S) + 1
  BY DEF NextRow
<1>6. \A x \in IdsOf(b.rows) : x \in Nat /\ x <= Max(S)
  BY <1>1, <1>3
<1> HIDE DEF S
<1> QED BY <1>4, <1>5, <1>6

LEMMA RowEntryOK ==
    ASSUME NEW kind \in {"inserted", "deleted"}, NEW row \in Ids
    PROVE  RowEntry(kind, row) \in Entries /\ RowEntry(kind, row).row = row
           /\ RowEntry(kind, row).kind # "cell"
BY DEF RowEntry, RowEntries, Entries

LEMMA CellEntryOK ==
    ASSUME NEW b, BookOK(b), NEW row \in Ids
    PROVE  CellEntry(b, row) \in Entries /\ CellEntry(b, row).kind = "cell"
<1>1. b.content[row] \in Texts
  BY BookFields
<1>2. CellEntry(b, row) = [kind |-> "cell", row |-> row, prior |-> b.content[row]]
  BY DEF CellEntry
<1>3. CellEntry(b, row) \in CellEntries
  BY <1>1, <1>2 DEF CellEntries
<1> QED BY <1>2, <1>3 DEF Entries

LEMMA RowInserted ==
    ASSUME NEW b, BookOK(b), NEW ordinal \in Nat, NextRow(b) <= MaxRow,
           ~ Refused(b, Structural("insert", ordinal))
    PROVE  LET after == Apply(b, Structural("insert", ordinal))
           IN BookOK(after) /\ after.content = b.content
<1> DEFINE command == Structural("insert", ordinal)
           row == NextRow(b)
           above == IF ordinal = 0 THEN 0 ELSE At(b.rows, ordinal - 1)
           rows == InsertAfter(b.rows, above, row)
           entry == RowEntry("inserted", row)
           after == Apply(b, command)
<1>1. row \in Nat \ IdsOf(b.rows) /\ row \in Ids
  BY NextRowFresh, ShellAssumption DEF Ids
<1>2. AxisOK(rows) /\ IdsOf(rows) = IdsOf(b.rows) \cup {row}
  <2> HIDE DEF above, row
  <2> QED BY <1>1, InsertAfterKeeps DEF BookOK
<1>3. /\ b = [rows |-> b.rows, content |-> b.content, undo |-> b.undo, redo |-> b.redo]
      /\ b.content \in [Ids -> Texts] /\ b.undo \in Seq(Entries)
      /\ IdsOf(b.rows) \subseteq Ids /\ Names(b.rows, b.undo)
  BY BookFields
<1>4. IdsOf(rows) \subseteq Ids /\ Names(rows, b.undo)
  BY <1>1, <1>2, <1>3, NamesGrow
<1>5. Append(b.undo, entry) \in Seq(Entries) /\ Names(rows, Append(b.undo, entry))
  <2>1. entry \in Entries /\ entry.row = row /\ row \in IdsOf(rows)
    BY <1>1, <1>2, RowEntryOK
  <2> HIDE DEF entry, row, rows
  <2> QED BY <2>1, <1>3, <1>4, EntryAppended
<1>6. after = [rows |-> rows, content |-> b.content, undo |-> Append(b.undo, entry),
               redo |-> <<>>]
  <2>1. command.kind = "insert" /\ command.at = ordinal
    BY DEF Structural
  <2>2. Accomplished(b, command)
          = [b EXCEPT !.rows = InsertAfter(@, IF command.at = 0 THEN 0
                                         ELSE At(@, command.at - 1), NextRow(b)),
                      !.undo = Append(@, RowEntry("inserted", NextRow(b)))]
    BY <2>1 DEF Accomplished
  <2>3. after = [Accomplished(b, command) EXCEPT !.redo = <<>>]
    BY DEF Apply
  <2> HIDE DEF after, command
  <2> QED BY <1>3, <2>1, <2>2, <2>3
<1> HIDE DEF after, entry, rows
<1>7. BookOK(after)
  BY <1>2, <1>3, <1>4, <1>5, <1>6, NoEntries, BookMade
<1> QED BY <1>6, <1>7 DEF after

LEMMA RowDeleted ==
    ASSUME NEW b, BookOK(b), NEW ordinal \in Nat,
           ~ Refused(b, Structural("delete", ordinal))
    PROVE  LET after == Apply(b, Structural("delete", ordinal))
           IN BookOK(after) /\ after.content = b.content
<1> DEFINE command == Structural("delete", ordinal)
           row == At(b.rows, ordinal)
           rows == SetLive(b.rows, row, FALSE)
           entry == RowEntry("deleted", row)
           after == Apply(b, command)
<1>0. command.kind = "delete" /\ command.at = ordinal
  BY DEF Structural
<1>1. row \in IdsOf(b.rows) /\ row \in Ids
  <2>1. ~ (ordinal >= Cardinality(LiveIds(b.rows)))
    BY <1>0 DEF Refused
  <2>2. ordinal < Cardinality(LiveIds(b.rows))
    BY <2>1, CountNat DEF BookOK
  <2> QED BY <2>2, AtBound DEF BookOK
<1>2. AxisOK(rows) /\ IdsOf(rows) = IdsOf(b.rows)
  <2> HIDE DEF row
  <2> QED BY <1>1, SetLiveKeeps DEF BookOK
<1>3. /\ b = [rows |-> b.rows, content |-> b.content, undo |-> b.undo, redo |-> b.redo]
      /\ b.content \in [Ids -> Texts] /\ b.undo \in Seq(Entries)
      /\ IdsOf(b.rows) \subseteq Ids /\ Names(b.rows, b.undo)
  BY BookFields
<1>4. IdsOf(rows) \subseteq Ids /\ Names(rows, b.undo)
  BY <1>2, <1>3, NamesGrow
<1>5. Append(b.undo, entry) \in Seq(Entries) /\ Names(rows, Append(b.undo, entry))
  <2>1. entry \in Entries /\ entry.row = row /\ row \in IdsOf(rows)
    BY <1>1, <1>2, RowEntryOK
  <2> HIDE DEF entry, row, rows
  <2> QED BY <2>1, <1>3, <1>4, EntryAppended
<1>6. after = [rows |-> rows, content |-> b.content, undo |-> Append(b.undo, entry),
               redo |-> <<>>]
  <2>2. Accomplished(b, command)
          = [b EXCEPT !.rows = SetLive(@, row, FALSE), !.undo = Append(@, RowEntry("deleted", row))]
    BY <1>0 DEF Accomplished
  <2>3. after = [Accomplished(b, command) EXCEPT !.redo = <<>>]
    BY DEF Apply
  <2> HIDE DEF after, command, row
  <2> QED BY <1>3, <2>2, <2>3
<1> HIDE DEF after, entry, rows
<1>7. BookOK(after)
  BY <1>2, <1>3, <1>4, <1>5, <1>6, NoEntries, BookMade
<1> QED BY <1>6, <1>7 DEF after

\* Inverting an entry keeps both histories about rows of the sheet.
LEMMA Inverts ==
    ASSUME NEW b, BookOK(b), NEW entry \in Entries,
           entry.kind # "cell" => entry.row \in IdsOf(b.rows)
    PROVE  /\ BookOK(Inverted(b, entry))
           /\ Inverted(b, entry).undo = b.undo /\ Inverted(b, entry).redo = b.redo
           /\ InverseOf(b, entry) \in Entries
           /\ InverseOf(b, entry).kind # "cell" =>
                InverseOf(b, entry).row \in IdsOf(Inverted(b, entry).rows)
           /\ IdsOf(Inverted(b, entry).rows) = IdsOf(b.rows)
<1> DEFINE after == Inverted(b, entry)
           inverse == InverseOf(b, entry)
<1>1. /\ b = [rows |-> b.rows, content |-> b.content, undo |-> b.undo, redo |-> b.redo]
      /\ b.content \in [Ids -> Texts]
  BY BookFields
<1>2. CASE entry.kind = "cell"
  <2>1. entry \in CellEntries
    BY <1>2 DEF Entries, RowEntries
  <2>2. entry.row \in Ids /\ entry.prior \in Texts
    BY <2>1 DEF CellEntries
  <2>3. after = [b EXCEPT !.content[entry.row] = entry.prior]
        /\ inverse = CellEntry(b, entry.row)
    BY <1>2 DEF Inverted, InverseOf
  <2> HIDE DEF after, inverse
  <2>4. after = [rows |-> b.rows, content |-> [b.content EXCEPT ![entry.row] = entry.prior],
                 undo |-> b.undo, redo |-> b.redo]
    BY <1>1, <2>3
  <2>5. [b.content EXCEPT ![entry.row] = entry.prior] \in [Ids -> Texts]
    BY <1>1, <2>2
  <2>6. BookOK(after)
    BY <2>4, <2>5, BookFields, BookMade
  <2>7. inverse \in Entries /\ inverse.kind = "cell"
    BY <2>2, <2>3, CellEntryOK
  <2> QED BY <2>4, <2>6, <2>7 DEF after, inverse
<1>3. ASSUME NEW live \in BOOLEAN, NEW kind \in {"inserted", "deleted"},
             entry.kind # "cell",
             after = [b EXCEPT !.rows = SetLive(@, entry.row, live)],
             inverse = RowEntry(kind, entry.row)
      PROVE  /\ BookOK(after) /\ after.undo = b.undo /\ after.redo = b.redo
             /\ inverse \in Entries /\ inverse.row \in IdsOf(after.rows)
             /\ IdsOf(after.rows) = IdsOf(b.rows)
  <2>1. entry.row \in IdsOf(b.rows) /\ entry.row \in Ids
    BY <1>3 DEF BookOK
  <2> DEFINE rows == SetLive(b.rows, entry.row, live)
  <2>2. AxisOK(rows) /\ IdsOf(rows) = IdsOf(b.rows)
    BY <2>1, SetLiveKeeps DEF BookOK
  <2> HIDE DEF after, inverse
  <2>3. after = [rows |-> rows, content |-> b.content, undo |-> b.undo, redo |-> b.redo]
    BY <1>1, <1>3
  <2> HIDE DEF rows
  <2>4. Names(rows, b.undo) /\ Names(rows, b.redo)
    BY <2>2, BookFields, NamesGrow
  <2>5. BookOK(after)
    BY <2>2, <2>3, <2>4, BookFields, BookMade
  <2>6. inverse \in Entries /\ inverse.row = entry.row
    BY <1>3, <2>1, RowEntryOK
  <2> QED BY <2>1, <2>2, <2>3, <2>5, <2>6
<1>4. CASE entry.kind = "inserted"
  <2>1. after = [b EXCEPT !.rows = SetLive(@, entry.row, FALSE)]
        /\ inverse = RowEntry("deleted", entry.row) /\ entry.kind # "cell"
    BY <1>4 DEF Inverted, InverseOf
  <2> HIDE DEF after, inverse
  <2> QED BY <1>3, <2>1 DEF after, inverse
<1>5. CASE entry.kind = "deleted"
  <2>1. after = [b EXCEPT !.rows = SetLive(@, entry.row, TRUE)]
        /\ inverse = RowEntry("inserted", entry.row) /\ entry.kind # "cell"
    BY <1>5 DEF Inverted, InverseOf
  <2> HIDE DEF after, inverse
  <2> QED BY <1>3, <2>1 DEF after, inverse
<1>6. entry.kind \in {"cell", "inserted", "deleted"}
  BY DEF Entries, CellEntries, RowEntries
<1> QED BY <1>2, <1>4, <1>5, <1>6

LEMMA HistoriesChange ==
    ASSUME NEW b, NEW undo, NEW redo,
           b = [rows |-> b.rows, content |-> b.content, undo |-> b.undo, redo |-> b.redo]
    PROVE  /\ [b EXCEPT !.undo = undo, !.redo = redo]
                = [rows |-> b.rows, content |-> b.content, undo |-> undo, redo |-> redo]
           /\ [b EXCEPT !.redo = redo, !.undo = undo]
                = [rows |-> b.rows, content |-> b.content, undo |-> undo, redo |-> redo]
<1>1. [b EXCEPT !.undo = undo]
        = [rows |-> b.rows, content |-> b.content, undo |-> undo, redo |-> b.redo]
  OBVIOUS
<1>2. [b EXCEPT !.redo = redo]
        = [rows |-> b.rows, content |-> b.content, undo |-> b.undo, redo |-> redo]
  OBVIOUS
<1> DEFINE u == [b EXCEPT !.undo = undo]
           r == [b EXCEPT !.redo = redo]
<1> HIDE DEF u, r
<1>3. [u EXCEPT !.redo = redo]
        = [rows |-> b.rows, content |-> b.content, undo |-> undo, redo |-> redo]
  <2>1. u = [rows |-> b.rows, content |-> b.content, undo |-> undo, redo |-> b.redo]
    BY <1>1 DEF u
  <2> QED BY <2>1
<1>4. [r EXCEPT !.undo = undo]
        = [rows |-> b.rows, content |-> b.content, undo |-> undo, redo |-> redo]
  <2>1. r = [rows |-> b.rows, content |-> b.content, undo |-> b.undo, redo |-> redo]
    BY <1>2 DEF r
  <2> QED BY <2>1
<1> QED BY Zenon, <1>3, <1>4 DEF u, r

\* A step back or forth: an entry moves from one history to the other.
LEMMA StepBack ==
    ASSUME NEW b, BookOK(b)
    PROVE  BookOK(Undone(b))
<1>1. CASE b.undo = <<>>
  BY <1>1 DEF Undone
<1>2. CASE b.undo # <<>>
  <2> DEFINE entry == Last(b.undo)
             mid == Inverted(b, entry)
             inverse == InverseOf(b, entry)
             after == [mid EXCEPT !.undo = Front(@), !.redo = Append(@, inverse)]
  <2>1. Undone(b) = after
    BY <1>2 DEF Undone
  <2>2. /\ entry \in Entries /\ (entry.kind # "cell" => entry.row \in IdsOf(b.rows))
        /\ Front(b.undo) \in Seq(Entries) /\ Names(b.rows, Front(b.undo))
    BY <1>2, EntryTaken, BookFields
  <2> HIDE DEF entry
  <2>3. /\ BookOK(mid) /\ mid.undo = b.undo /\ mid.redo = b.redo
        /\ inverse \in Entries
        /\ (inverse.kind # "cell" => inverse.row \in IdsOf(mid.rows))
        /\ IdsOf(mid.rows) = IdsOf(b.rows)
    BY <2>2, Inverts
  <2> HIDE DEF mid, inverse
  <2>4. Append(mid.redo, inverse) \in Seq(Entries)
        /\ Names(mid.rows, Append(mid.redo, inverse))
    BY <2>3, BookFields, EntryAppended
  <2>5. Front(mid.undo) \in Seq(Entries) /\ Names(mid.rows, Front(mid.undo))
    BY <2>2, <2>3, NamesGrow
  <2>6. mid = [rows |-> mid.rows, content |-> mid.content, undo |-> mid.undo, redo |-> mid.redo]
    BY <2>3, BookFields
  <2>7. after = [rows |-> mid.rows, content |-> mid.content, undo |-> Front(mid.undo),
                 redo |-> Append(mid.redo, inverse)]
    <3>1. after = [mid EXCEPT !.undo = Front(mid.undo), !.redo = Append(mid.redo, inverse)]
      OBVIOUS
    <3> HIDE DEF after
    <3> QED BY Zenon, <2>6, <3>1, HistoriesChange
  <2> HIDE DEF after
  <2>8. BookOK(after)
    BY <2>3, <2>4, <2>5, <2>7, BookFields, BookMade
  <2> QED BY <2>1, <2>8
<1> QED BY <1>1, <1>2

LEMMA StepForth ==
    ASSUME NEW b, BookOK(b)
    PROVE  BookOK(Redone(b))
<1>1. CASE b.redo = <<>>
  BY <1>1 DEF Redone
<1>2. CASE b.redo # <<>>
  <2> DEFINE entry == Last(b.redo)
             mid == Inverted(b, entry)
             inverse == InverseOf(b, entry)
             after == [mid EXCEPT !.redo = Front(@), !.undo = Append(@, inverse)]
  <2>1. Redone(b) = after
    BY <1>2 DEF Redone
  <2>2. /\ entry \in Entries /\ (entry.kind # "cell" => entry.row \in IdsOf(b.rows))
        /\ Front(b.redo) \in Seq(Entries) /\ Names(b.rows, Front(b.redo))
    BY <1>2, EntryTaken, BookFields
  <2> HIDE DEF entry
  <2>3. /\ BookOK(mid) /\ mid.undo = b.undo /\ mid.redo = b.redo
        /\ inverse \in Entries
        /\ (inverse.kind # "cell" => inverse.row \in IdsOf(mid.rows))
        /\ IdsOf(mid.rows) = IdsOf(b.rows)
    BY <2>2, Inverts
  <2> HIDE DEF mid, inverse
  <2>4. Append(mid.undo, inverse) \in Seq(Entries)
        /\ Names(mid.rows, Append(mid.undo, inverse))
    BY <2>3, BookFields, EntryAppended
  <2>5. Front(mid.redo) \in Seq(Entries) /\ Names(mid.rows, Front(mid.redo))
    BY <2>2, <2>3, NamesGrow
  <2>6. mid = [rows |-> mid.rows, content |-> mid.content, undo |-> mid.undo, redo |-> mid.redo]
    BY <2>3, BookFields
  <2>7. after = [rows |-> mid.rows, content |-> mid.content, undo |-> Append(mid.undo, inverse),
                 redo |-> Front(mid.redo)]
    <3>1. after = [mid EXCEPT !.redo = Front(mid.redo), !.undo = Append(mid.undo, inverse)]
      OBVIOUS
    <3> HIDE DEF after
    <3> QED BY Zenon, <2>6, <3>1, HistoriesChange
  <2> HIDE DEF after
  <2>8. BookOK(after)
    BY <2>3, <2>4, <2>5, <2>7, BookFields, BookMade
  <2> QED BY <2>1, <2>8
<1> QED BY <1>1, <1>2

-----------------------------------------------------------------------------
(* The viewport.                                                           *)

LEMMA StartGrows ==
    ASSUME NEW i \in Int, NEW j \in Int
    PROVE  /\ StartOf(i) \in Int
           /\ i <= j => StartOf(i) <= StartOf(j)
           /\ i < j => StartOf(i) + RowHeight <= StartOf(j)
           /\ i >= 0 => StartOf(i) >= 0
           /\ StartOf(i - j) = StartOf(i) - StartOf(j)
           /\ StartOf(i + 1) = StartOf(i) + RowHeight
<1>1. RowHeight \in Nat \ {0}
  BY RowHeightAssumption
<1>2. \A k \in Nat : k * RowHeight >= 0 /\ (k # 0 => k * RowHeight >= RowHeight)
  BY <1>1
<1>3. (j - i) * RowHeight = j * RowHeight - i * RowHeight
      /\ (i - j) * RowHeight = i * RowHeight - j * RowHeight
      /\ (i + 1) * RowHeight = i * RowHeight + RowHeight
  BY <1>1
<1>4. i <= j => j - i \in Nat
  OBVIOUS
<1>5. i <= j => StartOf(i) <= StartOf(j)
  BY <1>1, <1>2, <1>3, <1>4 DEF StartOf
<1>6. i < j => StartOf(i) + RowHeight <= StartOf(j)
  BY <1>1, <1>2, <1>3, <1>4 DEF StartOf
<1>7. i >= 0 => StartOf(i) >= 0
  BY <1>2 DEF StartOf
<1> QED BY <1>1, <1>3, <1>5, <1>6, <1>7 DEF StartOf

LEMMA LengthIs ==
    ASSUME NEW ids, NEW ax \in Seq(ids)
    PROVE  Len(ax) \in Nat /\ (ax # <<>> => Len(ax) \in Nat \ {0}) /\ (ax = <<>> => Len(ax) = 0)
BY LenProperties, EmptySeq

\* What is at a pixel starts there or before.
LEMMA PixelIndex ==
    ASSUME NEW ids, NEW ax \in Seq(ids), ax # <<>>, NEW pixel \in Nat
    PROVE  /\ IndexAtPixel(ax, pixel) \in 0 .. Len(ax) - 1
           /\ StartOf(IndexAtPixel(ax, pixel)) \in 0 .. pixel
<1> DEFINE S == {0} \union {i \in 0 .. Len(ax) - 1 : StartOf(i) <= pixel}
<1>1. Len(ax) \in Nat \ {0}
  BY LengthIs
<1>2. S \subseteq Nat /\ S # {} /\ \A x \in S : x <= Len(ax)
  BY <1>1
<1>3. Max(S) \in S
  <2> HIDE DEF S
  <2> QED BY <1>1, <1>2, MaxIsGreatest
<1>4. Max(S) \in 0 .. Len(ax) - 1 /\ (Max(S) = 0 \/ StartOf(Max(S)) <= pixel)
  BY <1>1, <1>3
<1>5. IndexAtPixel(ax, pixel) = Max(S)
  BY DEF IndexAtPixel
<1> DEFINE m == Max(S)
<1> HIDE DEF m
<1>6. m \in 0 .. Len(ax) - 1 /\ m \in Int /\ m >= 0 /\ (m = 0 \/ StartOf(m) <= pixel)
  BY <1>1, <1>4 DEF m
<1>7. StartOf(m) \in Int /\ StartOf(m) >= 0
  BY <1>6, StartGrows
<1>8. StartOf(0) = 0
  BY RowHeightAssumption DEF StartOf
<1> QED BY <1>5, <1>6, <1>7, <1>8 DEF m

LEMMA IdsNat == Ids \subseteq Nat \ {NoId}
BY ShellAssumption DEF Ids, NoId

LEMMA TopPixelNat ==
    ASSUME NEW ax \in Seq(Ids), NEW a \in Anchor
    PROVE  /\ AnchorIndex(ax, a) \in Nat
           /\ StartOf(AnchorIndex(ax, a)) \in Nat
           /\ TopPixel(ax, a) \in Nat /\ TopPixel(ax, a) >= StartOf(AnchorIndex(ax, a))
<1>1. AnchorIndex(ax, a) \in Nat
  BY Index0Is DEF AnchorIndex
<1>2. StartOf(AnchorIndex(ax, a)) \in Nat
  BY <1>1, StartGrows
<1>3. a.offset \in Nat
  BY DEF Anchor
<1> QED BY <1>1, <1>2, <1>3 DEF TopPixel

\* Where a scroll ends.
Target(ax, a, delta, height) ==
    Max({0, Min({Max({0, Extent(ax) - height}), TopPixel(ax, a) + delta})})

LEMMA TargetIs ==
    ASSUME NEW ax \in Seq(Ids), NEW a \in Anchor, NEW delta \in Int, NEW height \in Nat
    PROVE  LET room == Extent(ax) - height
               lowest == IF room <= 0 THEN 0 ELSE room
               wanted == TopPixel(ax, a) + delta
           IN /\ Target(ax, a, delta, height) \in Nat
              /\ wanted < 0 => Target(ax, a, delta, height) = 0
              /\ wanted >= 0 => Target(ax, a, delta, height) =
                                    IF wanted <= lowest THEN wanted ELSE lowest
<1> DEFINE room == Extent(ax) - height
           lowest == IF room <= 0 THEN 0 ELSE room
           wanted == TopPixel(ax, a) + delta
<1>1. Extent(ax) \in Int
  BY LengthIs, StartGrows DEF Extent
<1>2. room \in Int
  BY <1>1
<1>3. wanted \in Int
  BY TopPixelNat
<1>4. Max({0, room}) = lowest
  <2> HIDE DEF room
  <2> QED BY <1>2, MaxPair
<1> HIDE DEF room
<1>5. lowest \in Nat
  BY <1>2
<1> HIDE DEF lowest, wanted
<1>6. Min({lowest, wanted}) = IF lowest <= wanted THEN lowest ELSE wanted
  BY <1>3, <1>5, MinPair
<1>7. Min({lowest, wanted}) \in Int
  BY <1>3, <1>5, <1>6
<1>8. Max({0, Min({lowest, wanted})})
        = IF 0 >= Min({lowest, wanted}) THEN 0 ELSE Min({lowest, wanted})
  <2> DEFINE m == Min({lowest, wanted})
  <2> HIDE DEF m
  <2>1. m \in Int
    BY <1>7 DEF m
  <2>2. Max({0, m}) = IF 0 >= m THEN 0 ELSE m
    BY <2>1, MaxPair
  <2> QED BY <2>2 DEF m
<1>9. Target(ax, a, delta, height) = Max({0, Min({lowest, wanted})})
  BY <1>4 DEF Target, room, wanted
<1>10. /\ Target(ax, a, delta, height) \in Nat
       /\ wanted < 0 => Target(ax, a, delta, height) = 0
       /\ wanted >= 0 => Target(ax, a, delta, height) = IF wanted <= lowest THEN wanted ELSE lowest
  BY <1>3, <1>5, <1>6, <1>7, <1>8, <1>9
<1> QED BY <1>10 DEF wanted, lowest, room

\* An identity and an offset into it name a pixel.
LEMMA AnchorAt ==
    ASSUME NEW ax, Order(Ids, ax), ax # <<>>, NEW pixel \in Nat
    PROVE  LET index == IndexAtPixel(ax, pixel)
               a == [id |-> IdAt(ax, index), offset |-> pixel - StartOf(index)]
           IN a \in Anchor /\ Has(ax, a.id) /\ TopPixel(ax, a) = pixel
<1> DEFINE index == IndexAtPixel(ax, pixel)
           a == [id |-> IdAt(ax, index), offset |-> pixel - StartOf(index)]
<1>1. ax \in Seq(Ids)
  BY DEF Order
<1>2. index \in 0 .. Len(ax) - 1 /\ StartOf(index) \in 0 .. pixel
  BY <1>1, PixelIndex
<1> HIDE DEF index
<1>3. /\ Has(ax, IdAt(ax, index)) /\ IndexOf(ax, IdAt(ax, index)) = index
      /\ IdAt(ax, index) \in Ids
  BY <1>2, IndexAt
<1>4. pixel - StartOf(index) \in Nat
  BY <1>2
<1>5. a \in Anchor /\ a.id = IdAt(ax, index) /\ a.offset = pixel - StartOf(index)
  BY <1>3, <1>4, IdsNat DEF Anchor
<1> HIDE DEF a
<1>6. AnchorIndex(ax, a) = index
  BY <1>3, <1>5 DEF AnchorIndex, IndexOr0
<1>7. TopPixel(ax, a) = pixel
  BY <1>2, <1>5, <1>6 DEF TopPixel
<1> QED BY <1>3, <1>5, <1>7 DEF index, a

LEMMA ScrolledTo ==
    ASSUME NEW ax, Order(Ids, ax), NEW a \in Anchor, NEW delta \in Int, NEW height \in Nat
    PROVE  LET new == Scrolled(ax, a, delta, height)
           IN /\ new \in Anchor
              /\ new.id # NoId => Has(ax, new.id)
              /\ ax # <<>> => Has(ax, new.id)
                              /\ TopPixel(ax, new) = Target(ax, a, delta, height)
<1> DEFINE new == Scrolled(ax, a, delta, height)
<1>1. CASE ax = <<>>
  BY <1>1 DEF Scrolled, DefaultAnchor, Anchor, NoId
<1>2. CASE ax # <<>>
  <2> DEFINE target == Target(ax, a, delta, height)
             index == IndexAtPixel(ax, target)
  <2>1. target \in Nat
    BY TargetIs DEF Order
  <2>2. new = [id |-> IdAt(ax, index), offset |-> target - StartOf(index)]
    BY <1>2 DEF Scrolled, Target
  <2> HIDE DEF new, target
  <2>3. new \in Anchor /\ Has(ax, new.id) /\ TopPixel(ax, new) = target
    BY <1>2, <2>1, <2>2, AnchorAt
  <2> QED BY <1>2, <2>3 DEF new, target
<1> QED BY <1>1, <1>2

LEMMA ReanchoredOK ==
    ASSUME NEW ax, Order(Ids, ax), NEW old \in Seq(Ids), NEW a \in Anchor
    PROVE  LET new == Reanchored(ax, old, a)
           IN /\ new \in Anchor
              /\ new.id # NoId => Has(ax, new.id)
              /\ ax # <<>> /\ Has(ax, a.id) => new = a
              /\ ax # <<>> /\ a.id # NoId /\ Has(old, a.id) /\ ~ Has(ax, a.id) =>
                    TopPixel(ax, new) = TopPixel(old, a)
<1> DEFINE new == Reanchored(ax, old, a)
<1>1. CASE ax = <<>>
  BY <1>1 DEF Reanchored, DefaultAnchor, Anchor, NoId
<1>2. ax \in Seq(Ids)
  BY DEF Order
<1>3. ~ Has(ax, NoId)
  BY <1>2, HasIs, IdsNat
<1>4. CASE ax # <<>> /\ a.id = NoId
  <2>1. 0 \in 0 .. Len(ax) - 1
    BY <1>2, <1>4, LengthIs
  <2>2. Has(ax, IdAt(ax, 0)) /\ IdAt(ax, 0) \in Nat
    BY <2>1, IndexAt, IdsNat
  <2>3. new = [id |-> IdAt(ax, 0), offset |-> 0]
    BY <1>4 DEF Reanchored
  <2> HIDE DEF new
  <2> QED BY <1>3, <1>4, <2>2, <2>3 DEF Anchor, new
<1>5. CASE ax # <<>> /\ a.id # NoId /\ Has(ax, a.id)
  BY <1>5 DEF Reanchored
<1>6. CASE ax # <<>> /\ a.id # NoId /\ ~ Has(ax, a.id)
  <2> DEFINE pixel == (IF Has(old, a.id) THEN PixelOf(old, a.id) ELSE 0) + a.offset
             index == IndexAtPixel(ax, pixel)
  <2>1. pixel \in Nat
    <3>1. Has(old, a.id) => PixelOf(old, a.id) \in Nat
      <4> SUFFICES ASSUME Has(old, a.id)
                   PROVE  PixelOf(old, a.id) \in Nat
        OBVIOUS
      <4>1. IndexOf(old, a.id) \in Nat
        BY IndexIs
      <4>2. StartOf(IndexOf(old, a.id)) \in Int /\ StartOf(IndexOf(old, a.id)) >= 0
        BY <4>1, StartGrows
      <4> QED BY <4>2 DEF PixelOf
    <3> QED BY <3>1 DEF Anchor
  <2>2. Has(old, a.id) => pixel = TopPixel(old, a)
    BY DEF TopPixel, PixelOf, AnchorIndex, IndexOr0
  <2>3. new = [id |-> IdAt(ax, index), offset |-> Max({0, pixel - StartOf(index)})]
    BY <1>6 DEF Reanchored
  <2> HIDE DEF pixel
  <2>4. StartOf(index) \in 0 .. pixel
    BY <1>2, <1>6, <2>1, PixelIndex
  <2> DEFINE rest == pixel - StartOf(index)
  <2>5. rest \in Nat
    BY <2>1, <2>4
  <2>6. Max({0, rest}) = rest
    <3> HIDE DEF rest
    <3> QED BY <2>5, MaxPair
  <2>7. new = [id |-> IdAt(ax, index), offset |-> pixel - StartOf(index)]
    BY <2>3, <2>6
  <2> HIDE DEF new
  <2>8. new \in Anchor /\ Has(ax, new.id) /\ TopPixel(ax, new) = pixel
    BY <1>6, <2>1, <2>7, AnchorAt
  <2> QED BY <1>6, <2>2, <2>8 DEF new
<1> QED BY <1>1, <1>4, <1>5, <1>6

LEMMA SlotIs ==
    ASSUME NEW ax, Order(Ids, ax), NEW a \in Anchor, NEW height \in Nat,
           NEW slot \in Visible(ax, a, height)
    PROVE  /\ slot.index \in 0 .. Len(ax) - 1
           /\ slot.id = IdAt(ax, slot.index)
           /\ Has(ax, slot.id) /\ slot.id \in Ids
<1>1. PICK i \in AnchorIndex(ax, a) .. Len(ax) - 1 : slot.index = i /\ slot.id = IdAt(ax, i)
  BY DEF Visible
<1>2. AnchorIndex(ax, a) \in Nat /\ Len(ax) \in Nat
  BY TopPixelNat, LengthIs DEF Order
<1>3. i \in 0 .. Len(ax) - 1
  BY <1>1, <1>2
<1> QED BY <1>1, <1>3, IndexAt

-----------------------------------------------------------------------------
(* The inductive invariant.  The session's book, also the one that each    *)
(* undo or redo would lead to, is over rows within MaxRow, and the shell's *)
(* axis is its live order; what points into the axis does so by a row of   *)
(* it, or by an identity once the sheet is empty; a block and the pending  *)
(* cut it came from are of one size; a fill is a gesture of a held button. *)

DocOK == BookOK(book) /\ axis = LiveOrder(book.rows)

CursorOK ==
    /\ active \in Ids /\ anchor \in Ids
    /\ axis # <<>> => Has(axis, active) /\ Has(axis, anchor)

ViewOK ==
    /\ view \in [anchor : Anchor, height : Heights]
    /\ view.anchor.id # NoId => Has(axis, view.anchor.id)

Editors == [row : Ids, text : Texts, caret : Nat, preedit : Seq(Int)]
EditorOK ==
    Open => /\ editor \in Editors /\ editor.caret <= Len(editor.text)
            /\ axis # <<>> => Has(axis, editor.row)

\* A block that is not to be translated was cut, and the cut range is its own.
BoardOK ==
    /\ mine = None \/ mine \in Blocks
    /\ os \in [there : BOOLEAN, text : Seq(Texts)]
    /\ cut = None \/ cut \in Spans
    /\ mine # None /\ ~ mine.translate =>
            /\ Len(mine.ids) = Len(mine.cells)
            /\ cut # None => cut = <<mine.origin, mine.origin + Len(mine.ids) - 1>>

GestureOK ==
    /\ pressed \in BOOLEAN
    /\ \/ drag = NoDrag
       \/ drag = SelectDrag
       \/ /\ pressed
          /\ \E origin \in Spans, preview \in Spans \union {None} :
                drag = FillDrag(origin, preview)

IInv == DocOK /\ CursorOK /\ ViewOK /\ EditorOK /\ BoardOK /\ GestureOK

LEMMA KeepsDoc == DocOK /\ UNCHANGED doc => DocOK'
BY DEF DocOK, doc

LEMMA KeepsCursor == CursorOK /\ UNCHANGED <<axis, cursor>> => CursorOK'
BY DEF CursorOK, cursor

LEMMA KeepsView == ViewOK /\ UNCHANGED <<axis, view>> => ViewOK'
BY DEF ViewOK

LEMMA KeepsEditor == EditorOK /\ axis' = axis /\ editor' \in {editor, None} => EditorOK'
BY DEF EditorOK, Open

LEMMA KeepsBoard == BoardOK /\ UNCHANGED board => BoardOK'
BY DEF BoardOK, board

LEMMA KeepsGesture == GestureOK /\ UNCHANGED pointer => GestureOK'
BY DEF GestureOK, pointer

\* Another session over the same rows has the same axis.
LEMMA NewDoc ==
    ASSUME DocOK, BookOK(book'), book'.rows = book.rows, axis' = axis
    PROVE  DocOK'
BY DEF DocOK

LEMMA AxisFacts ==
    ASSUME DocOK
    PROVE  /\ Order(Ids, axis) /\ axis \in Seq(Ids)
           /\ Len(axis) \in Nat /\ Len(axis) = Cardinality(LiveIds(book.rows))
           /\ axis # <<>> => Len(axis) \in Nat \ {0}
           /\ \A n \in 0 .. Len(axis) - 1 : IdAt(axis, n) = At(book.rows, n)
<1>1. BookOK(book) /\ AxisOK(book.rows) /\ IdsOf(book.rows) \subseteq Ids
      /\ axis = LiveOrder(book.rows)
  BY DEF DocOK, BookOK
<1>2. /\ axis \in Seq(IdsOf(book.rows)) /\ Len(axis) = Cardinality(LiveIds(book.rows))
      /\ DOMAIN axis = 1 .. Len(axis) /\ Len(axis) \in Nat
      /\ \A i \in 1 .. Len(axis) : axis[i] = At(book.rows, i - 1) /\ axis[i] \in IdsOf(book.rows)
  BY <1>1, OrderIs
<1>3. axis \in Seq(Ids)
  <2>1. axis \in [1 .. Len(axis) -> IdsOf(book.rows)]
    BY <1>2, LenProperties
  <2>2. axis \in [1 .. Len(axis) -> Ids]
    BY <1>1, <2>1
  <2> QED BY <1>2, <2>2
<1>4. \A i, j \in 1 .. Len(axis) : axis[i] = axis[j] => i = j
  BY <1>1, OrderInjective
<1>5. Order(Ids, axis)
  BY <1>3, <1>4 DEF Order
<1>6. \A n \in 0 .. Len(axis) - 1 : IdAt(axis, n) = At(book.rows, n)
  <2> TAKE n \in 0 .. Len(axis) - 1
  <2>1. n + 1 \in 1 .. Len(axis) /\ n + 1 - 1 = n
    BY <1>2
  <2> QED BY <1>2, <2>1 DEF IdAt
<1>7. axis # <<>> => Len(axis) \in Nat \ {0}
  BY <1>3, LengthIs
<1> QED BY <1>2, <1>3, <1>5, <1>6, <1>7

LEMMA SelectionIs ==
    ASSUME IInv, Selection # None
    PROVE  Selection \in Spans /\ Selection[2] < Len(axis) /\ axis # <<>>
<1>1. axis \in Seq(Ids) /\ Len(axis) \in Nat
  BY AxisFacts DEF IInv
<1>2. Has(axis, active)
  BY DEF Selection
<1>3. axis # <<>>
  BY <1>1, <1>2, HasIs, LengthIs
<1> DEFINE a == ActiveIndex
           h == IF Has(axis, anchor) THEN IndexOf(axis, anchor) ELSE a
<1>4. Selection = <<Min({a, h}), Max({a, h})>>
  BY <1>2 DEF Selection
<1>5. a \in 0 .. Len(axis) - 1
  BY <1>1, <1>3, Index0Is DEF ActiveIndex
<1>6. h \in 0 .. Len(axis) - 1
  <2>1. Has(axis, anchor) => IndexOf(axis, anchor) \in 0 .. Len(axis) - 1
    BY <1>1, IndexIs
  <2> HIDE DEF a
  <2> QED BY <1>5, <2>1
<1> HIDE DEF a, h
<1>7. Min({a, h}) = (IF a <= h THEN a ELSE h) /\ Max({a, h}) = (IF a >= h THEN a ELSE h)
  BY <1>1, <1>5, <1>6, MinPair, MaxPair
<1>8. Min({a, h}) \in Nat /\ Max({a, h}) \in Nat /\ Min({a, h}) <= Max({a, h})
      /\ Max({a, h}) < Len(axis)
  BY <1>1, <1>5, <1>6, <1>7
<1> QED BY <1>3, <1>4, <1>8 DEF Spans

\* What a commit leaves, in each of its cases.
LEMMA Landed ==
    ASSUME IInv
    PROVE  /\ BookOK(Landing.book) /\ Landing.book.rows = book.rows
           /\ Landing.editor \in {editor, None}
           /\ \/ /\ Landing.book = book /\ Landing.editor = None
                 /\ ~ Open \/ ~ Has(axis, editor.row)
              \/ Landing.book = book /\ Landing.editor = editor /\ Open
              \/ /\ Open /\ Landing.editor = None
                 /\ Landing.book.content = [book.content EXCEPT ![editor.row] = editor.text]
<1>1. BookOK(book)
  BY DEF IInv, DocOK
<1>2. CASE ~ Open \/ ~ Has(axis, editor.row)
  <2>1. Landing = [book |-> book, editor |-> None]
    BY <1>2 DEF Landing
  <2> QED BY <1>1, <1>2, <2>1
<1>3. CASE Open /\ Has(axis, editor.row)
  <2> DEFINE at == IndexOf(axis, editor.row)
             command == Write(at, editor.text)
  <2>1. editor \in Editors
    BY <1>3 DEF IInv, EditorOK
  <2>2. editor.text \in Texts
    BY <2>1 DEF Editors
  <2>3. at \in Nat /\ at \in 0 .. Len(axis) - 1 /\ IdAt(axis, at) = editor.row
    BY <1>3, AxisFacts, IndexIs DEF IInv
  <2>4. At(book.rows, at) = editor.row
    <3> HIDE DEF at
    <3> QED BY <2>3, AxisFacts DEF IInv
  <2> HIDE DEF at
  <2>5. LET after == Apply(book, command)
        IN /\ BookOK(after) /\ after.rows = book.rows
           /\ Refused(book, command) => after = book
           /\ ~ Refused(book, command) =>
                 after.content = [book.content EXCEPT ![At(book.rows, at)] = editor.text]
    BY <1>1, <2>2, <2>3, WriteApplied
  <2>6. Landing = IF Refused(book, command) THEN [book |-> book, editor |-> editor]
                  ELSE [book |-> Apply(book, command), editor |-> None]
    BY <1>3 DEF Landing, at
  <2> HIDE DEF command
  <2>7. CASE Refused(book, command)
    <3>1. Landing.book = book /\ Landing.editor = editor
      BY <2>6, <2>7
    <3> QED BY <1>1, <1>3, <3>1
  <2>8. CASE ~ Refused(book, command)
    <3>1. Landing.book = Apply(book, command) /\ Landing.editor = None
      BY <2>6, <2>8
    <3>2. BookOK(Landing.book) /\ Landing.book.rows = book.rows
          /\ Landing.book.content = [book.content EXCEPT ![editor.row] = editor.text]
      BY <2>4, <2>5, <2>8, <3>1
    <3> QED BY <1>3, <3>1, <3>2
  <2> QED BY <2>7, <2>8
<1> QED BY <1>2, <1>3

LEMMA Committed ==
    ASSUME IInv, Commit, axis' = axis
    PROVE  DocOK' /\ EditorOK'
<1>1. book' = Landing.book /\ editor' = Landing.editor
  BY DEF Commit
<1>2. BookOK(book') /\ book'.rows = book.rows /\ editor' \in {editor, None}
  BY <1>1, Landed
<1> QED BY <1>2, NewDoc, KeepsEditor DEF IInv

-----------------------------------------------------------------------------
(* Where a key leads the cursor.                                           *)

LEMMA PageNat == ASSUME IInv PROVE Page \in Nat
<1>1. axis \in Seq(Ids) /\ Len(axis) \in Nat
  BY AxisFacts DEF IInv
<1>2. view.anchor \in Anchor
  BY DEF IInv, ViewOK
<1> DEFINE first == AnchorIndex(axis, view.anchor)
           S == {j \in first .. Len(axis) - 1 :
                    StartOf(j - first) - view.anchor.offset < view.height}
           f == [i \in S |-> [id |-> IdAt(axis, i), index |-> i,
                              at |-> StartOf(i - first) - view.anchor.offset]]
<1>3. IsFiniteSet(first .. Len(axis) - 1)
  <2>1. first \in Int
    BY <1>1, <1>2, TopPixelNat
  <2> HIDE DEF first
  <2> QED BY <1>1, <2>1, FS_Interval
<1>4. IsFiniteSet(S)
  <2> DEFINE I == first .. Len(axis) - 1
  <2>1. S \in SUBSET I
    OBVIOUS
  <2> HIDE DEF S, I
  <2> QED BY <1>3, <2>1, FS_Subset DEF I
<1>5. Shown = {f[i] : i \in S}
  BY DEF Shown, Visible
<1> HIDE DEF S, f
<1>6. f \in Surjection(S, Shown)
  <2>1. DOMAIN f = S
    BY DEF f
  <2>2. f \in [S -> Shown]
    <3>1. f = [i \in S |-> f[i]]
      BY DEF f
    <3>2. \A i \in S : f[i] \in Shown
      BY <1>5
    <3> HIDE DEF Shown
    <3> QED BY <3>1, <3>2
  <2> HIDE DEF Shown
  <2> QED BY <1>5, <2>2 DEF Surjection
<1>7. IsFiniteSet(Shown)
  BY <1>4, <1>6, FS_Surjection
<1>8. Cardinality(Shown) \in Nat
  BY <1>7, FS_CardinalityType
<1> DEFINE c == Cardinality(Shown) - 1
<1>9. c \in Int
  BY <1>8
<1>10. Page = Max({1, c})
  BY DEF Page
<1> HIDE DEF c
<1> QED BY <1>9, <1>10, MaxPair

LEMMA LastIs ==
    ASSUME DocOK, axis # <<>>
    PROVE  LastRow = Len(axis) - 1 /\ LastRow \in Nat
<1>1. Len(axis) \in Nat \ {0}
  BY AxisFacts
<1> DEFINE n == Len(axis) - 1
<1>2. n \in Nat
  BY <1>1
<1> HIDE DEF n
<1>3. Max({0, n}) = n
  BY <1>2, MaxPair
<1> QED BY <1>2, <1>3 DEF LastRow, n

LEMMA EdgeIs ==
    ASSUME DocOK, axis # <<>>, NEW from \in 0 .. LastRow, NEW direction \in {-1, 1}
    PROVE  DataEdge(from, direction) \in 0 .. LastRow
<1> DEFINE ahead == IF direction > 0 THEN LastRow - from ELSE from
           full == {k \in 1 .. ahead : Occupied(from + direction * k)}
           empty == (1 .. ahead) \ full
           near == empty \union {ahead + 1}
           far == full \union {ahead}
           k == IF 1 \in full THEN Min(near) - 1 ELSE Min(far)
<1>1. LastRow \in Nat
  BY LastIs
<1>2. ahead \in Nat
  BY <1>1
<1>3. near \subseteq Nat \ {0} /\ near # {} /\ \A x \in near : x <= ahead + 1
  BY <1>2
<1>4. far \subseteq Nat /\ far # {} /\ \A x \in far : x <= ahead
  BY <1>2
<1>5. Min(near) \in near /\ Min(far) \in far
  <2> HIDE DEF near, far
  <2>1. near \subseteq Nat
    BY <1>3
  <2> QED BY <1>3, <1>4, <2>1, MinIsLeast
<1>6. k \in 0 .. ahead
  <2>1. Min(near) \in Nat \ {0} /\ Min(near) <= ahead + 1 /\ Min(far) \in Nat /\ Min(far) <= ahead
    <3> HIDE DEF near, far
    <3> QED BY <1>3, <1>4, <1>5
  <2> HIDE DEF near, far, full, ahead
  <2> QED BY <1>2, <2>1
<1>7. DataEdge(from, direction) = from + direction * k
  BY DEF DataEdge
<1> HIDE DEF k
<1>8. CASE direction = 1
  BY <1>1, <1>6, <1>7, <1>8
<1>9. CASE direction = -1
  BY <1>1, <1>6, <1>7, <1>9
<1> QED BY <1>8, <1>9

LEMMA ReachedIs ==
    ASSUME IInv, axis # <<>>, NEW step \in Steps
    PROVE  Reached(step, ActiveIndex) \in 0 .. Len(axis) - 1
<1> DEFINE from == ActiveIndex
<1>1. DocOK /\ Len(axis) \in Nat \ {0} /\ axis \in Seq(Ids)
  BY AxisFacts DEF IInv
<1>2. LastRow = Len(axis) - 1 /\ LastRow \in Nat
  BY <1>1, LastIs
<1>3. from \in 0 .. LastRow
  BY <1>1, <1>2, Index0Is DEF ActiveIndex
<1>4. Page \in Nat
  BY PageNat
<1> HIDE DEF from
<1>5. ASSUME NEW n \in Nat
      PROVE  Max({0, from - n}) \in 0 .. LastRow /\ Min({from + n, LastRow}) \in 0 .. LastRow
  <2> DEFINE back == from - n
             on == from + n
  <2>1. back \in Int /\ back <= LastRow /\ on \in Nat
    BY <1>2, <1>3
  <2> HIDE DEF back, on
  <2>2. Max({0, back}) = (IF 0 >= back THEN 0 ELSE back)
        /\ Min({on, LastRow}) = (IF on <= LastRow THEN on ELSE LastRow)
    BY <1>2, <2>1, MaxPair, MinPair
  <2>3. Max({0, back}) \in 0 .. LastRow /\ Min({on, LastRow}) \in 0 .. LastRow
    BY <1>2, <2>1, <2>2
  <2> QED BY <2>3 DEF back, on
<1>6. Max({0, from - 1}) \in 0 .. LastRow /\ Min({from + 1, LastRow}) \in 0 .. LastRow
  BY <1>5
<1>7. Max({0, from - Page}) \in 0 .. LastRow /\ Min({from + Page, LastRow}) \in 0 .. LastRow
  BY <1>4, <1>5
<1>8. DataEdge(from, -1) \in 0 .. LastRow /\ DataEdge(from, 1) \in 0 .. LastRow
  BY <1>1, <1>3, EdgeIs
<1>9. 0 \in 0 .. LastRow /\ LastRow \in 0 .. LastRow
  BY <1>2
<1>10. Reached(step, from) \in 0 .. LastRow
  <2>1. CASE step = "side"
    BY <1>3, <2>1 DEF Reached
  <2>2. CASE step = "up"
    BY <1>6, <2>2 DEF Reached
  <2>3. CASE step = "down"
    BY <1>6, <2>3 DEF Reached
  <2>4. CASE step = "page up"
    BY <1>7, <2>4 DEF Reached
  <2>5. CASE step = "page down"
    BY <1>7, <2>5 DEF Reached
  <2>6. CASE step = "start"
    BY <1>9, <2>6 DEF Reached
  <2>7. CASE step = "end"
    BY <1>9, <2>7 DEF Reached
  <2>8. CASE step = "edge up"
    BY <1>8, <2>8 DEF Reached
  <2>9. CASE step = "edge down"
    BY <1>8, <2>9 DEF Reached
  <2> QED BY <2>1, <2>2, <2>3, <2>4, <2>5, <2>6, <2>7, <2>8, <2>9 DEF Steps
<1> QED BY <1>2, <1>10 DEF from

\* The way to the cell is a number of pixels.
LEMMA NeededInt ==
    ASSUME NEW ax \in Seq(Ids), NEW a \in Anchor, NEW height \in Nat, NEW id
    PROVE  ScrollNeeded(ax, a, height, id) \in Int
<1>1. CASE ~ Has(ax, id)
  BY <1>1 DEF ScrollNeeded
<1>2. CASE Has(ax, id)
  <2> DEFINE top == (IF Has(ax, a.id) THEN PixelOf(ax, a.id) ELSE 0) + a.offset
             at == PixelOf(ax, id)
  <2>1. \A x : Has(ax, x) => PixelOf(ax, x) \in Int
    <3> TAKE x
    <3> SUFFICES ASSUME Has(ax, x)
                 PROVE  PixelOf(ax, x) \in Int
      OBVIOUS
    <3>1. IndexOf(ax, x) \in Nat
      BY IndexIs
    <3> QED BY <3>1, StartGrows DEF PixelOf
  <2>2. top \in Int /\ at \in Int
    BY <1>2, <2>1 DEF Anchor
  <2>3. ScrollNeeded(ax, a, height, id) =
            IF at < top THEN at - top
            ELSE IF at + RowHeight > top + height THEN at + RowHeight - (top + height)
            ELSE 0
    BY <1>2 DEF ScrollNeeded
  <2> HIDE DEF top, at
  <2> QED BY <2>2, <2>3, RowHeightAssumption
<1> QED BY <1>1, <1>2

LEMMA FreshRows ==
    ASSUME NEW n \in Nat
    PROVE  LET rows == [i \in 1 .. n |-> [id |-> i, live |-> TRUE]]
           IN /\ AxisOK(rows) /\ IdsOf(rows) = 1 .. n
              /\ LiveOrder(rows) = [i \in 1 .. n |-> i]
<1> DEFINE rows == [i \in 1 .. n |-> [id |-> i, live |-> TRUE]]
<1>1. /\ DOMAIN rows = 1 .. n
      /\ \A i \in 1 .. n : rows[i].id = i /\ rows[i].live = TRUE /\ rows[i] \in Slot
  BY DEF Slot
<1>2. rows \in Seq(Slot)
  <2>1. rows \in [1 .. n -> Slot]
    BY <1>1
  <2> QED BY <2>1, IsASeq
<1>3. AxisOK(rows)
  BY <1>1, <1>2 DEF AxisOK
<1> HIDE DEF rows
<1>4. IdsOf(rows) = 1 .. n
  BY <1>1 DEF IdsOf
<1>5. LiveIds(rows) = 1 .. n
  BY <1>1 DEF LiveIds
<1>6. Cardinality(LiveIds(rows)) = n
  <2>1. Cardinality(1 .. n) = n
    BY FS_Interval
  <2> QED BY <1>5, <2>1
<1>7. \A i \in 1 .. n : Before(rows, i) = i - 1
  <2> SUFFICES ASSUME NEW i \in 1 .. n PROVE Before(rows, i) = i - 1
    OBVIOUS
  <2>1. {j \in 1 .. i - 1 : rows[j].live} = 1 .. i - 1
    BY <1>1
  <2>2. Cardinality(1 .. i - 1) = i - 1
    <3>1. CASE i = 1
      <4>1. 1 .. i - 1 = {}
        BY <3>1
      <4> QED BY <3>1, <4>1, FS_EmptySet
    <3>2. CASE i # 1
      <4>1. 1 <= i - 1 /\ i - 1 \in Int
        BY <3>2
      <4> QED BY <4>1, FS_Interval
    <3> QED BY <3>1, <3>2
  <2> QED BY <2>1, <2>2 DEF Before
<1>8. \A i \in 1 .. n : At(rows, i - 1) = i
  <2> SUFFICES ASSUME NEW i \in 1 .. n PROVE At(rows, i - 1) = i
    OBVIOUS
  <2> DEFINE place == CHOOSE j \in DOMAIN rows : rows[j].live /\ Before(rows, j) = i - 1
  <2>1. \E j \in DOMAIN rows : rows[j].live /\ Before(rows, j) = i - 1
    BY <1>1, <1>7
  <2>2. place \in DOMAIN rows /\ Before(rows, place) = i - 1
    BY <2>1
  <2>3. At(rows, i - 1) = rows[place].id
    BY DEF At
  <2> HIDE DEF place
  <2>4. place = i
    BY <1>1, <1>7, <2>2
  <2> QED BY <1>1, <2>3, <2>4
<1>9. LiveOrder(rows) = [i \in 1 .. n |-> i]
  <2>1. LiveOrder(rows) = [i \in 1 .. n |-> At(rows, i - 1)]
    BY <1>6 DEF LiveOrder
  <2> QED BY <1>8, <2>1
<1> QED BY <1>3, <1>4, <1>9 DEF rows

LEMMA InitInv == Init => IInv
<1> SUFFICES ASSUME NEW opening \in Scenes,
                    book = [rows |-> [i \in 1 .. Len(opening.texts) |-> [id |-> i, live |-> TRUE]],
                            content |-> [id \in 1 .. MaxRow |->
                                           IF id <= Len(opening.texts) THEN opening.texts[id]
                                           ELSE Blank],
                            undo |-> <<>>, redo |-> <<>>],
                    axis = [i \in 1 .. Len(opening.texts) |-> i],
                    view = [anchor |-> DefaultAnchor, height |-> opening.height],
                    active = 1, anchor = 1, editor = None, mine = None, cut = None,
                    os = [there |-> opening.system, text |-> <<>>],
                    drag = NoDrag, pressed = FALSE
             PROVE  IInv
  BY DEF Init
<1> DEFINE scene == opening.texts
           height == opening.height
           n == Len(scene)
           rows == [i \in 1 .. n |-> [id |-> i, live |-> TRUE]]
           content == [id \in 1 .. MaxRow |-> IF id <= n THEN scene[id] ELSE Blank]
<1>1. /\ scene \in Seq(Texts) /\ n \in Nat /\ n <= MaxRow /\ MaxRow \in Nat \ {0}
      /\ height \in Heights /\ opening.system \in BOOLEAN
  BY ShellAssumption, LenProperties
<1>2. /\ AxisOK(rows) /\ IdsOf(rows) = 1 .. n
      /\ LiveOrder(rows) = [i \in 1 .. n |-> i]
  <2> HIDE DEF n
  <2> QED BY <1>1, FreshRows
<1>3. content \in [Ids -> Texts]
  <2>1. \A id \in Ids : (IF id <= n THEN scene[id] ELSE Blank) \in Texts
    <3> SUFFICES ASSUME NEW id \in Ids PROVE (IF id <= n THEN scene[id] ELSE Blank) \in Texts
      OBVIOUS
    <3>1. CASE id <= n
      <4>1. id \in 1 .. Len(scene)
        BY <1>1, <3>1 DEF Ids
      <4> QED BY <1>1, <3>1, <4>1, CellText
    <3> QED BY <1>1, <3>1, BlankText DEF Ids
  <2> QED BY <2>1 DEF Ids
<1>4. DocOK
  <2>1. book = [rows |-> rows, content |-> content, undo |-> <<>>, redo |-> <<>>]
    OBVIOUS
  <2> HIDE DEF rows, content
  <2>2. book.rows = rows /\ book.content = content /\ book.undo = <<>> /\ book.redo = <<>>
    BY <2>1
  <2>3. IdsOf(rows) \subseteq Ids
    <3> HIDE DEF n
    <3> QED BY <1>1, <1>2 DEF Ids
  <2>4. BookOK(book)
    BY <1>2, <1>3, <2>1, <2>2, <2>3, NoEntries, BookMade
  <2> QED BY <1>2, <2>2, <2>4 DEF DocOK
<1>5. CursorOK
  <2>1. 1 \in Ids
    BY <1>1 DEF Ids
  <2>2. axis # <<>> => Has(axis, 1)
    <3> SUFFICES ASSUME axis # <<>> PROVE Has(axis, 1)
      OBVIOUS
    <3> HIDE DEF n
    <3>1. axis \in Seq(Ids)
      BY <1>4, AxisFacts
    <3>2. DOMAIN axis = 1 .. n /\ (n >= 1 => axis[1] = 1)
      BY <1>1 DEF n
    <3>3. Len(axis) = n /\ n # 0
      BY <1>1, <3>1, <3>2, LengthIs, LenProperties
    <3>4. 1 \in 1 .. Len(axis) /\ axis[1] = 1
      BY <1>1, <3>2, <3>3
    <3>5. \A id : Has(axis, id) <=> \E i \in 1 .. Len(axis) : axis[i] = id
      BY ONLY <3>1, HasIs
    <3> QED BY <3>4, <3>5
  <2> QED BY <2>1, <2>2 DEF CursorOK
<1>6. ViewOK
  <2>1. DefaultAnchor \in Anchor /\ DefaultAnchor.id = NoId
    BY DEF DefaultAnchor, Anchor, NoId
  <2>2. view = [anchor |-> DefaultAnchor, height |-> height]
    OBVIOUS
  <2> QED BY <1>1, <2>1, <2>2 DEF ViewOK
<1>7. EditorOK
  BY DEF EditorOK, Open
<1>8. BoardOK
  BY <1>1 DEF BoardOK
<1>9. GestureOK
  BY DEF GestureOK
<1> QED BY <1>4, <1>5, <1>6, <1>7, <1>8, <1>9 DEF IInv

\* A slot on screen is a row of the sheet.
LEMMA ShownIs ==
    ASSUME IInv, NEW slot \in Shown
    PROVE  /\ slot.index \in 0 .. Len(axis) - 1 /\ slot.id = IdAt(axis, slot.index)
           /\ Has(axis, slot.id) /\ slot.id \in Ids
<1>1. Order(Ids, axis)
  BY AxisFacts DEF IInv
<1>2. view.anchor \in Anchor /\ view.height \in Nat
  BY ShellAssumption DEF IInv, ViewOK
<1>3. slot \in Visible(axis, view.anchor, view.height)
  BY DEF Shown
<1> QED BY ONLY <1>1, <1>2, <1>3, SlotIs

LEMMA MoveKeeps ==
    ASSUME IInv, NEW step \in Steps, NEW extend \in BOOLEAN, MoveCursor(step, extend)
    PROVE  IInv'
<1>1. Commit /\ UNCHANGED <<axis, board, pointer>>
  BY DEF MoveCursor
<1>2. DocOK' /\ EditorOK' /\ BoardOK' /\ GestureOK'
  BY <1>1, Committed, KeepsBoard, KeepsGesture DEF IInv
<1>3. CASE axis = <<>>
  <2>1. UNCHANGED <<cursor, view>>
    BY <1>3 DEF MoveCursor
  <2>2. CursorOK' /\ ViewOK'
    BY <1>1, <2>1, KeepsCursor, KeepsView DEF IInv
  <2> QED BY <1>2, <2>2 DEF IInv
<1>4. CASE axis # <<>>
  <2> DEFINE row == IdAt(axis, Reached(step, ActiveIndex))
             delta == ScrollNeeded(axis, view.anchor, view.height, row)
  <2>1. /\ active' = row
        /\ anchor' = IF extend THEN anchor ELSE row
        /\ view' = IF delta = 0 THEN view
                   ELSE [view EXCEPT !.anchor = Scrolled(axis, @, delta, view.height)]
    BY <1>4 DEF MoveCursor
  <2>2. Order(Ids, axis) /\ axis \in Seq(Ids)
    BY AxisFacts DEF IInv
  <2>3. Has(axis, row) /\ row \in Ids
    <3>1. Reached(step, ActiveIndex) \in 0 .. Len(axis) - 1
      BY <1>4, ReachedIs
    <3> DEFINE n == Reached(step, ActiveIndex)
    <3> HIDE DEF n
    <3>2. Has(axis, IdAt(axis, n)) /\ IdAt(axis, n) \in Ids
      BY <2>2, <3>1, IndexAt DEF n
    <3> QED BY <3>2 DEF n
  <2> HIDE DEF row
  <2>4. CursorOK'
    BY <1>1, <2>1, <2>3 DEF IInv, CursorOK
  <2>5. ViewOK'
    <3>1. /\ view = [anchor |-> view.anchor, height |-> view.height]
          /\ view.anchor \in Anchor /\ view.height \in Heights /\ view.height \in Nat
      BY ShellAssumption DEF IInv, ViewOK
    <3>2. delta \in Int
      BY <2>2, <3>1, NeededInt
    <3> HIDE DEF delta
    <3> DEFINE new == Scrolled(axis, view.anchor, delta, view.height)
    <3>3. new \in Anchor /\ (new.id # NoId => Has(axis, new.id))
      BY <2>2, <3>1, <3>2, ScrolledTo
    <3> HIDE DEF new
    <3>4. view' = view \/ view' = [view EXCEPT !.anchor = new]
      BY <2>1 DEF new
    <3>5. view' = view \/ view' = [anchor |-> new, height |-> view.height]
      BY <3>1, <3>4
    <3> QED BY <1>1, <3>1, <3>3, <3>5 DEF IInv, ViewOK
  <2> QED BY <1>2, <2>4, <2>5 DEF IInv
<1> QED BY <1>3, <1>4

-----------------------------------------------------------------------------
(* The editor.                                                             *)

LEMMA OpenedIs ==
    ASSUME IInv, NEW text \in Texts
    PROVE  /\ Opened(text) \in Editors /\ Opened(text).caret <= Len(Opened(text).text)
           /\ axis # <<>> => Has(axis, Opened(text).row)
           /\ Opened(text).text = text /\ Opened(text).caret = Len(text)
<1>1. text \in Seq(Int) /\ Len(text) \in Nat /\ <<>> \in Seq(Int)
  BY LenProperties DEF Texts
<1>2. active \in Ids /\ (axis # <<>> => Has(axis, active))
  BY DEF IInv, CursorOK
<1> QED BY <1>1, <1>2 DEF Opened, Editors

\* What the input method edits.
LEMMA EditingIs ==
    ASSUME IInv
    PROVE  /\ Editing \in Editors /\ Editing.caret <= Len(Editing.text)
           /\ axis # <<>> => Has(axis, Editing.row)
           /\ Open => Editing = editor
<1>1. <<>> \in Texts
  BY BlankText DEF Blank
<1> QED BY <1>1, OpenedIs DEF IInv, EditorOK, Editing

LEMMA EditorKeeps ==
    ASSUME IInv, NEW e \in Editors, editor' = e, e.caret <= Len(e.text),
           axis # <<>> => Has(axis, e.row),
           UNCHANGED <<doc, view, active, board, pointer>>, anchor' \in {anchor, active}
    PROVE  IInv'
<1>1. axis' = axis
  BY DEF doc
<1>2. DocOK' /\ ViewOK' /\ BoardOK' /\ GestureOK'
  BY <1>1, KeepsDoc, KeepsView, KeepsBoard, KeepsGesture DEF IInv
<1>3. CursorOK'
  BY <1>1 DEF IInv, CursorOK
<1>4. EditorOK'
  BY <1>1 DEF EditorOK
<1> QED BY <1>2, <1>3, <1>4 DEF IInv

\* An open editor and its fields.
LEMMA EditorIs ==
    ASSUME IInv, Open
    PROVE  /\ editor = [row |-> editor.row, text |-> editor.text, caret |-> editor.caret,
                        preedit |-> editor.preedit]
           /\ editor.row \in Ids /\ editor.text \in Texts /\ editor.text \in Seq(Int)
           /\ Len(editor.text) \in Nat /\ Len(editor.text) <= MaxText
           /\ editor.caret \in Nat /\ editor.caret <= Len(editor.text)
           /\ editor.preedit \in Seq(Int)
           /\ axis # <<>> => Has(axis, editor.row)
           /\ editor \in Editors
<1>1. editor \in Editors /\ editor.caret <= Len(editor.text)
      /\ (axis # <<>> => Has(axis, editor.row))
  BY DEF IInv, EditorOK
<1> QED BY <1>1, LenProperties DEF Editors, Texts

LEMMA BeginEditKeeps ==
    ASSUME IInv, NEW text \in Texts, BeginEdit(text)
    PROVE  IInv'
<1>1. /\ editor' = Opened(text) /\ anchor' = active
      /\ UNCHANGED <<doc, view, active, board, pointer>>
  BY DEF BeginEdit
<1> QED BY <1>1, OpenedIs, EditorKeeps

LEMMA EditToKeeps ==
    ASSUME IInv, Open, NEW text \in Texts, NEW caret \in Nat, caret <= Len(text),
           EditTo(text, caret)
    PROVE  IInv'
<1> DEFINE e == [row |-> editor.row, text |-> text, caret |-> caret,
                 preedit |-> editor.preedit]
<1>1. editor' = [editor EXCEPT !.text = text, !.caret = caret]
      /\ UNCHANGED <<doc, view, cursor, board, pointer>>
  BY DEF EditTo
<1>2. editor' = e
  BY <1>1, EditorIs
<1>3. e \in Editors /\ e.caret <= Len(e.text) /\ (axis # <<>> => Has(axis, e.row))
  BY EditorIs DEF Editors
<1>4. UNCHANGED <<doc, view, active, board, pointer>> /\ anchor' \in {anchor, active}
  BY <1>1 DEF cursor
<1> HIDE DEF e
<1> QED BY <1>2, <1>3, <1>4, EditorKeeps

LEMMA CharText == ASSUME NEW char \in Keys PROVE <<char>> \in Texts /\ <<char>> \in Seq(Int)
                                                /\ Len(<<char>>) = 1
BY ShellAssumption DEF Texts

LEMMA InsertKeeps == ASSUME IInv, NEW char \in Keys, Insert(char) PROVE IInv'
<1> DEFINE text == Spliced(editor.text, editor.caret, editor.caret, <<char>>)
<1>1. Open /\ Len(editor.text) < MaxText /\ EditTo(text, editor.caret + 1)
  BY DEF Insert, EditKey
<1>2. <<char>> \in Seq(Int) /\ Len(<<char>>) = 1
  BY CharText
<1>3. text \in Seq(Int) /\ Len(text) = Len(editor.text) - (editor.caret - editor.caret) + 1
  <2> DEFINE from == editor.caret
             to == editor.caret
  <2>1. editor.text \in Seq(Int) /\ from \in Nat /\ to \in Nat /\ from <= to
        /\ to <= Len(editor.text)
    BY <1>1, <1>2, EditorIs
  <2> HIDE DEF from, to
  <2>2. Spliced(editor.text, from, to, <<char>>) \in Seq(Int)
        /\ Len(Spliced(editor.text, from, to, <<char>>)) = Len(editor.text) - (to - from) + Len(<<char>>)
    BY <1>2, <2>1, SplicedText
  <2> QED BY <1>2, <2>2 DEF from, to
<1> HIDE DEF text
<1>4. /\ Len(editor.text) \in Nat /\ Len(editor.text) <= MaxText
      /\ editor.caret \in Nat /\ editor.caret <= Len(editor.text) /\ MaxText \in Nat
  BY <1>1, EditorIs, ShellAssumption
<1>5. text \in Texts /\ editor.caret + 1 \in Nat /\ editor.caret + 1 <= Len(text)
  BY <1>1, <1>3, <1>4 DEF Texts
<1> QED BY <1>1, <1>5, EditToKeeps

LEMMA BackspaceKeeps == ASSUME IInv, Backspace PROVE IInv'
<1> DEFINE text == Spliced(editor.text, editor.caret - 1, editor.caret, <<>>)
<1>1. Open /\ editor.caret > 0 /\ EditTo(text, editor.caret - 1)
  BY DEF Backspace, EditKey
<1>2. <<>> \in Seq(Int) /\ Len(<<>>) = 0
  BY EmptySeq
<1>3. editor.caret - 1 \in Nat /\ editor.caret - 1 <= editor.caret
  BY <1>1, EditorIs
<1>4. text \in Seq(Int)
      /\ Len(text) = Len(editor.text) - (editor.caret - (editor.caret - 1)) + 0
  <2> DEFINE from == editor.caret - 1
             to == editor.caret
  <2>1. editor.text \in Seq(Int) /\ from \in Nat /\ to \in Nat /\ from <= to
        /\ to <= Len(editor.text)
    BY <1>1, <1>3, EditorIs
  <2> HIDE DEF from, to
  <2>2. Spliced(editor.text, from, to, <<>>) \in Seq(Int)
        /\ Len(Spliced(editor.text, from, to, <<>>)) = Len(editor.text) - (to - from) + Len(<<>>)
    BY <1>2, <2>1, SplicedText
  <2> QED BY <1>2, <2>2 DEF from, to
<1> HIDE DEF text
<1>5. /\ Len(editor.text) \in Nat /\ Len(editor.text) <= MaxText
      /\ editor.caret \in Nat /\ editor.caret <= Len(editor.text) /\ MaxText \in Nat
  BY <1>1, EditorIs, ShellAssumption
<1>6. text \in Texts /\ editor.caret - 1 <= Len(text)
  BY <1>1, <1>4, <1>5 DEF Texts
<1> QED BY <1>1, <1>3, <1>6, EditToKeeps

LEMMA DeleteForwardKeeps == ASSUME IInv, DeleteForward PROVE IInv'
<1> DEFINE text == Spliced(editor.text, editor.caret, editor.caret + 1, <<>>)
<1>1. Open /\ editor.caret < Len(editor.text) /\ EditTo(text, editor.caret)
  BY DEF DeleteForward, EditKey
<1>2. <<>> \in Seq(Int) /\ Len(<<>>) = 0
  BY EmptySeq
<1>3. editor.caret + 1 \in Nat /\ editor.caret + 1 <= Len(editor.text)
      /\ editor.caret <= editor.caret + 1
  BY <1>1, EditorIs
<1>4. text \in Seq(Int)
      /\ Len(text) = Len(editor.text) - 1 + 0
  <2> DEFINE from == editor.caret
             to == editor.caret + 1
  <2>1. editor.text \in Seq(Int) /\ from \in Nat /\ to \in Nat /\ from <= to
        /\ to <= Len(editor.text)
    BY <1>1, <1>3, EditorIs
  <2> HIDE DEF from, to
  <2>2. Spliced(editor.text, from, to, <<>>) \in Seq(Int)
        /\ Len(Spliced(editor.text, from, to, <<>>)) = Len(editor.text) - (to - from) + Len(<<>>)
    BY <1>2, <2>1, SplicedText
  <2>3. Spliced(editor.text, from, to, <<>>) = text
    BY DEF from, to
  <2> HIDE DEF text
  <2>4. to - from = 1
    BY <2>1 DEF from, to
  <2>5. Len(text) = Len(editor.text) - 1 + 0
    BY <1>2, <2>2, <2>3, <2>4
  <2> QED BY <2>2, <2>3, <2>5
<1> HIDE DEF text
<1>5. /\ Len(editor.text) \in Nat /\ Len(editor.text) <= MaxText
      /\ editor.caret \in Nat /\ editor.caret <= Len(editor.text) /\ MaxText \in Nat
  BY <1>1, EditorIs, ShellAssumption
<1>6. text \in Texts /\ editor.caret <= Len(text) /\ editor.caret \in Nat
  BY <1>1, <1>3, <1>4, <1>5 DEF Texts
<1> QED BY <1>1, <1>6, EditToKeeps

LEMMA CaretKeeps == ASSUME IInv, NEW at \in 0 .. MaxText, CaretTo(at) PROVE IInv'
<1>1. Open /\ EditTo(editor.text, at)
      /\ at \in {Max({0, editor.caret - 1}), Min({editor.caret + 1, Len(editor.text)}),
                 0, Len(editor.text)}
  BY DEF CaretTo, EditKey
<1>2. Max({0, editor.caret - 1}) = IF 0 >= editor.caret - 1 THEN 0 ELSE editor.caret - 1
  <2> DEFINE m == editor.caret - 1
  <2>1. m \in Int
    BY <1>1, EditorIs
  <2> HIDE DEF m
  <2>2. Max({0, m}) = IF 0 >= m THEN 0 ELSE m
    BY <2>1, MaxPair
  <2> QED BY <2>2 DEF m
<1>3. Min({editor.caret + 1, Len(editor.text)})
        = IF editor.caret + 1 <= Len(editor.text) THEN editor.caret + 1 ELSE Len(editor.text)
  <2> DEFINE m == editor.caret + 1
             k == Len(editor.text)
  <2>1. m \in Int /\ k \in Int
    BY <1>1, EditorIs
  <2> HIDE DEF m, k
  <2>2. Min({m, k}) = IF m <= k THEN m ELSE k
    BY <2>1, MinPair
  <2> QED BY <2>2 DEF m, k
<1>4. at \in Nat /\ at <= Len(editor.text) /\ editor.text \in Texts
  BY <1>1, <1>2, <1>3, EditorIs
<1> QED BY <1>1, <1>4, EditToKeeps

LEMMA CancelKeeps == ASSUME IInv, Cancel PROVE IInv'
<1>1. UNCHANGED <<doc, view, active, board, pointer>>
  BY DEF Cancel
<1>2. CASE Composing
  <2> DEFINE e == [row |-> editor.row, text |-> editor.text, caret |-> editor.caret,
                   preedit |-> <<>>]
  <2>1. Open /\ editor' = [editor EXCEPT !.preedit = <<>>] /\ anchor' = anchor
    BY <1>2 DEF Cancel, Composing
  <2>2. editor' = e
    BY <2>1, EditorIs
  <2>3. e \in Editors /\ e.caret <= Len(e.text) /\ (axis # <<>> => Has(axis, e.row))
    BY <2>1, EditorIs, EmptySeq DEF Editors
  <2> HIDE DEF e
  <2> QED BY <1>1, <2>1, <2>2, <2>3, EditorKeeps
<1>3. CASE ~ Composing
  <2>1. editor' = None /\ anchor' \in {anchor, active}
    BY <1>3 DEF Cancel
  <2>2. DocOK' /\ ViewOK' /\ BoardOK' /\ GestureOK'
    BY <1>1, KeepsDoc, KeepsView, KeepsBoard, KeepsGesture DEF IInv, doc
  <2>3. CursorOK' /\ EditorOK'
    BY <1>1, <2>1 DEF IInv, CursorOK, EditorOK, Open, doc
  <2> QED BY <2>2, <2>3 DEF IInv
<1> QED BY <1>2, <1>3

LEMMA PreeditKeeps == ASSUME IInv, NEW text \in Texts, Preedit(text) PROVE IInv'
<1> DEFINE e == [row |-> Editing.row, text |-> Editing.text, caret |-> Editing.caret,
                 preedit |-> text]
<1>1. /\ editor' = [Editing EXCEPT !.preedit = text]
      /\ UNCHANGED <<doc, view, active, board, pointer>> /\ anchor' \in {anchor, active}
  BY DEF Preedit, Anchored
<1>2. Editing \in Editors /\ Editing.caret <= Len(Editing.text)
      /\ (axis # <<>> => Has(axis, Editing.row))
  BY EditingIs
<1>3. editor' = e /\ e \in Editors /\ e.caret <= Len(e.text)
      /\ (axis # <<>> => Has(axis, e.row))
  BY <1>1, <1>2 DEF Editors, Texts
<1> HIDE DEF e
<1> QED BY <1>1, <1>3, EditorKeeps

LEMMA WithdrawnKeeps == ASSUME IInv, PreeditWithdrawn PROVE IInv'
<1> DEFINE e == [row |-> editor.row, text |-> editor.text, caret |-> editor.caret,
                 preedit |-> <<>>]
<1>1. /\ Open /\ editor' = [editor EXCEPT !.preedit = <<>>]
      /\ UNCHANGED <<doc, view, cursor, board, pointer>>
  BY DEF PreeditWithdrawn, Composing
<1>2. editor' = e
  BY <1>1, EditorIs
<1>3. e \in Editors /\ e.caret <= Len(e.text) /\ (axis # <<>> => Has(axis, e.row))
  BY <1>1, EditorIs, EmptySeq DEF Editors
<1> HIDE DEF e
<1>4. UNCHANGED <<doc, view, active, board, pointer>> /\ anchor' \in {anchor, active}
  BY <1>1 DEF cursor
<1> QED BY <1>2, <1>3, <1>4, EditorKeeps

LEMMA ImeCommitKeeps == ASSUME IInv, NEW text \in Texts, ImeCommit(text) PROVE IInv'
<1> DEFINE new == Spliced(Editing.text, Editing.caret, Editing.caret, text)
           e == [row |-> Editing.row, text |-> new, caret |-> Editing.caret + Len(text),
                 preedit |-> <<>>]
<1>1. /\ Len(Editing.text) + Len(text) <= MaxText
      /\ editor' = [Editing EXCEPT
                      !.text = Spliced(@, Editing.caret, Editing.caret, text),
                      !.caret = @ + Len(text), !.preedit = <<>>]
      /\ UNCHANGED <<doc, view, active, board, pointer>> /\ anchor' \in {anchor, active}
  BY DEF ImeCommit, Anchored
<1>2. Editing \in Editors /\ Editing.caret <= Len(Editing.text)
      /\ (axis # <<>> => Has(axis, Editing.row))
  BY EditingIs
<1>3. Editing.text \in Seq(Int) /\ Editing.caret \in Nat /\ text \in Seq(Int)
      /\ Len(text) \in Nat /\ Len(Editing.text) \in Nat /\ Editing.row \in Ids
  BY <1>2, LenProperties DEF Editors, Texts
<1>4. new \in Seq(Int)
      /\ Len(new) = Len(Editing.text) - (Editing.caret - Editing.caret) + Len(text)
  <2> DEFINE old == Editing.text
             at == Editing.caret
  <2>1. old \in Seq(Int) /\ at \in Nat /\ at <= at /\ at <= Len(old)
    BY <1>2, <1>3
  <2> HIDE DEF old, at
  <2>2. Spliced(old, at, at, text) \in Seq(Int)
        /\ Len(Spliced(old, at, at, text)) = Len(old) - (at - at) + Len(text)
    BY <1>3, <2>1, SplicedText
  <2> QED BY <2>2 DEF old, at
<1>5. editor' = e
  <2>1. editor' = [Editing EXCEPT !.text = new, !.caret = @ + Len(text), !.preedit = <<>>]
    BY <1>1
  <2> HIDE DEF new
  <2>2. Editing = [row |-> Editing.row, text |-> Editing.text, caret |-> Editing.caret,
                   preedit |-> Editing.preedit]
    BY <1>2 DEF Editors
  <2> QED BY <2>1, <2>2
<1> HIDE DEF new
<1>6. new \in Texts /\ Editing.caret + Len(text) \in Nat
      /\ Editing.caret + Len(text) <= Len(new)
  BY <1>1, <1>2, <1>3, <1>4 DEF Texts
<1>7. e \in Editors /\ e.caret <= Len(e.text) /\ (axis # <<>> => Has(axis, e.row))
  BY <1>2, <1>3, <1>6, EmptySeq DEF Editors
<1> HIDE DEF e
<1> QED BY <1>1, <1>5, <1>7, EditorKeeps

\* A step that leaves the sheet's rows, the cursor, the viewport and the editor alone.
LEMMA BookKeeps ==
    ASSUME IInv, BookOK(book'), book'.rows = book.rows,
           UNCHANGED <<axis, view, cursor, editor, pointer>>, BoardOK'
    PROVE  IInv'
<1>1. DocOK'
  BY NewDoc DEF IInv
<1>2. CursorOK' /\ ViewOK' /\ EditorOK' /\ GestureOK'
  BY KeepsCursor, KeepsView, KeepsEditor, KeepsGesture DEF IInv
<1> QED BY <1>1, <1>2 DEF IInv

LEMMA ClearKeeps == ASSUME IInv, ClearSelection PROVE IInv'
<1>1. /\ Selection # None /\ book' = ApplyAll(book, ClearCommands(Selection))
      /\ UNCHANGED <<axis, view, cursor, editor, board, pointer>>
  BY DEF ClearSelection
<1>2. Selection \in Nat \X Nat
  BY <1>1, SelectionIs DEF Spans
<1>3. BookOK(book') /\ book'.rows = book.rows
  <2>1. Written(ClearCommands(Selection))
    BY <1>2, ClearsWritten
  <2> QED BY <1>1, <2>1, WritesApplied DEF IInv, DocOK
<1>4. BoardOK'
  BY <1>1, KeepsBoard DEF IInv
<1> QED BY <1>1, <1>3, <1>4, BookKeeps

\* A text but for its last row.
LEMMA ShorterText ==
    ASSUME NEW S, NEW text \in Seq(S), text # <<>>
    PROVE  Front(text) \in Seq(S)
<1>1. Len(text) \in Nat /\ Len(text) # 0 /\ DOMAIN text = 1 .. Len(text)
  BY LenProperties, EmptySeq
<1>2. Front(text) = SubSeq(text, 1, Len(text) - 1)
  BY DEF Front
<1> QED BY <1>1, <1>2, SubSeqProperties

\* What is copied: the cells and the rows they are in.
LEMMA Copied ==
    ASSUME IInv, NEW cutting \in BOOLEAN, NEW refused \in BOOLEAN, Copy(cutting, refused)
    PROVE  /\ mine' \in Blocks /\ mine'.translate = ~ cutting
           /\ mine'.origin = Selection[1] /\ Selection # None
           /\ Len(mine'.ids) = Len(mine'.cells)
           /\ Len(mine'.ids) = Selection[2] - Selection[1] + 1
<1> DEFINE first == Selection[1]
           size == Selection[2] - Selection[1] + 1
           cells == [i \in 1 .. size |-> ClipCell(book, axis, Selection[1] + i - 1)]
           ids == [i \in 1 .. size |-> IdAt(axis, Selection[1] + i - 1)]
<1> DEFINE text(shows) == [i \in 1 .. size |->
                            IF IsFormula(ClipCell(book, axis, Selection[1] + i - 1)) THEN shows[i]
                            ELSE ClipCell(book, axis, Selection[1] + i - 1)]
<1>1. PICK shows \in [1 .. size -> Results] :
        /\ Selection # None
        /\ mine' = [cells |-> cells, origin |-> first, translate |-> ~ cutting, ids |-> ids,
                    text |-> text(shows)]
  BY DEF Copy
<1>2. Selection \in Spans /\ Selection[2] < Len(axis)
  BY <1>1, SelectionIs
<1>3. first \in Nat /\ size \in Nat /\ first + size <= Len(axis) /\ Len(axis) \in Nat
  <2>1. Selection[1] \in Nat /\ Selection[2] \in Nat /\ Selection[1] <= Selection[2]
    BY <1>2 DEF Spans
  <2> QED BY <1>2, <2>1, AxisFacts DEF IInv
<1>4. /\ cells = [i \in 1 .. size |-> ClipCell(book, axis, first + i - 1)]
      /\ ids = [i \in 1 .. size |-> IdAt(axis, first + i - 1)]
      /\ text(shows) = [i \in 1 .. size |->
                          IF IsFormula(ClipCell(book, axis, first + i - 1)) THEN shows[i]
                          ELSE ClipCell(book, axis, first + i - 1)]
      /\ \A i \in 1 .. size : shows[i] \in Texts
  BY ShellAssumption
<1> HIDE DEF first, size, cells, ids, text
<1>5. cells \in Seq(Texts) /\ Len(cells) = size /\ text(shows) \in Seq(Texts)
  <2>1. \A i \in 1 .. size : ClipCell(book, axis, first + i - 1) \in Texts
    <3> SUFFICES ASSUME NEW i \in 1 .. size
                 PROVE  ClipCell(book, axis, first + i - 1) \in Texts
      OBVIOUS
    <3> DEFINE n == first + i - 1
    <3>1. n \in Nat
      BY <1>3
    <3> HIDE DEF n
    <3>2. ClipCell(book, axis, n) \in Texts
      BY <3>1, ClippedText DEF IInv, DocOK
    <3> QED BY <3>2 DEF n
  <2>2. cells \in Seq(Texts) /\ Len(cells) = size
    BY <1>3, <1>4, <2>1, IsASeq, LenProperties
  <2>3. \A i \in 1 .. size : (IF IsFormula(ClipCell(book, axis, first + i - 1)) THEN shows[i]
                              ELSE ClipCell(book, axis, first + i - 1)) \in Texts
    BY <1>4, <2>1
  <2>4. text(shows) \in Seq(Texts)
    BY <1>3, <1>4, <2>3, IsASeq
  <2> QED BY <2>2, <2>4
<1>6. ids \in Seq(Ids) /\ Len(ids) = size
  <2>1. \A i \in 1 .. size : IdAt(axis, first + i - 1) \in Ids
    <3> SUFFICES ASSUME NEW i \in 1 .. size
                 PROVE  IdAt(axis, first + i - 1) \in Ids
      OBVIOUS
    <3> DEFINE n == first + i - 1
    <3>1. n \in 0 .. Len(axis) - 1
      BY <1>3
    <3> HIDE DEF n
    <3>2. IdAt(axis, n) \in Ids
      BY <3>1, AxisFacts, IndexAt DEF IInv
    <3> QED BY <3>2 DEF n
  <2> QED BY <1>3, <1>4, <2>1, IsASeq, LenProperties
<1>7. /\ mine'.cells = cells /\ mine'.ids = ids /\ mine'.translate = ~ cutting
      /\ mine'.origin = first /\ mine' \in Blocks
  BY <1>1, <1>3, <1>5, <1>6 DEF Blocks
<1> QED BY <1>1, <1>5, <1>6, <1>7 DEF first, size

LEMMA CopyKeeps ==
    ASSUME IInv, NEW cutting \in BOOLEAN, NEW refused \in BOOLEAN, Copy(cutting, refused)
    PROVE  IInv'
<1>1. Selection # None /\ cut' = (IF cutting THEN Selection ELSE None)
      /\ UNCHANGED <<doc, view, cursor, editor, pointer>>
  BY DEF Copy
<1>2. Selection \in Spans
  BY <1>1, SelectionIs
<1>3. BoardOK'
  <2>1. mine' \in Blocks /\ Len(mine'.ids) = Len(mine'.cells) /\ mine'.translate = ~ cutting
        /\ mine'.origin = Selection[1] /\ Len(mine'.ids) = Selection[2] - Selection[1] + 1
    BY Copied
  <2>2. cut' = None \/ cut' \in Spans
    BY <1>1, <1>2
  <2>3. Selection = <<Selection[1], Selection[1] + (Selection[2] - Selection[1] + 1) - 1>>
    <3>1. Selection[1] \in Nat /\ Selection[2] \in Nat
          /\ Selection = <<Selection[1], Selection[2]>>
      BY <1>2 DEF Spans
    <3> DEFINE a == Selection[1]
               b == Selection[2]
    <3>2. a + (b - a + 1) - 1 = b
      BY <3>1
    <3> QED BY <3>1, <3>2
  <2>4. ~ mine'.translate => cut' = <<mine'.origin, mine'.origin + Len(mine'.ids) - 1>>
    BY <1>1, <2>1, <2>3
  <2>5. os' \in [there : BOOLEAN, text : Seq(Texts)]
    <3>1. os \in [there : BOOLEAN, text : Seq(Texts)]
      BY DEF IInv, BoardOK
    <3>2. os' = IF os.there /\ ~refused THEN [os EXCEPT !.text = mine'.text] ELSE os
      BY DEF Copy
    <3>3. mine'.text \in Seq(Texts)
      BY <2>1 DEF Blocks
    <3> QED BY <3>1, <3>2, <3>3
  <2> QED BY <2>1, <2>2, <2>4, <2>5 DEF BoardOK
<1>4. BookOK(book') /\ book'.rows = book.rows
      /\ UNCHANGED <<axis, view, cursor, editor, pointer>>
  BY <1>1 DEF doc, IInv, DocOK
<1> QED BY <1>3, <1>4, BookKeeps

LEMMA ForeignKeeps == ASSUME IInv, NEW word \in Foreign, ForeignCopy(word) PROVE IInv'
<1>1. /\ os' = [os EXCEPT !.text = <<word>>]
      /\ UNCHANGED <<doc, view, cursor, editor, mine, cut, pointer>>
  BY DEF ForeignCopy
<1>2. BoardOK'
  <2>1. <<word>> \in Seq(Texts)
    BY ShellAssumption
  <2>2. os' \in [there : BOOLEAN, text : Seq(Texts)]
    BY <1>1, <2>1 DEF IInv, BoardOK
  <2> QED BY <1>1, <2>2 DEF BoardOK, IInv
<1>3. BookOK(book') /\ book'.rows = book.rows
      /\ UNCHANGED <<axis, view, cursor, editor, pointer>>
  BY <1>1 DEF doc, IInv, DocOK
<1> QED BY <1>2, <1>3, BookKeeps

\* What a paste takes is a block, and a cut one only if it was copied here last.
LEMMA ClipIs ==
    ASSUME BoardOK
    PROVE  /\ clip = None \/ clip \in Blocks
           /\ clip # None /\ ~ clip.translate => clip = mine /\ mine # None
<1>1. Fields(os.text) \in Seq(Texts) /\ os.text \in Seq(Texts) /\ os.there \in BOOLEAN
  <2>1. os.text \in Seq(Texts) /\ os.there \in BOOLEAN
    BY DEF BoardOK
  <2>2. os.text # <<>> => Front(os.text) \in Seq(Texts)
    BY <2>1, ShorterText
  <2> QED BY <2>1, <2>2 DEF Fields
<1>2. CASE mine # None /\ (~ os.there \/ os.text = mine.text)
  <2>1. clip = mine
    BY <1>2 DEF clip
  <2> QED BY <1>2, <2>1 DEF BoardOK
<1>3. CASE ~ (mine # None /\ (~ os.there \/ os.text = mine.text)) /\ Fields(os.text) = <<>>
  <2>1. clip = None
    BY <1>3 DEF clip
  <2> QED BY <2>1
<1>4. CASE ~ (mine # None /\ (~ os.there \/ os.text = mine.text)) /\ Fields(os.text) # <<>>
  <2>1. clip = [cells |-> Fields(os.text), origin |-> 0, translate |-> TRUE, ids |-> <<>>,
                text |-> os.text]
    BY <1>4 DEF clip
  <2>2. <<>> \in Seq(Ids) /\ 0 \in Nat
    OBVIOUS
  <2>3. clip \in Blocks /\ clip.translate = TRUE
    BY <1>1, <2>1, <2>2 DEF Blocks
  <2> QED BY <2>3
<1> QED BY <1>2, <1>3, <1>4

LEMMA ActiveIndexNat ==
    ASSUME IInv
    PROVE  ActiveIndex \in Nat /\ (axis # <<>> => ActiveIndex \in 0 .. Len(axis) - 1)
<1>1. axis \in Seq(Ids)
  BY AxisFacts DEF IInv
<1> QED BY <1>1, Index0Is DEF ActiveIndex

LEMMA PastedIs ==
    ASSUME IInv, clip # None
    PROVE  BookOK(Pasted) /\ Pasted.rows = book.rows
<1> DEFINE cleared == IF cut = None THEN book ELSE ApplyAll(book, ClearCommands(cut))
<1>1. BookOK(cleared) /\ cleared.rows = book.rows
  <2>1. BookOK(book)
    BY DEF IInv, DocOK
  <2>2. CASE cut = None
    BY <2>1, <2>2
  <2>3. CASE cut # None
    <3>1. Written(ClearCommands(cut))
      BY <2>3, ClearsWritten DEF IInv, BoardOK, Spans
    <3>2. cleared = ApplyAll(book, ClearCommands(cut))
      BY <2>3
    <3> QED BY <2>1, <3>1, <3>2, WritesApplied
  <2> QED BY <2>2, <2>3
<1> HIDE DEF cleared
<1>2. Written(PasteCommands(axis, clip, ActiveIndex))
  BY AxisFacts, ActiveIndexNat, PasteWritten, ClipIs DEF IInv
<1>3. Pasted = ApplyAll(cleared, PasteCommands(axis, clip, ActiveIndex))
  BY DEF Pasted, cleared
<1> QED BY <1>1, <1>2, <1>3, WritesApplied

LEMMA PasteKeeps == ASSUME IInv, Paste PROVE IInv'
<1>1. clip # None /\ book' = Pasted /\ cut' = None
      /\ UNCHANGED <<axis, view, cursor, editor, mine, os, pointer>>
  BY DEF Paste
<1>2. BookOK(book') /\ book'.rows = book.rows
  BY <1>1, PastedIs
<1>3. BoardOK'
  BY <1>1 DEF IInv, BoardOK
<1> QED BY <1>1, <1>2, <1>3, BookKeeps

-----------------------------------------------------------------------------
(* The sheet's shape.                                                      *)

LEMMA RefoundIs ==
    ASSUME IInv, NEW to, Order(Ids, to), NEW row \in Ids
    PROVE  /\ Refound(row, to) \in Ids
           /\ to # <<>> => Has(to, Refound(row, to))
           /\ Has(to, row) => Refound(row, to) = row
<1>1. CASE Has(to, row) \/ to = <<>>
  BY <1>1 DEF Refound
<1>2. CASE ~ Has(to, row) /\ to # <<>>
  <2> DEFINE i == IndexOr0(axis, row)
             k == Len(to) - 1
  <2>1. i \in Nat
    BY AxisFacts, Index0Is DEF IInv
  <2>2. k \in Nat
    BY <1>2, LengthIs DEF Order
  <2>3. Refound(row, to) = IdAt(to, Min({i, k}))
    BY <1>2 DEF Refound
  <2>4. k = Len(to) - 1
    OBVIOUS
  <2> HIDE DEF i, k
  <2> DEFINE n == Min({i, k})
  <2>5. n \in 0 .. Len(to) - 1
    BY <2>1, <2>2, <2>4, MinPair
  <2> HIDE DEF n
  <2>6. Has(to, IdAt(to, n)) /\ IdAt(to, n) \in Ids
    BY <2>5, IndexAt
  <2> QED BY <1>2, <2>3, <2>6 DEF n
<1> QED BY <1>1, <1>2

LEMMA RebuiltKeeps ==
    ASSUME IInv, ~ Open, BookOK(book'), Rebuilt
    PROVE  IInv' /\ Order(Ids, axis')
<1> DEFINE to == LiveOrder(book'.rows)
<1>1. /\ axis' = to
      /\ view' = [view EXCEPT !.anchor = Reanchored(to, axis, @)]
      /\ active' = Refound(active, to) /\ anchor' = Refound(anchor, to)
      /\ UNCHANGED <<editor, board, pointer>>
  BY DEF Rebuilt
<1>2. Order(Ids, to)
  <2>1. Order(IdsOf(book'.rows), to) /\ IdsOf(book'.rows) \subseteq Ids
    BY OrderOfRows DEF BookOK
  <2> QED BY <2>1 DEF Order
<1>3. DocOK'
  BY <1>1 DEF DocOK
<1> HIDE DEF to
<1>4. CursorOK'
  <2>1. active \in Ids /\ anchor \in Ids
    BY DEF IInv, CursorOK
  <2> QED BY <1>1, <1>2, <2>1, RefoundIs DEF CursorOK
<1>5. ViewOK'
  <2> DEFINE new == Reanchored(to, axis, view.anchor)
  <2>1. view = [anchor |-> view.anchor, height |-> view.height]
        /\ view.anchor \in Anchor /\ view.height \in Heights
    BY DEF IInv, ViewOK
  <2>2. new \in Anchor /\ (new.id # NoId => Has(to, new.id))
    BY <1>2, <2>1, AxisFacts, ReanchoredOK DEF IInv
  <2>3. view' = [view EXCEPT !.anchor = new]
    BY <1>1
  <2> HIDE DEF new
  <2>4. view' = [anchor |-> new, height |-> view.height]
    BY <2>1, <2>3
  <2> QED BY <1>1, <2>1, <2>2, <2>4 DEF ViewOK
<1>6. EditorOK'
  BY <1>1 DEF EditorOK, Open
<1>7. BoardOK' /\ GestureOK'
  BY <1>1, KeepsBoard, KeepsGesture DEF IInv
<1> QED BY <1>1, <1>2, <1>3, <1>4, <1>5, <1>6, <1>7 DEF IInv

\* An edit of the sheet's shape, and the session it leaves.
LEMMA Reshaped ==
    ASSUME IInv,
           \/ \E kind \in {"insert", "delete"} : Restructure(kind)
           \/ \E undoing \in BOOLEAN : History(undoing)
    PROVE  ~ Open /\ BookOK(book') /\ Rebuilt
<1>1. BookOK(book)
  BY DEF IInv, DocOK
<1>2. ASSUME NEW kind \in {"insert", "delete"}, Restructure(kind)
      PROVE  ~ Open /\ BookOK(book') /\ Rebuilt
  <2>1. /\ ~ Open /\ Rebuilt
        /\ ~ Refused(book, Structural(kind, ActiveIndex))
        /\ kind = "insert" => NextRow(book) <= MaxRow
        /\ book' = Apply(book, Structural(kind, ActiveIndex))
    BY <1>2 DEF Restructure, GridKey
  <2>2. ActiveIndex \in Nat
    BY ActiveIndexNat
  <2>3. CASE kind = "insert"
    BY <1>1, <2>1, <2>2, <2>3, RowInserted
  <2>4. CASE kind = "delete"
    BY <1>1, <2>1, <2>2, <2>4, RowDeleted
  <2> QED BY <2>3, <2>4
<1>3. ASSUME NEW undoing \in BOOLEAN, History(undoing)
      PROVE  ~ Open /\ BookOK(book') /\ Rebuilt
  <2>1. /\ ~ Open /\ Rebuilt
        /\ book' = IF undoing THEN Undone(book) ELSE Redone(book)
    BY <1>3 DEF History, GridKey
  <2> QED BY <1>1, <2>1, StepBack, StepForth
<1> QED BY <1>2, <1>3

-----------------------------------------------------------------------------
(* The pointer, the wheel and the window.                                  *)

LEMMA CellKeeps ==
    ASSUME IInv, NEW slot \in Shown, NEW extend \in BOOLEAN, PressCell(slot, extend)
    PROVE  IInv'
<1>1. /\ Commit /\ drag' = SelectDrag /\ pressed' = TRUE
      /\ active' = slot.id /\ anchor' = (IF extend THEN anchor ELSE slot.id)
      /\ UNCHANGED <<axis, view, board>>
  BY DEF PressCell
<1>2. DocOK' /\ EditorOK'
  BY <1>1, Committed
<1>3. CursorOK'
  BY <1>1, ShownIs DEF IInv, CursorOK
<1>4. ViewOK' /\ BoardOK'
  BY <1>1, KeepsView, KeepsBoard DEF IInv
<1>5. GestureOK'
  BY <1>1 DEF GestureOK
<1> QED BY <1>2, <1>3, <1>4, <1>5 DEF IInv

\* A step of the pointer that moves nothing but the gesture.
LEMMA GestureKeeps ==
    ASSUME IInv, UNCHANGED <<doc, view, cursor, editor, board>>, GestureOK'
    PROVE  IInv'
<1>1. axis' = axis
  BY DEF doc
<1> QED BY <1>1, KeepsDoc, KeepsCursor, KeepsView, KeepsEditor, KeepsBoard DEF IInv

LEMMA HandleKeeps == ASSUME IInv, PressHandle PROVE IInv'
<1>1. /\ HandleShown /\ pressed' = TRUE /\ drag' = FillDrag(Selection, None)
      /\ UNCHANGED <<doc, view, cursor, editor, board>>
  BY DEF PressHandle
<1>2. Selection \in Spans
  BY <1>1, SelectionIs DEF HandleShown
<1>3. GestureOK'
  BY <1>1, <1>2 DEF GestureOK
<1> QED BY <1>1, <1>3, GestureKeeps

LEMMA OutsideKeeps == ASSUME IInv, PressOutside PROVE IInv'
<1>1. pressed' = TRUE /\ UNCHANGED <<doc, view, cursor, editor, board, drag>>
  BY DEF PressOutside
<1>2. GestureOK'
  BY <1>1 DEF IInv, GestureOK
<1> QED BY <1>1, <1>2, GestureKeeps

\* A fill's origin and preview.
LEMMA FillIs ==
    ASSUME IInv, drag.kind = "fill"
    PROVE  /\ pressed /\ drag.origin \in Spans /\ drag.preview \in Spans \union {None}
<1>1. NoDrag.kind = "none" /\ SelectDrag.kind = "select"
  BY DEF NoDrag, SelectDrag
<1> QED BY <1>1 DEF IInv, GestureOK, FillDrag

LEMMA TargetOK ==
    ASSUME NEW origin \in Spans, NEW slot, slot.index \in Nat
    PROVE  FillTarget(origin, slot) \in Spans \union {None}
<1>1. origin[1] \in Nat /\ origin[2] \in Nat
  BY DEF Spans
<1> DEFINE a == origin[1]
           b == origin[2]
           i == slot.index
<1>2. FillTarget(origin, slot) = IF i \in a .. b THEN None ELSE <<Min({a, i}), Max({b, i})>>
  BY DEF FillTarget
<1>3. a \in Nat /\ b \in Nat /\ i \in Nat /\ a <= b
  BY <1>1 DEF Spans
<1> HIDE DEF a, b, i
<1>4. Min({a, i}) = (IF a <= i THEN a ELSE i) /\ Max({b, i}) = (IF b >= i THEN b ELSE i)
  BY <1>3, MinPair, MaxPair
<1>5. Min({a, i}) \in Nat /\ Max({b, i}) \in Nat /\ Min({a, i}) <= Max({b, i})
  BY <1>3, <1>4
<1> QED BY <1>2, <1>5 DEF Spans

LEMMA DragKeeps == ASSUME IInv, NEW slot \in Shown, DragTo(slot) PROVE IInv'
<1>1. /\ pressed /\ UNCHANGED <<doc, view, anchor, editor, board, pressed>>
      /\ IF drag.kind = "fill"
         THEN drag' = FillDrag(drag.origin, FillTarget(drag.origin, slot)) /\ active' = active
         ELSE active' = slot.id /\ drag' = drag
  BY DEF DragTo
<1>2. CASE drag.kind = "fill"
  <2>1. drag.origin \in Spans
    BY <1>2, FillIs
  <2>2. slot.index \in Nat
    <3>1. slot.index \in 0 .. Len(axis) - 1
      BY ShownIs
    <3>2. Len(axis) \in Nat
      BY AxisFacts DEF IInv
    <3> QED BY <3>1, <3>2
  <2>3. FillTarget(drag.origin, slot) \in Spans \union {None}
    BY <2>1, <2>2, TargetOK
  <2>4. GestureOK'
    BY <1>1, <1>2, <2>1, <2>3 DEF GestureOK
  <2> QED BY <1>1, <1>2, <2>4, GestureKeeps DEF cursor
<1>3. CASE drag.kind # "fill"
  <2>1. active' = slot.id /\ anchor' = anchor /\ axis' = axis
        /\ UNCHANGED <<doc, view, editor, board, pointer>>
    BY <1>1, <1>3 DEF doc, pointer
  <2>2. CursorOK'
    BY <2>1, ShownIs DEF IInv, CursorOK
  <2> QED BY <2>1, <2>2, KeepsDoc, KeepsView, KeepsEditor, KeepsBoard, KeepsGesture DEF IInv
<1> QED BY <1>2, <1>3

LEMMA NothingKeeps == ASSUME IInv, DragOverNothing PROVE IInv'
<1>1. /\ pressed /\ drag.kind = "fill" /\ drag' = FillDrag(drag.origin, None)
      /\ UNCHANGED <<doc, view, cursor, editor, board, pressed>>
  BY DEF DragOverNothing
<1>2. drag.origin \in Spans
  BY <1>1, FillIs
<1>3. GestureOK'
  BY <1>1, <1>2 DEF GestureOK
<1> QED BY <1>1, <1>3, GestureKeeps

LEMMA ReleaseKeeps == ASSUME IInv, Release PROVE IInv'
<1>1. /\ pressed' = FALSE /\ drag' = NoDrag /\ UNCHANGED <<axis, view, editor, board>>
      /\ IF drag.kind = "fill" /\ drag.preview # None
         THEN Filled(drag.origin, drag.preview)
         ELSE UNCHANGED <<book, cursor>>
  BY DEF Release
<1>2. ViewOK' /\ EditorOK' /\ BoardOK'
  BY <1>1, KeepsView, KeepsEditor, KeepsBoard DEF IInv
<1>3. GestureOK'
  BY <1>1 DEF GestureOK
<1>4. CASE drag.kind = "fill" /\ drag.preview # None
  <2> DEFINE origin == drag.origin
             target == drag.preview
  <2>1. origin \in Spans /\ target \in Spans
    BY <1>4, FillIs
  <2>2. Filled(origin, target)
    BY <1>1, <1>4
  <2> HIDE DEF origin, target
  <2>3. BookOK(book') /\ book'.rows = book.rows
    <3>1. BookOK(book) /\ axis = LiveOrder(book.rows)
      BY DEF IInv, DocOK
    <3>2. Written(FillCommands(book, axis, origin, target))
      BY <2>1, <3>1, FillWritten DEF Spans
    <3> QED BY <2>2, <3>1, <3>2, WritesApplied DEF Filled
  <2>4. DocOK'
    BY <1>1, <2>3, NewDoc DEF IInv
  <2>5. CursorOK'
    <3>1. CASE target[2] < Len(axis)
      <4>1. target[1] \in 0 .. Len(axis) - 1 /\ target[2] \in 0 .. Len(axis) - 1
        <5>1. target[1] \in Nat /\ target[2] \in Nat /\ target[1] <= target[2]
              /\ Len(axis) \in Nat
          BY <2>1, AxisFacts DEF Spans, IInv
        <5> QED BY <3>1, <5>1
      <4> DEFINE a == target[1]
                 b == target[2]
      <4> HIDE DEF a, b
      <4>2. /\ Has(axis, IdAt(axis, a)) /\ IdAt(axis, a) \in Ids
            /\ Has(axis, IdAt(axis, b)) /\ IdAt(axis, b) \in Ids
        <5>1. Order(Ids, axis)
          BY AxisFacts DEF IInv
        <5>2. a \in 0 .. Len(axis) - 1 /\ b \in 0 .. Len(axis) - 1
          BY <4>1 DEF a, b
        <5> QED BY <5>1, <5>2, IndexAt
      <4>3. anchor' = IdAt(axis, a) /\ active' = IdAt(axis, b)
        BY <2>2, <3>1 DEF Filled, a, b
      <4> QED BY <1>1, <4>2, <4>3 DEF CursorOK
    <3>2. CASE ~ (target[2] < Len(axis))
      <4>1. UNCHANGED cursor
        BY <2>2, <3>2 DEF Filled
      <4> QED BY <1>1, <4>1, KeepsCursor DEF IInv
    <3> QED BY <3>1, <3>2
  <2> QED BY <1>2, <1>3, <2>4, <2>5 DEF IInv
<1>5. CASE ~ (drag.kind = "fill" /\ drag.preview # None)
  <2>1. UNCHANGED <<book, cursor>>
    BY <1>1, <1>5
  <2> QED BY <1>1, <2>1, <1>3, GestureKeeps DEF doc
<1> QED BY <1>4, <1>5

LEMMA ViewKeeps ==
    ASSUME IInv, UNCHANGED <<doc, cursor, editor, board, pointer>>, ViewOK'
    PROVE  IInv'
<1>1. axis' = axis
  BY DEF doc
<1> QED BY <1>1, KeepsDoc, KeepsCursor, KeepsEditor, KeepsBoard, KeepsGesture DEF IInv

LEMMA ScrollKeeps == ASSUME IInv, NEW delta \in Scrolls, Scroll(delta) PROVE IInv'
<1> DEFINE new == Scrolled(axis, view.anchor, delta, view.height)
<1>1. /\ view' = [view EXCEPT !.anchor = new]
      /\ UNCHANGED <<doc, cursor, editor, board, pointer>>
  BY DEF Scroll
<1>2. /\ view = [anchor |-> view.anchor, height |-> view.height]
      /\ view.anchor \in Anchor /\ view.height \in Heights /\ view.height \in Nat
      /\ delta \in Int
  BY ShellAssumption DEF IInv, ViewOK
<1>3. new \in Anchor /\ (new.id # NoId => Has(axis, new.id))
  BY <1>2, AxisFacts, ScrolledTo DEF IInv
<1> HIDE DEF new
<1>4. view' = [anchor |-> new, height |-> view.height]
  BY <1>1, <1>2
<1>5. ViewOK'
  BY <1>1, <1>2, <1>3, <1>4 DEF ViewOK, doc
<1> QED BY <1>1, <1>5, ViewKeeps

LEMMA ResizeKeeps == ASSUME IInv, NEW height \in Heights, Resize(height) PROVE IInv'
<1>1. /\ view' = [view EXCEPT !.height = height]
      /\ UNCHANGED <<doc, cursor, editor, board, pointer>>
  BY DEF Resize
<1>2. view = [anchor |-> view.anchor, height |-> view.height] /\ view.anchor \in Anchor
      /\ (view.anchor.id # NoId => Has(axis, view.anchor.id))
  BY DEF IInv, ViewOK
<1>3. view' = [anchor |-> view.anchor, height |-> height]
  BY <1>1, <1>2
<1>4. ViewOK'
  BY <1>1, <1>2, <1>3 DEF ViewOK, doc
<1> QED BY <1>1, <1>4, ViewKeeps

\* What the user may type.
LEMMA TypedText ==
    ASSUME IInv, NEW text \in {Source, Blank} \union {<<char>> : char \in Keys}
    PROVE  text \in Texts
<1>1. Source \in Texts
  BY BookFields DEF IInv, DocOK, CursorOK, Source
<1> QED BY <1>1, BlankText, CharText

LEMMA TypingKeeps == ASSUME IInv, Typing PROVE IInv'
<1>1. ASSUME NEW text \in {Source, Blank} \union {<<char>> : char \in Keys}, BeginEdit(text)
      PROVE  IInv'
  BY <1>1, TypedText, BeginEditKeeps
<1>2. ASSUME NEW char \in Keys, Insert(char) PROVE IInv'
  BY <1>2, InsertKeeps
<1>3. ASSUME Backspace PROVE IInv'
  BY <1>3, BackspaceKeeps
<1>4. ASSUME DeleteForward PROVE IInv'
  BY <1>4, DeleteForwardKeeps
<1>5. ASSUME NEW at \in 0 .. MaxText, CaretTo(at) PROVE IInv'
  BY <1>5, CaretKeeps
<1>6. ASSUME Cancel PROVE IInv'
  BY <1>6, CancelKeeps
<1>7. ASSUME NEW char \in Keys, Preedit(<<char>>) \/ ImeCommit(<<char>>) PROVE IInv'
  <2>1. <<char>> \in Texts
    BY CharText
  <2> QED BY <1>7, <2>1, PreeditKeeps, ImeCommitKeeps
<1>8. ASSUME PreeditWithdrawn PROVE IInv'
  BY <1>8, WithdrawnKeeps
<1>9. ASSUME ImeCommit(<<>>) PROVE IInv'
  <2>1. <<>> \in Texts
    BY BlankText DEF Blank
  <2> QED BY <1>9, <2>1, ImeCommitKeeps
<1> QED BY <1>1, <1>2, <1>3, <1>4, <1>5, <1>6, <1>7, <1>8, <1>9 DEF Typing

LEMMA MovingKeeps == ASSUME IInv, Moving PROVE IInv'
<1>1. ASSUME NEW step \in Steps, NEW extend \in BOOLEAN, Move(step, extend) PROVE IInv'
  BY <1>1, MoveKeeps DEF Move
<1>2. ASSUME NEW step \in Steps, CommitAnd(step) PROVE IInv'
  BY <1>2, MoveKeeps DEF CommitAnd
<1>3. ASSUME NEW delta \in Scrolls, Scroll(delta) PROVE IInv'
  BY <1>3, ScrollKeeps
<1>4. ASSUME NEW height \in Heights, Resize(height) PROVE IInv'
  BY <1>4, ResizeKeeps
<1> QED BY <1>1, <1>2, <1>3, <1>4 DEF Moving

LEMMA ChangingKeeps == ASSUME IInv, Changing PROVE IInv'
<1>1. ASSUME ClearSelection PROVE IInv'
  BY <1>1, ClearKeeps
<1>2. ASSUME NEW cutting \in BOOLEAN, NEW refused \in BOOLEAN, Copy(cutting, refused) PROVE IInv'
  BY <1>2, CopyKeeps
<1>3. ASSUME NEW word \in Foreign, ForeignCopy(word) PROVE IInv'
  BY <1>3, ForeignKeeps
<1>4. ASSUME Paste PROVE IInv'
  BY <1>4, PasteKeeps
<1>5. ASSUME \/ \E kind \in {"insert", "delete"} : Restructure(kind)
             \/ \E undoing \in BOOLEAN : History(undoing)
      PROVE  IInv'
  BY <1>5, Reshaped, RebuiltKeeps
<1>6. ASSUME PasteNothing PROVE IInv'
  <2>1. UNCHANGED <<doc, cursor, view, editor, board, pointer>> /\ axis' = axis
    BY <1>6 DEF PasteNothing, doc
  <2> QED BY <2>1, KeepsDoc, KeepsCursor, KeepsView, KeepsEditor, KeepsBoard, KeepsGesture
          DEF IInv
<1> QED BY <1>1, <1>2, <1>3, <1>4, <1>5, <1>6 DEF Changing

LEMMA PointingKeeps == ASSUME IInv, Pointing PROVE IInv'
<1>1. ASSUME PressHandle PROVE IInv'
  BY <1>1, HandleKeeps
<1>2. ASSUME PressOutside PROVE IInv'
  BY <1>2, OutsideKeeps
<1>3. ASSUME DragOverNothing PROVE IInv'
  BY <1>3, NothingKeeps
<1>4. ASSUME Release PROVE IInv'
  BY <1>4, ReleaseKeeps
<1>5. ASSUME NEW slot \in Shown, NEW extend \in BOOLEAN, PressCell(slot, extend)
      PROVE  IInv'
  BY <1>5, CellKeeps
<1>6. ASSUME NEW slot \in Shown, DragTo(slot) PROVE IInv'
  BY <1>6, DragKeeps
<1> QED BY <1>1, <1>2, <1>3, <1>4, <1>5, <1>6 DEF Pointing

LEMMA StepKeeps == ASSUME IInv, [Next]_vars PROVE IInv'
<1>1. CASE Next
  BY <1>1, TypingKeeps, MovingKeeps, ChangingKeeps, PointingKeeps DEF Next
<1>2. CASE UNCHANGED vars
  <2>1. UNCHANGED <<doc, cursor, view, editor, board, pointer>> /\ axis' = axis
    BY <1>2 DEF vars, doc, cursor, board, pointer
  <2> QED BY <2>1, KeepsDoc, KeepsCursor, KeepsView, KeepsEditor, KeepsBoard, KeepsGesture
          DEF IInv
<1> QED BY <1>1, <1>2

LEMMA ShellInvariant == Spec => []IInv
<1>1. Init => IInv
  BY InitInv
<1>2. IInv /\ [Next]_vars => IInv'
  BY StepKeeps
<1> QED BY <1>1, <1>2, PTL DEF Spec

LEMMA InvTypes == ASSUME IInv PROVE TypeOK
<1>1. AxisOK(book.rows) /\ IdsOf(book.rows) \subseteq 1 .. MaxRow
      /\ axis = LiveOrder(book.rows)
  BY DEF IInv, DocOK, BookOK, Ids
<1>2. view.anchor \in Anchor /\ view.height \in Heights
  BY DEF IInv, ViewOK
<1>3. axis # <<>> => /\ {active, anchor} \subseteq Range(axis)
                     /\ view.anchor.id \in Range(axis) \union {NoId}
  BY DEF IInv, CursorOK, ViewOK, Has
<1>4. Open => /\ axis # <<>> => Has(axis, editor.row)
              /\ editor.caret \in 0 .. Len(editor.text)
              /\ Len(editor.text) <= MaxText
  BY EditorIs
<1>5. \A span \in Spans \union {None} : Pending(span)
  BY DEF Pending, Spans
<1>6. Pending(cut)
  BY <1>5 DEF IInv, BoardOK
<1>7. drag.kind = "fill" => pressed /\ Pending(drag.origin) /\ Pending(drag.preview)
  BY <1>5, FillIs
<1> QED BY <1>1, <1>2, <1>3, <1>4, <1>6, <1>7 DEF TypeOK

\* After any events the shell's axis is the session's live order; cursor,
\* selection, editor and viewport are on live rows whenever there is one, though
\* rows come and go under them by commands, undo and redo (App::rebuild_axes);
\* the caret is within its text, and a fill has a gesture to belong to.
THEOREM ShellType == Spec => []TypeOK
<1>1. IInv => TypeOK
  BY InvTypes
<1> QED BY <1>1, ShellInvariant, PTL

-----------------------------------------------------------------------------
(* An edit lands in its own cell.                                          *)

Lands ==
    /\ \/ FillReleased
       \/ book'.content = book.content
       \/ book'.content = [book.content EXCEPT ![editor.row] = editor.text]
    /\ editor' = None =>
         \/ book'.content[editor.row] = editor.text
         \/ ~Has(axis, editor.row)
         \/ UNCHANGED <<doc, view, cursor, board, pointer>>

LEMMA CommitLands == ASSUME IInv, Open, Commit PROVE Lands
<1>1. book' = Landing.book /\ editor' = Landing.editor /\ editor # None
  BY DEF Commit, Open
<1>2. [book.content EXCEPT ![editor.row] = editor.text][editor.row] = editor.text
  <2>1. editor.row \in Ids
    BY EditorIs
  <2>2. book.content \in [Ids -> Texts]
    BY BookFields DEF IInv, DocOK
  <2> QED BY <2>1, <2>2
<1> QED BY <1>1, <1>2, Landed DEF Lands

\* A step that changes neither the document nor the editor, and one of the editor's own.
LEMMA SpectatorLands == ASSUME Open, book' = book, editor' = editor PROVE Lands
BY DEF Lands, Open

LEMMA KeyLands == ASSUME UNCHANGED <<doc, view, cursor, board, pointer>> PROVE Lands
BY DEF Lands, doc

LEMMA TypingLands == ASSUME Open, Typing PROVE Lands
<1>1. UNCHANGED <<doc, view, cursor, board, pointer>>
  <2>1. ASSUME NEW text, BeginEdit(text) PROVE FALSE
    BY <2>1 DEF BeginEdit, GridKey
  <2>2. ASSUME NEW char, Insert(char) PROVE UNCHANGED <<doc, view, cursor, board, pointer>>
    BY <2>2 DEF Insert, EditTo
  <2>3. ASSUME Backspace \/ DeleteForward PROVE UNCHANGED <<doc, view, cursor, board, pointer>>
    BY <2>3 DEF Backspace, DeleteForward, EditTo
  <2>4. ASSUME NEW at, CaretTo(at) PROVE UNCHANGED <<doc, view, cursor, board, pointer>>
    BY <2>4 DEF CaretTo, EditTo
  <2>5. ASSUME Cancel PROVE UNCHANGED <<doc, view, cursor, board, pointer>>
    BY <2>5 DEF Cancel, cursor
  <2>6. ASSUME NEW text, Preedit(text) \/ ImeCommit(text)
        PROVE  UNCHANGED <<doc, view, cursor, board, pointer>>
    BY <2>6 DEF Preedit, ImeCommit, Anchored, cursor
  <2>7. ASSUME PreeditWithdrawn PROVE UNCHANGED <<doc, view, cursor, board, pointer>>
    BY <2>7 DEF PreeditWithdrawn
  <2> QED BY <2>1, <2>2, <2>3, <2>4, <2>5, <2>6, <2>7 DEF Typing
<1> QED BY <1>1, KeyLands

LEMMA MovingLands == ASSUME IInv, Open, Moving PROVE Lands
<1>1. ASSUME NEW step, NEW extend, Move(step, extend) PROVE Lands
  BY <1>1 DEF Move, GridKey
<1>2. ASSUME NEW step, CommitAnd(step) PROVE Lands
  BY <1>2, CommitLands DEF CommitAnd, MoveCursor
<1>3. ASSUME NEW delta, Scroll(delta) PROVE Lands
  BY <1>3, SpectatorLands DEF Scroll, doc
<1>4. ASSUME NEW height, Resize(height) PROVE Lands
  BY <1>4, SpectatorLands DEF Resize, doc
<1> QED BY <1>1, <1>2, <1>3, <1>4 DEF Moving

LEMMA ChangingLands == ASSUME IInv, Open, Changing PROVE Lands
<1>1. ASSUME NEW word, ForeignCopy(word) PROVE Lands
  BY <1>1, SpectatorLands DEF ForeignCopy, doc
<1>2. ASSUME \/ ClearSelection \/ Paste \/ PasteNothing
             \/ \E cutting, refused \in BOOLEAN : Copy(cutting, refused)
      PROVE  Lands
  BY <1>2 DEF ClearSelection, Paste, PasteNothing, Copy, GridKey
<1>3. ASSUME \/ \E kind \in {"insert", "delete"} : Restructure(kind)
             \/ \E undoing \in BOOLEAN : History(undoing)
      PROVE  Lands
  BY <1>3, Reshaped
<1> QED BY <1>1, <1>2, <1>3 DEF Changing

LEMMA PointingLands == ASSUME IInv, Open, Pointing PROVE Lands
<1>1. ASSUME PressHandle PROVE Lands
  BY <1>1 DEF PressHandle, HandleShown
<1>2. ASSUME PressOutside \/ DragOverNothing PROVE Lands
  BY <1>2, SpectatorLands DEF PressOutside, DragOverNothing, doc
<1>3. ASSUME Release PROVE Lands
  <2>1. editor' = editor /\ drag' = NoDrag /\ (drag.kind = "fill" \/ book' = book)
    BY <1>3 DEF Release
  <2>2. CASE drag.kind = "fill"
    BY <2>1, <2>2 DEF Lands, FillReleased, Open
  <2> QED BY <2>1, <2>2, SpectatorLands
<1>4. ASSUME NEW slot, NEW extend, PressCell(slot, extend) PROVE Lands
  BY <1>4, CommitLands DEF PressCell
<1>5. ASSUME NEW slot, DragTo(slot) PROVE Lands
  BY <1>5, SpectatorLands DEF DragTo, doc
<1> QED BY <1>1, <1>2, <1>3, <1>4, <1>5 DEF Pointing

\* However keys, presses, drags and the input method follow each other, an open
\* editor's document changes only in the editor's own row, or by a fill begun
\* before it, and an editor that closes has written its buffer there, unless it was
\* abandoned or its row is gone (App::commit).
THEOREM EditsLand == Spec => EditLandsInItsCell
<1>1. IInv /\ [Next]_vars =>
        [Open =>
          /\ \/ FillReleased
             \/ book'.content = book.content
             \/ book'.content = [book.content EXCEPT ![editor.row] = editor.text]
          /\ editor' = None =>
               \/ book'.content[editor.row] = editor.text
               \/ ~Has(axis, editor.row)
               \/ UNCHANGED <<doc, view, cursor, board, pointer>>
        ]_vars
  <2> SUFFICES ASSUME IInv, Next, Open PROVE Lands
    BY DEF Lands
  <2> QED BY TypingLands, MovingLands, ChangingLands, PointingLands DEF Next
<1> QED BY <1>1, ShellInvariant, PTL DEF Spec, EditLandsInItsCell

-----------------------------------------------------------------------------
(* A cut moves.                                                            *)

\* Only a paste drops a cut and keeps its block.
LEMMA OnlyPasteMoves ==
    ASSUME IInv, Next, CutStands, cut' = None, clip' = clip
    PROVE  Paste
<1>1. cut # None /\ clip # None /\ ~ clip.translate
  BY DEF CutStands
<1>7. clip' = mine' \/ clip' = None \/ clip'.translate = TRUE
  BY DEF clip
<1>2. ~ UNCHANGED board
  BY <1>1 DEF board
<1>3. ASSUME Typing PROVE FALSE
  BY <1>2, <1>3 DEF Typing, BeginEdit, Insert, Backspace, DeleteForward, CaretTo, Cancel,
     Preedit, PreeditWithdrawn, ImeCommit, EditTo
<1>4. ASSUME Moving PROVE FALSE
  BY <1>2, <1>4 DEF Moving, Move, CommitAnd, MoveCursor, Scroll, Resize
<1>5. ASSUME Pointing PROVE FALSE
  BY <1>2, <1>5 DEF Pointing, PressHandle, PressOutside, DragOverNothing, Release, PressCell,
     DragTo
<1>6. ASSUME Changing PROVE Paste
  <2>1. ASSUME NEW cutting \in BOOLEAN, NEW refused \in BOOLEAN, Copy(cutting, refused)
        PROVE  FALSE
    <3>1. CASE cutting
      <4>1. cut' = Selection /\ Selection # None
        BY <2>1, <3>1 DEF Copy
      <4> QED BY <4>1
    <3>2. CASE ~ cutting
      <4>1. mine'.translate = TRUE
        BY <2>1, <3>2, Copied
      <4> QED BY <1>1, <1>7, <4>1
    <3> QED BY <3>1, <3>2
  <2>2. ASSUME NEW word, ForeignCopy(word) PROVE FALSE
    BY <1>1, <2>2 DEF ForeignCopy
  <2>3. ASSUME ClearSelection \/ PasteNothing PROVE FALSE
    BY <1>2, <2>3 DEF ClearSelection, PasteNothing
  <2>4. ASSUME \/ \E kind \in {"insert", "delete"} : Restructure(kind)
               \/ \E undoing \in BOOLEAN : History(undoing)
        PROVE  FALSE
    BY <1>2, <2>4, Reshaped DEF Rebuilt
  <2> QED BY <1>6, <2>1, <2>2, <2>3, <2>4 DEF Changing
<1> QED BY <1>3, <1>4, <1>5, <1>6 DEF Next

\* What standing says of the cut and of its block.
LEMMA StandingCut ==
    ASSUME IInv, CutStands
    PROVE  LET n == Len(clip.ids)
               o == clip.origin
           IN /\ n \in Nat /\ o \in Nat /\ Len(clip.cells) = n /\ DOMAIN clip.cells = 1 .. n
              /\ DOMAIN clip.ids = 1 .. n /\ clip.cells \in Seq(Texts)
              /\ cut # None /\ cut = <<o, o + n - 1>> /\ ~ clip.translate
              /\ ActiveIndex \in Nat /\ ActiveIndex + n <= Len(axis)
              /\ \A i \in 1 .. n :
                   /\ o + i <= Len(axis) /\ axis[o + i] = clip.ids[i]
                   /\ ~ Refused(book, Write(ActiveIndex, clip.cells[i]))
<1>1. /\ cut # None /\ clip # None /\ ~ clip.translate
      /\ \A i \in DOMAIN clip.ids :
           /\ clip.origin + i <= Len(axis) /\ axis[clip.origin + i] = clip.ids[i]
           /\ ~ Refused(book, Write(ActiveIndex, clip.cells[i]))
      /\ ActiveIndex + Len(clip.cells) <= Len(axis)
  BY DEF CutStands
<1>2. /\ clip \in Blocks /\ Len(clip.ids) = Len(clip.cells)
      /\ cut = <<clip.origin, clip.origin + Len(clip.ids) - 1>>
  <2>1. clip = mine /\ mine # None /\ ~ mine.translate /\ clip \in Blocks
    BY <1>1, ClipIs DEF IInv
  <2> QED BY <1>1, <2>1 DEF IInv, BoardOK
<1>3. /\ clip.cells \in Seq(Texts) /\ clip.ids \in Seq(Ids) /\ clip.origin \in Nat
  BY <1>2 DEF Blocks
<1>4. /\ DOMAIN clip.cells = 1 .. Len(clip.cells) /\ DOMAIN clip.ids = 1 .. Len(clip.ids)
      /\ Len(clip.ids) \in Nat
  BY <1>3, LenProperties
<1> QED BY <1>1, <1>2, <1>3, <1>4, ActiveIndexNat

\* The ordinals the cut cells stand at.
LEMMA MovedIs ==
    ASSUME IInv, CutStands, NEW k \in Int
    PROVE  k \in {IndexOf(axis, id) : id \in Range(clip.ids)}
             <=> k \in clip.origin .. clip.origin + Len(clip.ids) - 1
<1> DEFINE n == Len(clip.ids)
           o == clip.origin
           ids == clip.ids
<1>1. /\ n \in Nat /\ o \in Nat /\ DOMAIN ids = 1 .. n
      /\ \A i \in 1 .. n : o + i <= Len(axis) /\ axis[o + i] = ids[i]
  BY StandingCut
<1>2. Order(Ids, axis) /\ Len(axis) \in Nat
  BY AxisFacts DEF IInv
<1> HIDE DEF n, o, ids
<1>3. \A i \in 1 .. n : IndexOf(axis, ids[i]) = o + i - 1
  <2> SUFFICES ASSUME NEW i \in 1 .. n PROVE IndexOf(axis, ids[i]) = o + i - 1
    OBVIOUS
  <2> DEFINE m == o + i - 1
  <2>1. m \in 0 .. Len(axis) - 1 /\ m + 1 = o + i
    BY <1>1, <1>2
  <2> HIDE DEF m
  <2>2. IndexOf(axis, IdAt(axis, m)) = m
    BY <1>2, <2>1, IndexAt
  <2>3. IdAt(axis, m) = ids[i]
    BY <1>1, <2>1 DEF IdAt
  <2> QED BY <2>2, <2>3 DEF m
<1>4. Range(ids) = {ids[i] : i \in 1 .. n}
  BY <1>1 DEF Range
<1>5. k \in {IndexOf(axis, id) : id \in Range(ids)} <=> \E i \in 1 .. n : k = o + i - 1
  BY <1>3, <1>4
<1>6. (\E i \in 1 .. n : k = o + i - 1) <=> k \in o .. o + n - 1
  <2>1. ASSUME k \in o .. o + n - 1 PROVE \E i \in 1 .. n : k = o + i - 1
    <3>1. k - o + 1 \in 1 .. n /\ k = o + (k - o + 1) - 1
      BY <1>1, <2>1
    <3> QED BY <3>1
  <2> QED BY <1>1, <2>1
<1> QED BY <1>5, <1>6 DEF n, o, ids

LEMMA TargetCells ==
    ASSUME NEW top \in Int, NEW n \in Nat, NEW cells, DOMAIN cells = 1 .. n, NEW k \in Int
    PROVE  k \in {top + i - 1 : i \in DOMAIN cells} <=> k \in top .. top + n - 1
<1>1. ASSUME k \in top .. top + n - 1 PROVE \E i \in 1 .. n : k = top + i - 1
  <2>1. k - top + 1 \in 1 .. n /\ k = top + (k - top + 1) - 1
    BY <1>1
  <2> QED BY <2>1
<1>2. k \in {top + i - 1 : i \in DOMAIN cells} <=> \E i \in 1 .. n : k = top + i - 1
  OBVIOUS
<1>3. ASSUME NEW i \in 1 .. n, k = top + i - 1 PROVE k \in top .. top + n - 1
  BY <1>3
<1> QED BY <1>1, <1>2, <1>3

LEMMA PasteMoves ==
    ASSUME IInv, CutStands, Paste
    PROVE  LET moved == {IndexOf(axis, id) : id \in Range(clip.ids)}
               target == {ActiveIndex + i - 1 : i \in DOMAIN clip.cells}
           IN \A i \in 0 .. Len(axis) - 1 :
                book'.content[IdAt(axis, i)] =
                   IF i \in target THEN clip.cells[i - ActiveIndex + 1]
                   ELSE IF i \in moved THEN Blank
                   ELSE book.content[IdAt(axis, i)]
<1> DEFINE n == Len(clip.ids)
           from == clip.origin
           top == ActiveIndex
           cells == clip.cells
           size == Cardinality(LiveIds(book.rows))
           cleared == ApplyAll(book, ClearCommands(cut))
<1>1. /\ n \in Nat /\ from \in Nat /\ Len(cells) = n /\ DOMAIN cells = 1 .. n
      /\ cells \in Seq(Texts)
      /\ cut # None /\ cut = <<from, from + n - 1>> /\ ~ clip.translate
      /\ top \in Nat /\ top + n <= Len(axis)
      /\ \A i \in 1 .. n : /\ from + i <= Len(axis)
                           /\ ~ Refused(book, Write(top, cells[i]))
  BY StandingCut
<1>2. BookOK(book) /\ Len(axis) = size /\ size \in Nat
      /\ \A k \in 0 .. Len(axis) - 1 : IdAt(axis, k) = At(book.rows, k)
  BY AxisFacts DEF IInv, DocOK
<1>3. book' = ApplyAll(cleared, PasteCommands(axis, clip, top))
  BY <1>1 DEF Paste, Pasted
<1> HIDE DEF n, from, top, cells, size, cleared
<1>10. n \in Nat /\ from \in Nat /\ top \in Nat /\ size \in Nat
  BY <1>1, <1>2
<1>4. /\ BookOK(cleared) /\ cleared.rows = book.rows
      /\ \A k \in 0 .. size - 1 :
           cleared.content[At(book.rows, k)] =
             IF k \in from .. from + n - 1 THEN Blank ELSE book.content[At(book.rows, k)]
  <2> DEFINE commands == ClearCommands(cut)
             text == [i \in 1 .. n |-> Blank]
  <2>1. commands = [i \in 1 .. n |-> Write(from + i - 1, Blank)]
    <3>1. cut[1] = from /\ cut[2] = from + n - 1
      BY <1>1
    <3>2. cut[2] - cut[1] + 1 = n
      BY <1>1, <3>1
    <3> QED BY <3>1, <3>2 DEF ClearCommands, Clear
  <2>2. text \in [1 .. n -> Texts] /\ \A i \in 1 .. n : text[i] = Blank
    BY BlankText
  <2> HIDE DEF commands, text
  <2>3. \A i \in 1 .. n : ~ Refused(book, Write(from + i - 1, Blank))
    <3> SUFFICES ASSUME NEW i \in 1 .. n PROVE ~ Refused(book, Write(from + i - 1, Blank))
      OBVIOUS
    <3>1. ~ (from + i - 1 >= size)
      BY <1>1, <1>2
    <3>2. ~ IsFormula(Blank)
      BY EmptySeq DEF IsFormula, Blank
    <3> QED BY <3>1, <3>2 DEF Refused, Write, size
  <2>4. DOMAIN commands = 1 .. n /\ Lays(commands, book, from, n, text)
    BY <2>1, <2>2, <2>3 DEF Lays
  <2>5. \A k \in 0 .. size - 1 :
          ApplyAll(book, commands).content[At(book.rows, k)] =
             IF k \in from .. from + n - 1 THEN text[k - from + 1] ELSE book.content[At(book.rows, k)]
    <3>1. \A k \in 0 .. Cardinality(LiveIds(book.rows)) - 1 :
            ApplyAll(book, commands).content[At(book.rows, k)] =
               IF k \in from .. from + n - 1 THEN text[k - from + 1] ELSE book.content[At(book.rows, k)]
      BY <1>10, <1>2, <2>4, BlockLands
    <3> QED BY <3>1 DEF size
  <2>6. ASSUME NEW k \in 0 .. size - 1, k \in from .. from + n - 1 PROVE k - from + 1 \in 1 .. n
    <3>1. k \in Int /\ from <= k /\ k <= from + n - 1
      BY <1>10, <2>6
    <3> QED BY <1>10, <3>1
  <2>7. \A k \in 0 .. size - 1 : k \in from .. from + n - 1 => text[k - from + 1] = Blank
    BY <2>2, <2>6
  <2>8. Written(commands)
    <3>1. \A i \in 1 .. n : \E at \in Nat, t \in Texts : commands[i] = Write(at, t)
      <4> SUFFICES ASSUME NEW i \in 1 .. n
                   PROVE  \E at \in Nat, t \in Texts : commands[i] = Write(at, t)
        OBVIOUS
      <4>1. from + i - 1 \in Nat
        BY <1>1
      <4> QED BY <2>1, <4>1, BlankText
    <3> QED BY <1>10, <2>4, <3>1, WrittenUpTo
  <2>9. cleared = ApplyAll(book, commands)
    BY DEF cleared, commands
  <2> QED BY <1>2, <2>5, <2>7, <2>8, <2>9, WritesApplied
<1>5. \A k \in 0 .. size - 1 :
        book'.content[At(book.rows, k)] =
          IF k \in top .. top + n - 1 THEN cells[k - top + 1]
          ELSE cleared.content[At(book.rows, k)]
  <2> DEFINE commands == PasteCommands(axis, clip, top)
             text == [i \in 1 .. n |-> cells[i]]
  <2>1. commands = [i \in 1 .. n |-> Write(top + i - 1, cells[i])]
    <3> DEFINE room == Len(axis) - top
    <3>1. room \in Int /\ n <= room
      BY <1>1, <1>2
    <3> HIDE DEF room
    <3>2. Min({n, room}) = n
      BY <1>1, <3>1, MinPair
    <3>3. commands = [i \in 1 .. Min({Len(cells), Len(axis) - top}) |->
                        Write(top + i - 1, cells[i])]
      BY <1>1 DEF PasteCommands, cells
    <3> QED BY <1>1, <3>2, <3>3 DEF room
  <2>2. text \in [1 .. n -> Texts] /\ \A i \in 1 .. n : text[i] = cells[i]
    BY <1>1, CellText
  <2> HIDE DEF commands, text
  <2>3. \A i \in 1 .. n : ~ Refused(cleared, Write(top + i - 1, cells[i]))
    <3> SUFFICES ASSUME NEW i \in 1 .. n
                 PROVE  ~ Refused(cleared, Write(top + i - 1, cells[i]))
      OBVIOUS
    <3>1. ~ (top + i - 1 >= size)
      BY <1>1, <1>2
    <3>2. ~ (IsFormula(cells[i]) /\ \E m \in NamedIn(cells[i]) : m >= size)
      <4>1. ~ Refused(book, Write(top, cells[i]))
        BY <1>1
      <4> QED BY <4>1 DEF Refused, Write, size
    <3>3. ~ Refused(book, Write(top + i - 1, cells[i]))
      BY <3>1, <3>2 DEF Refused, Write, size
    <3> QED BY <1>4, <3>3, SameRefusals
  <2>4. Lays(commands, cleared, top, n, text)
    BY <2>1, <2>2, <2>3 DEF Lays
  <2>5. \A k \in 0 .. Cardinality(LiveIds(cleared.rows)) - 1 :
          ApplyAll(cleared, commands).content[At(cleared.rows, k)] =
             IF k \in top .. top + n - 1 THEN text[k - top + 1]
             ELSE cleared.content[At(cleared.rows, k)]
    BY <1>10, <1>4, <2>4, BlockLands
  <2>6. ASSUME NEW k \in 0 .. size - 1, k \in top .. top + n - 1 PROVE k - top + 1 \in 1 .. n
    <3>1. k \in Int /\ top <= k /\ k <= top + n - 1
      BY <1>10, <2>6
    <3> QED BY <1>10, <3>1
  <2>7. \A k \in 0 .. size - 1 : k \in top .. top + n - 1 => text[k - top + 1] = cells[k - top + 1]
    BY <2>2, <2>6
  <2> QED BY <1>3, <1>4, <2>5, <2>7 DEF size, commands
<1>6. ASSUME NEW k \in 0 .. Len(axis) - 1
      PROVE  book'.content[IdAt(axis, k)] =
               IF k \in top .. top + n - 1 THEN cells[k - top + 1]
               ELSE IF k \in from .. from + n - 1 THEN Blank
               ELSE book.content[IdAt(axis, k)]
  BY <1>2, <1>4, <1>5
<1>7. ASSUME NEW k \in 0 .. Len(axis) - 1
      PROVE  k \in {IndexOf(axis, id) : id \in Range(clip.ids)} <=> k \in from .. from + n - 1
  <2>1. k \in Int
    BY <1>2
  <2> QED BY <2>1, MovedIs DEF from, n
<1>8. ASSUME NEW k \in 0 .. Len(axis) - 1
      PROVE  k \in {top + i - 1 : i \in DOMAIN cells} <=> k \in top .. top + n - 1
  <2>1. k \in Int /\ top \in Int
    BY <1>1, <1>2
  <2> QED BY <1>1, <2>1, TargetCells
<1>9. \A k \in 0 .. Len(axis) - 1 :
        book'.content[IdAt(axis, k)] =
          IF k \in {top + i - 1 : i \in DOMAIN cells} THEN cells[k - top + 1]
          ELSE IF k \in {IndexOf(axis, id) : id \in Range(clip.ids)} THEN Blank
          ELSE book.content[IdAt(axis, k)]
  BY <1>6, <1>7, <1>8
<1> QED BY <1>9 DEF top, cells

\* Pasting a cut that still stands moves it, wherever the target lies and however
\* it overlaps the source: the target holds the block, the rest of the source is
\* blank, every other row is as it was (App::paste).
THEOREM CutsMove == Spec => CutMoves
<1>1. IInv /\ [Next]_vars =>
        [CutStands /\ cut' = None /\ clip' = clip =>
          LET moved == {IndexOf(axis, id) : id \in Range(clip.ids)}
              target == {ActiveIndex + i - 1 : i \in DOMAIN clip.cells}
          IN \A i \in 0 .. Len(axis) - 1 :
               book'.content[IdAt(axis, i)] =
                  IF i \in target THEN clip.cells[i - ActiveIndex + 1]
                  ELSE IF i \in moved THEN Blank
                  ELSE book.content[IdAt(axis, i)]
        ]_vars
  BY OnlyPasteMoves, PasteMoves
<1> QED BY <1>1, ShellInvariant, PTL DEF Spec, CutMoves

-----------------------------------------------------------------------------
(* Nothing teleports.                                                      *)

\* A suffix is where the sequence ends.
LEMMA SuffixIs ==
    ASSUME NEW S, NEW s \in Seq(S), NEW t \in Seq(S), IsSuffix(s, t)
    PROVE  /\ Len(s) <= Len(t)
           /\ \A k \in 1 .. Len(s) : t[Len(t) - Len(s) + k] = s[k]
<1> DEFINE n == Len(s)
           m == Len(t)
           rs == Reverse(s)
           rt == Reverse(t)
<1>1. n \in Nat /\ m \in Nat
  BY LenProperties
<1>2. /\ rs = [i \in 1 .. n |-> s[(n - i) + 1]]
      /\ rt = [i \in 1 .. m |-> t[(m - i) + 1]]
  BY DEF Reverse
<1>3. rs \in Seq(S) /\ Len(rs) = n
  <2>1. s \in [1 .. n -> S]
    BY LenProperties
  <2>2. \A i \in 1 .. n : (n - i) + 1 \in 1 .. n
    BY <1>1
  <2> HIDE DEF n, rs
  <2>3. \A i \in 1 .. n : s[(n - i) + 1] \in S
    BY <2>1, <2>2
  <2> QED BY <1>1, <1>2, <2>3, IsASeq, LenProperties
<1>4. rt \in Seq(S) /\ Len(rt) = m
  <2>1. t \in [1 .. m -> S]
    BY LenProperties
  <2>2. \A i \in 1 .. m : (m - i) + 1 \in 1 .. m
    BY <1>1
  <2> HIDE DEF m, rt
  <2>3. \A i \in 1 .. m : t[(m - i) + 1] \in S
    BY <2>1, <2>2
  <2> QED BY <1>1, <1>2, <2>3, IsASeq, LenProperties
<1>5. Len(rs) <= Len(rt) /\ SubSeq(rs, 1, Len(rs)) = SubSeq(rt, 1, Len(rs))
  BY DEF IsSuffix, IsPrefix
<1> HIDE DEF n, m, rs, rt
<1>6. n <= m /\ SubSeq(rs, 1, n) = SubSeq(rt, 1, n)
  BY <1>3, <1>4, <1>5
<1>7. \A j \in 1 .. n : rs[j] = rt[j]
  <2> SUFFICES ASSUME NEW j \in 1 .. n PROVE rs[j] = rt[j]
    OBVIOUS
  <2>1. SubSeq(rs, 1, n)[j] = rs[j]
    BY <1>1, <1>3, SubSeqProperties
  <2>2. SubSeq(rt, 1, n)[j] = rt[j]
    BY <1>1, <1>4, <1>6, SubSeqProperties
  <2> QED BY <1>6, <2>1, <2>2
<1>8. ASSUME NEW k \in 1 .. n PROVE t[m - n + k] = s[k]
  <2> DEFINE j == n - k + 1
  <2>1. j \in 1 .. n /\ j \in 1 .. m /\ (n - j) + 1 = k /\ (m - j) + 1 = m - n + k
    BY <1>1, <1>6
  <2> HIDE DEF j
  <2>2. rs[j] = s[k] /\ rt[j] = t[m - n + k]
    BY <1>2, <2>1
  <2> QED BY <1>7, <2>1, <2>2
<1> QED BY <1>6, <1>8 DEF n, m

\* What is drawn of the rows shown, counted from the first.
LEMMA DrawnFrom ==
    ASSUME NEW ax \in Seq(Ids), NEW a \in Anchor, NEW height \in Nat
    PROVE  LET first == AnchorIndex(ax, a)
           IN {[id |-> slot.id, at |-> slot.at] : slot \in Visible(ax, a, height)}
                = {[id |-> IdAt(ax, first + d), at |-> StartOf(d) - a.offset] :
                     d \in {e \in 0 .. Len(ax) - first - 1 : StartOf(e) - a.offset < height}}
<1> DEFINE first == AnchorIndex(ax, a)
           size == Len(ax)
           places == {j \in first .. size - 1 : StartOf(j - first) - a.offset < height}
           steps == {e \in 0 .. size - first - 1 : StartOf(e) - a.offset < height}
           slot(i) == [id |-> IdAt(ax, i), index |-> i, at |-> StartOf(i - first) - a.offset]
           drawn(d) == [id |-> IdAt(ax, first + d), at |-> StartOf(d) - a.offset]
<1>1. first \in Nat /\ size \in Nat
  BY TopPixelNat, LengthIs
<1>2. Visible(ax, a, height) = {slot(i) : i \in places}
  BY DEF Visible
<1>3. {[id |-> s.id, at |-> s.at] : s \in Visible(ax, a, height)}
        = {[id |-> IdAt(ax, i), at |-> StartOf(i - first) - a.offset] : i \in places}
  <2>1. \A i : slot(i).id = IdAt(ax, i) /\ slot(i).at = StartOf(i - first) - a.offset
    OBVIOUS
  <2> HIDE DEF slot, places
  <2>2. {[id |-> s.id, at |-> s.at] : s \in Visible(ax, a, height)}
          = {[id |-> slot(i).id, at |-> slot(i).at] : i \in places}
    BY <1>2
  <2> QED BY <2>1, <2>2
<1> HIDE DEF first, size
<1>4. ASSUME NEW i \in places
      PROVE  i - first \in steps
             /\ [id |-> IdAt(ax, i), at |-> StartOf(i - first) - a.offset] = drawn(i - first)
  <2>1. i \in first .. size - 1 /\ StartOf(i - first) - a.offset < height
    OBVIOUS
  <2>2. i - first \in 0 .. size - first - 1 /\ first + (i - first) = i
    BY <1>1, <2>1
  <2> QED BY <2>1, <2>2
<1>5. ASSUME NEW d \in steps
      PROVE  first + d \in places /\ (first + d) - first = d
  <2>1. d \in 0 .. size - first - 1 /\ StartOf(d) - a.offset < height
    OBVIOUS
  <2>2. first + d \in first .. size - 1 /\ (first + d) - first = d
    BY <1>1, <2>1
  <2> QED BY <2>1, <2>2
<1>6. {[id |-> IdAt(ax, i), at |-> StartOf(i - first) - a.offset] : i \in places}
        = {drawn(d) : d \in steps}
  <2>1. ASSUME NEW i \in places
        PROVE  [id |-> IdAt(ax, i), at |-> StartOf(i - first) - a.offset]
                  \in {drawn(d) : d \in steps}
    <3> HIDE DEF places, steps
    <3> QED BY <1>4
  <2>2. ASSUME NEW d \in steps
        PROVE  drawn(d) \in {[id |-> IdAt(ax, i), at |-> StartOf(i - first) - a.offset] :
                                i \in places}
    <3>1. first + d \in places /\ (first + d) - first = d
      BY <1>5
    <3> HIDE DEF places, steps
    <3>2. drawn(d) = [id |-> IdAt(ax, first + d),
                      at |-> StartOf((first + d) - first) - a.offset]
      BY <3>1
    <3> HIDE DEF drawn
    <3> QED BY <3>1, <3>2
  <2> HIDE DEF places, steps, drawn
  <2> QED BY <2>1, <2>2
<1> QED BY <1>3, <1>6 DEF first, size

\* The rows from the first shown one on are drawn where they were.
LEMMA RestStays ==
    ASSUME NEW old, Order(Ids, old), NEW new, Order(Ids, new), NEW a \in Anchor,
           NEW height \in Nat, Has(old, a.id),
           IsSuffix(SubSeq(old, AnchorIndex(old, a) + 1, Len(old)), new)
    PROVE  /\ Has(new, a.id)
           /\ {[id |-> slot.id, at |-> slot.at] : slot \in Visible(new, a, height)}
                = {[id |-> slot.id, at |-> slot.at] : slot \in Visible(old, a, height)}
<1> DEFINE first == AnchorIndex(old, a)
           size == Len(old)
           rest == SubSeq(old, first + 1, size)
           next == Len(new) - Len(rest)
<1>1. old \in Seq(Ids) /\ new \in Seq(Ids) /\ size \in Nat /\ Len(new) \in Nat
  BY LengthIs DEF Order
<1>2. first \in 0 .. size - 1 /\ IdAt(old, first) = a.id
  BY <1>1, IndexIs DEF AnchorIndex, IndexOr0
<1> HIDE DEF first, size
<1>3. /\ rest \in Seq(Ids) /\ Len(rest) = size - first
      /\ \A k \in 1 .. size - first : rest[k] = old[first + k]
  <2> DEFINE m == first + 1
  <2>1. m \in Int /\ size \in Int /\ m <= size /\ size - m + 1 = size - first
    BY <1>1, <1>2
  <2>2. \A i \in m .. size : old[i] \in Ids
    <3>1. old \in [1 .. size -> Ids]
      BY <1>1, LenProperties DEF size
    <3>2. \A i \in m .. size : i \in 1 .. size
      BY <1>1, <1>2
    <3> QED BY <3>1, <3>2
  <2>3. \A k \in 1 .. size - first : m + k - 1 = first + k
    BY <1>1, <1>2
  <2>4. rest = SubSeq(old, m, size)
    OBVIOUS
  <2> HIDE DEF m, rest
  <2>5. /\ SubSeq(old, m, size) \in Seq(Ids)
        /\ Len(SubSeq(old, m, size)) = IF m <= size THEN size - m + 1 ELSE 0
        /\ \A i \in 1 .. size - m + 1 : SubSeq(old, m, size)[i] = old[m + i - 1]
    BY <2>1, <2>2, SubSeqProperties
  <2> QED BY <2>1, <2>3, <2>4, <2>5
<1>4. IsSuffix(rest, new)
  BY DEF first, size
<1> HIDE DEF rest
<1>5. /\ Len(rest) <= Len(new)
      /\ \A k \in 1 .. Len(rest) : new[Len(new) - Len(rest) + k] = rest[k]
  BY <1>1, <1>3, <1>4, SuffixIs
<1>6. /\ next \in 0 .. Len(new) - 1 /\ Len(new) - next = size - first
      /\ \A k \in 1 .. size - first : new[next + k] = old[first + k]
  <2>1. next \in Int /\ Len(new) - next = size - first /\ next >= 0 /\ next <= Len(new) - 1
    BY <1>1, <1>2, <1>3, <1>5
  <2>2. \A k \in 1 .. size - first : new[next + k] = rest[k]
    BY <1>3, <1>5
  <2> HIDE DEF next
  <2> QED BY <1>1, <1>3, <2>1, <2>2
<1> HIDE DEF next
<1>7. IdAt(new, next) = a.id
  <2>1. 1 \in 1 .. size - first
    BY <1>1, <1>2
  <2> QED BY <1>2, <1>6, <2>1 DEF IdAt
<1>8. Has(new, a.id) /\ AnchorIndex(new, a) = next
  <2>1. Has(new, IdAt(new, next)) /\ IndexOf(new, IdAt(new, next)) = next
    BY <1>6, IndexAt
  <2> QED BY <1>7, <2>1 DEF AnchorIndex, IndexOr0
<1> DEFINE place == AnchorIndex(new, a)
<1>9. \A d \in 0 .. size - first - 1 : IdAt(new, place + d) = IdAt(old, first + d)
  <2> SUFFICES ASSUME NEW d \in 0 .. size - first - 1
               PROVE  IdAt(new, place + d) = IdAt(old, first + d)
    OBVIOUS
  <2>1. d + 1 \in 1 .. size - first /\ place + d + 1 = place + (d + 1)
        /\ first + d + 1 = first + (d + 1)
    BY <1>1, <1>2, <1>6, <1>8
  <2>2. new[place + (d + 1)] = old[first + (d + 1)]
    BY <1>6, <1>8, <2>1
  <2> QED BY <2>1, <2>2 DEF IdAt
<1> DEFINE steps == {e \in 0 .. size - first - 1 : StartOf(e) - a.offset < height}
<1>10. {[id |-> slot.id, at |-> slot.at] : slot \in Visible(old, a, height)}
         = {[id |-> IdAt(old, first + d), at |-> StartOf(d) - a.offset] : d \in steps}
  BY <1>1, DrawnFrom DEF first, size
<1>11. {[id |-> slot.id, at |-> slot.at] : slot \in Visible(new, a, height)}
         = {[id |-> IdAt(new, place + d), at |-> StartOf(d) - a.offset] : d \in steps}
  <2>1. {[id |-> slot.id, at |-> slot.at] : slot \in Visible(new, a, height)}
          = {[id |-> IdAt(new, place + d), at |-> StartOf(d) - a.offset] :
               d \in {e \in 0 .. Len(new) - place - 1 : StartOf(e) - a.offset < height}}
    BY <1>1, DrawnFrom
  <2>2. Len(new) - place - 1 = size - first - 1
    BY <1>1, <1>6, <1>8
  <2>3. {e \in 0 .. Len(new) - place - 1 : StartOf(e) - a.offset < height} = steps
    BY <2>2
  <2> HIDE DEF steps
  <2> QED BY <2>1, <2>3
<1>12. \A d \in steps : IdAt(new, place + d) = IdAt(old, first + d)
  BY <1>9
<1> HIDE DEF steps
<1> QED BY <1>8, <1>10, <1>11, <1>12

\* A row that lies within the window has a slot there.
LEMMA SlotFor ==
    ASSUME NEW ax \in Seq(Ids), NEW a \in Anchor, NEW height \in Nat,
           NEW n \in 0 .. Len(ax) - 1,
           StartOf(n) >= TopPixel(ax, a), StartOf(n) + RowHeight <= TopPixel(ax, a) + height
    PROVE  \E slot \in Visible(ax, a, height) :
             slot.id = IdAt(ax, n) /\ slot.at >= 0 /\ slot.at + RowHeight <= height
<1> DEFINE first == AnchorIndex(ax, a)
           top == TopPixel(ax, a)
           at == StartOf(n - first) - a.offset
           slot(i) == [id |-> IdAt(ax, i), index |-> i, at |-> StartOf(i - first) - a.offset]
<1>1. first \in Nat /\ Len(ax) \in Nat /\ n \in Nat /\ a.offset \in Nat
      /\ top = StartOf(first) + a.offset /\ RowHeight \in Nat \ {0}
  BY TopPixelNat, LengthIs, RowHeightAssumption DEF TopPixel, Anchor
<1>2. StartOf(n) >= top /\ StartOf(n) + RowHeight <= top + height
  OBVIOUS
<1>3. /\ StartOf(n - first) = StartOf(n) - StartOf(first)
      /\ StartOf(n) \in Int /\ StartOf(first) \in Int
      /\ n < first => StartOf(n) + RowHeight <= StartOf(first)
  <2>1. n \in Int /\ first \in Int
    BY <1>1
  <2> HIDE DEF first
  <2> QED BY <2>1, StartGrows
<1> HIDE DEF first, top
<1>4. n >= first
  BY <1>1, <1>2, <1>3
<1>5. at >= 0 /\ at + RowHeight <= height /\ at < height
  <2>1. at = StartOf(n) - top
    BY <1>1, <1>3
  <2>2. top \in Int
    BY <1>1, <1>3
  <2>3. StartOf(n) \in Int /\ RowHeight \in Nat \ {0}
    BY <1>1, <1>3
  <2> HIDE DEF at
  <2> DEFINE start == StartOf(n)
  <2>4. start \in Int /\ at = start - top /\ start >= top /\ start + RowHeight <= top + height
    BY <1>2, <2>1, <2>3
  <2> HIDE DEF start
  <2> QED BY <2>2, <2>3, <2>4
<1>6. slot(n) \in Visible(ax, a, height)
  <2>1. n \in {j \in first .. Len(ax) - 1 : StartOf(j - first) - a.offset < height}
    BY <1>1, <1>4, <1>5
  <2>2. Visible(ax, a, height)
          = {slot(i) : i \in {j \in first .. Len(ax) - 1 :
                                StartOf(j - first) - a.offset < height}}
    BY DEF Visible, first
  <2> HIDE DEF slot
  <2> QED BY <2>1, <2>2
<1>7. slot(n).id = IdAt(ax, n) /\ slot(n).at = at
  OBVIOUS
<1> HIDE DEF slot
<1> QED BY <1>5, <1>6, <1>7

\* What an edit of the sheet's shape keeps of the cursor and the viewport.
Stays ==
    /\ Has(axis', active) => active' = active
    /\ LET first == AnchorIndex(axis, view.anchor)
           rest == SubSeq(axis, first + 1, Len(axis))
           shownRows(slots) == {[id |-> slot.id, at |-> slot.at] : slot \in slots}
       IN view.anchor.id # NoId =>
            /\ IsSuffix(rest, axis') => shownRows(Shown') = shownRows(Shown)
            /\ ~Has(axis', view.anchor.id) =>
                  TopPixel(axis', view'.anchor) = TopPixel(axis, view.anchor)

LEMMA ReshapeStays ==
    ASSUME IInv, BookOK(book'), Rebuilt, ~ Open, axis' # <<>>
    PROVE  Stays
<1> DEFINE to == axis'
           a == view.anchor
           new == Reanchored(to, axis, a)
<1>1. /\ view' = [view EXCEPT !.anchor = Reanchored(to, axis, @)]
      /\ active' = Refound(active, to)
  BY DEF Rebuilt
<1>2. Order(Ids, to) /\ Order(Ids, axis) /\ axis \in Seq(Ids)
  BY RebuiltKeeps, AxisFacts DEF IInv
<1>3. Has(to, active) => active' = active
  <2>1. active \in Ids
    BY DEF IInv, CursorOK
  <2> QED BY <1>1, <1>2, <2>1, RefoundIs
<1>4. /\ view = [anchor |-> a, height |-> view.height]
      /\ a \in Anchor /\ view.height \in Nat /\ (a.id # NoId => Has(axis, a.id))
  BY ShellAssumption DEF IInv, ViewOK
<1>5. view'.anchor = new /\ view'.height = view.height
  <2>1. view' = [view EXCEPT !.anchor = new]
    BY <1>1
  <2> HIDE DEF new, a
  <2> QED BY <1>4, <2>1
<1>6. ASSUME a.id # NoId, ~ Has(to, a.id)
      PROVE  TopPixel(to, view'.anchor) = TopPixel(axis, a)
  <2>1. TopPixel(to, new) = TopPixel(axis, a)
    BY <1>2, <1>4, <1>6, ReanchoredOK
  <2> HIDE DEF new
  <2> QED BY <1>5, <2>1
<1>7. ASSUME a.id # NoId, IsSuffix(SubSeq(axis, AnchorIndex(axis, a) + 1, Len(axis)), to)
      PROVE  {[id |-> slot.id, at |-> slot.at] : slot \in Shown'}
               = {[id |-> slot.id, at |-> slot.at] : slot \in Shown}
  <2>1. /\ Has(to, a.id)
        /\ {[id |-> slot.id, at |-> slot.at] : slot \in Visible(to, a, view.height)}
             = {[id |-> slot.id, at |-> slot.at] : slot \in Visible(axis, a, view.height)}
    BY <1>2, <1>4, <1>7, RestStays
  <2>2. new = a
    BY <1>2, <1>4, <2>1, ReanchoredOK
  <2>3. Shown' = Visible(to, a, view.height) /\ Shown = Visible(axis, a, view.height)
    <3> HIDE DEF new
    <3> QED BY <1>5, <2>2 DEF Shown
  <2> QED BY <2>1, <2>3
<1> QED BY <1>3, <1>6, <1>7 DEF Stays

\* Only an edit of the sheet's shape changes the axis.
LEMMA OnlyReshape ==
    ASSUME IInv, Next, axis' # axis
    PROVE  ~ Open /\ BookOK(book') /\ Rebuilt
<1>1. ASSUME Typing PROVE FALSE
  BY <1>1 DEF Typing, BeginEdit, Insert, Backspace, DeleteForward, CaretTo, Cancel,
     Preedit, PreeditWithdrawn, ImeCommit, EditTo, doc
<1>2. ASSUME Moving PROVE FALSE
  BY <1>2 DEF Moving, Move, CommitAnd, MoveCursor, Scroll, Resize, doc
<1>3. ASSUME Pointing PROVE FALSE
  BY <1>3 DEF Pointing, PressHandle, PressOutside, DragOverNothing, Release, PressCell,
     DragTo, doc
<1>4. ASSUME Changing PROVE ~ Open /\ BookOK(book') /\ Rebuilt
  <2>1. ASSUME \/ ClearSelection \/ Paste \/ PasteNothing
               \/ \E cutting, refused \in BOOLEAN : Copy(cutting, refused)
               \/ \E word \in Foreign : ForeignCopy(word)
        PROVE  FALSE
    BY <2>1 DEF ClearSelection, Paste, PasteNothing, Copy, ForeignCopy, doc
  <2> QED BY <1>4, <2>1, Reshaped DEF Changing
<1> QED BY <1>1, <1>2, <1>3, <1>4 DEF Next

-----------------------------------------------------------------------------
(* A cursor that moves is on screen.                                       *)

\* The least scroll brings a row into view.
LEMMA BroughtIntoView ==
    ASSUME NEW ax, Order(Ids, ax), NEW a \in Anchor, NEW height \in Nat,
           RowHeight <= height, NEW n \in 0 .. Len(ax) - 1
    PROVE  LET delta == ScrollNeeded(ax, a, height, IdAt(ax, n))
               new == IF delta = 0 THEN a ELSE Scrolled(ax, a, delta, height)
           IN /\ new \in Anchor
              /\ StartOf(n) >= TopPixel(ax, new)
              /\ StartOf(n) + RowHeight <= TopPixel(ax, new) + height
<1> DEFINE delta == ScrollNeeded(ax, a, height, IdAt(ax, n))
           new == IF delta = 0 THEN a ELSE Scrolled(ax, a, delta, height)
           top == TopPixel(ax, a)
           at == StartOf(n)
           extent == Extent(ax)
           target == Target(ax, a, delta, height)
<1>1. ax \in Seq(Ids) /\ Len(ax) \in Nat /\ RowHeight \in Nat \ {0} /\ n \in Nat
      /\ ax # <<>>
  <2>1. ax \in Seq(Ids)
    BY DEF Order
  <2>2. Len(ax) \in Nat /\ (ax = <<>> => Len(ax) = 0)
    BY <2>1, LengthIs
  <2> QED BY <2>1, <2>2, RowHeightAssumption
<1>2. delta \in Int
  BY <1>1, NeededInt
<1>3. top \in Nat
  BY <1>1, TopPixelNat
<1>4. at \in Nat /\ at + RowHeight <= extent /\ extent \in Int
  <2> DEFINE size == Len(ax)
  <2>1. n \in Int /\ size \in Int /\ n < size /\ n >= 0
    BY <1>1
  <2>2. StartOf(n) \in Int /\ StartOf(n) >= 0 /\ StartOf(size) \in Int
        /\ StartOf(n) + RowHeight <= StartOf(size)
    <3> HIDE DEF size
    <3> QED BY <2>1, StartGrows
  <2> QED BY <2>2 DEF Extent
<1>5. delta = IF at < top THEN at - top
              ELSE IF at + RowHeight > top + height THEN at + RowHeight - (top + height)
              ELSE 0
  <2>1. Has(ax, IdAt(ax, n)) /\ PixelOf(ax, IdAt(ax, n)) = at
    BY IndexAt DEF PixelOf
  <2>2. top = (IF Has(ax, a.id) THEN PixelOf(ax, a.id) ELSE 0) + a.offset
    <3>1. CASE Has(ax, a.id)
      BY <3>1 DEF TopPixel, AnchorIndex, IndexOr0, PixelOf
    <3>2. CASE ~ Has(ax, a.id)
      <4>1. StartOf(0) = 0
        BY RowHeightAssumption DEF StartOf
      <4> QED BY <3>2, <4>1 DEF TopPixel, AnchorIndex, IndexOr0
    <3> QED BY <3>1, <3>2
  <2> HIDE DEF top, at
  <2> QED BY <2>1, <2>2 DEF ScrollNeeded
<1>6. target = LET room == extent - height
                   lowest == IF room <= 0 THEN 0 ELSE room
                   wanted == top + delta
               IN IF wanted < 0 THEN 0 ELSE IF wanted <= lowest THEN wanted ELSE lowest
  <2> DEFINE room == extent - height
             lowest == IF room <= 0 THEN 0 ELSE room
             wanted == top + delta
  <2>1. /\ wanted < 0 => target = 0
        /\ wanted >= 0 => target = IF wanted <= lowest THEN wanted ELSE lowest
    <3> HIDE DEF delta
    <3> QED BY <1>1, <1>2, TargetIs
  <2>2. wanted \in Int
    <3> HIDE DEF delta, top
    <3> QED BY <1>2, <1>3
  <2> HIDE DEF wanted, lowest, target
  <2>3. target = IF wanted < 0 THEN 0 ELSE IF wanted <= lowest THEN wanted ELSE lowest
    BY <2>1, <2>2
  <2> QED BY <2>3 DEF wanted, lowest
<1>7. /\ new \in Anchor
      /\ delta = 0 => new = a
      /\ delta # 0 => TopPixel(ax, new) = target
  <2> HIDE DEF delta
  <2> QED BY <1>1, <1>2, ScrolledTo
<1> HIDE DEF top, at, extent, target, delta
<1>8. CASE delta = 0
  <2>1. at >= top /\ at + RowHeight <= top + height
    BY <1>1, <1>3, <1>4, <1>5, <1>8
  <2> QED BY <1>7, <1>8, <2>1 DEF top, at, delta
<1>9. CASE delta # 0
  <2>1. at >= target /\ at + RowHeight <= target + height
    <3>1. CASE at < top
      <4>1. top + delta = at
        BY <1>3, <1>4, <1>5, <3>1
      <4> QED BY <1>1, <1>3, <1>4, <1>6, <4>1
    <3>2. CASE ~ (at < top) /\ at + RowHeight > top + height
      <4>1. top + delta = at + RowHeight - height
        BY <1>1, <1>3, <1>4, <1>5, <3>2
      <4> QED BY <1>1, <1>3, <1>4, <1>6, <3>2, <4>1
    <3> QED BY <1>1, <1>3, <1>4, <1>5, <1>9, <3>1, <3>2
  <2> HIDE DEF new
  <2>2. at >= TopPixel(ax, new) /\ at + RowHeight <= TopPixel(ax, new) + height
    BY <1>7, <1>9, <2>1
  <2> QED BY <1>7, <2>2 DEF at, new, delta
<1> QED BY <1>8, <1>9

LEMMA MoveShows ==
    ASSUME IInv, NEW step \in Steps, NEW extend, MoveCursor(step, extend), active' # active,
           RowHeight <= view.height
    PROVE  FullyShown(active)'
<1>1. axis' = axis /\ axis # <<>>
  BY DEF MoveCursor, cursor
<1> DEFINE n == Reached(step, ActiveIndex)
           a == view.anchor
           height == view.height
           delta == ScrollNeeded(axis, a, height, IdAt(axis, n))
           new == IF delta = 0 THEN a ELSE Scrolled(axis, a, delta, height)
<1>2. /\ active' = IdAt(axis, n)
      /\ view' = IF delta = 0 THEN view
                 ELSE [view EXCEPT !.anchor = Scrolled(axis, @, delta, height)]
  BY <1>1 DEF MoveCursor
<1>3. /\ view = [anchor |-> a, height |-> height] /\ a \in Anchor /\ height \in Nat
  BY ShellAssumption DEF IInv, ViewOK
<1>4. n \in 0 .. Len(axis) - 1
  BY <1>1, ReachedIs
<1>5. Order(Ids, axis) /\ axis \in Seq(Ids)
  BY AxisFacts DEF IInv
<1>6. view'.anchor = new /\ view'.height = height
  <2> DEFINE moved == Scrolled(axis, a, delta, height)
  <2>1. view' = IF delta = 0 THEN view ELSE [view EXCEPT !.anchor = moved]
    BY <1>2
  <2>2. new = IF delta = 0 THEN a ELSE moved
    OBVIOUS
  <2> HIDE DEF moved, delta, new, a, height
  <2> QED BY <1>3, <2>1, <2>2
<1> HIDE DEF n
<1>7. /\ new \in Anchor /\ StartOf(n) >= TopPixel(axis, new)
      /\ StartOf(n) + RowHeight <= TopPixel(axis, new) + height
  BY <1>3, <1>4, <1>5, BroughtIntoView
<1> HIDE DEF new, delta
<1>8. \E slot \in Visible(axis, new, height) :
        slot.id = IdAt(axis, n) /\ slot.at >= 0 /\ slot.at + RowHeight <= height
  <2> HIDE DEF height
  <2> QED BY <1>3, <1>4, <1>5, <1>7, SlotFor
<1>9. Shown' = Visible(axis, new, height)
  <2> HIDE DEF height
  <2> QED BY <1>1, <1>6 DEF Shown
<1> QED BY <1>2, <1>6, <1>8, <1>9 DEF FullyShown

\* Only a move of the cursor takes it to another row of the same sheet, with no button down.
LEMMA OnlyMoves ==
    ASSUME IInv, Next, active' # active, axis' = axis, ~ pressed, ~ pressed'
    PROVE  \E step \in Steps, extend \in BOOLEAN : MoveCursor(step, extend)
<1>1. ASSUME Typing PROVE FALSE
  BY <1>1 DEF Typing, BeginEdit, Insert, Backspace, DeleteForward, CaretTo, Cancel,
     Preedit, PreeditWithdrawn, ImeCommit, EditTo, cursor
<1>2. ASSUME Moving PROVE \E step \in Steps, extend \in BOOLEAN : MoveCursor(step, extend)
  <2>1. ASSUME (\E delta \in Scrolls : Scroll(delta)) \/ \E height \in Heights : Resize(height)
        PROVE  FALSE
    BY <2>1 DEF Scroll, Resize, cursor
  <2>2. ASSUME NEW step \in Steps, CommitAnd(step) PROVE MoveCursor(step, FALSE)
    BY <2>2 DEF CommitAnd
  <2>3. ASSUME NEW step \in Steps, NEW extend \in BOOLEAN, Move(step, extend)
        PROVE  MoveCursor(step, extend)
    BY <2>3 DEF Move
  <2> QED BY <1>2, <2>1, <2>2, <2>3 DEF Moving
<1>3. ASSUME Pointing PROVE FALSE
  BY <1>3 DEF Pointing, PressHandle, PressOutside, DragOverNothing, Release, PressCell,
     DragTo
<1>4. ASSUME Changing PROVE FALSE
  <2>1. ASSUME \/ ClearSelection \/ Paste \/ PasteNothing
               \/ \E cutting, refused \in BOOLEAN : Copy(cutting, refused)
               \/ \E word \in Foreign : ForeignCopy(word)
        PROVE  FALSE
    BY <2>1 DEF ClearSelection, Paste, PasteNothing, Copy, ForeignCopy, cursor
  <2>2. ASSUME \/ \E kind \in {"insert", "delete"} : Restructure(kind)
               \/ \E undoing \in BOOLEAN : History(undoing)
        PROVE  FALSE
    <3>1. active' = Refound(active, axis)
      BY <2>2, Reshaped DEF Rebuilt
    <3>2. Has(axis, active) \/ axis = <<>>
      BY DEF IInv, CursorOK
    <3> QED BY <3>1, <3>2 DEF Refound
  <2> QED BY <1>4, <2>1, <2>2 DEF Changing
<1> QED BY <1>1, <1>2, <1>3, <1>4 DEF Next

\* After an edit of the sheet's shape, also one an undo or a redo brings, the
\* cursor is on the row it was on if that lives; the rows drawn stay where they
\* were if none of them changed, and a viewport whose own row is gone keeps its
\* pixel; and a cursor that moves is scrolled fully into view
\* (App::rebuild_axes, ensure_visible).
THEOREM NothingTeleports == Spec => ViewHolds
<1>1. IInv /\ [Next]_vars =>
        [/\ axis' # axis /\ axis' # <<>> =>
              /\ Has(axis', active) => active' = active
              /\ LET first == AnchorIndex(axis, view.anchor)
                     rest == SubSeq(axis, first + 1, Len(axis))
                     shownRows(slots) == {[id |-> slot.id, at |-> slot.at] : slot \in slots}
                 IN view.anchor.id # NoId =>
                      /\ IsSuffix(rest, axis') => shownRows(Shown') = shownRows(Shown)
                      /\ ~Has(axis', view.anchor.id) =>
                            TopPixel(axis', view'.anchor) = TopPixel(axis, view.anchor)
         /\ active' # active /\ axis' = axis /\ ~pressed /\ ~pressed'
              /\ RowHeight <= view.height => FullyShown(active)'
        ]_vars
  <2> SUFFICES ASSUME IInv, Next
               PROVE  /\ axis' # axis /\ axis' # <<>> => Stays
                      /\ active' # active /\ axis' = axis /\ ~pressed /\ ~pressed'
                           /\ RowHeight <= view.height => FullyShown(active)'
    BY DEF Stays
  <2>1. ASSUME axis' # axis, axis' # <<>> PROVE Stays
    BY <2>1, OnlyReshape, ReshapeStays
  <2>2. ASSUME active' # active, axis' = axis, ~ pressed, ~ pressed', RowHeight <= view.height
        PROVE  FullyShown(active)'
    BY <2>2, OnlyMoves, MoveShows
  <2> QED BY <2>1, <2>2
<1> QED BY <1>1, ShellInvariant, PTL DEF Spec, ViewHolds
=============================================================================
