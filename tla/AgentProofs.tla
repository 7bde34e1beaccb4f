---------------------------- MODULE AgentProofs ----------------------------
(* Theorems about AgentServer, for every value of its constants. *)
EXTENDS AgentServer, SequenceTheorems, FiniteSetTheorems, WellFoundedInduction, TLAPS

-----------------------------------------------------------------------------
(* Induction up to a bound, with the property as a set of numbers, and what *)
(* the folds compute: the library writes them as a recursion over the sets  *)
(* of indices that takes the largest away.                                  *)

\* A nonempty set of naturals has a least element.
LEMMA LeastNatural ==
    ASSUME NEW I \in SUBSET Nat, I # {}
    PROVE  \E x \in I : \A y \in I : x <= y
<1>1. PICK x \in I : \A y \in I : ~(<<y, x>> \in OpToRel(<, Nat))
  BY NatLessThanWellFounded, WFMin
<1>2. \A y \in I : ~(y < x)
  BY <1>1 DEF OpToRel
<1> QED BY <1>2

\* A set with the first number, and the next of each below the bound, has all.
LEMMA UpTo ==
    ASSUME NEW n \in Nat, NEW T, 0 \in T, \A k \in 0 .. n - 1 : k \in T => k + 1 \in T
    PROVE  0 .. n \subseteq T
<1> DEFINE Bad == 0 .. n \ T
<1>1. SUFFICES ASSUME Bad # {}
               PROVE  FALSE
  OBVIOUS
<1>2. PICK least \in Bad : \A k \in Bad : least <= k
  <2>1. Bad \in SUBSET Nat
    OBVIOUS
  <2> HIDE DEF Bad
  <2> QED BY <1>1, <2>1, LeastNatural
<1>3. least # 0 /\ least - 1 \in 0 .. n - 1 /\ ~ (least <= least - 1)
  OBVIOUS
<1>4. least - 1 \in T
  BY <1>2, <1>3
<1> QED BY <1>3, <1>4

\* What starts in a set and stays in it at each step is in it throughout.
LEMMA StaysIn ==
    ASSUME NEW n \in Nat, NEW S, NEW run, run[0] \in S,
           \A k \in 0 .. n - 1 : run[k] \in S => run[k + 1] \in S
    PROVE  \A k \in 0 .. n : run[k] \in S
<1> DEFINE T == {k \in 0 .. n : run[k] \in S}
<1>1. 0 \in T /\ \A k \in 0 .. n - 1 : k \in T => k + 1 \in T
  OBVIOUS
<1>2. 0 .. n \subseteq T
  <2> HIDE DEF T
  <2> QED BY <1>1, UpTo
<1> QED BY <1>2

\* Max is the greatest element of a bounded set.
LEMMA MaxGreatest ==
    ASSUME NEW n \in Nat, NEW s \in SUBSET (0 .. n), s # {}
    PROVE  Max(s) \in s /\ \A y \in s : y <= Max(s)
<1> DEFINE J == {n - x : x \in s}
<1>1. J \in SUBSET Nat /\ J # {}
  <2>1. \A x \in s : n - x \in Nat
    OBVIOUS
  <2> QED BY <2>1
<1>2. PICK j \in J : \A y \in J : j <= y
  BY <1>1, LeastNatural
<1>3. PICK x \in s : j = n - x
  OBVIOUS
<1>4. \A y \in s : n - x <= n - y
  BY <1>2, <1>3
<1>5. \A y \in s : y <= x
  BY <1>4
<1> QED BY <1>5 DEF Max

\* The largest of the first numbers is the last.
LEMMA LargestIsLast ==
    ASSUME NEW k \in Nat, NEW s \in SUBSET (1 .. k + 1), k + 1 \in s
    PROVE  Max(s) = k + 1
<1> DEFINE m == Max(s)
<1> HIDE DEF m
<1>0. k + 1 \in Nat /\ s # {} /\ s \in SUBSET (0 .. k + 1)
  OBVIOUS
<1>1. m \in s /\ \A y \in s : y <= m
  BY <1>0, MaxGreatest DEF m
<1>2. m \in 1 .. k + 1 /\ k + 1 <= m
  BY <1>1
<1>3. m = k + 1
  BY <1>2
<1> QED BY <1>3 DEF m

\* So taking the largest of the first i indices away leaves the first i - 1.
LEMMA Firsts ==
    ASSUME NEW n \in Nat, NEW i \in 1 .. n
    PROVE  /\ 1 .. i \in SUBSET (1 .. n) /\ 1 .. i # {}
           /\ Max(1 .. i) = i /\ (1 .. i) \ {i} = 1 .. i - 1
<1>1. i - 1 \in Nat /\ (i - 1) + 1 = i
  OBVIOUS
<1>2. 1 .. i \in SUBSET (1 .. (i - 1) + 1) /\ (i - 1) + 1 \in 1 .. i
  OBVIOUS
<1>3. Max(1 .. i) = (i - 1) + 1
  BY <1>1, <1>2, LargestIsLast
<1>4. i \in 1 .. i /\ 1 .. i \in SUBSET (1 .. n) /\ (1 .. i) \ {i} = 1 .. i - 1
  OBVIOUS
<1> QED BY <1>1, <1>3, <1>4

\* h is the recursion over the sets of the first k indices; run is the result
\* after each step.
Recursion(h, S, base, k, g) ==
    /\ h \in [SUBSET (1 .. k) -> S]
    /\ \A s \in SUBSET (1 .. k) : h[s] = IF s = {} THEN base ELSE g[Max(s)][h[s \ {Max(s)}]]
Steps(run, S, base, n, g) ==
    /\ run \in [0 .. n -> S]
    /\ run[0] = base
    /\ \A i \in 1 .. n : run[i] = g[i][run[i - 1]]

\* The recursion over the sets of indices has a solution.
LEMMA FoldExists ==
    ASSUME NEW S, NEW base \in S, NEW n \in Nat, NEW g,
           \A i \in 1 .. n : \A x \in S : g[i][x] \in S
    PROVE  \E h : Recursion(h, S, base, n, g)
<1> DEFINE T == {k \in 0 .. n : \E h : Recursion(h, S, base, k, g)}
<1>1. 0 \in T
  <2> DEFINE h0 == [s \in SUBSET (1 .. 0) |-> base]
  <2>1. \A s \in SUBSET (1 .. 0) : s = {}
    OBVIOUS
  <2>2. h0 \in [SUBSET (1 .. 0) -> S]
    OBVIOUS
  <2>3. \A s \in SUBSET (1 .. 0) : h0[s] = base
    OBVIOUS
  <2>4. Recursion(h0, S, base, 0, g)
    BY <2>1, <2>2, <2>3 DEF Recursion
  <2>5. 0 \in 0 .. n
    OBVIOUS
  <2> HIDE DEF h0
  <2> QED BY <2>4, <2>5
<1>2. ASSUME NEW k \in 0 .. n - 1, k \in T
      PROVE  k + 1 \in T
  <2>1. PICK h : Recursion(h, S, base, k, g)
    BY <1>2
  <2>0. h \in [SUBSET (1 .. k) -> S]
    BY <2>1 DEF Recursion
  <2> DEFINE h2 == [s \in SUBSET (1 .. k + 1) |->
                      IF k + 1 \in s THEN g[k + 1][h[s \ {k + 1}]] ELSE h[s]]
  <2>2. \A s \in SUBSET (1 .. k + 1) :
            IF k + 1 \in s THEN s \ {k + 1} \in SUBSET (1 .. k) ELSE s \in SUBSET (1 .. k)
    OBVIOUS
  <2>3. k + 1 \in 1 .. n
    OBVIOUS
  <2>4. h2 \in [SUBSET (1 .. k + 1) -> S]
    BY <2>0, <2>2, <2>3
  <2>5. ASSUME NEW s \in SUBSET (1 .. k + 1)
        PROVE  h2[s] = IF s = {} THEN base ELSE g[Max(s)][h2[s \ {Max(s)}]]
    <3>1. CASE k + 1 \in s
      <4>1. Max(s) = k + 1
        BY <3>1, LargestIsLast
      <4>2. h2[s \ {k + 1}] = h[s \ {k + 1}]
        OBVIOUS
      <4> QED BY <3>1, <4>1, <4>2
    <3>2. CASE k + 1 \notin s
      <4>1. s \in SUBSET (1 .. k)
        BY <2>2, <3>2
      <4>0. s \ {Max(s)} \in SUBSET (1 .. k) /\ s \ {Max(s)} \in SUBSET (1 .. k + 1)
        BY <4>1
      <4>2. h2[s] = h[s] /\ h2[s \ {Max(s)}] = h[s \ {Max(s)}]
        BY <3>2, <4>0
      <4> QED BY <2>1, <4>1, <4>2 DEF Recursion
    <3> QED BY <3>1, <3>2
  <2> HIDE DEF h2
  <2>6. Recursion(h2, S, base, k + 1, g)
    BY <2>4, <2>5 DEF Recursion
  <2>7. k + 1 \in 0 .. n
    OBVIOUS
  <2> QED BY <2>6, <2>7
<1>3. 0 .. n \subseteq T
  <2> HIDE DEF T
  <2> QED BY <1>1, <1>2, UpTo
<1>4. n \in T
  <2> HIDE DEF T
  <2> QED BY <1>3
<1> QED BY <1>4

\* A solution, taken at the first indices, is the run of the steps in order.
LEMMA FoldSteps ==
    ASSUME NEW S, NEW base \in S, NEW n \in Nat, NEW g, NEW h, Recursion(h, S, base, n, g),
           \A i \in 1 .. n : \A x \in S : g[i][x] \in S
    PROVE  \E run : Steps(run, S, base, n, g) /\ run[n] = h[1 .. n]
<1>0. \A s \in SUBSET (1 .. n) : h[s] = IF s = {} THEN base ELSE g[Max(s)][h[s \ {Max(s)}]]
  BY DEF Recursion
<1> DEFINE run == [i \in 0 .. n |-> h[1 .. i]]
<1>1. run[0] = base
  <2>1. 1 .. 0 = {} /\ {} \in SUBSET (1 .. n)
    OBVIOUS
  <2>2. h[{}] = base
    BY <1>0, <2>1
  <2> QED BY <2>1, <2>2
<1>2. ASSUME NEW i \in 1 .. n
      PROVE  run[i] = g[i][run[i - 1]]
  <2>1. h[1 .. i] = g[i][h[1 .. i - 1]]
    BY <1>0, Firsts
  <2> QED BY <2>1
<1>3. \A k \in 0 .. n : run[k] \in S
  <2> HIDE DEF run
  <2>1. \A k \in 0 .. n - 1 : k + 1 \in 1 .. n /\ (k + 1) - 1 = k
    OBVIOUS
  <2>2. \A k \in 0 .. n - 1 : run[k] \in S => run[k + 1] \in S
    BY <1>2, <2>1
  <2> QED BY <1>1, <2>2, StaysIn
<1>4. run \in [0 .. n -> S] /\ run[n] = h[1 .. n]
  BY <1>3
<1>5. Steps(run, S, base, n, g)
  BY <1>1, <1>2, <1>4 DEF Steps
<1> HIDE DEF run
<1> QED BY <1>4, <1>5

\* Steps one after the other lead somewhere.
LEMMA StepsExist ==
    ASSUME NEW S, NEW base \in S, NEW n \in Nat, NEW g,
           \A i \in 1 .. n : \A x \in S : g[i][x] \in S
    PROVE  \E run : Steps(run, S, base, n, g)
  BY FoldExists, FoldSteps

-----------------------------------------------------------------------------
(* The session: what a book is, and that every operation leaves one.       *)

Groups == [kind : {"wrote", "inserted"}, row : Nat \ {0}, prior : Contents]
BookFields ==
    [rows : Seq(Nat), gone : SUBSET Nat, content : Seq(Contents), winner : Seq({"agent", "other", "none"}),
     wrote : Seq(SUBSET {"agent", "other"}), undo : Seq(Groups)]

\* Rows are numbered as inserted, and everything names rows there are.
BookOK(b) ==
    /\ \A i \in 1 .. Len(b.rows) : b.rows[i] = i
    /\ Len(b.content) = Len(b.rows)
    /\ Len(b.winner) = Len(b.rows)
    /\ Len(b.wrote) = Len(b.rows)
    /\ b.gone \subseteq 1 .. Len(b.rows)
    /\ \A i \in 1 .. Len(b.undo) : b.undo[i].row \in 1 .. Len(b.rows)
Books == {b \in BookFields : BookOK(b)}

\* Live rows are gathered row by row.
LEMMA LiveSteps ==
    ASSUME NEW R, NEW b, b.rows \in Seq(R)
    PROVE  \E live \in [0 .. Len(b.rows) -> Seq(R)] :
              /\ live[0] = <<>> /\ live[Len(b.rows)] = Live(b)
              /\ \A i \in 1 .. Len(b.rows) :
                    live[i] = IF b.rows[i] \in b.gone THEN live[i - 1]
                              ELSE Append(live[i - 1], b.rows[i])
<1> DEFINE n == Len(b.rows)
           g == [i \in 1 .. n |-> [l \in Seq(R) |->
                    IF b.rows[i] \in b.gone THEN l ELSE Append(l, b.rows[i])]]
           solution == CHOOSE f : f = [i \in 0 .. n |->
                IF i = 0 THEN <<>>
                ELSE IF b.rows[i] \in b.gone THEN f[i - 1] ELSE Append(f[i - 1], b.rows[i])]
<1>0. n \in Nat /\ \A i \in 1 .. n : b.rows[i] \in R
  OBVIOUS
<1>1. \A i \in 1 .. n : \A l \in Seq(R) : g[i][l] \in Seq(R)
  BY <1>0
<1>2. PICK f \in [0 .. n -> Seq(R)] : f[0] = <<>> /\ \A i \in 1 .. n : f[i] = g[i][f[i - 1]]
  <2> DEFINE S == Seq(R)
             none == <<>>
  <2>1. none \in S
    OBVIOUS
  <2>2. n \in Nat /\ \A i \in 1 .. n : \A l \in S : g[i][l] \in S
    BY <1>0, <1>1
  <2> HIDE DEF g, n, S, none
  <2>3. \E f : Steps(f, S, none, n, g)
    BY <2>1, <2>2, StepsExist
  <2> QED BY <2>3 DEF S, none, Steps
<1>3. ASSUME NEW i \in 1 .. n
      PROVE  f[i] = IF b.rows[i] \in b.gone THEN f[i - 1] ELSE Append(f[i - 1], b.rows[i])
  <2>1. i - 1 \in 0 .. n
    BY <1>0
  <2>2. f[i - 1] \in Seq(R)
    BY <2>1
  <2> QED BY <1>2, <2>2
<1>5. f = [i \in 0 .. n |->
                IF i = 0 THEN <<>>
                ELSE IF b.rows[i] \in b.gone THEN f[i - 1] ELSE Append(f[i - 1], b.rows[i])]
  <2>1. \A i \in 0 .. n : i = 0 \/ i \in 1 .. n
    BY <1>0
  <2> QED BY <1>2, <1>3, <2>1
<1>6. solution = [i \in 0 .. n |->
                IF i = 0 THEN <<>>
                ELSE IF b.rows[i] \in b.gone THEN solution[i - 1]
                ELSE Append(solution[i - 1], b.rows[i])]
  BY <1>5
<1>7. Live(b) = solution[n]
  BY Zenon DEF Live
<1> HIDE DEF solution
<1>8. ASSUME NEW i \in 1 .. n
      PROVE  solution[i] = IF b.rows[i] \in b.gone THEN solution[i - 1]
                           ELSE Append(solution[i - 1], b.rows[i])
  <2>1. i \in 0 .. n /\ i # 0
    BY <1>0
  <2> QED BY <1>6, <2>1
<1>9. solution[0] = <<>>
  BY <1>0, <1>6
<1>10. solution \in [0 .. n -> Seq(R)]
  <2>1. solution[0] \in Seq(R)
    BY <1>9
  <2>2. ASSUME NEW k \in 0 .. n - 1, solution[k] \in Seq(R)
        PROVE  solution[k + 1] \in Seq(R)
    <3>1. k + 1 \in 0 .. n /\ k + 1 \in 1 .. n /\ (k + 1) - 1 = k
      BY <1>0
    <3>2. solution[k + 1] = IF b.rows[k + 1] \in b.gone THEN solution[k]
                            ELSE Append(solution[k], b.rows[k + 1])
      BY <1>8, <3>1
    <3>3. b.rows[k + 1] \in R
      BY <1>0, <3>1
    <3> QED BY <2>2, <3>2, <3>3
  <2>3. \A k \in 0 .. n : solution[k] \in Seq(R)
    <3> DEFINE S == Seq(R)
    <3> HIDE DEF S, n
    <3> QED BY <1>0, <2>1, <2>2, StaysIn DEF S
  <2>4. solution = [i \in 0 .. n |-> solution[i]]
    BY <1>6
  <2> QED BY <2>3, <2>4
<1> QED BY <1>7, <1>8, <1>9, <1>10

\* A live row is one of the rows.
LEMMA LiveType ==
    ASSUME NEW b \in Books
    PROVE  Live(b) \in Seq(1 .. Len(b.rows))
<1>1. b.rows \in Seq(1 .. Len(b.rows))
  <2>1. b.rows \in Seq(Nat) /\ \A i \in 1 .. Len(b.rows) : b.rows[i] = i
    BY DEF Books, BookFields, BookOK
  <2> DEFINE q == b.rows
  <2> HIDE DEF q
  <2>2. q \in Seq(Nat) /\ \A i \in 1 .. Len(q) : q[i] \in 1 .. Len(q)
    BY <2>1 DEF q
  <2>3. q \in Seq(1 .. Len(q))
    BY <2>2
  <2> QED BY <2>3 DEF q
<1> DEFINE R == 1 .. Len(b.rows)
<1> HIDE DEF R
<1>2. \E live \in [0 .. Len(b.rows) -> Seq(R)] : live[Len(b.rows)] = Live(b)
  BY <1>1, LiveSteps DEF R
<1>3. Len(b.rows) \in 0 .. Len(b.rows)
  BY <1>1
<1> QED BY <1>2, <1>3 DEF R

LEMMA BlankIsContent == Blank \in Contents
  BY DEF Blank, Contents

\* w is b with the cell written.
Written(w, b, row, content, who) ==
    /\ w \in Books
    /\ w.rows = b.rows /\ w.gone = b.gone /\ w.undo = b.undo
    /\ w.content = [b.content EXCEPT ![row] = content]
    /\ w.winner = [b.winner EXCEPT ![row] = who]
    /\ w.wrote = [b.wrote EXCEPT ![row] = @ \union {who}]

\* What a write, a group more or less to undo, and a deletion leave.
LEMMA WriteFields ==
    ASSUME NEW b \in Books, NEW row \in 1 .. Len(b.rows), NEW content \in Contents,
           NEW who \in {"agent", "other"}
    PROVE  Written(Write(b, row, content, who), b, row, content, who)
<1> DEFINE w == Write(b, row, content, who)
           c == [b.content EXCEPT ![row] = content]
           v == [b.winner EXCEPT ![row] = who]
           o == [b.wrote EXCEPT ![row] = @ \union {who}]
<1>1. c \in Seq(Contents) /\ Len(c) = Len(b.rows)
  BY DEF Books, BookFields, BookOK
<1>2. v \in Seq({"agent", "other", "none"}) /\ Len(v) = Len(b.rows)
  BY DEF Books, BookFields, BookOK
<1>3. o \in Seq(SUBSET {"agent", "other"}) /\ Len(o) = Len(b.rows)
  BY DEF Books, BookFields, BookOK
<1>4. w = [b EXCEPT !.content = c, !.winner = v, !.wrote = o]
  BY DEF Write
<1> HIDE DEF c, v, o, w
<1>5. /\ w.rows = b.rows /\ w.gone = b.gone /\ w.undo = b.undo
      /\ w.content = c /\ w.winner = v /\ w.wrote = o
  BY <1>4 DEF Books, BookFields
<1>6. w \in BookFields
  BY <1>1, <1>2, <1>3, <1>4 DEF Books, BookFields
<1>7. BookOK(w)
  BY <1>1, <1>2, <1>3, <1>5 DEF Books, BookOK
<1> QED BY <1>5, <1>6, <1>7 DEF w, c, v, o, Books, Written

LEMMA PushFields ==
    ASSUME NEW b \in Books, NEW g \in Groups, g.row \in 1 .. Len(b.rows)
    PROVE  LET w == [b EXCEPT !.undo = Append(@, g)]
           IN /\ w \in Books
              /\ w.rows = b.rows /\ w.gone = b.gone /\ w.content = b.content
              /\ w.winner = b.winner /\ w.wrote = b.wrote /\ w.undo = Append(b.undo, g)
<1> DEFINE u == Append(b.undo, g)
           w == [b EXCEPT !.undo = u]
<1>1. u \in Seq(Groups) /\ Len(u) = Len(b.undo) + 1
      /\ u[Len(b.undo) + 1] = g /\ \A i \in 1 .. Len(b.undo) : u[i] = b.undo[i]
  BY DEF Books, BookFields
<1> HIDE DEF u
<1>2. /\ w.rows = b.rows /\ w.gone = b.gone /\ w.content = b.content
      /\ w.winner = b.winner /\ w.wrote = b.wrote /\ w.undo = u
  BY DEF Books, BookFields
<1>3. w \in BookFields
  BY <1>1 DEF Books, BookFields
<1>4. \A i \in 1 .. Len(u) : u[i].row \in 1 .. Len(b.rows)
  <2>1. \A i \in 1 .. Len(b.undo) : b.undo[i].row \in 1 .. Len(b.rows)
    BY DEF Books, BookOK
  <2>2. Len(b.undo) \in Nat
    BY DEF Books, BookFields
  <2> QED BY <1>1, <2>1, <2>2
<1> HIDE DEF w
<1>5. BookOK(w)
  BY <1>2, <1>4 DEF Books, BookOK
<1> QED BY <1>2, <1>3, <1>5 DEF w, u, Books

LEMMA PopFields ==
    ASSUME NEW b \in Books, b.undo # <<>>
    PROVE  LET w == [b EXCEPT !.undo = Front(@)]
               g == Last(b.undo)
           IN /\ w \in Books
              /\ w.rows = b.rows /\ w.gone = b.gone /\ w.content = b.content
              /\ w.winner = b.winner /\ w.wrote = b.wrote
              /\ Len(w.undo) = Len(b.undo) - 1
              /\ \A i \in 1 .. Len(b.undo) - 1 : w.undo[i] = b.undo[i]
              /\ g = b.undo[Len(b.undo)] /\ g \in Groups /\ g.row \in 1 .. Len(b.rows)
<1> DEFINE u == Front(b.undo)
           w == [b EXCEPT !.undo = u]
           g == Last(b.undo)
<1>0. b.undo \in Seq(Groups) /\ Len(b.undo) \in Nat \ {0}
  BY DEF Books, BookFields
<1>1. /\ u \in Seq(Groups) /\ Len(u) = Len(b.undo) - 1
      /\ \A i \in 1 .. Len(b.undo) - 1 : u[i] = b.undo[i]
  BY <1>0 DEF Front
<1>2. g = b.undo[Len(b.undo)] /\ g \in Groups
  BY <1>0 DEF Last
<1> HIDE DEF u, g
<1>3. /\ w.rows = b.rows /\ w.gone = b.gone /\ w.content = b.content
      /\ w.winner = b.winner /\ w.wrote = b.wrote /\ w.undo = u
  BY DEF Books, BookFields
<1>4. w \in BookFields
  BY <1>1 DEF Books, BookFields
<1>5. \A i \in 1 .. Len(b.undo) : b.undo[i].row \in 1 .. Len(b.rows)
  BY DEF Books, BookOK
<1> HIDE DEF w
<1>6. \A i \in 1 .. Len(u) : u[i].row \in 1 .. Len(b.rows)
  <2>1. \A i \in 1 .. Len(u) : i \in 1 .. Len(b.undo) /\ u[i] = b.undo[i]
    BY <1>0, <1>1
  <2> QED BY <1>5, <2>1
<1>7. BookOK(w)
  BY <1>3, <1>6 DEF Books, BookOK
<1>8. g.row \in 1 .. Len(b.rows)
  BY <1>0, <1>2, <1>5
<1> QED BY <1>1, <1>2, <1>3, <1>4, <1>7, <1>8 DEF w, u, g, Books

LEMMA DeleteFields ==
    ASSUME NEW b \in Books, NEW row \in 1 .. Len(b.rows)
    PROVE  LET w == [b EXCEPT !.gone = @ \union {row}]
           IN /\ w \in Books
              /\ w.rows = b.rows /\ w.gone = b.gone \union {row} /\ w.content = b.content
              /\ w.winner = b.winner /\ w.wrote = b.wrote /\ w.undo = b.undo
<1> DEFINE d == b.gone \union {row}
           w == [b EXCEPT !.gone = d]
<1>1. d \in SUBSET Nat /\ d \subseteq 1 .. Len(b.rows)
  BY DEF Books, BookFields, BookOK
<1> HIDE DEF d
<1>2. /\ w.rows = b.rows /\ w.gone = d /\ w.content = b.content
      /\ w.winner = b.winner /\ w.wrote = b.wrote /\ w.undo = b.undo
  BY DEF Books, BookFields
<1>3. w \in BookFields
  BY <1>1 DEF Books, BookFields
<1> HIDE DEF w
<1>4. BookOK(w)
  BY <1>1, <1>2 DEF Books, BookOK
<1> QED BY <1>2, <1>3, <1>4 DEF w, d, Books

\* The commands: an edit that fits writes the row it names and remembers what
\* was there; a growth adds a row nobody wrote.
LEMMA PerformFields ==
    ASSUME NEW b \in Books, NEW e \in Edits, Fits(b, e)
    PROVE  LET p == Perform(b, e)
           IN \E row \in 1 .. Len(b.rows), c \in Contents :
              /\ p \in Books
              /\ p.rows = b.rows /\ p.gone = b.gone
              /\ p.content = [b.content EXCEPT ![row] = c]
              /\ p.winner = [b.winner EXCEPT ![row] = "agent"]
              /\ p.wrote = [b.wrote EXCEPT ![row] = @ \union {"agent"}]
              /\ p.undo = Append(b.undo, [kind |-> "wrote", row |-> row, prior |-> b.content[row]])
<1> DEFINE row == Live(b)[e.at]
           c == IF e.what.kind = "copy" THEN Copy(Live(b)[e.what.n]) ELSE e.what
           g == [kind |-> "wrote", row |-> row, prior |-> b.content[row]]
           w == Write(b, row, c, "agent")
<1>1. e.at \in Nat \ {0} /\ e.what \in Contents
  BY DEF Edits
<1>2. Live(b) \in Seq(1 .. Len(b.rows)) /\ e.at <= Len(Live(b))
  BY LiveType DEF Fits
<1>3. row \in 1 .. Len(b.rows)
  BY <1>1, <1>2
<1>4. c \in Contents
  <2>1. CASE e.what.kind = "copy"
    <3>1. e.what.n \in Nat \ {0} /\ e.what.n <= Len(Live(b))
      BY <1>1, <2>1 DEF Contents, Fits
    <3>2. Live(b)[e.what.n] \in 1 .. Len(b.rows)
      BY <1>2, <3>1
    <3>3. Live(b)[e.what.n] \in Nat \ {0}
      BY <3>2 DEF Books, BookFields
    <3> QED BY <2>1, <3>3 DEF Copy, Contents
  <2>2. CASE e.what.kind # "copy"
    BY <1>1, <2>2
  <2> QED BY <2>1, <2>2
<1>5. Perform(b, e) = [w EXCEPT !.undo = Append(@, g)]
  BY Zenon DEF Perform
<1> HIDE DEF row, c
<1>6. /\ w \in Books
      /\ w.rows = b.rows /\ w.gone = b.gone /\ w.undo = b.undo
      /\ w.content = [b.content EXCEPT ![row] = c]
      /\ w.winner = [b.winner EXCEPT ![row] = "agent"]
      /\ w.wrote = [b.wrote EXCEPT ![row] = @ \union {"agent"}]
  <2>1. Written(w, b, row, c, "agent")
    BY <1>3, <1>4, WriteFields
  <2> HIDE DEF w
  <2> QED BY <2>1 DEF Written
<1>7. g \in Groups /\ g.row \in 1 .. Len(w.rows)
  <2>1. row \in Nat \ {0} /\ b.content[row] \in Contents
    BY <1>3 DEF Books, BookFields, BookOK
  <2> QED BY <1>3, <1>6, <2>1 DEF Groups
<1> HIDE DEF g, w
<1>8. LET p == [w EXCEPT !.undo = Append(@, g)]
      IN /\ p \in Books
         /\ p.rows = w.rows /\ p.gone = w.gone /\ p.content = w.content
         /\ p.winner = w.winner /\ p.wrote = w.wrote /\ p.undo = Append(w.undo, g)
  BY <1>6, <1>7, PushFields
<1> DEFINE p == Perform(b, e)
<1>9. /\ p \in Books
      /\ p.rows = b.rows /\ p.gone = b.gone
      /\ p.content = [b.content EXCEPT ![row] = c]
      /\ p.winner = [b.winner EXCEPT ![row] = "agent"]
      /\ p.wrote = [b.wrote EXCEPT ![row] = @ \union {"agent"}]
      /\ p.undo = Append(b.undo, g)
  BY <1>5, <1>6, <1>8
<1> HIDE DEF p
<1> QED BY <1>3, <1>4, <1>9 DEF p, g

LEMMA InsertFields ==
    ASSUME NEW b \in Books
    PROVE  LET p == Insert(b)
               id == Len(b.rows) + 1
           IN /\ p \in Books
              /\ p.rows = Append(b.rows, id) /\ p.gone = b.gone
              /\ p.content = Append(b.content, Blank)
              /\ p.winner = Append(b.winner, "none")
              /\ p.wrote = Append(b.wrote, {})
              /\ p.undo = Append(b.undo, [kind |-> "inserted", row |-> id, prior |-> Blank])
<1> DEFINE id == Len(b.rows) + 1
           g == [kind |-> "inserted", row |-> id, prior |-> Blank]
           p == Insert(b)
<1>0. /\ b.rows \in Seq(Nat) /\ b.content \in Seq(Contents) /\ b.winner \in Seq({"agent", "other", "none"})
      /\ b.wrote \in Seq(SUBSET {"agent", "other"}) /\ b.undo \in Seq(Groups) /\ b.gone \in SUBSET Nat
      /\ id \in Nat \ {0}
  BY DEF Books, BookFields
<1>1. /\ p.rows = Append(b.rows, id) /\ p.gone = b.gone
      /\ p.content = Append(b.content, Blank)
      /\ p.winner = Append(b.winner, "none")
      /\ p.wrote = Append(b.wrote, {})
      /\ p.undo = Append(b.undo, g)
      /\ p = [rows |-> p.rows, gone |-> p.gone, content |-> p.content, winner |-> p.winner,
              wrote |-> p.wrote, undo |-> p.undo]
  BY DEF Insert
<1>2. g \in Groups
  BY <1>0, BlankIsContent DEF Groups
<1>3. /\ p.rows \in Seq(Nat) /\ Len(p.rows) = id
      /\ p.content \in Seq(Contents) /\ p.winner \in Seq({"agent", "other", "none"})
      /\ p.wrote \in Seq(SUBSET {"agent", "other"}) /\ p.undo \in Seq(Groups)
  <2> HIDE DEF p, g
  <2> QED BY <1>0, <1>1, <1>2, BlankIsContent
<1>4. p \in BookFields
  <2> HIDE DEF p
  <2> QED BY <1>0, <1>1, <1>3 DEF BookFields
<1>5. BookOK(p)
  <2>0. /\ Len(b.content) = Len(b.rows) /\ Len(b.winner) = Len(b.rows) /\ Len(b.wrote) = Len(b.rows)
        /\ b.gone \subseteq 1 .. Len(b.rows)
        /\ \A i \in 1 .. Len(b.rows) : b.rows[i] = i
        /\ \A i \in 1 .. Len(b.undo) : b.undo[i].row \in 1 .. Len(b.rows)
    BY DEF Books, BookOK
  <2>1. \A i \in 1 .. id : p.rows[i] = i
    BY <1>0, <1>1, <2>0
  <2>2. Len(p.content) = id /\ Len(p.winner) = id /\ Len(p.wrote) = id
    <3> HIDE DEF p
    <3>1. Len(p.content) = Len(b.content) + 1 /\ Len(p.winner) = Len(b.winner) + 1
          /\ Len(p.wrote) = Len(b.wrote) + 1
      BY <1>0, <1>1
    <3> QED BY <2>0, <3>1
  <2>3. p.gone \subseteq 1 .. id
    BY <1>0, <1>1, <2>0
  <2>4. \A i \in 1 .. Len(p.undo) : p.undo[i].row \in 1 .. id
    <3> HIDE DEF p
    <3>1. g.row \in 1 .. id
      BY <1>0
    <3> HIDE DEF g, id
    <3>2. Len(p.undo) = Len(b.undo) + 1 /\ p.undo[Len(b.undo) + 1] = g
          /\ \A i \in 1 .. Len(b.undo) : p.undo[i] = b.undo[i]
      BY <1>0, <1>1
    <3>3. Len(b.undo) \in Nat /\ \A i \in 1 .. Len(b.rows) : i \in 1 .. id
      BY <1>0 DEF id
    <3>4. \A i \in 1 .. Len(p.undo) : i = Len(b.undo) + 1 \/ i \in 1 .. Len(b.undo)
      BY <3>2, <3>3
    <3>5. \A i \in 1 .. Len(b.undo) : p.undo[i].row \in 1 .. id
      BY <2>0, <3>2, <3>3
    <3> QED BY <3>1, <3>2, <3>4, <3>5
  <2> HIDE DEF p
  <2> QED BY <1>3, <2>1, <2>2, <2>3, <2>4 DEF BookOK
<1> QED BY <1>1, <1>4, <1>5 DEF Books

\* c is b with its newest group taken back, or dropped where it is blocked.
Undone(c, b) ==
    LET g == b.undo[Len(b.undo)]
    IN /\ c \in Books /\ c.rows = b.rows
       /\ Len(c.undo) = Len(b.undo) - 1
       /\ \A i \in 1 .. Len(b.undo) - 1 : c.undo[i] = b.undo[i]
       /\ IF Blocked(b, g)
          THEN c.gone = b.gone /\ c.content = b.content /\ c.winner = b.winner /\ c.wrote = b.wrote
          ELSE IF g.kind = "wrote"
          THEN /\ c.gone = b.gone
               /\ c.content = [b.content EXCEPT ![g.row] = g.prior]
               /\ c.winner = [b.winner EXCEPT ![g.row] = "agent"]
               /\ c.wrote = [b.wrote EXCEPT ![g.row] = @ \union {"agent"}]
          ELSE /\ c.gone = b.gone \union {g.row}
               /\ c.content = b.content /\ c.winner = b.winner /\ c.wrote = b.wrote

\* An undo takes back the newest group and nothing else.
LEMMA UndoGroupFields ==
    ASSUME NEW b \in Books, b.undo # <<>>
    PROVE  Undone(UndoGroup(b), b)
<1> DEFINE rest == [b EXCEPT !.undo = Front(@)]
           g == Last(b.undo)
<1>1. /\ rest \in Books
      /\ rest.rows = b.rows /\ rest.gone = b.gone /\ rest.content = b.content
      /\ rest.winner = b.winner /\ rest.wrote = b.wrote
      /\ Len(rest.undo) = Len(b.undo) - 1
      /\ \A i \in 1 .. Len(b.undo) - 1 : rest.undo[i] = b.undo[i]
      /\ g = b.undo[Len(b.undo)] /\ g \in Groups /\ g.row \in 1 .. Len(b.rows)
  BY PopFields
<1>2. UndoGroup(b) = IF Blocked(b, g) THEN rest
                     ELSE IF g.kind = "wrote" THEN Write(rest, g.row, g.prior, "agent")
                     ELSE [rest EXCEPT !.gone = @ \union {g.row}]
  BY Zenon DEF UndoGroup
<1> HIDE DEF rest, g
<1>3. CASE Blocked(b, g)
  BY <1>1, <1>2, <1>3 DEF Undone
<1>4. CASE ~ Blocked(b, g) /\ g.kind = "wrote"
  <2> DEFINE w == Write(rest, g.row, g.prior, "agent")
  <2>1. Written(w, rest, g.row, g.prior, "agent")
    <3>1. g.prior \in Contents /\ g.row \in 1 .. Len(rest.rows)
      BY <1>1 DEF Groups
    <3> QED BY <1>1, <3>1, WriteFields
  <2>2. UndoGroup(b) = w
    BY <1>2, <1>4
  <2> HIDE DEF w
  <2> QED BY <1>1, <1>4, <2>1, <2>2 DEF Undone, Written
<1>5. CASE ~ Blocked(b, g) /\ g.kind # "wrote"
  <2> DEFINE w == [rest EXCEPT !.gone = @ \union {g.row}]
  <2>1. /\ w \in Books
        /\ w.rows = rest.rows /\ w.gone = rest.gone \union {g.row} /\ w.content = rest.content
        /\ w.winner = rest.winner /\ w.wrote = rest.wrote /\ w.undo = rest.undo
    BY <1>1, DeleteFields
  <2>2. UndoGroup(b) = w
    BY <1>2, <1>5
  <2> HIDE DEF w
  <2> QED BY <1>1, <1>5, <2>1, <2>2 DEF Undone
<1> QED BY <1>3, <1>4, <1>5

LEMMA UndoGroupIsBook ==
    ASSUME NEW b \in Books
    PROVE  UndoGroup(b) \in Books
<1>1. CASE b.undo = <<>>
  BY <1>1 DEF UndoGroup
<1>2. CASE b.undo # <<>>
  BY <1>2, UndoGroupFields DEF Undone
<1> QED BY <1>1, <1>2

\* Undoing n groups is n undos, one after the other.
LEMMA UndoSteps ==
    ASSUME NEW b \in Books, NEW n \in Nat
    PROVE  \E run : /\ run \in [0 .. n -> Books]
                    /\ run[0] = b /\ run[n] = UndoGroups(b, n)
                    /\ \A i \in 1 .. n : run[i] = UndoGroup(run[i - 1])
<1> DEFINE g == [i \in 1 .. n |-> [c \in Books |-> UndoGroup(c)]]
           it == CHOOSE f : f = [s \in SUBSET (1 .. n) |->
                                    IF s = {} THEN b ELSE UndoGroup(f[s \ {Max(s)}])]
<1>1. \A i \in 1 .. n : \A c \in Books : g[i][c] = UndoGroup(c) /\ g[i][c] \in Books
  BY UndoGroupIsBook
<1>2. UndoGroups(b, n) = it[1 .. n]
  <2>1. DOMAIN [i \in 1 .. n |-> i] = 1 .. n
    OBVIOUS
  <2> QED BY Zenon, <2>1 DEF UndoGroups, FoldLeft, MapThenFoldSet
<1> HIDE DEF g
<1>3. PICK h : Recursion(h, Books, b, n, g)
  BY <1>1, FoldExists
<1>4. h = [s \in SUBSET (1 .. n) |-> IF s = {} THEN b ELSE UndoGroup(h[s \ {Max(s)}])]
  <2>1. ASSUME NEW s \in SUBSET (1 .. n), s # {}
        PROVE  Max(s) \in 1 .. n
    <3>1. s \in SUBSET (0 .. n)
      OBVIOUS
    <3> QED BY <2>1, <3>1, MaxGreatest
  <2>2. \A s \in SUBSET (1 .. n) : s \ {Max(s)} \in SUBSET (1 .. n)
    OBVIOUS
  <2>3. h \in [SUBSET (1 .. n) -> Books]
    BY <1>3 DEF Recursion
  <2>4. \A s \in SUBSET (1 .. n) : h[s] = IF s = {} THEN b ELSE UndoGroup(h[s \ {Max(s)}])
    BY <1>1, <1>3, <2>1, <2>2, <2>3 DEF Recursion
  <2> QED BY <2>3, <2>4
<1>5. it = [s \in SUBSET (1 .. n) |-> IF s = {} THEN b ELSE UndoGroup(it[s \ {Max(s)}])]
  BY <1>4
<1> HIDE DEF it
<1> DEFINE run == [i \in 0 .. n |-> it[1 .. i]]
<1>6. run[0] = b
  <2>1. 1 .. 0 = {} /\ {} \in SUBSET (1 .. n)
    OBVIOUS
  <2> QED BY <1>5, <2>1
<1>7. ASSUME NEW i \in 1 .. n
      PROVE  run[i] = UndoGroup(run[i - 1])
  <2>0. /\ 1 .. i \in SUBSET (1 .. n) /\ 1 .. i # {}
        /\ Max(1 .. i) = i /\ (1 .. i) \ {i} = 1 .. i - 1
    BY Firsts
  <2>1. it[1 .. i] = UndoGroup(it[1 .. i - 1])
    BY <1>5, <2>0
  <2> QED BY <2>1
<1>8. \A k \in 0 .. n : run[k] \in Books
  <2> HIDE DEF run
  <2>1. \A k \in 0 .. n - 1 : k + 1 \in 1 .. n /\ (k + 1) - 1 = k
    OBVIOUS
  <2>2. \A k \in 0 .. n - 1 : run[k] \in Books => run[k + 1] \in Books
    BY <1>7, <2>1, UndoGroupIsBook
  <2> QED BY <1>6, <2>2, StaysIn
<1>9. run \in [0 .. n -> Books] /\ run[n] = UndoGroups(b, n)
  BY <1>2, <1>8
<1> HIDE DEF run
<1> QED BY <1>6, <1>7, <1>9

\* What Session::apply is given, and where it is between two commands.
Cmds == Edits \union [kind : {"grow"}, at : {0}, what : {Blank}]
Runs == [ok : BOOLEAN, book : Books]

\* The four ways a command goes.
LEMMA ExecuteFields ==
    ASSUME NEW r \in Runs, NEW e \in Cmds
    PROVE  /\ Execute(r, e) \in Runs
           /\ Execute(r, e).ok => r.ok
           /\ Execute(r, e).ok =>
                \/ Execute(r, e).book = Insert(r.book)
                \/ /\ e \in Edits /\ Fits(r.book, e)
                   /\ Execute(r, e).book = Perform(r.book, e)
<1> DEFINE x == Execute(r, e)
<1>0. r.ok \in BOOLEAN /\ r.book \in Books
  BY DEF Runs
<1>1. CASE ~ r.ok
  <2>1. x = r
    BY Zenon, <1>1 DEF Execute
  <2> QED BY <1>1, <2>1
<1>2. CASE r.ok /\ e.kind = "grow"
  <2>1. x = [r EXCEPT !.book = Insert(@)]
    BY Zenon, <1>2 DEF Execute
  <2>2. Insert(r.book) \in Books
    BY <1>0, InsertFields
  <2> QED BY <1>2, <2>1, <2>2 DEF Runs
<1>3. CASE r.ok /\ e.kind # "grow" /\ Fits(r.book, e)
  <2>1. x = [r EXCEPT !.book = Perform(@, e)]
    BY Zenon, <1>3 DEF Execute
  <2>2. e \in Edits
    BY <1>3 DEF Cmds
  <2>3. Perform(r.book, e) \in Books
    BY <1>0, <1>3, <2>2, PerformFields
  <2> QED BY <1>3, <2>1, <2>2, <2>3 DEF Runs
<1>4. CASE r.ok /\ e.kind # "grow" /\ ~ Fits(r.book, e)
  <2>1. x = [r EXCEPT !.ok = FALSE]
    BY Zenon, <1>4 DEF Execute
  <2> QED BY <1>4, <2>1 DEF Runs
<1> QED BY <1>0, <1>1, <1>2, <1>3, <1>4

\* A run of commands is the commands one after the other.
LEMMA RunSteps ==
    ASSUME NEW b \in Books, NEW commands \in Seq(Cmds)
    PROVE  \E run : /\ run \in [0 .. Len(commands) -> Runs]
                    /\ run[0] = [ok |-> TRUE, book |-> b]
                    /\ run[Len(commands)] = Run(b, commands)
                    /\ \A i \in 1 .. Len(commands) : run[i] = Execute(run[i - 1], commands[i])
<1> DEFINE n == Len(commands)
           first == [ok |-> TRUE, book |-> b]
           g == [i \in 1 .. n |-> [r \in Runs |-> Execute(r, commands[i])]]
           it == CHOOSE f : f = [s \in SUBSET (1 .. n) |->
                    IF s = {} THEN first ELSE Execute(f[s \ {Max(s)}], commands[Max(s)])]
<1>0. n \in Nat /\ first \in Runs /\ \A i \in 1 .. n : commands[i] \in Cmds
  BY DEF Runs
<1>1. \A i \in 1 .. n : \A r \in Runs : g[i][r] = Execute(r, commands[i]) /\ g[i][r] \in Runs
  BY <1>0, ExecuteFields
<1>2. Run(b, commands) = it[1 .. n]
  <2>1. DOMAIN commands = 1 .. n
    OBVIOUS
  <2> QED BY Zenon, <2>1 DEF Run, FoldLeft, MapThenFoldSet
<1> HIDE DEF g, n, first
<1>3. PICK h : Recursion(h, Runs, first, n, g)
  BY <1>0, <1>1, FoldExists
<1>4. h = [s \in SUBSET (1 .. n) |->
              IF s = {} THEN first ELSE Execute(h[s \ {Max(s)}], commands[Max(s)])]
  <2>1. ASSUME NEW s \in SUBSET (1 .. n), s # {}
        PROVE  Max(s) \in 1 .. n
    <3>1. s \in SUBSET (0 .. n)
      BY <1>0
    <3> QED BY <1>0, <2>1, <3>1, MaxGreatest
  <2>2. \A s \in SUBSET (1 .. n) : s \ {Max(s)} \in SUBSET (1 .. n)
    OBVIOUS
  <2>3. h \in [SUBSET (1 .. n) -> Runs]
    BY <1>3 DEF Recursion
  <2>4. \A s \in SUBSET (1 .. n) :
            h[s] = IF s = {} THEN first ELSE Execute(h[s \ {Max(s)}], commands[Max(s)])
    BY <1>1, <1>3, <2>1, <2>2, <2>3 DEF Recursion
  <2> QED BY <2>3, <2>4
<1>5. it = [s \in SUBSET (1 .. n) |->
              IF s = {} THEN first ELSE Execute(it[s \ {Max(s)}], commands[Max(s)])]
  BY <1>4
<1> HIDE DEF it
<1> DEFINE run == [i \in 0 .. n |-> it[1 .. i]]
<1>6. run[0] = first
  <2>1. 1 .. 0 = {} /\ {} \in SUBSET (1 .. n) /\ 0 \in 0 .. n
    BY <1>0
  <2> QED BY <1>5, <2>1
<1>7. ASSUME NEW i \in 1 .. n
      PROVE  run[i] = Execute(run[i - 1], commands[i])
  <2>0. /\ 1 .. i \in SUBSET (1 .. n) /\ 1 .. i # {}
        /\ Max(1 .. i) = i /\ (1 .. i) \ {i} = 1 .. i - 1
    BY <1>0, Firsts
  <2>1. it[1 .. i] = Execute(it[1 .. i - 1], commands[i])
    BY <1>5, <2>0
  <2>2. i \in 0 .. n /\ i - 1 \in 0 .. n
    BY <1>0
  <2> QED BY <2>1, <2>2
<1>8. \A k \in 0 .. n : run[k] \in Runs
  <2> HIDE DEF run
  <2>1. \A k \in 0 .. n - 1 : k + 1 \in 1 .. n /\ (k + 1) - 1 = k
    BY <1>0
  <2>2. ASSUME NEW k \in 0 .. n - 1, run[k] \in Runs
        PROVE  run[k + 1] \in Runs
    <3>1. run[k + 1] = Execute(run[k], commands[k + 1]) /\ commands[k + 1] \in Cmds
      BY <1>0, <1>7, <2>1
    <3> QED BY <2>2, <3>1, ExecuteFields
  <2>3. run[0] \in Runs
    BY <1>0, <1>6
  <2> QED BY <1>0, <2>2, <2>3, StaysIn
<1>9. run \in [0 .. n -> Runs] /\ run[n] = Run(b, commands)
  BY <1>0, <1>2, <1>8
<1> HIDE DEF run
<1> QED BY <1>6, <1>7, <1>9 DEF n, first

-----------------------------------------------------------------------------
(* A batch: the growth it needs, then its edits.                           *)

LEMMA MissingIsNat ==
    ASSUME NEW b \in Books, NEW edits \in Seq(Edits)
    PROVE  Missing(b, edits) \in Nat
<1> DEFINE n == Len(edits)
           ats == {0} \union {edits[i].at : i \in DOMAIN edits}
<1>1. n \in Nat /\ DOMAIN edits = 1 .. n /\ \A i \in 1 .. n : edits[i].at \in Nat
  <2>1. \A i \in 1 .. n : edits[i] \in Edits
    OBVIOUS
  <2>2. \A e \in Edits : e.at \in Nat
    BY DEF Edits
  <2> QED BY <2>1, <2>2
<1>2. \E m \in Nat : \A i \in 1 .. n : edits[i].at <= m
  <2> DEFINE T == {k \in 0 .. n : \E m \in Nat : \A i \in 1 .. k : edits[i].at <= m}
  <2>1. 0 \in T
    BY <1>1
  <2>2. ASSUME NEW k \in 0 .. n - 1, k \in T
        PROVE  k + 1 \in T
    <3>1. PICK m \in Nat : \A i \in 1 .. k : edits[i].at <= m
      BY <2>2
    <3>2. k + 1 \in 1 .. n /\ \A i \in 1 .. k + 1 : i \in 1 .. k \/ i = k + 1
      BY <1>1
    <3>3. edits[k + 1].at \in Nat /\ \A i \in 1 .. k : edits[i].at \in Nat
      BY <1>1, <3>2
    <3>4. m + edits[k + 1].at \in Nat
      BY <3>3
    <3>5. \A i \in 1 .. k + 1 : edits[i].at <= m + edits[k + 1].at
      BY <3>1, <3>2, <3>3
    <3>6. \E top \in Nat : \A i \in 1 .. k + 1 : edits[i].at <= top
      BY <3>4, <3>5
    <3>7. k + 1 \in 0 .. n
      BY <1>1
    <3> QED BY <3>6, <3>7
  <2>3. n \in T
    <3> HIDE DEF T, n
    <3>1. 0 .. n \subseteq T
      BY <1>1, <2>1, <2>2, UpTo
    <3> QED BY <1>1, <3>1
  <2> QED BY <2>3
<1>3. PICK m \in Nat : \A i \in 1 .. n : edits[i].at <= m
  BY <1>2
<1>4. ats \in SUBSET (0 .. m) /\ ats # {}
  BY <1>1, <1>3
<1> HIDE DEF ats
<1>5. Max(ats) \in ats
  BY <1>4, MaxGreatest
<1>6. Wanted(edits) \in Nat
  BY <1>4, <1>5 DEF Wanted, ats
<1>7. Len(Live(b)) \in Nat
  BY LiveType
<1>8. \A d \in Int : Max({0, d}) \in Nat
  <2> TAKE d \in Int
  <2>1. CASE d >= 0
    <3>1. d \in Nat /\ {0, d} \in SUBSET (0 .. d) /\ {0, d} # {}
      BY <2>1
    <3>2. Max({0, d}) \in {0, d}
      BY <3>1, MaxGreatest
    <3> QED BY <3>1, <3>2
  <2>2. CASE d < 0
    <3>1. \E x \in {0, d} : \A y \in {0, d} : x >= y
      BY <2>2
    <3>2. Max({0, d}) \in {0, d} /\ Max({0, d}) >= 0
      BY <3>1 DEF Max
    <3> QED BY <2>2, <3>2
  <2> QED BY <2>1, <2>2
<1> QED BY <1>6, <1>7, <1>8 DEF Missing

\* A batch becomes a sequence of commands.
LEMMA CommandsType ==
    ASSUME NEW b \in Books, NEW edits \in Seq(Edits)
    PROVE  Commands(b, edits) \in Seq(Cmds)
<1>1. [kind |-> "grow", at |-> 0, what |-> Blank] \in Cmds
  BY DEF Cmds
<1>2. Growth(b, edits) \in Seq(Cmds)
  BY <1>1, MissingIsNat DEF Growth
<1>3. edits \in Seq(Cmds)
  <2>1. Edits \subseteq Cmds
    BY DEF Cmds
  <2> QED BY <2>1
<1> QED BY <1>2, <1>3 DEF Commands

\* A run of commands leaves a book.
LEMMA RunType ==
    ASSUME NEW b \in Books, NEW commands \in Seq(Cmds)
    PROVE  Run(b, commands) \in Runs
<1>1. Len(commands) \in 0 .. Len(commands)
  OBVIOUS
<1>2. \E run : run \in [0 .. Len(commands) -> Runs] /\ run[Len(commands)] = Run(b, commands)
  BY RunSteps
<1> QED BY <1>1, <1>2

\* So does undoing groups.
LEMMA UndoType ==
    ASSUME NEW b \in Books, NEW n \in Nat
    PROVE  UndoGroups(b, n) \in Books
  BY UndoSteps

-----------------------------------------------------------------------------
(* The state of the server.                                                *)

\* MaxEdits bounds what a batch may hold, so what the journal records of it.
Entries == [groups : 1 .. MaxEdits, before : Books, disturbed : BOOLEAN]
ServerOK ==
    /\ book \in Books
    /\ journal \in Seq(Entries)
    /\ DOMAIN told = {"version", "hash", "edits", "fresh"}
    /\ told.edits \in Seq(Edits)
    /\ steps \in 0 .. MaxSteps

\* What was previewed is the hash the batch told of leads to.
Foretold == told.fresh => told.hash = Hash(Run(book, Commands(book, told.edits)).book)

LEMMA BatchType ==
    ASSUME NEW edits \in Batches
    PROVE  edits \in Seq(Edits)
  BY AgentAssumption

LEMMA BoundsAreNat == MaxEdits \in Nat /\ MaxSteps \in Nat /\ Seeded \in Nat
  BY AgentAssumption

LEMMA InitIsOK == Init => ServerOK /\ Foretold
<1> SUFFICES ASSUME Init PROVE ServerOK /\ Foretold
  OBVIOUS
<1>1. Num(0) \in Contents /\ Seeded \in Nat
  BY BoundsAreNat DEF Num, Contents
<1>2. NewBook \in BookFields
  BY <1>1 DEF NewBook, BookFields
<1>3. BookOK(NewBook)
  BY <1>1 DEF NewBook, BookOK
<1>4. journal = <<>> /\ told.edits = <<>> /\ steps = 0 /\ ~ told.fresh /\ book = NewBook
  BY DEF Init
<1>5. journal \in Seq(Entries) /\ told.edits \in Seq(Edits) /\ steps \in 0 .. MaxSteps
      /\ DOMAIN told = {"version", "hash", "edits", "fresh"}
  BY <1>4, BoundsAreNat DEF Init
<1> QED BY <1>2, <1>3, <1>4, <1>5 DEF ServerOK, Foretold, Books

\* A step that moves the workbook on forgets that the answer was fresh.
LEMMA MovedFields ==
    ASSUME ServerOK, Moved
    PROVE  /\ DOMAIN told' = {"version", "hash", "edits", "fresh"}
           /\ told'.edits = told.edits /\ ~ told'.fresh
  BY DEF Moved, ServerOK

\* What a batch that was accepted does.
LEMMA ApplyFields ==
    ASSUME ServerOK, NEW edits \in Batches, NEW expected, NEW given,
           ApplyEdits(edits, expected, given)
    PROVE  LET commands == Commands(book, edits)
           IN /\ commands \in Seq(Cmds) /\ Len(commands) \in 1 .. MaxEdits
              /\ Run(book, commands) \in Runs /\ Run(book, commands).ok
              /\ book' = Run(book, commands).book /\ book' \in Books
              /\ journal' = Append(journal, [groups |-> Len(commands), before |-> book, disturbed |-> FALSE])
              /\ Moved
              /\ steps' \in 0 .. MaxSteps
<1> DEFINE commands == Commands(book, edits)
           run == Run(book, commands)
<1>1. book \in Books /\ edits \in Seq(Edits)
  BY BatchType DEF ServerOK
<1>2. commands \in Seq(Cmds)
  BY <1>1, CommandsType
<1>3. commands # <<>> /\ Len(commands) <= MaxEdits /\ run.ok
  BY DEF ApplyEdits, Accepted
<1>4. Len(commands) \in 1 .. MaxEdits
  <2> HIDE DEF commands
  <2>1. Len(commands) \in Nat /\ Len(commands) # 0
    BY <1>2, <1>3
  <2> QED BY <1>3, <2>1, BoundsAreNat
<1>5. run \in Runs
  BY <1>1, <1>2, RunType
<1>6. book' = run.book /\ journal' = Append(journal, [groups |-> Len(commands), before |-> book,
                                                      disturbed |-> FALSE])
  BY <1>3 DEF ApplyEdits
<1>7. Moved
  BY DEF ApplyEdits
<1>8. steps' \in 0 .. MaxSteps
  BY BoundsAreNat DEF ApplyEdits, Step, ServerOK
<1> QED BY <1>2, <1>3, <1>4, <1>5, <1>6, <1>7, <1>8 DEF Runs

LEMMA FrontFields ==
    ASSUME NEW S, NEW q \in Seq(S), q # <<>>
    PROVE  /\ Front(q) \in Seq(S) /\ Len(Front(q)) = Len(q) - 1
           /\ \A i \in 1 .. Len(q) - 1 : Front(q)[i] = q[i]
<1>1. Len(q) \in Nat \ {0} /\ \A i \in 1 .. Len(q) : q[i] \in S
  OBVIOUS
<1>2. Len(q) - 1 \in Nat /\ \A i \in 1 .. Len(q) - 1 : q[i] \in S
  BY <1>1
<1> DEFINE n == Len(q) - 1
           f == [i \in 1 .. n |-> q[i]]
<1>3. Front(q) = f
  BY DEF Front
<1>4. n \in Nat /\ f \in [1 .. n -> S]
  BY <1>2
<1> HIDE DEF n
<1>5. f \in Seq(S) /\ Len(f) = n
  BY <1>4
<1> QED BY <1>3, <1>5 DEF n

LEMMA UndoFields ==
    ASSUME ServerOK, Undo
    PROVE  /\ journal # <<>> /\ Last(journal) = journal[Len(journal)] /\ Last(journal) \in Entries
           /\ Last(journal).groups \in Nat
           /\ book' = UndoGroups(book, Last(journal).groups) /\ book' \in Books
           /\ journal' = Front(journal) /\ journal' \in Seq(Entries)
           /\ Len(journal') = Len(journal) - 1
           /\ \A i \in 1 .. Len(journal) - 1 : journal'[i] = journal[i]
           /\ Moved
           /\ steps' \in 0 .. MaxSteps
<1>1. journal # <<>> /\ journal' = Front(journal) /\ Moved
      /\ book' = UndoGroups(book, Last(journal).groups)
  BY DEF Undo
<1>2. Last(journal) = journal[Len(journal)] /\ Last(journal) \in Entries
  BY <1>1 DEF ServerOK, Last
<1>3. Last(journal).groups \in Nat
  BY <1>2, BoundsAreNat DEF Entries
<1>4. book' \in Books
  BY <1>1, <1>3, UndoType DEF ServerOK
<1>5. journal' \in Seq(Entries) /\ Len(journal') = Len(journal) - 1
      /\ \A i \in 1 .. Len(journal) - 1 : journal'[i] = journal[i]
  BY <1>1, FrontFields DEF ServerOK
<1>6. steps' \in 0 .. MaxSteps
  BY BoundsAreNat DEF Undo, Step, ServerOK
<1> QED BY <1>1, <1>2, <1>3, <1>4, <1>5, <1>6

\* What an op of another author leaves: every batch on the journal disturbed,
\* the undo stack as it was.
LEMMA ForeignFields ==
    ASSUME ServerOK,
           \/ \E row \in ToSet(Live(book)), n \in Numbers : ForeignWrite(row, n)
           \/ \E row \in ToSet(Live(book)) : ForeignDelete(row)
    PROVE  /\ book' \in Books /\ book'.undo = book.undo
           /\ journal' \in Seq(Entries) /\ Len(journal') = Len(journal)
           /\ \A i \in 1 .. Len(journal) :
                journal'[i].groups = journal[i].groups /\ journal'[i].before = journal[i].before
                /\ journal'[i].disturbed
           /\ Moved
           /\ steps' \in 0 .. MaxSteps
<1>1. PICK after : after \in Books /\ after.undo = book.undo /\ Foreign(after)
  <2>0. book \in Books /\ \A row \in ToSet(Live(book)) : row \in 1 .. Len(book.rows)
    BY LiveType DEF ServerOK, ToSet
  <2>1. CASE \E row \in ToSet(Live(book)), n \in Numbers : ForeignWrite(row, n)
    <3>1. PICK row \in ToSet(Live(book)), n \in Numbers : ForeignWrite(row, n)
      BY <2>1
    <3>2. Num(n) \in Contents
      BY AgentAssumption DEF Num, Contents
    <3>3. Written(Write(book, row, Num(n), "other"), book, row, Num(n), "other")
      BY <2>0, <3>2, WriteFields
    <3> QED BY <3>1, <3>3 DEF ForeignWrite, Written
  <2>2. CASE \E row \in ToSet(Live(book)) : ForeignDelete(row)
    <3>1. PICK row \in ToSet(Live(book)) : ForeignDelete(row)
      BY <2>2
    <3> DEFINE w == [book EXCEPT !.gone = @ \union {row}]
    <3>2. w \in Books /\ w.undo = book.undo
      BY <2>0, DeleteFields
    <3>3. Foreign(w)
      BY <3>1 DEF ForeignDelete
    <3> HIDE DEF w
    <3> QED BY <3>2, <3>3
  <2> QED BY <2>1, <2>2
<1>2. book' = after /\ Moved
      /\ journal' = [i \in DOMAIN journal |-> [journal[i] EXCEPT !.disturbed = TRUE]]
  BY <1>1 DEF Foreign
<1>3. journal \in Seq(Entries) /\ DOMAIN journal = 1 .. Len(journal)
  BY DEF ServerOK
<1>4. ASSUME NEW e \in Entries
      PROVE  LET d == [e EXCEPT !.disturbed = TRUE]
             IN d \in Entries /\ d.groups = e.groups /\ d.before = e.before /\ d.disturbed
  BY DEF Entries
<1>5. ASSUME NEW i \in 1 .. Len(journal)
      PROVE  /\ journal'[i] \in Entries
             /\ journal'[i].groups = journal[i].groups /\ journal'[i].before = journal[i].before
             /\ journal'[i].disturbed
  <2> DEFINE e == journal[i]
  <2>1. e \in Entries
    BY <1>3
  <2>2. journal'[i] = [e EXCEPT !.disturbed = TRUE]
    BY <1>2, <1>3
  <2> HIDE DEF e
  <2>3. LET d == [e EXCEPT !.disturbed = TRUE]
        IN d \in Entries /\ d.groups = e.groups /\ d.before = e.before /\ d.disturbed
    BY <1>4, <2>1
  <2> QED BY <2>2, <2>3 DEF e
<1>6. journal' \in Seq(Entries) /\ Len(journal') = Len(journal)
  BY <1>2, <1>3, <1>5
<1>7. steps' \in 0 .. MaxSteps
  BY <1>1, BoundsAreNat DEF Foreign, Step, ServerOK
<1> QED BY <1>1, <1>2, <1>5, <1>6, <1>7

\* A preview only answers.
LEMMA PreviewFields ==
    ASSUME ServerOK, NEW edits \in Batches, PreviewEdits(edits)
    PROVE  /\ book' = book /\ journal' = journal /\ steps' = steps
           /\ DOMAIN told' = {"version", "hash", "edits", "fresh"}
           /\ told'.edits = edits
           /\ told'.hash = Hash(Run(book, Commands(book, edits)).book)
  BY DEF PreviewEdits

\* The invariant is kept by every step.
LEMMA NextIsOK == ServerOK /\ Foretold /\ [Next]_vars => ServerOK' /\ Foretold'
<1> SUFFICES ASSUME ServerOK, Foretold, [Next]_vars PROVE ServerOK' /\ Foretold'
  OBVIOUS
<1>1. ASSUME NEW edits \in Batches, PreviewEdits(edits)
      PROVE  ServerOK' /\ Foretold'
  BY <1>1, PreviewFields, BatchType DEF ServerOK, Foretold
<1>2. ASSUME NEW edits \in Batches, NEW expected, NEW given, ApplyEdits(edits, expected, given)
      PROVE  ServerOK' /\ Foretold'
  <2> DEFINE entry == [groups |-> Len(Commands(book, edits)), before |-> book, disturbed |-> FALSE]
  <2>1. /\ Len(Commands(book, edits)) \in 1 .. MaxEdits
        /\ book' \in Books /\ journal' = Append(journal, entry)
        /\ Moved /\ steps' \in 0 .. MaxSteps
    BY <1>2, ApplyFields
  <2>2. entry \in Entries
    BY <2>1 DEF Entries, ServerOK
  <2> HIDE DEF entry
  <2>3. journal' \in Seq(Entries)
    BY <2>1, <2>2 DEF ServerOK
  <2> QED BY <2>1, <2>3, MovedFields DEF ServerOK, Foretold
<1>3. CASE Undo
  BY <1>3, UndoFields, MovedFields DEF ServerOK, Foretold
<1>4. CASE \/ \E row \in ToSet(Live(book)), n \in Numbers : ForeignWrite(row, n)
           \/ \E row \in ToSet(Live(book)) : ForeignDelete(row)
  BY <1>4, ForeignFields, MovedFields DEF ServerOK, Foretold
<1>5. CASE UNCHANGED vars
  BY <1>5 DEF ServerOK, Foretold, vars
<1> QED BY <1>1, <1>2, <1>3, <1>4, <1>5 DEF Next

LEMMA ServerAlwaysOK == Spec => [](ServerOK /\ Foretold)
<1>1. Init => ServerOK /\ Foretold
  BY InitIsOK
<1>2. ServerOK /\ Foretold /\ [Next]_vars => (ServerOK /\ Foretold)'
  BY NextIsOK
<1> QED BY <1>1, <1>2, PTL DEF Spec

\* The workbook and the journal stay well formed: every row has its cell, what
\* is gone was a row, no batch on the journal is empty or above the limit
\* (apply_edits, undo, integrate).
THEOREM AgentType == Spec => []TypeOK
<1>1. ServerOK => TypeOK
  <2> SUFFICES ASSUME ServerOK PROVE TypeOK
    OBVIOUS
  <2>1. book \in Books /\ journal \in Seq(Entries) /\ steps \in 0 .. MaxSteps
    BY DEF ServerOK
  <2>2. /\ book.rows \in Seq(Nat) /\ Len(book.rows) = Len(book.content)
        /\ book.gone \subseteq 1 .. Len(book.rows)
        /\ \A i \in 1 .. Len(book.rows) : book.rows[i] = i
    BY <2>1 DEF Books, BookFields, BookOK
  <2>3. book.gone \subseteq ToSet(book.rows)
    BY <2>2 DEF ToSet
  <2>4. \A i \in DOMAIN journal : journal[i].groups \in 1 .. MaxEdits
    <3>1. \A i \in DOMAIN journal : journal[i] \in Entries
      BY <2>1
    <3>2. \A e \in Entries : e.groups \in 1 .. MaxEdits
      BY DEF Entries
    <3> QED BY <3>1, <3>2
  <2> QED BY <2>1, <2>2, <2>3, <2>4 DEF TypeOK
<1> QED BY <1>1, ServerAlwaysOK, PTL

\* A batch run while the workbook is where it was simulated ends at the hash
\* the preview gave: the trial and the run are the same commands on the same
\* book, and every op in between takes the freshness away (preview_edits,
\* apply_edits, state_hash).
THEOREM PreviewIsKept == Spec => PreviewForetells
<1>1. ServerOK /\ Foretold /\ [Next]_vars
      => [ApplyEdits(told.edits, NoQuote, told.hash) /\ told.fresh => Hash(book') = told.hash]_vars
  <2> SUFFICES ASSUME Foretold, ApplyEdits(told.edits, NoQuote, told.hash), told.fresh
               PROVE  Hash(book') = told.hash
    OBVIOUS
  <2>1. book' = Run(book, Commands(book, told.edits)).book
    BY DEF ApplyEdits
  <2> QED BY <2>1 DEF Foretold
<1> QED BY <1>1, ServerAlwaysOK, PTL DEF Spec, PreviewForetells

-----------------------------------------------------------------------------
(* Undo and the other authors.                                             *)

\* c, reached from b by undos, took nothing of theirs away.
Spares(c, b) ==
    /\ c \in Books /\ c.rows = b.rows
    /\ \A r \in 1 .. Len(b.rows) :
        /\ "other" \in b.wrote[r] => "other" \in c.wrote[r]
        /\ b.winner[r] = "other" => c.winner[r] = "other" /\ c.content[r] = b.content[r]
    /\ \A r \in c.gone \ b.gone : "other" \notin b.wrote[r]

LEMMA UndoSpares ==
    ASSUME NEW b \in Books, NEW c, Spares(c, b)
    PROVE  Spares(UndoGroup(c), b)
<1>0. c \in Books /\ c.rows = b.rows /\ c.gone \subseteq 1 .. Len(b.rows)
      /\ Len(c.content) = Len(b.rows) /\ Len(c.winner) = Len(b.rows) /\ Len(c.wrote) = Len(b.rows)
  BY DEF Spares, Books, BookOK
<1>1. CASE c.undo = <<>>
  <2>1. UndoGroup(c) = c
    BY <1>1 DEF UndoGroup
  <2> QED BY <2>1
<1>2. CASE c.undo # <<>>
  <2> DEFINE d == UndoGroup(c)
             g == c.undo[Len(c.undo)]
  <2>1. Undone(d, c)
    BY <1>0, <1>2, UndoGroupFields
  <2>2. /\ c.content \in Seq(Contents) /\ c.winner \in Seq({"agent", "other", "none"})
        /\ c.wrote \in Seq(SUBSET {"agent", "other"})
    BY <1>0 DEF Books, BookFields
  <2>3. DOMAIN c.content = 1 .. Len(b.rows) /\ DOMAIN c.winner = 1 .. Len(b.rows)
        /\ DOMAIN c.wrote = 1 .. Len(b.rows)
    BY <1>0, <2>2
  <2>4. g.row \in 1 .. Len(b.rows)
    <3>1. Len(c.undo) \in 1 .. Len(c.undo)
      BY <1>0, <1>2 DEF Books, BookFields
    <3> QED BY <1>0, <3>1 DEF Books, BookOK
  <2> HIDE DEF d, g
  <2>5. d \in Books /\ d.rows = b.rows
    BY <1>0, <2>1 DEF Undone
  <2>6. CASE Blocked(c, g)
    <3>1. d.gone = c.gone /\ d.content = c.content /\ d.winner = c.winner /\ d.wrote = c.wrote
      BY <2>1, <2>6 DEF Undone, g
    <3> QED BY <2>5, <3>1 DEF Spares, d
  <2>7. CASE ~ Blocked(c, g) /\ g.kind = "wrote"
    <3>1. /\ d.gone = c.gone
          /\ d.content = [c.content EXCEPT ![g.row] = g.prior]
          /\ d.winner = [c.winner EXCEPT ![g.row] = "agent"]
          /\ d.wrote = [c.wrote EXCEPT ![g.row] = @ \union {"agent"}]
      BY <2>1, <2>7 DEF Undone, g
    <3>2. c.winner[g.row] = "agent"
      BY <2>7 DEF Blocked
    <3>3. ASSUME NEW r \in 1 .. Len(b.rows)
          PROVE  /\ "other" \in b.wrote[r] => "other" \in d.wrote[r]
                 /\ b.winner[r] = "other" => d.winner[r] = "other" /\ d.content[r] = b.content[r]
      BY <2>3, <2>4, <3>1, <3>2 DEF Spares
    <3> QED BY <2>5, <3>1, <3>3 DEF Spares, d
  <2>8. CASE ~ Blocked(c, g) /\ g.kind # "wrote"
    <3>1. /\ d.gone = c.gone \union {g.row}
          /\ d.content = c.content /\ d.winner = c.winner /\ d.wrote = c.wrote
      BY <2>1, <2>8 DEF Undone, g
    <3>2. "other" \notin c.wrote[g.row]
      BY <2>8 DEF Blocked
    <3>3. "other" \notin b.wrote[g.row]
      BY <2>4, <3>2 DEF Spares
    <3> QED BY <2>5, <3>1, <3>3 DEF Spares, d
  <2> QED BY <2>6, <2>7, <2>8
<1> QED BY <1>1, <1>2

LEMMA UndosSpare ==
    ASSUME NEW b \in Books, NEW n \in Nat
    PROVE  Spares(UndoGroups(b, n), b)
<1> DEFINE S == {c \in Books : Spares(c, b)}
<1>1. PICK run : /\ run \in [0 .. n -> Books]
                 /\ run[0] = b /\ run[n] = UndoGroups(b, n)
                 /\ \A i \in 1 .. n : run[i] = UndoGroup(run[i - 1])
  BY UndoSteps
<1>2. run[0] \in S
  BY <1>1 DEF Spares
<1>3. ASSUME NEW k \in 0 .. n - 1, run[k] \in S
      PROVE  run[k + 1] \in S
  <2>1. k + 1 \in 1 .. n /\ (k + 1) - 1 = k
    OBVIOUS
  <2>2. run[k + 1] = UndoGroup(run[k])
    BY <1>1, <2>1
  <2>3. Spares(UndoGroup(run[k]), b)
    BY <1>3, UndoSpares
  <2> QED BY <2>2, <2>3, UndoGroupIsBook, <1>3
<1>4. n \in 0 .. n /\ \A k \in 0 .. n : run[k] \in S
  <2> HIDE DEF S
  <2> QED BY <1>2, <1>3, StaysIn
<1> QED BY <1>1, <1>4

\* An undo of the agent takes nothing away from another author: a cell of
\* theirs keeps what it holds, and no row they wrote in is deleted (run_inverse,
\* others_wrote_in_row).
THEOREM UndoSparesTheOthers == Spec => UndoSparesOthers
<1> DEFINE Spared == /\ \A r \in DOMAIN book.content :
                            book.winner[r] = "other" => book'.content[r] = book.content[r]
                     /\ \A r \in book'.gone \ book.gone : "other" \notin book.wrote[r]
<1>1. ServerOK /\ [Next]_vars => [journal # <<>> /\ journal' = Front(journal) => Spared]_vars
  <2> SUFFICES ASSUME ServerOK, Next, journal # <<>>, journal' = Front(journal)
               PROVE  Spared
    OBVIOUS
  <2>0. Len(journal') = Len(journal) - 1 /\ Len(journal) \in Nat
    BY FrontFields DEF ServerOK
  <2>1. ASSUME NEW edits \in Batches, PreviewEdits(edits)
        PROVE  FALSE
    BY <2>0, <2>1 DEF PreviewEdits
  <2>2. ASSUME NEW edits \in Batches, NEW expected, NEW given, ApplyEdits(edits, expected, given)
        PROVE  FALSE
    <3> DEFINE entry == [groups |-> Len(Commands(book, edits)), before |-> book, disturbed |-> FALSE]
    <3>1. journal' = Append(journal, entry)
      BY <2>2, ApplyFields
    <3> HIDE DEF entry
    <3> QED BY <2>0, <3>1 DEF ServerOK
  <2>3. CASE Undo
    <3>1. book \in Books /\ Spares(book', book)
      BY <2>3, UndoFields, UndosSpare DEF ServerOK
    <3>2. DOMAIN book.content = 1 .. Len(book.rows)
      BY <3>1 DEF Books, BookFields, BookOK
    <3> QED BY <3>1, <3>2 DEF Spares
  <2>4. CASE \/ \E row \in ToSet(Live(book)), n \in Numbers : ForeignWrite(row, n)
             \/ \E row \in ToSet(Live(book)) : ForeignDelete(row)
    <3>1. Len(journal') = Len(journal)
      BY <2>4, ForeignFields
    <3> QED BY <2>0, <3>1
  <2> QED BY <2>1, <2>2, <2>3, <2>4 DEF Next
<1> QED BY <1>1, ServerAlwaysOK, PTL DEF Spec, UndoSparesOthers

-----------------------------------------------------------------------------
(* Undo and the agent's own batches: b restores B when undoing the groups  *)
(* above those of B brings B's cells back.                                 *)

Above(b, B) == Len(B.undo) + 1 .. Len(b.undo)
WritesOf(b, B, r) == {k \in Above(b, B) : b.undo[k].kind = "wrote" /\ b.undo[k].row = r}
Added(b, B, r) == \E k \in Above(b, B) : b.undo[k].kind = "inserted" /\ b.undo[k].row = r

\* The oldest group above that wrote a row remembers what B had there.
RestoresRow(b, B, r) ==
    \/ WritesOf(b, B, r) = {} /\ b.content[r] = B.content[r]
    \/ \E k \in WritesOf(b, B, r) :
          /\ \A other \in WritesOf(b, B, r) : k <= other
          /\ b.undo[k].prior = B.content[r]

Restorable(b, B) ==
    /\ Len(B.undo) <= Len(b.undo) /\ Len(B.rows) <= Len(b.rows)
    /\ \A k \in Above(b, B) : ~ Blocked(b, b.undo[k])
    /\ \A k \in Above(b, B) : b.undo[k].kind = "inserted" => b.undo[k].row > Len(B.rows)
    /\ \A r \in 1 .. Len(B.rows) : r \in b.gone <=> r \in B.gone
    /\ \A r \in Len(B.rows) + 1 .. Len(b.rows) : r \in b.gone \/ Added(b, B, r)
    /\ \A r \in 1 .. Len(B.rows) : RestoresRow(b, B, r)

\* What the lemmas below use of a book.
LEMMA BookFacts ==
    ASSUME NEW b \in Books
    PROVE  /\ Len(b.rows) \in Nat /\ Len(b.undo) \in Nat
           /\ DOMAIN b.content = 1 .. Len(b.rows)
           /\ DOMAIN b.winner = 1 .. Len(b.rows)
           /\ DOMAIN b.wrote = 1 .. Len(b.rows)
           /\ b.content \in Seq(Contents) /\ b.winner \in Seq({"agent", "other", "none"})
           /\ b.wrote \in Seq(SUBSET {"agent", "other"}) /\ b.undo \in Seq(Groups)
           /\ b.gone \subseteq 1 .. Len(b.rows)
           /\ \A k \in 1 .. Len(b.undo) : b.undo[k] \in Groups /\ b.undo[k].row \in 1 .. Len(b.rows)
  BY DEF Books, BookFields, BookOK

LEMMA RestorableItself == \A b \in Books : Restorable(b, b)
<1> SUFFICES ASSUME NEW b \in Books PROVE Restorable(b, b)
  OBVIOUS
<1>1. Len(b.undo) \in Nat /\ Len(b.rows) \in Nat
  BY BookFacts
<1>2. Above(b, b) = {}
  BY <1>1 DEF Above
<1> QED BY <1>1, <1>2 DEF Restorable, RestoresRow, WritesOf

\* A new row does not stand in the way.
LEMMA InsertRestorable ==
    ASSUME NEW b \in Books, NEW B \in Books, Restorable(b, B)
    PROVE  Restorable(Insert(b), B)
<1> DEFINE c == Insert(b)
           id == Len(b.rows) + 1
           t == Len(b.undo) + 1
           g == [kind |-> "inserted", row |-> id, prior |-> Blank]
<1>1. /\ c \in Books
      /\ c.rows = Append(b.rows, id) /\ c.gone = b.gone
      /\ c.content = Append(b.content, Blank)
      /\ c.winner = Append(b.winner, "none")
      /\ c.wrote = Append(b.wrote, {})
      /\ c.undo = Append(b.undo, g)
  BY InsertFields
<1> HIDE DEF c, g
<1>2. /\ Len(b.rows) \in Nat /\ Len(b.undo) \in Nat /\ Len(B.undo) \in Nat /\ Len(B.rows) \in Nat
      /\ Len(B.rows) <= Len(b.rows) /\ Len(B.undo) <= Len(b.undo)
  BY BookFacts DEF Restorable
<1>3. /\ Len(c.rows) = id /\ Len(c.undo) = t /\ c.undo[t] = g
      /\ \A k \in 1 .. Len(b.undo) : c.undo[k] = b.undo[k]
  BY <1>1, BookFacts DEF Books, BookFields
<1>4. ASSUME NEW r \in 1 .. Len(b.rows)
      PROVE  c.content[r] = b.content[r] /\ c.winner[r] = b.winner[r] /\ c.wrote[r] = b.wrote[r]
  BY <1>1, BookFacts DEF Books, BookOK
<1>5. c.wrote[id] = {}
  BY <1>1, BookFacts DEF Books, BookOK
<1>6. g.kind = "inserted" /\ g.row = id
  BY DEF g
<1>7. /\ Above(c, B) = Above(b, B) \union {t}
      /\ \A k \in Above(b, B) : c.undo[k] = b.undo[k] /\ b.undo[k].row \in 1 .. Len(b.rows)
  BY <1>2, <1>3, BookFacts DEF Above
<1>8. ASSUME NEW k \in Above(c, B)
      PROVE  ~ Blocked(c, c.undo[k])
  <2>1. CASE k = t
    <3>1. c.undo[k] = g
      BY <1>3, <2>1
    <3> QED BY <1>5, <1>6, <3>1 DEF Blocked
  <2>2. CASE k \in Above(b, B)
    <3> DEFINE old == b.undo[k]
    <3>1. c.undo[k] = old /\ old.row \in 1 .. Len(b.rows) /\ ~ Blocked(b, old)
      BY <1>7, <2>2 DEF Restorable
    <3> HIDE DEF old
    <3>2. c.winner[old.row] = b.winner[old.row] /\ c.wrote[old.row] = b.wrote[old.row]
      BY <1>4, <3>1
    <3> QED BY <3>1, <3>2 DEF Blocked
  <2> QED BY <1>7, <2>1, <2>2
<1>9. \A k \in Above(c, B) : c.undo[k].kind = "inserted" => c.undo[k].row > Len(B.rows)
  BY <1>2, <1>3, <1>6, <1>7 DEF Restorable
<1>10. ASSUME NEW r \in Len(B.rows) + 1 .. Len(c.rows)
       PROVE  r \in c.gone \/ Added(c, B, r)
  <2>1. r = id \/ r \in Len(B.rows) + 1 .. Len(b.rows)
    BY <1>2, <1>3
  <2>2. CASE r = id
    BY <1>3, <1>6, <1>7, <2>2 DEF Added
  <2>3. CASE r \in Len(B.rows) + 1 .. Len(b.rows)
    BY <1>1, <1>7, <2>3 DEF Added, Restorable
  <2> QED BY <2>1, <2>2, <2>3
<1>11. ASSUME NEW r \in 1 .. Len(B.rows)
       PROVE  RestoresRow(c, B, r)
  <2>1. WritesOf(c, B, r) = WritesOf(b, B, r)
    BY <1>3, <1>6, <1>7 DEF WritesOf
  <2>2. \A k \in WritesOf(b, B, r) : c.undo[k] = b.undo[k]
    BY <1>7 DEF WritesOf
  <2>3. c.content[r] = b.content[r]
    BY <1>2, <1>4
  <2> QED BY <2>1, <2>2, <2>3 DEF Restorable, RestoresRow
<1>12. Len(B.undo) <= Len(c.undo) /\ Len(B.rows) <= Len(c.rows)
  BY <1>2, <1>3
<1> QED BY <1>1, <1>8, <1>9, <1>10, <1>11, <1>12 DEF Restorable, c

\* An edit remembers what it writes over.
LEMMA PerformRestorable ==
    ASSUME NEW b \in Books, NEW B \in Books, Restorable(b, B), NEW e \in Edits, Fits(b, e)
    PROVE  Restorable(Perform(b, e), B)
<1> DEFINE c == Perform(b, e)
           t == Len(b.undo) + 1
<1>0. PICK row \in 1 .. Len(b.rows), x \in Contents :
         /\ c \in Books
         /\ c.rows = b.rows /\ c.gone = b.gone
         /\ c.content = [b.content EXCEPT ![row] = x]
         /\ c.winner = [b.winner EXCEPT ![row] = "agent"]
         /\ c.wrote = [b.wrote EXCEPT ![row] = @ \union {"agent"}]
         /\ c.undo = Append(b.undo, [kind |-> "wrote", row |-> row, prior |-> b.content[row]])
  BY PerformFields
<1> DEFINE g == [kind |-> "wrote", row |-> row, prior |-> b.content[row]]
<1>1. c.undo = Append(b.undo, g)
  BY <1>0
<1>6. g.kind = "wrote" /\ g.row = row /\ g.prior = b.content[row]
  OBVIOUS
<1> HIDE DEF c, g
<1>2. /\ Len(b.rows) \in Nat /\ Len(b.undo) \in Nat /\ Len(B.undo) \in Nat /\ Len(B.rows) \in Nat
      /\ Len(B.rows) <= Len(b.rows) /\ Len(B.undo) <= Len(b.undo)
  BY BookFacts DEF Restorable
<1>3. /\ Len(c.undo) = t /\ c.undo[t] = g
      /\ \A k \in 1 .. Len(b.undo) : c.undo[k] = b.undo[k]
  BY <1>1, BookFacts
<1>4. ASSUME NEW r \in 1 .. Len(b.rows)
      PROVE  /\ r # row => c.content[r] = b.content[r] /\ c.winner[r] = b.winner[r]
                           /\ c.wrote[r] = b.wrote[r]
             /\ r = row => c.winner[r] = "agent" /\ c.wrote[r] = b.wrote[r] \union {"agent"}
  BY <1>0, BookFacts
<1>7. /\ Above(c, B) = Above(b, B) \union {t}
      /\ \A k \in Above(b, B) : c.undo[k] = b.undo[k] /\ b.undo[k].row \in 1 .. Len(b.rows) /\ k < t
  BY <1>2, <1>3, BookFacts DEF Above
<1>8. ASSUME NEW k \in Above(c, B)
      PROVE  ~ Blocked(c, c.undo[k])
  <2>1. CASE k = t
    <3>1. c.undo[k] = g
      BY <1>3, <2>1
    <3>2. c.winner[row] = "agent"
      BY <1>4
    <3> QED BY <1>6, <3>1, <3>2 DEF Blocked
  <2>2. CASE k \in Above(b, B)
    <3> DEFINE old == b.undo[k]
    <3>1. c.undo[k] = old /\ old.row \in 1 .. Len(b.rows) /\ ~ Blocked(b, old)
      BY <1>7, <2>2 DEF Restorable
    <3> HIDE DEF old
    <3>2. b.winner[old.row] = "agent" => c.winner[old.row] = "agent"
      BY <1>4, <3>1
    <3>3. "other" \notin b.wrote[old.row] => "other" \notin c.wrote[old.row]
      BY <1>4, <3>1
    <3> QED BY <3>1, <3>2, <3>3 DEF Blocked
  <2> QED BY <1>7, <2>1, <2>2
<1>9. \A k \in Above(c, B) : c.undo[k].kind = "inserted" => c.undo[k].row > Len(B.rows)
  BY <1>2, <1>3, <1>6, <1>7 DEF Restorable
<1>10. \A r \in Len(B.rows) + 1 .. Len(c.rows) : r \in c.gone \/ Added(c, B, r)
  BY <1>0, <1>7 DEF Added, Restorable
<1>11. ASSUME NEW r \in 1 .. Len(B.rows)
       PROVE  RestoresRow(c, B, r)
  <2>0. RestoresRow(b, B, r)
    BY DEF Restorable
  <2>1. \A k \in WritesOf(b, B, r) : c.undo[k] = b.undo[k] /\ k < t
    BY <1>7 DEF WritesOf
  <2>2. CASE r = row
    <3>1. WritesOf(c, B, r) = WritesOf(b, B, r) \union {t}
      BY <1>3, <1>6, <1>7, <2>2 DEF WritesOf
    <3>2. CASE WritesOf(b, B, r) = {} /\ b.content[r] = B.content[r]
      <4>1. WritesOf(c, B, r) = {t} /\ c.undo[t].prior = B.content[r] /\ t <= t
        BY <1>2, <1>3, <1>6, <2>2, <3>1, <3>2
      <4> QED BY <4>1 DEF RestoresRow
    <3>3. CASE \E k \in WritesOf(b, B, r) :
                  /\ \A other \in WritesOf(b, B, r) : k <= other
                  /\ b.undo[k].prior = B.content[r]
      <4>1. PICK k \in WritesOf(b, B, r) :
                  /\ \A other \in WritesOf(b, B, r) : k <= other
                  /\ b.undo[k].prior = B.content[r]
        BY <3>3
      <4>2. k \in Int /\ k < t
        BY <1>2, <2>1 DEF WritesOf, Above
      <4>3. \A other \in WritesOf(c, B, r) : k <= other
        BY <1>2, <3>1, <4>1, <4>2
      <4> QED BY <2>1, <3>1, <4>1, <4>3 DEF RestoresRow
    <3> QED BY <2>0, <3>2, <3>3 DEF RestoresRow
  <2>3. CASE r # row
    <3>1. WritesOf(c, B, r) = WritesOf(b, B, r)
      BY <1>3, <1>6, <1>7, <2>3 DEF WritesOf
    <3>2. c.content[r] = b.content[r]
      BY <1>2, <1>4, <2>3
    <3> QED BY <2>0, <2>1, <3>1, <3>2 DEF RestoresRow
  <2> QED BY <2>2, <2>3
<1>12. Len(B.undo) <= Len(c.undo) /\ Len(B.rows) <= Len(c.rows)
  BY <1>0, <1>2, <1>3
<1> QED BY <1>0, <1>8, <1>9, <1>10, <1>11, <1>12 DEF Restorable, c

\* Taking a group above back does what the oldest remembers.
LEMMA UndoRestorable ==
    ASSUME NEW b \in Books, NEW B \in Books, Restorable(b, B), Len(B.undo) < Len(b.undo)
    PROVE  Restorable(UndoGroup(b), B)
<1> DEFINE c == UndoGroup(b)
           t == Len(b.undo)
           g == b.undo[t]
<1>2. /\ Len(b.rows) \in Nat /\ Len(b.undo) \in Nat /\ Len(B.undo) \in Nat /\ Len(B.rows) \in Nat
      /\ Len(B.rows) <= Len(b.rows) /\ Len(B.undo) <= Len(b.undo) - 1
  BY BookFacts DEF Restorable
<1>0. t \in Above(b, B) /\ t \in 1 .. Len(b.undo)
  BY <1>2 DEF Above
<1>1. g \in Groups /\ g.row \in 1 .. Len(b.rows) /\ ~ Blocked(b, g)
  BY <1>0, BookFacts DEF Restorable
<1>3. b.undo # <<>>
  BY <1>2
<1>4. Undone(c, b)
  BY <1>3, UndoGroupFields
<1> HIDE DEF c, g
<1>5. /\ c \in Books /\ c.rows = b.rows /\ Len(c.undo) = t - 1
      /\ \A i \in 1 .. t - 1 : c.undo[i] = b.undo[i]
      /\ IF g.kind = "wrote"
         THEN /\ c.gone = b.gone
              /\ c.content = [b.content EXCEPT ![g.row] = g.prior]
              /\ c.winner = [b.winner EXCEPT ![g.row] = "agent"]
              /\ c.wrote = [b.wrote EXCEPT ![g.row] = @ \union {"agent"}]
         ELSE /\ c.gone = b.gone \union {g.row}
              /\ c.content = b.content /\ c.winner = b.winner /\ c.wrote = b.wrote
  BY <1>1, <1>4 DEF Undone, g
<1>7. /\ Above(b, B) = Above(c, B) \union {t}
      /\ \A k \in Above(c, B) : c.undo[k] = b.undo[k] /\ b.undo[k].row \in 1 .. Len(b.rows)
                                /\ k < t /\ k \in Int /\ k \in Above(b, B)
  BY <1>2, <1>5, BookFacts DEF Above
<1>8. ASSUME NEW k \in Above(c, B)
      PROVE  ~ Blocked(c, c.undo[k])
  <2> DEFINE old == b.undo[k]
  <2>1. c.undo[k] = old /\ old.row \in 1 .. Len(b.rows) /\ ~ Blocked(b, old)
    BY <1>7 DEF Restorable
  <2> HIDE DEF old
  <2>2. b.winner[old.row] = "agent" => c.winner[old.row] = "agent"
    BY <1>5, <2>1, BookFacts
  <2>3. "other" \notin b.wrote[old.row] => "other" \notin c.wrote[old.row]
    BY <1>5, <2>1, BookFacts
  <2> QED BY <2>1, <2>2, <2>3 DEF Blocked
<1>9. \A k \in Above(c, B) : c.undo[k].kind = "inserted" => c.undo[k].row > Len(B.rows)
  BY <1>7 DEF Restorable
<1>10. ASSUME NEW r \in 1 .. Len(B.rows)
       PROVE  r \in c.gone <=> r \in B.gone
  <2>1. r \in b.gone <=> r \in B.gone
    BY DEF Restorable
  <2>2. CASE g.kind = "wrote"
    BY <1>5, <2>1, <2>2
  <2>3. CASE g.kind # "wrote"
    <3>1. g.kind = "inserted"
      BY <1>1, <2>3 DEF Groups
    <3>2. g.row > Len(B.rows)
      BY <1>0, <3>1 DEF Restorable, g
    <3>3. r # g.row
      BY <1>1, <1>2, <3>2
    <3> QED BY <1>5, <2>1, <2>3, <3>3
  <2> QED BY <2>2, <2>3
<1>11. ASSUME NEW r \in Len(B.rows) + 1 .. Len(c.rows)
       PROVE  r \in c.gone \/ Added(c, B, r)
  <2>1. r \in b.gone \/ Added(b, B, r)
    BY <1>5 DEF Restorable
  <2>2. CASE r \in b.gone
    BY <1>5, <2>2
  <2>3. CASE Added(b, B, r)
    <3>1. PICK k \in Above(b, B) : b.undo[k].kind = "inserted" /\ b.undo[k].row = r
      BY <2>3 DEF Added
    <3>2. CASE k = t
      BY <1>5, <3>1, <3>2 DEF g
    <3>3. CASE k \in Above(c, B)
      BY <1>7, <3>1, <3>3 DEF Added
    <3> QED BY <1>7, <3>2, <3>3
  <2> QED BY <2>1, <2>2, <2>3
<1>12. ASSUME NEW r \in 1 .. Len(B.rows)
       PROVE  RestoresRow(c, B, r)
  <2>0. RestoresRow(b, B, r)
    BY DEF Restorable
  <2>1. WritesOf(c, B, r) = WritesOf(b, B, r) \ {t}
    BY <1>7 DEF WritesOf
  <2>2. CASE g.kind = "wrote" /\ g.row = r
    <3>1. t \in WritesOf(b, B, r)
      BY <1>0, <2>2 DEF WritesOf, g
    <3>2. PICK k \in WritesOf(b, B, r) :
                /\ \A other \in WritesOf(b, B, r) : k <= other
                /\ b.undo[k].prior = B.content[r]
      BY <2>0, <3>1 DEF RestoresRow
    <3>3. CASE k = t
      <4>1. \A other \in Above(c, B) : ~ (t <= other)
        BY <1>2, <1>7
      <4>2. WritesOf(c, B, r) = {}
        BY <2>1, <3>2, <3>3, <4>1 DEF WritesOf
      <4>3. c.content[r] = B.content[r]
        BY <1>1, <1>5, <2>2, <3>2, <3>3, BookFacts DEF g
      <4> QED BY <4>2, <4>3 DEF RestoresRow
    <3>4. CASE k # t
      <4>1. k \in WritesOf(c, B, r) /\ c.undo[k] = b.undo[k]
        BY <1>7, <2>1, <3>2, <3>4 DEF WritesOf
      <4> QED BY <2>1, <3>2, <4>1 DEF RestoresRow
    <3> QED BY <3>3, <3>4
  <2>3. CASE ~ (g.kind = "wrote" /\ g.row = r)
    <3>1. WritesOf(c, B, r) = WritesOf(b, B, r)
      BY <2>1, <2>3 DEF WritesOf, g
    <3>2. c.content[r] = b.content[r]
      BY <1>1, <1>2, <1>5, <2>3, BookFacts
    <3>3. \A k \in WritesOf(c, B, r) : c.undo[k] = b.undo[k]
      BY <1>7 DEF WritesOf
    <3> QED BY <2>0, <3>1, <3>2, <3>3 DEF RestoresRow
  <2> QED BY <2>2, <2>3
<1>13. Len(B.undo) <= Len(c.undo) /\ Len(B.rows) <= Len(c.rows)
  BY <1>2, <1>5
<1> QED BY <1>8, <1>9, <1>10, <1>11, <1>12, <1>13 DEF Restorable, c

\* Every command that goes through leaves one group more, and what could be
\* restored before it can be after it.
LEMMA CommandRestorable ==
    ASSUME NEW r \in Runs, NEW e \in Cmds, Execute(r, e).ok
    PROVE  /\ r.ok /\ Len(Execute(r, e).book.undo) = Len(r.book.undo) + 1
           /\ \A B \in Books : Restorable(r.book, B) => Restorable(Execute(r, e).book, B)
<1> DEFINE q == r.book
           c == Execute(r, e).book
<1>1. /\ r.ok /\ q \in Books
      /\ \/ c = Insert(q)
         \/ e \in Edits /\ Fits(q, e) /\ c = Perform(q, e)
  BY ExecuteFields DEF Runs
<1> HIDE DEF q, c
<1>2. q.undo \in Seq(Groups)
  BY <1>1, BookFacts
<1>3. CASE c = Insert(q)
  <2>1. c.undo = Append(q.undo, [kind |-> "inserted", row |-> Len(q.rows) + 1, prior |-> Blank])
    BY <1>1, <1>3, InsertFields
  <2>2. Len(c.undo) = Len(q.undo) + 1
    BY <1>2, <2>1
  <2>3. \A B \in Books : Restorable(q, B) => Restorable(c, B)
    BY <1>1, <1>3, InsertRestorable
  <2> QED BY <1>1, <2>2, <2>3 DEF q, c
<1>4. CASE e \in Edits /\ Fits(q, e) /\ c = Perform(q, e)
  <2>0. q \in Books /\ e \in Edits /\ Fits(q, e)
    BY <1>1, <1>4
  <2>1. PICK row \in 1 .. Len(q.rows), x \in Contents :
            /\ Perform(q, e) \in Books
            /\ Perform(q, e).rows = q.rows /\ Perform(q, e).gone = q.gone
            /\ Perform(q, e).content = [q.content EXCEPT ![row] = x]
            /\ Perform(q, e).winner = [q.winner EXCEPT ![row] = "agent"]
            /\ Perform(q, e).wrote = [q.wrote EXCEPT ![row] = @ \union {"agent"}]
            /\ Perform(q, e).undo =
                    Append(q.undo, [kind |-> "wrote", row |-> row, prior |-> q.content[row]])
    BY <2>0, PerformFields
  <2>2. Len(c.undo) = Len(q.undo) + 1
    BY <1>2, <1>4, <2>1
  <2>3. \A B \in Books : Restorable(q, B) => Restorable(c, B)
    BY <1>1, <1>4, PerformRestorable
  <2> QED BY <1>1, <2>2, <2>3 DEF q, c
<1> QED BY <1>1, <1>3, <1>4

\* So it is for a batch.
LEMMA RunRestorable ==
    ASSUME NEW b \in Books, NEW commands \in Seq(Cmds), Run(b, commands).ok
    PROVE  /\ Len(Run(b, commands).book.undo) = Len(b.undo) + Len(commands)
           /\ \A B \in Books : Restorable(b, B) => Restorable(Run(b, commands).book, B)
<1> DEFINE n == Len(commands)
<1>0. n \in Nat /\ Len(b.undo) \in Nat /\ \A i \in 1 .. n : commands[i] \in Cmds
  BY BookFacts
<1>1. PICK run : /\ run \in [0 .. n -> Runs]
                 /\ run[0] = [ok |-> TRUE, book |-> b]
                 /\ run[n] = Run(b, commands)
                 /\ \A i \in 1 .. n : run[i] = Execute(run[i - 1], commands[i])
  BY RunSteps
<1> HIDE DEF n
<1> DEFINE Good(k) == run[k].ok =>
                        /\ Len(run[k].book.undo) = Len(b.undo) + k
                        /\ \A B \in Books : Restorable(b, B) => Restorable(run[k].book, B)
           T == {k \in 0 .. n : Good(k)}
<1>2. 0 \in T
  BY <1>0, <1>1
<1>3. ASSUME NEW k \in 0 .. n - 1, k \in T
      PROVE  k + 1 \in T
  <2> DEFINE r == run[k]
             e == commands[k + 1]
             x == Execute(r, e)
  <2>1. k \in Nat /\ k + 1 \in 0 .. n /\ k + 1 \in 1 .. n /\ (k + 1) - 1 = k /\ k \in 0 .. n
    BY <1>0
  <2>2. r \in Runs /\ e \in Cmds /\ run[k + 1] = x
    BY <1>0, <1>1, <2>1
  <2> HIDE DEF r, e, x
  <2>3. SUFFICES ASSUME x.ok
                 PROVE  /\ Len(x.book.undo) = Len(b.undo) + (k + 1)
                        /\ \A B \in Books : Restorable(b, B) => Restorable(x.book, B)
    BY <2>1, <2>2
  <2>4. /\ r.ok /\ Len(x.book.undo) = Len(r.book.undo) + 1
        /\ \A B \in Books : Restorable(r.book, B) => Restorable(x.book, B)
    BY <2>2, <2>3, CommandRestorable DEF x
  <2>5. /\ Len(r.book.undo) = Len(b.undo) + k
        /\ \A B \in Books : Restorable(b, B) => Restorable(r.book, B)
    BY <1>3, <2>4 DEF r
  <2>6. Len(x.book.undo) = Len(b.undo) + (k + 1)
    <3>1. Len(x.book.undo) = (Len(b.undo) + k) + 1
      BY <2>4, <2>5
    <3>2. \A p, q \in Nat : (p + q) + 1 = p + (q + 1)
      OBVIOUS
    <3>3. (Len(b.undo) + k) + 1 = Len(b.undo) + (k + 1)
      BY <1>0, <2>1, <3>2
    <3> QED BY <3>1, <3>3
  <2>7. \A B \in Books : Restorable(b, B) => Restorable(x.book, B)
    BY <2>4, <2>5
  <2> QED BY <2>6, <2>7
<1>4. n \in T
  <2> HIDE DEF T
  <2>1. 0 .. n \subseteq T
    BY <1>0, <1>2, <1>3, UpTo
  <2> QED BY <1>0, <2>1
<1> QED BY <1>1, <1>4 DEF n

\* Undoing no more groups than are above keeps it restorable.
LEMMA UndosRestorable ==
    ASSUME NEW b \in Books, NEW n \in Nat, n <= Len(b.undo)
    PROVE  /\ Len(UndoGroups(b, n).undo) = Len(b.undo) - n
           /\ \A B \in Books : Restorable(b, B) /\ Len(B.undo) <= Len(b.undo) - n
                               => Restorable(UndoGroups(b, n), B)
<1>0. Len(b.undo) \in Nat
  BY BookFacts
<1>1. PICK run : /\ run \in [0 .. n -> Books]
                 /\ run[0] = b /\ run[n] = UndoGroups(b, n)
                 /\ \A i \in 1 .. n : run[i] = UndoGroup(run[i - 1])
  BY UndoSteps
<1> DEFINE Good(k) == /\ Len(run[k].undo) = Len(b.undo) - k
                      /\ \A B \in Books : Restorable(b, B) /\ Len(B.undo) <= Len(b.undo) - k
                               => Restorable(run[k], B)
           T == {k \in 0 .. n : Good(k)}
<1>2. 0 \in T
  BY <1>0, <1>1
<1>3. ASSUME NEW k \in 0 .. n - 1, k \in T
      PROVE  k + 1 \in T
  <2> DEFINE r == run[k]
             x == UndoGroup(r)
  <2>1. k + 1 \in 0 .. n /\ k + 1 \in 1 .. n /\ (k + 1) - 1 = k /\ k \in 0 .. n /\ k < Len(b.undo)
    BY <1>0
  <2>2. r \in Books /\ run[k + 1] = x
    BY <1>1, <2>1
  <2>3. /\ Len(r.undo) = Len(b.undo) - k
        /\ \A B \in Books : Restorable(b, B) /\ Len(B.undo) <= Len(b.undo) - k => Restorable(r, B)
    BY <1>3
  <2> HIDE DEF r
  <2>4. r.undo # <<>>
    BY <1>0, <2>1, <2>3
  <2>5. Len(x.undo) = Len(b.undo) - (k + 1)
    <3>1. Undone(x, r)
      BY <2>2, <2>4, UndoGroupFields
    <3> HIDE DEF x
    <3>2. Len(x.undo) = Len(r.undo) - 1
      BY <3>1 DEF Undone
    <3> QED BY <1>0, <2>1, <2>3, <3>2
  <2>6. ASSUME NEW B \in Books, Restorable(b, B), Len(B.undo) <= Len(b.undo) - (k + 1)
        PROVE  Restorable(x, B)
    <3>1. Len(B.undo) \in Nat
      BY BookFacts
    <3>2. Len(B.undo) <= Len(b.undo) - k /\ Len(B.undo) < Len(r.undo)
      BY <1>0, <2>1, <2>3, <2>6, <3>1
    <3> QED BY <2>2, <2>3, <2>6, <3>2, UndoRestorable
  <2> HIDE DEF x
  <2> QED BY <2>1, <2>2, <2>5, <2>6
<1>4. n \in T
  <2> HIDE DEF T
  <2>1. 0 .. n \subseteq T
    BY <1>2, <1>3, UpTo
  <2> QED BY <2>1
<1> QED BY <1>1, <1>4

\* With no group above, the live rows and what they hold are those of B.
LEMMA RestoredIsSame ==
    ASSUME NEW b \in Books, NEW B \in Books, Restorable(b, B), Len(b.undo) = Len(B.undo)
    PROVE  Hash(b) = Hash(B)
<1> DEFINE m == Len(B.rows)
           n == Len(b.rows)
<1>0. /\ m \in Nat /\ n \in Nat /\ m <= n /\ Len(B.undo) \in Nat
      /\ \A i \in 1 .. m : B.rows[i] = i
      /\ \A i \in 1 .. n : b.rows[i] = i
      /\ b.rows \in Seq(Nat) /\ B.rows \in Seq(Nat)
  BY BookFacts DEF Restorable, Books, BookFields, BookOK
<1>1. Above(b, B) = {}
  BY <1>0 DEF Above
<1>2. \A r \in 1 .. m : b.content[r] = B.content[r] /\ (r \in b.gone <=> r \in B.gone)
  BY <1>1 DEF Restorable, RestoresRow, WritesOf
<1>3. \A r \in m + 1 .. n : r \in b.gone
  BY <1>1 DEF Restorable, Added
<1>4. PICK theirs \in [0 .. m -> Seq(Nat)] :
              /\ theirs[0] = <<>> /\ theirs[m] = Live(B)
              /\ \A i \in 1 .. m :
                    theirs[i] = IF B.rows[i] \in B.gone THEN theirs[i - 1]
                                ELSE Append(theirs[i - 1], B.rows[i])
  BY <1>0, LiveSteps
<1>5. PICK ours \in [0 .. n -> Seq(Nat)] :
              /\ ours[0] = <<>> /\ ours[n] = Live(b)
              /\ \A i \in 1 .. n :
                    ours[i] = IF b.rows[i] \in b.gone THEN ours[i - 1]
                              ELSE Append(ours[i - 1], b.rows[i])
  BY <1>0, LiveSteps
<1> HIDE DEF m, n
<1>6. \A k \in 0 .. m : ours[k] = theirs[k]
  <2> DEFINE T == {k \in 0 .. m : ours[k] = theirs[k]}
  <2>1. 0 \in T
    BY <1>0, <1>4, <1>5
  <2>2. ASSUME NEW k \in 0 .. m - 1, k \in T
        PROVE  k + 1 \in T
    <3>1. k + 1 \in 0 .. m /\ k + 1 \in 1 .. m /\ k + 1 \in 1 .. n /\ (k + 1) - 1 = k
      BY <1>0
    <3>2. theirs[k + 1] = IF k + 1 \in B.gone THEN theirs[k] ELSE Append(theirs[k], k + 1)
      BY <1>0, <1>4, <3>1
    <3>3. ours[k + 1] = IF k + 1 \in b.gone THEN ours[k] ELSE Append(ours[k], k + 1)
      BY <1>0, <1>5, <3>1
    <3> QED BY <1>2, <2>2, <3>1, <3>2, <3>3
  <2>3. 0 .. m \subseteq T
    <3> HIDE DEF T
    <3> QED BY <1>0, <2>1, <2>2, UpTo
  <2> QED BY <2>3
<1>7. \A k \in 0 .. n - m : ours[m + k] = ours[m]
  <2> DEFINE T == {k \in 0 .. n - m : ours[m + k] = ours[m]}
  <2>0. n - m \in Nat
    BY <1>0
  <2>1. 0 \in T
    BY <1>0
  <2>2. ASSUME NEW k \in 0 .. (n - m) - 1, k \in T
        PROVE  k + 1 \in T
    <3>1. /\ k + 1 \in 0 .. n - m /\ m + (k + 1) \in 1 .. n /\ m + (k + 1) \in m + 1 .. n
          /\ (m + (k + 1)) - 1 = m + k
      BY <1>0
    <3>2. ours[m + (k + 1)] = IF m + (k + 1) \in b.gone THEN ours[m + k]
                              ELSE Append(ours[m + k], m + (k + 1))
      BY <1>0, <1>5, <3>1
    <3> QED BY <1>3, <2>2, <3>1, <3>2
  <2>3. 0 .. n - m \subseteq T
    <3> HIDE DEF T
    <3> QED BY <2>0, <2>1, <2>2, UpTo
  <2> QED BY <2>3
<1>8. Live(b) = Live(B)
  <2>1. n - m \in 0 .. n - m /\ m + (n - m) = n /\ m \in 0 .. m
    BY <1>0
  <2> QED BY <1>4, <1>5, <1>6, <1>7, <2>1
<1>9. Live(B) \in Seq(1 .. m)
  BY LiveType DEF m
<1> DEFINE live == Live(B)
<1> HIDE DEF live
<1>10. \A i \in DOMAIN live : live[i] \in 1 .. m
  <2>1. live \in Seq(1 .. m)
    BY <1>9 DEF live
  <2> DEFINE R == 1 .. m
  <2> HIDE DEF R
  <2>2. live \in Seq(R)
    BY <2>1 DEF R
  <2>3. \A i \in DOMAIN live : live[i] \in R
    BY <2>2
  <2> QED BY <2>3 DEF R
<1>11. [i \in DOMAIN live |-> <<live[i], b.content[live[i]]>>]
       = [i \in DOMAIN live |-> <<live[i], B.content[live[i]]>>]
  BY <1>2, <1>10
<1> QED BY <1>8, <1>11 DEF Hash, live

-----------------------------------------------------------------------------
(* The journal and the undo stack.                                         *)

\* The undo stack as it was when the batch was applied.
Depth(entry) == Len(entry.before.undo)

\* The batches on the journal stand on the undo stack one on the other, and
\* what nobody interfered with can be restored.
Chained ==
    /\ journal = <<>> => Len(book.undo) = 0
    /\ \A i \in 1 .. Len(journal) :
        /\ i = 1 => Depth(journal[i]) = 0
        /\ i # 1 => Depth(journal[i]) = Depth(journal[i - 1]) + journal[i - 1].groups
        /\ i = Len(journal) => Len(book.undo) = Depth(journal[i]) + journal[i].groups
        /\ \A j \in i .. Len(journal) : Depth(journal[i]) <= Depth(journal[j])
        /\ ~ journal[i].disturbed => Restorable(book, journal[i].before)

LEMMA EntryFacts ==
    ASSUME ServerOK, NEW i \in 1 .. Len(journal)
    PROVE  /\ journal[i] \in Entries /\ journal[i].before \in Books
           /\ Depth(journal[i]) \in Nat /\ journal[i].groups \in Nat /\ journal[i].groups >= 1
<1>1. journal[i] \in Entries
  BY DEF ServerOK
<1>2. journal[i].before \in Books /\ journal[i].groups \in 1 .. MaxEdits
  BY <1>1 DEF Entries
<1> QED BY <1>1, <1>2, BookFacts, BoundsAreNat DEF Depth

LEMMA ApplyChained ==
    ASSUME ServerOK, Chained, NEW edits \in Batches, NEW expected, NEW given,
           ApplyEdits(edits, expected, given)
    PROVE  Chained'
<1> DEFINE commands == Commands(book, edits)
           n == Len(journal)
           entry == [groups |-> Len(commands), before |-> book, disturbed |-> FALSE]
<1>1. /\ commands \in Seq(Cmds) /\ Len(commands) \in 1 .. MaxEdits
      /\ Run(book, commands).ok /\ book' = Run(book, commands).book
      /\ journal' = Append(journal, entry)
  BY ApplyFields
<1>2. book \in Books /\ journal \in Seq(Entries) /\ n \in Nat /\ Len(book.undo) \in Nat
  BY BookFacts DEF ServerOK
<1> HIDE DEF commands
<1>3. /\ Len(book'.undo) = Len(book.undo) + Len(commands)
      /\ \A B \in Books : Restorable(book, B) => Restorable(book', B)
  BY <1>1, <1>2, RunRestorable
<1>4. /\ entry.groups = Len(commands) /\ Depth(entry) = Len(book.undo) /\ entry.before = book
      /\ Restorable(book', entry.before)
  BY <1>2, <1>3, RestorableItself DEF Depth
<1> HIDE DEF entry, n
<1>5. /\ Len(journal') = n + 1 /\ journal'[n + 1] = entry /\ journal' # <<>>
      /\ \A i \in 1 .. n : journal'[i] = journal[i]
  BY <1>1, <1>2 DEF n
<1>6. ASSUME n # 0
      PROVE  /\ Len(book.undo) = Depth(journal[n]) + journal[n].groups
             /\ Depth(journal[n]) \in Nat /\ journal[n].groups \in Nat
  <2>1. n \in 1 .. n
    BY <1>2, <1>6
  <2> QED BY <2>1, EntryFacts DEF Chained, n
<1>7. n = 0 => Len(book.undo) = 0
  <2>1. n = 0 => journal = <<>>
    BY <1>2 DEF n
  <2> QED BY <2>1 DEF Chained
<1>8. ASSUME NEW i \in 1 .. n + 1
      PROVE  /\ i = 1 => Depth(journal'[i]) = 0
             /\ i # 1 => Depth(journal'[i]) = Depth(journal'[i - 1]) + journal'[i - 1].groups
             /\ i = n + 1 => Len(book'.undo) = Depth(journal'[i]) + journal'[i].groups
             /\ \A j \in i .. n + 1 : Depth(journal'[i]) <= Depth(journal'[j])
             /\ ~ journal'[i].disturbed => Restorable(book', journal'[i].before)
  <2>1. CASE i = n + 1
    <3>1. journal'[i] = entry
      BY <1>5, <2>1
    <3>2. i # 1 => journal'[i - 1] = journal[n]
      BY <1>2, <1>5, <2>1
    <3>3. i # 1 => n # 0
      BY <2>1
    <3>4. i = 1 => Depth(entry) = 0
      BY <1>2, <1>4, <1>7, <2>1
    <3>5. i # 1 => Depth(entry) = Depth(journal[n]) + journal[n].groups
      BY <1>4, <1>6, <3>3
    <3>6. Len(book'.undo) = Depth(entry) + entry.groups
      BY <1>3, <1>4
    <3>7. \A j \in i .. n + 1 : j = i
      BY <1>2, <2>1
    <3>8. Depth(entry) <= Depth(entry)
      BY <1>2, <1>4
    <3> QED BY <1>4, <3>1, <3>2, <3>4, <3>5, <3>6, <3>7, <3>8
  <2>2. CASE i \in 1 .. n
    <3>1. journal'[i] = journal[i] /\ (i # 1 => journal'[i - 1] = journal[i - 1]) /\ i # n + 1 /\ n # 0
      BY <1>2, <1>5, <2>2
    <3>2. /\ i = 1 => Depth(journal[i]) = 0
          /\ i # 1 => Depth(journal[i]) = Depth(journal[i - 1]) + journal[i - 1].groups
          /\ \A j \in i .. n : Depth(journal[i]) <= Depth(journal[j])
          /\ ~ journal[i].disturbed => Restorable(book, journal[i].before)
      BY <2>2 DEF Chained, n
    <3>3. journal[i].before \in Books /\ Depth(journal[i]) \in Nat
      BY <2>2, EntryFacts DEF n
    <3>4. ASSUME NEW j \in i .. n + 1
          PROVE  Depth(journal'[i]) <= Depth(journal'[j])
      <4>1. CASE j \in i .. n
        <5>1. j \in 1 .. n
          BY <2>2, <4>1
        <5> QED BY <1>5, <3>1, <3>2, <4>1, <5>1
      <4>2. CASE j = n + 1
        <5>1. n \in i .. n
          BY <1>2, <2>2
        <5>2. Depth(journal[i]) <= Depth(journal[n])
          BY <3>2, <5>1
        <5>3. Depth(journal[i]) <= Depth(entry)
          BY <1>4, <1>6, <3>1, <3>3, <5>2
        <5> QED BY <1>5, <3>1, <4>2, <5>3
      <4> QED BY <1>2, <4>1, <4>2
    <3> QED BY <1>3, <3>1, <3>2, <3>3, <3>4
  <2> QED BY <1>2, <2>1, <2>2
<1> QED BY <1>5, <1>8 DEF Chained

LEMMA UndoChained ==
    ASSUME ServerOK, Chained, Undo
    PROVE  Chained'
<1> DEFINE n == Len(journal)
           last == journal[n]
<1>1. /\ journal # <<>> /\ Last(journal) = last
      /\ book' = UndoGroups(book, Last(journal).groups)
      /\ journal' \in Seq(Entries) /\ Len(journal') = n - 1
      /\ \A i \in 1 .. n - 1 : journal'[i] = journal[i]
  BY UndoFields
<1>2. book \in Books /\ n \in Nat \ {0} /\ n \in 1 .. n /\ Len(book.undo) \in Nat
  BY <1>1, BookFacts DEF ServerOK
<1>3. /\ last.groups \in Nat /\ Depth(last) \in Nat
      /\ Len(book.undo) = Depth(last) + last.groups
  BY <1>2, EntryFacts DEF Chained
<1>4. /\ Len(book'.undo) = Depth(last)
      /\ \A B \in Books : Restorable(book, B) /\ Len(B.undo) <= Depth(last) => Restorable(book', B)
  <2>1. last.groups <= Len(book.undo) /\ Len(book.undo) - last.groups = Depth(last)
    BY <1>3
  <2> HIDE DEF last
  <2> QED BY <1>1, <1>2, <1>3, <2>1, UndosRestorable
<1> HIDE DEF last
<1>5. n = 1 => Len(book'.undo) = 0
  BY <1>2, <1>4 DEF Chained, last
<1>6. journal' = <<>> => n = 1
  BY <1>1, <1>2
<1>7. ASSUME NEW i \in 1 .. n - 1
      PROVE  /\ i = 1 => Depth(journal'[i]) = 0
             /\ i # 1 => Depth(journal'[i]) = Depth(journal'[i - 1]) + journal'[i - 1].groups
             /\ i = n - 1 => Len(book'.undo) = Depth(journal'[i]) + journal'[i].groups
             /\ \A j \in i .. n - 1 : Depth(journal'[i]) <= Depth(journal'[j])
             /\ ~ journal'[i].disturbed => Restorable(book', journal'[i].before)
  <2>1. /\ i \in 1 .. n /\ n - 1 \in 1 .. n /\ n # 1 /\ journal'[i] = journal[i]
        /\ (i # 1 => journal'[i - 1] = journal[i - 1]) /\ journal'[n - 1] = journal[n - 1]
    BY <1>1, <1>2
  <2>2. /\ i = 1 => Depth(journal[i]) = 0
        /\ i # 1 => Depth(journal[i]) = Depth(journal[i - 1]) + journal[i - 1].groups
        /\ \A j \in i .. n : Depth(journal[i]) <= Depth(journal[j])
        /\ ~ journal[i].disturbed => Restorable(book, journal[i].before)
    BY <2>1 DEF Chained, last
  <2>3. Depth(last) = Depth(journal[n - 1]) + journal[n - 1].groups
    BY <1>2, <2>1 DEF Chained, last
  <2>4. journal[i].before \in Books /\ Depth(journal[i]) = Len(journal[i].before.undo)
    BY <2>1, EntryFacts DEF Depth
  <2>5. Depth(journal[i]) <= Depth(last)
    <3>1. n \in i .. n
      BY <1>2, <2>1
    <3> QED BY <2>2, <3>1 DEF last
  <2>6. \A j \in i .. n - 1 : Depth(journal'[i]) <= Depth(journal'[j])
    <3>1. \A j \in i .. n - 1 : j \in i .. n /\ j \in 1 .. n - 1
      BY <1>2
    <3> QED BY <1>1, <2>1, <2>2, <3>1
  <2> QED BY <1>4, <2>1, <2>2, <2>3, <2>4, <2>5, <2>6
<1> QED BY <1>1, <1>5, <1>6, <1>7 DEF Chained

LEMMA NextIsChained == ServerOK /\ Chained /\ [Next]_vars => Chained'
<1> SUFFICES ASSUME ServerOK, Chained, [Next]_vars PROVE Chained'
  OBVIOUS
<1>1. ASSUME NEW edits \in Batches, PreviewEdits(edits)
      PROVE  Chained'
  BY <1>1, PreviewFields DEF Chained
<1>2. ASSUME NEW edits \in Batches, NEW expected, NEW given, ApplyEdits(edits, expected, given)
      PROVE  Chained'
  BY <1>2, ApplyChained
<1>3. CASE Undo
  BY <1>3, UndoChained
<1>4. CASE \/ \E row \in ToSet(Live(book)), n \in Numbers : ForeignWrite(row, n)
           \/ \E row \in ToSet(Live(book)) : ForeignDelete(row)
  <2> DEFINE n == Len(journal)
  <2>1. /\ book'.undo = book.undo /\ journal' \in Seq(Entries) /\ Len(journal') = n /\ n \in Nat
        /\ \A i \in 1 .. n : journal'[i].groups = journal[i].groups
                             /\ journal'[i].before = journal[i].before /\ journal'[i].disturbed
    BY <1>4, ForeignFields DEF ServerOK
  <2>2. journal' = <<>> => journal = <<>>
    BY <2>1 DEF ServerOK
  <2> HIDE DEF n
  <2>3. \A i \in 1 .. n : Depth(journal'[i]) = Depth(journal[i])
    BY <2>1 DEF Depth
  <2>4. ASSUME NEW i \in 1 .. n
        PROVE  /\ i = 1 => Depth(journal'[i]) = 0
               /\ i # 1 => Depth(journal'[i]) = Depth(journal'[i - 1]) + journal'[i - 1].groups
               /\ i = n => Len(book'.undo) = Depth(journal'[i]) + journal'[i].groups
               /\ \A j \in i .. n : Depth(journal'[i]) <= Depth(journal'[j])
    <3>1. i # 1 => i - 1 \in 1 .. n
      BY <2>1
    <3>2. \A j \in i .. n : j \in 1 .. n
      BY <2>1
    <3> QED BY <2>1, <2>3, <3>1, <3>2 DEF Chained, n
  <2> QED BY <2>1, <2>2, <2>4 DEF Chained
<1>5. CASE UNCHANGED vars
  BY <1>5 DEF Chained, vars
<1> QED BY <1>1, <1>2, <1>3, <1>4, <1>5 DEF Next

LEMMA AlwaysChained == Spec => [](ServerOK /\ Foretold /\ Chained)
<1>1. Init => Chained
  BY DEF Init, NewBook, Chained
<1>2. Init => ServerOK /\ Foretold
  BY InitIsOK
<1>3. ServerOK /\ Foretold /\ Chained /\ [Next]_vars => (ServerOK /\ Foretold /\ Chained)'
  BY NextIsOK, NextIsChained
<1> QED BY <1>1, <1>2, <1>3, PTL DEF Spec

\* A total is what its parts make one after the other.
LEMMA Total ==
    ASSUME NEW j \in Seq(Entries), NEW t, t[0] = 0,
           \A i \in 1 .. Len(j) : t[i] = t[i - 1] + j[i].groups /\ t[i] \in Nat
    PROVE  FoldLeft(LAMBDA n, b : n + b.groups, 0, j) = t[Len(j)]
<1> DEFINE n == Len(j)
           g == [i \in 1 .. n |-> [x \in Nat |-> x + j[i].groups]]
           it == CHOOSE f : f = [s \in SUBSET (1 .. n) |->
                                    IF s = {} THEN 0 ELSE f[s \ {Max(s)}] + j[Max(s)].groups]
<1>0. n \in Nat /\ \A i \in 1 .. n : j[i].groups \in Nat
  <2>1. \A i \in 1 .. n : j[i] \in Entries
    OBVIOUS
  <2>2. \A e \in Entries : e.groups \in Nat
    BY BoundsAreNat DEF Entries
  <2> QED BY <2>1, <2>2
<1>1. \A i \in 1 .. n : \A x \in Nat : g[i][x] = x + j[i].groups /\ g[i][x] \in Nat
  BY <1>0
<1>2. FoldLeft(LAMBDA x, b : x + b.groups, 0, j) = it[1 .. n]
  <2>1. DOMAIN j = 1 .. n
    OBVIOUS
  <2> QED BY Zenon, <2>1 DEF FoldLeft, MapThenFoldSet
<1> HIDE DEF g, n
<1>3. PICK h : Recursion(h, Nat, 0, n, g)
  BY <1>0, <1>1, FoldExists
<1>4. h = [s \in SUBSET (1 .. n) |-> IF s = {} THEN 0 ELSE h[s \ {Max(s)}] + j[Max(s)].groups]
  <2>1. ASSUME NEW s \in SUBSET (1 .. n), s # {}
        PROVE  Max(s) \in 1 .. n
    <3>1. s \in SUBSET (0 .. n)
      BY <1>0
    <3> QED BY <1>0, <2>1, <3>1, MaxGreatest
  <2>2. \A s \in SUBSET (1 .. n) : s \ {Max(s)} \in SUBSET (1 .. n)
    OBVIOUS
  <2>3. h \in [SUBSET (1 .. n) -> Nat]
    BY <1>3 DEF Recursion
  <2>4. \A s \in SUBSET (1 .. n) :
            h[s] = IF s = {} THEN 0 ELSE h[s \ {Max(s)}] + j[Max(s)].groups
    BY <1>1, <1>3, <2>1, <2>2, <2>3 DEF Recursion
  <2> QED BY <2>3, <2>4
<1>5. it = [s \in SUBSET (1 .. n) |-> IF s = {} THEN 0 ELSE it[s \ {Max(s)}] + j[Max(s)].groups]
  BY <1>4
<1> HIDE DEF it
<1> DEFINE T == {k \in 0 .. n : it[1 .. k] = t[k]}
<1>6. 0 \in T
  <2>1. 1 .. 0 = {} /\ {} \in SUBSET (1 .. n) /\ 0 \in 0 .. n
    BY <1>0
  <2> QED BY <1>5, <2>1
<1>7. ASSUME NEW k \in 0 .. n - 1, k \in T
      PROVE  k + 1 \in T
  <2> DEFINE i == k + 1
  <2>0. i \in 1 .. n /\ i - 1 = k /\ i \in 0 .. n
    BY <1>0
  <2> HIDE DEF i
  <2>1. /\ 1 .. i \in SUBSET (1 .. n) /\ 1 .. i # {}
        /\ Max(1 .. i) = i /\ (1 .. i) \ {i} = 1 .. i - 1
    BY <1>0, <2>0, Firsts
  <2>2. it[1 .. i] = it[1 .. i - 1] + j[i].groups
    BY <1>5, <2>1
  <2>3. t[i] = t[i - 1] + j[i].groups
    BY <2>0 DEF n
  <2> QED BY <1>7, <2>0, <2>2, <2>3 DEF i
<1>8. n \in T
  <2> HIDE DEF T
  <2>1. 0 .. n \subseteq T
    BY <1>0, <1>6, <1>7, UpTo
  <2> QED BY <1>0, <2>1
<1> QED BY <1>2, <1>8 DEF n

\* The undo stack holds the groups of the batches on the journal and no others:
\* a batch that was accepted leaves as many groups as the journal records, and
\* an undo takes those of the newest away (apply_edits, validate, undo).
THEOREM JournalIsStack == Spec => []JournalIsUndoStack
<1>1. ServerOK /\ Chained => JournalIsUndoStack
  <2> SUFFICES ASSUME ServerOK, Chained PROVE JournalIsUndoStack
    OBVIOUS
  <2> DEFINE n == Len(journal)
             t == [i \in 0 .. n |-> IF i = 0 THEN 0 ELSE Depth(journal[i]) + journal[i].groups]
  <2>1. journal \in Seq(Entries) /\ n \in Nat
    BY DEF ServerOK
  <2>2. t[0] = 0 /\ \A i \in 1 .. n : t[i] = Depth(journal[i]) + journal[i].groups /\ t[i] \in Nat
    BY <2>1, EntryFacts
  <2>3. ASSUME NEW i \in 1 .. n
        PROVE  t[i] = t[i - 1] + journal[i].groups
    <3>1. Depth(journal[i]) = t[i - 1]
      <4>1. CASE i = 1
        BY <2>2, <4>1 DEF Chained
      <4>2. CASE i # 1
        <5>1. i - 1 \in 1 .. n
          BY <2>1, <4>2
        <5> QED BY <2>2, <4>2, <5>1 DEF Chained
      <4> QED BY <4>1, <4>2
    <3> QED BY <2>2, <3>1
  <2>4. Len(book.undo) = t[n]
    <3>1. CASE n = 0
      <4>1. journal = <<>>
        BY <2>1, <3>1
      <4> QED BY <2>2, <3>1, <4>1 DEF Chained
    <3>2. CASE n # 0
      <4>1. n \in 1 .. n
        BY <2>1, <3>2
      <4> QED BY <2>2, <4>1 DEF Chained
    <3> QED BY <3>1, <3>2
  <2> HIDE DEF t
  <2>5. FoldLeft(LAMBDA x, b : x + b.groups, 0, journal) = t[n]
    BY <2>1, <2>2, <2>3, Total
  <2> QED BY Zenon, <2>4, <2>5 DEF JournalIsUndoStack
<1> QED BY <1>1, AlwaysChained, PTL

\* Undoing a batch nobody interfered with since, after any batches above it
\* have been undone, brings back the cells the agent found, grown rows gone
\* (apply_edits, undo, run_inverse).
THEOREM UndoBringsBack == Spec => UndoRestores
<1>1. ServerOK /\ Chained /\ [Next]_vars
      => [journal # <<>> /\ journal' = Front(journal) /\ ~ Last(journal).disturbed
            => Hash(book') = Hash(Last(journal).before)]_vars
  <2> SUFFICES ASSUME ServerOK, Chained, Next, journal # <<>>, journal' = Front(journal),
                      ~ Last(journal).disturbed
               PROVE  Hash(book') = Hash(Last(journal).before)
    OBVIOUS
  <2>0. Len(journal') = Len(journal) - 1 /\ Len(journal) \in Nat
    BY FrontFields DEF ServerOK
  <2>1. ASSUME NEW edits \in Batches, PreviewEdits(edits)
        PROVE  FALSE
    BY <2>0, <2>1 DEF PreviewEdits
  <2>2. ASSUME NEW edits \in Batches, NEW expected, NEW given, ApplyEdits(edits, expected, given)
        PROVE  FALSE
    <3> DEFINE entry == [groups |-> Len(Commands(book, edits)), before |-> book, disturbed |-> FALSE]
    <3>1. journal' = Append(journal, entry)
      BY <2>2, ApplyFields
    <3> HIDE DEF entry
    <3> QED BY <2>0, <3>1 DEF ServerOK
  <2>3. CASE Undo
    <3> DEFINE n == Len(journal)
               last == journal[n]
    <3>1. Last(journal) = last /\ book' = UndoGroups(book, last.groups)
      BY <2>3, UndoFields
    <3>2. n \in 1 .. n /\ book \in Books
      BY <2>0 DEF ServerOK
    <3>3. /\ last.before \in Books /\ last.groups \in Nat
          /\ Len(last.before.undo) \in Nat
          /\ Len(book.undo) = Len(last.before.undo) + last.groups
          /\ Restorable(book, last.before)
      BY <3>1, <3>2, EntryFacts DEF Chained, Depth
    <3> HIDE DEF last
    <3>4. last.groups <= Len(book.undo) /\ Len(book.undo) - last.groups = Len(last.before.undo)
          /\ Len(last.before.undo) <= Len(book.undo) - last.groups
      BY <3>3
    <3>5. Restorable(book', last.before) /\ Len(book'.undo) = Len(last.before.undo)
      BY <3>1, <3>2, <3>3, <3>4, UndosRestorable
    <3>6. book' \in Books
      BY <2>3, UndoFields
    <3> QED BY <3>1, <3>3, <3>5, <3>6, RestoredIsSame
  <2>4. CASE \/ \E row \in ToSet(Live(book)), n \in Numbers : ForeignWrite(row, n)
             \/ \E row \in ToSet(Live(book)) : ForeignDelete(row)
    <3>1. Len(journal') = Len(journal)
      BY <2>4, ForeignFields
    <3> QED BY <2>0, <3>1
  <2> QED BY <2>1, <2>2, <2>3, <2>4 DEF Next
<1> QED BY <1>1, AlwaysChained, PTL DEF Spec, UndoRestores
=============================================================================
