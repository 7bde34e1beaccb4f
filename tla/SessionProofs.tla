--------------------------- MODULE SessionProofs ---------------------------
(***************************************************************************)
(* What holds of editing sessions for any actors, any base workbook and    *)
(* any number of ops.  First what a fold computes: the state a replay      *)
(* leaves, and the tip path, is written out as a function of the op set    *)
(* alone (Meaning, Folds), and what it shows is compared with the          *)
(* reference.  Then the sessions: the identity and place of every op       *)
(* (IInv), the state each session holds (SInv), what its undo takes back   *)
(* (Undoable), and what opening a snapshot leaves (Resumes).               *)
(***************************************************************************)
EXTENDS SheetReference, SequenceTheorems, FiniteSetTheorems, WellFoundedInduction, TLAPS

-----------------------------------------------------------------------------
(* Numbers, and functions defined by recursion over them.                  *)

\* A nonempty set of naturals has a least element.
LEMMA LeastNatural ==
    ASSUME NEW I \in SUBSET Nat, I # {}
    PROVE  \E x \in I : \A y \in I : x <= y
<1>1. PICK x \in I : \A y \in I : ~(<<y, x>> \in OpToRel(<, Nat))
  BY NatLessThanWellFounded, WFMin
<1>2. \A y \in I : ~(y < x)
  BY <1>1 DEF OpToRel
<1> QED BY <1>2

\* A set with the first number, and the next of each below the bound, has all.
LEMMA UpTo ==
    ASSUME NEW n \in Nat, NEW T, 0 \in T, \A k \in 0 .. n - 1 : k \in T => k + 1 \in T
    PROVE  0 .. n \subseteq T
<1> DEFINE Bad == 0 .. n \ T
<1>1. SUFFICES ASSUME Bad # {}
               PROVE  FALSE
  OBVIOUS
<1>2. PICK least \in Bad : \A k \in Bad : least <= k
  <2>1. Bad \in SUBSET Nat
    OBVIOUS
  <2> HIDE DEF Bad
  <2> QED BY <1>1, <2>1, LeastNatural
<1>3. least # 0 /\ least - 1 \in 0 .. n - 1 /\ ~ (least <= least - 1)
  OBVIOUS
<1>4. least - 1 \in T
  BY <1>2, <1>3
<1> QED BY <1>3, <1>4

\* What starts in a set and stays in it at each step is in it throughout.
LEMMA StaysIn ==
    ASSUME NEW n \in Nat, NEW S, NEW run, run[0] \in S,
           \A k \in 0 .. n - 1 : run[k] \in S => run[k + 1] \in S
    PROVE  \A k \in 0 .. n : run[k] \in S
<1> DEFINE T == {k \in 0 .. n : run[k] \in S}
<1>1. 0 \in T /\ \A k \in 0 .. n - 1 : k \in T => k + 1 \in T
  OBVIOUS
<1>2. 0 .. n \subseteq T
  <2> HIDE DEF T
  <2> QED BY <1>1, UpTo
<1> QED BY <1>2

\* Max is the greatest element of a bounded set.
LEMMA MaxGreatest ==
    ASSUME NEW n \in Nat, NEW s \in SUBSET (0 .. n), s # {}
    PROVE  Max(s) \in s /\ \A y \in s : y <= Max(s)
<1> DEFINE J == {n - x : x \in s}
<1>1. J \in SUBSET Nat /\ J # {}
  <2>1. \A x \in s : n - x \in Nat
    OBVIOUS
  <2> QED BY <2>1
<1>2. PICK j \in J : \A y \in J : j <= y
  BY <1>1, LeastNatural
<1>3. PICK x \in s : j = n - x
  OBVIOUS
<1>4. \A y \in s : n - x <= n - y
  BY <1>2, <1>3
<1>5. \A y \in s : y <= x
  BY <1>4
<1> QED BY <1>5 DEF Max

\* The largest of the first numbers is the last.
LEMMA LargestIsLast ==
    ASSUME NEW k \in Nat, NEW s \in SUBSET (1 .. k + 1), k + 1 \in s
    PROVE  Max(s) = k + 1
<1> DEFINE m == Max(s)
<1> HIDE DEF m
<1>0. k + 1 \in Nat /\ s # {} /\ s \in SUBSET (0 .. k + 1)
  OBVIOUS
<1>1. m \in s /\ \A y \in s : y <= m
  BY <1>0, MaxGreatest DEF m
<1>2. m \in 1 .. k + 1 /\ k + 1 <= m
  BY <1>1
<1>3. m = k + 1
  BY <1>2
<1> QED BY <1>3 DEF m

\* So taking the largest of the first i indices away leaves the first i - 1.
LEMMA Firsts ==
    ASSUME NEW n \in Nat, NEW i \in 1 .. n
    PROVE  /\ 1 .. i \in SUBSET (1 .. n) /\ 1 .. i # {}
           /\ Max(1 .. i) = i /\ (1 .. i) \ {i} = 1 .. i - 1
<1>1. i - 1 \in Nat /\ (i - 1) + 1 = i
  OBVIOUS
<1>2. 1 .. i \in SUBSET (1 .. (i - 1) + 1) /\ (i - 1) + 1 \in 1 .. i
  OBVIOUS
<1>3. Max(1 .. i) = (i - 1) + 1
  BY <1>1, <1>2, LargestIsLast
<1>4. i \in 1 .. i /\ 1 .. i \in SUBSET (1 .. n) /\ (1 .. i) \ {i} = 1 .. i - 1
  OBVIOUS
<1> QED BY <1>1, <1>3, <1>4

\* h is the recursion over the sets of the first k indices; run is the result
\* after each step.
Recursion(h, S, base, k, g) ==
    /\ h \in [SUBSET (1 .. k) -> S]
    /\ \A s \in SUBSET (1 .. k) : h[s] = IF s = {} THEN base ELSE g[Max(s)][h[s \ {Max(s)}]]
Stepwise(run, S, base, n, g) ==
    /\ run \in [0 .. n -> S]
    /\ run[0] = base
    /\ \A i \in 1 .. n : run[i] = g[i][run[i - 1]]

\* The recursion over the sets of indices has a solution.
LEMMA FoldExists ==
    ASSUME NEW S, NEW base \in S, NEW n \in Nat, NEW g,
           \A i \in 1 .. n : \A x \in S : g[i][x] \in S
    PROVE  \E h : Recursion(h, S, base, n, g)
<1> DEFINE T == {k \in 0 .. n : \E h : Recursion(h, S, base, k, g)}
<1>1. 0 \in T
  <2> DEFINE h0 == [s \in SUBSET (1 .. 0) |-> base]
  <2>1. \A s \in SUBSET (1 .. 0) : s = {}
    OBVIOUS
  <2>2. h0 \in [SUBSET (1 .. 0) -> S]
    OBVIOUS
  <2>3. \A s \in SUBSET (1 .. 0) : h0[s] = base
    OBVIOUS
  <2>4. Recursion(h0, S, base, 0, g)
    BY <2>1, <2>2, <2>3 DEF Recursion
  <2>5. 0 \in 0 .. n
    OBVIOUS
  <2> HIDE DEF h0
  <2> QED BY <2>4, <2>5
<1>2. ASSUME NEW k \in 0 .. n - 1, k \in T
      PROVE  k + 1 \in T
  <2>1. PICK h : Recursion(h, S, base, k, g)
    BY <1>2
  <2>0. h \in [SUBSET (1 .. k) -> S]
    BY <2>1 DEF Recursion
  <2> DEFINE h2 == [s \in SUBSET (1 .. k + 1) |->
                      IF k + 1 \in s THEN g[k + 1][h[s \ {k + 1}]] ELSE h[s]]
  <2>2. \A s \in SUBSET (1 .. k + 1) :
            IF k + 1 \in s THEN s \ {k + 1} \in SUBSET (1 .. k) ELSE s \in SUBSET (1 .. k)
    OBVIOUS
  <2>3. k + 1 \in 1 .. n
    OBVIOUS
  <2>4. h2 \in [SUBSET (1 .. k + 1) -> S]
    BY <2>0, <2>2, <2>3
  <2>5. ASSUME NEW s \in SUBSET (1 .. k + 1)
        PROVE  h2[s] = IF s = {} THEN base ELSE g[Max(s)][h2[s \ {Max(s)}]]
    <3>1. CASE k + 1 \in s
      <4>1. Max(s) = k + 1
        BY <3>1, LargestIsLast
      <4>2. h2[s \ {k + 1}] = h[s \ {k + 1}]
        OBVIOUS
      <4> QED BY <3>1, <4>1, <4>2
    <3>2. CASE k + 1 \notin s
      <4>1. s \in SUBSET (1 .. k)
        BY <2>2, <3>2
      <4>0. s \ {Max(s)} \in SUBSET (1 .. k) /\ s \ {Max(s)} \in SUBSET (1 .. k + 1)
        BY <4>1
      <4>2. h2[s] = h[s] /\ h2[s \ {Max(s)}] = h[s \ {Max(s)}]
        BY <3>2, <4>0
      <4> QED BY <2>1, <4>1, <4>2 DEF Recursion
    <3> QED BY <3>1, <3>2
  <2> HIDE DEF h2
  <2>6. Recursion(h2, S, base, k + 1, g)
    BY <2>4, <2>5 DEF Recursion
  <2>7. k + 1 \in 0 .. n
    OBVIOUS
  <2> QED BY <2>6, <2>7
<1>3. 0 .. n \subseteq T
  <2> HIDE DEF T
  <2> QED BY <1>1, <1>2, UpTo
<1>4. n \in T
  <2> HIDE DEF T
  <2> QED BY <1>3
<1> QED BY <1>4

\* A solution, taken at the first indices, is the run of the steps in order.
LEMMA FoldSteps ==
    ASSUME NEW S, NEW base \in S, NEW n \in Nat, NEW g, NEW h, Recursion(h, S, base, n, g),
           \A i \in 1 .. n : \A x \in S : g[i][x] \in S
    PROVE  \E run : Stepwise(run, S, base, n, g) /\ run[n] = h[1 .. n]
<1>0. \A s \in SUBSET (1 .. n) : h[s] = IF s = {} THEN base ELSE g[Max(s)][h[s \ {Max(s)}]]
  BY DEF Recursion
<1> DEFINE run == [i \in 0 .. n |-> h[1 .. i]]
<1>1. run[0] = base
  <2>1. 1 .. 0 = {} /\ {} \in SUBSET (1 .. n)
    OBVIOUS
  <2>2. h[{}] = base
    BY <1>0, <2>1
  <2> QED BY <2>1, <2>2
<1>2. ASSUME NEW i \in 1 .. n
      PROVE  run[i] = g[i][run[i - 1]]
  <2>1. h[1 .. i] = g[i][h[1 .. i - 1]]
    BY <1>0, Firsts
  <2> QED BY <2>1
<1>3. \A k \in 0 .. n : run[k] \in S
  <2> HIDE DEF run
  <2>1. \A k \in 0 .. n - 1 : k + 1 \in 1 .. n /\ (k + 1) - 1 = k
    OBVIOUS
  <2>2. \A k \in 0 .. n - 1 : run[k] \in S => run[k + 1] \in S
    BY <1>2, <2>1
  <2> QED BY <1>1, <2>2, StaysIn
<1>4. run \in [0 .. n -> S] /\ run[n] = h[1 .. n]
  BY <1>3
<1>5. Stepwise(run, S, base, n, g)
  BY <1>1, <1>2, <1>4 DEF Stepwise
<1> HIDE DEF run
<1> QED BY <1>4, <1>5

\* Stepwise one after the other lead somewhere.
LEMMA StepsExist ==
    ASSUME NEW S, NEW base \in S, NEW n \in Nat, NEW g,
           \A i \in 1 .. n : \A x \in S : g[i][x] \in S
    PROVE  \E run : Stepwise(run, S, base, n, g)
  BY FoldExists, FoldSteps

-----------------------------------------------------------------------------
(* Orders.                                                                 *)

\* R orders S strictly and totally.
Orders(R, S) ==
    /\ \A x \in S : <<x, x>> \notin R
    /\ \A x, y \in S : x = y \/ <<x, y>> \in R \/ <<y, x>> \in R
    /\ \A x, y, z \in S : <<x, y>> \in R /\ <<y, z>> \in R => <<x, z>> \in R

\* seq lists S by R.
Lists(seq, S, R) ==
    /\ seq \in [1 .. Cardinality(S) -> S]
    /\ \A i, j \in 1 .. Cardinality(S) : i < j => <<seq[i], seq[j]>> \in R
    /\ \A x \in S : \E i \in 1 .. Cardinality(S) : seq[i] = x

Below(x, S, R) == {y \in S : <<y, x>> \in R}

LEMMA BelowGrows ==
    ASSUME NEW S, NEW R, IsFiniteSet(S), Orders(R, S), NEW x \in S, NEW z \in S, <<x, z>> \in R
    PROVE  /\ Cardinality(Below(x, S, R)) \in Nat /\ Cardinality(Below(z, S, R)) \in Nat
           /\ Cardinality(Below(x, S, R)) < Cardinality(Below(z, S, R))
<1>1. Below(x, S, R) \in SUBSET Below(z, S, R) /\ x \in Below(z, S, R) /\ x \notin Below(x, S, R)
  BY DEF Below, Orders
<1>2. Below(z, S, R) \in SUBSET S
  BY DEF Below
<1>3. IsFiniteSet(Below(z, S, R))
  BY <1>2, FS_Subset
<1>4. /\ IsFiniteSet(Below(x, S, R))
      /\ Cardinality(Below(x, S, R)) <= Cardinality(Below(z, S, R))
      /\ Cardinality(Below(z, S, R)) = Cardinality(Below(x, S, R)) => Below(z, S, R) = Below(x, S, R)
  BY <1>1, <1>3, FS_Subset
<1>5. Cardinality(Below(x, S, R)) \in Nat /\ Cardinality(Below(z, S, R)) \in Nat
  BY <1>3, <1>4, FS_CardinalityType
<1> QED BY <1>1, <1>4, <1>5

\* Every place is some member's.
LEMMA RankExists ==
    ASSUME NEW S, NEW R, IsFiniteSet(S), Orders(R, S), NEW i \in 1 .. Cardinality(S)
    PROVE  \E x \in S : Cardinality(Below(x, S, R)) = i - 1
<1> DEFINE n == Cardinality(S)
           T == 0 .. n - 1
           f == [x \in S |-> Cardinality(Below(x, S, R))]
<1>0. n \in Nat
  BY FS_CardinalityType
<1>1. \A x \in S : f[x] \in T
  <2> TAKE x \in S
  <2>1. Below(x, S, R) \in SUBSET S /\ x \notin Below(x, S, R)
    BY DEF Below, Orders
  <2>2. /\ IsFiniteSet(Below(x, S, R))
        /\ Cardinality(Below(x, S, R)) <= n
        /\ n # Cardinality(Below(x, S, R))
    BY <2>1, FS_Subset
  <2>3. Cardinality(Below(x, S, R)) \in Nat
    BY <2>2, FS_CardinalityType
  <2> QED BY <1>0, <2>2, <2>3
<1>2. \A x, z \in S : f[x] = f[z] => x = z
  <2> SUFFICES ASSUME NEW x \in S, NEW z \in S, f[x] = f[z], x # z PROVE FALSE
    OBVIOUS
  <2>1. <<x, z>> \in R \/ <<z, x>> \in R
    BY DEF Orders
  <2>2. f[x] < f[z] \/ f[z] < f[x]
    BY <2>1, BelowGrows
  <2> QED BY <2>2, <1>1
<1>3. f \in Injection(S, T)
  BY <1>1, <1>2 DEF Injection, IsInjective
<1>4. IsFiniteSet(T) /\ Cardinality(T) = n
  <2> HIDE DEF n
  <2>1. 0 \in Int /\ n - 1 \in Int /\ (0 > n - 1 => n = 0) /\ (n - 1) - 0 + 1 = n
    BY <1>0
  <2> QED BY <2>1, FS_Interval
<1>5. f \in Surjection(S, T)
  BY <1>3, <1>4, FS_Injection
<1>6. i - 1 \in T
  BY <1>0
<1>7. \E x \in S : f[x] = i - 1
  BY <1>5, <1>6 DEF Surjection
<1> QED BY <1>7

\* A sequence that gives each place to its member lists the set.
LEMMA RankedLists ==
    ASSUME NEW S, NEW R, IsFiniteSet(S), Orders(R, S), NEW seq,
           DOMAIN seq = 1 .. Cardinality(S), seq = [i \in DOMAIN seq |-> seq[i]],
           \A i \in 1 .. Cardinality(S) : seq[i] \in S /\ Cardinality(Below(seq[i], S, R)) = i - 1
    PROVE  Lists(seq, S, R)
<1> DEFINE n == Cardinality(S)
<1>0. n \in Nat
  BY FS_CardinalityType
<1>1. seq \in [1 .. n -> S]
  OBVIOUS
<1>2. ASSUME NEW i \in 1 .. n, NEW j \in 1 .. n, i < j PROVE <<seq[i], seq[j]>> \in R
  <2>1. CASE seq[i] = seq[j]
    BY <1>2, <2>1
  <2>2. CASE <<seq[j], seq[i]>> \in R
    <3>1. Cardinality(Below(seq[j], S, R)) < Cardinality(Below(seq[i], S, R))
      BY <2>2, BelowGrows
    <3> QED BY <1>2, <3>1
  <2> QED BY <2>1, <2>2 DEF Orders
<1>3. ASSUME NEW x \in S PROVE \E i \in 1 .. n : seq[i] = x
  <2> DEFINE f == [i \in 1 .. n |-> seq[i]]
  <2>1. \A i, j \in 1 .. n : f[i] = f[j] => i = j
    <3> SUFFICES ASSUME NEW i \in 1 .. n, NEW j \in 1 .. n, seq[i] = seq[j], i # j PROVE FALSE
      OBVIOUS
    <3>1. i < j \/ j < i
      BY <1>0
    <3> QED BY <1>2, <3>1 DEF Orders
  <2>2. f \in Injection(1 .. n, S)
    BY <2>1 DEF Injection, IsInjective
  <2>3. Cardinality(1 .. n) = n
    BY <1>0, FS_Interval
  <2>4. f \in Surjection(1 .. n, S)
    BY <2>2, <2>3, FS_Injection
  <2> QED BY <2>4 DEF Surjection
<1> QED BY <1>1, <1>2, <1>3 DEF Lists

\* There is one way to list a set.
LEMMA OneList ==
    ASSUME NEW S, NEW R, IsFiniteSet(S), Orders(R, S), NEW s, NEW t, Lists(s, S, R), Lists(t, S, R)
    PROVE  s = t
<1> DEFINE n == Cardinality(S)
<1>0. n \in Nat
  BY FS_CardinalityType
<1>a. s \in [1 .. n -> S] /\ t \in [1 .. n -> S]
  BY DEF Lists
<1>b. SUFFICES \A k \in 1 .. n : s[k] = t[k]
  <2>1. s = [k \in 1 .. n |-> s[k]] /\ t = [k \in 1 .. n |-> t[k]]
    BY <1>a
  <2> HIDE DEF n
  <2> QED BY <2>1
<1>c. SUFFICES ASSUME NEW k \in 1 .. n, s[k] # t[k] PROVE FALSE
  OBVIOUS
<1> DEFINE Bad == {i \in 1 .. n : s[i] # t[i]}
<1>1. Bad \in SUBSET Nat /\ Bad # {}
  BY <1>c
<1>2. PICK b \in Bad : \A y \in Bad : b <= y
  <2> HIDE DEF Bad
  <2> QED BY <1>1, LeastNatural
<1>3. b \in 1 .. n /\ s[b] # t[b] /\ \A i \in 1 .. n : i < b => s[i] = t[i]
  <2>1. \A i \in 1 .. n : i < b => i \notin Bad
    BY <1>2
  <2> QED BY <2>1
<1>4. /\ s \in [1 .. n -> S] /\ t \in [1 .. n -> S]
      /\ \A i, j \in 1 .. n : i < j => <<s[i], s[j]>> \in R /\ <<t[i], t[j]>> \in R
      /\ \A x \in S : (\E i \in 1 .. n : s[i] = x) /\ (\E i \in 1 .. n : t[i] = x)
  BY DEF Lists
<1>5. PICK i \in 1 .. n : s[i] = t[b]
  BY <1>3, <1>4
<1>6. PICK j \in 1 .. n : t[j] = s[b]
  BY <1>3, <1>4
<1>7. b < i
  <2>1. i # b
    BY <1>3, <1>5
  <2>2. ~(i < b)
    <3> SUFFICES ASSUME i < b PROVE FALSE
      OBVIOUS
    <3>1. t[i] = t[b] /\ <<t[i], t[b]>> \in R
      BY <1>3, <1>4, <1>5
    <3> QED BY <3>1, <1>3, <1>4 DEF Orders
  <2> QED BY <1>0, <1>3, <2>1, <2>2
<1>8. b < j
  <2>1. j # b
    BY <1>3, <1>6
  <2>2. ~(j < b)
    <3> SUFFICES ASSUME j < b PROVE FALSE
      OBVIOUS
    <3>1. s[j] = s[b] /\ <<s[j], s[b]>> \in R
      BY <1>3, <1>4, <1>6
    <3> QED BY <3>1, <1>3, <1>4 DEF Orders
  <2> QED BY <1>0, <1>3, <2>1, <2>2
<1>9. <<s[b], t[b]>> \in R /\ <<t[b], s[b]>> \in R /\ s[b] \in S /\ t[b] \in S
  BY <1>3, <1>4, <1>5, <1>6, <1>7, <1>8
<1> QED BY <1>9 DEF Orders

\* The members of a sequence at some of its places.
At(seq, s) == {seq[j] : j \in s}

\* Without the largest place, what is left is before the member there.
LEMMA LargestPlace ==
    ASSUME NEW S, NEW R, IsFiniteSet(S), NEW seq, Lists(seq, S, R),
           NEW s \in SUBSET (1 .. Cardinality(S)), s # {}
    PROVE  /\ Max(s) \in s /\ seq[Max(s)] \in S
           /\ s \ {Max(s)} \in SUBSET (1 .. Cardinality(S))
           /\ At(seq, s) = At(seq, s \ {Max(s)}) \union {seq[Max(s)]}
           /\ At(seq, s) \in SUBSET S
           /\ \A x \in At(seq, s \ {Max(s)}) : <<x, seq[Max(s)]>> \in R
<1> DEFINE n == Cardinality(S)
           m == Max(s)
<1>0. n \in Nat /\ s \in SUBSET (0 .. n)
  BY FS_CardinalityType
<1>1. m \in s /\ \A y \in s : y <= m
  <2> HIDE DEF n
  <2> QED BY <1>0, MaxGreatest
<1>2. /\ seq \in [1 .. n -> S]
      /\ \A i, j \in 1 .. n : i < j => <<seq[i], seq[j]>> \in R
  BY DEF Lists
<1> HIDE DEF n, m
<1>3. \A y \in s \ {m} : y < m /\ y \in 1 .. n /\ m \in 1 .. n
  BY <1>0, <1>1 DEF n
<1>4. \A x \in At(seq, s \ {m}) : <<x, seq[m]>> \in R
  BY <1>2, <1>3 DEF At
<1>5. At(seq, s) = At(seq, s \ {m}) \union {seq[m]}
  BY <1>1 DEF At
<1>6. At(seq, s) \in SUBSET S /\ seq[m] \in S
  BY <1>1, <1>2 DEF At, n
<1> QED BY <1>1, <1>4, <1>5, <1>6 DEF n, m

LEMMA AllPlaces ==
    ASSUME NEW S, NEW R, NEW seq, Lists(seq, S, R)
    PROVE  At(seq, {}) = {} /\ At(seq, 1 .. Cardinality(S)) = S
BY DEF At, Lists

\* A member ahead of all others goes to the front.
LEMMA ListGrowsInFront ==
    ASSUME NEW S, NEW R, IsFiniteSet(S), NEW m, m \notin S, NEW seq, Lists(seq, S, R),
           \A x \in S : <<m, x>> \in R
    PROVE  Lists([i \in 1 .. Cardinality(S \union {m}) |-> IF i = 1 THEN m ELSE seq[i - 1]],
                 S \union {m}, R)
<1> DEFINE n == Cardinality(S)
           t == [i \in 1 .. n + 1 |-> IF i = 1 THEN m ELSE seq[i - 1]]
<1>0. n \in Nat /\ Cardinality(S \union {m}) = n + 1
  BY FS_CardinalityType, FS_AddElement
<1>1. /\ seq \in [1 .. n -> S]
      /\ \A i, j \in 1 .. n : i < j => <<seq[i], seq[j]>> \in R
      /\ \A x \in S : \E i \in 1 .. n : seq[i] = x
  BY DEF Lists
<1> HIDE DEF n
<1>2. t[1] = m /\ \A i \in 1 .. n : i + 1 \in 1 .. n + 1 /\ t[i + 1] = seq[i]
  BY <1>0
<1>3. \A i \in 2 .. n + 1 : i - 1 \in 1 .. n /\ t[i] = seq[i - 1]
  BY <1>0
<1>a. t = [i \in 1 .. n + 1 |-> t[i]] /\ 1 \in 1 .. n + 1
  BY <1>0
<1> HIDE DEF t
<1>4. t \in [1 .. n + 1 -> S \union {m}]
  <2>1. \A i \in 1 .. n + 1 : i = 1 \/ i \in 2 .. n + 1
    BY <1>0
  <2>2. \A i \in 1 .. n + 1 : t[i] \in S \union {m}
    BY <1>1, <1>2, <1>3, <2>1
  <2> QED BY <1>a, <2>2
<1>5. ASSUME NEW i \in 1 .. n + 1, NEW j \in 1 .. n + 1, i < j
      PROVE  <<t[i], t[j]>> \in R
  <2>1. j - 1 \in 1 .. n /\ t[j] = seq[j - 1] /\ seq[j - 1] \in S
    <3>1. j \in 2 .. n + 1
      BY <1>0, <1>5
    <3> QED BY <1>1, <1>3, <3>1
  <2>2. CASE i = 1
    BY <2>1, <2>2, <1>2
  <2>3. CASE i # 1
    <3>1. i \in 2 .. n + 1 /\ i - 1 < j - 1
      BY <1>0, <1>5, <2>3
    <3> QED BY <1>1, <1>3, <2>1, <3>1
  <2> QED BY <2>2, <2>3
<1>6. \A x \in S \union {m} : \E i \in 1 .. n + 1 : t[i] = x
  BY <1>1, <1>2, <1>a
<1>7. Lists(t, S \union {m}, R)
  BY <1>0, <1>4, <1>5, <1>6 DEF Lists
<1> QED BY <1>0, <1>7 DEF t

-----------------------------------------------------------------------------
(* Ops in canonical order.                                                 *)

Keys == Nat \X Nat \X Nat

LEMMA BeforeOrders ==
    /\ \A k \in Keys : ~Before(k, k)
    /\ \A k, l \in Keys : k = l \/ Before(k, l) \/ Before(l, k)
    /\ \A k, l, m \in Keys : Before(k, l) /\ Before(l, m) => Before(k, m)
BY DEF Before, Keys

\* A log the fold may meet.
Ops(P) ==
    /\ IsFiniteSet(P)
    /\ \A op \in P : op.actor \in Nat /\ op.counter \in Nat /\ op.lamport \in Nat
    /\ \A o, p \in P : Id(o) = Id(p) => o = p

OpOrder(U) == {p \in U \X U : Before(Key(p[1]), Key(p[2]))}

LEMMA OpKeys ==
    ASSUME NEW P, Ops(P)
    PROVE  /\ \A op \in P : Key(op) \in Keys
           /\ \A o, p \in P : Key(o) = Key(p) => o = p
           /\ \A o, p \in P : <<o, p>> \in OpOrder(P) <=> Before(Key(o), Key(p))
<1>1. \A op \in P : Key(op) \in Keys
  BY DEF Ops, Key, Keys
<1>2. \A o, p \in P : Key(o) = Key(p) => o = p
  BY DEF Ops, Key, Id
<1>3. \A o, p \in P : <<o, p>> \in OpOrder(P) <=> Before(Key(o), Key(p))
  BY DEF OpOrder
<1> QED BY <1>1, <1>2, <1>3

LEMMA OpsOrdered ==
    ASSUME NEW P, Ops(P), NEW S \in SUBSET P
    PROVE  Orders(OpOrder(P), S) /\ IsFiniteSet(S) /\ Ops(S)
<1>1. IsFiniteSet(S) /\ Ops(S)
  BY FS_Subset DEF Ops
<1>2. \A x \in S : <<x, x>> \notin OpOrder(P)
  BY OpKeys, BeforeOrders
<1>3. \A x, y \in S : x = y \/ <<x, y>> \in OpOrder(P) \/ <<y, x>> \in OpOrder(P)
  BY OpKeys, BeforeOrders
<1>4. ASSUME NEW x \in S, NEW y \in S, NEW z \in S,
             <<x, y>> \in OpOrder(P), <<y, z>> \in OpOrder(P)
      PROVE  <<x, z>> \in OpOrder(P)
  <2>1. Key(x) \in Keys /\ Key(y) \in Keys /\ Key(z) \in Keys
    BY OpKeys
  <2>2. Before(Key(x), Key(y)) /\ Before(Key(y), Key(z))
    BY <1>4, OpKeys
  <2>3. Before(Key(x), Key(z))
    BY <2>1, <2>2, BeforeOrders
  <2> QED BY <2>3, OpKeys
<1> QED BY <1>1, <1>2, <1>3, <1>4 DEF Orders

LEMMA CanonicalLists ==
    ASSUME NEW P, Ops(P), NEW S \in SUBSET P
    PROVE  Lists(Canonical(S), S, OpOrder(P))
<1> DEFINE R == OpOrder(P)
           c == Canonical(S)
           n == Cardinality(S)
<1>1. Orders(R, S) /\ IsFiniteSet(S)
  BY OpsOrdered
<1>2. \A x \in S : Below(x, S, R) = {y \in S : Before(Key(y), Key(x))}
  BY OpKeys DEF Below
<1>3. c = [i \in 1 .. n |-> CHOOSE x \in S : Cardinality({y \in S : Before(Key(y), Key(x))}) = i - 1]
  BY DEF Canonical, Sorted
<1>4. ASSUME NEW i \in 1 .. n
      PROVE  c[i] \in S /\ Cardinality(Below(c[i], S, R)) = i - 1
  <2> HIDE DEF R, c
  <2>1. \E x \in S : Cardinality(Below(x, S, R)) = i - 1
    BY <1>1, RankExists
  <2>2. \E x \in S : Cardinality({y \in S : Before(Key(y), Key(x))}) = i - 1
    BY <1>2, <2>1
  <2>3. /\ c[i] \in S
        /\ Cardinality({y \in S : Before(Key(y), Key(c[i]))}) = i - 1
    BY <1>3, <2>2
  <2> QED BY <1>2, <2>3
<1>5. DOMAIN c = 1 .. n /\ c = [i \in DOMAIN c |-> c[i]]
  BY <1>3
<1> HIDE DEF R, c
<1> QED BY <1>1, <1>4, <1>5, RankedLists DEF R, c

-----------------------------------------------------------------------------
(* The insertion tree.                                                     *)

Tree(T) ==
    /\ IsFiniteSet(T)
    /\ \A e \in T : e.key \in Keys /\ IdOf(e.key) # Root
    /\ \A e, f \in T : IdOf(e.key) = IdOf(f.key) => e = f

IdsIn(T) == {IdOf(e.key) : e \in T}
KeysUnder(T, r) == {e.key : e \in {t \in T : t.anchor = r}}
Latest == {p \in Keys \X Keys : Before(p[2], p[1])}

LEMMA KeysOrdered ==
    ASSUME NEW S \in SUBSET Keys
    PROVE  Orders(Latest, S)
<1>0. \A k, l \in Keys : <<k, l>> \in Latest <=> Before(l, k)
  BY DEF Latest
<1>1. \A x \in S : <<x, x>> \notin Latest
  BY <1>0, BeforeOrders
<1>2. \A x, y \in S : x = y \/ <<x, y>> \in Latest \/ <<y, x>> \in Latest
  BY <1>0, BeforeOrders
<1>3. ASSUME NEW x \in S, NEW y \in S, NEW z \in S, <<x, y>> \in Latest, <<y, z>> \in Latest
      PROVE  <<x, z>> \in Latest
  <2>1. x \in Keys /\ y \in Keys /\ z \in Keys /\ Before(z, y) /\ Before(y, x)
    BY <1>0, <1>3
  <2>2. Before(z, x)
    BY <2>1, BeforeOrders
  <2> QED BY <1>0, <2>1, <2>2
<1> QED BY <1>1, <1>2, <1>3 DEF Orders

LEMMA KeysFinite ==
    ASSUME NEW T, Tree(T), NEW r
    PROVE  KeysUnder(T, r) \in SUBSET Keys /\ IsFiniteSet(KeysUnder(T, r))
<1> DEFINE S == {t \in T : t.anchor = r}
           K == KeysUnder(T, r)
           f == [e \in S |-> e.key]
<1>1. IsFiniteSet(S)
  <2>1. S \in SUBSET T
    OBVIOUS
  <2> HIDE DEF S
  <2> QED BY <2>1, FS_Subset DEF Tree
<1>2. f \in Surjection(S, K)
  BY DEF Surjection, KeysUnder
<1>3. IsFiniteSet(K)
  <2> HIDE DEF S, K, f
  <2> QED BY <1>1, <1>2, FS_Surjection
<1> QED BY <1>3 DEF KeysUnder, Tree

\* The keys whose rows are an anchor's children, greatest first.
KeyList(desc, T, r) ==
    /\ Lists(desc, KeysUnder(T, r), Latest)
    /\ Children(T, r) = [i \in 1 .. Cardinality(KeysUnder(T, r)) |-> IdOf(desc[i])]

LEMMA ChildrenList ==
    ASSUME NEW T, Tree(T), NEW r
    PROVE  \E desc : KeyList(desc, T, r)
<1> DEFINE K == KeysUnder(T, r)
           n == Cardinality(K)
           desc == [i \in 1 .. n |-> CHOOSE x \in K : Cardinality({y \in K : Before(x, y)}) = i - 1]
<1>0. K \in SUBSET Keys /\ IsFiniteSet(K) /\ Orders(Latest, K)
  BY KeysFinite, KeysOrdered
<1>1. Children(T, r) = [i \in 1 .. n |-> IdOf(desc[i])]
  <2>1. DOMAIN desc = 1 .. n
    OBVIOUS
  <2> QED BY <2>1 DEF Children, Sorted, KeysUnder
<1> HIDE DEF K
<1>2. \A x \in K : Below(x, K, Latest) = {y \in K : Before(x, y)}
  BY <1>0 DEF Below, Latest
<1>3. ASSUME NEW i \in 1 .. n
      PROVE  desc[i] \in K /\ Cardinality(Below(desc[i], K, Latest)) = i - 1
  <2>1. \E x \in K : Cardinality(Below(x, K, Latest)) = i - 1
    BY <1>0, RankExists
  <2>2. \E x \in K : Cardinality({y \in K : Before(x, y)}) = i - 1
    BY <1>2, <2>1
  <2>3. /\ desc[i] \in K
        /\ Cardinality({y \in K : Before(desc[i], y)}) = i - 1
    BY <2>2
  <2> QED BY <1>2, <2>3
<1>4. DOMAIN desc = 1 .. n /\ desc = [i \in DOMAIN desc |-> desc[i]]
  OBVIOUS
<1> HIDE DEF desc
<1>5. Lists(desc, K, Latest)
  BY <1>0, <1>3, <1>4, RankedLists
<1>6. KeyList(desc, T, r)
  BY <1>1, <1>5 DEF K, KeyList
<1> QED BY <1>6

\* They are the rows inserted below it, each once.
LEMMA ChildrenAre ==
    ASSUME NEW T, Tree(T), NEW r
    PROVE  /\ Children(T, r) \in Seq(IdsIn(T))
           /\ \A i, j \in 1 .. Len(Children(T, r)) : Children(T, r)[i] = Children(T, r)[j] => i = j
           /\ \A i \in 1 .. Len(Children(T, r)) :
                 \E e \in T : e.anchor = r /\ IdOf(e.key) = Children(T, r)[i]
           /\ (\A e \in T : e.anchor # r) => Children(T, r) = <<>>
<1> DEFINE K == KeysUnder(T, r)
           n == Cardinality(K)
<1>0. K \in SUBSET Keys /\ IsFiniteSet(K) /\ Orders(Latest, K) /\ n \in Nat
  BY KeysFinite, KeysOrdered, FS_CardinalityType
<1>c. PICK desc : KeyList(desc, T, r)
  BY ChildrenList
<1>1. Lists(desc, K, Latest) /\ Children(T, r) = [i \in 1 .. n |-> IdOf(desc[i])]
  BY <1>c DEF KeyList
<1>2. \A k \in K : \E e \in T : e.anchor = r /\ e.key = k
  BY DEF KeysUnder
<1>a. K = {} => n = 0
  BY FS_EmptySet
<1>b. (\A e \in T : e.anchor # r) => K = {}
  BY DEF KeysUnder
<1> HIDE DEF K, n
<1> DEFINE c == [i \in 1 .. n |-> IdOf(desc[i])]
<1>3. \A i \in 1 .. n : desc[i] \in K
  BY <1>1 DEF Lists, n
<1>4. \A i \in 1 .. n : \E e \in T : e.anchor = r /\ IdOf(e.key) = c[i]
  BY <1>2, <1>3
<1>5. \A i \in 1 .. n : c[i] \in IdsIn(T)
  BY <1>4 DEF IdsIn
<1>6. c \in Seq(IdsIn(T)) /\ Len(c) = n
  BY <1>0, <1>5
<1>7. ASSUME NEW i \in 1 .. n, NEW j \in 1 .. n, c[i] = c[j]
      PROVE  i = j
  <2>1. PICK e \in T : e.key = desc[i]
    BY <1>2, <1>3
  <2>2. PICK f \in T : f.key = desc[j]
    BY <1>2, <1>3
  <2>3. desc[i] = desc[j]
    BY <1>7, <2>1, <2>2 DEF Tree
  <2>4. \A a, b \in 1 .. n : a < b => <<desc[a], desc[b]>> \in Latest
    BY <1>1 DEF Lists, n
  <2>5. \A k \in K : <<k, k>> \notin Latest
    BY <1>0 DEF Orders
  <2>6. ~(i < j) /\ ~(j < i)
    BY <1>3, <2>3, <2>4, <2>5
  <2> QED BY <1>0, <2>6
<1>8. (\A e \in T : e.anchor # r) => c = <<>>
  BY <1>6, <1>a, <1>b, <1>0
<1> HIDE DEF c
<1> QED BY <1>1, <1>4, <1>6, <1>7, <1>8 DEF c

\* A tree of one more row, the latest: its anchor's children start with it, and
\* nothing else changes.
Leafed(T, e, U) ==
    /\ Tree(T) /\ Tree(U) /\ U = T \union {e} /\ e \notin T
    /\ \A f \in T : Before(f.key, e.key)
    /\ \A f \in U : f.anchor # IdOf(e.key)

LeafFirst(T, U, anchor, x) ==
    /\ Children(U, anchor) = <<x>> \o Children(T, anchor)
    /\ \A r : r # anchor => Children(U, r) = Children(T, r)
    /\ Children(U, x) = <<>>

LEMMA ChildrenGrow ==
    ASSUME NEW T, NEW e, NEW U, Leafed(T, e, U)
    PROVE  LeafFirst(T, U, e.anchor, IdOf(e.key))
<1>0. Tree(T) /\ Tree(U) /\ U = T \union {e} /\ e \in U
  BY DEF Leafed
<1>1. Children(U, IdOf(e.key)) = <<>>
  BY <1>0, ChildrenAre DEF Leafed
<1>2. ASSUME NEW r, r # e.anchor
      PROVE  Children(U, r) = Children(T, r)
  <2>1. {t \in U : t.anchor = r} = {t \in T : t.anchor = r}
    BY <1>0, <1>2
  <2> QED BY <2>1 DEF Children
<1>3. Children(U, e.anchor) = <<IdOf(e.key)>> \o Children(T, e.anchor)
  <2> DEFINE r == e.anchor
             K == KeysUnder(T, r)
             L == KeysUnder(U, r)
             n == Cardinality(K)
             m == e.key
  <2>1. /\ K \in SUBSET Keys /\ IsFiniteSet(K) /\ n \in Nat
        /\ L \in SUBSET Keys /\ IsFiniteSet(L) /\ Orders(Latest, L)
    BY <1>0, KeysFinite, KeysOrdered, FS_CardinalityType
  <2>c. PICK d : KeyList(d, T, r)
    BY <1>0, ChildrenList
  <2>d. PICK g : KeyList(g, U, r)
    BY <1>0, ChildrenList
  <2>2. Lists(d, K, Latest) /\ Children(T, r) = [i \in 1 .. n |-> IdOf(d[i])]
    BY <2>c DEF KeyList
  <2>3. Lists(g, L, Latest) /\ Children(U, r) = [i \in 1 .. Cardinality(L) |-> IdOf(g[i])]
    BY <2>d DEF KeyList
  <2>4. L = K \union {m} /\ m \in Keys
    BY <1>0 DEF KeysUnder, Tree
  <2>5. \A k \in K : Before(k, m)
    BY DEF KeysUnder, Leafed
  <2>6. m \notin K
    BY <2>4, <2>5, BeforeOrders
  <2>7. \A k \in K : <<m, k>> \in Latest
    BY <2>1, <2>4, <2>5 DEF Latest
  <2> DEFINE h == [i \in 1 .. Cardinality(K \union {m}) |-> IF i = 1 THEN m ELSE d[i - 1]]
  <2> HIDE DEF K, L, m, r
  <2>8. Lists(h, L, Latest)
    BY <2>1, <2>2, <2>4, <2>6, <2>7, ListGrowsInFront
  <2>9. g = h
    <3> HIDE DEF h
    <3> QED BY <2>1, <2>3, <2>8, OneList
  <2>10. Cardinality(L) = n + 1
    BY <2>1, <2>4, <2>6, FS_AddElement
  <2> DEFINE x == IdOf(m)
             c == [i \in 1 .. n |-> IdOf(d[i])]
             cc == [i \in 1 .. n + 1 |-> IdOf(g[i])]
  <2>11. \A i \in 1 .. n + 1 : cc[i] = IF i = 1 THEN x ELSE c[i - 1]
    <3>1. \A i \in 1 .. n + 1 : g[i] = IF i = 1 THEN m ELSE d[i - 1]
      BY <2>4, <2>9, <2>10
    <3>2. \A i \in 1 .. n + 1 : i # 1 => i - 1 \in 1 .. n
      BY <2>1
    <3> QED BY <3>1, <3>2
  <2>a. c \in Seq(IdsIn(T)) /\ Len(c) = n /\ c = Children(T, r)
    <3>1. c = Children(T, r)
      BY <2>2
    <3>2. Children(T, r) \in Seq(IdsIn(T))
      <4> HIDE DEF r
      <4> QED BY <1>0, ChildrenAre
    <3>3. Len(c) = n
      BY <2>1
    <3> HIDE DEF c
    <3> QED BY <3>1, <3>2, <3>3
  <2>b. cc = Children(U, r) /\ cc = [i \in 1 .. n + 1 |-> cc[i]]
    BY <2>3, <2>10
  <2> HIDE DEF c, cc, x, n
  <2>12. cc = <<x>> \o c
    <3> DEFINE X == IdsIn(T) \union {x}
    <3>1. <<x>> \in Seq(X) /\ c \in Seq(X) /\ Len(<<x>>) = 1
      BY <2>a
    <3>2. <<x>> \o c = [i \in 1 .. n + 1 |-> IF i = 1 THEN x ELSE c[i - 1]]
      <4> HIDE DEF X
      <4> QED BY <2>1, <2>a, <3>1
    <3> QED BY <2>11, <2>b, <3>2
  <2> QED BY <2>12, <2>a, <2>b DEF r, x, m
<1> QED BY <1>1, <1>2, <1>3 DEF LeafFirst

-----------------------------------------------------------------------------
(* The walk.                                                               *)

WalkStart(T) == [out |-> <<>>, stack |-> Children(T, Root)]
WalkStep(T, w) ==
    IF w.stack = <<>> THEN w
    ELSE [out |-> Append(w.out, Head(w.stack)),
          stack |-> Children(T, Head(w.stack)) \o Tail(w.stack)]
WalkStates(T) == [out : Seq(IdsIn(T)), stack : Seq(IdsIn(T))]

Walks(run, T, n) ==
    /\ run \in [0 .. n -> WalkStates(T)]
    /\ run[0] = WalkStart(T)
    /\ \A i \in 1 .. n : run[i] = WalkStep(T, run[i - 1])

LEMMA WalkTypes ==
    ASSUME NEW T, Tree(T)
    PROVE  /\ WalkStart(T) \in WalkStates(T)
           /\ \A w \in WalkStates(T) : WalkStep(T, w) \in WalkStates(T)
<1> DEFINE I == IdsIn(T)
<1>0. \A r : Children(T, r) \in Seq(I)
  BY ChildrenAre
<1> HIDE DEF I
<1>1. WalkStart(T) \in WalkStates(T)
  BY <1>0 DEF WalkStart, WalkStates, I
<1>2. ASSUME NEW w \in WalkStates(T)
      PROVE  WalkStep(T, w) \in WalkStates(T)
  <2>1. w.out \in Seq(I) /\ w.stack \in Seq(I)
    BY DEF WalkStates, I
  <2>2. CASE w.stack = <<>>
    BY <2>2 DEF WalkStep
  <2>3. CASE w.stack # <<>>
    <3>1. Head(w.stack) \in I /\ Tail(w.stack) \in Seq(I)
      BY <2>1, <2>3
    <3>2. Append(w.out, Head(w.stack)) \in Seq(I)
      BY <2>1, <3>1
    <3>3. Children(T, Head(w.stack)) \o Tail(w.stack) \in Seq(I)
      BY <1>0, <3>1
    <3> QED BY <2>3, <3>2, <3>3 DEF WalkStep, WalkStates, I
  <2> QED BY <2>2, <2>3
<1> QED BY <1>1, <1>2

LEMMA WalkExists ==
    ASSUME NEW T, Tree(T), NEW n \in Nat
    PROVE  \E run : Walks(run, T, n)
<1> DEFINE W == WalkStates(T)
           g == [i \in 1 .. n |-> [w \in W |-> WalkStep(T, w)]]
           s == WalkStart(T)
<1>1. s \in W /\ \A w \in W : WalkStep(T, w) \in W
  BY WalkTypes
<1>2. \A i \in 1 .. n : \A w \in W : g[i][w] = WalkStep(T, w) /\ g[i][w] \in W
  BY <1>1
<1> HIDE DEF W, g, s
<1>3. PICK run : Stepwise(run, W, s, n, g)
  BY <1>1, <1>2, StepsExist
<1>4. run \in [0 .. n -> W] /\ run[0] = s /\ \A i \in 1 .. n : run[i] = g[i][run[i - 1]]
  BY <1>3 DEF Stepwise
<1>5. \A i \in 1 .. n : i - 1 \in 0 .. n
  OBVIOUS
<1>6. \A i \in 1 .. n : run[i] = WalkStep(T, run[i - 1])
  BY <1>2, <1>4, <1>5
<1>7. Walks(run, T, n)
  BY <1>4, <1>6 DEF Walks, W, s
<1> QED BY <1>7

LEMMA OrderIsWalk ==
    ASSUME NEW T, Tree(T), NEW run, Walks(run, T, Cardinality(T))
    PROVE  FullOrder(T) = run[Cardinality(T)].out
<1> DEFINE N == Cardinality(T)
           walk == CHOOSE f : f = [n \in 0 .. N |-> IF n = 0 THEN WalkStart(T) ELSE WalkStep(T, f[n - 1])]
<1>0. N \in Nat
  BY FS_CardinalityType DEF Tree
<1>1. FullOrder(T) = walk[N].out
  BY Zenon DEF FullOrder, WalkStart, WalkStep
<1>2. run = [n \in 0 .. N |-> IF n = 0 THEN WalkStart(T) ELSE WalkStep(T, run[n - 1])]
  <2>1. run = [n \in 0 .. N |-> run[n]]
    BY DEF Walks
  <2>2. \A n \in 0 .. N : run[n] = IF n = 0 THEN WalkStart(T) ELSE WalkStep(T, run[n - 1])
    BY <1>0 DEF Walks
  <2> HIDE DEF N
  <2> QED BY <2>1, <2>2
<1>3. walk = [n \in 0 .. N |-> IF n = 0 THEN WalkStart(T) ELSE WalkStep(T, walk[n - 1])]
  BY <1>2
<1> HIDE DEF walk, N
<1> DEFINE S == {i \in 0 .. N : walk[i] = run[i]}
<1>4. 0 \in S
  BY <1>0, <1>3 DEF Walks, N
<1>5. ASSUME NEW k \in 0 .. N - 1, k \in S
      PROVE  k + 1 \in S
  <2>1. k + 1 \in 1 .. N /\ k + 1 \in 0 .. N /\ (k + 1) - 1 = k /\ k + 1 # 0
    BY <1>0
  <2>2. walk[k + 1] = WalkStep(T, walk[k]) /\ run[k + 1] = WalkStep(T, run[k])
    BY <1>3, <2>1 DEF Walks, N
  <2> QED BY <1>5, <2>1, <2>2
<1> HIDE DEF S
<1>6. 0 .. N \subseteq S
  BY <1>0, <1>4, <1>5, UpTo
<1>7. walk[N] = run[N]
  BY <1>0, <1>6 DEF S
<1> QED BY <1>1, <1>7 DEF N

-----------------------------------------------------------------------------
(* What is in a sequence, and what is in it once.                          *)

In(x, s) == \E k \in 1 .. Len(s) : s[k] = x
Once(s) == \A j, k \in 1 .. Len(s) : s[j] = s[k] => j = k

LEMMA InAppend ==
    ASSUME NEW X, NEW s \in Seq(X), NEW h
    PROVE  /\ \A x : In(x, Append(s, h)) <=> In(x, s) \/ x = h
           /\ Once(s) /\ ~In(h, s) => Once(Append(s, h))
<1> DEFINE n == Len(s)
<1>0. n \in Nat /\ Len(Append(s, h)) = n + 1
      /\ \A k \in 1 .. n : Append(s, h)[k] = s[k]
      /\ Append(s, h)[n + 1] = h
  OBVIOUS
<1>1. \A k \in 1 .. n + 1 : k \in 1 .. n \/ k = n + 1
  BY <1>0
<1>2. \A k \in 1 .. n : k \in 1 .. n + 1
  BY <1>0
<1>3. n + 1 \in 1 .. n + 1
  BY <1>0
<1> HIDE DEF n
<1>4. \A x : In(x, Append(s, h)) <=> In(x, s) \/ x = h
  BY <1>0, <1>1, <1>2, <1>3 DEF In, n
<1>5. ASSUME Once(s), ~In(h, s)
      PROVE  Once(Append(s, h))
  <2>1. \A k \in 1 .. n : s[k] # h
    BY <1>5 DEF In, n
  <2>2. \A j, k \in 1 .. n : s[j] = s[k] => j = k
    BY <1>5 DEF Once, n
  <2> QED BY <1>0, <1>1, <2>1, <2>2 DEF Once
<1> QED BY <1>4, <1>5

LEMMA InConcat ==
    ASSUME NEW X, NEW s \in Seq(X), NEW t \in Seq(X)
    PROVE  /\ \A x : In(x, s \o t) <=> In(x, s) \/ In(x, t)
           /\ Once(s) /\ Once(t) /\ (\A x : ~(In(x, s) /\ In(x, t))) => Once(s \o t)
<1> DEFINE m == Len(s)
           n == Len(t)
           c == s \o t
<1>0. /\ m \in Nat /\ n \in Nat /\ Len(c) = m + n
      /\ \A k \in 1 .. m : c[k] = s[k]
      /\ \A k \in m + 1 .. m + n : c[k] = t[k - m]
  OBVIOUS
<1>1. \A k \in 1 .. m + n : k \in 1 .. m \/ (k \in m + 1 .. m + n /\ k - m \in 1 .. n)
  BY <1>0
<1>2. /\ \A k \in 1 .. m : k \in 1 .. m + n
      /\ \A k \in 1 .. n : k + m \in m + 1 .. m + n /\ k + m \in 1 .. m + n /\ (k + m) - m = k
  BY <1>0
<1> HIDE DEF m, n, c
<1>3. \A x : In(x, c) <=> In(x, s) \/ In(x, t)
  <2> TAKE x
  <2>1. ASSUME In(x, c) PROVE In(x, s) \/ In(x, t)
    <3>1. PICK k \in 1 .. m + n : c[k] = x
      BY <1>0, <2>1 DEF In
    <3> QED BY <1>0, <1>1, <3>1 DEF In, m, n
  <2>2. ASSUME In(x, s) PROVE In(x, c)
    BY <1>0, <1>2, <2>2 DEF In, m
  <2>3. ASSUME In(x, t) PROVE In(x, c)
    <3>1. PICK k \in 1 .. n : t[k] = x
      BY <2>3 DEF In, n
    <3>2. c[k + m] = x /\ k + m \in 1 .. m + n
      BY <1>0, <1>2, <3>1
    <3> QED BY <1>0, <3>2 DEF In
  <2> QED BY <2>1, <2>2, <2>3
<1>4. ASSUME Once(s), Once(t), \A x : ~(In(x, s) /\ In(x, t))
      PROVE  Once(c)
  <2>1. \A j \in 1 .. m, k \in 1 .. n : s[j] # t[k]
    BY <1>4 DEF In, m, n
  <2>2. \A j, k \in 1 .. m : s[j] = s[k] => j = k
    BY <1>4 DEF Once, m
  <2>3. \A j, k \in 1 .. n : t[j] = t[k] => j = k
    BY <1>4 DEF Once, n
  <2> SUFFICES ASSUME NEW j \in 1 .. m + n, NEW k \in 1 .. m + n, c[j] = c[k]
               PROVE  j = k
    BY <1>0 DEF Once
  <2>4. CASE j \in 1 .. m /\ k \in 1 .. m
    BY <1>0, <2>2, <2>4
  <2>5. CASE j \in 1 .. m /\ k \notin 1 .. m
    BY <1>0, <1>1, <2>1, <2>5
  <2>6. CASE j \notin 1 .. m /\ k \in 1 .. m
    BY <1>0, <1>1, <2>1, <2>6
  <2>7. CASE j \notin 1 .. m /\ k \notin 1 .. m
    <3>1. /\ j - m \in 1 .. n /\ k - m \in 1 .. n
          /\ c[j] = t[j - m] /\ c[k] = t[k - m]
      BY <1>0, <1>1, <2>7
    <3>2. j - m = k - m
      BY <2>3, <3>1
    <3> QED BY <1>0, <3>2
  <2> QED BY <2>4, <2>5, <2>6, <2>7
<1> QED BY <1>3, <1>4 DEF c

LEMMA InTail ==
    ASSUME NEW X, NEW s \in Seq(X), s # <<>>
    PROVE  /\ \A x : In(x, s) <=> x = Head(s) \/ In(x, Tail(s))
           /\ Once(s) => Once(Tail(s)) /\ ~In(Head(s), Tail(s))
<1> DEFINE n == Len(s)
           t == Tail(s)
<1>0. /\ n \in Nat \ {0} /\ t \in Seq(X) /\ Len(t) = n - 1 /\ Head(s) = s[1]
      /\ \A k \in 1 .. n - 1 : t[k] = s[k + 1]
  OBVIOUS
<1>1. /\ \A k \in 1 .. n : k = 1 \/ (k - 1 \in 1 .. n - 1 /\ (k - 1) + 1 = k)
      /\ \A k \in 1 .. n - 1 : k + 1 \in 1 .. n /\ k + 1 # 1
      /\ 1 \in 1 .. n
  BY <1>0
<1> HIDE DEF n, t
<1>2. \A x : In(x, s) <=> x = Head(s) \/ In(x, t)
  <2> TAKE x
  <2>1. ASSUME In(x, s) PROVE x = Head(s) \/ In(x, t)
    <3>1. PICK k \in 1 .. n : s[k] = x
      BY <2>1 DEF In, n
    <3>2. CASE k # 1
      <4>1. k - 1 \in 1 .. n - 1 /\ t[k - 1] = x
        BY <1>0, <1>1, <3>1, <3>2
      <4> QED BY <1>0, <4>1 DEF In
    <3> QED BY <1>0, <3>1, <3>2
  <2>2. ASSUME x = Head(s) PROVE In(x, s)
    BY <1>0, <1>1, <2>2 DEF In, n
  <2>3. ASSUME In(x, t) PROVE In(x, s)
    <3>1. PICK k \in 1 .. n - 1 : t[k] = x
      BY <1>0, <2>3 DEF In
    <3>2. k + 1 \in 1 .. n /\ s[k + 1] = x
      BY <1>0, <1>1, <3>1
    <3> QED BY <3>2 DEF In, n
  <2> QED BY <2>1, <2>2, <2>3
<1>3. ASSUME Once(s)
      PROVE  Once(t) /\ ~In(Head(s), t)
  <2>1. \A j, k \in 1 .. n : s[j] = s[k] => j = k
    BY <1>3 DEF Once, n
  <2>2. \A k \in 1 .. n - 1 : t[k] # s[1]
    BY <1>0, <1>1, <2>1
  <2>3. ASSUME NEW j \in 1 .. n - 1, NEW k \in 1 .. n - 1, t[j] = t[k]
        PROVE  j = k
    <3>1. j + 1 = k + 1
      BY <1>0, <1>1, <2>1, <2>3
    <3> QED BY <3>1
  <2> QED BY <1>0, <2>2, <2>3 DEF Once, In
<1> QED BY <1>2, <1>3 DEF t

-----------------------------------------------------------------------------
(* The walk visits a row once, after its anchor, and ends.                 *)

WalkOK(T, w, i) ==
    /\ Once(w.out) /\ Once(w.stack)
    /\ \A x : ~(In(x, w.out) /\ In(x, w.stack))
    /\ \A e \in T : In(IdOf(e.key), w.out) \/ In(IdOf(e.key), w.stack)
                        => e.anchor = Root \/ In(e.anchor, w.out)
    /\ Len(w.out) = i \/ w.stack = <<>>

LEMMA WalkStartOK ==
    ASSUME NEW T, Tree(T)
    PROVE  WalkOK(T, WalkStart(T), 0)
<1> DEFINE w == WalkStart(T)
           c == Children(T, Root)
<1>1. /\ c \in Seq(IdsIn(T)) /\ Once(c)
      /\ \A i \in 1 .. Len(c) : \E e \in T : e.anchor = Root /\ IdOf(e.key) = c[i]
  BY ChildrenAre DEF Once
<1>2. w.out = <<>> /\ w.stack = c
  BY DEF WalkStart
<1> HIDE DEF w, c
<1>3. Once(w.out) /\ (\A x : ~In(x, w.out)) /\ Len(w.out) = 0
  BY <1>2 DEF Once, In
<1>4. ASSUME NEW e \in T, In(IdOf(e.key), w.stack)
      PROVE  e.anchor = Root
  BY <1>1, <1>2, <1>4 DEF In, Tree
<1> QED BY <1>1, <1>2, <1>3, <1>4 DEF WalkOK, w

LEMMA WalkStepOK ==
    ASSUME NEW T, Tree(T), NEW w \in WalkStates(T), NEW i \in Nat, WalkOK(T, w, i)
    PROVE  WalkOK(T, WalkStep(T, w), i + 1)
<1>1. CASE w.stack = <<>>
  BY <1>1 DEF WalkOK, WalkStep
<1>2. CASE w.stack # <<>>
  <2> DEFINE I == IdsIn(T)
             h == Head(w.stack)
             t == Tail(w.stack)
             c == Children(T, h)
             v == WalkStep(T, w)
  <2>0. w.out \in Seq(I) /\ w.stack \in Seq(I)
    BY DEF WalkStates
  <2>1. v.out = Append(w.out, h) /\ v.stack = c \o t
    BY <1>2 DEF WalkStep
  <2>2. h \in I /\ t \in Seq(I)
    BY <1>2, <2>0
  <2>3. /\ c \in Seq(I) /\ Once(c)
        /\ \A k \in 1 .. Len(c) : \E e \in T : e.anchor = h /\ IdOf(e.key) = c[k]
    BY ChildrenAre DEF Once
  <2>4. h # Root
    BY <2>2 DEF IdsIn, Tree
  <2>5. /\ \A x : In(x, w.stack) <=> x = h \/ In(x, t)
        /\ Once(t) /\ ~In(h, t)
    BY <1>2, <2>0, InTail DEF WalkOK
  <2>6. \A x : In(x, v.out) <=> In(x, w.out) \/ x = h
    BY <2>0, <2>1, InAppend
  <2>7. \A x : In(x, v.stack) <=> In(x, c) \/ In(x, t)
    <3> HIDE DEF I, h, t, c, v
    <3> QED BY <2>1, <2>2, <2>3, InConcat
  <2>8. \A x : In(x, c) => \E e \in T : e.anchor = h /\ IdOf(e.key) = x
    BY <2>3 DEF In
  <2> HIDE DEF I, h, t, c, v
  <2>9. ~In(h, w.out)
    BY <2>5 DEF WalkOK
  <2>10. \A x : In(x, c) => ~In(x, w.out) /\ ~In(x, w.stack)
    <3> SUFFICES ASSUME NEW x, In(x, c), In(x, w.out) \/ In(x, w.stack) PROVE FALSE
      OBVIOUS
    <3>1. PICK e \in T : e.anchor = h /\ IdOf(e.key) = x
      BY <2>8
    <3>2. e.anchor = Root \/ In(e.anchor, w.out)
      BY <3>1 DEF WalkOK
    <3> QED BY <2>4, <2>9, <3>1, <3>2
  <2>11. Once(v.out)
    BY <2>0, <2>1, <2>9, InAppend DEF WalkOK
  <2>12. Once(v.stack)
    BY <2>1, <2>2, <2>3, <2>5, <2>10, InConcat
  <2>13. \A x : ~(In(x, v.out) /\ In(x, v.stack))
    BY <2>5, <2>6, <2>7, <2>10 DEF WalkOK
  <2>14. ASSUME NEW e \in T, In(IdOf(e.key), v.out) \/ In(IdOf(e.key), v.stack)
         PROVE  e.anchor = Root \/ In(e.anchor, v.out)
    <3>1. CASE In(IdOf(e.key), c)
      BY <2>6, <2>8, <3>1 DEF Tree
    <3>2. CASE ~In(IdOf(e.key), c)
      <4>1. In(IdOf(e.key), w.out) \/ In(IdOf(e.key), w.stack)
        BY <2>5, <2>6, <2>7, <2>14, <3>2
      <4> QED BY <2>6, <4>1 DEF WalkOK
    <3> QED BY <3>1, <3>2
  <2>15. Len(v.out) = i + 1
    <3>1. Len(w.out) = i
      BY <1>2 DEF WalkOK
    <3> QED BY <2>0, <2>1, <3>1
  <2> QED BY <2>11, <2>12, <2>13, <2>14, <2>15 DEF WalkOK, v
<1> QED BY <1>1, <1>2

LEMMA WalkAlwaysOK ==
    ASSUME NEW T, Tree(T), NEW n \in Nat, NEW run, Walks(run, T, n)
    PROVE  \A i \in 0 .. n : WalkOK(T, run[i], i)
<1> DEFINE S == {i \in 0 .. n : WalkOK(T, run[i], i)}
<1>1. 0 \in S
  BY WalkStartOK DEF Walks
<1>2. ASSUME NEW k \in 0 .. n - 1, k \in S
      PROVE  k + 1 \in S
  <2>1. k + 1 \in 1 .. n /\ k + 1 \in 0 .. n /\ (k + 1) - 1 = k /\ k \in Nat /\ k \in 0 .. n
    OBVIOUS
  <2>2. run[k + 1] = WalkStep(T, run[k]) /\ run[k] \in WalkStates(T)
    BY <2>1 DEF Walks
  <2> QED BY <1>2, <2>1, <2>2, WalkStepOK
<1> HIDE DEF S
<1>3. 0 .. n \subseteq S
  BY <1>1, <1>2, UpTo
<1> QED BY <1>3 DEF S

\* As many steps as there are rows empty the stack.
LEMMA WalkEnds ==
    ASSUME NEW T, Tree(T), NEW run, Walks(run, T, Cardinality(T))
    PROVE  run[Cardinality(T)].stack = <<>>
<1> DEFINE n == Cardinality(T)
           I == IdsIn(T)
           w == run[n]
<1>0. n \in Nat
  BY FS_CardinalityType DEF Tree
<1>1. IsFiniteSet(I) /\ Cardinality(I) <= n
  <2> DEFINE f == [e \in T |-> IdOf(e.key)]
  <2>1. f \in Surjection(T, I)
    BY DEF Surjection, IdsIn
  <2> HIDE DEF I, f
  <2> QED BY <2>1, FS_Surjection DEF Tree
<1>2. WalkOK(T, w, n) /\ w.out \in Seq(I) /\ w.stack \in Seq(I)
  <2>1. n \in 0 .. n
    BY <1>0
  <2> HIDE DEF n
  <2> QED BY <1>0, <2>1, WalkAlwaysOK DEF Walks, WalkStates, n
<1> HIDE DEF n, I, w
<1> SUFFICES ASSUME w.stack # <<>> PROVE FALSE
  BY DEF w, n
<1>3. Len(w.out) = n /\ Head(w.stack) \in I /\ In(Head(w.stack), w.stack)
  <2>1. Len(w.out) = n
    BY <1>2 DEF WalkOK
  <2> QED BY <1>2, <2>1, InTail
<1> DEFINE f == [k \in 1 .. n + 1 |-> IF k <= n THEN w.out[k] ELSE Head(w.stack)]
<1>4. \A k \in 1 .. n + 1 : f[k] \in I
  BY <1>0, <1>2, <1>3
<1>5. ASSUME NEW j \in 1 .. n + 1, NEW k \in 1 .. n + 1, f[j] = f[k]
      PROVE  j = k
  <2>1. ~In(Head(w.stack), w.out)
    BY <1>2, <1>3 DEF WalkOK
  <2>2. \A a \in 1 .. n : w.out[a] # Head(w.stack)
    BY <1>3, <2>1 DEF In
  <2>3. \A a, b \in 1 .. n : w.out[a] = w.out[b] => a = b
    BY <1>2, <1>3 DEF WalkOK, Once
  <2> QED BY <1>0, <1>5, <2>2, <2>3
<1>6. f \in Injection(1 .. n + 1, I)
  BY <1>4, <1>5 DEF Injection, IsInjective
<1>7. Cardinality(1 .. n + 1) <= Cardinality(I)
  <2> HIDE DEF f
  <2> QED BY <1>1, <1>6, FS_Injection
<1>8. Cardinality(1 .. n + 1) = n + 1
  BY <1>0, FS_Interval
<1>9. Cardinality(I) \in Nat
  BY <1>1, FS_CardinalityType
<1> QED BY <1>0, <1>1, <1>7, <1>8, <1>9

-----------------------------------------------------------------------------
(* A new row goes directly below its anchor.                               *)

Placed(order, r, x) ==
    IF r = Root THEN <<x>> \o order
    ELSE IF Contains(order, r)
         THEN InsertAt(order, SelectInSeq(order, LAMBDA q : q = r) + 1, x)
         ELSE order

\* p is where r is first.
FirstAt(p, s, r) ==
    /\ p \in 1 .. Len(s)
    /\ s[p] = r /\ \A i \in 1 .. Len(s) : s[i] = r => p <= i
    /\ SelectInSeq(s, LAMBDA q : q = r) = p

LEMMA FirstPlace ==
    ASSUME NEW X, NEW s \in Seq(X), NEW r, In(r, s)
    PROVE  \E p : FirstAt(p, s, r)
<1> DEFINE J == {i \in 1 .. Len(s) : s[i] = r}
<1>1. J \in SUBSET Nat /\ J # {}
  BY DEF In
<1>2. PICK p \in J : \A i \in J : p <= i
  <2> HIDE DEF J
  <2> QED BY <1>1, LeastNatural
<1>3. SelectInSeq(s, LAMBDA q : q = r) = Min(J)
  BY <1>1 DEF SelectInSeq
<1>4. Min(J) \in J /\ \A i \in J : Min(J) <= i
  <2> HIDE DEF J
  <2> QED BY <1>2 DEF Min
<1>5. Min(J) = p
  <2>1. p <= Min(J) /\ Min(J) <= p /\ p \in Nat /\ Min(J) \in Nat
    <3> HIDE DEF J
    <3> QED BY <1>1, <1>2, <1>4
  <2> QED BY <2>1
<1>6. FirstAt(p, s, r)
  BY <1>2, <1>3, <1>5 DEF FirstAt
<1> QED BY <1>6

\* What the placing does, place by place.
LEMMA InsertFields ==
    ASSUME NEW X, NEW s \in Seq(X), NEW x \in X, NEW p \in 0 .. Len(s)
    PROVE  /\ InsertAt(s, p + 1, x) \in Seq(X)
           /\ InsertAt(s, p + 1, x) = [i \in 1 .. Len(s) + 1 |->
                                          IF i <= p THEN s[i] ELSE IF i = p + 1 THEN x ELSE s[i - 1]]
<1> DEFINE n == Len(s)
           a == SubSeq(s, 1, p)
           b == SubSeq(s, p + 1, n)
<1>0. n \in Nat /\ p \in Nat /\ p <= n /\ (p + 1) - 1 = p
  OBVIOUS
<1>1. a \in Seq(X) /\ Len(a) = p /\ \A i \in 1 .. p : a[i] = s[i]
  BY <1>0
<1>2. b \in Seq(X) /\ Len(b) = n - p /\ \A i \in 1 .. n - p : b[i] = s[p + i]
  <2>1. \A i \in p + 1 .. n : s[i] \in X
    BY <1>0
  <2> QED BY <1>0, <2>1
<1>3. InsertAt(s, p + 1, x) = (a \o <<x>>) \o b
  BY <1>0 DEF InsertAt
<1> DEFINE c == a \o <<x>>
           d == c \o b
<1> HIDE DEF a, b
<1>4. /\ c \in Seq(X) /\ Len(c) = p + 1
      /\ \A i \in 1 .. p : c[i] = a[i]
      /\ c[p + 1] = x
  BY <1>0, <1>1
<1> HIDE DEF c
<1>5. /\ d \in Seq(X) /\ Len(d) = n + 1
      /\ \A i \in 1 .. p + 1 : d[i] = c[i]
      /\ \A i \in p + 2 .. n + 1 : d[i] = b[i - (p + 1)]
  BY <1>0, <1>2, <1>4
<1>7. d = [i \in 1 .. n + 1 |-> d[i]]
  <2> HIDE DEF d
  <2> QED BY <1>5
<1> HIDE DEF d
<1>6. \A i \in 1 .. n + 1 : d[i] = IF i <= p THEN s[i] ELSE IF i = p + 1 THEN x ELSE s[i - 1]
  <2> TAKE i \in 1 .. n + 1
  <2>1. CASE i <= p
    <3>1. i \in 1 .. p /\ i \in 1 .. p + 1
      BY <1>0, <2>1
    <3> QED BY <1>1, <1>4, <1>5, <2>1, <3>1
  <2>2. CASE i = p + 1
    <3>1. p + 1 \in 1 .. p + 1 /\ ~(p + 1 <= p)
      BY <1>0
    <3> QED BY <1>4, <1>5, <2>2, <3>1
  <2>3. CASE i > p + 1
    <3>1. /\ i \in p + 2 .. n + 1 /\ i - (p + 1) \in 1 .. n - p /\ p + (i - (p + 1)) = i - 1
          /\ ~(i <= p) /\ i # p + 1
      BY <1>0, <2>3
    <3> QED BY <1>2, <1>5, <3>1
  <2>4. i <= p \/ i = p + 1 \/ i > p + 1
    BY <1>0
  <2> QED BY ONLY <2>1, <2>2, <2>3, <2>4
<1>8. d = [i \in 1 .. n + 1 |-> IF i <= p THEN s[i] ELSE IF i = p + 1 THEN x ELSE s[i - 1]]
  BY <1>6, <1>7
<1> QED BY <1>3, <1>5, <1>8 DEF c, d

LEMMA ContainsIn == \A r, s : Contains(s, r) <=> In(r, s)
BY DEF Contains, In

LEMMA PlacedAppend ==
    ASSUME NEW X, NEW s \in Seq(X), NEW h \in X, NEW r, NEW x \in X, r = Root \/ In(r, s)
    PROVE  Placed(Append(s, h), r, x) = Append(Placed(s, r, x), h)
<1> DEFINE n == Len(s)
           t == Append(s, h)
<1>0. /\ n \in Nat /\ t \in Seq(X) /\ Len(t) = n + 1
      /\ (\A i \in 1 .. n : t[i] = s[i]) /\ t[n + 1] = h
  OBVIOUS
<1>1. CASE r = Root
  <2>1. <<x>> \o Append(s, h) = Append(<<x>> \o s, h)
    OBVIOUS
  <2> QED BY <1>1, <2>1 DEF Placed
<1>2. CASE r # Root
  <2>a. PICK p : FirstAt(p, s, r)
    BY <1>2, FirstPlace
  <2>1. /\ p \in 1 .. n
        /\ s[p] = r /\ \A i \in 1 .. n : s[i] = r => p <= i
        /\ SelectInSeq(s, LAMBDA q : q = r) = p
    BY <2>a DEF FirstAt
  <2>2. In(r, t)
    BY <1>2, InAppend
  <2>b. PICK m : FirstAt(m, t, r)
    <3> HIDE DEF t
    <3> QED BY <1>0, <2>2, FirstPlace
  <2>3. /\ m \in 1 .. n + 1
        /\ t[m] = r /\ \A i \in 1 .. n + 1 : t[i] = r => m <= i
        /\ SelectInSeq(t, LAMBDA q : q = r) = m
    <3> HIDE DEF t
    <3> QED BY <1>0, <2>b DEF FirstAt
  <2>4. m = p
    <3>1. m <= p
      BY <1>0, <2>1, <2>3
    <3>2. m \in 1 .. n
      BY <1>0, <2>1, <2>3, <3>1
    <3> QED BY <1>0, <2>1, <2>3, <3>1, <3>2
  <2>5. /\ Placed(s, r, x) = InsertAt(s, p + 1, x)
        /\ Placed(t, r, x) = InsertAt(t, p + 1, x)
    BY <1>2, <2>1, <2>2, <2>3, <2>4, ContainsIn DEF Placed
  <2> DEFINE u == InsertAt(s, p + 1, x)
             v == InsertAt(t, p + 1, x)
  <2>6. u \in Seq(X) /\ u = [i \in 1 .. n + 1 |->
                                IF i <= p THEN s[i] ELSE IF i = p + 1 THEN x ELSE s[i - 1]]
    BY <1>0, <2>1, InsertFields
  <2>7. v \in Seq(X) /\ v = [i \in 1 .. (n + 1) + 1 |->
                                IF i <= p THEN t[i] ELSE IF i = p + 1 THEN x ELSE t[i - 1]]
    <3> HIDE DEF t
    <3>1. p \in 0 .. Len(t)
      BY <1>0, <2>1
    <3>2. v \in Seq(X) /\ v = [i \in 1 .. Len(t) + 1 |->
                                IF i <= p THEN t[i] ELSE IF i = p + 1 THEN x ELSE t[i - 1]]
      BY <1>0, <3>1, InsertFields
    <3> QED BY <1>0, <3>2
  <2> HIDE DEF u, v, t
  <2>8. Len(u) = n + 1 /\ Len(v) = n + 2
    BY <1>0, <2>6, <2>7
  <2>9. Len(Append(u, h)) = n + 2 /\ Append(u, h) \in Seq(X)
        /\ (\A i \in 1 .. n + 1 : Append(u, h)[i] = u[i]) /\ Append(u, h)[n + 2] = h
    BY <1>0, <2>6, <2>8
  <2>10. \A i \in 1 .. n + 2 : v[i] = Append(u, h)[i]
    <3> TAKE i \in 1 .. n + 2
    <3>1. v[i] = IF i <= p THEN t[i] ELSE IF i = p + 1 THEN x ELSE t[i - 1]
      BY <1>0, <2>7
    <3>2. CASE i = n + 2
      <4>1. ~(i <= p) /\ i # p + 1 /\ i - 1 = n + 1
        BY <1>0, <2>1, <3>2
      <4> QED BY <1>0, <2>9, <3>1, <3>2, <4>1
    <3>3. CASE i # n + 2
      <4>1. i \in 1 .. n + 1
        BY <1>0, <3>3
      <4>2. u[i] = IF i <= p THEN s[i] ELSE IF i = p + 1 THEN x ELSE s[i - 1]
        BY <2>6, <4>1
      <4>3. (i <= p => i \in 1 .. n) /\ (i > p + 1 => i - 1 \in 1 .. n)
        BY <1>0, <2>1, <4>1
      <4>4. Append(u, h)[i] = u[i]
        BY <2>9, <4>1
      <4>5. CASE i <= p
        BY <1>0, <3>1, <4>2, <4>3, <4>4, <4>5
      <4>6. CASE i = p + 1
        <5>1. ~(i <= p)
          BY <1>0, <2>1, <4>6
        <5> QED BY <3>1, <4>2, <4>4, <4>6, <5>1
      <4>7. CASE i > p + 1
        <5>1. ~(i <= p) /\ i # p + 1
          BY <1>0, <2>1, <4>7
        <5> QED BY <1>0, <3>1, <4>2, <4>3, <4>4, <4>7, <5>1
      <4>8. i <= p \/ i = p + 1 \/ i > p + 1
        BY <1>0, <2>1
      <4> QED BY ONLY <4>5, <4>6, <4>7, <4>8
    <3> QED BY <3>2, <3>3
  <2>11. v = Append(u, h)
    BY <2>7, <2>8, <2>9, <2>10, SeqEqual
  <2> QED BY <2>5, <2>11 DEF u, v, t
<1> QED BY <1>1, <1>2

LEMMA PlacedLast ==
    ASSUME NEW X, NEW s \in Seq(X), NEW r \in X, NEW x \in X, r # Root, ~In(r, s)
    PROVE  Placed(Append(s, r), r, x) = Append(Append(s, r), x)
<1> DEFINE n == Len(s)
           t == Append(s, r)
<1>0. /\ n \in Nat /\ t \in Seq(X) /\ Len(t) = n + 1
      /\ (\A i \in 1 .. n : t[i] = s[i]) /\ t[n + 1] = r
  OBVIOUS
<1>1. In(r, t)
  BY InAppend
<1>b. PICK m : FirstAt(m, t, r)
  <2> HIDE DEF t
  <2> QED BY <1>0, <1>1, FirstPlace
<1>2. /\ m \in 1 .. n + 1
      /\ t[m] = r /\ \A i \in 1 .. n + 1 : t[i] = r => m <= i
      /\ SelectInSeq(t, LAMBDA q : q = r) = m
  <2> HIDE DEF t
  <2> QED BY <1>0, <1>b DEF FirstAt
<1>3. m = n + 1
  BY <1>0, <1>2 DEF In
<1>4. Placed(t, r, x) = InsertAt(t, (n + 1) + 1, x)
  BY <1>1, <1>2, <1>3, ContainsIn DEF Placed
<1> DEFINE v == InsertAt(t, (n + 1) + 1, x)
<1>5. v \in Seq(X) /\ v = [i \in 1 .. (n + 1) + 1 |->
                              IF i <= n + 1 THEN t[i] ELSE IF i = (n + 1) + 1 THEN x ELSE t[i - 1]]
  <2> HIDE DEF t
  <2>1. n + 1 \in 0 .. Len(t)
    BY <1>0
  <2> DEFINE p == n + 1
  <2> HIDE DEF p
  <2>2. /\ InsertAt(t, p + 1, x) \in Seq(X)
        /\ InsertAt(t, p + 1, x) = [i \in 1 .. Len(t) + 1 |->
                                       IF i <= p THEN t[i] ELSE IF i = p + 1 THEN x ELSE t[i - 1]]
    <3>1. p \in 0 .. Len(t)
      BY <2>1 DEF p
    <3> QED BY <1>0, <3>1, InsertFields
  <2> QED BY <1>0, <2>2 DEF p
<1> HIDE DEF v, t
<1>6. v = Append(t, x)
  <2>1. Len(v) = n + 2 /\ Append(t, x) \in Seq(X) /\ Len(Append(t, x)) = n + 2
        /\ (\A i \in 1 .. n + 1 : Append(t, x)[i] = t[i]) /\ Append(t, x)[n + 2] = x
    BY <1>0, <1>5
  <2>2. ASSUME NEW i \in 1 .. n + 2
        PROVE  v[i] = Append(t, x)[i]
    <3>1. v[i] = IF i <= n + 1 THEN t[i] ELSE IF i = n + 2 THEN x ELSE t[i - 1]
      BY <1>0, <1>5
    <3>2. CASE i = n + 2
      <4>1. ~(i <= n + 1)
        BY <1>0, <3>2
      <4> QED BY <2>1, <3>1, <3>2, <4>1
    <3>3. CASE i # n + 2
      <4>1. i \in 1 .. n + 1 /\ i <= n + 1
        BY <1>0, <3>3
      <4> QED BY <2>1, <3>1, <4>1
    <3> QED BY <3>2, <3>3
  <2> QED BY <1>5, <2>1, <2>2, SeqEqual
<1> QED BY <1>4, <1>6 DEF v, t

-----------------------------------------------------------------------------
(* The walk of a tree with one more leaf, beside the walk without it.      *)

\* The two walks are one until the anchor is met; then the larger one is a step
\* behind and has the leaf directly below the anchor.
NotYet(w, v, r) == r # Root /\ ~In(r, w.out) /\ v = w
Since(w, v, r, x) ==
    /\ r = Root \/ In(r, w.out)
    /\ v.stack = w.stack
    /\ v.out = Placed(w.out, r, x)

LEMMA StepNotYet ==
    ASSUME NEW T, NEW e, NEW U, Leafed(T, e, U), NEW w \in WalkStates(T), NotYet(w, w, e.anchor)
    PROVE  \/ NotYet(WalkStep(T, w), WalkStep(U, w), e.anchor)
           \/ Since(WalkStep(T, w), WalkStep(U, WalkStep(U, w)), e.anchor, IdOf(e.key))
<1> DEFINE r == e.anchor
           x == IdOf(e.key)
           I == IdsIn(T)
           X == I \union {x}
           h == Head(w.stack)
           t == Tail(w.stack)
           c == Children(T, h)
<1>0. /\ Tree(T) /\ Tree(U)
      /\ Children(U, r) = <<x>> \o Children(T, r)
      /\ \A q : q # r => Children(U, q) = Children(T, q)
      /\ Children(U, x) = <<>>
  <2>1. Tree(T) /\ Tree(U)
    BY DEF Leafed
  <2>2. LeafFirst(T, U, r, x)
    BY ChildrenGrow
  <2> HIDE DEF I, X, h, t, c, r, x
  <2> QED BY <2>1, <2>2 DEF LeafFirst
<1>1. CASE w.stack = <<>>
  BY <1>1 DEF NotYet, WalkStep
<1>2. CASE w.stack # <<>>
  <2>0. w.out \in Seq(I) /\ w.stack \in Seq(I)
    BY DEF WalkStates
  <2>1. h \in I /\ t \in Seq(I) /\ c \in Seq(I)
    <3>1. h \in I /\ t \in Seq(I)
      BY <1>2, <2>0
    <3> QED BY <1>0, <3>1, ChildrenAre
  <2>a. w.out \in Seq(X) /\ t \in Seq(X) /\ c \in Seq(X) /\ x \in X
    <3>1. I \subseteq X
      OBVIOUS
    <3>2. Seq(I) \subseteq Seq(X)
      <4> HIDE DEF I, X
      <4> QED BY <3>1, SeqMonotonic
    <3> QED BY <2>0, <2>1, <3>2
  <2>2. WalkStep(T, w) = [out |-> Append(w.out, h), stack |-> c \o t]
    BY <1>2 DEF WalkStep
  <2>3. WalkStep(U, w) = [out |-> Append(w.out, h), stack |-> Children(U, h) \o t]
    BY <1>2 DEF WalkStep
  <2>4. CASE h # r
    <3>1. WalkStep(U, w) = WalkStep(T, w)
      BY <1>0, <2>2, <2>3, <2>4
    <3>2. ~In(r, Append(w.out, h))
      <4> HIDE DEF h, I, r
      <4> QED BY <2>0, <2>4, InAppend DEF NotYet, r
    <3> QED BY <2>2, <3>1, <3>2 DEF NotYet
  <2>5. CASE h = r
    <3> HIDE DEF c, t, x, h, X, I, r
    <3>1. Children(U, h) = <<x>> \o c
      BY <1>0, <2>5 DEF c
    <3> DEFINE s == (<<x>> \o c) \o t
    <3>2. s # <<>> /\ Head(s) = x /\ Tail(s) = c \o t
      <4>1. <<x>> \in Seq(X) /\ Len(<<x>>) = 1
        BY <2>a
      <4>2. s = <<x>> \o (c \o t)
        BY <2>a, <4>1
      <4>3. c \o t \in Seq(X)
        BY <2>a
      <4> HIDE DEF s
      <4> QED BY <2>a, <4>1, <4>2, <4>3
    <3>3. WalkStep(U, w) = [out |-> Append(w.out, r), stack |-> s]
      BY <2>3, <2>5, <3>1
    <3> HIDE DEF s
    <3>4. WalkStep(U, WalkStep(U, w)) =
              [out |-> Append(Append(w.out, r), x), stack |-> Children(U, x) \o (c \o t)]
      <4> DEFINE v == WalkStep(U, w)
      <4>1. v.out = Append(w.out, r) /\ v.stack = s
        BY <3>3
      <4> HIDE DEF v
      <4>2. WalkStep(U, v) = [out |-> Append(v.out, x), stack |-> Children(U, x) \o (c \o t)]
        BY Zenon, <3>2, <4>1 DEF WalkStep
      <4> QED BY <4>1, <4>2 DEF v
    <3>5. Children(U, x) \o (c \o t) = c \o t
      <4>1. c \o t \in Seq(X)
        BY <2>a
      <4> QED BY <1>0, <4>1
    <3>6. Placed(Append(w.out, r), r, x) = Append(Append(w.out, r), x)
      <4>1. r # Root /\ ~In(r, w.out)
        BY DEF NotYet, r
      <4>2. r \in X
        BY <2>1, <2>5 DEF X
      <4>3. w.out \in Seq(X) /\ x \in X
        BY <2>a
      <4> DEFINE z == w.out
      <4> HIDE DEF z
      <4>4. z \in Seq(X) /\ ~In(r, z)
        BY <4>1, <4>3 DEF z
      <4>5. Placed(Append(z, r), r, x) = Append(Append(z, r), x)
        BY ONLY <4>1, <4>2, <4>3, <4>4, PlacedLast
      <4> QED BY <4>5 DEF z
    <3>7. In(r, Append(w.out, r))
      BY <2>0, InAppend
    <3>8. Since(WalkStep(T, w), WalkStep(U, WalkStep(U, w)), r, x)
      BY <2>2, <2>5, <3>4, <3>5, <3>6, <3>7 DEF Since
    <3> QED BY <3>8 DEF r, x
  <2> QED BY <2>4, <2>5
<1> QED BY <1>1, <1>2

LEMMA StepSince ==
    ASSUME NEW T, NEW e, NEW U, Leafed(T, e, U), NEW w \in WalkStates(T), NEW i \in Nat,
           WalkOK(T, w, i), NEW v, v = [out |-> v.out, stack |-> v.stack],
           Since(w, v, e.anchor, IdOf(e.key))
    PROVE  Since(WalkStep(T, w), WalkStep(U, v), e.anchor, IdOf(e.key))
<1> DEFINE r == e.anchor
           x == IdOf(e.key)
           I == IdsIn(T)
           X == I \union {x}
           h == Head(w.stack)
           t == Tail(w.stack)
           c == Children(T, h)
<1>0. /\ Tree(T) /\ Tree(U)
      /\ \A q : q # r => Children(U, q) = Children(T, q)
  <2>1. Tree(T) /\ Tree(U)
    BY DEF Leafed
  <2>2. LeafFirst(T, U, r, x)
    BY ChildrenGrow
  <2> HIDE DEF I, X, h, t, c, r, x
  <2> QED BY <2>1, <2>2 DEF LeafFirst
<1>1. CASE w.stack = <<>>
  BY <1>1 DEF Since, WalkStep
<1>2. CASE w.stack # <<>>
  <2>0. w.out \in Seq(I) /\ w.stack \in Seq(I)
    BY DEF WalkStates
  <2>1. h \in I /\ In(h, w.stack)
    <3>1. h \in I
      BY <1>2, <2>0
    <3> QED BY <1>2, <2>0, <3>1, InTail
  <2>2. h # r
    <3>1. h # Root
      BY <1>0, <2>1 DEF IdsIn, Tree
    <3>2. ~In(h, w.out)
      BY <2>1 DEF WalkOK
    <3> QED BY <3>1, <3>2 DEF Since
  <2>3. WalkStep(T, w) = [out |-> Append(w.out, h), stack |-> c \o t]
    BY <1>2 DEF WalkStep
  <2>4. WalkStep(U, v) = [out |-> Append(v.out, h), stack |-> c \o t]
    <3>1. v.stack = w.stack
      BY DEF Since
    <3> QED BY <1>0, <1>2, <2>2, <3>1 DEF WalkStep
  <2>a. w.out \in Seq(X) /\ h \in X /\ x \in X
    <3>1. I \subseteq X
      OBVIOUS
    <3>2. Seq(I) \subseteq Seq(X)
      <4> HIDE DEF I, X
      <4> QED BY <3>1, SeqMonotonic
    <3> QED BY <2>0, <2>1, <3>2
  <2> HIDE DEF c, t, h, X, I, r, x
  <2>5. r = Root \/ In(r, w.out)
    BY DEF Since, r
  <2>6. Append(v.out, h) = Placed(Append(w.out, h), r, x)
    <3>1. v.out = Placed(w.out, r, x)
      BY DEF Since, r, x
    <3> QED BY <2>a, <2>5, <3>1, PlacedAppend
  <2>7. r = Root \/ In(r, Append(w.out, h))
    BY <2>0, <2>5, InAppend
  <2>8. Since(WalkStep(T, w), WalkStep(U, v), r, x)
    BY <2>3, <2>4, <2>6, <2>7 DEF Since
  <2> QED BY <2>8 DEF r, x
<1> QED BY <1>1, <1>2

LEMMA OrderGrows ==
    ASSUME NEW T, NEW e, NEW U, Leafed(T, e, U)
    PROVE  FullOrder(U) = Placed(FullOrder(T), e.anchor, IdOf(e.key))
<1> DEFINE n == Cardinality(T)
           r == e.anchor
           x == IdOf(e.key)
<1>0. Tree(T) /\ Tree(U) /\ n \in Nat /\ Cardinality(U) = n + 1
  BY FS_CardinalityType, FS_AddElement DEF Leafed, Tree
<1>a. LeafFirst(T, U, r, x)
  BY ChildrenGrow
<1>1. PICK run : Walks(run, T, n)
  BY <1>0, WalkExists
<1>2. PICK big : Walks(big, U, n + 1)
  <2>1. n + 1 \in Nat
    BY <1>0
  <2> HIDE DEF n
  <2> QED BY <1>0, <2>1, WalkExists
<1>3. FullOrder(T) = run[n].out /\ FullOrder(U) = big[n + 1].out
  <2>1. Walks(big, U, Cardinality(U))
    BY <1>0, <1>2
  <2> QED BY <1>0, <1>1, <2>1, OrderIsWalk
<1>4. run[n].stack = <<>>
  BY <1>0, <1>1, WalkEnds
<1> HIDE DEF n
<1>5. /\ \A i \in 0 .. n : run[i] \in WalkStates(T) /\ WalkOK(T, run[i], i)
      /\ \A i \in 1 .. n : run[i] = WalkStep(T, run[i - 1])
      /\ \A i \in 0 .. n + 1 : big[i] \in WalkStates(U)
      /\ \A i \in 1 .. n + 1 : big[i] = WalkStep(U, big[i - 1])
      /\ run[0] = WalkStart(T) /\ big[0] = WalkStart(U)
  BY <1>0, <1>1, <1>2, WalkAlwaysOK DEF Walks
<1>6. \A i \in 0 .. n + 1 : big[i] = [out |-> big[i].out, stack |-> big[i].stack]
  BY <1>5 DEF WalkStates
<1> DEFINE S == {i \in 0 .. n : NotYet(run[i], big[i], r) \/ Since(run[i], big[i + 1], r, x)}
<1>7. 0 \in S
  <2>1. CASE r # Root
    <3>1. WalkStart(U) = WalkStart(T)
      <4>1. Children(U, Root) = Children(T, Root)
        BY <2>1, <1>a DEF LeafFirst
      <4> QED BY <4>1 DEF WalkStart
    <3>2. ~In(r, run[0].out)
      BY <1>5 DEF WalkStart, In
    <3> QED BY <1>0, <1>5, <2>1, <3>1, <3>2 DEF NotYet
  <2>2. CASE r = Root
    <3> DEFINE c == Children(T, Root)
               X == IdsIn(T) \union {x}
    <3>1. Children(U, Root) = <<x>> \o c /\ Children(U, x) = <<>>
      BY <2>2, <1>a DEF LeafFirst
    <3>2. c \in Seq(IdsIn(T))
      BY <1>0, ChildrenAre
    <3> HIDE DEF c, x
    <3>3. c \in Seq(X) /\ x \in X
      <4>1. IdsIn(T) \subseteq X
        OBVIOUS
      <4>2. Seq(IdsIn(T)) \subseteq Seq(X)
        <5> HIDE DEF X
        <5> QED BY <4>1, SeqMonotonic
      <4> QED BY <3>2, <4>2
    <3> HIDE DEF X
    <3> DEFINE s == <<x>> \o c
    <3>4. s # <<>> /\ Head(s) = x /\ Tail(s) = c
      BY <3>3
    <3>5. big[0] = [out |-> <<>>, stack |-> s]
      BY <1>5, <3>1 DEF WalkStart
    <3> HIDE DEF s
    <3>6. big[1] = WalkStep(U, big[0])
      <4>1. 1 \in 1 .. n + 1 /\ 1 - 1 = 0
        BY <1>0
      <4> QED BY <1>5, <4>1
    <3>7. big[1] = [out |-> Append(<<>>, x), stack |-> Children(U, x) \o c]
      <4>1. big[0].out = <<>> /\ big[0].stack = s
        BY <3>5
      <4> QED BY Zenon, <3>4, <3>6, <4>1 DEF WalkStep
    <3>8. Children(U, x) \o c = c
      BY <3>1, <3>3
    <3>9. Append(<<>>, x) = <<x>> \o <<>>
      BY <3>3
    <3>10. run[0].out = <<>> /\ run[0].stack = c
      BY <1>5 DEF WalkStart, c
    <3>11. Placed(run[0].out, r, x) = <<x>> \o <<>>
      BY <2>2, <3>10 DEF Placed
    <3>12. Since(run[0], big[1], r, x)
      BY <2>2, <3>7, <3>8, <3>9, <3>10, <3>11 DEF Since
    <3>13. 0 + 1 = 1 /\ 0 \in 0 .. n
      BY <1>0
    <3> QED BY <3>12, <3>13 DEF x
  <2> QED BY <2>1, <2>2
<1>8. ASSUME NEW k \in 0 .. n - 1, k \in S
      PROVE  k + 1 \in S
  <2>1. /\ k \in 0 .. n /\ k \in Nat /\ k + 1 \in 0 .. n /\ k + 1 \in 1 .. n /\ (k + 1) - 1 = k
        /\ k \in 0 .. n + 1 /\ k + 1 \in 0 .. n + 1 /\ k + 1 \in 1 .. n + 1
        /\ (k + 1) + 1 \in 1 .. n + 1 /\ ((k + 1) + 1) - 1 = k + 1
    BY <1>0
  <2>2. /\ run[k] \in WalkStates(T) /\ WalkOK(T, run[k], k)
        /\ run[k + 1] = WalkStep(T, run[k])
        /\ big[k + 1] = WalkStep(U, big[k])
        /\ big[(k + 1) + 1] = WalkStep(U, big[k + 1])
    BY <1>5, <2>1
  <2>3. CASE NotYet(run[k], big[k], r)
    <3>1. big[k] = run[k] /\ NotYet(run[k], run[k], r)
      BY <2>3 DEF NotYet
    <3>2. \/ NotYet(WalkStep(T, run[k]), WalkStep(U, run[k]), r)
          \/ Since(WalkStep(T, run[k]), WalkStep(U, WalkStep(U, run[k])), r, x)
      BY <2>2, <3>1, StepNotYet
    <3>3. NotYet(run[k + 1], big[k + 1], r) \/ Since(run[k + 1], big[(k + 1) + 1], r, x)
      BY <2>2, <3>1, <3>2
    <3> QED BY <2>1, <3>3
  <2>4. CASE Since(run[k], big[k + 1], r, x)
    <3>1. big[k + 1] = [out |-> big[k + 1].out, stack |-> big[k + 1].stack]
      BY <1>6, <2>1
    <3>2. Since(WalkStep(T, run[k]), WalkStep(U, big[k + 1]), r, x)
      BY <2>1, <2>2, <2>4, <3>1, StepSince
    <3> QED BY <2>1, <2>2, <3>2
  <2> QED BY <1>8, <2>3, <2>4
<1> HIDE DEF S
<1>9. 0 .. n \subseteq S
  BY <1>0, <1>7, <1>8, UpTo
<1>10. NotYet(run[n], big[n], r) \/ Since(run[n], big[n + 1], r, x)
  BY <1>0, <1>9 DEF S
<1>11. CASE NotYet(run[n], big[n], r)
  <2>1. big[n + 1] = WalkStep(U, big[n])
    <3>1. n + 1 \in 1 .. n + 1 /\ (n + 1) - 1 = n
      BY <1>0
    <3> QED BY <1>5, <3>1
  <2>2. big[n + 1] = run[n]
    BY <1>4, <1>11, <2>1 DEF NotYet, WalkStep
  <2>3. Placed(run[n].out, r, x) = run[n].out
    BY <1>11, ContainsIn DEF NotYet, Placed
  <2> QED BY <1>3, <2>2, <2>3
<1> QED BY <1>3, <1>10, <1>11 DEF Since

-----------------------------------------------------------------------------
(* Logs.                                                                   *)

Inserts(P) == {op \in P : op.kind = "insert"}

\* No row is the axis's start, and a row is younger than its anchor.
Good(P) ==
    /\ Ops(P)
    /\ \A op \in P : Id(op) # Root
    /\ \A op \in Inserts(P) : \A o \in P : op.row = Id(o) => Before(Key(o), Key(op))

Leaf(op) == [anchor |-> op.row, key |-> Key(op)]
TreeOf(P) == {Leaf(op) : op \in Inserts(P)}

LEMMA GoodSubset ==
    ASSUME NEW P, Good(P), NEW Q \in SUBSET P
    PROVE  Good(Q) /\ IsFiniteSet(Q)
<1>1. Ops(Q) /\ IsFiniteSet(Q)
  BY OpsOrdered DEF Good
<1> QED BY <1>1 DEF Good, Inserts

LEMMA IdOfKey == \A op : IdOf(Key(op)) = Id(op)
BY DEF IdOf, Key, Id

LEMMA TreeOfOK ==
    ASSUME NEW P, Good(P)
    PROVE  Tree(TreeOf(P))
<1>1. IsFiniteSet(TreeOf(P))
  <2> DEFINE I == Inserts(P)
             T == TreeOf(P)
             f == [op \in I |-> Leaf(op)]
  <2>1. I \in SUBSET P
    BY DEF Inserts
  <2>2. IsFiniteSet(I)
    BY <2>1, GoodSubset
  <2>3. f \in Surjection(I, T)
    BY DEF Surjection, TreeOf
  <2> HIDE DEF I, T, f
  <2>4. IsFiniteSet(T)
    BY <2>2, <2>3, FS_Surjection
  <2> QED BY <2>4 DEF T
<1>2. \A e \in TreeOf(P) : \E op \in P : e = Leaf(op) /\ e.key = Key(op)
  BY DEF TreeOf, Inserts, Leaf
<1>3. \A op \in P : Key(op) \in Keys /\ Id(op) # Root
  BY OpKeys DEF Good
<1>4. \A e \in TreeOf(P) : e.key \in Keys /\ IdOf(e.key) # Root
  BY <1>2, <1>3, IdOfKey
<1>5. ASSUME NEW e \in TreeOf(P), NEW f \in TreeOf(P), IdOf(e.key) = IdOf(f.key)
      PROVE  e = f
  <2>1. PICK o \in P : e = Leaf(o) /\ e.key = Key(o)
    BY <1>2
  <2>2. PICK p \in P : f = Leaf(p) /\ f.key = Key(p)
    BY <1>2
  <2>3. o = p
    BY <1>5, <2>1, <2>2, IdOfKey DEF Good, Ops
  <2> QED BY <2>1, <2>2, <2>3
<1> QED BY <1>1, <1>4, <1>5 DEF Tree

\* op follows everything in Q.
Follows(op, Q) == \A o \in Q : Before(Key(o), Key(op))

\* The row of a later insert goes directly below its anchor.
LEMMA OrderOfOneMore ==
    ASSUME NEW Q, NEW op, Good(Q \union {op}), Follows(op, Q), op.kind = "insert"
    PROVE  FullOrder(TreeOf(Q \union {op})) = Placed(FullOrder(TreeOf(Q)), op.row, Id(op))
<1> DEFINE P == Q \union {op}
           T == TreeOf(Q)
           U == TreeOf(P)
           e == Leaf(op)
<1>1. Tree(T) /\ Tree(U) /\ Good(Q)
  <2>1. Good(Q)
    BY GoodSubset
  <2> QED BY <2>1, TreeOfOK
<1>2. U = T \union {e}
  BY DEF TreeOf, Inserts
<1>3. e.anchor = op.row /\ e.key = Key(op) /\ IdOf(e.key) = Id(op)
  BY IdOfKey DEF Leaf
<1>4. \A f \in T : Before(f.key, e.key)
  BY <1>3 DEF TreeOf, Inserts, Leaf, Follows
<1>5. \A k \in Keys : ~Before(k, k)
  BY BeforeOrders
<1>6. e.key \in Keys
  BY <1>1, <1>2 DEF Tree
<1>7. e \notin T
  BY <1>4, <1>5, <1>6
<1>8. ASSUME NEW f \in U, f.anchor = IdOf(e.key)
      PROVE  FALSE
  <2>1. PICK o \in Inserts(P) : f = Leaf(o)
    BY DEF TreeOf
  <2>2. o.row = Id(op) /\ o \in P
    BY <1>3, <1>8, <2>1 DEF Leaf, Inserts
  <2>3. Before(Key(op), Key(o))
    BY <2>1, <2>2 DEF Good
  <2>4. o = op \/ Before(Key(o), Key(op))
    BY <2>2 DEF Follows
  <2>5. Key(o) \in Keys /\ Key(op) \in Keys
    BY <2>2, OpKeys DEF Good
  <2>6. Before(Key(o), Key(o))
    BY <2>3, <2>4, <2>5, BeforeOrders
  <2> QED BY <1>5, <2>5, <2>6
<1>9. Leafed(T, e, U)
  BY <1>1, <1>2, <1>4, <1>7, <1>8 DEF Leafed
<1> HIDE DEF T, U, e, P
<1>10. FullOrder(U) = Placed(FullOrder(T), e.anchor, IdOf(e.key))
  BY <1>9, OrderGrows
<1> QED BY <1>3, <1>10 DEF T, U, P

LEMMA OrderOfNone == FullOrder(TreeOf({})) = <<>>
<1> DEFINE T == TreeOf({})
<1>1. T = {} /\ Tree(T) /\ Cardinality(T) = 0
  BY FS_EmptySet DEF TreeOf, Inserts, Tree
<1> HIDE DEF T
<1>2. PICK run : Walks(run, T, Cardinality(T))
  BY <1>1, WalkExists
<1>3. FullOrder(T) = run[0].out
  BY <1>1, <1>2, OrderIsWalk
<1>4. run[0].out = <<>>
  BY <1>2 DEF Walks, WalkStart
<1> QED BY <1>3, <1>4 DEF T

\* The reference order, dead rows included, is the walk's.
LEMMA RefOrderIsWalk ==
    ASSUME NEW P, Good(P)
    PROVE  RefOrder(P) = Kept(FullOrder(TreeOf(P)),
                              {r \in ToSet(FullOrder(TreeOf(P))) : ~Dead(P, r)})
<1> DEFINE S == Inserts(P)
           R == OpOrder(P)
           c == Canonical(S)
           n == Cardinality(S)
           it == CHOOSE f : f = [s \in SUBSET (1 .. n) |->
                    IF s = {} THEN <<>>
                    ELSE Placed(f[s \ {Max(s)}], c[Max(s)].row, Id(c[Max(s)]))]
           h == [s \in SUBSET (1 .. n) |-> FullOrder(TreeOf(At(c, s)))]
<1>0. S \in SUBSET P /\ Ops(P)
  BY DEF Good, Inserts
<1>1. n \in Nat /\ Lists(c, S, R) /\ IsFiniteSet(S)
  BY <1>0, CanonicalLists, GoodSubset, FS_CardinalityType
<1>2. DOMAIN c = 1 .. n
  BY <1>1 DEF Lists
<1>3. RefOrder(P) = Kept(it[1 .. n], {r \in ToSet(it[1 .. n]) : ~Dead(P, r)})
  BY Zenon, <1>2 DEF RefOrder, FoldLeft, MapThenFoldSet, Placed, Inserts
<1>4. ASSUME NEW s \in SUBSET (1 .. n), s # {}
      PROVE  /\ s \ {Max(s)} \in SUBSET (1 .. n)
             /\ h[s] = Placed(h[s \ {Max(s)}], c[Max(s)].row, Id(c[Max(s)]))
  <2> DEFINE Q == At(c, s \ {Max(s)})
             op == c[Max(s)]
  <2> HIDE DEF c, R
  <2>1. /\ s \ {Max(s)} \in SUBSET (1 .. n)
        /\ op \in S
        /\ At(c, s) = Q \union {op}
        /\ At(c, s) \in SUBSET S
        /\ \A x \in Q : <<x, op>> \in R
    BY <1>1, <1>4, LargestPlace
  <2>2. Good(Q \union {op}) /\ op.kind = "insert"
    BY <1>0, <2>1, GoodSubset DEF Inserts
  <2>3. Follows(op, Q)
    BY <1>0, <2>1, OpKeys DEF Follows, R
  <2> HIDE DEF Q, op, S
  <2>4. FullOrder(TreeOf(Q \union {op})) = Placed(FullOrder(TreeOf(Q)), op.row, Id(op))
    BY <2>2, <2>3, OrderOfOneMore
  <2> QED BY <2>1, <2>4 DEF Q, op
<1>5. h[{}] = <<>>
  BY OrderOfNone DEF At
<1>6. h = [s \in SUBSET (1 .. n) |->
              IF s = {} THEN <<>> ELSE Placed(h[s \ {Max(s)}], c[Max(s)].row, Id(c[Max(s)]))]
  <2>1. \A s \in SUBSET (1 .. n) : h[s] =
              IF s = {} THEN <<>> ELSE Placed(h[s \ {Max(s)}], c[Max(s)].row, Id(c[Max(s)]))
    BY <1>4, <1>5
  <2>2. h = [s \in SUBSET (1 .. n) |-> h[s]]
    OBVIOUS
  <2> HIDE DEF h
  <2> QED BY <2>1, <2>2
<1>7. it = [s \in SUBSET (1 .. n) |->
              IF s = {} THEN <<>> ELSE Placed(it[s \ {Max(s)}], c[Max(s)].row, Id(c[Max(s)]))]
  <2> HIDE DEF h
  <2> QED BY <1>6
<1> HIDE DEF it
<1> DEFINE K == {i \in 0 .. n : it[1 .. i] = h[1 .. i]}
<1>8. 0 \in K
  <2>1. 1 .. 0 = {} /\ {} \in SUBSET (1 .. n) /\ 0 \in 0 .. n
    BY <1>1
  <2> QED BY <1>5, <1>7, <2>1
<1>9. ASSUME NEW k \in 0 .. n - 1, k \in K
      PROVE  k + 1 \in K
  <2>1. k + 1 \in 1 .. n /\ k + 1 \in 0 .. n /\ (k + 1) - 1 = k
    BY <1>1
  <2>2. /\ 1 .. k + 1 \in SUBSET (1 .. n) /\ 1 .. k + 1 # {}
        /\ Max(1 .. k + 1) = k + 1 /\ (1 .. k + 1) \ {k + 1} = 1 .. k
    BY <1>1, <2>1, Firsts
  <2>3. it[1 .. k + 1] = Placed(it[1 .. k], c[k + 1].row, Id(c[k + 1]))
    BY <1>7, <2>2
  <2>4. h[1 .. k + 1] = Placed(h[1 .. k], c[k + 1].row, Id(c[k + 1]))
    <3> HIDE DEF h
    <3> QED BY <1>4, <2>2
  <2>5. it[1 .. k] = h[1 .. k]
    BY <1>9
  <2> HIDE DEF h
  <2> QED BY <2>1, <2>3, <2>4, <2>5
<1> HIDE DEF K
<1>10. 0 .. n \subseteq K
  BY <1>1, <1>8, <1>9, UpTo
<1>11. it[1 .. n] = h[1 .. n]
  <2>1. n \in 0 .. n
    BY <1>1
  <2>2. n \in K
    BY <1>10, <2>1
  <2> HIDE DEF h
  <2> QED BY <2>2 DEF K
<1>12. h[1 .. n] = FullOrder(TreeOf(P))
  <2>1. At(c, 1 .. n) = S
    BY <1>1, AllPlaces
  <2>2. TreeOf(S) = TreeOf(P)
    BY DEF TreeOf, Inserts
  <2>3. h[1 .. n] = FullOrder(TreeOf(At(c, 1 .. n)))
    OBVIOUS
  <2> QED BY <2>1, <2>2, <2>3
<1> QED BY <1>3, <1>11, <1>12

-----------------------------------------------------------------------------
(* Lists, again.                                                           *)

LEMMA ListExists ==
    ASSUME NEW S, NEW R, IsFiniteSet(S), Orders(R, S)
    PROVE  \E t : Lists(t, S, R)
<1> DEFINE n == Cardinality(S)
           t == [i \in 1 .. n |-> CHOOSE x \in S : Cardinality(Below(x, S, R)) = i - 1]
<1>1. ASSUME NEW i \in 1 .. n
      PROVE  t[i] \in S /\ Cardinality(Below(t[i], S, R)) = i - 1
  <2>1. \E x \in S : Cardinality(Below(x, S, R)) = i - 1
    BY RankExists
  <2> QED BY <2>1
<1>2. DOMAIN t = 1 .. n /\ t = [i \in DOMAIN t |-> t[i]]
  OBVIOUS
<1> HIDE DEF t
<1>3. Lists(t, S, R)
  BY <1>1, <1>2, RankedLists
<1> QED BY <1>3

\* A list keeps to any order that agrees on its members.
LEMMA ListReordered ==
    ASSUME NEW S, NEW R, NEW L, NEW seq, Lists(seq, S, R),
           \A x, y \in S : <<x, y>> \in R => <<x, y>> \in L
    PROVE  Lists(seq, S, L)
BY DEF Lists

\* A member behind all others goes to the end.
LEMMA ListGrowsAtEnd ==
    ASSUME NEW S, NEW R, IsFiniteSet(S), NEW m, m \notin S, NEW seq, Lists(seq, S, R),
           \A x \in S : <<x, m>> \in R
    PROVE  Lists(Append(seq, m), S \union {m}, R)
<1> DEFINE n == Cardinality(S)
           t == Append(seq, m)
<1>0. n \in Nat /\ Cardinality(S \union {m}) = n + 1
  BY FS_CardinalityType, FS_AddElement
<1>1. /\ seq \in [1 .. n -> S]
      /\ \A i, j \in 1 .. n : i < j => <<seq[i], seq[j]>> \in R
      /\ \A x \in S : \E i \in 1 .. n : seq[i] = x
  BY DEF Lists
<1> HIDE DEF n
<1>2. seq \in Seq(S) /\ Len(seq) = n
  BY <1>0, <1>1
<1>3. /\ t \in Seq(S \union {m}) /\ Len(t) = n + 1
      /\ t[n + 1] = m /\ \A i \in 1 .. n : t[i] = seq[i]
  BY <1>2
<1>4. t \in [1 .. n + 1 -> S \union {m}]
  <2> HIDE DEF t
  <2> QED BY <1>0, <1>3
<1> HIDE DEF t
<1>5. ASSUME NEW i \in 1 .. n + 1, NEW j \in 1 .. n + 1, i < j
      PROVE  <<t[i], t[j]>> \in R
  <2>1. i \in 1 .. n /\ t[i] = seq[i] /\ seq[i] \in S
    BY <1>0, <1>1, <1>3, <1>5
  <2>2. j = n + 1 \/ j \in 1 .. n
    BY <1>0
  <2>3. CASE j = n + 1
    BY <1>3, <2>1, <2>3
  <2>4. CASE j \in 1 .. n
    BY <1>1, <1>3, <1>5, <2>1, <2>4
  <2> QED BY <2>2, <2>3, <2>4
<1>6. \A x \in S \union {m} : \E i \in 1 .. n + 1 : t[i] = x
  <2>1. \A i \in 1 .. n : i \in 1 .. n + 1
    BY <1>0
  <2>2. n + 1 \in 1 .. n + 1
    BY <1>0
  <2> QED BY <1>1, <1>3, <2>1, <2>2
<1>7. Lists(t, S \union {m}, R)
  BY <1>0, <1>4, <1>5, <1>6 DEF Lists
<1> QED BY <1>7 DEF t

\* What agrees on nothing, and on the first k + 1 when on the first k, agrees.
LEMMA FirstsAgree ==
    ASSUME NEW n \in Nat, NEW f, NEW h, f[{}] = h[{}],
           \A k \in 0 .. n - 1 : f[1 .. k] = h[1 .. k] => f[1 .. k + 1] = h[1 .. k + 1]
    PROVE  f[1 .. n] = h[1 .. n]
<1> DEFINE K == {i \in 0 .. n : f[1 .. i] = h[1 .. i]}
<1>1. 0 \in K
  <2>1. 1 .. 0 = {} /\ 0 \in 0 .. n
    OBVIOUS
  <2> QED BY <2>1
<1>2. ASSUME NEW k \in 0 .. n - 1, k \in K
      PROVE  k + 1 \in K
  <2>1. k + 1 \in 0 .. n
    OBVIOUS
  <2> QED BY <1>2, <2>1
<1> HIDE DEF K
<1>3. 0 .. n \subseteq K
  BY <1>1, <1>2, UpTo
<1>4. n \in K
  BY <1>3
<1> QED BY <1>4 DEF K

\* Of some places of a sequence, all but the largest, and the largest.
LEMMA LargestOfPlaces ==
    ASSUME NEW n \in Nat, NEW seq, NEW s \in SUBSET (1 .. n), s # {}
    PROVE  /\ Max(s) \in 1 .. n
           /\ s \ {Max(s)} \in SUBSET (1 .. n)
           /\ \A j \in s \ {Max(s)} : j < Max(s)
           /\ At(seq, s) = At(seq, s \ {Max(s)}) \union {seq[Max(s)]}
<1> DEFINE m == Max(s)
<1>0. s \in SUBSET (0 .. n)
  OBVIOUS
<1>1. m \in s /\ \A y \in s : y <= m
  BY <1>0, MaxGreatest
<1> HIDE DEF m
<1>2. At(seq, s) = At(seq, s \ {m}) \union {seq[m]}
  BY <1>1 DEF At
<1>3. m \in 1 .. n /\ s \ {m} \in SUBSET (1 .. n) /\ \A j \in s \ {m} : j < m
  <2>1. \A j \in 1 .. n : j <= m /\ j # m => j < m
    BY <1>1
  <2> QED BY <1>1, <2>1
<1> QED BY <1>2, <1>3 DEF m

LastOf(seq, S, R, s) ==
    /\ seq[Max(s)] \in S
    /\ s \ {Max(s)} \in SUBSET (1 .. Cardinality(S))
    /\ At(seq, s) = At(seq, s \ {Max(s)}) \union {seq[Max(s)]}
    /\ \A x \in At(seq, s \ {Max(s)}) : <<x, seq[Max(s)]>> \in R

LEMMA LargestLast ==
    ASSUME NEW S, NEW R, IsFiniteSet(S), NEW seq, Lists(seq, S, R),
           NEW s \in SUBSET (1 .. Cardinality(S)), s # {}
    PROVE  LastOf(seq, S, R, s)
BY LargestPlace DEF LastOf

-----------------------------------------------------------------------------
(* Filtering.                                                              *)

\* Filtering a list leaves the list of those that stay.
LEMMA KeptLists ==
    ASSUME NEW S, NEW R, IsFiniteSet(S), Orders(R, S), NEW seq, Lists(seq, S, R),
           NEW T \in SUBSET S
    PROVE  Lists(Kept(seq, T), T, R)
<1> DEFINE n == Cardinality(S)
           it == CHOOSE f : f = [s \in SUBSET (1 .. n) |->
                    IF s = {} THEN <<>>
                    ELSE IF seq[Max(s)] \in T THEN Append(f[s \ {Max(s)}], seq[Max(s)])
                                              ELSE f[s \ {Max(s)}]]
           H(s) == CHOOSE t : Lists(t, At(seq, s) \cap T, R)
           h == [s \in SUBSET (1 .. n) |-> H(s)]
<1>1. n \in Nat /\ DOMAIN seq = 1 .. n
  BY FS_CardinalityType DEF Lists
<1>2. Kept(seq, T) = it[1 .. n]
  BY Zenon, <1>1 DEF Kept, FoldLeft, MapThenFoldSet
<1> HIDE DEF n
<1>3. ASSUME NEW A \in SUBSET S
      PROVE  IsFiniteSet(A) /\ Orders(R, A) /\ \E t : Lists(t, A, R)
  <2>1. IsFiniteSet(A)
    BY FS_Subset
  <2>2. Orders(R, A)
    BY DEF Orders
  <2> QED BY <2>1, <2>2, ListExists
<1>4. ASSUME NEW s \in SUBSET (1 .. n)
      PROVE  At(seq, s) \cap T \in SUBSET S /\ Lists(h[s], At(seq, s) \cap T, R)
  <2>1. At(seq, s) \cap T \in SUBSET S
    OBVIOUS
  <2>2. \E t : Lists(t, At(seq, s) \cap T, R)
    BY <1>3, <2>1
  <2> QED BY <2>1, <2>2
<1>5. ASSUME NEW s \in SUBSET (1 .. n), s # {}
      PROVE  h[s] = IF seq[Max(s)] \in T THEN Append(h[s \ {Max(s)}], seq[Max(s)])
                                         ELSE h[s \ {Max(s)}]
  <2> DEFINE x == seq[Max(s)]
             r == s \ {Max(s)}
             A == At(seq, r) \cap T
             B == At(seq, s) \cap T
  <2>1. /\ x \in S /\ r \in SUBSET (1 .. n)
        /\ At(seq, s) = At(seq, r) \union {x}
        /\ \A y \in At(seq, r) : <<y, x>> \in R
    <3> HIDE DEF h, it
    <3>1. s \in SUBSET (1 .. Cardinality(S)) /\ s # {}
      BY <1>5 DEF n
    <3>2. LastOf(seq, S, R, s)
      BY ONLY <3>1, IsFiniteSet(S), Lists(seq, S, R), LargestLast
    <3> QED BY <3>2 DEF n, LastOf
  <2>2. /\ A \in SUBSET S /\ Lists(h[r], A, R) /\ IsFiniteSet(A)
        /\ B \in SUBSET S /\ Lists(h[s], B, R) /\ IsFiniteSet(B) /\ Orders(R, B)
    <3> HIDE DEF h, r
    <3> QED BY <1>3, <1>4, <2>1
  <2> HIDE DEF h
  <2>3. CASE x \in T
    <3>1. B = A \union {x}
      BY <2>1, <2>3
    <3>2. \A y \in A : <<y, x>> \in R
      BY <2>1
    <3>3. x \notin A
      BY <2>1, <3>2 DEF Orders
    <3> HIDE DEF A, B, x, r
    <3>4. Lists(Append(h[r], x), B, R)
      BY <2>2, <3>1, <3>2, <3>3, ListGrowsAtEnd
    <3>5. h[s] = Append(h[r], x)
      BY <2>2, <3>4, OneList
    <3> QED BY <2>3, <3>5 DEF x, r
  <2>4. CASE x \notin T
    <3>1. B = A
      BY <2>1, <2>4
    <3> HIDE DEF A, B, r
    <3>2. h[s] = h[r]
      BY <2>2, <3>1, OneList
    <3> QED BY <2>4, <3>2 DEF r
  <2> QED BY <2>3, <2>4
<1>6. h[{}] = <<>>
  <2>1. {} \in SUBSET (1 .. n) /\ At(seq, {}) \cap T = {}
    BY DEF At
  <2>2. Lists(h[{}], {}, R)
    BY <1>4, <2>1
  <2>3. Lists(<<>>, {}, R)
    BY FS_EmptySet DEF Lists
  <2>4. IsFiniteSet({}) /\ Orders(R, {})
    BY FS_EmptySet DEF Orders
  <2> QED BY <2>2, <2>3, <2>4, OneList
<1>7. h = [s \in SUBSET (1 .. n) |->
              IF s = {} THEN <<>>
              ELSE IF seq[Max(s)] \in T THEN Append(h[s \ {Max(s)}], seq[Max(s)])
                                        ELSE h[s \ {Max(s)}]]
  <2>1. h = [s \in SUBSET (1 .. n) |-> h[s]]
    <3> HIDE DEF H
    <3> QED OBVIOUS
  <2> HIDE DEF h
  <2> QED BY <1>5, <1>6, <2>1
<1>8. it = [s \in SUBSET (1 .. n) |->
              IF s = {} THEN <<>>
              ELSE IF seq[Max(s)] \in T THEN Append(it[s \ {Max(s)}], seq[Max(s)])
                                        ELSE it[s \ {Max(s)}]]
  <2> HIDE DEF h
  <2> QED BY <1>7
<1> HIDE DEF it, h
<1>9. it[1 .. n] = h[1 .. n]
  <2>1. it[{}] = h[{}]
    BY <1>6, <1>8
  <2>2. ASSUME NEW k \in 0 .. n - 1, it[1 .. k] = h[1 .. k]
        PROVE  it[1 .. k + 1] = h[1 .. k + 1]
    <3>1. k + 1 \in 1 .. n /\ (k + 1) - 1 = k
      BY <1>1
    <3>2. /\ 1 .. k + 1 \in SUBSET (1 .. n) /\ 1 .. k + 1 # {}
          /\ Max(1 .. k + 1) = k + 1 /\ (1 .. k + 1) \ {k + 1} = 1 .. k
      BY <1>1, <3>1, Firsts
    <3>3. it[1 .. k + 1] = IF seq[k + 1] \in T THEN Append(it[1 .. k], seq[k + 1]) ELSE it[1 .. k]
      BY <1>8, <3>2
    <3>4. h[1 .. k + 1] = IF seq[k + 1] \in T THEN Append(h[1 .. k], seq[k + 1]) ELSE h[1 .. k]
      BY <1>5, <3>2
    <3> QED BY <2>2, <3>3, <3>4
  <2> QED BY <1>1, <2>1, <2>2, FirstsAgree
<1>10. At(seq, 1 .. n) \cap T = T /\ 1 .. n \in SUBSET (1 .. n)
  <2>1. At(seq, 1 .. n) = S
    BY AllPlaces DEF n
  <2> QED BY <2>1
<1>11. Lists(h[1 .. n], T, R)
  BY <1>4, <1>10
<1> QED BY <1>2, <1>9, <1>11

\* What filtering has kept after each place.
KeptAt(r, seq, T, X) ==
    /\ \A k \in 0 .. Len(seq) : r[k] \in Seq(X)
    /\ r[0] = <<>>
    /\ \A k \in 0 .. Len(seq) - 1 :
           r[k + 1] = IF seq[k + 1] \in T THEN Append(r[k], seq[k + 1]) ELSE r[k]
    /\ r[Len(seq)] = Kept(seq, T)

LEMMA KeptRuns ==
    ASSUME NEW X, NEW seq \in Seq(X), NEW T
    PROVE  \E r : KeptAt(r, seq, T, X)
<1> DEFINE n == Len(seq)
           it == CHOOSE f : f = [s \in SUBSET (1 .. n) |->
                    IF s = {} THEN <<>>
                    ELSE IF seq[Max(s)] \in T THEN Append(f[s \ {Max(s)}], seq[Max(s)])
                                              ELSE f[s \ {Max(s)}]]
           g == [i \in 1 .. n |-> [x \in Seq(X) |-> IF seq[i] \in T THEN Append(x, seq[i]) ELSE x]]
           run == [k \in 0 .. n |-> it[1 .. k]]
<1>1. n \in Nat /\ DOMAIN seq = 1 .. n /\ \A i \in 1 .. n : seq[i] \in X
  OBVIOUS
<1>2. Kept(seq, T) = it[1 .. n]
  BY Zenon, <1>1 DEF Kept, FoldLeft, MapThenFoldSet
<1>3. <<>> \in Seq(X) /\ \A i \in 1 .. n : \A x \in Seq(X) : g[i][x] \in Seq(X)
  OBVIOUS
<1> DEFINE Q == Seq(X)
           nil == <<>>
<1>g. \A i \in 1 .. n : \A x \in Q : g[i][x] = IF seq[i] \in T THEN Append(x, seq[i]) ELSE x
  OBVIOUS
<1>q. nil \in Q /\ \A i \in 1 .. n : \A x \in Q : g[i][x] \in Q
  BY <1>3
<1> HIDE DEF n, g, Q, nil
<1>4. PICK h : Recursion(h, Q, nil, n, g)
  BY <1>1, <1>q, FoldExists
<1>5. /\ h \in [SUBSET (1 .. n) -> Q]
      /\ \A s \in SUBSET (1 .. n) : h[s] = IF s = {} THEN nil ELSE g[Max(s)][h[s \ {Max(s)}]]
  BY <1>4 DEF Recursion
<1>6. ASSUME NEW s \in SUBSET (1 .. n)
      PROVE  h[s] = IF s = {} THEN <<>>
                    ELSE IF seq[Max(s)] \in T THEN Append(h[s \ {Max(s)}], seq[Max(s)])
                                              ELSE h[s \ {Max(s)}]
  <2>1. CASE s = {}
    BY <1>5, <2>1 DEF nil
  <2>2. CASE s # {}
    <3>1. Max(s) \in 1 .. n /\ s \ {Max(s)} \in SUBSET (1 .. n)
      BY <1>1, <2>2, LargestOfPlaces
    <3>2. h[s] = g[Max(s)][h[s \ {Max(s)}]] /\ h[s \ {Max(s)}] \in Q
      BY <1>5, <2>2, <3>1
    <3> QED BY <1>g, <2>2, <3>1, <3>2
  <2> QED BY <2>1, <2>2
<1>7. it = [s \in SUBSET (1 .. n) |->
              IF s = {} THEN <<>>
              ELSE IF seq[Max(s)] \in T THEN Append(it[s \ {Max(s)}], seq[Max(s)])
                                        ELSE it[s \ {Max(s)}]]
  <2>1. h = [s \in SUBSET (1 .. n) |->
              IF s = {} THEN <<>>
              ELSE IF seq[Max(s)] \in T THEN Append(h[s \ {Max(s)}], seq[Max(s)])
                                        ELSE h[s \ {Max(s)}]]
    <3>1. h = [s \in SUBSET (1 .. n) |-> h[s]]
      BY <1>5
    <3> QED BY <1>6, <3>1
  <2> QED BY <2>1
<1> HIDE DEF it
<1>8. /\ it[{}] = <<>>
      /\ \A k \in 0 .. n - 1 :
            it[1 .. k + 1] = IF seq[k + 1] \in T THEN Append(it[1 .. k], seq[k + 1]) ELSE it[1 .. k]
  <2>1. it[{}] = <<>>
    BY <1>7
  <2>2. ASSUME NEW k \in 0 .. n - 1
        PROVE  it[1 .. k + 1] = IF seq[k + 1] \in T THEN Append(it[1 .. k], seq[k + 1]) ELSE it[1 .. k]
    <3>1. k + 1 \in 1 .. n /\ (k + 1) - 1 = k
      BY <1>1
    <3>2. /\ 1 .. k + 1 \in SUBSET (1 .. n) /\ 1 .. k + 1 # {}
          /\ Max(1 .. k + 1) = k + 1 /\ (1 .. k + 1) \ {k + 1} = 1 .. k
      BY <1>1, <3>1, Firsts
    <3> QED BY <1>7, <3>2
  <2> QED BY <2>1, <2>2
<1>9. /\ \A k \in 0 .. n : run[k] = it[1 .. k]
      /\ 1 .. 0 = {} /\ 0 \in 0 .. n /\ n \in 0 .. n
      /\ \A k \in 0 .. n - 1 : k \in 0 .. n /\ k + 1 \in 0 .. n /\ k + 1 \in 1 .. n
  BY <1>1
<1> HIDE DEF run
<1>10. run[0] = <<>> /\ run[n] = Kept(seq, T)
  BY <1>2, <1>8, <1>9
<1>11. \A k \in 0 .. n - 1 :
          run[k + 1] = IF seq[k + 1] \in T THEN Append(run[k], seq[k + 1]) ELSE run[k]
  BY <1>8, <1>9
<1>12. \A k \in 0 .. n : run[k] \in Q
  <2>1. run[0] \in Q
    BY <1>10 DEF Q
  <2>2. \A k \in 0 .. n - 1 : run[k] \in Q => run[k + 1] \in Q
    <3> SUFFICES ASSUME NEW k \in 0 .. n - 1, run[k] \in Q PROVE run[k + 1] \in Q
      OBVIOUS
    <3>1. \A u \in Seq(X), y \in X : Append(u, y) \in Seq(X)
      OBVIOUS
    <3>2. seq[k + 1] \in X
      BY <1>1, <1>9
    <3>3. run[k + 1] = Append(run[k], seq[k + 1]) \/ run[k + 1] = run[k]
      BY <1>11
    <3> QED BY <3>1, <3>2, <3>3 DEF Q
  <2> QED BY <1>1, <2>1, <2>2, StaysIn
<1>13. KeptAt(run, seq, T, X)
  BY <1>10, <1>11, <1>12 DEF KeptAt, n, Q
<1> QED BY <1>13

\* Filtering brings nothing in.
LEMMA KeptMembers ==
    ASSUME NEW X, NEW seq \in Seq(X), NEW T
    PROVE  Kept(seq, T) \in Seq(X)
<1>1. PICK r : KeptAt(r, seq, T, X)
  BY KeptRuns
<1>2. Len(seq) \in 0 .. Len(seq)
  OBVIOUS
<1>3. r[Len(seq)] \in Seq(X)
  BY <1>1, <1>2 DEF KeptAt
<1> QED BY <1>1, <1>3 DEF KeptAt

\* Filtering looks at the members only.
LEMMA KeptAgree ==
    ASSUME NEW X, NEW s \in Seq(X), NEW t \in Seq(X), NEW S, NEW T, Len(s) <= Len(t),
           \A i \in 1 .. Len(s) : s[i] = t[i] /\ (s[i] \in S <=> s[i] \in T),
           NEW r, KeptAt(r, s, S, X), NEW q, KeptAt(q, t, T, X)
    PROVE  r[Len(s)] = q[Len(s)]
<1> DEFINE n == Len(s)  K == {k \in 0 .. n : r[k] = q[k]}
<1>1. n \in Nat /\ Len(t) \in Nat
  OBVIOUS
<1>2. 0 \in K
  BY <1>1 DEF KeptAt
<1>3. ASSUME NEW k \in 0 .. n - 1, k \in K
      PROVE  k + 1 \in K
  <2>1. k + 1 \in 1 .. n /\ k + 1 \in 0 .. n /\ k \in 0 .. Len(t) - 1 /\ k \in 0 .. Len(s) - 1
    BY <1>1
  <2>2. r[k + 1] = IF s[k + 1] \in S THEN Append(r[k], s[k + 1]) ELSE r[k]
    BY <2>1 DEF KeptAt
  <2>3. q[k + 1] = IF t[k + 1] \in T THEN Append(q[k], t[k + 1]) ELSE q[k]
    BY <2>1 DEF KeptAt
  <2> QED BY <1>3, <2>1, <2>2, <2>3
<1> HIDE DEF K, n
<1>4. 0 .. n \subseteq K
  BY <1>1, <1>2, <1>3, UpTo
<1>5. n \in K
  BY <1>1, <1>4
<1> QED BY <1>5 DEF K, n

LEMMA KeptSame ==
    ASSUME NEW X, NEW s \in Seq(X), NEW S, NEW T,
           \A i \in 1 .. Len(s) : s[i] \in S <=> s[i] \in T
    PROVE  Kept(s, S) = Kept(s, T)
<1>1. PICK r : KeptAt(r, s, S, X)
  BY KeptRuns
<1>2. PICK q : KeptAt(q, s, T, X)
  BY KeptRuns
<1>3. Len(s) <= Len(s)
  OBVIOUS
<1>4. r[Len(s)] = q[Len(s)]
  BY <1>1, <1>2, <1>3, KeptAgree
<1> QED BY <1>1, <1>2, <1>4 DEF KeptAt

LEMMA KeptAppend ==
    ASSUME NEW X, NEW s \in Seq(X), NEW y \in X, NEW S
    PROVE  Kept(Append(s, y), S) = IF y \in S THEN Append(Kept(s, S), y) ELSE Kept(s, S)
<1> DEFINE t == Append(s, y)  n == Len(s)
<1>1. /\ t \in Seq(X) /\ Len(t) = n + 1 /\ t[n + 1] = y /\ n \in Nat
      /\ \A i \in 1 .. n : s[i] = t[i]
  OBVIOUS
<1> HIDE DEF t, n
<1>2. PICK r : KeptAt(r, s, S, X)
  BY KeptRuns
<1>3. PICK q : KeptAt(q, t, S, X)
  BY <1>1, KeptRuns
<1>4. r[n] = q[n]
  <2>1. Len(s) <= Len(t)
    BY <1>1 DEF n
  <2>2. \A i \in 1 .. Len(s) : s[i] = t[i] /\ (s[i] \in S <=> s[i] \in S)
    BY <1>1 DEF n
  <2> QED BY <1>1, <1>2, <1>3, <2>1, <2>2, KeptAgree DEF n
<1>5. n \in 0 .. Len(t) - 1
  BY <1>1
<1>6. q[n + 1] = IF t[n + 1] \in S THEN Append(q[n], t[n + 1]) ELSE q[n]
  BY <1>3, <1>5 DEF KeptAt
<1>7. q[n + 1] = Kept(t, S) /\ r[n] = Kept(s, S)
  BY <1>1, <1>2, <1>3 DEF KeptAt, n
<1> QED BY <1>1, <1>4, <1>6, <1>7 DEF t

\* A row that is filtered out may be placed anywhere.
LEMMA KeptPlaced ==
    ASSUME NEW X, NEW s \in Seq(X), NEW r \in X, NEW x \in X, NEW S, x \notin S
    PROVE  Kept(Placed(s, r, x), S) = Kept(s, S)
<1> DEFINE n == Len(s)
           pre(k) == SubSeq(s, 1, k)
           Same(t) == Placed(t, r, x) \in Seq(X) /\ Kept(Placed(t, r, x), S) = Kept(t, S)
           K == {k \in 0 .. n : Same(pre(k))}
<1>1. /\ n \in Nat /\ pre(n) = s /\ pre(0) = <<>>
      /\ \A k \in 0 .. n : pre(k) \in Seq(X)
      /\ \A k \in 0 .. n - 1 : pre(k + 1) = Append(pre(k), s[k + 1]) /\ s[k + 1] \in X
                               /\ k + 1 \in 0 .. n /\ k \in 0 .. n
  <2>1. n \in Nat
    OBVIOUS
  <2>2. pre(n) = s /\ pre(0) = <<>>
    OBVIOUS
  <2>3. ASSUME NEW k \in 0 .. n
        PROVE  pre(k) \in Seq(X)
    OBVIOUS
  <2>4. ASSUME NEW k \in 0 .. n - 1
        PROVE  pre(k + 1) = Append(pre(k), s[k + 1]) /\ s[k + 1] \in X
               /\ k + 1 \in 0 .. n /\ k \in 0 .. n
    <3>1. k + 1 \in 0 .. n /\ k \in 0 .. n /\ s[k + 1] \in X
      BY <2>1
    <3>2. pre(k + 1) = Append(pre(k), s[k + 1])
      BY <2>1
    <3> QED BY <3>1, <3>2
  <2> QED BY <2>1, <2>2, <2>3, <2>4
<1> HIDE DEF n, pre
<1>2. Same(<<>>)
  <2> DEFINE nil == <<>>
  <2>1. nil \in Seq(X) /\ Append(nil, x) = <<x>> /\ <<x>> \o nil = <<x>> /\ Append(nil, x) \in Seq(X)
    OBVIOUS
  <2>2. ~Contains(nil, r)
    BY DEF Contains
  <2> HIDE DEF nil
  <2>3. Kept(Append(nil, x), S) = Kept(nil, S)
    BY <2>1, KeptAppend
  <2>4. CASE r = Root
    <3>1. Placed(nil, r, x) = Append(nil, x)
      BY <2>1, <2>4 DEF Placed
    <3> QED BY <2>1, <2>3, <3>1 DEF nil
  <2>5. CASE r # Root
    <3>1. Placed(nil, r, x) = nil
      BY <2>2, <2>5 DEF Placed
    <3> QED BY <2>1, <3>1 DEF nil
  <2> QED BY <2>4, <2>5
<1>3. ASSUME NEW t \in Seq(X), NEW h \in X, Same(t)
      PROVE  Same(Append(t, h))
  <2> DEFINE u == Append(t, h)
  <2>1. u \in Seq(X)
    OBVIOUS
  <2>2. CASE r = Root \/ In(r, t)
    <3> DEFINE v == Placed(t, r, x)
    <3>1. Placed(u, r, x) = Append(v, h)
      BY <2>2, PlacedAppend
    <3>2. v \in Seq(X) /\ Kept(v, S) = Kept(t, S)
      BY <1>3
    <3> HIDE DEF v
    <3>3. Append(v, h) \in Seq(X)
      BY <3>2
    <3>4. Kept(Append(v, h), S) = IF h \in S THEN Append(Kept(v, S), h) ELSE Kept(v, S)
      BY <3>2, KeptAppend
    <3>5. Kept(Append(t, h), S) = IF h \in S THEN Append(Kept(t, S), h) ELSE Kept(t, S)
      BY KeptAppend
    <3> QED BY <3>1, <3>2, <3>3, <3>4, <3>5
  <2>3. CASE r # Root /\ ~In(r, t) /\ h = r
    <3>1. Placed(u, r, x) = Append(Append(t, r), x)
      BY <2>3, PlacedLast
    <3> HIDE DEF u
    <3>2. Append(t, r) = u
      BY <2>3 DEF u
    <3>3. Append(u, x) \in Seq(X)
      BY <2>1
    <3>4. Kept(Append(u, x), S) = Kept(u, S)
      BY <2>1, KeptAppend
    <3> QED BY <3>1, <3>2, <3>3, <3>4 DEF u
  <2>4. CASE r # Root /\ ~In(r, t) /\ h # r
    <3>1. ~In(r, u)
      BY <2>4, InAppend
    <3>2. ~Contains(u, r)
      BY <3>1, ContainsIn
    <3> HIDE DEF u
    <3>3. Placed(u, r, x) = u
      BY <2>4, <3>2 DEF Placed
    <3> QED BY <2>1, <3>3 DEF u
  <2> QED BY <2>2, <2>3, <2>4
<1> HIDE DEF Same
<1>4. 0 \in K
  BY <1>1, <1>2
<1>5. \A k \in 0 .. n - 1 : k \in K => k + 1 \in K
  BY <1>1, <1>3
<1> HIDE DEF K
<1>6. 0 .. n \subseteq K
  BY <1>1, <1>4, <1>5, UpTo
<1>7. n \in K
  BY <1>1, <1>6
<1> QED BY <1>1, <1>7 DEF K, Same

-----------------------------------------------------------------------------
(* The first and the last op of a set.                                     *)

IsOldest(o, S) == o \in S /\ \A p \in S : ~Before(Key(p), Key(o))
IsNewest(o, S) == o \in S /\ \A p \in S : ~Before(Key(o), Key(p))

LEMMA OldestExists ==
    ASSUME NEW P, Ops(P), NEW S \in SUBSET P, S # {}
    PROVE  \E o : IsOldest(o, S)
<1>1. Orders(OpOrder(P), S) /\ IsFiniteSet(S)
  BY OpsOrdered
<1>2. PICK t : Lists(t, S, OpOrder(P))
  BY <1>1, ListExists
<1> DEFINE n == Cardinality(S)
<1>3. n \in Nat /\ n # 0
  BY <1>1, FS_CardinalityType, FS_EmptySet
<1>4. 1 \in 1 .. n /\ \A i \in 1 .. n : i = 1 \/ 1 < i
  BY <1>3
<1>5. t[1] \in S
  BY <1>2, <1>4 DEF Lists
<1>6. ASSUME NEW p \in S, Before(Key(p), Key(t[1]))
      PROVE  FALSE
  <2>1. PICK i \in 1 .. n : t[i] = p
    BY <1>2 DEF Lists
  <2>2. p = t[1] \/ Before(Key(t[1]), Key(p))
    <3>1. CASE i = 1
      BY <2>1, <3>1
    <3>2. CASE 1 < i
      <4>1. <<t[1], t[i]>> \in OpOrder(P)
        BY <1>2, <1>4, <3>2 DEF Lists
      <4> QED BY <2>1, <4>1 DEF OpOrder
    <3> QED BY <1>4, <3>1, <3>2
  <2>3. Key(p) \in Keys /\ Key(t[1]) \in Keys
    BY <1>5, OpKeys
  <2> QED BY <1>6, <2>2, <2>3, BeforeOrders
<1>7. IsOldest(t[1], S)
  BY <1>5, <1>6 DEF IsOldest
<1> QED BY <1>7

LEMMA NewestExists ==
    ASSUME NEW P, Ops(P), NEW S \in SUBSET P, S # {}
    PROVE  \E o : IsNewest(o, S)
<1>1. Orders(OpOrder(P), S) /\ IsFiniteSet(S)
  BY OpsOrdered
<1>2. PICK t : Lists(t, S, OpOrder(P))
  BY <1>1, ListExists
<1> DEFINE n == Cardinality(S)
<1>3. n \in Nat /\ n # 0
  BY <1>1, FS_CardinalityType, FS_EmptySet
<1>4. n \in 1 .. n /\ \A i \in 1 .. n : i = n \/ i < n
  BY <1>3
<1>5. t[n] \in S
  BY <1>2, <1>4 DEF Lists
<1>6. ASSUME NEW p \in S, Before(Key(t[n]), Key(p))
      PROVE  FALSE
  <2>1. PICK i \in 1 .. n : t[i] = p
    BY <1>2 DEF Lists
  <2>2. p = t[n] \/ Before(Key(p), Key(t[n]))
    <3>1. CASE i = n
      BY <2>1, <3>1
    <3>2. CASE i < n
      <4>1. <<t[i], t[n]>> \in OpOrder(P)
        BY <1>2, <1>4, <3>2 DEF Lists
      <4> QED BY <2>1, <4>1 DEF OpOrder
    <3> QED BY <1>4, <3>1, <3>2
  <2>3. Key(p) \in Keys /\ Key(t[n]) \in Keys
    BY <1>5, OpKeys
  <2> QED BY <1>6, <2>2, <2>3, BeforeOrders
<1>7. IsNewest(t[n], S)
  BY <1>5, <1>6 DEF IsNewest
<1> QED BY <1>7

LEMMA OneNewest ==
    ASSUME NEW P, Ops(P), NEW S \in SUBSET P, NEW o, NEW p, IsNewest(o, S), IsNewest(p, S)
    PROVE  o = p
<1>1. o \in P /\ p \in P /\ ~Before(Key(o), Key(p)) /\ ~Before(Key(p), Key(o))
  BY DEF IsNewest
<1>2. Key(o) = Key(p)
  BY <1>1, OpKeys, BeforeOrders
<1> QED BY <1>1, <1>2, OpKeys

LEMMA OneOldest ==
    ASSUME NEW P, Ops(P), NEW S \in SUBSET P, NEW o, NEW p, IsOldest(o, S), IsOldest(p, S)
    PROVE  o = p
<1>1. o \in P /\ p \in P /\ ~Before(Key(o), Key(p)) /\ ~Before(Key(p), Key(o))
  BY DEF IsOldest
<1>2. Key(o) = Key(p)
  BY <1>1, OpKeys, BeforeOrders
<1> QED BY <1>1, <1>2, OpKeys

\* An op that follows the others is the newest with them.
LEMMA LastIsNewest ==
    ASSUME NEW Q, NEW op, Ops(Q \union {op}), Follows(op, Q)
    PROVE  /\ \A o \in Q : ~Before(Key(op), Key(o)) /\ o # op
           /\ ~Before(Key(op), Key(op))
<1>1. \A o \in Q \union {op} : Key(o) \in Keys
  BY OpKeys
<1> QED BY <1>1, BeforeOrders DEF Follows

-----------------------------------------------------------------------------
(* Slots.                                                                  *)

Mentions(op, row) == \/ op.kind = "insert" /\ Id(op) = row
                     \/ op.kind = "cell" /\ op.row = row
MentionsOf(P, row) == {op \in P : Mentions(op, row)}
Mentioned(P) == {Id(op) : op \in Inserts(P)} \union CellRows(P)
MentionOrder(P) ==
    {p \in Mentioned(P) \X Mentioned(P) : Before(FirstMention(P, p[1]), FirstMention(P, p[2]))}

LEMMA MentionedBy ==
    ASSUME NEW P, NEW row
    PROVE  row \in Mentioned(P) <=> MentionsOf(P, row) # {}
BY DEF Mentioned, MentionsOf, Mentions, Inserts, CellRows

LEMMA FirstMentionIs ==
    ASSUME NEW P, Ops(P), NEW row, NEW o, IsOldest(o, MentionsOf(P, row))
    PROVE  FirstMention(P, row) = Key(o)
<1> DEFINE M == MentionsOf(P, row)
           F == {Key(op) : op \in M}
<1>1. FirstMention(P, row) = CHOOSE k \in F : \A op \in M : ~Before(Key(op), k)
  <2>1. FirstMention(P, row) = CHOOSE k \in F : \A op \in P :
            (op.kind = "insert" /\ Id(op) = row) \/ (op.kind = "cell" /\ op.row = row)
                => ~Before(Key(op), k)
    BY DEF FirstMention, MentionsOf, Mentions
  <2>2. \A k : (\A op \in P : (op.kind = "insert" /\ Id(op) = row) \/ (op.kind = "cell" /\ op.row = row)
                => ~Before(Key(op), k)) <=> (\A op \in M : ~Before(Key(op), k))
    BY DEF MentionsOf, Mentions
  <2> HIDE DEF M, F
  <2> QED BY Zenon, <2>1, <2>2
<1>2. Key(o) \in F /\ \A op \in M : ~Before(Key(op), Key(o))
  BY DEF IsOldest
<1>3. ASSUME NEW k \in F, \A op \in M : ~Before(Key(op), k)
      PROVE  k = Key(o)
  <2>1. PICK p \in M : k = Key(p)
    OBVIOUS
  <2>2. IsOldest(p, M)
    BY <1>3, <2>1 DEF IsOldest
  <2>3. M \in SUBSET P
    BY DEF MentionsOf
  <2> QED BY <2>1, <2>2, <2>3, OneOldest
<1> HIDE DEF M, F
<1> QED BY <1>1, <1>2, <1>3

LEMMA FirstMentionExists ==
    ASSUME NEW P, Ops(P), NEW row \in Mentioned(P)
    PROVE  \E o : IsOldest(o, MentionsOf(P, row))
<1>1. MentionsOf(P, row) \in SUBSET P /\ MentionsOf(P, row) # {}
  BY MentionedBy DEF MentionsOf
<1> QED BY <1>1, OldestExists

LEMMA MentionsOrdered ==
    ASSUME NEW P, Ops(P)
    PROVE  /\ Orders(MentionOrder(P), Mentioned(P))
           /\ IsFiniteSet(Mentioned(P))
           /\ \A r \in Mentioned(P) : FirstMention(P, r) \in Keys
<1> DEFINE M == Mentioned(P)
           R == MentionOrder(P)
           F(r) == FirstMention(P, r)
<1>1. \A r \in M : \E o \in P : Mentions(o, r) /\ F(r) = Key(o)
  <2> TAKE r \in M
  <2>1. PICK o : IsOldest(o, MentionsOf(P, r))
    BY FirstMentionExists
  <2>2. F(r) = Key(o)
    BY <2>1, FirstMentionIs
  <2> QED BY <2>1, <2>2 DEF IsOldest, MentionsOf
<1>2. \A r \in M : F(r) \in Keys
  BY <1>1, OpKeys
<1>3. ASSUME NEW q \in M, NEW r \in M, F(q) = F(r)
      PROVE  q = r
  <2>1. PICK o \in P : Mentions(o, q) /\ F(q) = Key(o)
    BY <1>1
  <2>2. PICK p \in P : Mentions(p, r) /\ F(r) = Key(p)
    BY <1>1
  <2>3. o = p
    BY <1>3, <2>1, <2>2, OpKeys
  <2> QED BY <2>1, <2>2, <2>3 DEF Mentions
<1>4. \A q, r \in M : <<q, r>> \in R <=> Before(F(q), F(r))
  BY DEF MentionOrder
<1>5. IsFiniteSet(M)
  <2> DEFINE f == [op \in Inserts(P) |-> Id(op)]
             g == [op \in {o \in P : o.kind = "cell"} |-> op.row]
             I == Inserts(P)
             C == {o \in P : o.kind = "cell"}
             J == {Id(op) : op \in I}
             D == CellRows(P)
  <2>1. I \in SUBSET P /\ C \in SUBSET P
    BY DEF Inserts
  <2>2. f \in Surjection(I, J) /\ g \in Surjection(C, D)
    BY DEF Surjection, CellRows
  <2> HIDE DEF f, g, I, C, J, D
  <2>3. IsFiniteSet(I) /\ IsFiniteSet(C)
    BY <2>1, OpsOrdered
  <2>4. IsFiniteSet(J) /\ IsFiniteSet(D)
    BY <2>2, <2>3, FS_Surjection
  <2>5. IsFiniteSet(J \union D)
    BY <2>4, FS_Union
  <2> QED BY <2>5 DEF J, D, I, Mentioned
<1> HIDE DEF M, R, F
<1>6. \A x \in M : <<x, x>> \notin R
  BY <1>2, <1>4, BeforeOrders
<1>7. \A x, y \in M : x = y \/ <<x, y>> \in R \/ <<y, x>> \in R
  BY <1>2, <1>3, <1>4, BeforeOrders
<1>8. ASSUME NEW x \in M, NEW y \in M, NEW z \in M, <<x, y>> \in R, <<y, z>> \in R
      PROVE  <<x, z>> \in R
  <2>1. F(x) \in Keys /\ F(y) \in Keys /\ F(z) \in Keys /\ Before(F(x), F(y)) /\ Before(F(y), F(z))
    BY <1>2, <1>4, <1>8
  <2>2. Before(F(x), F(z))
    BY <2>1, BeforeOrders
  <2> QED BY <1>4, <2>2
<1>9. Orders(R, M)
  BY <1>6, <1>7, <1>8 DEF Orders
<1> QED BY <1>2, <1>5, <1>9 DEF M, R, F

\* The rows a log mentions, in the order it first does.
SlotsOf(P) == CHOOSE t : Lists(t, Mentioned(P), MentionOrder(P))

LEMMA ListContains ==
    ASSUME NEW S, NEW R, IsFiniteSet(S), NEW t, Lists(t, S, R)
    PROVE  t \in Seq(S) /\ \A x : Contains(t, x) <=> x \in S
<1> DEFINE n == Cardinality(S)
<1>1. n \in Nat
  BY FS_CardinalityType
<1>2. t \in [1 .. n -> S] /\ \A x \in S : \E i \in 1 .. n : t[i] = x
  BY DEF Lists
<1> HIDE DEF n
<1>3. t \in Seq(S) /\ Len(t) = n
  BY <1>1, <1>2
<1>4. \A x : Contains(t, x) <=> x \in S
  BY <1>2, <1>3 DEF Contains
<1> QED BY <1>3, <1>4

LEMMA SlotsList ==
    ASSUME NEW P, Ops(P)
    PROVE  Lists(SlotsOf(P), Mentioned(P), MentionOrder(P))
BY MentionsOrdered, ListExists DEF SlotsOf

\* Rows mentioned before are mentioned first where they were.
LEMMA FirstMentionKept ==
    ASSUME NEW Q, NEW op, Ops(Q \union {op}), Follows(op, Q), NEW row \in Mentioned(Q)
    PROVE  /\ FirstMention(Q \union {op}, row) = FirstMention(Q, row)
           /\ Before(FirstMention(Q, row), Key(op))
<1> DEFINE P == Q \union {op}
<1>1. Ops(Q)
  BY OpsOrdered
<1>2. PICK o : IsOldest(o, MentionsOf(Q, row))
  BY <1>1, FirstMentionExists
<1>3. o \in Q /\ ~Before(Key(op), Key(o))
  BY <1>2, LastIsNewest DEF IsOldest, MentionsOf
<1>4. IsOldest(o, MentionsOf(P, row))
  BY <1>2, <1>3 DEF IsOldest, MentionsOf
<1>5. FirstMention(P, row) = Key(o) /\ FirstMention(Q, row) = Key(o)
  <2> HIDE DEF P
  <2>1. Ops(P)
    BY DEF P
  <2> QED BY <1>1, <1>2, <1>4, <2>1, FirstMentionIs
<1>6. Before(Key(o), Key(op))
  BY <1>3 DEF Follows
<1> QED BY <1>5, <1>6

\* What an op mentions takes the next slot, unless it has one.
LEMMA SlotsGrow ==
    ASSUME NEW Q, NEW op, Ops(Q \union {op}), Follows(op, Q), NEW row, Mentions(op, row)
    PROVE  SlotsOf(Q \union {op}) = Intern(SlotsOf(Q), row)
<1> DEFINE P == Q \union {op}
           A == Mentioned(Q)
           B == Mentioned(P)
           R == MentionOrder(Q)
           U == MentionOrder(P)
           t == SlotsOf(Q)
<1>1. Ops(Q) /\ Ops(P)
  BY OpsOrdered
<1>2. B = A \union {row}
  BY DEF Mentioned, Mentions, Inserts, CellRows
<1>3. \A q \in A : FirstMention(P, q) = FirstMention(Q, q) /\ Before(FirstMention(Q, q), Key(op))
  BY FirstMentionKept
<1>4. Lists(t, A, R) /\ IsFiniteSet(A) /\ IsFiniteSet(B) /\ Orders(U, B) /\ Lists(SlotsOf(P), B, U)
  <2> HIDE DEF P
  <2> QED BY <1>1, SlotsList, MentionsOrdered
<1>5. \A x, y \in A : <<x, y>> \in R => <<x, y>> \in U
  BY <1>2, <1>3 DEF MentionOrder
<1>6. Contains(t, row) <=> row \in A
  <2> HIDE DEF A, R, t
  <2> QED BY <1>4, ListContains
<1>7. row \notin A => FirstMention(P, row) = Key(op)
  <2> SUFFICES ASSUME row \notin A
               PROVE  FirstMention(P, row) = Key(op)
    OBVIOUS
  <2>1. MentionsOf(Q, row) = {}
    BY MentionedBy
  <2>2. MentionsOf(P, row) = {op}
    BY <2>1 DEF MentionsOf
  <2>3. IsOldest(op, MentionsOf(P, row))
    BY <2>2, LastIsNewest DEF IsOldest
  <2> HIDE DEF P
  <2> QED BY <1>1, <2>3, FirstMentionIs
<1>8. \A x \in A : row \notin A => <<x, row>> \in U
  BY <1>2, <1>3, <1>7 DEF MentionOrder
<1> HIDE DEF A, B, R, U, t, P
<1>9. Lists(t, A, U)
  BY <1>4, <1>5, ListReordered
<1>10. CASE row \in A
  <2>1. B = A
    BY <1>2, <1>10
  <2>2. SlotsOf(P) = t
    BY <1>4, <1>9, <2>1, OneList
  <2> QED BY <1>6, <1>10, <2>2 DEF Intern, P, t
<1>11. CASE row \notin A
  <2>1. Lists(Append(t, row), B, U)
    BY <1>2, <1>4, <1>8, <1>9, <1>11, ListGrowsAtEnd
  <2>2. SlotsOf(P) = Append(t, row)
    BY <1>4, <2>1, OneList
  <2> QED BY <1>6, <1>11, <2>2 DEF Intern, P, t
<1> QED BY <1>10, <1>11

\* A row the set already mentions has its slot.
LEMMA SlotsHeld ==
    ASSUME NEW P, Ops(P), NEW row \in Mentioned(P)
    PROVE  Intern(SlotsOf(P), row) = SlotsOf(P)
<1>1. Lists(SlotsOf(P), Mentioned(P), MentionOrder(P)) /\ IsFiniteSet(Mentioned(P))
  BY SlotsList, MentionsOrdered
<1>2. Contains(SlotsOf(P), row)
  BY <1>1, ListContains
<1> QED BY <1>2 DEF Intern

\* An op that mentions nothing takes no slot.
LEMMA SlotsStay ==
    ASSUME NEW Q, NEW op, Ops(Q \union {op}), Follows(op, Q), op.kind \notin {"insert", "cell"}
    PROVE  SlotsOf(Q \union {op}) = SlotsOf(Q)
<1>1. Mentioned(Q \union {op}) = Mentioned(Q)
  BY DEF Mentioned, Inserts, CellRows
<1>2. \A r \in Mentioned(Q) : FirstMention(Q \union {op}, r) = FirstMention(Q, r)
  BY FirstMentionKept
<1>3. MentionOrder(Q \union {op}) = MentionOrder(Q)
  BY <1>1, <1>2 DEF MentionOrder
<1> QED BY <1>1, <1>3 DEF SlotsOf

-----------------------------------------------------------------------------
(* What one more op changes.  It follows the others.                       *)

Life(P, row) == {op \in P : op.kind \in {"delete", "undelete"} /\ op.row = row}
Tombs(P) == {r \in {op.row : op \in P} : Dead(P, r)}

LEMMA DeadIs ==
    ASSUME NEW P, NEW row
    PROVE  Dead(P, row) <=> \E op \in Life(P, row) :
                op.kind = "delete" /\ \A o \in Life(P, row) : ~Before(Key(op), Key(o))
BY Zenon DEF Dead, Life

LEMMA InTombs ==
    ASSUME NEW P, NEW row
    PROVE  row \in Tombs(P) <=> Dead(P, row)
<1>1. Dead(P, row) => \E op \in P : op.row = row
  BY DeadIs DEF Life
<1> QED BY <1>1 DEF Tombs

LEMMA DeadKept ==
    ASSUME NEW Q, NEW op, NEW row, op.kind \notin {"delete", "undelete"} \/ op.row # row
    PROVE  Dead(Q \union {op}, row) <=> Dead(Q, row)
<1>1. Life(Q \union {op}, row) = Life(Q, row)
  BY DEF Life
<1> QED BY <1>1, DeadIs

LEMMA DeadNow ==
    ASSUME NEW Q, NEW op, Ops(Q \union {op}), Follows(op, Q), op.kind \in {"delete", "undelete"}
    PROVE  Dead(Q \union {op}, op.row) <=> op.kind = "delete"
<1> DEFINE L == Life(Q \union {op}, op.row)
<1>1. op \in L /\ \A o \in L : o \in Q \/ o = op
  BY DEF Life
<1>2. \A o \in L : ~Before(Key(op), Key(o))
  BY <1>1, LastIsNewest
<1>3. \A o \in L : o # op => Before(Key(o), Key(op))
  BY <1>1 DEF Follows
<1> HIDE DEF L
<1>4. \A o \in L : (\A p \in L : ~Before(Key(o), Key(p))) => o = op
  BY <1>1, <1>3
<1>5. Dead(Q \union {op}, op.row) <=> \E o \in L : o.kind = "delete" /\ \A p \in L : ~Before(Key(o), Key(p))
  BY DeadIs DEF L
<1> QED BY <1>1, <1>2, <1>4, <1>5

LEMMA TombsGrow ==
    ASSUME NEW Q, NEW op, Ops(Q \union {op}), Follows(op, Q)
    PROVE  Tombs(Q \union {op}) = IF op.kind = "delete" THEN Tombs(Q) \union {op.row}
                                  ELSE IF op.kind = "undelete" THEN Tombs(Q) \ {op.row}
                                  ELSE Tombs(Q)
<1> DEFINE P == Q \union {op}
<1>1. \A r : r \in Tombs(P) <=> Dead(P, r)
  BY InTombs
<1>2. \A r : r \in Tombs(Q) <=> Dead(Q, r)
  BY InTombs
<1>3. \A r : op.kind \notin {"delete", "undelete"} \/ op.row # r => (Dead(P, r) <=> Dead(Q, r))
  BY DeadKept
<1>4. op.kind \in {"delete", "undelete"} => (Dead(P, op.row) <=> op.kind = "delete")
  BY DeadNow
<1> HIDE DEF P
<1>5. CASE op.kind = "delete"
  <2>1. \A r : r \in Tombs(P) <=> r \in Tombs(Q) \/ r = op.row
    BY <1>1, <1>2, <1>3, <1>4, <1>5
  <2> QED BY <1>5, <2>1 DEF P
<1>6. CASE op.kind = "undelete"
  <2>1. \A r : r \in Tombs(P) <=> r \in Tombs(Q) /\ r # op.row
    BY <1>1, <1>2, <1>3, <1>4, <1>6
  <2> QED BY <1>6, <2>1 DEF P
<1>7. CASE op.kind \notin {"delete", "undelete"}
  <2>1. \A r : r \in Tombs(P) <=> r \in Tombs(Q)
    BY <1>1, <1>2, <1>3, <1>7
  <2> QED BY <1>7, <2>1 DEF P
<1> QED BY <1>5, <1>6, <1>7

Writes(P, row, kinds) == {op \in P : op.kind \in kinds /\ op.row = row}

LEMMA WonByIs ==
    ASSUME NEW P, Ops(P), NEW row, NEW kinds, NEW o, IsNewest(o, Writes(P, row, kinds))
    PROVE  WonBy(P, row, kinds) = o
<1> DEFINE W == Writes(P, row, kinds)
<1>1. WonBy(P, row, kinds) = CHOOSE op \in W : \A p \in W : ~Before(Key(op), Key(p))
  BY Zenon DEF WonBy, Writes
<1>2. W \in SUBSET P
  BY DEF Writes
<1> HIDE DEF W
<1>3. o \in W /\ \A p \in W : ~Before(Key(o), Key(p))
  BY DEF IsNewest, W
<1>4. \A q \in W : (\A p \in W : ~Before(Key(q), Key(p))) => q = o
  <2> TAKE q \in W
  <2> HAVE \A p \in W : ~Before(Key(q), Key(p))
  <2>1. IsNewest(q, W) /\ IsNewest(o, W)
    BY <1>3 DEF IsNewest
  <2> HIDE DEF W
  <2> QED BY ONLY <1>2, <2>1, Ops(P), OneNewest
<1> QED BY <1>1, <1>3, <1>4

LEMMA WonByNewest ==
    ASSUME NEW P, Ops(P), NEW row, NEW kinds, Writes(P, row, kinds) # {}
    PROVE  IsNewest(WonBy(P, row, kinds), Writes(P, row, kinds))
<1>1. Writes(P, row, kinds) \in SUBSET P
  BY DEF Writes
<1>2. PICK o : IsNewest(o, Writes(P, row, kinds))
  BY <1>1, NewestExists
<1> QED BY <1>2, WonByIs

LEMMA WonByGrows ==
    ASSUME NEW Q, NEW op, Ops(Q \union {op}), Follows(op, Q), NEW row, NEW kinds
    PROVE  WonBy(Q \union {op}, row, kinds) =
               IF op.kind \in kinds /\ op.row = row THEN op ELSE WonBy(Q, row, kinds)
<1> DEFINE P == Q \union {op}
<1>1. CASE op.kind \in kinds /\ op.row = row
  <2>1. IsNewest(op, Writes(P, row, kinds))
    BY <1>1, LastIsNewest DEF IsNewest, Writes
  <2> HIDE DEF P
  <2>2. Ops(P)
    BY DEF P
  <2>3. WonBy(P, row, kinds) = op
    BY <2>1, <2>2, WonByIs
  <2> QED BY <1>1, <2>3 DEF P
<1>2. CASE ~(op.kind \in kinds /\ op.row = row)
  <2>1. Writes(P, row, kinds) = Writes(Q, row, kinds)
    BY <1>2 DEF Writes
  <2>2. WonBy(P, row, kinds) = WonBy(Q, row, kinds)
    BY Zenon, <2>1 DEF WonBy, Writes
  <2> QED BY <1>2, <2>2
<1> QED BY <1>1, <1>2

\* The register of a cell that some formula names.
Held(P, row) ==
    IF CellOps(P, row) = {} THEN [key |-> Floor, text |-> Blank]
    ELSE LET w == WonBy(P, row, {"cell", "formula"})
         IN [key |-> Key(w), text |-> IF w.kind = "formula" THEN w.val ELSE Blank]

LEMMA FloorBefore ==
    ASSUME NEW k \in Keys, IdOf(k) # Root
    PROVE  Before(Floor, k)
BY DEF Before, Floor, IdOf, Root, Keys

LEMMA HeldGrows ==
    ASSUME NEW Q, NEW op, Good(Q \union {op}), Follows(op, Q), NEW row
    PROVE  /\ Held(Q \union {op}, row) =
                  IF op.kind \in {"cell", "formula"} /\ op.row = row
                  THEN [key |-> Key(op), text |-> IF op.kind = "formula" THEN op.val ELSE Blank]
                  ELSE Held(Q, row)
           /\ Before(Held(Q, row).key, Key(op))
<1> DEFINE P == Q \union {op}
           kinds == {"cell", "formula"}
           w == WonBy(Q, row, kinds)
<1>1. Ops(P) /\ Ops(Q) /\ Key(op) \in Keys /\ IdOf(Key(op)) # Root
  BY OpsOrdered, OpKeys, IdOfKey DEF Good
<1>2. WonBy(P, row, kinds) = IF op.kind \in kinds /\ op.row = row THEN op ELSE w
  BY <1>1, WonByGrows
<1>3. ASSUME op.kind \in kinds /\ op.row = row
      PROVE  Held(P, row) = [key |-> Key(op), text |-> IF op.kind = "formula" THEN op.val ELSE Blank]
  <2>1. CellOps(P, row) # {}
    BY <1>3 DEF CellOps
  <2> HIDE DEF P
  <2>2. Held(P, row) = LET v == WonBy(P, row, {"cell", "formula"})
         IN [key |-> Key(v), text |-> IF v.kind = "formula" THEN v.val ELSE Blank]
    BY Zenon, <2>1 DEF Held
  <2> QED BY <1>2, <1>3, <2>2
<1>4. ASSUME ~(op.kind \in kinds /\ op.row = row)
      PROVE  Held(P, row) = Held(Q, row)
  <2>1. CellOps(P, row) = CellOps(Q, row)
    BY <1>4 DEF CellOps
  <2> QED BY Zenon, <1>2, <1>4, <2>1 DEF Held
<1>5. Before(Held(Q, row).key, Key(op))
  <2>1. CASE CellOps(Q, row) = {}
    BY <1>1, <2>1, FloorBefore DEF Held
  <2>2. CASE CellOps(Q, row) # {}
    <3>1. Writes(Q, row, kinds) # {}
      BY <2>2 DEF CellOps, Writes
    <3>2. IsNewest(w, Writes(Q, row, kinds))
      BY <1>1, <3>1, WonByNewest
    <3>3. Before(Key(w), Key(op))
      BY <3>2 DEF IsNewest, Writes, Follows
    <3> QED BY <2>2, <3>3 DEF Held
  <2> QED BY <2>1, <2>2
<1> QED BY <1>3, <1>4, <1>5

\* The newest key.
TipOf(P) == GreatestKey({Key(op) : op \in P})

LEMMA TipIs ==
    ASSUME NEW P, Ops(P), NEW o, IsNewest(o, P)
    PROVE  TipOf(P) = Key(o)
<1> DEFINE K == {Key(op) : op \in P}
<1>1. Key(o) \in K /\ \A l \in K : ~Before(Key(o), l)
  BY DEF IsNewest
<1>2. ASSUME NEW k \in K, \A l \in K : ~Before(k, l)
      PROVE  k = Key(o)
  <2>1. PICK p \in P : k = Key(p)
    OBVIOUS
  <2>2. IsNewest(p, P) /\ P \in SUBSET P
    BY <1>2, <2>1 DEF IsNewest
  <2>3. p = o
    BY <2>2, OneNewest
  <2> QED BY <2>1, <2>3
<1> HIDE DEF K
<1>3. K # {} /\ GreatestKey(K) = Key(o)
  BY <1>1, <1>2 DEF GreatestKey
<1> QED BY <1>3 DEF TipOf, K

LEMMA TipGrows ==
    ASSUME NEW Q, NEW op, Ops(Q \union {op}), Follows(op, Q)
    PROVE  TipOf(Q \union {op}) = Key(op)
<1>1. IsNewest(op, Q \union {op})
  BY LastIsNewest DEF IsNewest
<1> DEFINE P == Q \union {op}
<1> HIDE DEF P
<1> QED BY <1>1, TipIs DEF P

LEMMA TipOfNone == TipOf({}) = Floor
BY DEF TipOf, GreatestKey

\* The tip is at or after everything.
LEMMA TipCovers ==
    ASSUME NEW P, Good(P)
    PROVE  /\ TipOf(P) \in Keys
           /\ \A o \in P : Key(o) = TipOf(P) \/ Before(Key(o), TipOf(P))
<1>0. Ops(P)
  BY DEF Good
<1>1. CASE P = {}
  <2>1. Floor \in Keys
    BY DEF Floor, Keys
  <2> QED BY <1>1, <2>1, TipOfNone
<1>2. CASE P # {}
  <2>1. PICK n : IsNewest(n, P)
    BY <1>0, <1>2, NewestExists
  <2>2. TipOf(P) = Key(n)
    BY <1>0, <2>1, TipIs
  <2>3. n \in P /\ \A o \in P : ~Before(Key(n), Key(o)) /\ Key(o) \in Keys
    BY <1>0, <2>1, OpKeys DEF IsNewest
  <2> QED BY <2>2, <2>3, BeforeOrders
<1> QED BY <1>1, <1>2

-----------------------------------------------------------------------------
(* Losers.                                                                 *)

Written(op) == [key |-> Key(op), val |-> op.val]
LatestOwn(o, W) == \A p \in W : p.actor = o.actor => ~Before(Key(o), Key(p))

LEMMA RefLosersAre ==
    ASSUME NEW P, NEW row
    PROVE  RefLosers(P, row) =
             {Written(o) : o \in {p \in CellWrites(P, row) :
                                     /\ p.actor # WonBy(P, row, {"cell"}).actor
                                     /\ LatestOwn(p, CellWrites(P, row))}}
BY Zenon DEF RefLosers, Written, LatestOwn

LEMMA WritesAre == \A P, row : CellWrites(P, row) = Writes(P, row, {"cell"})
BY DEF CellWrites, Writes

\* A first write has beaten nobody.
LEMMA FirstWriteLosers ==
    ASSUME NEW Q, NEW op, Ops(Q \union {op}), Follows(op, Q), op.kind = "cell",
           CellWrites(Q, op.row) = {}
    PROVE  RefLosers(Q \union {op}, op.row) = {}
<1> DEFINE P == Q \union {op}
<1>1. CellWrites(P, op.row) = {op}
  BY DEF CellWrites
<1>2. WonBy(P, op.row, {"cell"}) = op
  BY WonByGrows
<1> HIDE DEF P
<1>3. RefLosers(P, op.row) =
        {Written(o) : o \in {p \in {op} : p.actor # op.actor /\ LatestOwn(p, {op})}}
  BY <1>1, <1>2, RefLosersAre
<1>4. {p \in {op} : p.actor # op.actor /\ LatestOwn(p, {op})} = {}
  OBVIOUS
<1>5. {Written(o) : o \in {}} = {}
  OBVIOUS
<1> QED BY <1>3, <1>4, <1>5 DEF P

\* A later write beats the winner; whoever else is kept stays.
LEMMA LaterWriteLosers ==
    ASSUME NEW Q, NEW op, Ops(Q \union {op}), Follows(op, Q), op.kind = "cell",
           CellWrites(Q, op.row) # {}
    PROVE  RefLosers(Q \union {op}, op.row) =
             RetainConcurrent(RefLosers(Q, op.row) \union {Written(WonBy(Q, op.row, {"cell"}))},
                              op.actor)
<1> DEFINE P == Q \union {op}
           row == op.row
           W == CellWrites(Q, row)
           V == CellWrites(P, row)
           w == WonBy(Q, row, {"cell"})
           L == RefLosers(Q, row) \union {Written(w)}
<1>1. Ops(Q) /\ V = W \union {op} /\ W \in SUBSET Q
  BY OpsOrdered DEF CellWrites
<1>2. WonBy(P, row, {"cell"}) = op
  BY WonByGrows
<1>3. IsNewest(w, W)
  BY <1>1, WritesAre, WonByNewest
<1>4. /\ \A o \in W : Key(o) \in Keys
      /\ \A o, p \in W : Key(o) = Key(p) => o = p
  BY <1>1, OpKeys
<1>5. \A o \in W : Written(o).key = Key(o) /\ Written(o).key[2] = o.actor
  BY DEF Written, Key
<1>6. w \in W /\ LatestOwn(w, W)
  BY <1>3 DEF IsNewest, LatestOwn
<1>7. \A o \in W : o.actor = w.actor /\ LatestOwn(o, W) => o = w
  <2> SUFFICES ASSUME NEW o \in W, o.actor = w.actor, LatestOwn(o, W)
               PROVE  o = w
    OBVIOUS
  <2>1. ~Before(Key(o), Key(w)) /\ ~Before(Key(w), Key(o))
    BY <1>3, <1>6 DEF LatestOwn, IsNewest
  <2> QED BY <1>4, <1>6, <2>1, BeforeOrders
<1>8. RefLosers(Q, row) = {Written(o) : o \in {p \in W : p.actor # w.actor /\ LatestOwn(p, W)}}
  BY RefLosersAre
<1>9. RefLosers(P, row) = {Written(o) : o \in {p \in V : p.actor # op.actor /\ LatestOwn(p, V)}}
  BY <1>2, RefLosersAre
<1>10. \A p \in V : p.actor # op.actor /\ LatestOwn(p, V) <=> p \in W /\ p.actor # op.actor /\ LatestOwn(p, W)
  BY <1>1 DEF LatestOwn
<1> HIDE DEF W, V, w, L, P
<1>11. L = {Written(o) : o \in {p \in W : LatestOwn(p, W)}}
  <2>1. \A o \in W : LatestOwn(o, W) => (o.actor # w.actor \/ o = w)
    BY <1>7
  <2> QED BY <1>6, <1>8, <2>1 DEF L
<1>12. RetainConcurrent(L, op.actor) = {l \in L : l.key[2] # op.actor}
  <2> SUFFICES ASSUME NEW l \in L, NEW m \in L, m.key[2] = l.key[2]
               PROVE  ~Before(l.key, m.key)
    BY DEF RetainConcurrent
  <2>1. PICK o \in W : l = Written(o) /\ LatestOwn(o, W)
    BY <1>11
  <2>2. PICK p \in W : m = Written(p) /\ LatestOwn(p, W)
    BY <1>11
  <2> QED BY <1>5, <2>1, <2>2 DEF LatestOwn
<1>13. {l \in L : l.key[2] # op.actor} = {Written(o) : o \in {p \in W : p.actor # op.actor /\ LatestOwn(p, W)}}
  BY <1>5, <1>11
<1>14. {p \in V : p.actor # op.actor /\ LatestOwn(p, V)} = {p \in W : p.actor # op.actor /\ LatestOwn(p, W)}
  BY <1>1, <1>10
<1>15. RefLosers(P, row) = RetainConcurrent(L, op.actor)
  BY <1>9, <1>12, <1>13, <1>14
<1> QED BY <1>15 DEF P, L, w

\* Losers of other cells stay.
LEMMA OtherLosers ==
    ASSUME NEW Q, NEW op, Ops(Q \union {op}), Follows(op, Q), NEW row,
           op.kind # "cell" \/ op.row # row
    PROVE  RefLosers(Q \union {op}, row) = RefLosers(Q, row)
<1> DEFINE P == Q \union {op}
<1>1. CellWrites(P, row) = CellWrites(Q, row)
  BY DEF CellWrites
<1>2. WonBy(P, row, {"cell"}) = WonBy(Q, row, {"cell"})
  BY WonByGrows
<1> HIDE DEF P
<1>3. RefLosers(P, row) = RefLosers(Q, row)
  BY <1>1, <1>2, RefLosersAre
<1> QED BY <1>3 DEF P

-----------------------------------------------------------------------------
(* The state that holds what some ops say.                                 *)

ValueOf(P) == [r \in CellRows(P) |-> WonBy(P, r, {"cell"}).val]
StampOf(P, r) == [key |-> Key(WonBy(P, r, {"cell"})), losers |-> RefLosers(P, r)]
MetaOf(P, C) == [r \in CellRows(P) \cap C |-> StampOf(P, r)]
FormulasOf(P, F) == [r \in F |-> Held(P, r)]
WritersOf(P) == {op.actor : op \in {o \in P : o.kind = "cell"}}

\* Slots, contested cells and seeded formulas are as the path there left them.
Meaning(P, slots, C, F, folded) ==
    [tree |-> TreeOf(P), tombs |-> Tombs(P), slots |-> slots, contested |-> C,
     value |-> ValueOf(P), meta |-> MetaOf(P, C), formulas |-> FormulasOf(P, F),
     tip |-> TipOf(P), folded |-> folded, writers |-> WritersOf(P)]

LEMMA CellRowsGrow ==
    ASSUME NEW Q, NEW op
    PROVE  CellRows(Q \union {op}) = IF op.kind = "cell" THEN CellRows(Q) \union {op.row} ELSE CellRows(Q)
BY DEF CellRows

LEMMA InCellRows ==
    ASSUME NEW Q, NEW row
    PROVE  row \in CellRows(Q) <=> CellWrites(Q, row) # {}
BY DEF CellRows, CellWrites

LEMMA ValueGrows ==
    ASSUME NEW Q, NEW op, Ops(Q \union {op}), Follows(op, Q)
    PROVE  ValueOf(Q \union {op}) =
               IF op.kind = "cell" THEN Put(ValueOf(Q), op.row, op.val) ELSE ValueOf(Q)
<1> DEFINE P == Q \union {op}
           D == CellRows(Q)
           E == CellRows(P)
           v(r) == WonBy(Q, r, {"cell"}).val
           u(r) == WonBy(P, r, {"cell"}).val
<1>1. \A r : u(r) = IF op.kind = "cell" /\ op.row = r THEN op.val ELSE v(r)
  BY WonByGrows
<1>2. E = IF op.kind = "cell" THEN D \union {op.row} ELSE D
  BY CellRowsGrow
<1>3. ValueOf(P) = [r \in E |-> u(r)] /\ ValueOf(Q) = [r \in D |-> v(r)]
  BY DEF ValueOf
<1> HIDE DEF P, D, E, u, v
<1>4. CASE op.kind = "cell"
  BY <1>1, <1>2, <1>3, <1>4 DEF Put, P
<1>5. CASE op.kind # "cell"
  BY <1>1, <1>2, <1>3, <1>5 DEF P
<1> QED BY <1>4, <1>5

\* A write to a contested cell stamps it, or beats the stamp it has.
Beaten(meta, value, op) ==
    [key |-> Key(op),
     losers |-> RetainConcurrent(meta[op.row].losers \union
                                     {[key |-> meta[op.row].key, val |-> value[op.row]]},
                                 op.actor)]

LEMMA StampKept ==
    ASSUME NEW Q, NEW op, Ops(Q \union {op}), Follows(op, Q), NEW r, op.kind # "cell" \/ op.row # r
    PROVE  StampOf(Q \union {op}, r) = StampOf(Q, r)
<1>1. WonBy(Q \union {op}, r, {"cell"}) = WonBy(Q, r, {"cell"})
  BY WonByGrows
<1>2. RefLosers(Q \union {op}, r) = RefLosers(Q, r)
  BY OtherLosers
<1> QED BY <1>1, <1>2 DEF StampOf

LEMMA StampFirst ==
    ASSUME NEW Q, NEW op, Ops(Q \union {op}), Follows(op, Q), op.kind = "cell",
           op.row \notin CellRows(Q)
    PROVE  StampOf(Q \union {op}, op.row) = [key |-> Key(op), losers |-> {}]
<1>1. WonBy(Q \union {op}, op.row, {"cell"}) = op
  BY WonByGrows
<1>2. RefLosers(Q \union {op}, op.row) = {}
  BY InCellRows, FirstWriteLosers
<1> QED BY <1>1, <1>2 DEF StampOf

LEMMA StampBeaten ==
    ASSUME NEW Q, NEW op, Ops(Q \union {op}), Follows(op, Q), op.kind = "cell", NEW C,
           op.row \in CellRows(Q) \cap C
    PROVE  StampOf(Q \union {op}, op.row) = Beaten(MetaOf(Q, C), ValueOf(Q), op)
<1> DEFINE P == Q \union {op}
           r == op.row
           w == WonBy(Q, r, {"cell"})
<1>1. WonBy(P, r, {"cell"}) = op
  BY WonByGrows
<1>2. CellWrites(Q, r) # {}
  BY InCellRows
<1>3. RefLosers(P, r) = RetainConcurrent(RefLosers(Q, r) \union {Written(w)}, op.actor)
  BY <1>2, LaterWriteLosers
<1>4. MetaOf(Q, C)[r] = [key |-> Key(w), losers |-> RefLosers(Q, r)] /\ ValueOf(Q)[r] = w.val
  BY DEF MetaOf, ValueOf, StampOf
<1>5. Written(w) = [key |-> Key(w), val |-> w.val]
  BY DEF Written
<1> HIDE DEF P, w
<1> QED BY <1>1, <1>3, <1>4, <1>5 DEF StampOf, Beaten, P

LEMMA MetaGrows ==
    ASSUME NEW Q, NEW op, Ops(Q \union {op}), Follows(op, Q), NEW C
    PROVE  MetaOf(Q \union {op}, C) =
               IF op.kind # "cell" \/ op.row \notin C THEN MetaOf(Q, C)
               ELSE Put(MetaOf(Q, C), op.row,
                        IF op.row \in CellRows(Q) THEN Beaten(MetaOf(Q, C), ValueOf(Q), op)
                                                  ELSE [key |-> Key(op), losers |-> {}])
<1> DEFINE P == Q \union {op}
           D == CellRows(Q)
           E == CellRows(P)
           s(r) == StampOf(Q, r)
           t(r) == StampOf(P, r)
           b == Beaten(MetaOf(Q, C), ValueOf(Q), op)
           z == [key |-> Key(op), losers |-> {}]
           M == MetaOf(Q, C)
<1>1. \A r : op.kind # "cell" \/ op.row # r => t(r) = s(r)
  BY StampKept
<1>2. op.kind = "cell" /\ op.row \notin D => t(op.row) = z
  BY StampFirst
<1>3. op.kind = "cell" /\ op.row \in D \cap C => t(op.row) = b
  BY StampBeaten
<1>4. E = IF op.kind = "cell" THEN D \union {op.row} ELSE D
  BY CellRowsGrow
<1>5. MetaOf(P, C) = [r \in E \cap C |-> t(r)] /\ M = [r \in D \cap C |-> s(r)]
  BY DEF MetaOf
<1> HIDE DEF P, D, E, s, t, b, z, M
<1>6. CASE op.kind # "cell"
  BY <1>1, <1>4, <1>5, <1>6 DEF P, M
<1>7. CASE op.kind = "cell" /\ op.row \notin C
  <2>1. E \cap C = D \cap C /\ \A r \in D \cap C : t(r) = s(r)
    BY <1>1, <1>4, <1>7
  <2> QED BY <1>5, <1>7, <2>1 DEF P, M
<1>8. CASE op.kind = "cell" /\ op.row \in C
  <2> DEFINE y == IF op.row \in D THEN b ELSE z
  <2>1. t(op.row) = y /\ \A r \in E \cap C : r # op.row => t(r) = s(r) /\ r \in D \cap C
    BY <1>1, <1>2, <1>3, <1>4, <1>8
  <2>2. E \cap C = (D \cap C) \union {op.row}
    BY <1>4, <1>8
  <2> HIDE DEF y
  <2>3. MetaOf(P, C) = Put(M, op.row, y)
    BY <1>5, <2>1, <2>2 DEF Put
  <2> QED BY <1>8, <2>3 DEF P, M, y, b, z, D
<1> QED BY <1>6, <1>7, <1>8

LEMMA FormulasGrow ==
    ASSUME NEW Q, NEW op, Good(Q \union {op}), Follows(op, Q), NEW F,
           op.kind = "formula" => op.row \in F
    PROVE  FormulasOf(Q \union {op}, F) =
               IF op.kind \in {"cell", "formula"} /\ op.row \in F
               THEN Put(FormulasOf(Q, F), op.row,
                        [key |-> Key(op), text |-> IF op.kind = "formula" THEN op.val ELSE Blank])
               ELSE FormulasOf(Q, F)
<1> DEFINE P == Q \union {op}
           h(r) == Held(Q, r)
           k(r) == Held(P, r)
           y == [key |-> Key(op), text |-> IF op.kind = "formula" THEN op.val ELSE Blank]
<1>1. \A r : k(r) = IF op.kind \in {"cell", "formula"} /\ op.row = r THEN y ELSE h(r)
  BY HeldGrows
<1>2. FormulasOf(P, F) = [r \in F |-> k(r)] /\ FormulasOf(Q, F) = [r \in F |-> h(r)]
  BY DEF FormulasOf
<1> HIDE DEF P, h, k, y
<1>3. CASE op.kind \in {"cell", "formula"} /\ op.row \in F
  <2>1. FormulasOf(P, F) = Put(FormulasOf(Q, F), op.row, y)
    BY <1>1, <1>2, <1>3 DEF Put
  <2> QED BY <1>3, <2>1 DEF P, y
<1>4. CASE ~(op.kind \in {"cell", "formula"} /\ op.row \in F)
  <2>1. \A r \in F : k(r) = h(r)
    BY <1>1, <1>4
  <2> QED BY <1>2, <1>4, <2>1 DEF P
<1> QED BY <1>3, <1>4

LEMMA TipBelow ==
    ASSUME NEW Q, NEW op, Good(Q \union {op}), Follows(op, Q)
    PROVE  Before(TipOf(Q), Key(op))
<1>1. Good(Q) /\ Ops(Q) /\ Key(op) \in Keys /\ IdOf(Key(op)) # Root
  BY GoodSubset, OpKeys, IdOfKey DEF Good
<1>2. CASE Q = {}
  BY <1>1, <1>2, TipOfNone, FloorBefore
<1>3. CASE Q # {}
  <2>1. PICK n : IsNewest(n, Q)
    BY <1>1, <1>3, NewestExists
  <2>2. TipOf(Q) = Key(n) /\ n \in Q
    BY <1>1, <2>1, TipIs DEF IsNewest
  <2> QED BY <2>2 DEF Follows
<1> QED BY <1>2, <1>3

LEMMA TreeGrows ==
    ASSUME NEW Q, NEW op
    PROVE  TreeOf(Q \union {op}) = IF op.kind = "insert"
                                   THEN TreeOf(Q) \union {[anchor |-> op.row, key |-> Key(op)]}
                                   ELSE TreeOf(Q)
BY DEF TreeOf, Inserts, Leaf

LEMMA WritersGrow ==
    ASSUME NEW Q, NEW op
    PROVE  WritersOf(Q \union {op}) = IF op.kind = "cell" THEN WritersOf(Q) \union {op.actor}
                                      ELSE WritersOf(Q)
BY DEF WritersOf

-----------------------------------------------------------------------------
(* Applying one op that follows.                                           *)

\* The record with these fields.
Fields(tree, tombs, slots, C, value, meta, formulas, tip, folded, writers) ==
    [tree |-> tree, tombs |-> tombs, slots |-> slots, contested |-> C,
     value |-> value, meta |-> meta, formulas |-> formulas,
     tip |-> tip, folded |-> folded, writers |-> writers]

LEMMA NoteFields ==
    ASSUME NEW A, NEW T, NEW z, NEW C, NEW v, NEW m, NEW f, NEW t, NEW d, NEW w, NEW op,
           Before(t, Key(op)), NEW u, u = IF op.kind = "cell" THEN w \union {op.actor} ELSE w
    PROVE  Note(Fields(A, T, z, C, v, m, f, t, d, w), op) = Fields(A, T, z, C, v, m, f, Key(op), d, u)
<1> DEFINE s == Fields(A, T, z, C, v, m, f, t, d, w)
<1>1. s.tip = t /\ s.writers = w
  BY DEF Fields
<1>2. Note(s, op) = [s EXCEPT !.tip = Key(op), !.writers = u]
  <2> HIDE DEF s
  <2> QED BY Zenon, <1>1 DEF Note
<1>3. [s EXCEPT !.tip = Key(op)] = Fields(A, T, z, C, v, m, f, Key(op), d, w)
  BY DEF Fields
<1>4. [Fields(A, T, z, C, v, m, f, Key(op), d, w) EXCEPT !.writers = u]
        = Fields(A, T, z, C, v, m, f, Key(op), d, u)
  BY DEF Fields
<1> HIDE DEF s
<1>5. [s EXCEPT !.tip = Key(op), !.writers = u] = [[s EXCEPT !.tip = Key(op)] EXCEPT !.writers = u]
  OBVIOUS
<1> QED BY <1>2, <1>3, <1>4, <1>5 DEF s

LEMMA RegisterFields ==
    ASSUME NEW A, NEW T, NEW z, NEW C, NEW v, NEW m, NEW f, NEW t, NEW d, NEW w, NEW op, NEW text,
           f = [r \in DOMAIN f |-> f[r]],
           op.row \in DOMAIN f => Before(f[op.row].key, Key(op))
    PROVE  Register(Fields(A, T, z, C, v, m, f, t, d, w), op, text) =
             Fields(A, T, z, C, v, m,
                    IF op.row \in DOMAIN f THEN Put(f, op.row, [key |-> Key(op), text |-> text]) ELSE f,
                    t, d, w)
<1> DEFINE y == [key |-> Key(op), text |-> text]
<1>1. op.row \in DOMAIN f => [f EXCEPT ![op.row] = y] = Put(f, op.row, y)
  BY DEF Put
<1>2. Fields(A, T, z, C, v, m, f, t, d, w).formulas = f
  BY DEF Fields
<1>3. op.row \in DOMAIN f =>
        [Fields(A, T, z, C, v, m, f, t, d, w) EXCEPT !.formulas[op.row] = y] =
            Fields(A, T, z, C, v, m, [f EXCEPT ![op.row] = y], t, d, w)
  BY DEF Fields
<1> QED BY <1>1, <1>2, <1>3 DEF Register

LEMMA SeedFields ==
    ASSUME NEW A, NEW T, NEW z, NEW C, NEW v, NEW m, NEW f, NEW t, NEW d, NEW w, NEW row
    PROVE  Seed(Fields(A, T, z, C, v, m, f, t, d, w), row) =
             Fields(A, T, z, C, v, m,
                    IF row \in DOMAIN f THEN f ELSE Put(f, row, [key |-> Floor, text |-> Blank]),
                    t, d, w)
BY DEF Seed, Fields

\* k is meta with the stamp of op.
Stamped(v, m, C, op, k) ==
    /\ v = [r \in DOMAIN v |-> v[r]] /\ m = [r \in DOMAIN m |-> m[r]]
    /\ DOMAIN m = DOMAIN v \cap C
    /\ op.row \in DOMAIN m => /\ Before(m[op.row].key, Key(op))
                              /\ m[op.row] = [key |-> m[op.row].key, losers |-> m[op.row].losers]
    /\ k = IF op.row \notin C THEN m
           ELSE Put(m, op.row, IF op.row \in DOMAIN v THEN Beaten(m, v, op)
                                                      ELSE [key |-> Key(op), losers |-> {}])

\* A write is contested nowhere, first, or later.
LEMMA WriteFields ==
    ASSUME NEW A, NEW T, NEW z, NEW C, NEW v, NEW m, NEW f, NEW t, NEW d, NEW w, NEW op,
           NEW k, Stamped(v, m, C, op, k)
    PROVE  WriteCell(Fields(A, T, z, C, v, m, f, t, d, w), op) =
             Fields(A, T, Intern(z, op.row), C, Put(v, op.row, op.val), k, f, t, d, w)
<1> DEFINE r == op.row
           s == Fields(A, T, z, C, v, m, f, t, d, w)
           x == Fields(A, T, Intern(z, r), C, v, m, f, t, d, w)
<1>0. /\ v = [q \in DOMAIN v |-> v[q]] /\ m = [q \in DOMAIN m |-> m[q]]
      /\ DOMAIN m = DOMAIN v \cap C
      /\ r \in DOMAIN m => /\ Before(m[r].key, Key(op))
                           /\ m[r] = [key |-> m[r].key, losers |-> m[r].losers]
      /\ k = IF r \notin C THEN m
             ELSE Put(m, r, IF r \in DOMAIN v THEN Beaten(m, v, op)
                                              ELSE [key |-> Key(op), losers |-> {}])
  BY DEF Stamped
<1>1. [s EXCEPT !.slots = Intern(@, r)] = x
  BY DEF Fields
<1>2. s.contested = C /\ s.meta = m
  BY DEF Fields
<1>3. Overwrite(x, op) = Fields(A, T, Intern(z, r), C, Put(v, r, op.val), m, f, t, d, w)
  BY DEF Overwrite, Fields
<1>4. Stamp(x, op) = Fields(A, T, Intern(z, r), C, Put(v, r, op.val),
                            Put(m, r, [key |-> Key(op), losers |-> {}]), f, t, d, w)
  BY <1>3 DEF Stamp, Fields
<1>5. ASSUME r \in DOMAIN m
      PROVE  Contend(x, op) = Fields(A, T, Intern(z, r), C, Put(v, r, op.val),
                                     Put(m, r, Beaten(m, v, op)), f, t, d, w)
  <2> DEFINE mine == [key |-> Key(op), val |-> op.val]
             held == [key |-> m[r].key, val |-> v[r]]
             b == Beaten(m, v, op)
  <2>1. x.meta = m /\ x.value = v
    BY DEF Fields
  <2>2. Key(op)[2] = op.actor
    BY DEF Key
  <2>3. b = [key |-> mine.key, losers |-> RetainConcurrent(m[r].losers \union {held}, mine.key[2])]
    BY <2>2 DEF Beaten
  <2>4. Contend(x, op) = [x EXCEPT !.value[r] = op.val, !.meta[r] = b]
    <3>1. Contend(x, op) =
            [x EXCEPT !.value[r] = mine.val,
                      !.meta[r] = [key |-> mine.key,
                                   losers |-> RetainConcurrent(m[r].losers \union {held}, mine.key[2])]]
      BY Zenon, <1>0, <1>5, <2>1 DEF Contend
    <3>2. mine.val = op.val
      OBVIOUS
    <3> HIDE DEF b, mine, held, x
    <3> QED BY <2>3, <3>1, <3>2
  <2>5. ASSUME NEW y
        PROVE  [x EXCEPT !.value[r] = op.val, !.meta[r] = y]
                  = Fields(A, T, Intern(z, r), C, [v EXCEPT ![r] = op.val], [m EXCEPT ![r] = y], f, t, d, w)
    <3> DEFINE u == [v EXCEPT ![r] = op.val]
    <3>1. [x EXCEPT !.value[r] = op.val] = Fields(A, T, Intern(z, r), C, u, m, f, t, d, w)
      BY DEF Fields
    <3> HIDE DEF u
    <3>2. [Fields(A, T, Intern(z, r), C, u, m, f, t, d, w) EXCEPT !.meta[r] = y]
            = Fields(A, T, Intern(z, r), C, u, [m EXCEPT ![r] = y], f, t, d, w)
      BY DEF Fields
    <3> HIDE DEF x
    <3>3. [x EXCEPT !.value[r] = op.val, !.meta[r] = y] = [[x EXCEPT !.value[r] = op.val] EXCEPT !.meta[r] = y]
      OBVIOUS
    <3> QED BY <3>1, <3>2, <3>3 DEF u
  <2>6. r \in DOMAIN v
    BY <1>0, <1>5
  <2>7. [v EXCEPT ![r] = op.val] = Put(v, r, op.val) /\ [m EXCEPT ![r] = b] = Put(m, r, b)
    <3> HIDE DEF b
    <3> QED BY <1>0, <1>5, <2>6 DEF Put
  <2> HIDE DEF b, x
  <2> QED BY <2>4, <2>5, <2>7 DEF b
<1> HIDE DEF s, x
<1>6. WriteCell(s, op) = IF r \notin C THEN Overwrite(x, op)
                         ELSE IF r \in DOMAIN m THEN Contend(x, op) ELSE Stamp(x, op)
  <2>1. x.contested = C /\ x.meta = m
    BY DEF x, Fields
  <2> QED BY Zenon, <1>1, <1>2, <2>1 DEF WriteCell
<1>7. CASE r \notin C
  BY <1>0, <1>3, <1>6, <1>7 DEF s
<1>8. CASE r \in C /\ r \in DOMAIN m
  <2>1. r \in DOMAIN v
    BY <1>0, <1>8
  <2> QED BY <1>0, <1>5, <1>6, <1>8, <2>1 DEF s
<1>9. CASE r \in C /\ r \notin DOMAIN m
  <2>1. r \notin DOMAIN v
    BY <1>0, <1>9
  <2> QED BY <1>0, <1>4, <1>6, <1>9, <2>1 DEF s
<1> QED BY <1>7, <1>8, <1>9

LEMMA FormulaFields ==
    ASSUME NEW A, NEW T, NEW z, NEW C, NEW v, NEW m, NEW f, NEW t, NEW d, NEW w, NEW op,
           f = [r \in DOMAIN f |-> f[r]],
           op.row \in DOMAIN f => Before(f[op.row].key, Key(op)),
           Before(Floor, Key(op))
    PROVE  SetFormula(Fields(A, T, z, C, v, m, f, t, d, w), op) =
             Fields(A, T, z, C, v, m, Put(f, op.row, [key |-> Key(op), text |-> op.val]), t, d, w)
<1> DEFINE r == op.row
           y == [key |-> Key(op), text |-> op.val]
           g == IF r \in DOMAIN f THEN f ELSE Put(f, r, [key |-> Floor, text |-> Blank])
<1>1. Seed(Fields(A, T, z, C, v, m, f, t, d, w), r) = Fields(A, T, z, C, v, m, g, t, d, w)
  BY SeedFields
<1>2. g = [q \in DOMAIN g |-> g[q]] /\ r \in DOMAIN g /\ Before(g[r].key, Key(op))
  <2>1. CASE r \in DOMAIN f
    BY <2>1
  <2>2. CASE r \notin DOMAIN f
    <3>1. g = [q \in DOMAIN f \union {r} |-> IF q = r THEN [key |-> Floor, text |-> Blank] ELSE f[q]]
      BY <2>2 DEF Put
    <3> HIDE DEF g
    <3>2. g[r] = [key |-> Floor, text |-> Blank] /\ r \in DOMAIN g /\ g = [q \in DOMAIN g |-> g[q]]
      BY <3>1
    <3> QED BY <3>2
  <2> QED BY <2>1, <2>2
<1>3. Put(g, r, y) = Put(f, r, y)
  BY DEF Put
<1> HIDE DEF g
<1>4. Register(Fields(A, T, z, C, v, m, g, t, d, w), op, op.val) =
        Fields(A, T, z, C, v, m, Put(g, r, y), t, d, w)
  BY <1>2, RegisterFields
<1> QED BY <1>1, <1>3, <1>4 DEF SetFormula

\* Slots and seeded formulas once op is applied.
StepSlots(slots, op) ==
    IF op.kind = "insert" THEN Intern(slots, Id(op))
    ELSE IF op.kind = "cell" THEN Intern(slots, op.row) ELSE slots
StepRows(F, op) == IF op.kind = "formula" THEN F \union {op.row} ELSE F

\* The same, with a tip and writers of its own: what apply_tip looks at.
Recalls(P, slots, C, F, folded, tip, writers) ==
    [tree |-> TreeOf(P), tombs |-> Tombs(P), slots |-> slots, contested |-> C,
     value |-> ValueOf(P), meta |-> MetaOf(P, C), formulas |-> FormulasOf(P, F),
     tip |-> tip, folded |-> folded, writers |-> writers]

LEMMA InsertRecalled ==
    ASSUME NEW Q, NEW op, Good(Q \union {op}), Follows(op, Q), op.kind = "insert",
           NEW z, NEW C, NEW F, NEW d, NEW t, NEW w, Before(t, Key(op))
    PROVE  ApplyOp(Recalls(Q, z, C, F, d, t, w), op) =
             Recalls(Q \union {op}, StepSlots(z, op), C, StepRows(F, op), d, Key(op), w)
<1> DEFINE P == Q \union {op}
           A == TreeOf(Q)
           T == Tombs(Q)
           v == ValueOf(Q)
           m == MetaOf(Q, C)
           f == FormulasOf(Q, F)
           e == [anchor |-> op.row, key |-> Key(op)]
<1>0. Ops(P)
  BY DEF Good
<1>1. /\ TreeOf(P) = A \union {e} /\ Tombs(P) = T /\ ValueOf(P) = v /\ MetaOf(P, C) = m
      /\ FormulasOf(P, F) = f
  BY <1>0, TreeGrows, TombsGrow, ValueGrows, MetaGrows, FormulasGrow
<1>2. StepSlots(z, op) = Intern(z, Id(op)) /\ StepRows(F, op) = F
  BY DEF StepSlots, StepRows
<1>3. Recalls(Q, z, C, F, d, t, w) = Fields(A, T, z, C, v, m, f, t, d, w)
  BY DEF Recalls, Fields
<1>4. Recalls(P, Intern(z, Id(op)), C, F, d, Key(op), w) =
        Fields(A \union {e}, T, Intern(z, Id(op)), C, v, m, f, Key(op), d, w)
  BY <1>1 DEF Recalls, Fields
<1> HIDE DEF P, A, T, v, m, f
<1>5. Note(Fields(A, T, z, C, v, m, f, t, d, w), op) = Fields(A, T, z, C, v, m, f, Key(op), d, w)
  BY <1>0, NoteFields
<1> DEFINE n == Fields(A, T, z, C, v, m, f, Key(op), d, w)
<1>6. ApplyOp(Recalls(Q, z, C, F, d, t, w), op) = InsertRow(n, op)
  BY Zenon, <1>3, <1>5 DEF ApplyOp
<1>7. InsertRow(n, op) = [n EXCEPT !.tree = @ \union {e}, !.slots = Intern(@, Id(op))]
  BY DEF InsertRow
<1>8. n.tree = A /\ n.slots = z
  BY DEF Fields
<1>9. InsertRow(n, op) = Fields(A \union {e}, T, Intern(z, Id(op)), C, v, m, f, Key(op), d, w)
  <2> DEFINE B == A \union {e}
             y == Intern(z, Id(op))
  <2>1. InsertRow(n, op) = [n EXCEPT !.tree = B, !.slots = y]
    <3> HIDE DEF n, e
    <3> QED BY Zenon, <1>7, <1>8
  <2> HIDE DEF B, y
  <2>2. [n EXCEPT !.tree = B] = Fields(B, T, z, C, v, m, f, Key(op), d, w)
    BY DEF Fields
  <2>3. [Fields(B, T, z, C, v, m, f, Key(op), d, w) EXCEPT !.slots = y]
           = Fields(B, T, y, C, v, m, f, Key(op), d, w)
    BY DEF Fields
  <2> HIDE DEF n
  <2>4. [n EXCEPT !.tree = B, !.slots = y] = [[n EXCEPT !.tree = B] EXCEPT !.slots = y]
    OBVIOUS
  <2> QED BY <2>1, <2>2, <2>3, <2>4 DEF B, y
<1> QED BY <1>2, <1>4, <1>6, <1>9 DEF P

LEMMA DeleteRecalled ==
    ASSUME NEW Q, NEW op, Good(Q \union {op}), Follows(op, Q), op.kind \in {"delete", "undelete"},
           NEW z, NEW C, NEW F, NEW d, NEW t, NEW w, Before(t, Key(op))
    PROVE  ApplyOp(Recalls(Q, z, C, F, d, t, w), op) =
             Recalls(Q \union {op}, StepSlots(z, op), C, StepRows(F, op), d, Key(op), w)
<1> DEFINE P == Q \union {op}
           A == TreeOf(Q)
           T == Tombs(Q)
           v == ValueOf(Q)
           m == MetaOf(Q, C)
           f == FormulasOf(Q, F)
           U == IF op.kind = "delete" THEN T \union {op.row} ELSE T \ {op.row}
<1>0. Ops(P)
  BY DEF Good
<1>1. /\ TreeOf(P) = A /\ Tombs(P) = U /\ ValueOf(P) = v /\ MetaOf(P, C) = m
      /\ FormulasOf(P, F) = f
  BY <1>0, TreeGrows, TombsGrow, ValueGrows, MetaGrows, FormulasGrow
<1>2. StepSlots(z, op) = z /\ StepRows(F, op) = F
  BY DEF StepSlots, StepRows
<1>3. Recalls(Q, z, C, F, d, t, w) = Fields(A, T, z, C, v, m, f, t, d, w)
  BY DEF Recalls, Fields
<1>4. Recalls(P, z, C, F, d, Key(op), w) = Fields(A, U, z, C, v, m, f, Key(op), d, w)
  BY <1>1 DEF Recalls, Fields
<1> HIDE DEF P, A, T, v, m, f
<1>5. Note(Fields(A, T, z, C, v, m, f, t, d, w), op) = Fields(A, T, z, C, v, m, f, Key(op), d, w)
  BY <1>0, NoteFields
<1> DEFINE n == Fields(A, T, z, C, v, m, f, Key(op), d, w)
<1>6. n.tombs = T /\ \A X : [n EXCEPT !.tombs = X] = Fields(A, X, z, C, v, m, f, Key(op), d, w)
  BY DEF Fields
<1> HIDE DEF n
<1>7. ApplyOp(Recalls(Q, z, C, F, d, t, w), op) = Fields(A, U, z, C, v, m, f, Key(op), d, w)
  <2>1. CASE op.kind = "delete"
    <3>1. ApplyOp(Recalls(Q, z, C, F, d, t, w), op) = [n EXCEPT !.tombs = n.tombs \union {op.row}]
      BY Zenon, <1>3, <1>5, <2>1 DEF ApplyOp, n
    <3> QED BY <1>6, <2>1, <3>1
  <2>2. CASE op.kind = "undelete"
    <3>1. ApplyOp(Recalls(Q, z, C, F, d, t, w), op) = [n EXCEPT !.tombs = n.tombs \ {op.row}]
      BY Zenon, <1>3, <1>5, <2>2 DEF ApplyOp, n
    <3> QED BY <1>6, <2>2, <3>1
  <2> QED BY <2>1, <2>2
<1> QED BY <1>2, <1>4, <1>7 DEF P

LEMMA CellRecalled ==
    ASSUME NEW Q, NEW op, Good(Q \union {op}), Follows(op, Q), op.kind = "cell",
           NEW z, NEW C, NEW F, NEW d, NEW t, NEW w, Before(t, Key(op))
    PROVE  ApplyOp(Recalls(Q, z, C, F, d, t, w), op) =
             Recalls(Q \union {op}, StepSlots(z, op), C, StepRows(F, op), d, Key(op), w \union {op.actor})
<1> DEFINE P == Q \union {op}
           A == TreeOf(Q)
           T == Tombs(Q)
           v == ValueOf(Q)
           m == MetaOf(Q, C)
           f == FormulasOf(Q, F)
           r == op.row
           u == w \union {op.actor}
           D == CellRows(Q)
           y == IF r \in D THEN Beaten(m, v, op) ELSE [key |-> Key(op), losers |-> {}]
           k == IF r \notin C THEN m ELSE Put(m, r, y)
           x == [key |-> Key(op), text |-> Blank]
           g == IF r \in F THEN Put(f, r, x) ELSE f
<1>0. Ops(P) /\ Ops(Q)
  BY OpsOrdered DEF Good
<1>1. /\ TreeOf(P) = A /\ Tombs(P) = T /\ ValueOf(P) = Put(v, r, op.val) /\ MetaOf(P, C) = k
      /\ FormulasOf(P, F) = g
  <2>1. TreeOf(P) = A /\ Tombs(P) = T
    BY <1>0, TreeGrows, TombsGrow
  <2>2. ValueOf(P) = Put(v, r, op.val)
    BY <1>0, ValueGrows
  <2>3. MetaOf(P, C) = k
    BY Zenon, <1>0, MetaGrows
  <2>4. FormulasOf(P, F) = g
    BY <1>0, FormulasGrow
  <2> QED BY <2>1, <2>2, <2>3, <2>4
<1>2. StepSlots(z, op) = Intern(z, r) /\ StepRows(F, op) = F
  BY DEF StepSlots, StepRows
<1>3. Recalls(Q, z, C, F, d, t, w) = Fields(A, T, z, C, v, m, f, t, d, w)
  BY DEF Recalls, Fields
<1>4. Recalls(P, Intern(z, r), C, F, d, Key(op), u) =
        Fields(A, T, Intern(z, r), C, Put(v, r, op.val), k, g, Key(op), d, u)
  <2> HIDE DEF P, A, T, v, k, g, u
  <2> QED BY <1>1 DEF Recalls, Fields
<1>5. DOMAIN f = F /\ f = [q \in DOMAIN f |-> f[q]] /\ \A q \in F : Before(f[q].key, Key(op))
  <2>1. \A q : Before(Held(Q, q).key, Key(op))
    BY HeldGrows
  <2> QED BY <2>1 DEF FormulasOf
<1>6. DOMAIN v = D /\ v = [q \in DOMAIN v |-> v[q]]
  BY DEF ValueOf
<1>7. DOMAIN m = D \cap C /\ m = [q \in DOMAIN m |-> m[q]]
  BY DEF MetaOf
<1>8. \A q \in D \cap C : /\ Before(m[q].key, Key(op))
                          /\ m[q] = [key |-> m[q].key, losers |-> m[q].losers]
  <2> TAKE q \in D \cap C
  <2>1. m[q] = [key |-> Key(WonBy(Q, q, {"cell"})), losers |-> RefLosers(Q, q)]
    BY DEF MetaOf, StampOf
  <2>2. Writes(Q, q, {"cell"}) # {}
    BY InCellRows, WritesAre
  <2>3. WonBy(Q, q, {"cell"}) \in Q
    BY <1>0, <2>2, WonByNewest DEF IsNewest, Writes
  <2>4. Before(Key(WonBy(Q, q, {"cell"})), Key(op))
    BY <2>3 DEF Follows
  <2> HIDE DEF m
  <2> QED BY <2>1, <2>4
<1> HIDE DEF P, A, T, v, m, f, u, x, D
<1>9. Note(Fields(A, T, z, C, v, m, f, t, d, w), op) = Fields(A, T, z, C, v, m, f, Key(op), d, u)
  BY <1>0, NoteFields DEF u
<1>10. Register(Fields(A, T, z, C, v, m, f, Key(op), d, u), op, Blank) =
         Fields(A, T, z, C, v, m, g, Key(op), d, u)
  BY <1>5, RegisterFields DEF x
<1> HIDE DEF g
<1>11. WriteCell(Fields(A, T, z, C, v, m, g, Key(op), d, u), op) =
         Fields(A, T, Intern(z, r), C, Put(v, r, op.val), k, g, Key(op), d, u)
  <2>1. DOMAIN m = DOMAIN v \cap C
    BY <1>6, <1>7
  <2>2. r \in DOMAIN m => /\ Before(m[r].key, Key(op))
                          /\ m[r] = [key |-> m[r].key, losers |-> m[r].losers]
    BY <1>7, <1>8
  <2>3. k = IF r \notin C THEN m
            ELSE Put(m, r, IF r \in DOMAIN v THEN Beaten(m, v, op)
                                             ELSE [key |-> Key(op), losers |-> {}])
    BY <1>6
  <2> HIDE DEF k
  <2>4. Stamped(v, m, C, op, k)
    BY Zenon, <1>6, <1>7, <2>1, <2>2, <2>3 DEF Stamped
  <2> QED BY <2>4, WriteFields
<1>12. ApplyOp(Recalls(Q, z, C, F, d, t, w), op) =
         WriteCell(Register(Note(Recalls(Q, z, C, F, d, t, w), op), op, Blank), op)
  BY DEF ApplyOp
<1> HIDE DEF k
<1> QED BY <1>2, <1>3, <1>4, <1>9, <1>10, <1>11, <1>12 DEF P, u

\* The seed the tip path plants first makes no difference.
LEMMA FormulaRecalled ==
    ASSUME NEW Q, NEW op, Good(Q \union {op}), Follows(op, Q), op.kind = "formula",
           NEW z, NEW C, NEW F, NEW d, NEW t, NEW w, Before(t, Key(op)), NEW s,
           s = Recalls(Q, z, C, F, d, t, w) \/ s = Seed(Recalls(Q, z, C, F, d, t, w), op.row)
    PROVE  ApplyOp(s, op) =
             Recalls(Q \union {op}, StepSlots(z, op), C, StepRows(F, op), d, Key(op), w)
<1> DEFINE P == Q \union {op}
           A == TreeOf(Q)
           T == Tombs(Q)
           v == ValueOf(Q)
           m == MetaOf(Q, C)
           f == FormulasOf(Q, F)
           r == op.row
           y == [key |-> Key(op), text |-> op.val]
           h == IF r \in DOMAIN f THEN f ELSE Put(f, r, [key |-> Floor, text |-> Blank])
<1>0. Ops(P) /\ Before(Floor, Key(op))
  <2>1. Key(op) \in Keys /\ IdOf(Key(op)) # Root
    BY OpKeys, IdOfKey DEF Good
  <2> QED BY <2>1, FloorBefore DEF Good
<1>1. /\ TreeOf(P) = A /\ Tombs(P) = T /\ ValueOf(P) = v /\ MetaOf(P, C) = m
     
  BY <1>0, TreeGrows, TombsGrow, ValueGrows, MetaGrows
<1>2. StepSlots(z, op) = z /\ StepRows(F, op) = F \union {r}
  BY DEF StepSlots, StepRows
<1>3. FormulasOf(P, F \union {r}) = Put(f, r, y)
  <2>1. FormulasOf(P, F \union {r}) = Put(FormulasOf(Q, F \union {r}), r, y)
    BY FormulasGrow
  <2>2. Put(FormulasOf(Q, F \union {r}), r, y) = Put(f, r, y)
    BY DEF FormulasOf, Put
  <2> QED BY <2>1, <2>2
<1>4. Recalls(Q, z, C, F, d, t, w) = Fields(A, T, z, C, v, m, f, t, d, w)
  BY DEF Recalls, Fields
<1>5. Recalls(P, z, C, F \union {r}, d, Key(op), w) =
        Fields(A, T, z, C, v, m, Put(f, r, y), Key(op), d, w)
  <2> HIDE DEF P, A, T, v, m, f, y
  <2> QED BY <1>1, <1>3 DEF Recalls, Fields
<1>6. DOMAIN f = F /\ f = [q \in DOMAIN f |-> f[q]] /\ \A q \in F : Before(f[q].key, Key(op))
  <2>1. \A q : Before(Held(Q, q).key, Key(op))
    BY HeldGrows
  <2> QED BY <2>1 DEF FormulasOf
<1> HIDE DEF P, A, T, v, m, f
<1>7. /\ DOMAIN h = F \union {r} /\ h = [q \in DOMAIN h |-> h[q]] /\ Before(h[r].key, Key(op))
      /\ Put(h, r, y) = Put(f, r, y)
  <2>1. CASE r \in F
    BY <1>6, <2>1
  <2>2. CASE r \notin F
    <3>1. h = [q \in F \union {r} |-> IF q = r THEN [key |-> Floor, text |-> Blank] ELSE f[q]]
      BY <1>6, <2>2 DEF Put
    <3>2. Put(h, r, y) = Put(f, r, y)
      BY <1>6 DEF Put
    <3> HIDE DEF h
    <3>3. h[r].key = Floor /\ DOMAIN h = F \union {r} /\ h = [q \in DOMAIN h |-> h[q]]
      BY <3>1
    <3> QED BY <1>0, <3>2, <3>3
  <2> QED BY <2>1, <2>2
<1>8. Seed(Fields(A, T, z, C, v, m, f, t, d, w), r) = Fields(A, T, z, C, v, m, h, t, d, w)
  BY SeedFields
<1> HIDE DEF h
<1>9. ASSUME NEW g, g \in {f, h}
      PROVE  ApplyOp(Fields(A, T, z, C, v, m, g, t, d, w), op) =
                Fields(A, T, z, C, v, m, Put(f, r, y), Key(op), d, w)
  <2>1. Note(Fields(A, T, z, C, v, m, g, t, d, w), op) = Fields(A, T, z, C, v, m, g, Key(op), d, w)
    BY <1>0, NoteFields
  <2>2. g = [q \in DOMAIN g |-> g[q]] /\ (r \in DOMAIN g => Before(g[r].key, Key(op)))
    BY <1>6, <1>7, <1>9
  <2>3. SetFormula(Fields(A, T, z, C, v, m, g, Key(op), d, w), op) =
          Fields(A, T, z, C, v, m, Put(g, r, y), Key(op), d, w)
    BY <1>0, <2>2, FormulaFields
  <2>4. ApplyOp(Fields(A, T, z, C, v, m, g, t, d, w), op) =
          SetFormula(Note(Fields(A, T, z, C, v, m, g, t, d, w), op), op)
    BY DEF ApplyOp
  <2>5. Put(g, r, y) = Put(f, r, y)
    BY <1>7, <1>9
  <2> QED BY <2>1, <2>3, <2>4, <2>5
<1>10. s = Fields(A, T, z, C, v, m, f, t, d, w) \/ s = Fields(A, T, z, C, v, m, h, t, d, w)
  BY <1>4, <1>8
<1> HIDE DEF y
<1>11. ApplyOp(s, op) = Fields(A, T, z, C, v, m, Put(f, r, y), Key(op), d, w)
  BY <1>9, <1>10
<1> QED BY <1>2, <1>5, <1>11 DEF P

\* Whatever follows both what was folded and the tip is folded as it should be.
LEMMA RecalledGrows ==
    ASSUME NEW Q, NEW op, Good(Q \union {op}), Follows(op, Q), op.kind \in OpKind,
           NEW z, NEW C, NEW F, NEW d, NEW t, NEW w, Before(t, Key(op)),
           NEW u, u = IF op.kind = "cell" THEN w \union {op.actor} ELSE w
    PROVE  ApplyOp(Recalls(Q, z, C, F, d, t, w), op) =
             Recalls(Q \union {op}, StepSlots(z, op), C, StepRows(F, op), d, Key(op), u)
BY InsertRecalled, DeleteRecalled, CellRecalled, FormulaRecalled DEF OpKind

\* The seed the tip path plants first makes no difference there either.
LEMMA FormulaGrows ==
    ASSUME NEW Q, NEW op, Good(Q \union {op}), Follows(op, Q), op.kind = "formula",
           NEW z, NEW C, NEW F, NEW d, NEW s,
           s = Meaning(Q, z, C, F, d) \/ s = Seed(Meaning(Q, z, C, F, d), op.row)
    PROVE  ApplyOp(s, op) = Meaning(Q \union {op}, StepSlots(z, op), C, StepRows(F, op), d)
<1> DEFINE t == TipOf(Q)  w == WritersOf(Q)
<1>1. Before(t, Key(op)) /\ TipOf(Q \union {op}) = Key(op) /\ WritersOf(Q \union {op}) = w
  BY TipBelow, TipGrows, WritersGrow DEF Good
<1>2. Meaning(Q, z, C, F, d) = Recalls(Q, z, C, F, d, t, w)
  BY DEF Meaning, Recalls
<1>3. Meaning(Q \union {op}, StepSlots(z, op), C, StepRows(F, op), d) =
        Recalls(Q \union {op}, StepSlots(z, op), C, StepRows(F, op), d, Key(op), w)
  <2> DEFINE P == Q \union {op}
  <2> HIDE DEF P, w
  <2> QED BY <1>1 DEF Meaning, Recalls, P
<1> HIDE DEF t, w
<1> QED BY <1>1, <1>2, <1>3, FormulaRecalled

LEMMA MeaningGrows ==
    ASSUME NEW Q, NEW op, Good(Q \union {op}), Follows(op, Q), op.kind \in OpKind,
           NEW z, NEW C, NEW F, NEW d
    PROVE  ApplyOp(Meaning(Q, z, C, F, d), op) = Meaning(Q \union {op}, StepSlots(z, op), C, StepRows(F, op), d)
<1> DEFINE t == TipOf(Q)  w == WritersOf(Q)
           u == IF op.kind = "cell" THEN w \union {op.actor} ELSE w
<1>1. Before(t, Key(op)) /\ TipOf(Q \union {op}) = Key(op) /\ WritersOf(Q \union {op}) = u
  BY TipBelow, TipGrows, WritersGrow DEF Good
<1>2. Meaning(Q, z, C, F, d) = Recalls(Q, z, C, F, d, t, w)
  BY DEF Meaning, Recalls
<1>3. Meaning(Q \union {op}, StepSlots(z, op), C, StepRows(F, op), d) =
        Recalls(Q \union {op}, StepSlots(z, op), C, StepRows(F, op), d, Key(op), u)
  <2> DEFINE P == Q \union {op}
  <2> HIDE DEF P, u
  <2> QED BY <1>1 DEF Meaning, Recalls, P
<1> HIDE DEF t, w
<1>4. ApplyOp(Recalls(Q, z, C, F, d, t, w), op) =
        Recalls(Q \union {op}, StepSlots(z, op), C, StepRows(F, op), d, Key(op), u)
  BY <1>1, RecalledGrows
<1> HIDE DEF u
<1> QED BY <1>2, <1>3, <1>4

-----------------------------------------------------------------------------
(* Replay.                                                                 *)

LEMMA SlotsStep ==
    ASSUME NEW Q, NEW op, Ops(Q \union {op}), Follows(op, Q)
    PROVE  SlotsOf(Q \union {op}) = StepSlots(SlotsOf(Q), op)
<1>1. CASE op.kind = "insert"
  BY <1>1, SlotsGrow DEF Mentions, StepSlots
<1>2. CASE op.kind = "cell"
  BY <1>2, SlotsGrow DEF Mentions, StepSlots
<1>3. CASE op.kind \notin {"insert", "cell"}
  BY <1>3, SlotsStay DEF StepSlots
<1> QED BY <1>1, <1>2, <1>3

LEMMA SlotsOfNone == SlotsOf({}) = <<>>
<1>1. Mentioned({}) = {}
  BY DEF Mentioned, Inserts, CellRows
<1>2. Ops({})
  BY FS_EmptySet DEF Ops
<1>3. Lists(SlotsOf({}), {}, MentionOrder({})) /\ Orders(MentionOrder({}), {}) /\ IsFiniteSet({})
  BY <1>1, <1>2, SlotsList, MentionsOrdered
<1>4. Lists(<<>>, {}, MentionOrder({}))
  BY FS_EmptySet DEF Lists
<1> QED BY <1>3, <1>4, OneList

LEMMA SlotsStepHeld ==
    ASSUME NEW P, Ops(P), NEW op \in P
    PROVE  StepSlots(SlotsOf(P), op) = SlotsOf(P)
<1>1. CASE op.kind = "insert"
  <2>1. Id(op) \in Mentioned(P)
    BY <1>1 DEF Mentioned, Inserts
  <2> QED BY <1>1, <2>1, SlotsHeld DEF StepSlots
<1>2. CASE op.kind = "cell"
  <2>1. op.row \in Mentioned(P)
    BY <1>2 DEF Mentioned, CellRows
  <2> QED BY <1>2, <2>1, SlotsHeld DEF StepSlots
<1>3. CASE op.kind \notin {"insert", "cell"}
  BY <1>3 DEF StepSlots
<1> QED BY <1>1, <1>2, <1>3

\* Some of a log in canonical order, but the last of them, and the last.
LastOp(P, c, s) ==
    /\ Max(s) \in 1 .. Cardinality(P)
    /\ c[Max(s)] \in P
    /\ s \ {Max(s)} \in SUBSET (1 .. Cardinality(P))
    /\ At(c, s) = At(c, s \ {Max(s)}) \union {c[Max(s)]}
    /\ Good(At(c, s \ {Max(s)}) \union {c[Max(s)]})
    /\ Follows(c[Max(s)], At(c, s \ {Max(s)}))

LEMMA CanonicalLast ==
    ASSUME NEW P, Good(P), NEW s \in SUBSET (1 .. Cardinality(P)), s # {}
    PROVE  LastOp(P, Canonical(P), s)
<1> DEFINE c == Canonical(P)
           R == OpOrder(P)
           m == Max(s)
<1>1. Lists(c, P, R) /\ IsFiniteSet(P) /\ Ops(P)
  BY CanonicalLists DEF Good, Ops
<1> HIDE DEF c, R
<1>2. LastOf(c, P, R, s)
  BY <1>1, LargestLast
<1>3. /\ m \in s /\ At(c, s) \in SUBSET P
  BY <1>1, LargestPlace
<1> HIDE DEF m
<1>4. /\ c[m] \in P /\ s \ {m} \in SUBSET (1 .. Cardinality(P))
      /\ At(c, s) = At(c, s \ {m}) \union {c[m]}
      /\ \A x \in At(c, s \ {m}) : <<x, c[m]>> \in R
  BY <1>2 DEF LastOf, m
<1>5. Good(At(c, s))
  BY <1>3, GoodSubset
<1>6. Follows(c[m], At(c, s \ {m}))
  BY <1>4 DEF Follows, R, OpOrder
<1> QED BY <1>3, <1>4, <1>5, <1>6 DEF LastOp, c, m

\* The first k + 1 places are the first k and the next.
LEMMA NextPlace ==
    ASSUME NEW n \in Nat, NEW k \in 0 .. n - 1
    PROVE  /\ k + 1 \in 1 .. n
           /\ 1 .. k \in SUBSET (1 .. n) /\ 1 .. k + 1 \in SUBSET (1 .. n) /\ 1 .. k + 1 # {}
           /\ Max(1 .. k + 1) = k + 1 /\ (1 .. k + 1) \ {k + 1} = 1 .. k
<1>1. k + 1 \in 1 .. n /\ (k + 1) - 1 = k /\ 1 .. k \in SUBSET (1 .. n)
  OBVIOUS
<1>2. /\ 1 .. k + 1 \in SUBSET (1 .. n) /\ 1 .. k + 1 # {}
      /\ Max(1 .. k + 1) = k + 1 /\ (1 .. k + 1) \ {k + 1} = 1 .. (k + 1) - 1
  BY <1>1, Firsts
<1> QED BY <1>1, <1>2

\* The slots planned are those the rows are given one op at a time.
LEMMA PlanIs ==
    ASSUME NEW P, Good(P)
    PROVE  PlanSlots(Canonical(P)) = SlotsOf(P)
<1> DEFINE c == Canonical(P)
           n == Cardinality(P)
           it == CHOOSE f : f = [s \in SUBSET (1 .. n) |->
                    IF s = {} THEN <<>>
                    ELSE CASE c[Max(s)].kind = "insert" -> Intern(f[s \ {Max(s)}], Id(c[Max(s)]))
                           [] c[Max(s)].kind = "cell"   -> Intern(f[s \ {Max(s)}], c[Max(s)].row)
                           [] OTHER                     -> f[s \ {Max(s)}]]
           H(s) == SlotsOf(At(c, s))
           h == [s \in SUBSET (1 .. n) |-> H(s)]
<1>1. n \in Nat /\ Lists(c, P, OpOrder(P)) /\ Ops(P)
  BY CanonicalLists, FS_CardinalityType DEF Good, Ops
<1>2. DOMAIN c = 1 .. n
  BY <1>1 DEF Lists
<1>3. PlanSlots(c) = it[1 .. n]
  BY Zenon, <1>2 DEF PlanSlots, FoldLeft, MapThenFoldSet
<1>4. \A s \in SUBSET (1 .. n) : s # {} => LastOp(P, c, s)
  BY CanonicalLast
<1>a. At(c, {}) = {} /\ At(c, 1 .. n) = P
  BY <1>1, AllPlaces
<1> HIDE DEF c, n
<1>5. ASSUME NEW s \in SUBSET (1 .. n)
      PROVE  h[s] = IF s = {} THEN <<>>
                    ELSE CASE c[Max(s)].kind = "insert" -> Intern(h[s \ {Max(s)}], Id(c[Max(s)]))
                           [] c[Max(s)].kind = "cell"   -> Intern(h[s \ {Max(s)}], c[Max(s)].row)
                           [] OTHER                     -> h[s \ {Max(s)}]
  <2>1. CASE s = {}
    BY <1>a, <2>1, SlotsOfNone
  <2>2. CASE s # {}
    <3> DEFINE op == c[Max(s)]
               r == s \ {Max(s)}
    <3>1. LastOp(P, c, s)
      BY <1>4, <2>2
    <3>2. /\ r \in SUBSET (1 .. n) /\ At(c, s) = At(c, r) \union {op}
          /\ Ops(At(c, r) \union {op}) /\ Follows(op, At(c, r))
      BY <3>1 DEF LastOp, Good, n
    <3>3. h[s] = SlotsOf(At(c, s)) /\ h[r] = SlotsOf(At(c, r))
      BY <3>2
    <3> HIDE DEF op, r, h
    <3>4. h[s] = StepSlots(h[r], op)
      BY <3>2, <3>3, SlotsStep
    <3> QED BY <2>2, <3>4 DEF StepSlots, op, r
  <2> QED BY <2>1, <2>2
<1>6. h = [s \in SUBSET (1 .. n) |-> h[s]]
  <2> HIDE DEF H
  <2> QED OBVIOUS
<1>7. h[1 .. n] = SlotsOf(P)
  <2>1. h[1 .. n] = SlotsOf(At(c, 1 .. n))
    OBVIOUS
  <2> QED BY <1>a, <2>1
<1> HIDE DEF h
<1>8. it = [s \in SUBSET (1 .. n) |->
              IF s = {} THEN <<>>
              ELSE CASE c[Max(s)].kind = "insert" -> Intern(it[s \ {Max(s)}], Id(c[Max(s)]))
                     [] c[Max(s)].kind = "cell"   -> Intern(it[s \ {Max(s)}], c[Max(s)].row)
                     [] OTHER                     -> it[s \ {Max(s)}]]
  <2>1. h = [s \in SUBSET (1 .. n) |->
              IF s = {} THEN <<>>
              ELSE CASE c[Max(s)].kind = "insert" -> Intern(h[s \ {Max(s)}], Id(c[Max(s)]))
                     [] c[Max(s)].kind = "cell"   -> Intern(h[s \ {Max(s)}], c[Max(s)].row)
                     [] OTHER                     -> h[s \ {Max(s)}]]
    BY <1>5, <1>6
  <2> QED BY <2>1
<1> HIDE DEF it
<1>9. it[1 .. n] = h[1 .. n]
  <2>1. it[{}] = h[{}]
    BY <1>5, <1>8
  <2>2. ASSUME NEW k \in 0 .. n - 1, it[1 .. k] = h[1 .. k]
        PROVE  it[1 .. k + 1] = h[1 .. k + 1]
    <3> DEFINE s == 1 .. k + 1
               p == k + 1
    <3>1. s \in SUBSET (1 .. n) /\ s # {} /\ Max(s) = p /\ s \ {p} = 1 .. k
      BY <1>1, NextPlace
    <3> HIDE DEF s, p
    <3>2. it[s] = CASE c[p].kind = "insert" -> Intern(it[1 .. k], Id(c[p]))
                    [] c[p].kind = "cell"   -> Intern(it[1 .. k], c[p].row)
                    [] OTHER                -> it[1 .. k]
      BY <1>8, <3>1
    <3>3. h[s] = CASE c[p].kind = "insert" -> Intern(h[1 .. k], Id(c[p]))
                    [] c[p].kind = "cell"   -> Intern(h[1 .. k], c[p].row)
                    [] OTHER                -> h[1 .. k]
      BY <1>5, <3>1
    <3> QED BY <2>2, <3>2, <3>3 DEF s
  <2> QED BY <1>1, <2>1, <2>2, FirstsAgree
<1> QED BY <1>3, <1>7, <1>9 DEF c

LEMMA MeaningOfNone ==
    ASSUME NEW P, Good(P)
    PROVE  FromPlan(P) = Meaning({}, SlotsOf(P), Contested(P), FormulaRows(P), FALSE)
<1> DEFINE F == FormulaRows(P)
           C == Contested(P)
           g == [r \in F |-> [key |-> Floor, text |-> Blank]]
<1>1. TreeOf({}) = {} /\ Tombs({}) = {} /\ CellRows({}) = {} /\ WritersOf({}) = {}
  BY DEF TreeOf, Inserts, Tombs, CellRows, WritersOf
<1>2. ValueOf({}) = NoMap /\ MetaOf({}, C) = NoMap
  <2>1. CellRows({}) \cap C = {}
    BY <1>1
  <2> HIDE DEF C
  <2>2. ValueOf({}) = [r \in {} |-> WonBy({}, r, {"cell"}).val] /\ MetaOf({}, C) = [r \in {} |-> StampOf({}, r)]
    BY <1>1, <2>1 DEF ValueOf, MetaOf
  <2> QED BY <2>2 DEF NoMap
<1>3. FormulasOf({}, F) = g
  <2>1. \A r : CellOps({}, r) = {}
    BY DEF CellOps
  <2>2. \A r : Held({}, r) = [key |-> Floor, text |-> Blank]
    BY Zenon, <2>1 DEF Held
  <2> QED BY <2>2 DEF FormulasOf
<1>4. Meaning({}, SlotsOf(P), C, F, FALSE) =
        Fields({}, {}, SlotsOf(P), C, NoMap, NoMap, g, Floor, FALSE, {})
  BY <1>1, <1>2, <1>3, TipOfNone DEF Meaning, Fields
<1>5. PlanSlots(Canonical(P)) = SlotsOf(P)
  BY PlanIs
<1>6. FromPlan(P) = Fields({}, {}, SlotsOf(P), C, NoMap, NoMap, g, Floor, FALSE, {})
  <2> DEFINE z == SlotsOf(P)
             e == EmptyState
             no == FALSE
             nil == <<>>
             none == {}
  <2> HIDE DEF C, g, z, e
  <2>1. FromPlan(P) = [e EXCEPT !.slots = z, !.contested = C, !.formulas = g]
    BY Zenon, <1>5 DEF FromPlan, C, g, F, z, e
  <2>2. [e EXCEPT !.slots = z, !.contested = C, !.formulas = g] =
          [[[e EXCEPT !.slots = z] EXCEPT !.contested = C] EXCEPT !.formulas = g]
    OBVIOUS
  <2>3. e = Fields(none, none, nil, none, NoMap, NoMap, NoMap, Floor, no, none)
    BY DEF e, EmptyState, Fields
  <2> HIDE DEF no, nil, none
  <2>4. [e EXCEPT !.slots = z] = Fields(none, none, z, none, NoMap, NoMap, NoMap, Floor, no, none)
    BY <2>3 DEF Fields
  <2>5. [Fields(none, none, z, none, NoMap, NoMap, NoMap, Floor, no, none) EXCEPT !.contested = C] =
          Fields(none, none, z, C, NoMap, NoMap, NoMap, Floor, no, none)
    BY DEF Fields
  <2>6. [Fields(none, none, z, C, NoMap, NoMap, NoMap, Floor, no, none) EXCEPT !.formulas = g] =
          Fields(none, none, z, C, NoMap, NoMap, g, Floor, no, none)
    BY DEF Fields
  <2> QED BY <2>1, <2>2, <2>4, <2>5, <2>6 DEF z, no, none
<1> QED BY <1>4, <1>6

\* A replay of a log leaves the state its op set determines: every field is said
\* of the set, by what came last about a row or a cell (State::replay).
THEOREM ReplayMeans ==
    ASSUME NEW P, Good(P), \A op \in P : op.kind \in OpKind
    PROVE  Replay(P) = Meaning(P, SlotsOf(P), Contested(P), FormulaRows(P), TRUE)
<1> DEFINE c == Canonical(P)
           n == Cardinality(P)
           z == SlotsOf(P)
           C == Contested(P)
           F == FormulaRows(P)
           base == FromPlan(P)
           it == CHOOSE f : f = [s \in SUBSET (1 .. n) |->
                    IF s = {} THEN base ELSE ApplyOp(f[s \ {Max(s)}], c[Max(s)])]
           no == FALSE
           H(s) == Meaning(At(c, s), z, C, F, no)
           h == [s \in SUBSET (1 .. n) |-> H(s)]
<1>1. n \in Nat /\ Lists(c, P, OpOrder(P)) /\ Ops(P)
  BY CanonicalLists, FS_CardinalityType DEF Good, Ops
<1>2. DOMAIN c = 1 .. n
  BY <1>1 DEF Lists
<1> HIDE DEF base
<1>3. FoldLeft(ApplyOp, base, c) = it[1 .. n]
  BY Zenon, <1>2 DEF FoldLeft, MapThenFoldSet
<1>4. \A s \in SUBSET (1 .. n) : s # {} => LastOp(P, c, s)
  BY CanonicalLast
<1>a. At(c, {}) = {} /\ At(c, 1 .. n) = P
  BY <1>1, AllPlaces
<1>b. base = Meaning({}, z, C, F, no)
  BY MeaningOfNone DEF base
<1>z. \A op \in P : StepSlots(z, op) = z /\ StepRows(F, op) = F
  <2> TAKE op \in P
  <2>1. StepRows(F, op) = F
    BY DEF StepRows, FormulaRows
  <2> QED BY <1>1, <2>1, SlotsStepHeld
<1> HIDE DEF c, n, z, C, F, no
<1>5. ASSUME NEW s \in SUBSET (1 .. n)
      PROVE  h[s] = IF s = {} THEN base ELSE ApplyOp(h[s \ {Max(s)}], c[Max(s)])
  <2>1. CASE s = {}
    BY <1>a, <1>b, <2>1
  <2>2. CASE s # {}
    <3> DEFINE op == c[Max(s)]
               r == s \ {Max(s)}
    <3>1. LastOp(P, c, s)
      BY <1>4, <2>2
    <3>2. /\ op \in P /\ r \in SUBSET (1 .. n) /\ At(c, s) = At(c, r) \union {op}
          /\ Good(At(c, r) \union {op}) /\ Follows(op, At(c, r))
      BY <3>1 DEF LastOp, n
    <3>3. h[s] = Meaning(At(c, s), z, C, F, no) /\ h[r] = Meaning(At(c, r), z, C, F, no)
      BY <3>2
    <3> HIDE DEF op, r, h
    <3>4. ApplyOp(h[r], op) = Meaning(At(c, r) \union {op}, StepSlots(z, op), C, StepRows(F, op), no)
      BY <3>2, <3>3, MeaningGrows
    <3>5. h[s] = ApplyOp(h[r], op)
      BY <1>z, <3>2, <3>3, <3>4
    <3> QED BY <2>2, <3>5 DEF op, r
  <2> QED BY <2>1, <2>2
<1>6. h = [s \in SUBSET (1 .. n) |-> h[s]]
  <2> HIDE DEF H
  <2> QED OBVIOUS
<1>7. h[1 .. n] = Meaning(P, z, C, F, no)
  <2>1. h[1 .. n] = Meaning(At(c, 1 .. n), z, C, F, no)
    OBVIOUS
  <2> QED BY <1>a, <2>1
<1> HIDE DEF h
<1>8. it = [s \in SUBSET (1 .. n) |-> IF s = {} THEN base ELSE ApplyOp(it[s \ {Max(s)}], c[Max(s)])]
  <2>1. h = [s \in SUBSET (1 .. n) |-> IF s = {} THEN base ELSE ApplyOp(h[s \ {Max(s)}], c[Max(s)])]
    BY <1>5, <1>6
  <2> QED BY <2>1
<1> HIDE DEF it
<1>9. it[1 .. n] = h[1 .. n]
  <2>1. it[{}] = h[{}]
    BY <1>5, <1>8
  <2>2. ASSUME NEW k \in 0 .. n - 1, it[1 .. k] = h[1 .. k]
        PROVE  it[1 .. k + 1] = h[1 .. k + 1]
    <3> DEFINE s == 1 .. k + 1
               p == k + 1
    <3>1. s \in SUBSET (1 .. n) /\ s # {} /\ Max(s) = p /\ s \ {p} = 1 .. k
      BY <1>1, NextPlace
    <3> HIDE DEF s, p
    <3>2. it[s] = ApplyOp(it[1 .. k], c[p])
      BY <1>8, <3>1
    <3>3. h[s] = ApplyOp(h[1 .. k], c[p])
      BY <1>5, <3>1
    <3> QED BY <2>2, <3>2, <3>3 DEF s
  <2> QED BY <1>1, <2>1, <2>2, FirstsAgree
<1>10. Replay(P) = [Meaning(P, z, C, F, no) EXCEPT !.folded = TRUE]
  <2>1. FoldLeft(ApplyOp, base, c) = Meaning(P, z, C, F, no)
    BY <1>3, <1>7, <1>9
  <2> QED BY Zenon, <2>1 DEF Replay, base, c
<1>11. [Meaning(P, z, C, F, no) EXCEPT !.folded = TRUE] = Meaning(P, z, C, F, TRUE)
  <2> DEFINE yes == TRUE
  <2> HIDE DEF yes
  <2>1. [Meaning(P, z, C, F, no) EXCEPT !.folded = yes] = Meaning(P, z, C, F, yes)
    BY DEF Meaning
  <2> QED BY <2>1 DEF yes
<1> QED BY <1>10, <1>11 DEF z, C, F

-----------------------------------------------------------------------------
(* The tip path.                                                           *)

\* Each op of an ascending batch follows the ops before it, and all of Q.
LEMMA AscendingFollows ==
    ASSUME NEW P, Good(P), NEW Q \in SUBSET P, NEW batch \in Seq(P), NEW tip, tip = TipOf(Q),
           \A i \in DOMAIN batch :
               Before(IF i = 1 THEN tip ELSE Key(batch[i - 1]), Key(batch[i]))
    PROVE  \A i \in 1 .. Len(batch) :
               /\ Follows(batch[i], Q)
               /\ \A j \in 1 .. Len(batch) : j < i => Before(Key(batch[j]), Key(batch[i]))
<1> DEFINE n == Len(batch)
           key(i) == IF i = 0 THEN tip ELSE Key(batch[i])
           Upto(i) == /\ \A o \in Q : Key(o) = key(i) \/ Before(Key(o), key(i))
                      /\ \A j \in 1 .. n : j <= i => Key(batch[j]) = key(i) \/ Before(Key(batch[j]), key(i))
           T == {i \in 0 .. n : Upto(i)}
<1>1. /\ n \in Nat /\ DOMAIN batch = 1 .. n
      /\ \A i \in 1 .. n : batch[i] \in P /\ Key(batch[i]) \in Keys
      /\ \A o \in Q : Key(o) \in Keys
  <2>1. Ops(P)
    BY DEF Good
  <2>2. n \in Nat /\ DOMAIN batch = 1 .. n /\ \A i \in 1 .. n : batch[i] \in P
    OBVIOUS
  <2> HIDE DEF n
  <2> QED BY <2>1, <2>2, OpKeys
<1>2. Good(Q)
  BY GoodSubset
<1>3. tip \in Keys /\ \A o \in Q : Key(o) = tip \/ Before(Key(o), tip)
  BY <1>2, TipCovers
<1> HIDE DEF n
<1>4. \A i \in 0 .. n : key(i) \in Keys
  BY <1>1, <1>3
<1>5. \A k \in 0 .. n - 1 : k + 1 \in 1 .. n /\ Before(key(k), Key(batch[k + 1])) /\ key(k + 1) = Key(batch[k + 1])
  <2> TAKE k \in 0 .. n - 1
  <2>1. k + 1 \in 1 .. n /\ (k + 1) - 1 = k /\ (k + 1 = 1 <=> k = 0) /\ k + 1 # 0
    BY <1>1
  <2>2. Before(IF k + 1 = 1 THEN tip ELSE Key(batch[(k + 1) - 1]), Key(batch[k + 1]))
    BY <1>1, <2>1
  <2>3. Before(IF k = 0 THEN tip ELSE Key(batch[k]), Key(batch[k + 1]))
    BY <2>1, <2>2
  <2> QED BY <2>1, <2>3
<1>6. Upto(0)
  BY <1>1, <1>3
<1> HIDE DEF key
<1>7. ASSUME NEW k \in 0 .. n - 1, Upto(k)
      PROVE  /\ Upto(k + 1)
             /\ \A o \in Q : Before(Key(o), Key(batch[k + 1]))
             /\ \A j \in 1 .. n : j < k + 1 => Before(Key(batch[j]), Key(batch[k + 1]))
  <2> DEFINE x == Key(batch[k + 1])
             y == key(k)
  <2>1. k + 1 \in 1 .. n /\ Before(y, x) /\ key(k + 1) = x /\ x \in Keys /\ y \in Keys
    <3>1. k \in 0 .. n
      BY <1>1
    <3> QED BY <1>1, <1>4, <1>5, <3>1
  <2> HIDE DEF x
  <2>2. \A z \in Keys : z = y \/ Before(z, y) => Before(z, x)
    BY <2>1, BeforeOrders
  <2>3. \A o \in Q : Before(Key(o), x)
    BY <1>1, <1>7, <2>2
  <2>4. \A j \in 1 .. n : j < k + 1 => Before(Key(batch[j]), x)
    <3> TAKE j \in 1 .. n
    <3> HAVE j < k + 1
    <3>1. j <= k
      BY <1>1
    <3> QED BY <1>1, <1>7, <2>2, <3>1
  <2>5. \A j \in 1 .. n : j <= k + 1 => j = k + 1 \/ j < k + 1
    BY <1>1
  <2>6. \A j \in 1 .. n : j <= k + 1 => Key(batch[j]) = x \/ Before(Key(batch[j]), x)
    BY <2>4, <2>5 DEF x
  <2> QED BY <2>1, <2>3, <2>4, <2>6 DEF x
<1>8. 0 .. n \subseteq T
  <2>1. 0 \in T
    BY <1>1, <1>6
  <2>2. \A k \in 0 .. n - 1 : k \in T => k + 1 \in T
    <3> TAKE k \in 0 .. n - 1
    <3>1. k + 1 \in 0 .. n
      BY <1>1
    <3> HIDE DEF Upto
    <3> QED BY <1>7, <3>1
  <2> HIDE DEF T
  <2> QED BY <1>1, <2>1, <2>2, UpTo
<1>9. ASSUME NEW i \in 1 .. n
      PROVE  /\ Follows(batch[i], Q)
             /\ \A j \in 1 .. n : j < i => Before(Key(batch[j]), Key(batch[i]))
  <2> DEFINE k == i - 1
  <2>1. k \in 0 .. n - 1 /\ k \in 0 .. n /\ k + 1 = i
    BY <1>1
  <2> HIDE DEF k
  <2>2. Upto(k)
    BY <1>8, <2>1
  <2> HIDE DEF Upto
  <2> QED BY <1>7, <2>1, <2>2 DEF Follows
<1> QED BY <1>9 DEF n

LEMMA FormulaRowsGrow ==
    ASSUME NEW Q, NEW op
    PROVE  FormulaRows(Q \union {op}) = StepRows(FormulaRows(Q), op)
BY DEF FormulaRows, StepRows

\* A state that has folded Q, with some cells contested.
Folds(Q, C, d) == Meaning(Q, SlotsOf(Q), C, FormulaRows(Q), d)

LEMMA FoldsGrow ==
    ASSUME NEW Q, NEW op, Good(Q \union {op}), Follows(op, Q), op.kind \in OpKind, NEW C, NEW d,
           NEW s, s = IF op.kind = "formula" THEN Seed(Folds(Q, C, d), op.row) ELSE Folds(Q, C, d)
    PROVE  ApplyOp(s, op) = Folds(Q \union {op}, C, d)
<1> DEFINE z == SlotsOf(Q)
           F == FormulaRows(Q)
<1>1. SlotsOf(Q \union {op}) = StepSlots(z, op) /\ FormulaRows(Q \union {op}) = StepRows(F, op)
  BY SlotsStep, FormulaRowsGrow DEF Good
<1>2. Folds(Q, C, d) = Meaning(Q, z, C, F, d)
  BY DEF Folds
<1>3. Folds(Q \union {op}, C, d) = Meaning(Q \union {op}, StepSlots(z, op), C, StepRows(F, op), d)
  BY <1>1 DEF Folds
<1> HIDE DEF z, F
<1>4. CASE op.kind = "formula"
  <2>1. s = Seed(Meaning(Q, z, C, F, d), op.row)
    BY <1>2, <1>4
  <2>2. ApplyOp(s, op) = Meaning(Q \union {op}, StepSlots(z, op), C, StepRows(F, op), d)
    BY <1>4, <2>1, FormulaGrows
  <2> QED BY <1>3, <2>2
<1>5. CASE op.kind # "formula"
  <2>1. s = Meaning(Q, z, C, F, d)
    BY <1>2, <1>5
  <2>2. ApplyOp(s, op) = Meaning(Q \union {op}, StepSlots(z, op), C, StepRows(F, op), d)
    BY <2>1, MeaningGrows
  <2> QED BY <1>3, <2>2
<1> QED BY <1>4, <1>5

\* Folding an ascending batch into a state that has folded some of a log leaves
\* what it would be had it folded both (State::apply_tip).
THEOREM TipMeans ==
    ASSUME NEW P, Good(P), \A op \in P : op.kind \in OpKind,
           NEW Q \in SUBSET P, NEW batch \in Seq(P), P = Q \union ToSet(batch),
           NEW C, NEW d, Ascends(Folds(Q, C, d), batch)
    PROVE  ApplyTip(Folds(Q, C, d), batch) = Folds(P, C, d)
<1> DEFINE n == Len(batch)
           base == Folds(Q, C, d)
           it == CHOOSE f : f = [s \in SUBSET (1 .. n) |->
                    IF s = {} THEN base
                    ELSE ApplyOp(IF batch[Max(s)].kind = "formula"
                                 THEN Seed(f[s \ {Max(s)}], batch[Max(s)].row)
                                 ELSE f[s \ {Max(s)}], batch[Max(s)])]
           H(s) == Folds(Q \union At(batch, s), C, d)
           h == [s \in SUBSET (1 .. n) |-> H(s)]
<1>1. n \in Nat /\ DOMAIN batch = 1 .. n /\ \A i \in 1 .. n : batch[i] \in P
  OBVIOUS
<1>2. base.tip = TipOf(Q)
  BY DEF Folds, Meaning
<1>3. \A i \in 1 .. n : /\ Follows(batch[i], Q)
                        /\ \A j \in 1 .. n : j < i => Before(Key(batch[j]), Key(batch[i]))
  <2>1. \A i \in DOMAIN batch : Before(IF i = 1 THEN base.tip ELSE Key(batch[i - 1]), Key(batch[i]))
    BY DEF Ascends
  <2> DEFINE tip == base.tip
  <2> HIDE DEF tip
  <2>2. \A i \in DOMAIN batch : Before(IF i = 1 THEN tip ELSE Key(batch[i - 1]), Key(batch[i]))
    BY <2>1 DEF tip
  <2>3. tip = TipOf(Q)
    BY <1>2 DEF tip
  <2> QED BY <2>2, <2>3, AscendingFollows
<1> HIDE DEF base
<1>4. ApplyTip(base, batch) = it[1 .. n]
  BY Zenon, <1>1 DEF ApplyTip, FoldLeft, MapThenFoldSet
<1>5. At(batch, {}) = {} /\ At(batch, 1 .. n) = ToSet(batch)
  BY <1>1 DEF At, ToSet
<1>6. \A s \in SUBSET (1 .. n) : At(batch, s) \in SUBSET P
  BY <1>1 DEF At
<1> HIDE DEF n
<1>7. ASSUME NEW s \in SUBSET (1 .. n)
      PROVE  h[s] = IF s = {} THEN base
                    ELSE ApplyOp(IF batch[Max(s)].kind = "formula"
                                 THEN Seed(h[s \ {Max(s)}], batch[Max(s)].row)
                                 ELSE h[s \ {Max(s)}], batch[Max(s)])
  <2>1. CASE s = {}
    <3>1. Q \union At(batch, {}) = Q
      BY <1>5
    <3> QED BY <2>1, <3>1 DEF base
  <2>2. CASE s # {}
    <3> DEFINE op == batch[Max(s)]
               r == s \ {Max(s)}
               R == Q \union At(batch, r)
               x == IF op.kind = "formula" THEN Seed(h[r], op.row) ELSE h[r]
    <3>1. /\ Max(s) \in 1 .. n /\ r \in SUBSET (1 .. n)
          /\ \A j \in r : j < Max(s)
          /\ At(batch, s) = At(batch, r) \union {op}
      <4> HIDE DEF h
      <4> QED BY <1>1, <2>2, LargestOfPlaces
    <3>2. op \in P /\ Follows(op, R)
      <4>1. \A j \in r : Before(Key(batch[j]), Key(op))
        BY <1>3, <3>1
      <4> QED BY <1>1, <1>3, <3>1, <4>1 DEF Follows, At
    <3>3. Good(R \union {op})
      <4>1. R \union {op} \in SUBSET P
        BY <1>6, <3>1, <3>2
      <4> HIDE DEF R, op
      <4> QED BY <4>1, GoodSubset
    <3>4. h[s] = Folds(R \union {op}, C, d) /\ h[r] = Folds(R, C, d)
      <4>1. Q \union At(batch, s) = R \union {op}
        BY <3>1
      <4>2. h[s] = Folds(Q \union At(batch, s), C, d) /\ h[r] = Folds(R, C, d)
        BY <3>1
      <4> HIDE DEF h, R, op
      <4> QED BY <4>1, <4>2
    <3> HIDE DEF h, R, op, r
    <3>5. x = IF op.kind = "formula" THEN Seed(Folds(R, C, d), op.row) ELSE Folds(R, C, d)
      BY <3>4
    <3> HIDE DEF x
    <3>6. ApplyOp(x, op) = Folds(R \union {op}, C, d)
      BY <3>2, <3>3, <3>5, FoldsGrow
    <3>7. h[s] = ApplyOp(x, op)
      BY <3>4, <3>6
    <3> QED BY <2>2, <3>7 DEF op, r, x
  <2> QED BY <2>1, <2>2
<1>8. h = [s \in SUBSET (1 .. n) |-> h[s]]
  <2> HIDE DEF H
  <2> QED OBVIOUS
<1>9. h[1 .. n] = Folds(P, C, d)
  <2>1. h[1 .. n] = Folds(Q \union At(batch, 1 .. n), C, d)
    OBVIOUS
  <2> QED BY <1>5, <2>1
<1> HIDE DEF h
<1>10. it = [s \in SUBSET (1 .. n) |->
               IF s = {} THEN base
               ELSE ApplyOp(IF batch[Max(s)].kind = "formula"
                            THEN Seed(it[s \ {Max(s)}], batch[Max(s)].row)
                            ELSE it[s \ {Max(s)}], batch[Max(s)])]
  <2>1. h = [s \in SUBSET (1 .. n) |->
               IF s = {} THEN base
               ELSE ApplyOp(IF batch[Max(s)].kind = "formula"
                            THEN Seed(h[s \ {Max(s)}], batch[Max(s)].row)
                            ELSE h[s \ {Max(s)}], batch[Max(s)])]
    BY <1>7, <1>8
  <2> QED BY <2>1
<1> HIDE DEF it
<1>11. it[1 .. n] = h[1 .. n]
  <2>1. it[{}] = h[{}]
    BY <1>7, <1>10
  <2>2. ASSUME NEW k \in 0 .. n - 1, it[1 .. k] = h[1 .. k]
        PROVE  it[1 .. k + 1] = h[1 .. k + 1]
    <3> DEFINE s == 1 .. k + 1
               p == k + 1
    <3>1. s \in SUBSET (1 .. n) /\ s # {} /\ Max(s) = p /\ s \ {p} = 1 .. k
      BY <1>1, NextPlace
    <3> HIDE DEF s, p
    <3>2. it[s] = ApplyOp(IF batch[p].kind = "formula" THEN Seed(it[1 .. k], batch[p].row)
                          ELSE it[1 .. k], batch[p])
      BY <1>10, <3>1
    <3>3. h[s] = ApplyOp(IF batch[p].kind = "formula" THEN Seed(h[1 .. k], batch[p].row)
                         ELSE h[1 .. k], batch[p])
      BY <1>7, <3>1
    <3> QED BY <2>2, <3>2, <3>3 DEF s
  <2> QED BY <1>1, <2>1, <2>2, FirstsAgree
<1> QED BY <1>4, <1>9, <1>11 DEF base

-----------------------------------------------------------------------------
(* What a state shows that has folded some ops.                            *)

Living(P) == {q \in CellRows(P) : ~Dead(P, q)}

LEMMA SlotsListed ==
    ASSUME NEW P, Ops(P), NEW S \in SUBSET Mentioned(P)
    PROVE  Lists(Sorted(S, LAMBDA q, r : Before(FirstMention(P, q), FirstMention(P, r))),
                 S, MentionOrder(P))
<1> DEFINE R == MentionOrder(P)
           place(i) == CHOOSE x \in S :
                          Cardinality({y \in S : Before(FirstMention(P, y), FirstMention(P, x))}) = i - 1
           seq == [i \in 1 .. Cardinality(S) |-> place(i)]
<1>1. Sorted(S, LAMBDA q, r : Before(FirstMention(P, q), FirstMention(P, r))) = seq
    BY DEF Sorted
<1>2. Orders(R, S) /\ IsFiniteSet(S)
  <2>1. Orders(R, Mentioned(P)) /\ IsFiniteSet(Mentioned(P))
      BY MentionsOrdered
  <2>2. IsFiniteSet(S)
      BY <2>1, FS_Subset
  <2>3. Orders(R, S)
      BY <2>1 DEF Orders
  <2> QED
      BY <2>2, <2>3
<1>3. ASSUME NEW i \in 1 .. Cardinality(S)
      PROVE  place(i) \in S /\ Cardinality(Below(place(i), S, R)) = i - 1
  <2>1. \A x \in S : {y \in S : Before(FirstMention(P, y), FirstMention(P, x))} = Below(x, S, R)
      BY DEF Below, MentionOrder
  <2> HIDE DEF R
  <2>2. \E x \in S : Cardinality(Below(x, S, R)) = i - 1
      BY <1>2, RankExists
  <2>3. \E x \in S :
            Cardinality({y \in S : Before(FirstMention(P, y), FirstMention(P, x))}) = i - 1
      BY <2>1, <2>2
  <2>4. /\ place(i) \in S
        /\ Cardinality({y \in S : Before(FirstMention(P, y), FirstMention(P, place(i)))}) = i - 1
      BY <2>3
  <2> QED
      BY <2>1, <2>4
<1> HIDE DEF place, R
<1>4. DOMAIN seq = 1 .. Cardinality(S) /\ seq = [i \in DOMAIN seq |-> seq[i]]
    OBVIOUS
<1>5. \A i \in 1 .. Cardinality(S) : seq[i] \in S /\ Cardinality(Below(seq[i], S, R)) = i - 1
    BY <1>3
<1> HIDE DEF seq
<1>6. Lists(seq, S, R)
    BY <1>2, <1>4, <1>5, RankedLists
<1> QED
    BY <1>1, <1>6 DEF R

LEMMA LivingMentioned ==
    ASSUME NEW P
    PROVE  Living(P) \in SUBSET Mentioned(P)
BY DEF Living, Mentioned

LEMMA RefSlotsAre ==
    ASSUME NEW P, Ops(P)
    PROVE  RefSlots(P) = Kept(SlotsOf(P), Living(P))
<1> DEFINE S == Living(P)  R == MentionOrder(P)
           refs == Sorted(S, LAMBDA q, r : Before(FirstMention(P, q), FirstMention(P, r)))
           slots == SlotsOf(P)
<1>1. RefSlots(P) = refs
    BY DEF RefSlots, Living
<1>2. S \in SUBSET Mentioned(P)
    BY LivingMentioned
<1>3. Lists(refs, S, R)
    BY <1>2, SlotsListed
<1>4. Orders(R, Mentioned(P)) /\ IsFiniteSet(Mentioned(P))
    BY MentionsOrdered
<1>5. Lists(slots, Mentioned(P), R)
    BY SlotsList
<1> HIDE DEF refs, slots, R, S
<1>6. Lists(Kept(slots, S), S, R)
    BY <1>2, <1>4, <1>5, KeptLists
<1>7. IsFiniteSet(S) /\ Orders(R, S)
  <2>1. IsFiniteSet(S)
      BY <1>2, <1>4, FS_Subset
  <2> QED
      BY <2>1, <1>2, <1>4 DEF Orders
<1>8. refs = Kept(slots, S)
    BY <1>3, <1>6, <1>7, OneList
<1> QED
    BY <1>1, <1>8 DEF slots, S

LEMMA FoldsFields ==
    ASSUME NEW P, NEW C, NEW d, NEW s, s = Folds(P, C, d)
    PROVE  /\ s.tree = TreeOf(P) /\ s.tombs = Tombs(P) /\ s.slots = SlotsOf(P)
           /\ s.contested = C /\ s.value = ValueOf(P) /\ s.meta = MetaOf(P, C)
           /\ s.formulas = FormulasOf(P, FormulaRows(P)) /\ s.tip = TipOf(P)
           /\ s.folded = d /\ s.writers = WritersOf(P)
BY DEF Folds, Meaning

LEMMA LiveIs ==
    ASSUME NEW P, NEW C, NEW d, NEW s, s = Folds(P, C, d), NEW row
    PROVE  Live(s, row) <=> ~Dead(P, row)
BY FoldsFields, InTombs DEF Live

LEMMA LiveOrderIs ==
    ASSUME NEW P, Good(P), NEW C, NEW d, NEW s, s = Folds(P, C, d)
    PROVE  LiveOrder(s) = RefOrder(P)
<1> DEFINE order == FullOrder(TreeOf(P))
<1>1. s.tree = TreeOf(P)
    BY FoldsFields
<1>2. LiveOrder(s) = Kept(order, {r \in ToSet(order) : Live(s, r)})
    BY <1>1 DEF LiveOrder
<1>3. RefOrder(P) = Kept(order, {r \in ToSet(order) : ~Dead(P, r)})
    BY RefOrderIsWalk
<1> HIDE DEF order
<1>4. {r \in ToSet(order) : Live(s, r)} = {r \in ToSet(order) : ~Dead(P, r)}
    BY LiveIs
<1> QED
    BY <1>2, <1>3, <1>4

LEMMA PresentIs ==
    ASSUME NEW P, NEW C, NEW d, NEW s, s = Folds(P, C, d)
    PROVE  Present(s) = Living(P)
<1>1. s.value = ValueOf(P)
    BY FoldsFields
<1>2. DOMAIN s.value = CellRows(P)
    BY <1>1 DEF ValueOf
<1> QED
    BY <1>2, LiveIs DEF Present, Living

LEMMA CellsAre ==
    ASSUME NEW P, NEW C, NEW d, NEW s, s = Folds(P, C, d)
    PROVE  [r \in Present(s) |-> s.value[r]] =
               [r \in {q \in CellRows(P) : ~Dead(P, q)} |-> WonBy(P, r, {"cell"}).val]
<1>1. s.value = ValueOf(P)
    BY FoldsFields
<1>2. \A r \in CellRows(P) : s.value[r] = WonBy(P, r, {"cell"}).val
    BY <1>1 DEF ValueOf
<1> QED
    BY <1>2, PresentIs DEF Living

TextNamed(P) == \A op \in P : op.kind = "formula" => op.val # Blank

LEMMA FormulaIs ==
    ASSUME NEW P, Ops(P), TextNamed(P), NEW C, NEW d, NEW s, s = Folds(P, C, d),
           NEW row \in FormulaRows(P), NEW w, w = WonBy(P, row, {"cell", "formula"})
    PROVE  /\ Formula(s, row) = IF w.kind = "formula" THEN w.val ELSE Blank
           /\ Formula(s, row) # Blank <=> w.kind = "formula"
<1>1. Formula(s, row) = Held(P, row).text
  <2>1. s.formulas = FormulasOf(P, FormulaRows(P))
      BY FoldsFields
  <2> QED
      BY <2>1 DEF Formula, FormulasOf
<1>2. CellOps(P, row) # {} /\ Writes(P, row, {"cell", "formula"}) # {}
    BY DEF FormulaRows, CellOps, Writes
<1>3. w \in P
    BY <1>2, WonByNewest DEF IsNewest, Writes
<1>4. Held(P, row) = [key |-> Key(w), text |-> IF w.kind = "formula" THEN w.val ELSE Blank]
    BY <1>2 DEF Held
<1>5. Formula(s, row) = IF w.kind = "formula" THEN w.val ELSE Blank
    BY <1>1, <1>4
<1> QED
    BY <1>3, <1>5 DEF TextNamed

LEMMA NoFormula ==
    ASSUME NEW P, NEW C, NEW d, NEW s, s = Folds(P, C, d), NEW row, row \notin FormulaRows(P)
    PROVE  Formula(s, row) = Blank
<1>1. s.formulas = FormulasOf(P, FormulaRows(P))
    BY FoldsFields
<1> QED
    BY <1>1 DEF Formula, FormulasOf

LEMMA FormulasAre ==
    ASSUME NEW P, Ops(P), TextNamed(P), NEW C, NEW d, NEW s, s = Folds(P, C, d)
    PROVE  {<<r, Formula(s, r)>> : r \in {q \in DOMAIN s.formulas :
                                             Live(s, q) /\ Formula(s, q) # Blank}}
           = RefSheet(P).formulas
<1> DEFINE W(r) == WonBy(P, r, {"cell", "formula"})
           F == {q \in FormulaRows(P) : ~Dead(P, q) /\ W(q).kind = "formula"}
<1>1. RefSheet(P).formulas = {<<r, W(r).val>> : r \in F}
    BY DEF RefSheet
<1>2. DOMAIN s.formulas = FormulaRows(P)
  <2>1. s.formulas = FormulasOf(P, FormulaRows(P))
      BY FoldsFields
  <2> QED
      BY <2>1 DEF FormulasOf
<1>3. \A r \in FormulaRows(P) :
          /\ Formula(s, r) = IF W(r).kind = "formula" THEN W(r).val ELSE Blank
          /\ Formula(s, r) # Blank <=> W(r).kind = "formula"
    BY FormulaIs
<1> HIDE DEF W
<1>4. {q \in DOMAIN s.formulas : Live(s, q) /\ Formula(s, q) # Blank} = F
    BY <1>2, <1>3, LiveIs
<1>5. \A r \in F : Formula(s, r) = W(r).val
    BY <1>3
<1> QED
    BY <1>1, <1>4, <1>5

LEMMA FoldsShow ==
    ASSUME NEW P, Good(P), TextNamed(P), NEW C, NEW d
    PROVE  Hashed(Folds(P, C, d)) = <<RefSheet(P), RefSlots(P)>>
<1> DEFINE s == Folds(P, C, d)
<1>1. Ops(P)
    BY DEF Good
<1> HIDE DEF s
<1>2. s = Folds(P, C, d)
    BY DEF s
<1>3. Sheet(s) = RefSheet(P)
  <2>1. LiveOrder(s) = RefOrder(P)
      BY <1>2, LiveOrderIs
  <2>2. [r \in Present(s) |-> s.value[r]] =
            [r \in {q \in CellRows(P) : ~Dead(P, q)} |-> WonBy(P, r, {"cell"}).val]
      BY <1>2, CellsAre
  <2>3. {<<r, Formula(s, r)>> : r \in {q \in DOMAIN s.formulas :
                                          Live(s, q) /\ Formula(s, q) # Blank}}
            = RefSheet(P).formulas
      BY <1>1, <1>2, FormulasAre
  <2>4. RefSheet(P) = [order |-> RefOrder(P),
                       cells |-> [r \in {q \in CellRows(P) : ~Dead(P, q)} |-> WonBy(P, r, {"cell"}).val],
                       formulas |-> RefSheet(P).formulas]
      BY Zenon DEF RefSheet
  <2> QED
      BY <2>1, <2>2, <2>3, <2>4, Zenon DEF Sheet
<1>4. Kept(s.slots, Present(s)) = RefSlots(P)
    BY <1>1, <1>2, PresentIs, FoldsFields, RefSlotsAre
<1> QED
    BY <1>3, <1>4 DEF Hashed, s

-----------------------------------------------------------------------------
(* What an author sees of an op set.                                       *)

ContentOf(P, row) ==
    LET w == WonBy(P, row, {"cell", "formula"})
    IN IF row \in FormulaRows(P) /\ w.kind = "formula" THEN [kind |-> "formula", val |-> w.val]
       ELSE [kind |-> "cell",
             val |-> IF row \in CellRows(P) THEN WonBy(P, row, {"cell"}).val ELSE Blank]

ViewOf(P) == [order |-> RefOrder(P),
              content |-> [r \in ToSet(RefOrder(P)) |-> ContentOf(P, r)]]

LEMMA ContentIs ==
    ASSUME NEW P, Ops(P), TextNamed(P), NEW C, NEW d, NEW s, s = Folds(P, C, d), NEW row
    PROVE  Content(s, row) = ContentOf(P, row)
<1> DEFINE w == WonBy(P, row, {"cell", "formula"})
           v == IF row \in CellRows(P) THEN WonBy(P, row, {"cell"}).val ELSE Blank
<1>1. s.value = ValueOf(P)
  BY FoldsFields
<1>2. v = IF row \in DOMAIN s.value THEN s.value[row] ELSE Blank
  BY <1>1 DEF ValueOf
<1>3. Content(s, row) = IF Formula(s, row) # Blank THEN [kind |-> "formula", val |-> Formula(s, row)]
                        ELSE [kind |-> "cell", val |-> v]
  BY <1>2 DEF Content
<1>4. ContentOf(P, row) = IF row \in FormulaRows(P) /\ w.kind = "formula"
                          THEN [kind |-> "formula", val |-> w.val]
                          ELSE [kind |-> "cell", val |-> v]
  BY DEF ContentOf
<1> HIDE DEF v
<1>5. CASE row \notin FormulaRows(P)
  BY <1>3, <1>4, <1>5, NoFormula
<1>6. CASE row \in FormulaRows(P)
  <2>1. /\ Formula(s, row) = IF w.kind = "formula" THEN w.val ELSE Blank
        /\ Formula(s, row) # Blank <=> w.kind = "formula"
    BY <1>6, FormulaIs
  <2> HIDE DEF w
  <2> QED BY <1>3, <1>4, <1>6, <2>1
<1> QED BY <1>5, <1>6

LEMMA ViewIs ==
    ASSUME NEW P, Good(P), TextNamed(P), NEW C, NEW d, NEW s, s = Folds(P, C, d)
    PROVE  View(s) = ViewOf(P)
<1>1. LiveOrder(s) = RefOrder(P)
  BY LiveOrderIs
<1>2. \A row : Content(s, row) = ContentOf(P, row)
  BY ContentIs DEF Good
<1> QED BY <1>1, <1>2 DEF View, ViewOf

\* Op sets with one tree, the same dead rows and the same contents look the same.
LEMMA OrderSame ==
    ASSUME NEW P, Good(P), NEW Q, Good(Q), TreeOf(P) = TreeOf(Q),
           \A row : Dead(P, row) <=> Dead(Q, row)
    PROVE  RefOrder(P) = RefOrder(Q)
<1> DEFINE order == FullOrder(TreeOf(Q))
<1>1. RefOrder(P) = Kept(order, {r \in ToSet(order) : ~Dead(P, r)})
  BY RefOrderIsWalk
<1>2. RefOrder(Q) = Kept(order, {r \in ToSet(order) : ~Dead(Q, r)})
  BY RefOrderIsWalk
<1> HIDE DEF order
<1>3. {r \in ToSet(order) : ~Dead(P, r)} = {r \in ToSet(order) : ~Dead(Q, r)}
  OBVIOUS
<1> QED BY <1>1, <1>2, <1>3

LEMMA ViewSame ==
    ASSUME NEW P, NEW Q, RefOrder(P) = RefOrder(Q),
           \A row : ContentOf(P, row) = ContentOf(Q, row)
    PROVE  ViewOf(P) = ViewOf(Q)
BY DEF ViewOf

\* Ops that write nothing leave contents alone; a write leaves other cells'.
LEMMA ContentKept ==
    ASSUME NEW Q, NEW op, Ops(Q \union {op}), Follows(op, Q), NEW row,
           op.kind \notin {"cell", "formula"} \/ op.row # row
    PROVE  ContentOf(Q \union {op}, row) = ContentOf(Q, row)
<1> DEFINE P == Q \union {op}  both == {"cell", "formula"}  one == {"cell"}
<1>1. WonBy(P, row, both) = WonBy(Q, row, both)
  <2> HIDE DEF P
  <2>1. ~(op.kind \in both /\ op.row = row)
    OBVIOUS
  <2> HIDE DEF both
  <2> QED BY <2>1, WonByGrows DEF P
<1>2. WonBy(P, row, one) = WonBy(Q, row, one)
  <2> HIDE DEF P
  <2>1. ~(op.kind \in one /\ op.row = row)
    OBVIOUS
  <2> HIDE DEF one
  <2> QED BY <2>1, WonByGrows DEF P
<1>3. row \in CellRows(P) <=> row \in CellRows(Q)
  BY DEF CellRows
<1>4. row \in FormulaRows(P) <=> row \in FormulaRows(Q)
  BY DEF FormulaRows
<1> HIDE DEF P
<1>5. \A R : ContentOf(R, row) =
          IF row \in FormulaRows(R) /\ WonBy(R, row, both).kind = "formula"
          THEN [kind |-> "formula", val |-> WonBy(R, row, both).val]
          ELSE [kind |-> "cell",
                val |-> IF row \in CellRows(R) THEN WonBy(R, row, one).val ELSE Blank]
  BY Zenon DEF ContentOf
<1> HIDE DEF both, one
<1>6. ContentOf(P, row) = ContentOf(Q, row)
  BY <1>1, <1>2, <1>3, <1>4, <1>5
<1> QED BY <1>6 DEF P

\* A write is then what its cell holds.
LEMMA ContentWritten ==
    ASSUME NEW Q, NEW op, Ops(Q \union {op}), Follows(op, Q), op.kind \in {"cell", "formula"}
    PROVE  ContentOf(Q \union {op}, op.row) = [kind |-> op.kind, val |-> op.val]
<1> DEFINE P == Q \union {op}
<1>1. WonBy(P, op.row, {"cell", "formula"}) = op
  <2> DEFINE both == {"cell", "formula"}
  <2>1. op.kind \in both
    OBVIOUS
  <2> HIDE DEF both
  <2>2. WonBy(P, op.row, both) = op
    BY <2>1, WonByGrows
  <2> QED BY <2>2 DEF both
<1>2. CASE op.kind = "formula"
  <2>1. op.row \in FormulaRows(P)
    BY <1>2 DEF FormulaRows
  <2> HIDE DEF P
  <2> QED BY <1>1, <1>2, <2>1 DEF ContentOf, P
<1>3. CASE op.kind = "cell"
  <2>1. op.row \in CellRows(P)
    BY <1>3 DEF CellRows
  <2>2. WonBy(P, op.row, {"cell"}) = op
    <3> DEFINE one == {"cell"}
    <3>1. op.kind \in one
      BY <1>3
    <3> HIDE DEF one
    <3>2. WonBy(P, op.row, one) = op
      BY <3>1, WonByGrows
    <3> QED BY <3>2 DEF one
  <2> HIDE DEF P
  <2> QED BY <1>1, <1>3, <2>1, <2>2 DEF ContentOf, P
<1> QED BY <1>2, <1>3

LEMMA OrderTyped ==
    ASSUME NEW T, Tree(T)
    PROVE  FullOrder(T) \in Seq(IdsIn(T))
<1> DEFINE n == Cardinality(T)
<1>1. n \in Nat
  BY FS_CardinalityType DEF Tree
<1> HIDE DEF n
<1>2. PICK run : Walks(run, T, n)
  BY <1>1, WalkExists
<1>3. run[n] \in WalkStates(T)
  BY <1>1, <1>2 DEF Walks
<1>4. FullOrder(T) = run[n].out
  BY <1>2, OrderIsWalk DEF n
<1> QED BY <1>3, <1>4 DEF WalkStates

\* A row that is inserted and deleted leaves the order as it was.
LEMMA OrderBack ==
    ASSUME NEW Q, NEW op, NEW inv, Good((Q \union {op}) \union {inv}), Follows(op, Q),
           Follows(inv, Q \union {op}), op.kind = "insert", inv.kind = "delete", inv.row = Id(op)
    PROVE  RefOrder((Q \union {op}) \union {inv}) = RefOrder(Q)
<1> DEFINE P == Q \union {op}
           R == P \union {inv}
           x == Id(op)
           o == FullOrder(TreeOf(Q))
           u == FullOrder(TreeOf(P))
           X == IdsIn(TreeOf(Q)) \union {x, op.row}
           S == {r \in X : ~Dead(R, r)}
<1>1. Good(R) /\ Good(P) /\ Good(Q) /\ Ops(R) /\ Ops(P)
  BY GoodSubset DEF Good
<1>2. u = Placed(o, op.row, x)
  BY <1>1, OrderOfOneMore
<1>3. TreeOf(R) = TreeOf(P)
  <2> HIDE DEF P
  <2> QED BY TreeGrows
<1>4. Dead(R, x)
  <2> HIDE DEF P
  <2> QED BY <1>1, DeadNow DEF P
<1>5. \A r : r # x => (Dead(R, r) <=> Dead(Q, r))
  <2>1. \A r : Dead(P, r) <=> Dead(Q, r)
    BY DeadKept
  <2> HIDE DEF P
  <2>2. \A r : r # x => (Dead(R, r) <=> Dead(P, r))
    BY DeadKept
  <2> QED BY <2>1, <2>2
<1>6. o \in Seq(X)
  <2>1. o \in Seq(IdsIn(TreeOf(Q)))
    BY <1>1, TreeOfOK, OrderTyped
  <2> HIDE DEF o
  <2> QED BY <2>1
<1>7. \A i \in 1 .. Len(o) : o[i] # x
  <2>1. o \in Seq(IdsIn(TreeOf(Q)))
    BY <1>1, TreeOfOK, OrderTyped
  <2>2. x \notin IdsIn(TreeOf(Q))
    <3> SUFFICES ASSUME NEW p \in Q, p.kind = "insert", Id(p) = x PROVE FALSE
      BY IdOfKey DEF IdsIn, TreeOf, Inserts, Leaf
    <3>1. p = op
      BY <1>1 DEF Ops
    <3> QED BY <1>1, <3>1, LastIsNewest
  <2> HIDE DEF o, x
  <2>3. \A i \in 1 .. Len(o) : o[i] \in IdsIn(TreeOf(Q))
    BY <2>1
  <2> QED BY <2>2, <2>3
<1>8. RefOrder(R) = Kept(u, {r \in ToSet(u) : ~Dead(R, r)})
  BY <1>1, <1>3, RefOrderIsWalk
<1>9. RefOrder(Q) = Kept(o, {r \in ToSet(o) : ~Dead(Q, r)})
  BY <1>1, RefOrderIsWalk
<1>10. u \in Seq(IdsIn(TreeOf(P))) /\ IdsIn(TreeOf(P)) \subseteq X
  <2>1. u \in Seq(IdsIn(TreeOf(P)))
    BY <1>1, TreeOfOK, OrderTyped
  <2>2. IdsIn(TreeOf(P)) \subseteq X
    BY IdOfKey, TreeGrows DEF IdsIn, TreeOf, Inserts, Leaf
  <2> QED BY <2>1, <2>2
<1> HIDE DEF o, u, x, X, P, R
<1>11. u \in Seq(X) /\ x \in X /\ op.row \in X /\ x \notin S
  BY <1>4, <1>10 DEF X
<1>12. Kept(u, {r \in ToSet(u) : ~Dead(R, r)}) = Kept(u, S)
  <2> DEFINE V == {r \in ToSet(u) : ~Dead(R, r)}
  <2>1. \A i \in 1 .. Len(u) : u[i] \in V <=> u[i] \in S
    BY <1>11 DEF ToSet
  <2> HIDE DEF V, S
  <2>2. Kept(u, V) = Kept(u, S)
    BY <1>11, <2>1, KeptSame
  <2> QED BY <2>2 DEF V
<1>13. Kept(o, {r \in ToSet(o) : ~Dead(Q, r)}) = Kept(o, S)
  <2> DEFINE V == {r \in ToSet(o) : ~Dead(Q, r)}
  <2>1. \A i \in 1 .. Len(o) : o[i] \in V <=> o[i] \in S
    BY <1>5, <1>6, <1>7 DEF ToSet
  <2> HIDE DEF V, S
  <2>2. Kept(o, V) = Kept(o, S)
    BY <1>6, <2>1, KeptSame
  <2> QED BY <2>2 DEF V
<1> HIDE DEF S
<1>14. Kept(u, S) = Kept(o, S)
  BY <1>2, <1>6, <1>11, KeptPlaced
<1>15. RefOrder(R) = RefOrder(Q)
  BY <1>8, <1>9, <1>12, <1>13, <1>14
<1> QED BY <1>15 DEF R, P

\* What takes back an op, made of what its cell held before.
Inverts(inv, op, Q) ==
    \/ /\ op.kind \in {"cell", "formula"} /\ inv.kind \in {"cell", "formula"} /\ inv.row = op.row
       /\ ContentOf(Q, op.row) = [kind |-> inv.kind, val |-> inv.val]
    \/ op.kind = "insert" /\ inv.kind = "delete" /\ inv.row = Id(op)
    \/ op.kind = "undelete" /\ inv.kind = "delete" /\ inv.row = op.row
    \/ op.kind = "delete" /\ inv.kind = "undelete" /\ inv.row = op.row

\* It does, if the op made a difference.
LEMMA ViewBack ==
    ASSUME NEW Q, NEW op, NEW inv, Good((Q \union {op}) \union {inv}), Follows(op, Q),
           Follows(inv, Q \union {op}), Inverts(inv, op, Q),
           ViewOf(Q \union {op}) # ViewOf(Q)
    PROVE  ViewOf((Q \union {op}) \union {inv}) = ViewOf(Q)
<1> DEFINE P == Q \union {op}
           R == P \union {inv}
<1>1. Good(R) /\ Good(P) /\ Good(Q) /\ Ops(R) /\ Ops(P)
  BY GoodSubset DEF Good
<1>2. op.kind \notin {"cell", "formula"} => \A row : ContentOf(P, row) = ContentOf(Q, row)
  BY <1>1, ContentKept
<1>3. \A row : inv.kind \notin {"cell", "formula"} \/ inv.row # row
                  => ContentOf(R, row) = ContentOf(P, row)
  <2> HIDE DEF P
  <2> QED BY <1>1, ContentKept DEF P
<1>4. \A row : op.row # row => ContentOf(P, row) = ContentOf(Q, row)
  BY <1>1, ContentKept
<1>5. \A row : op.kind \notin {"delete", "undelete"} \/ op.row # row => (Dead(P, row) <=> Dead(Q, row))
  BY DeadKept
<1>6. \A row : inv.kind \notin {"delete", "undelete"} \/ inv.row # row => (Dead(R, row) <=> Dead(P, row))
  <2> HIDE DEF P
  <2> QED BY DeadKept
<1>7. op.kind # "insert" => TreeOf(P) = TreeOf(Q)
  BY TreeGrows
<1>8. inv.kind # "insert" => TreeOf(R) = TreeOf(P)
  <2> HIDE DEF P
  <2> QED BY TreeGrows
<1>9. op.kind \in {"delete", "undelete"} => (Dead(P, op.row) <=> op.kind = "delete")
  BY <1>1, DeadNow
<1>10. inv.kind \in {"delete", "undelete"} => (Dead(R, inv.row) <=> inv.kind = "delete")
  <2> HIDE DEF P
  <2> QED BY <1>1, DeadNow DEF P
<1>11. inv.kind \in {"cell", "formula"} => ContentOf(R, inv.row) = [kind |-> inv.kind, val |-> inv.val]
  <2> HIDE DEF P
  <2> QED BY <1>1, ContentWritten DEF P
<1>12. RefOrder(R) = RefOrder(Q) \/ ViewOf(P) = ViewOf(Q)
  <2>1. CASE op.kind \in {"cell", "formula"}
    <3>1. inv.kind \in {"cell", "formula"}
      BY <2>1 DEF Inverts
    <3>2. TreeOf(R) = TreeOf(Q) /\ \A row : Dead(R, row) <=> Dead(Q, row)
      BY <1>5, <1>6, <1>7, <1>8, <2>1, <3>1
    <3> HIDE DEF P, R
    <3> QED BY <1>1, <3>2, OrderSame
  <2>2. CASE op.kind = "insert"
    <3>1. inv.kind = "delete" /\ inv.row = Id(op)
      BY <2>2 DEF Inverts
    <3> QED BY <2>2, <3>1, OrderBack
  <2>3. CASE op.kind \in {"delete", "undelete"}
    <3>1. inv.kind \in {"delete", "undelete"} /\ inv.row = op.row /\ (inv.kind = "delete" <=> op.kind = "undelete")
      BY <2>3 DEF Inverts
    <3>2. TreeOf(P) = TreeOf(Q) /\ TreeOf(R) = TreeOf(Q)
      BY <1>7, <1>8, <2>3, <3>1
    <3>3. \A row : row # op.row => (Dead(P, row) <=> Dead(Q, row)) /\ (Dead(R, row) <=> Dead(Q, row))
      BY <1>5, <1>6, <3>1
    <3>4. \A row : ContentOf(P, row) = ContentOf(Q, row)
      BY <1>2, <2>3
    <3>5. (Dead(R, op.row) <=> Dead(Q, op.row)) \/ (Dead(P, op.row) <=> Dead(Q, op.row))
      BY <1>9, <1>10, <2>3, <3>1
    <3> HIDE DEF P, R
    <3>6. CASE Dead(R, op.row) <=> Dead(Q, op.row)
      <4>1. \A row : Dead(R, row) <=> Dead(Q, row)
        BY <3>3, <3>6
      <4> QED BY <1>1, <3>2, <4>1, OrderSame
    <3>7. CASE Dead(P, op.row) <=> Dead(Q, op.row)
      <4>1. \A row : Dead(P, row) <=> Dead(Q, row)
        BY <3>3, <3>7
      <4>2. RefOrder(P) = RefOrder(Q)
        BY <1>1, <3>2, <4>1, OrderSame
      <4> QED BY <3>4, <4>2, ViewSame
    <3> QED BY <3>5, <3>6, <3>7
  <2> QED BY <2>1, <2>2, <2>3 DEF Inverts
<1>13. \A row : ContentOf(R, row) = ContentOf(Q, row)
  <2>1. CASE op.kind \in {"cell", "formula"}
    <3>1. inv.kind \in {"cell", "formula"} /\ inv.row = op.row
          /\ ContentOf(Q, op.row) = [kind |-> inv.kind, val |-> inv.val]
      BY <2>1 DEF Inverts
    <3>2. ContentOf(R, op.row) = ContentOf(Q, op.row)
      BY <1>11, <3>1
    <3> HIDE DEF P, R
    <3> QED BY <1>3, <1>4, <3>1, <3>2
  <2>2. CASE op.kind \notin {"cell", "formula"}
    <3>1. inv.kind \notin {"cell", "formula"}
      BY <2>2 DEF Inverts
    <3> HIDE DEF P, R
    <3> QED BY <1>2, <1>3, <2>2, <3>1
  <2> QED BY <2>1, <2>2
<1>14. ViewOf(P) # ViewOf(Q)
  OBVIOUS
<1> HIDE DEF P, R
<1>15. ViewOf(R) = ViewOf(Q)
  BY <1>12, <1>13, <1>14, ViewSame
<1> QED BY <1>15 DEF P, R

-----------------------------------------------------------------------------
(* The inductive invariant.                                                *)

Typed ==
    /\ log = [a \in Actor |-> log[a]]
    /\ counter \in [Actor -> Nat]
    /\ lamport \in [Actor -> Nat]
    /\ \A a \in Actor : \A op \in log[a] :
           /\ op.actor \in Actor \union {Genesis}
           /\ op.counter \in Nat
           /\ op.lamport \in Nat

\* Nobody holds an op of an actor that the actor does not hold.
Owned ==
    \A a, b \in Actor : \A op \in log[b] :
        op.actor = a => op \in log[a] /\ op.counter <= counter[a]

OwnUnique ==
    \A a \in Actor : \A o, p \in log[a] :
        o.actor = a /\ p.actor = a /\ o.counter = p.counter => o = p

GenesisIsBase == \A a \in Actor : \A op \in log[a] : op.actor = Genesis => op \in Base

\* The log witnesses the counters, so reopening finds them again.
CounterWitnessed ==
    \A a \in Actor :
        counter[a] = 0 \/ \E op \in log[a] : op.actor = a /\ op.counter = counter[a]

LamportWitnessed ==
    \A a \in Actor : lamport[a] = 0 \/ \E op \in log[a] : op.lamport = lamport[a]

LamportCovers == \A a \in Actor : \A op \in log[a] : op.lamport <= lamport[a]

IInv ==
    /\ Typed
    /\ Owned
    /\ OwnUnique
    /\ GenesisIsBase
    /\ CounterWitnessed
    /\ LamportWitnessed
    /\ LamportCovers

-----------------------------------------------------------------------------
(* Lemmas.                                                                 *)

\* The greatest member of a set, once one is known to bound the others.
LEMMA GreatestIs ==
    ASSUME NEW S \in SUBSET Nat, NEW n \in S, \A m \in S : m <= n
    PROVE  Greatest(S) = n
<1>1. S # {}
    OBVIOUS
<1>2. \A k \in S : (\A m \in S : m <= k) => k = n
    OBVIOUS
<1>3. \E k \in S : \A m \in S : m <= k
    OBVIOUS
<1> QED
    BY <1>1, <1>2, <1>3 DEF Greatest

LEMMA GreatestOfTwo ==
    ASSUME NEW m \in Nat, NEW n \in Nat
    PROVE  Greatest({m, n}) = IF m <= n THEN n ELSE m
<1>1. CASE m <= n
    BY <1>1, GreatestIs
<1>2. CASE ~(m <= n)
    BY <1>2, GreatestIs
<1> QED
    BY <1>1, <1>2

\* An op of the base workbook is its author Genesis's, and its number names it.
LEMMA BaseOps ==
    /\ \A op \in Base : /\ op.actor = Genesis
                        /\ op.counter \in 1 .. BaseRows
                        /\ op.lamport = op.counter
    /\ \A o, p \in Base : o.counter = p.counter => o = p
    BY DEF Base

\* The base workbook's greatest clock is its number of rows.
LEMMA BaseLamport == Greatest(Lamports(Base)) = BaseRows
<1>1. Lamports(Base) = 1 .. BaseRows
  <2>1. \A n \in 1 .. BaseRows : \E op \in Base : op.lamport = n
    <3> SUFFICES ASSUME NEW n \in 1 .. BaseRows
                 PROVE  \E op \in Base : op.lamport = n
        OBVIOUS
    <3> DEFINE op == [actor |-> Genesis, counter |-> n, lamport |-> n, kind |-> "insert",
                      row |-> IF n = 1 THEN Root ELSE BaseRow(n - 1), val |-> Blank]
    <3>1. op \in Base
        BY DEF Base
    <3>2. op.lamport = n
        OBVIOUS
    <3> QED
        BY <3>1, <3>2
  <2> QED
      BY <2>1, BaseOps DEF Lamports
<1>2. CASE BaseRows = 0
    BY <1>1, <1>2 DEF Greatest
<1>3. CASE BaseRows # 0
    BY <1>1, <1>3, GreatestIs, BaseRowsAssumption
<1> QED
    BY <1>2, <1>3

LEMMA InitIInv == Init => IInv
<1> SUFFICES ASSUME Init PROVE IInv
    OBVIOUS
<1> USE ActorAssumption, BaseRowsAssumption
<1>1. PICK joining \in SUBSET Actor :
          /\ log = [a \in Actor |-> IF a \in joining THEN {} ELSE Base]
          /\ counter = [a \in Actor |-> 0]
          /\ lamport = [a \in Actor |-> Greatest(Lamports(IF a \in joining THEN {} ELSE Base))]
    BY DEF Init
<1>2. Greatest(Lamports({})) = 0
    BY DEF Greatest, Lamports
<1>3. \A a \in Actor : lamport[a] = IF a \in joining THEN 0 ELSE BaseRows
    BY <1>1, <1>2, BaseLamport
<1>4. \A a \in Actor : \A op \in log[a] : a \notin joining /\ op \in Base
    BY <1>1
<1>5. Typed
    BY <1>1, <1>3, <1>4, BaseOps DEF Typed
<1>6. Owned /\ OwnUnique /\ GenesisIsBase
    BY <1>4, BaseOps DEF Owned, OwnUnique, GenesisIsBase, Genesis
<1>7. CounterWitnessed
    BY <1>1 DEF CounterWitnessed
<1>8. LamportCovers
    BY <1>3, <1>4, BaseOps DEF LamportCovers
<1>9. LamportWitnessed
  <2> SUFFICES ASSUME NEW a \in Actor, lamport[a] # 0
               PROVE  \E op \in log[a] : op.lamport = lamport[a]
      BY DEF LamportWitnessed
  <2>1. a \notin joining /\ lamport[a] = BaseRows /\ BaseRows # 0 /\ log[a] = Base
      BY <1>1, <1>3
  <2>2. \E op \in Base : op.lamport = BaseRows
    <3> DEFINE op == [actor |-> Genesis, counter |-> BaseRows, lamport |-> BaseRows,
                      kind |-> "insert",
                      row |-> IF BaseRows = 1 THEN Root ELSE BaseRow(BaseRows - 1),
                      val |-> Blank]
    <3>1. op \in Base
        BY <2>1 DEF Base
    <3> QED
        BY <3>1
  <2> QED
      BY <2>1, <2>2
<1> QED
    BY <1>5, <1>6, <1>7, <1>8, <1>9 DEF IInv

-----------------------------------------------------------------------------
(* One lemma per way a log or a counter can change.                        *)

\* An actor authors an op: the next of its own, above everything it holds.
Authored(a, op) ==
    /\ op.actor = a
    /\ op.counter = counter[a] + 1
    /\ op.lamport = lamport[a] + 1
    /\ log' = [log EXCEPT ![a] = @ \union {op}]
    /\ counter' = [counter EXCEPT ![a] = op.counter]
    /\ lamport' = [lamport EXCEPT ![a] = op.lamport]

LEMMA KeptIInv ==
    ASSUME IInv, log' = log, counter' = counter, lamport' = lamport
    PROVE  IInv'
BY DEF IInv, Typed, Owned, OwnUnique, GenesisIsBase, CounterWitnessed, LamportWitnessed,
       LamportCovers, Base, BaseRow

\* Every command, undo and redo that emits an op authors it.
LEMMA EmitAuthors ==
    ASSUME NEW a \in Actor, NEW now, NEW kind, NEW row, NEW val,
           Emit(a, now, Mint(a, kind, row, val))
    PROVE  \E op : Authored(a, op)
<1>1. Authored(a, Mint(a, kind, row, val))
    BY DEF Emit, Mint, Authored
<1> QED
    BY <1>1

LEMMA AuthoredIInv ==
    ASSUME IInv, NEW a \in Actor, NEW op, Authored(a, op)
    PROVE  IInv'
<1> USE ActorAssumption
<1>1. /\ log = [b \in Actor |-> log[b]]
      /\ counter[a] \in Nat /\ lamport[a] \in Nat
      /\ \A b \in Actor : \A o \in log[b] : o.counter \in Nat /\ o.lamport \in Nat
    BY DEF IInv, Typed
<1>2. \A b \in Actor : log'[b] = IF b = a THEN log[a] \union {op} ELSE log[b]
    BY <1>1 DEF Authored
<1>3. /\ \A b \in Actor : counter'[b] = IF b = a THEN counter[a] + 1 ELSE counter[b]
      /\ \A b \in Actor : lamport'[b] = IF b = a THEN lamport[a] + 1 ELSE lamport[b]
    BY DEF Authored, IInv, Typed
<1>4. Typed'
  <2>1. log' = [b \in Actor |-> log'[b]]
      BY <1>1 DEF Authored
  <2>2. op.counter \in Nat /\ op.lamport \in Nat
      BY <1>1 DEF Authored
  <2>3. counter' \in [Actor -> Nat] /\ lamport' \in [Actor -> Nat]
      BY <2>2 DEF Authored, IInv, Typed
  <2>4. \A b \in Actor : \A o \in log'[b] :
            o.actor \in Actor \union {Genesis} /\ o.counter \in Nat /\ o.lamport \in Nat
      BY <1>2, <2>2 DEF Authored, IInv, Typed
  <2> QED
      BY <2>1, <2>3, <2>4 DEF Typed
<1>5. Owned'
  <2> SUFFICES ASSUME NEW b \in Actor, NEW c \in Actor, NEW o \in log'[c], o.actor = b
               PROVE  o \in log'[b] /\ o.counter <= counter'[b]
      BY DEF Owned
  <2>1. CASE o \in log[c]
      BY <2>1, <1>1, <1>2, <1>3 DEF IInv, Owned, Typed
  <2>2. CASE o = op
      BY <2>2, <1>1, <1>2, <1>3 DEF Authored
  <2> QED
      BY <1>2, <2>1, <2>2
<1>6. OwnUnique'
  <2>1. \A o \in log[a] : o.actor = a => o.counter < op.counter
      BY <1>1 DEF IInv, Owned, Authored
  <2>2. \A b \in Actor : b # a => \A o \in log'[b] : o.actor = b => o \in log[b]
      BY <1>2
  <2> QED
      BY <1>1, <1>2, <2>1, <2>2 DEF IInv, OwnUnique, Authored
<1>7. GenesisIsBase'
    BY <1>2 DEF IInv, GenesisIsBase, Authored, Genesis, Base, BaseRow
<1>8. CounterWitnessed'
    BY <1>2, <1>3 DEF IInv, CounterWitnessed, Authored
<1>9. LamportWitnessed'
    BY <1>2, <1>3 DEF IInv, LamportWitnessed, Authored
<1>10. LamportCovers'
    BY <1>1, <1>2, <1>3 DEF IInv, LamportCovers, Authored
<1> QED
    BY <1>4, <1>5, <1>6, <1>7, <1>8, <1>9, <1>10 DEF IInv

\* A delivered op is never the receiver's own: its log already has those.
LEMMA DeliveredIsForeign ==
    ASSUME IInv, NEW a \in Actor, NEW op \in Published, op \notin log[a]
    PROVE  /\ op.actor # a
           /\ op.actor \in Actor \union {Genesis} /\ op.counter \in Nat /\ op.lamport \in Nat
           /\ op.actor = Genesis => op \in Base
           /\ \A b \in Actor : op.actor = b => op \in log[b] /\ op.counter <= counter[b]
<1> USE ActorAssumption, BaseRowsAssumption
<1>1. CASE op \in Base
    BY <1>1, BaseOps DEF Genesis
<1>2. CASE \E b \in Actor : op \in log[b]
    BY <1>2 DEF IInv, Typed, Owned, GenesisIsBase
<1> QED
    BY <1>1, <1>2 DEF Published

LEMMA IntegrateIInv ==
    ASSUME IInv, NEW a \in Actor, Integrate(a)
    PROVE  IInv'
<1> USE ActorAssumption
<1>1. PICK op \in Published :
          /\ op \notin log[a]
          /\ log' = [log EXCEPT ![a] = @ \union {op}]
          /\ lamport' = [lamport EXCEPT ![a] = Greatest({@, op.lamport})]
          /\ counter' = [counter EXCEPT ![a] =
                            IF op.actor = a THEN Greatest({@, op.counter}) ELSE @]
    BY DEF Integrate, Deliverable
<1>2. /\ op.actor # a
      /\ op.actor \in Actor \union {Genesis} /\ op.counter \in Nat /\ op.lamport \in Nat
      /\ op.actor = Genesis => op \in Base
      /\ \A b \in Actor : op.actor = b => op \in log[b] /\ op.counter <= counter[b]
    BY <1>1, DeliveredIsForeign
<1>3. /\ log = [b \in Actor |-> log[b]]
      /\ counter \in [Actor -> Nat] /\ lamport \in [Actor -> Nat]
      /\ \A b \in Actor : \A o \in log[b] : o.counter \in Nat /\ o.lamport \in Nat
    BY DEF IInv, Typed
<1>4. \A b \in Actor : log'[b] = IF b = a THEN log[a] \union {op} ELSE log[b]
    BY <1>1, <1>3
<1>5. counter' = counter
    BY <1>1, <1>2, <1>3
<1>6. /\ lamport' \in [Actor -> Nat]
      /\ \A b \in Actor : lamport'[b] = IF b # a THEN lamport[b]
                                        ELSE IF lamport[a] <= op.lamport THEN op.lamport
                                        ELSE lamport[a]
  <2>1. Greatest({lamport[a], op.lamport}) = IF lamport[a] <= op.lamport THEN op.lamport
                                             ELSE lamport[a]
      BY <1>2, <1>3, GreatestOfTwo
  <2>2. lamport' = [lamport EXCEPT ![a] = IF lamport[a] <= op.lamport THEN op.lamport
                                          ELSE lamport[a]]
      BY <1>1, <2>1
  <2> QED
      BY <1>2, <1>3, <2>2
<1>7. Typed'
    BY <1>1, <1>2, <1>3, <1>4, <1>5, <1>6 DEF IInv, Typed
<1>8. Owned'
    BY <1>2, <1>4, <1>5 DEF IInv, Owned
<1>9. OwnUnique'
    BY <1>2, <1>4 DEF IInv, OwnUnique
<1>10. GenesisIsBase'
    BY <1>2, <1>4 DEF IInv, GenesisIsBase, Base, BaseRow
<1>11. CounterWitnessed'
    BY <1>4, <1>5 DEF IInv, CounterWitnessed
<1>12. LamportWitnessed'
    BY <1>4, <1>6 DEF IInv, LamportWitnessed
<1>13. LamportCovers'
    BY <1>2, <1>3, <1>4, <1>6 DEF IInv, LamportCovers
<1> QED
    BY <1>7, <1>8, <1>9, <1>10, <1>11, <1>12, <1>13 DEF IInv

\* What a reopened session mints from is what it minted from before.
LEMMA ResumedIInv ==
    ASSUME IInv, NEW a \in Actor, Resumed(a)
    PROVE  IInv'
<1> USE ActorAssumption
<1>1. /\ counter \in [Actor -> Nat] /\ lamport \in [Actor -> Nat]
      /\ \A o \in log[a] : o.counter \in Nat /\ o.lamport \in Nat
    BY DEF IInv, Typed
<1>2. ReopenCounter(a) = counter[a]
  <2> DEFINE own == Counters(log[a], a)
  <2>1. own \in SUBSET Nat
      BY <1>1 DEF Counters
  <2>2. \A n \in own : n <= counter[a]
      BY DEF IInv, Owned, Counters
  <2>3. CASE counter[a] \in own
    <3>1. Greatest(own) = counter[a]
        BY <2>1, <2>2, <2>3, GreatestIs
    <3> QED
        BY <3>1 DEF ReopenCounter
  <2>4. CASE counter[a] \notin own
    <3>1. counter[a] = 0
        BY <2>4 DEF IInv, CounterWitnessed, Counters
    <3>2. own = {}
        BY <2>1, <2>2, <2>4, <3>1
    <3>3. Greatest(own) = 0
        BY <3>2 DEF Greatest
    <3> QED
        BY <3>1, <3>3 DEF ReopenCounter
  <2> QED
      BY <2>3, <2>4
<1>3. Greatest(Lamports(log[a])) = lamport[a]
  <2> DEFINE all == Lamports(log[a])
  <2>1. all \in SUBSET Nat
      BY <1>1 DEF Lamports
  <2>2. \A n \in all : n <= lamport[a]
      BY DEF IInv, LamportCovers, Lamports
  <2>3. CASE lamport[a] \in all
      BY <2>1, <2>2, <2>3, GreatestIs
  <2>4. CASE lamport[a] \notin all
    <3>1. lamport[a] = 0
        BY <2>4 DEF IInv, LamportWitnessed, Lamports
    <3>2. all = {}
        BY <2>1, <2>2, <2>4, <3>1
    <3> QED
        BY <3>1, <3>2 DEF Greatest
  <2> QED
      BY <2>3, <2>4
<1>4. log' = log /\ counter' = counter /\ lamport' = lamport
    BY <1>1, <1>2, <1>3 DEF Resumed
<1> QED
    BY <1>4, KeptIInv

-----------------------------------------------------------------------------
(* The steps.                                                              *)

\* Only an editor's command, undo or redo authors; everything else but a
\* delivery and a reopening leaves logs and counters alone.
LEMMA Steps ==
    ASSUME [Next]_vars
    PROVE  \/ log' = log /\ counter' = counter /\ lamport' = lamport
           \/ \E a \in Actor : Integrate(a) \/ Resumed(a) \/ \E op : Authored(a, op)
<1>1. CASE vars' = vars
    BY <1>1 DEF vars
<1>2. ASSUME NEW a \in Actor, Settle(a)
      PROVE  log' = log /\ counter' = counter /\ lamport' = lamport
    BY <1>2 DEF Settle
<1>3. ASSUME NEW a \in Actor, Edit(a)
      PROVE  \E op : Authored(a, op)
    BY <1>3, EmitAuthors
       DEF Edit, SetValue, ClearCell, EnterFormula, AddRow, DeleteRow, Command
<1>4. ASSUME NEW a \in Actor, NEW entry, Drop(a, entry)
      PROVE  log' = log /\ counter' = counter /\ lamport' = lamport
    BY <1>4 DEF Drop
<1>5. ASSUME NEW a \in Actor, NEW now, NEW entry, Emit(a, now, InverseOp(a, entry))
      PROVE  \E op : Authored(a, op)
    BY <1>5, EmitAuthors DEF InverseOp
<1>6. ASSUME NEW a \in Actor, Undo(a)
      PROVE  \/ log' = log /\ counter' = counter /\ lamport' = lamport
             \/ \E op : Authored(a, op)
    BY <1>4, <1>5, <1>6 DEF Undo
<1>7. ASSUME NEW a \in Actor, Redo(a)
      PROVE  \/ log' = log /\ counter' = counter /\ lamport' = lamport
             \/ \E op : Authored(a, op)
    BY <1>4, <1>5, <1>7 DEF Redo
<1> QED
    BY <1>1, <1>2, <1>3, <1>6, <1>7 DEF Next, Reopen, Recover

LEMMA StepIInv == IInv /\ [Next]_vars => IInv'
<1> SUFFICES ASSUME IInv, [Next]_vars PROVE IInv'
    OBVIOUS
<1> QED
    BY Steps, KeptIInv, AuthoredIInv, IntegrateIInv, ResumedIInv

-----------------------------------------------------------------------------
(* The theorems.                                                           *)

LEMMA IInvAlways == Spec => []IInv
    BY InitIInv, StepIInv, PTL DEF Spec

LEMMA UniqueIds == IInv => OneOpPerId
<1> SUFFICES ASSUME IInv, NEW a \in Actor, NEW b \in Actor, NEW o \in log[a],
                    NEW p \in log[b], Id(o) = Id(p)
             PROVE  o = p
    BY DEF OneOpPerId
<1>1. o.actor = p.actor /\ o.counter = p.counter
    BY DEF Id
<1>2. CASE o.actor = Genesis
    BY <1>1, <1>2, BaseOps DEF IInv, GenesisIsBase
<1>3. CASE o.actor \in Actor
    BY <1>1, <1>3 DEF IInv, Owned, OwnUnique
<1> QED
    BY <1>2, <1>3 DEF IInv, Typed

\* An op id names one op in all logs together, whatever is edited, undone,
\* delivered, settled and reopened in whatever order.
THEOREM IdsAreUnique == Spec => []OneOpPerId
    BY IInvAlways, UniqueIds, PTL

LEMMA AuthoredLast ==
    ASSUME IInv, NEW a \in Actor, NEW op, Authored(a, op)
    PROVE  \A b \in Actor : \A p \in log'[b] \ log[b] :
               p.actor = b => \A o \in log[b] : Before(Key(o), Key(p))
<1>1. \A b \in Actor : \A p \in log'[b] \ log[b] : b = a /\ p = op
    BY DEF Authored, IInv, Typed
<1>2. \A o \in log[a] : o.lamport < op.lamport
    BY DEF IInv, Typed, LamportCovers, Authored
<1> QED
    BY <1>1, <1>2 DEF Before, Key

LEMMA StepMintsLast ==
    ASSUME IInv, [Next]_vars
    PROVE  \A a \in Actor : \A op \in log'[a] \ log[a] :
               op.actor = a => \A o \in log[a] : Before(Key(o), Key(op))
<1>1. ASSUME log' = log
      PROVE  \A a \in Actor : log'[a] \ log[a] = {}
    BY <1>1
<1>2. ASSUME NEW a \in Actor, Integrate(a)
      PROVE  \A b \in Actor : \A op \in log'[b] \ log[b] : op.actor # b
  <2>1. PICK op \in Published : op \notin log[a] /\ log' = [log EXCEPT ![a] = @ \union {op}]
      BY <1>2 DEF Integrate, Deliverable
  <2>2. op.actor # a
      BY <2>1, DeliveredIsForeign
  <2> QED
      BY <2>1, <2>2 DEF IInv, Typed
<1>3. ASSUME NEW a \in Actor, Resumed(a)
      PROVE  log' = log
    BY <1>3 DEF Resumed
<1> QED
    BY <1>1, <1>2, <1>3, Steps, AuthoredLast

\* A local edit always follows, canonically, everything its session holds, so
\* it never makes the session refold because of its own place.
THEOREM LocalEditsAtTip == Spec => MintedLast
<1>1. IInv /\ [Next]_vars =>
          [\A a \in Actor : \A op \in log'[a] \ log[a] :
              op.actor = a => \A o \in log[a] : Before(Key(o), Key(op))]_vars
    BY StepMintsLast
<1> QED
    BY <1>1, IInvAlways, PTL DEF Spec, MintedLast

-----------------------------------------------------------------------------
(* What a session folds.                                                   *)

Pair == Nat \X Nat

LEMMA RootPair == Root \in Pair /\ Blank \in Pair
BY DEF Root, Blank, Pair

\* The rows of the order are inserted ones.
LEMMA LiveInserted ==
    ASSUME NEW P, Good(P), NEW C, NEW d, NEW s, s = Folds(P, C, d),
           NEW row \in ToSet(LiveOrder(s))
    PROVE  \E o \in P : o.kind = "insert" /\ Id(o) = row
<1> DEFINE T == TreeOf(P)  n == Cardinality(T)  order == FullOrder(T)
           live == {r \in ToSet(order) : ~Dead(P, r)}
<1>1. Tree(T)
    BY TreeOfOK
<1>2. order \in Seq(IdsIn(T))
  <2> HIDE DEF T
  <2>1. n \in Nat
      BY <1>1, FS_CardinalityType DEF Tree
  <2>2. PICK run : Walks(run, T, n)
      BY <1>1, <2>1, WalkExists
  <2>3. order = run[n].out
      BY <1>1, <2>2, OrderIsWalk
  <2>4. run[n] \in WalkStates(T)
      BY <2>1, <2>2 DEF Walks
  <2> QED
      BY <2>3, <2>4 DEF WalkStates
<1>3. LiveOrder(s) = Kept(order, live)
    BY LiveOrderIs, RefOrderIsWalk
<1>4. \A r \in IdsIn(T) : \E o \in P : o.kind = "insert" /\ Id(o) = r
    BY IdOfKey DEF IdsIn, TreeOf, Leaf, Inserts
<1> HIDE DEF order, live, T, n
<1>5. Kept(order, live) \in Seq(IdsIn(T))
    BY <1>2, KeptMembers
<1>6. row \in IdsIn(T)
    BY <1>3, <1>5 DEF ToSet
<1> QED
    BY <1>4, <1>6

Contents == {c \in [kind : {"cell", "formula"}, val : Pair] : c.kind = "formula" => c.val # Blank}

LEMMA ContentTyped ==
    ASSUME NEW P, Ops(P), TextNamed(P), \A op \in P : op.val \in Pair,
           NEW C, NEW d, NEW s, s = Folds(P, C, d), NEW row
    PROVE  Content(s, row) \in Contents
<1>1. CASE Formula(s, row) # Blank
  <2>1. row \in FormulaRows(P)
      BY <1>1, NoFormula
  <2> DEFINE w == WonBy(P, row, {"cell", "formula"})
  <2>2. Writes(P, row, {"cell", "formula"}) # {}
      BY <2>1 DEF FormulaRows, Writes
  <2>3. w \in P
      BY <2>2, WonByNewest DEF IsNewest, Writes
  <2> HIDE DEF w
  <2>4. Formula(s, row) = w.val
      BY <1>1, <2>1, FormulaIs DEF w
  <2> QED
      BY <1>1, <2>3, <2>4 DEF Content, Contents
<1>2. CASE Formula(s, row) = Blank
  <2> DEFINE v == IF row \in DOMAIN s.value THEN s.value[row] ELSE Blank
  <2>1. s.value = ValueOf(P)
      BY FoldsFields
  <2>2. ASSUME row \in CellRows(P)
        PROVE  WonBy(P, row, {"cell"}).val \in Pair
    <3>1. Writes(P, row, {"cell"}) # {}
        BY <2>2 DEF CellRows, Writes
    <3> QED
        BY <3>1, WonByNewest DEF IsNewest, Writes
  <2>3. v \in Pair
      BY <2>1, <2>2, RootPair DEF ValueOf
  <2>4. Content(s, row) = [kind |-> "cell", val |-> v]
      BY <1>2 DEF Content
  <2> QED
      BY <2>3, <2>4 DEF Contents
<1> QED
    BY <1>1, <1>2

\* s has folded P.
HasFolded(s, P) == s = Folds(P, s.contested, s.folded)

LEMMA FoldsOwn ==
    ASSUME NEW P, NEW D, NEW e, NEW s, s = Folds(P, D, e)
    PROVE  HasFolded(s, P)
BY FoldsFields DEF HasFolded

-----------------------------------------------------------------------------
(* The rest of the inductive invariant.                                    *)

Texted(op) == op.kind = "formula" => op.val # Blank

\* A log is finite, and its ops are well formed.
Shaped ==
    \A a \in Actor : IsFiniteSet(log[a]) /\ \A op \in log[a] : op \in AnyOp /\ Texted(op)

\* A row's anchor is the start or a row some op made, before it.
Rooted(op) ==
    op.kind = "insert" => \/ op.row = Root
                          \/ \E o \in Published : Id(o) = op.row /\ Before(Key(o), Key(op))

Anchored == \A op \in Published : Rooted(op)

Entries == {e \in Entry : e.prior \in Contents}

Stacked ==
    /\ undo \in [Actor -> Seq(Entries)]
    /\ redo \in [Actor -> Seq(Entries)]

Waiting ==
    /\ pending = [a \in Actor |-> pending[a]]
    /\ \A a \in Actor : pending[a] \in Seq(log[a])

\* A session's state has folded all of its log that is not pending.
Folded ==
    /\ state = [a \in Actor |-> state[a]]
    /\ \A a \in Actor : HasFolded(state[a], log[a] \ ToSet(pending[a]))

SInv ==
    /\ IInv
    /\ Shaped
    /\ Anchored
    /\ Stacked
    /\ Waiting
    /\ Folded

LEMMA BaseShape ==
    \A op \in Base : op \in AnyOp /\ Texted(op) /\ op.kind = "insert"
<1> USE BaseRowsAssumption
<1> SUFFICES ASSUME NEW n \in 1 .. BaseRows
             PROVE  LET op == [actor |-> Genesis, counter |-> n, lamport |-> n, kind |-> "insert",
                               row |-> IF n = 1 THEN Root ELSE BaseRow(n - 1), val |-> Blank]
                    IN op \in AnyOp /\ Texted(op) /\ op.kind = "insert"
    BY DEF Base
<1> DEFINE r == IF n = 1 THEN Root ELSE BaseRow(n - 1)
<1>1. r \in Nat \X Nat
    BY DEF Root, BaseRow, Genesis
<1>2. Blank \in Nat \X Nat
    BY DEF Blank
<1> HIDE DEF r
<1> QED
    BY <1>1, <1>2 DEF AnyOp, OpKind, Texted, Genesis, r

LEMMA BaseFinite == IsFiniteSet(Base)
<1> DEFINE I == 1 .. BaseRows
           f == [n \in I |-> [actor |-> Genesis, counter |-> n, lamport |-> n, kind |-> "insert",
                              row |-> IF n = 1 THEN Root ELSE BaseRow(n - 1), val |-> Blank]]
<1>1. f \in Surjection(I, Base)
    BY DEF Base, Surjection
<1>2. IsFiniteSet(I)
    BY BaseRowsAssumption, FS_Interval
<1> HIDE DEF f, I
<1> QED
    BY <1>1, <1>2, FS_Surjection

LEMMA BaseRooted ==
    \A op \in Base : op.row = Root \/ \E o \in Base : Id(o) = op.row /\ Before(Key(o), Key(op))
<1> USE BaseRowsAssumption
<1> DEFINE at(n) == [actor |-> Genesis, counter |-> n, lamport |-> n, kind |-> "insert",
                     row |-> IF n = 1 THEN Root ELSE BaseRow(n - 1), val |-> Blank]
<1> SUFFICES ASSUME NEW n \in 1 .. BaseRows, n # 1
             PROVE  \E o \in Base : Id(o) = at(n).row /\ Before(Key(o), Key(at(n)))
    BY DEF Base
<1>1. at(n - 1) \in Base
    BY DEF Base
<1>2. Id(at(n - 1)) = at(n).row
    BY DEF Id, BaseRow
<1>3. Before(Key(at(n - 1)), Key(at(n)))
    BY DEF Before, Key
<1> QED
    BY <1>1, <1>2, <1>3

LEMMA PublishedUnique ==
    ASSUME IInv, NEW o \in Published, NEW p \in Published, Id(o) = Id(p)
    PROVE  o = p
<1>1. o.actor = p.actor /\ o.counter = p.counter
    BY DEF Id
<1>2. \A q \in Published : q.actor = Genesis => q \in Base
    BY DEF Published, IInv, GenesisIsBase
<1>3. CASE o.actor = Genesis
    BY <1>1, <1>2, <1>3, BaseOps
<1>4. CASE o.actor # Genesis
  <2>1. PICK b \in Actor, c \in Actor : o \in log[b] /\ p \in log[c]
      BY <1>1, <1>4, BaseOps DEF Published
  <2> QED
      BY <2>1, UniqueIds DEF OneOpPerId
<1> QED
    BY <1>3, <1>4

\* A session's log is one a fold may meet.
LEMMA LogGood ==
    ASSUME IInv, Shaped, Anchored, NEW a \in Actor
    PROVE  Good(log[a]) /\ TextNamed(log[a]) /\ (\A op \in log[a] : op.val \in Pair)
           /\ \A op \in log[a] : op.kind \in OpKind
<1> USE ActorAssumption
<1>1. \A op \in log[a] : op \in AnyOp /\ Texted(op) /\ op \in Published
    BY DEF Shaped, Published
<1>2. Ops(log[a])
  <2>1. IsFiniteSet(log[a])
      BY DEF Shaped
  <2>2. \A op \in log[a] : op.actor \in Nat /\ op.counter \in Nat /\ op.lamport \in Nat
    <3> SUFFICES ASSUME NEW op \in log[a]
                 PROVE  op.actor \in Nat /\ op.counter \in Nat /\ op.lamport \in Nat
        OBVIOUS
    <3>1. op \in AnyOp
        BY <1>1
    <3>2. Genesis \in Nat
        BY DEF Genesis
    <3> QED
        BY <3>1, <3>2 DEF AnyOp
  <2> QED
      BY <1>1, <2>1, <2>2, PublishedUnique DEF Ops
<1>3. \A op \in log[a] : Id(op) # Root
  <2> SUFFICES ASSUME NEW op \in log[a], Id(op) = Root PROVE FALSE
      OBVIOUS
  <2>1. op.actor = 0 /\ op.counter = 0
      BY DEF Id, Root
  <2>2. op \in Base
      BY <2>1 DEF IInv, GenesisIsBase, Genesis
  <2> QED
      BY <2>1, <2>2, BaseOps
<1>4. ASSUME NEW op \in log[a], op.kind = "insert", NEW o \in log[a], op.row = Id(o)
      PROVE  Before(Key(o), Key(op))
  <2>1. PICK p \in Published : Id(p) = op.row /\ Before(Key(p), Key(op))
      BY <1>1, <1>3, <1>4 DEF Anchored, Rooted
  <2>2. p = o
      BY <1>1, <1>4, <2>1, PublishedUnique
  <2> QED
      BY <2>1, <2>2
<1>5. Good(log[a])
    BY <1>2, <1>3, <1>4 DEF Good, Inserts
<1>6. TextNamed(log[a])
    BY <1>1 DEF TextNamed, Texted
<1>7. \A op \in log[a] : op.val \in Pair /\ op.kind \in OpKind
    BY <1>1 DEF AnyOp, Pair
<1> QED
    BY <1>5, <1>6, <1>7

\* Settling folds the whole log, whichever path it takes.
LEMMA SettledFolds ==
    ASSUME SInv, NEW a \in Actor
    PROVE  HasFolded(Settled(a), log[a])
<1> DEFINE P == log[a]  Q == log[a] \ ToSet(pending[a])  batch == pending[a]
           C == state[a].contested  d == state[a].folded
<1>1. Good(P) /\ \A op \in P : op.kind \in OpKind
    BY LogGood DEF SInv
<1>2. batch \in Seq(P)
    BY DEF SInv, Waiting
<1>3. state[a] = Folds(Q, C, d)
    BY DEF SInv, Folded, HasFolded
<1>4. P = Q \union ToSet(batch)
  <2>1. ToSet(batch) \subseteq P
      BY <1>2 DEF ToSet
  <2> QED
      BY <2>1
<1>5. CASE batch = <<>>
  <2>1. Settled(a) = state[a]
      BY <1>5 DEF Settled
  <2>2. Q = P
      BY <1>5 DEF ToSet
  <2> QED
      BY <1>3, <2>1, <2>2, FoldsOwn
<1>6. CASE batch # <<>> /\ TipAccepts(state[a], batch)
  <2>1. Settled(a) = ApplyTip(state[a], batch)
      BY <1>6 DEF Settled
  <2>2. Ascends(Folds(Q, C, d), batch)
      BY <1>3, <1>6 DEF TipAccepts
  <2>3. Q \in SUBSET P
      OBVIOUS
  <2> HIDE DEF P, Q, C, d, batch
  <2>4. ApplyTip(Folds(Q, C, d), batch) = Folds(P, C, d)
      BY <1>1, <1>2, <1>4, <2>2, <2>3, TipMeans
  <2>5. Settled(a) = Folds(P, C, d)
      BY <1>3, <2>1, <2>4
  <2> QED
      BY <2>5, FoldsOwn DEF P
<1>7. CASE batch # <<>> /\ ~TipAccepts(state[a], batch)
  <2>1. Settled(a) = Replay(P)
      BY <1>7 DEF Settled
  <2>2. Replay(P) = Meaning(P, SlotsOf(P), Contested(P), FormulaRows(P), TRUE)
      BY <1>1, ReplayMeans
  <2>3. Settled(a) = Folds(P, Contested(P), TRUE)
      BY <2>1, <2>2 DEF Folds
  <2> QED
      BY <2>3, FoldsOwn
<1> QED
    BY <1>5, <1>6, <1>7

-----------------------------------------------------------------------------
(* The first state.                                                        *)

LEMMA EmptyFolds == EmptyState = Folds({}, {}, FALSE)
<1>1. TreeOf({}) = {} /\ Tombs({}) = {} /\ WritersOf({}) = {}
    BY DEF TreeOf, Inserts, Tombs, WritersOf
<1>2. CellRows({}) = {} /\ FormulaRows({}) = {}
    BY DEF CellRows, FormulaRows
<1>3. ValueOf({}) = NoMap /\ MetaOf({}, {}) = NoMap /\ FormulasOf({}, {}) = NoMap
    BY <1>2 DEF ValueOf, MetaOf, FormulasOf, NoMap
<1> QED
    BY <1>1, <1>2, <1>3, SlotsOfNone, TipOfNone, Zenon DEF EmptyState, Folds, Meaning

LEMMA ReplayFolds ==
    ASSUME NEW P, Good(P), \A op \in P : op.kind \in OpKind
    PROVE  HasFolded(Replay(P), P)
<1>1. Replay(P) = Folds(P, Contested(P), TRUE)
    BY ReplayMeans DEF Folds
<1> QED
    BY <1>1, FoldsOwn

LEMMA InitSInv == Init => SInv
<1> SUFFICES ASSUME Init PROVE SInv
    OBVIOUS
<1>1. PICK joining \in SUBSET Actor :
          /\ log = [a \in Actor |-> IF a \in joining THEN {} ELSE Base]
          /\ state = [a \in Actor |-> IF a \in joining THEN EmptyState ELSE Replay(Base)]
          /\ pending = [a \in Actor |-> <<>>]
          /\ undo = [a \in Actor |-> <<>>]
          /\ redo = [a \in Actor |-> <<>>]
    BY DEF Init
<1>2. IInv
    BY InitIInv
<1>3. Shaped
    BY <1>1, BaseShape, BaseFinite, FS_EmptySet DEF Shaped
<1>4. Anchored
  <2>1. Base \subseteq Published /\ Published \subseteq Base
      BY <1>1 DEF Published
  <2> QED
      BY <2>1, BaseRooted DEF Anchored, Rooted
<1>5. Stacked
    BY <1>1 DEF Stacked
<1>6. Waiting
    BY <1>1 DEF Waiting
<1>7. Folded
  <2>1. state = [a \in Actor |-> state[a]]
      BY <1>1
  <2> SUFFICES ASSUME NEW a \in Actor
               PROVE  HasFolded(state[a], log[a] \ ToSet(pending[a]))
      BY <2>1 DEF Folded
  <2>2. log[a] \ ToSet(pending[a]) = log[a]
      BY <1>1 DEF ToSet
  <2>3. CASE a \in joining
    <3>1. log[a] = {} /\ state[a] = EmptyState
        BY <1>1, <2>3
    <3> QED
        BY <2>2, <3>1, EmptyFolds, FoldsOwn
  <2>4. CASE a \notin joining
    <3>1. log[a] = Base /\ state[a] = Replay(Base)
        BY <1>1, <2>4
    <3>2. Good(log[a]) /\ \A op \in log[a] : op.kind \in OpKind
        BY <1>2, <1>3, <1>4, LogGood
    <3> QED
        BY <2>2, <3>1, <3>2, ReplayFolds
  <2> QED
      BY <2>3, <2>4
<1> QED
    BY <1>2, <1>3, <1>4, <1>5, <1>6, <1>7 DEF SInv

-----------------------------------------------------------------------------
(* The steps.                                                              *)

LEMMA BaseStays == Base' = Base
BY DEF Base, BaseRow, Genesis, Root, Blank

\* A log is a function of its actor.
LEMMA Logs == IInv => log = [b \in Actor |-> log[b]]
BY DEF IInv, Typed

LEMMA PublishedGrows ==
    ASSUME IInv, NEW a \in Actor, NEW op, log' = [log EXCEPT ![a] = @ \union {op}]
    PROVE  Published' = Published \union {op}
<1>1. \A b \in Actor : log'[b] = IF b = a THEN log[a] \union {op} ELSE log[b]
    BY Logs
<1>2. UNION {log'[b] : b \in Actor} = (UNION {log[b] : b \in Actor}) \union {op}
    BY <1>1
<1> QED
    BY <1>2, BaseStays DEF Published

LEMMA PublishedStays ==
    ASSUME log' = log
    PROVE  Published' = Published
BY BaseStays DEF Published

\* One op more in one log, rooted in what was published or already published.
LEMMA LogsGrow ==
    ASSUME SInv, NEW a \in Actor, NEW op, log' = [log EXCEPT ![a] = @ \union {op}],
           op \in AnyOp, Texted(op), Rooted(op)
    PROVE  Shaped' /\ Anchored'
<1>1. \A b \in Actor : log'[b] = IF b = a THEN log[a] \union {op} ELSE log[b]
    BY Logs DEF SInv
<1>2. Published' = Published \union {op}
    BY PublishedGrows DEF SInv
<1>3. Shaped'
  <2>1. \A b \in Actor : IsFiniteSet(log'[b])
      BY <1>1, FS_AddElement DEF SInv, Shaped
  <2>2. \A b \in Actor : \A o \in log'[b] : o \in AnyOp /\ Texted(o)
      BY <1>1 DEF SInv, Shaped
  <2> QED
      BY <2>1, <2>2 DEF Shaped
<1>4. Anchored'
    BY <1>2 DEF SInv, Anchored, Rooted
<1> QED
    BY <1>3, <1>4

\* An op that may join the log of a.
Fits(a, op) == op \in AnyOp /\ Texted(op) /\ Rooted(op) /\ op \notin log[a]

Rest == Shaped /\ Anchored /\ Waiting /\ Folded

\* An authored op waits alone; the session has folded everything before it.
LEMMA EmitStep ==
    ASSUME SInv, NEW a \in Actor, NEW op, Fits(a, op), Emit(a, Settled(a), op)
    PROVE  Rest'
<1>1. /\ log' = [log EXCEPT ![a] = @ \union {op}]
      /\ state' = [state EXCEPT ![a] = Settled(a)]
      /\ pending' = [pending EXCEPT ![a] = <<op>>]
    BY DEF Emit
<1>2. Shaped' /\ Anchored'
    BY <1>1, LogsGrow DEF Fits
<1>3. /\ log = [b \in Actor |-> log[b]]
      /\ state = [b \in Actor |-> state[b]]
      /\ pending = [b \in Actor |-> pending[b]]
    BY Logs DEF SInv, Waiting, Folded
<1>4. /\ log'[a] = log[a] \union {op} /\ pending'[a] = <<op>> /\ state'[a] = Settled(a)
      /\ \A b \in Actor : b # a =>
            log'[b] = log[b] /\ pending'[b] = pending[b] /\ state'[b] = state[b]
    BY <1>1, <1>3
<1>5. Waiting'
  <2>1. pending' = [b \in Actor |-> pending'[b]]
      BY <1>1, <1>3
  <2>2. \A b \in Actor : pending'[b] \in Seq(log'[b])
    <3>1. <<op>> \in Seq(log[a] \union {op})
        OBVIOUS
    <3> QED
        BY <1>4, <3>1 DEF SInv, Waiting
  <2> QED
      BY <2>1, <2>2 DEF Waiting
<1>6. Folded'
  <2>1. state' = [b \in Actor |-> state'[b]]
      BY <1>1, <1>3
  <2>2. log'[a] \ ToSet(pending'[a]) = log[a]
      BY <1>4 DEF ToSet, Fits
  <2>3. HasFolded(state'[a], log'[a] \ ToSet(pending'[a]))
      BY <1>4, <2>2, SettledFolds
  <2>4. \A b \in Actor : HasFolded(state'[b], log'[b] \ ToSet(pending'[b]))
      BY <1>4, <2>3 DEF SInv, Folded
  <2> QED
      BY <2>1, <2>4 DEF Folded
<1> QED
    BY <1>2, <1>5, <1>6 DEF Rest

\* Another state and another batch, which between them hold the log.
LEMMA ResetStep ==
    ASSUME SInv, NEW a \in Actor, NEW s, NEW batch, batch \in Seq(log[a]),
           HasFolded(s, log[a] \ ToSet(batch)), log' = log,
           pending' = [pending EXCEPT ![a] = batch], state' = [state EXCEPT ![a] = s]
    PROVE  Rest'
<1>1. Shaped' /\ Anchored'
  <2>1. Published' = Published
      BY PublishedStays
  <2> QED
      BY <2>1 DEF SInv, Shaped, Anchored, Rooted
<1>2. /\ state = [b \in Actor |-> state[b]]
      /\ pending = [b \in Actor |-> pending[b]]
    BY DEF SInv, Waiting, Folded
<1>3. /\ pending'[a] = batch /\ state'[a] = s
      /\ \A b \in Actor : b # a => pending'[b] = pending[b] /\ state'[b] = state[b]
    BY <1>2
<1>4. Waiting'
  <2>1. \A b \in Actor : pending'[b] \in Seq(log'[b])
      BY <1>3 DEF SInv, Waiting
  <2>2. pending' = [b \in Actor |-> pending'[b]]
      BY <1>2
  <2> QED
      BY <2>1, <2>2 DEF Waiting
<1>5. Folded'
  <2>1. state' = [b \in Actor |-> state'[b]]
      BY <1>2
  <2>2. \A b \in Actor : HasFolded(state'[b], log'[b] \ ToSet(pending'[b]))
      BY <1>3 DEF SInv, Folded
  <2> QED
      BY <2>1, <2>2 DEF Folded
<1> QED
    BY <1>1, <1>4, <1>5 DEF Rest

\* A settled state that has nothing to wait for.
LEMMA CleanStep ==
    ASSUME SInv, NEW a \in Actor, NEW s, HasFolded(s, log[a]), log' = log,
           pending' = [pending EXCEPT ![a] = <<>>], state' = [state EXCEPT ![a] = s]
    PROVE  Rest'
<1> DEFINE none == <<>>
<1>1. none \in Seq(log[a]) /\ log[a] \ ToSet(none) = log[a]
    BY DEF ToSet
<1> HIDE DEF none
<1>2. HasFolded(s, log[a] \ ToSet(none))
    BY <1>1
<1>3. pending' = [pending EXCEPT ![a] = none]
    BY DEF none
<1> QED
    BY <1>1, <1>2, <1>3, ResetStep

LEMMA SettleStep ==
    ASSUME SInv, NEW a \in Actor, log' = log, pending' = [pending EXCEPT ![a] = <<>>],
           state' = [state EXCEPT ![a] = Settled(a)]
    PROVE  Rest'
BY SettledFolds, CleanStep

LEMMA ReopenStep ==
    ASSUME SInv, NEW a \in Actor, log' = log, pending' = [pending EXCEPT ![a] = <<>>],
           state' = [state EXCEPT ![a] = Replay(log[a])]
    PROVE  Rest'
<1>1. HasFolded(Replay(log[a]), log[a])
    BY LogGood, ReplayFolds DEF SInv
<1> QED
    BY <1>1, CleanStep

\* A delivered op joins what waits; what was folded is as it was.
LEMMA IntegrateStep ==
    ASSUME SInv, NEW a \in Actor, Integrate(a)
    PROVE  Rest'
<1>1. PICK op \in Published :
          /\ op \notin log[a]
          /\ log' = [log EXCEPT ![a] = @ \union {op}]
          /\ pending' = [pending EXCEPT ![a] = Append(@, op)]
          /\ state' = state
    BY DEF Integrate, Deliverable
<1>2. op \in AnyOp /\ Texted(op) /\ Rooted(op)
    BY BaseShape DEF SInv, Shaped, Anchored, Published
<1>3. Shaped' /\ Anchored'
    BY <1>1, <1>2, LogsGrow
<1>4. /\ log = [b \in Actor |-> log[b]]
      /\ pending = [b \in Actor |-> pending[b]]
    BY Logs DEF SInv, Waiting
<1>5. /\ log'[a] = log[a] \union {op} /\ pending'[a] = Append(pending[a], op)
      /\ \A b \in Actor : b # a => log'[b] = log[b] /\ pending'[b] = pending[b]
    BY <1>1, <1>4
<1>6. pending[a] \in Seq(log[a])
    BY DEF SInv, Waiting
<1>7. Waiting'
  <2> DEFINE L == log[a]  M == log[a] \union {op}  s == pending[a]
  <2>1. s \in Seq(L) /\ L \subseteq M /\ op \in M
      BY <1>6
  <2> HIDE DEF L, M, s
  <2>2. s \in Seq(M)
      BY <2>1, SeqMonotonic
  <2>3. Append(s, op) \in Seq(M)
      BY <2>1, <2>2
  <2>4. \A b \in Actor : pending'[b] \in Seq(log'[b])
      BY <1>5, <2>3 DEF SInv, Waiting, M, s
  <2>5. pending' = [b \in Actor |-> pending'[b]]
      BY <1>1, <1>4
  <2> QED
      BY <2>4, <2>5 DEF Waiting
<1>8. Folded'
  <2> DEFINE s == pending[a]  L == log[a]
  <2>1. s \in Seq(L) /\ op \notin L
      BY <1>1, <1>6
  <2> HIDE DEF s, L
  <2>2. ToSet(Append(s, op)) = ToSet(s) \union {op}
      BY <2>1 DEF ToSet
  <2>3. (L \union {op}) \ ToSet(Append(s, op)) = L \ ToSet(s)
      BY <2>1, <2>2
  <2>4. \A b \in Actor : log'[b] \ ToSet(pending'[b]) = log[b] \ ToSet(pending[b])
      BY <1>5, <2>3 DEF s, L
  <2>5. \A b \in Actor : HasFolded(state[b], log'[b] \ ToSet(pending'[b]))
      BY <2>4 DEF SInv, Folded
  <2>6. state = [b \in Actor |-> state[b]]
      BY DEF SInv, Folded
  <2> QED
      BY <1>1, <2>5, <2>6 DEF Folded
<1> QED
    BY <1>3, <1>7, <1>8 DEF Rest

\* A restarted session has folded nothing, and all of its log waits.
LEMMA RecoverStep ==
    ASSUME SInv, NEW a \in Actor, log' = log,
           pending' = [pending EXCEPT ![a] = Canonical(log[a])],
           state' = [state EXCEPT ![a] = EmptyState]
    PROVE  Rest'
<1>1. Canonical(log[a]) \in Seq(log[a]) /\ ToSet(Canonical(log[a])) = log[a]
  <2> DEFINE L == log[a]  c == Canonical(L)  n == Cardinality(L)
  <2>1. Ops(L) /\ IsFiniteSet(L)
      BY LogGood DEF SInv, Good, Ops
  <2>2. Lists(c, L, OpOrder(L))
      BY <2>1, CanonicalLists
  <2>3. n \in Nat
      BY <2>1, FS_CardinalityType
  <2> HIDE DEF L, c, n
  <2>4. c \in [1 .. n -> L] /\ \A x \in L : \E i \in 1 .. n : c[i] = x
      BY <2>2 DEF Lists, n
  <2>5. c \in Seq(L)
      BY <2>3, <2>4 DEF Seq
  <2>6. ToSet(c) = L
      BY <2>4 DEF ToSet
  <2> QED
      BY <2>5, <2>6 DEF c, L
<1>2. HasFolded(EmptyState, {})
    BY EmptyFolds, FoldsOwn
<1>3. HasFolded(EmptyState, log[a] \ ToSet(Canonical(log[a])))
    BY <1>1, <1>2
<1> QED
    BY <1>1, <1>3, ResetStep

\* What an actor mints may join its log.
LEMMA MintFits ==
    ASSUME SInv, NEW a \in Actor, NEW kind \in OpKind, NEW row \in Pair, NEW val \in Pair,
           kind = "formula" => val # Blank,
           kind = "insert" => row = Root \/ \E o \in log[a] : Id(o) = row
    PROVE  Fits(a, Mint(a, kind, row, val))
<1> DEFINE op == Mint(a, kind, row, val)
<1> USE ActorAssumption
<1>1. counter[a] \in Nat /\ lamport[a] \in Nat
    BY DEF SInv, IInv, Typed
<1>2. /\ op.actor = a /\ op.counter = counter[a] + 1 /\ op.lamport = lamport[a] + 1
      /\ op.kind = kind /\ op.row = row /\ op.val = val
    BY DEF Mint
<1>3. op \in AnyOp
    BY <1>1 DEF Mint, AnyOp, Pair
<1>4. \A o \in log[a] : o.lamport \in Nat /\ o.lamport < op.lamport
    BY <1>1, <1>2 DEF SInv, IInv, Typed, LamportCovers
<1>5. op \notin log[a]
    BY <1>4
<1> HIDE DEF op
<1>6. Texted(op)
    BY <1>2 DEF Texted
<1>7. Rooted(op)
    BY <1>2, <1>4 DEF Rooted, Published, Before, Key
<1> QED
    BY <1>3, <1>5, <1>6, <1>7 DEF Fits, op

\* Rows in sight are rows of the log, and their content is kept whole.
LEMMA SeenRows ==
    ASSUME SInv, NEW a \in Actor, NEW row \in ToSet(LiveOrder(Settled(a)))
    PROVE  row \in Pair /\ \E o \in log[a] : Id(o) = row
<1>1. Settled(a) = Folds(log[a], Settled(a).contested, Settled(a).folded)
    BY SettledFolds DEF HasFolded
<1>2. Good(log[a])
    BY LogGood DEF SInv
<1>3. PICK o \in log[a] : Id(o) = row
    BY <1>1, <1>2, LiveInserted
<1>4. o.actor \in Nat /\ o.counter \in Nat
    BY <1>2 DEF Good, Ops
<1> QED
    BY <1>3, <1>4 DEF Id, Pair

LEMMA SeenContent ==
    ASSUME SInv, NEW a \in Actor, NEW row
    PROVE  Content(Settled(a), row) \in Contents
<1>1. Settled(a) = Folds(log[a], Settled(a).contested, Settled(a).folded)
    BY SettledFolds DEF HasFolded
<1>2. Good(log[a]) /\ TextNamed(log[a]) /\ \A op \in log[a] : op.val \in Pair
    BY LogGood DEF SInv
<1> QED
    BY <1>1, <1>2, ContentTyped DEF Good

\* What may be undone.
LEMMA EntriesMade ==
    ASSUME NEW row \in Pair, NEW prior \in Contents
    PROVE  WroteCell(row, prior) \in Entries /\ Inserted(row) \in Entries /\ Deleted(row) \in Entries
<1>1. NoContent \in Contents
    BY RootPair DEF NoContent, Contents
<1> QED
    BY <1>1 DEF Contents, WroteCell, Inserted, Deleted, Entries, Entry, Pair

LEMMA CommandStep ==
    ASSUME SInv, NEW a \in Actor, NEW op, Fits(a, op), NEW entry \in Entries,
           Command(a, Settled(a), op, entry)
    PROVE  Rest' /\ Stacked'
<1>1. Rest'
    BY EmitStep DEF Command
<1>2. Stacked'
  <2>1. undo \in [Actor -> Seq(Entries)] /\ redo \in [Actor -> Seq(Entries)]
      BY DEF SInv, Stacked
  <2>2. Append(undo[a], entry) \in Seq(Entries)
      BY <2>1
  <2>3. undo' \in [Actor -> Seq(Entries)] /\ redo' \in [Actor -> Seq(Entries)]
      BY <2>1, <2>2 DEF Command
  <2> QED
      BY <2>3 DEF Stacked
<1> QED
    BY <1>1, <1>2

LEMMA EditStep ==
    ASSUME SInv, NEW a \in Actor, Edit(a)
    PROVE  Rest' /\ Stacked'
<1> DEFINE now == Settled(a)  live == ToSet(LiveOrder(now))
<1> USE ActorAssumption
<1>1. NextId(a) \in Pair /\ NextId(a) # Blank
    BY DEF NextId, Pair, Blank, SInv, IInv, Typed, Genesis
<1>2. {"cell", "formula", "insert", "delete"} \subseteq OpKind
    BY DEF OpKind
<1>3. \A row \in live : row \in Pair /\ \E o \in log[a] : Id(o) = row
    BY SeenRows
<1>4. \A row : Content(now, row) \in Contents
    BY SeenContent
<1> HIDE DEF now, live
<1>5. ASSUME NEW row \in live, SetValue(a, now, row)
      PROVE  Rest' /\ Stacked'
  <2>1. Fits(a, Mint(a, "cell", row, NextId(a)))
      BY <1>1, <1>2, <1>3, MintFits
  <2>2. WroteCell(row, Content(now, row)) \in Entries
      BY <1>3, <1>4, EntriesMade
  <2> QED
      BY <1>5, <2>1, <2>2, CommandStep DEF SetValue, now
<1>6. ASSUME NEW row \in live, ClearCell(a, now, row)
      PROVE  Rest' /\ Stacked'
  <2>1. Fits(a, Mint(a, "cell", row, Blank))
      BY <1>2, <1>3, MintFits, RootPair
  <2>2. WroteCell(row, Content(now, row)) \in Entries
      BY <1>3, <1>4, EntriesMade
  <2> QED
      BY <1>6, <2>1, <2>2, CommandStep DEF ClearCell, now
<1>7. ASSUME NEW row \in live, EnterFormula(a, now, row)
      PROVE  Rest' /\ Stacked'
  <2>1. Fits(a, Mint(a, "formula", row, NextId(a)))
      BY <1>1, <1>2, <1>3, MintFits
  <2>2. WroteCell(row, Content(now, row)) \in Entries
      BY <1>3, <1>4, EntriesMade
  <2> QED
      BY <1>7, <2>1, <2>2, CommandStep DEF EnterFormula, now
<1>8. ASSUME NEW row \in live, DeleteRow(a, now, row)
      PROVE  Rest' /\ Stacked'
  <2>1. Fits(a, Mint(a, "delete", row, Blank))
      BY <1>2, <1>3, MintFits, RootPair
  <2>2. Deleted(row) \in Entries
      BY <1>3, <1>4, EntriesMade
  <2> QED
      BY <1>8, <2>1, <2>2, CommandStep DEF DeleteRow, now
<1>9. ASSUME NEW anchor \in live \union {Root}, AddRow(a, now, anchor)
      PROVE  Rest' /\ Stacked'
  <2>1. Fits(a, Mint(a, "insert", anchor, Blank))
      BY <1>2, <1>3, MintFits, RootPair
  <2>2. Inserted(NextId(a)) \in Entries
      BY <1>1, <1>4, EntriesMade
  <2> QED
      BY <1>9, <2>1, <2>2, CommandStep DEF AddRow, now
<1> QED
    BY <1>5, <1>6, <1>7, <1>8, <1>9 DEF Edit, now, live

\* The inverse of an entry may join the log, and can be taken back itself.
LEMMA InverseFits ==
    ASSUME SInv, NEW a \in Actor, NEW entry \in Entries
    PROVE  Fits(a, InverseOp(a, entry)) /\ InverseEntry(Settled(a), entry) \in Entries
<1>1. /\ entry.kind \in {"wrote", "inserted", "deleted"}
      /\ entry.row \in Pair /\ entry.prior \in Contents
    BY DEF Entries, Entry, Pair
<1>2. /\ entry.prior.kind \in {"cell", "formula"} /\ entry.prior.val \in Pair
      /\ entry.prior.kind = "formula" => entry.prior.val # Blank
    BY <1>1 DEF Contents
<1>3. Fits(a, InverseOp(a, entry))
  <2> DEFINE kind == CASE entry.kind = "wrote"    -> entry.prior.kind
                       [] entry.kind = "inserted" -> "delete"
                       [] entry.kind = "deleted"  -> "undelete"
             val == IF entry.kind = "wrote" THEN entry.prior.val ELSE Blank
  <2>1. kind \in OpKind /\ kind # "insert" /\ val \in Pair /\ (kind = "formula" => val # Blank)
      BY <1>1, <1>2, RootPair DEF OpKind
  <2>2. InverseOp(a, entry) = Mint(a, kind, entry.row, val)
      BY DEF InverseOp
  <2> HIDE DEF kind, val
  <2> QED
      BY <1>1, <2>1, <2>2, MintFits
<1>4. InverseEntry(Settled(a), entry) \in Entries
  <2>1. Content(Settled(a), entry.row) \in Contents
      BY SeenContent
  <2>2. /\ WroteCell(entry.row, Content(Settled(a), entry.row)) \in Entries
        /\ Inserted(entry.row) \in Entries /\ Deleted(entry.row) \in Entries
      BY <1>1, <2>1, EntriesMade
  <2> QED
      BY <1>1, <2>2 DEF InverseEntry
<1> QED
    BY <1>3, <1>4

LEMMA TopOfStack ==
    ASSUME NEW X, NEW s \in Seq(X), s # <<>>
    PROVE  Last(s) \in X /\ Front(s) \in Seq(X)
BY DEF Last, Front

LEMMA UndoStep ==
    ASSUME SInv, NEW a \in Actor, Undo(a)
    PROVE  Rest' /\ Stacked'
<1> DEFINE entry == Last(undo[a])  now == Settled(a)
<1>1. undo \in [Actor -> Seq(Entries)] /\ redo \in [Actor -> Seq(Entries)]
    BY DEF SInv, Stacked
<1>2. entry \in Entries /\ Front(undo[a]) \in Seq(Entries)
    BY <1>1, TopOfStack DEF Undo
<1> HIDE DEF entry, now
<1>3. Fits(a, InverseOp(a, entry)) /\ InverseEntry(now, entry) \in Entries
    BY <1>2, InverseFits DEF now
<1>4. Append(redo[a], InverseEntry(now, entry)) \in Seq(Entries)
    BY <1>1, <1>3
<1>5. undo' \in [Actor -> Seq(Entries)]
    BY <1>1, <1>2 DEF Undo
<1>6. CASE Drop(a, now) /\ redo' = redo
    BY <1>1, <1>5, <1>6, SettleStep DEF Drop, now, Stacked
<1>7. CASE /\ Emit(a, now, InverseOp(a, entry))
           /\ redo' = [redo EXCEPT ![a] = Append(@, InverseEntry(now, entry))]
  <2>1. Rest'
      BY <1>3, <1>7, EmitStep DEF now
  <2>2. redo' \in [Actor -> Seq(Entries)]
      BY <1>1, <1>4, <1>7
  <2> QED
      BY <1>5, <2>1, <2>2 DEF Stacked
<1> QED
    BY <1>6, <1>7 DEF Undo, entry, now

LEMMA RedoStep ==
    ASSUME SInv, NEW a \in Actor, Redo(a)
    PROVE  Rest' /\ Stacked'
<1> DEFINE entry == Last(redo[a])  now == Settled(a)
<1>1. undo \in [Actor -> Seq(Entries)] /\ redo \in [Actor -> Seq(Entries)]
    BY DEF SInv, Stacked
<1>2. entry \in Entries /\ Front(redo[a]) \in Seq(Entries)
    BY <1>1, TopOfStack DEF Redo
<1> HIDE DEF entry, now
<1>3. Fits(a, InverseOp(a, entry)) /\ InverseEntry(now, entry) \in Entries
    BY <1>2, InverseFits DEF now
<1>4. Append(undo[a], InverseEntry(now, entry)) \in Seq(Entries)
    BY <1>1, <1>3
<1>5. redo' \in [Actor -> Seq(Entries)]
    BY <1>1, <1>2 DEF Redo
<1>6. CASE Drop(a, now) /\ undo' = undo
    BY <1>1, <1>5, <1>6, SettleStep DEF Drop, now, Stacked
<1>7. CASE /\ Emit(a, now, InverseOp(a, entry))
           /\ undo' = [undo EXCEPT ![a] = Append(@, InverseEntry(now, entry))]
  <2>1. Rest'
      BY <1>3, <1>7, EmitStep DEF now
  <2>2. undo' \in [Actor -> Seq(Entries)]
      BY <1>1, <1>4, <1>7
  <2> QED
      BY <1>5, <2>1, <2>2 DEF Stacked
<1> QED
    BY <1>6, <1>7 DEF Redo, entry, now

LEMMA QuietStacks ==
    ASSUME SInv, NEW a \in Actor, undo' = undo \/ undo' = [undo EXCEPT ![a] = <<>>],
           redo' = redo \/ redo' = [redo EXCEPT ![a] = <<>>]
    PROVE  Stacked'
<1>1. undo \in [Actor -> Seq(Entries)] /\ redo \in [Actor -> Seq(Entries)]
    BY DEF SInv, Stacked
<1>2. <<>> \in Seq(Entries)
    OBVIOUS
<1>3. undo' \in [Actor -> Seq(Entries)] /\ redo' \in [Actor -> Seq(Entries)]
    BY <1>1, <1>2
<1> QED
    BY <1>3 DEF Stacked

LEMMA StepRest ==
    ASSUME SInv, [Next]_vars
    PROVE  Rest' /\ Stacked'
<1>1. CASE vars' = vars
  <2>1. Published' = Published
      BY <1>1, PublishedStays DEF vars
  <2> QED
      BY <1>1, <2>1 DEF vars, SInv, Rest, Shaped, Anchored, Rooted, Waiting, Folded, Stacked
<1>2. ASSUME NEW a \in Actor, Settle(a)
      PROVE  Rest' /\ Stacked'
    BY <1>2, SettleStep, QuietStacks DEF Settle
<1>3. ASSUME NEW a \in Actor, Integrate(a)
      PROVE  Rest' /\ Stacked'
    BY <1>3, IntegrateStep, QuietStacks DEF Integrate
<1>4. ASSUME NEW a \in Actor, Reopen(a)
      PROVE  Rest' /\ Stacked'
    BY <1>4, ReopenStep, QuietStacks DEF Reopen, Resumed
<1>5. ASSUME NEW a \in Actor, Recover(a)
      PROVE  Rest' /\ Stacked'
    BY <1>5, RecoverStep, QuietStacks DEF Recover, Resumed
<1> QED
    BY <1>1, <1>2, <1>3, <1>4, <1>5, EditStep, UndoStep, RedoStep DEF Next

LEMMA StepSInv == SInv /\ [Next]_vars => SInv'
<1> SUFFICES ASSUME SInv, [Next]_vars PROVE SInv'
    OBVIOUS
<1>1. IInv'
    BY StepIInv DEF SInv
<1>2. Rest' /\ Stacked'
    BY StepRest
<1> QED
    BY <1>1, <1>2 DEF Rest, SInv

LEMMA SInvAlways == Spec => []SInv
    BY InitSInv, StepSInv, PTL DEF Spec

-----------------------------------------------------------------------------
LEMMA MembersOfSeq ==
    ASSUME NEW X, NEW s \in Seq(X)
    PROVE  ToSet(s) \subseteq X
BY DEF ToSet

LEMMA SInvTypes == SInv => TypeOK
<1> SUFFICES ASSUME SInv PROVE TypeOK
    OBVIOUS
<1>1. \A a \in Actor : log[a] \subseteq AnyOp
    BY DEF SInv, Shaped
<1>2. \A a \in Actor : ToSet(pending[a]) \subseteq log[a]
    BY DEF SInv, Waiting, ToSet
<1>3. \A a \in Actor : ToSet(undo[a]) \union ToSet(redo[a]) \subseteq Entry
  <2>1. Entries \subseteq Entry
      BY DEF Entries
  <2>2. \A a \in Actor : ToSet(undo[a]) \subseteq Entries /\ ToSet(redo[a]) \subseteq Entries
      BY MembersOfSeq DEF SInv, Stacked
  <2> QED
      BY <2>1, <2>2
<1>4. counter \in [Actor -> Nat] /\ lamport \in [Actor -> Nat]
    BY DEF SInv, IInv, Typed
<1>5. DOMAIN state = Actor
    BY DEF SInv, Folded
<1> QED
    BY <1>1, <1>2, <1>3, <1>4, <1>5 DEF TypeOK

\* Every session's log holds ops, what is pending is of the log, and the stacks
\* hold what can be undone (Session).
THEOREM SessionTypes == Spec => []TypeOK
    BY SInvAlways, SInvTypes, PTL

LEMMA SInvFolds == SInv => SettledIsFold
<1> SUFFICES ASSUME SInv, NEW a \in Actor, pending[a] = <<>>
             PROVE  Hashed(state[a]) = <<RefSheet(log[a]), RefSlots(log[a])>>
    BY DEF SettledIsFold
<1>1. Settled(a) = state[a]
    BY DEF Settled
<1>2. state[a] = Folds(log[a], state[a].contested, state[a].folded)
    BY <1>1, SettledFolds DEF HasFolded
<1>3. Good(log[a]) /\ TextNamed(log[a])
    BY LogGood DEF SInv
<1> QED
    BY <1>2, <1>3, FoldsShow

\* A session that has nothing pending shows what its log means, however its state
\* came about: replays, tip appends, undo, redo, deliveries, reopenings and
\* restarts in any order and number.
THEOREM SettledShowsLog == Spec => []SettledIsFold
    BY SInvAlways, SInvFolds, PTL

-----------------------------------------------------------------------------
(* Losers.                                                                 *)

\* Nobody loses to himself.
LEMMA SoleWriter ==
    ASSUME NEW P, Ops(P), NEW row, NEW actor, \A o \in CellWrites(P, row) : o.actor = actor
    PROVE  RefLosers(P, row) = {}
<1>1. CASE CellWrites(P, row) = {}
    BY <1>1, RefLosersAre
<1>2. CASE CellWrites(P, row) # {}
  <2>1. WonBy(P, row, {"cell"}) \in CellWrites(P, row)
      BY <1>2, WonByNewest, WritesAre DEF IsNewest
  <2>2. WonBy(P, row, {"cell"}).actor = actor
      BY <2>1
  <2> QED
      BY <2>2, RefLosersAre
<1> QED
    BY <1>1, <1>2

LEMMA LosersOfFold ==
    ASSUME NEW P, NEW C, NEW d, NEW s, s = Folds(P, C, d), NEW row \in CellRows(P)
    PROVE  Losers(s, row) = IF row \in C THEN RefLosers(P, row) ELSE {}
<1>1. s.meta = MetaOf(P, C)
    BY FoldsFields
<1> QED
    BY <1>1 DEF Losers, MetaOf, StampOf

\* A replay stamps every cell that two actors wrote.
LEMMA ReplayHoldsLosers ==
    ASSUME NEW P, Good(P), \A op \in P : op.kind \in OpKind
    PROVE  HoldsLosers(Replay(P), P)
<1>1. Replay(P) = Folds(P, Contested(P), TRUE)
    BY ReplayMeans DEF Folds
<1>2. ASSUME NEW row \in CellRows(P), row \notin Contested(P)
      PROVE  RefLosers(P, row) = {}
  <2>1. \A o, p \in CellWrites(P, row) : o.actor = p.actor
      BY <1>2 DEF Contested
  <2>2. PICK o : o \in CellWrites(P, row)
      BY <1>2, InCellRows
  <2> QED
      BY <2>1, <2>2, SoleWriter DEF Good
<1> DEFINE s == Replay(P)  C == Contested(P)
<1> HIDE DEF s, C
<1>3. s = Folds(P, C, TRUE)
    BY <1>1 DEF s, C
<1>4. \A row \in CellRows(P) : Losers(s, row) = IF row \in C THEN RefLosers(P, row) ELSE {}
    BY <1>3, LosersOfFold
<1>5. \A row \in CellRows(P) : Losers(s, row) = RefLosers(P, row)
    BY <1>2, <1>4 DEF C
<1> QED
    BY <1>5 DEF HoldsLosers, s

\* Losers depend on the writes alone.
LEMMA SameWritesLosers ==
    ASSUME NEW P, NEW Q, NEW row, CellWrites(P, row) = CellWrites(Q, row)
    PROVE  RefLosers(P, row) = RefLosers(Q, row)
<1>1. WonBy(P, row, {"cell"}) = WonBy(Q, row, {"cell"})
    BY WritesAre DEF WonBy, Writes
<1> QED
    BY <1>1, RefLosersAre

\* A cell the tip path leaves unstamped has one author, unless the batch opens it
\* twice: whoever writes a cell that held a value is the document's only writer.
LEMMA UnstampedIsSole ==
    ASSUME NEW P, Ops(P), NEW Q, NEW batch, batch \in Seq(P), P = Q \union ToSet(batch),
           NEW s, NEW row \in CellRows(P), row \notin s.contested,
           s.writers = WritersOf(Q), DOMAIN s.value = CellRows(Q),
           \A i \in DOMAIN batch : batch[i].kind = "cell" => CannotContend(s, batch, i),
           row \in CellRows(Q) => RefLosers(Q, row) = {},
           ~OpenedTogether(row, Q, ToSet(batch))
    PROVE  RefLosers(P, row) = {}
<1> DEFINE B == ToSet(batch)
<1>1. CellWrites(P, row) = CellWrites(Q, row) \union CellWrites(B, row)
    BY DEF CellWrites
<1>2. CASE row \notin CellRows(Q)
  <2>1. CellWrites(Q, row) = {}
      BY <1>2, InCellRows
  <2>2. CellWrites(P, row) # {}
      BY InCellRows
  <2>3. PICK o : o \in CellWrites(P, row)
      BY <2>2
  <2>4. \A p \in CellWrites(P, row) : p.actor = o.actor
      BY <1>1, <1>2, <2>1, <2>3 DEF OpenedTogether
  <2> QED
      BY <2>4, SoleWriter
<1>3. CASE row \in CellRows(Q) /\ CellWrites(B, row) = {}
    BY <1>1, <1>3, SameWritesLosers
<1>4. CASE row \in CellRows(Q) /\ CellWrites(B, row) # {}
  <2>1. ASSUME NEW p \in CellWrites(B, row)
        PROVE  \A o \in CellWrites(Q, row) : o.actor = p.actor
    <3>1. PICK i \in DOMAIN batch : p = batch[i]
        BY DEF ToSet, CellWrites
    <3>2. p.kind = "cell" /\ p.row = row
        BY DEF CellWrites
    <3>3. WritersAt(s, batch, i) = {p.actor}
        BY <1>4, <3>1, <3>2 DEF CannotContend
    <3>4. WritersOf(Q) \subseteq {p.actor}
        BY <3>3 DEF WritersAt
    <3> QED
        BY <3>4 DEF CellWrites, WritersOf
  <2>2. PICK o : o \in CellWrites(Q, row)
      BY <1>4, InCellRows
  <2>3. \A p \in CellWrites(B, row) : p.actor = o.actor
      BY <2>1, <2>2
  <2>4. \A q \in CellWrites(Q, row) : q.actor = o.actor
      BY <1>4, <2>1, <2>2
  <2>5. \A p \in CellWrites(P, row) : p.actor = o.actor
      BY <1>1, <2>3, <2>4
  <2> QED
      BY <2>5, SoleWriter
<1> QED
    BY <1>2, <1>3, <1>4

LEMMA SInvLosers == SInv => TipKeepsLosers
<1> SUFFICES ASSUME SInv, NEW a \in Actor,
                    HoldsLosers(state[a], log[a] \ ToSet(pending[a])),
                    NEW row \in CellRows(log[a]),
                    ~OpenedTogether(row, log[a] \ ToSet(pending[a]), ToSet(pending[a]))
             PROVE  Losers(Settled(a), row) = RefLosers(log[a], row)
    BY DEF TipKeepsLosers
<1> DEFINE P == log[a]  batch == pending[a]  Q == P \ ToSet(batch)
           C == state[a].contested  d == state[a].folded  s == state[a]
<1>1. Good(P) /\ \A op \in P : op.kind \in OpKind
    BY LogGood DEF SInv
<1>2. batch \in Seq(P)
    BY DEF SInv, Waiting
<1>3. s = Folds(Q, C, d)
    BY DEF SInv, Folded, HasFolded
<1>4. P = Q \union ToSet(batch)
    BY <1>2 DEF ToSet
<1>5. Good(Q) /\ Q \in SUBSET P /\ Ops(P)
    BY <1>1, <1>4, GoodSubset DEF Good
<1>6. CASE batch = <<>>
  <2>1. Settled(a) = s
      BY <1>6 DEF Settled
  <2>2. ToSet(batch) = {}
      BY <1>6 DEF ToSet
  <2>3. Q = P
      BY <2>2
  <2> QED
      BY <2>1, <2>3 DEF HoldsLosers
<1>7. CASE batch # <<>> /\ TipAccepts(s, batch)
  <2>1. Settled(a) = ApplyTip(s, batch)
      BY <1>7 DEF Settled
  <2>2. s.writers = WritersOf(Q) /\ s.value = ValueOf(Q)
      BY <1>3, FoldsFields
  <2>3. DOMAIN s.value = CellRows(Q)
      BY <2>2 DEF ValueOf
  <2>4. Ascends(Folds(Q, C, d), batch)
      BY <1>3, <1>7 DEF TipAccepts
  <2>5. \A i \in DOMAIN batch : batch[i].kind = "cell" => CannotContend(s, batch, i)
      BY <1>7 DEF TipAccepts
  <2>6. HoldsLosers(Folds(Q, C, d), Q) /\ row \in CellRows(P)
        /\ ~OpenedTogether(row, Q, ToSet(batch))
      BY <1>3
  <2>7. C = s.contested
      OBVIOUS
  <2> HIDE DEF P, Q, C, d, s, batch
  <2>8. ApplyTip(Folds(Q, C, d), batch) = Folds(P, C, d)
      BY <1>1, <1>2, <1>4, <1>5, <2>4, TipMeans
  <2>9. ASSUME row \notin C
        PROVE  RefLosers(P, row) = {}
    <3>1. row \in CellRows(Q) => RefLosers(Q, row) = {}
        BY <2>6, <2>9, LosersOfFold DEF HoldsLosers
    <3> QED
        BY <1>2, <1>4, <1>5, <2>2, <2>3, <2>5, <2>6, <2>7, <2>9, <3>1, UnstampedIsSole
  <2>10. Losers(Folds(P, C, d), row) = RefLosers(P, row)
      BY <2>6, <2>9, LosersOfFold
  <2>11. Losers(Settled(a), row) = RefLosers(P, row)
      BY <1>3, <2>1, <2>8, <2>10
  <2> QED
      BY <2>11 DEF P
<1>8. CASE batch # <<>> /\ ~TipAccepts(s, batch)
  <2>1. Settled(a) = Replay(P)
      BY <1>8 DEF Settled
  <2> QED
      BY <1>1, <2>1, ReplayHoldsLosers DEF HoldsLosers
<1> QED
    BY <1>6, <1>7, <1>8

\* A session that has kept every loser and reads after any batch still has, but at
\* a cell the batch opens twice: the contention check of apply_tip lets no other
\* concurrent write go unrecorded.
THEOREM NoLoserForgotten == Spec => []TipKeepsLosers
    BY SInvAlways, SInvLosers, PTL

-----------------------------------------------------------------------------
(* Undo and redo.                                                          *)

\* The top of a stack was pushed for this op, with what its cell held before.
Took(a, stack, op) ==
    /\ stack # <<>>
    /\ Matches(Last(stack), op)
    /\ Last(stack).kind = "wrote" => Last(stack).prior = Content(state[a], op.row)

\* What a session did last follows all it holds, and it can tell what it did.
UndoableAt(a) ==
    \A op \in log[a] :
        LastOwn(a, op) => /\ Follows(op, log[a] \ {op})
                          /\ Took(a, undo[a], op) \/ Took(a, redo[a], op)

Undoable == \A a \in Actor : UndoableAt(a)

\* Nothing of actor b's session but the log of another has changed.
Same(b) ==
    /\ log'[b] = log[b] /\ state'[b] = state[b] /\ pending'[b] = pending[b]
    /\ undo'[b] = undo[b] /\ redo'[b] = redo[b]

LEMMA UndoableOthers ==
    ASSUME Undoable, NEW b \in Actor, Same(b), NEW op \in log'[b], LastOwn(b, op)'
    PROVE  /\ Follows(op, log'[b] \ {op})
           /\ Took(b, undo[b], op)' \/ Took(b, redo[b], op)'
<1>1. op \in log[b] /\ LastOwn(b, op)
    BY DEF LastOwn, Same
<1>2. Follows(op, log[b] \ {op}) /\ (Took(b, undo[b], op) \/ Took(b, redo[b], op))
    BY <1>1 DEF Undoable, UndoableAt
<1> QED
    BY <1>2 DEF Same, Took

\* The variables are functions of the actor.
Maps ==
    /\ log = [b \in Actor |-> log[b]] /\ state = [b \in Actor |-> state[b]]
    /\ pending = [b \in Actor |-> pending[b]]
    /\ undo = [b \in Actor |-> undo[b]] /\ redo = [b \in Actor |-> redo[b]]

LEMMA SInvMaps == SInv => Maps
BY DEF SInv, IInv, Typed, Folded, Waiting, Stacked, Maps

\* An authored op whose entry is on top of a stack.
LEMMA EmitUndoable ==
    ASSUME SInv, NEW a \in Actor, NEW op, op.actor = a, op.lamport = lamport[a] + 1,
           Emit(a, Settled(a), op),
           NEW entry, Matches(entry, op),
           entry.kind = "wrote" => entry.prior = Content(Settled(a), op.row),
           \/ undo'[a] # <<>> /\ Last(undo'[a]) = entry
           \/ redo'[a] # <<>> /\ Last(redo'[a]) = entry
    PROVE  UndoableAt(a)'
<1>1. /\ log'[a] = log[a] \union {op} /\ state'[a] = Settled(a) /\ pending'[a] = <<op>>
    BY SInvMaps DEF Emit, Maps
<1> SUFFICES ASSUME NEW p \in log'[a], LastOwn(a, p)'
             PROVE  /\ Follows(p, log'[a] \ {p})
                    /\ Took(a, undo[a], p)' \/ Took(a, redo[a], p)'
    BY DEF UndoableAt
<1>2. p = op
    BY <1>1 DEF LastOwn
<1>3. Follows(p, log'[a] \ {p})
  <2>1. \A o \in log[a] : o.lamport < op.lamport
      BY DEF SInv, IInv, Typed, LamportCovers
  <2> QED
      BY <1>1, <1>2, <2>1 DEF Follows, Before, Key
<1>4. Took(a, undo[a], op)' \/ Took(a, redo[a], op)'
    BY <1>1 DEF Took, Matches
<1> QED
    BY <1>2, <1>3, <1>4

LEMMA AppendEnds ==
    ASSUME NEW X, NEW s \in Seq(X), NEW x \in X
    PROVE  /\ Len(s) \in Nat /\ Len(Append(s, x)) = Len(s) + 1
           /\ Append(s, x)[Len(s) + 1] = x /\ Append(s, x) # <<>>
OBVIOUS

LEMMA LastAppend ==
    ASSUME NEW X, NEW s \in Seq(X), NEW x \in X
    PROVE  Append(s, x) # <<>> /\ Last(Append(s, x)) = x
BY AppendEnds DEF Last

LEMMA CommandUndoable ==
    ASSUME SInv, NEW a \in Actor, NEW kind, NEW row, NEW val, NEW op, op = Mint(a, kind, row, val),
           NEW entry \in Entries, Command(a, Settled(a), op, entry), Matches(entry, op),
           entry.kind = "wrote" => entry.prior = Content(Settled(a), row)
    PROVE  UndoableAt(a)'
<1>1. op.actor = a /\ op.lamport = lamport[a] + 1 /\ op.row = row
    BY DEF Mint
<1>2. undo' = [undo EXCEPT ![a] = Append(@, entry)] /\ undo[a] \in Seq(Entries) /\ undo'[a] = Append(undo[a], entry)
    BY DEF Command, SInv, Stacked
<1>3. undo'[a] # <<>> /\ Last(undo'[a]) = entry
    BY <1>2, LastAppend
<1>4. Emit(a, Settled(a), op)
    BY DEF Command
<1> QED
    BY <1>1, <1>3, <1>4, EmitUndoable

LEMMA EditUndoable ==
    ASSUME SInv, NEW a \in Actor, Edit(a)
    PROVE  UndoableAt(a)'
<1> DEFINE now == Settled(a)  live == ToSet(LiveOrder(now))
<1> USE ActorAssumption
<1>1. NextId(a) \in Pair
    BY DEF NextId, Pair, SInv, IInv, Typed
<1>2. \A row \in live : row \in Pair
    BY SeenRows
<1>3. \A row : Content(now, row) \in Contents
    BY SeenContent
<1> HIDE DEF now, live
<1>4. \A row \in live : WroteCell(row, Content(now, row)) \in Entries /\ Deleted(row) \in Entries
    BY <1>2, <1>3, EntriesMade
<1>5. Inserted(NextId(a)) \in Entries
    BY <1>1, <1>3, EntriesMade
<1>6. ASSUME NEW row \in live, NEW kind \in {"cell", "formula"}, NEW val,
             Command(a, now, Mint(a, kind, row, val), WroteCell(row, Content(now, row)))
      PROVE  UndoableAt(a)'
  <2> DEFINE op == Mint(a, kind, row, val)  entry == WroteCell(row, Content(now, row))
  <2>1. Matches(entry, op) /\ entry.prior = Content(now, row)
      BY DEF Matches, WroteCell, Mint
  <2>2. entry \in Entries /\ op = Mint(a, kind, row, val) /\ Command(a, now, op, entry)
      BY <1>4, <1>6
  <2> HIDE DEF op, entry
  <2> QED
      BY <2>1, <2>2, CommandUndoable DEF now
<1>7. ASSUME NEW row \in live, DeleteRow(a, now, row)
      PROVE  UndoableAt(a)'
  <2> DEFINE op == Mint(a, "delete", row, Blank)  entry == Deleted(row)
  <2>1. Matches(entry, op) /\ entry.kind # "wrote"
      BY DEF Matches, Deleted, Mint
  <2>2. entry \in Entries /\ op = Mint(a, "delete", row, Blank) /\ Command(a, now, op, entry)
      BY <1>4, <1>7 DEF DeleteRow
  <2> HIDE DEF op, entry
  <2> QED
      BY <2>1, <2>2, CommandUndoable DEF now
<1>8. ASSUME NEW anchor, AddRow(a, now, anchor)
      PROVE  UndoableAt(a)'
  <2> DEFINE op == Mint(a, "insert", anchor, Blank)  entry == Inserted(NextId(a))
  <2>1. Matches(entry, op) /\ entry.kind # "wrote"
      BY DEF Matches, Inserted, Mint, NextId, Id
  <2>2. entry \in Entries /\ op = Mint(a, "insert", anchor, Blank) /\ Command(a, now, op, entry)
      BY <1>5, <1>8 DEF AddRow
  <2> HIDE DEF op, entry
  <2> QED
      BY <2>1, <2>2, CommandUndoable DEF now
<1> QED
    BY <1>6, <1>7, <1>8 DEF Edit, SetValue, ClearCell, EnterFormula, now, live

\* What undoes an inverse is what it was made from, turned round.
LEMMA InverseMatches ==
    ASSUME SInv, NEW a \in Actor, NEW entry \in Entries, NEW now,
           NEW op, op = InverseOp(a, entry), NEW back, back = InverseEntry(now, entry)
    PROVE  /\ op.actor = a /\ op.lamport = lamport[a] + 1 /\ op.row = entry.row
           /\ Matches(back, op)
           /\ back.kind = "wrote" => back.prior = Content(now, op.row)
<1>1. /\ entry.kind \in {"wrote", "inserted", "deleted"}
      /\ entry.prior.kind \in {"cell", "formula"}
    BY DEF Entries, Entry, Contents
<1>2. op.actor = a /\ op.lamport = lamport[a] + 1 /\ op.row = entry.row
    BY DEF InverseOp, Mint
<1>3. CASE entry.kind = "wrote"
  <2>1. op.kind = entry.prior.kind
      BY <1>3 DEF InverseOp, Mint
  <2>2. back = WroteCell(entry.row, Content(now, entry.row))
      BY <1>3 DEF InverseEntry
  <2> QED
      BY <1>1, <1>2, <2>1, <2>2 DEF Matches, WroteCell
<1>4. CASE entry.kind = "inserted"
  <2>1. op.kind = "delete"
      BY <1>4 DEF InverseOp, Mint
  <2>2. back = Deleted(entry.row)
      BY <1>4 DEF InverseEntry
  <2> QED
      BY <1>1, <1>2, <2>1, <2>2 DEF Matches, Deleted
<1>5. CASE entry.kind = "deleted"
  <2>1. op.kind = "undelete"
      BY <1>5 DEF InverseOp, Mint
  <2>2. back = Inserted(entry.row)
      BY <1>5 DEF InverseEntry
  <2> QED
      BY <1>1, <1>2, <2>1, <2>2 DEF Matches, Inserted
<1> QED
    BY <1>1, <1>3, <1>4, <1>5

LEMMA DropUndoable ==
    ASSUME SInv, NEW a \in Actor, pending' = [pending EXCEPT ![a] = <<>>]
    PROVE  UndoableAt(a)'
<1>1. pending'[a] = <<>>
    BY SInvMaps DEF Maps
<1> QED
    BY <1>1 DEF UndoableAt, LastOwn

LEMMA UndoUndoable ==
    ASSUME SInv, NEW a \in Actor, Undo(a)
    PROVE  UndoableAt(a)'
<1> DEFINE entry == Last(undo[a])  now == Settled(a)
<1>1. undo \in [Actor -> Seq(Entries)] /\ redo \in [Actor -> Seq(Entries)]
    BY DEF SInv, Stacked
<1>2. entry \in Entries
    BY <1>1, TopOfStack DEF Undo
<1> HIDE DEF entry, now
<1>3. CASE Drop(a, now)
    BY <1>3, DropUndoable DEF Drop
<1>4. CASE /\ Emit(a, now, InverseOp(a, entry))
           /\ redo' = [redo EXCEPT ![a] = Append(@, InverseEntry(now, entry))]
  <2> DEFINE op == InverseOp(a, entry)  back == InverseEntry(now, entry)
  <2>1. back \in Entries
      BY <1>2, InverseFits DEF now
  <2>2. op = InverseOp(a, entry) /\ back = InverseEntry(now, entry) /\ Emit(a, now, op)
      BY <1>4
  <2>3. redo'[a] = Append(redo[a], back)
      BY <1>1, <1>4
  <2> HIDE DEF op, back
  <2>4. redo'[a] # <<>> /\ Last(redo'[a]) = back
      BY <1>1, <2>1, <2>3, LastAppend
  <2>5. /\ op.actor = a /\ op.lamport = lamport[a] + 1
        /\ Matches(back, op)
        /\ back.kind = "wrote" => back.prior = Content(now, op.row)
      BY <1>2, <2>2, InverseMatches
  <2> QED
      BY <2>2, <2>4, <2>5, EmitUndoable DEF now
<1> QED
    BY <1>3, <1>4 DEF Undo, entry, now

LEMMA RedoUndoable ==
    ASSUME SInv, NEW a \in Actor, Redo(a)
    PROVE  UndoableAt(a)'
<1> DEFINE entry == Last(redo[a])  now == Settled(a)
<1>1. undo \in [Actor -> Seq(Entries)] /\ redo \in [Actor -> Seq(Entries)]
    BY DEF SInv, Stacked
<1>2. entry \in Entries
    BY <1>1, TopOfStack DEF Redo
<1> HIDE DEF entry, now
<1>3. CASE Drop(a, now)
    BY <1>3, DropUndoable DEF Drop
<1>4. CASE /\ Emit(a, now, InverseOp(a, entry))
           /\ undo' = [undo EXCEPT ![a] = Append(@, InverseEntry(now, entry))]
  <2> DEFINE op == InverseOp(a, entry)  back == InverseEntry(now, entry)
  <2>1. back \in Entries
      BY <1>2, InverseFits DEF now
  <2>2. op = InverseOp(a, entry) /\ back = InverseEntry(now, entry) /\ Emit(a, now, op)
      BY <1>4
  <2>3. undo'[a] = Append(undo[a], back)
      BY <1>1, <1>4
  <2> HIDE DEF op, back
  <2>4. undo'[a] # <<>> /\ Last(undo'[a]) = back
      BY <1>1, <2>1, <2>3, LastAppend
  <2>5. /\ op.actor = a /\ op.lamport = lamport[a] + 1
        /\ Matches(back, op)
        /\ back.kind = "wrote" => back.prior = Content(now, op.row)
      BY <1>2, <2>2, InverseMatches
  <2> QED
      BY <2>2, <2>4, <2>5, EmitUndoable DEF now
<1> QED
    BY <1>3, <1>4 DEF Redo, entry, now

LEMMA OneAppended ==
    ASSUME NEW X, NEW s \in Seq(X), NEW x \in X, NEW y, Append(s, x) = <<y>>
    PROVE  y = x
<1> DEFINE t == Append(s, x)
<1>1. Len(t) = 1 /\ t[1] = y
    OBVIOUS
<1> HIDE DEF t
<1>2. Len(t) = Len(s) + 1 /\ t[Len(s) + 1] = x /\ Len(s) \in Nat
    BY AppendEnds DEF t
<1> QED
    BY <1>1, <1>2

\* A delivered op is never the session's own.
LEMMA IntegrateUndoable ==
    ASSUME SInv, NEW a \in Actor, Integrate(a)
    PROVE  UndoableAt(a)'
<1>1. PICK op \in Published : op \notin log[a] /\ pending' = [pending EXCEPT ![a] = Append(@, op)]
    BY DEF Integrate, Deliverable
<1>2. op.actor # a
    BY <1>1, DeliveredIsForeign DEF SInv
<1>3. pending'[a] = Append(pending[a], op) /\ pending[a] \in Seq(log[a])
    BY <1>1, SInvMaps DEF Maps, SInv, Waiting
<1>4. \A p : pending'[a] = <<p>> => p = op
  <2> DEFINE X == log[a] \union {op}  s == pending[a]
  <2>1. s \in Seq(X) /\ op \in X
      BY <1>3
  <2> HIDE DEF X, s
  <2>2. \A p : Append(s, op) = <<p>> => p = op
      BY <2>1, OneAppended
  <2> QED
      BY <1>3, <2>2 DEF s
<1> QED
    BY <1>2, <1>4 DEF UndoableAt, LastOwn

LEMMA RecoverUndoable ==
    ASSUME SInv, NEW a \in Actor, Recover(a)
    PROVE  UndoableAt(a)'
<1>1. undo'[a] = <<>> /\ redo'[a] = <<>>
    BY SInvMaps DEF Maps, Recover, Resumed
<1>2. <<>> \o <<>> = <<>>
    OBVIOUS
<1> QED
    BY <1>1, <1>2 DEF UndoableAt, LastOwn

\* A step of actor a leaves the other sessions alone.
LEMMA OneActs ==
    ASSUME SInv, NEW a \in Actor,
           \/ Settle(a) \/ Edit(a) \/ Undo(a) \/ Redo(a)
           \/ Integrate(a) \/ Reopen(a) \/ Recover(a),
           NEW b \in Actor, b # a
    PROVE  Same(b)
<1>0. Maps
    BY SInvMaps
<1>1. CASE Settle(a)
    BY <1>0, <1>1 DEF Settle, Same, Maps
<1>2. CASE Edit(a)
  <2>1. PICK op, entry : Command(a, Settled(a), op, entry)
      BY Zenon, <1>2 DEF Edit, SetValue, ClearCell, EnterFormula, DeleteRow, AddRow
  <2> QED
      BY <1>0, <2>1 DEF Command, Emit, Same, Maps
<1>3. CASE Undo(a)
    BY <1>0, <1>3 DEF Undo, Drop, Emit, Same, Maps
<1>4. CASE Redo(a)
    BY <1>0, <1>4 DEF Redo, Drop, Emit, Same, Maps
<1>5. CASE Integrate(a)
    BY <1>0, <1>5 DEF Integrate, Same, Maps
<1>6. CASE Reopen(a)
    BY <1>0, <1>6 DEF Reopen, Resumed, Same, Maps
<1>7. CASE Recover(a)
    BY <1>0, <1>7 DEF Recover, Resumed, Same, Maps
<1> QED
    BY <1>1, <1>2, <1>3, <1>4, <1>5, <1>6, <1>7

LEMMA StepUndoable ==
    ASSUME SInv, Undoable, [Next]_vars
    PROVE  Undoable'
<1>1. CASE vars' = vars
    BY <1>1 DEF vars, Undoable, UndoableAt, LastOwn, Took
<1>2. ASSUME NEW a \in Actor,
             \/ Settle(a) \/ Edit(a) \/ Undo(a) \/ Redo(a)
             \/ Integrate(a) \/ Reopen(a) \/ Recover(a)
      PROVE  Undoable'
  <2>1. UndoableAt(a)'
    <3>1. CASE Settle(a)
        BY <3>1, DropUndoable DEF Settle
    <3>2. CASE Reopen(a)
        BY <3>2, DropUndoable DEF Reopen
    <3> QED
        BY <1>2, <3>1, <3>2, EditUndoable, UndoUndoable, RedoUndoable, IntegrateUndoable,
           RecoverUndoable
  <2>2. ASSUME NEW b \in Actor, b # a
        PROVE  UndoableAt(b)'
    <3>1. Same(b)
        BY <1>2, <2>2, OneActs
    <3> QED
        BY <3>1, UndoableOthers DEF UndoableAt
  <2>3. \A b \in Actor : UndoableAt(b)'
      BY <2>1, <2>2
  <2> QED
      BY <2>3 DEF Undoable, UndoableAt
<1> QED
    BY <1>1, <1>2 DEF Next

LEMMA InitUndoable == Init => Undoable
<1> SUFFICES ASSUME Init PROVE Undoable
    OBVIOUS
<1>1. \A a \in Actor : pending[a] = <<>>
    BY DEF Init
<1> QED
    BY <1>1 DEF Undoable, UndoableAt, LastOwn

\* No op is published yet under the id an actor mints next.
LEMMA NextIdFree ==
    ASSUME IInv, NEW a \in Actor, NEW p \in Published, p.actor = a
    PROVE  p.counter \in Nat /\ p.counter <= counter[a]
<1> USE ActorAssumption
<1>1. p \notin Base
    BY BaseOps
<1>2. PICK b \in Actor : p \in log[b]
    BY <1>1 DEF Published
<1> QED
    BY <1>2 DEF IInv, Owned, Typed

\* A log and an inverse minted for it is a log a fold may meet.
LEMMA InverseGood ==
    ASSUME SInv, NEW a \in Actor, NEW entry \in Entries, NEW inv, inv = InverseOp(a, entry)
    PROVE  /\ Good(log[a] \union {inv}) /\ TextNamed(log[a] \union {inv})
           /\ \A op \in log[a] \union {inv} : op.kind \in OpKind
           /\ Follows(inv, log[a])
<1> USE ActorAssumption
<1> DEFINE P == log[a]  R == P \union {inv}
<1>1. Fits(a, inv)
    BY InverseFits
<1>2. /\ inv.actor = a /\ inv.counter = counter[a] + 1 /\ inv.lamport = lamport[a] + 1
      /\ inv.kind # "insert"
  <2>1. /\ entry.kind \in {"wrote", "inserted", "deleted"}
        /\ entry.prior.kind \in {"cell", "formula"}
      BY DEF Entries, Entry, Contents
  <2> QED
      BY <2>1 DEF InverseOp, Mint
<1>3. Good(P) /\ TextNamed(P) /\ \A op \in P : op.kind \in OpKind
    BY LogGood DEF SInv
<1>4. inv.actor \in Nat /\ inv.counter \in Nat /\ inv.lamport \in Nat /\ inv.kind \in OpKind
    BY <1>1, <1>2 DEF Fits, AnyOp
<1>5. \A p \in Published : Id(p) # Id(inv)
    BY <1>2, NextIdFree DEF Id, SInv, IInv, Typed
<1>6. P \subseteq Published
    BY DEF Published
<1>7. Follows(inv, P)
  <2>1. \A o \in log[a] : o.lamport < inv.lamport
      BY <1>2 DEF SInv, IInv, Typed, LamportCovers
  <2> QED
      BY <2>1 DEF Follows, Before, Key
<1>8. Ops(R)
  <2>1. IsFiniteSet(R)
      BY <1>3, FS_AddElement DEF Good, Ops
  <2>2. \A op \in R : op.actor \in Nat /\ op.counter \in Nat /\ op.lamport \in Nat
      BY <1>3, <1>4 DEF Good, Ops
  <2>3. \A o, p \in R : Id(o) = Id(p) => o = p
      BY <1>3, <1>5, <1>6 DEF Good, Ops
  <2> QED
      BY <2>1, <2>2, <2>3 DEF Ops
<1>9. \A op \in R : Id(op) # Root
  <2>1. Id(inv) # Root
      BY <1>2 DEF Id, Root, Genesis
  <2> QED
      BY <1>3, <2>1 DEF Good
<1>10. \A op \in Inserts(R) : \A o \in R : op.row = Id(o) => Before(Key(o), Key(op))
  <2> SUFFICES ASSUME NEW op \in Inserts(R), NEW o \in R, op.row = Id(o)
               PROVE  Before(Key(o), Key(op))
      OBVIOUS
  <2>1. op \in P /\ op \in Inserts(P) /\ op.kind = "insert"
      BY <1>2 DEF Inserts
  <2>2. CASE o \in P
      BY <1>3, <2>1, <2>2 DEF Good
  <2>3. CASE o = inv
    <3>1. Rooted(op)
        BY <1>6, <2>1 DEF SInv, Anchored
    <3>2. op.row = Root
        BY <1>5, <2>1, <2>3, <3>1 DEF Rooted
    <3> QED
        BY <1>9, <2>3, <3>2
  <2> QED
      BY <2>2, <2>3
<1>11. TextNamed(R)
    BY <1>1, <1>3 DEF TextNamed, Fits, Texted
<1>12. \A op \in R : op.kind \in OpKind
    BY <1>3, <1>4
<1>13. Good(R)
    BY <1>8, <1>9, <1>10 DEF Good
<1> QED
    BY <1>7, <1>11, <1>12, <1>13

\* The inverse of an entry inverts the op the entry was pushed for.
LEMMA InverseInverts ==
    ASSUME SInv, NEW a \in Actor, NEW entry \in Entries, NEW op, Matches(entry, op),
           NEW Q, entry.kind = "wrote" => entry.prior = ContentOf(Q, op.row)
    PROVE  Inverts(InverseOp(a, entry), op, Q)
<1> DEFINE inv == InverseOp(a, entry)
<1>1. /\ entry.kind \in {"wrote", "inserted", "deleted"}
      /\ entry.prior \in Contents
    BY DEF Entries, Entry
<1>2. inv.row = entry.row
    BY DEF InverseOp, Mint
<1>3. CASE entry.kind = "wrote"
  <2>1. inv.kind = entry.prior.kind /\ inv.val = entry.prior.val
      BY <1>3 DEF InverseOp, Mint
  <2>2. /\ entry.prior.kind \in {"cell", "formula"}
        /\ entry.prior = [kind |-> entry.prior.kind, val |-> entry.prior.val]
      BY <1>1 DEF Contents
  <2>3. op.kind \in {"cell", "formula"} /\ op.row = entry.row
      BY <1>3 DEF Matches
  <2> HIDE DEF inv
  <2>4. Inverts(inv, op, Q)
      BY <1>2, <1>3, <2>1, <2>2, <2>3 DEF Inverts
  <2> QED
      BY <2>4 DEF inv
<1>4. CASE entry.kind = "inserted"
  <2>1. inv.kind = "delete"
      BY <1>4 DEF InverseOp, Mint
  <2> HIDE DEF inv
  <2>2. Inverts(inv, op, Q)
      BY <1>2, <1>4, <2>1 DEF Inverts, Matches
  <2> QED
      BY <2>2 DEF inv
<1>5. CASE entry.kind = "deleted"
  <2>1. inv.kind = "undelete"
      BY <1>5 DEF InverseOp, Mint
  <2> HIDE DEF inv
  <2>2. Inverts(inv, op, Q)
      BY <1>2, <1>5, <2>1 DEF Inverts, Matches
  <2> QED
      BY <2>2 DEF inv
<1> QED
    BY <1>1, <1>3, <1>4, <1>5

\* A stack whose top was pushed for the last op takes it back.
LEMMA TookTakesBack ==
    ASSUME SInv, NEW a \in Actor, NEW op \in log[a], pending[a] = <<op>>,
           Follows(op, log[a] \ {op}), View(Settled(a)) # View(state[a]),
           NEW stack \in Seq(Entries), Took(a, stack, op)
    PROVE  TakesBack(a, stack, op)
<1> DEFINE P == log[a]  Q == P \ {op}  entry == Last(stack)  inv == InverseOp(a, entry)
           s == state[a]  t == Settled(a)
<1>1. /\ entry \in Entries /\ Matches(entry, op) /\ stack # <<>>
      /\ entry.kind = "wrote" => entry.prior = Content(s, op.row)
    BY TopOfStack DEF Took
<1>2. P = Q \union {op}
    OBVIOUS
<1>3. Good(P) /\ TextNamed(P) /\ Good(Q) /\ TextNamed(Q)
  <2>1. Good(P) /\ TextNamed(P)
      BY LogGood DEF SInv
  <2> QED
      BY <2>1, GoodSubset DEF TextNamed
<1>4. s = Folds(Q, s.contested, s.folded)
  <2>1. ToSet(<<op>>) = {op}
      BY DEF ToSet
  <2>2. HasFolded(s, P \ ToSet(pending[a]))
      BY DEF SInv, Folded
  <2> QED
      BY <2>1, <2>2 DEF HasFolded
<1>5. t = Folds(P, t.contested, t.folded)
    BY SettledFolds DEF HasFolded
<1> HIDE DEF entry, inv, s, t, Q
<1>6. View(s) = ViewOf(Q) /\ View(t) = ViewOf(P)
    BY <1>3, <1>4, <1>5, ViewIs
<1>7. Content(s, op.row) = ContentOf(Q, op.row)
    BY <1>3, <1>4, ContentIs DEF Good
<1>8. Inverts(inv, op, Q)
    BY <1>1, <1>7, InverseInverts DEF inv
<1>9. /\ Good(P \union {inv}) /\ TextNamed(P \union {inv})
      /\ \A o \in P \union {inv} : o.kind \in OpKind
      /\ Follows(inv, P)
    BY <1>1, InverseGood DEF inv
<1>10. ViewOf(P \union {inv}) = ViewOf(Q)
  <2>1. ViewOf(Q \union {op}) # ViewOf(Q)
      BY <1>2, <1>6 DEF s, t
  <2>2. Follows(op, Q)
      BY DEF Q
  <2>3. Good((Q \union {op}) \union {inv}) /\ Follows(inv, Q \union {op})
      BY <1>2, <1>9
  <2>4. ViewOf((Q \union {op}) \union {inv}) = ViewOf(Q)
      BY <1>8, <2>1, <2>2, <2>3, ViewBack
  <2> QED
      BY <1>2, <2>4
<1>11. View(Replay(P \union {inv})) = ViewOf(P \union {inv})
  <2> DEFINE R == P \union {inv}  u == Replay(R)
  <2>1. Good(R) /\ TextNamed(R) /\ \A o \in R : o.kind \in OpKind
      BY <1>9
  <2> HIDE DEF P, R
  <2>2. u = Folds(R, u.contested, u.folded)
      BY <2>1, ReplayFolds DEF HasFolded
  <2> HIDE DEF u
  <2>3. View(u) = ViewOf(R)
      BY <2>1, <2>2, ViewIs
  <2> QED
      BY <2>3 DEF u, R
<1> QED
    BY <1>1, <1>6, <1>10, <1>11 DEF TakesBack, entry, inv, s

LEMMA SInvUndo == SInv /\ Undoable => UndoInverts
<1> SUFFICES ASSUME SInv, Undoable, NEW a \in Actor, NEW op \in log[a], LastOwn(a, op),
                    View(Settled(a)) # View(state[a])
             PROVE  TakesBack(a, undo[a], op) \/ TakesBack(a, redo[a], op)
    BY DEF UndoInverts
<1>1. undo[a] \in Seq(Entries) /\ redo[a] \in Seq(Entries)
    BY DEF SInv, Stacked
<1>2. /\ Follows(op, log[a] \ {op})
      /\ Took(a, undo[a], op) \/ Took(a, redo[a], op)
    BY DEF Undoable, UndoableAt
<1> QED
    BY <1>1, <1>2, TookTakesBack DEF LastOwn

\* The last thing an author did to a sheet can be taken back: the inverse its undo
\* or redo stack holds, folded with all the session has, shows the sheet as it
\* was, whichever command, undo or redo it inverts (invert_group).
THEOREM UndoTakesBack == Spec => []UndoInverts
<1>1. Init => SInv /\ Undoable
    BY InitSInv, InitUndoable
<1>2. (SInv /\ Undoable) /\ [Next]_vars => (SInv /\ Undoable)'
    BY StepSInv, StepUndoable
<1>3. SInv /\ Undoable => UndoInverts
    BY SInvUndo
<1> QED
    BY <1>1, <1>2, <1>3, PTL DEF Spec

-----------------------------------------------------------------------------
(* An image and its tail.                                                  *)

\* Cells of the image that some op of the tail writes.
Touched(I, R) == {op.row : op \in {o \in R : o.kind \in {"cell", "formula"}}} \cap CellRows(I)

\* The image I with the ops R of its tail folded in.
Resumes(I, R) ==
    Recalls(I \union R, SlotsOf(I \union R), Contested(I) \union Touched(I, R),
            FormulaRows(I \union R), FALSE, TipOf(R), WritersOf(R))

LEMMA SameWrites ==
    ASSUME NEW P, NEW I, NEW row, CellWrites(P, row) = CellWrites(I, row)
    PROVE  WonBy(P, row, {"cell"}) = WonBy(I, row, {"cell"}) /\ RefLosers(P, row) = RefLosers(I, row)
<1> DEFINE one == {"cell"}
<1>1. Writes(P, row, one) = Writes(I, row, one)
  BY WritesAre
<1>2. WonBy(P, row, one) = WonBy(I, row, one)
  BY <1>1 DEF WonBy, Writes
<1> HIDE DEF one
<1>3. WonBy(P, row, one) = WonBy(I, row, one)
  BY <1>2
<1>4. RefLosers(P, row) = RefLosers(I, row)
  BY <1>3, RefLosersAre DEF one
<1> QED BY <1>3, <1>4 DEF one

\* A cell that was not contested has no losers.
LEMMA Uncontested ==
    ASSUME NEW P, Ops(P), NEW row, row \notin Contested(P)
    PROVE  RefLosers(P, row) = {}
<1>1. CASE row \in CellRows(P)
  <2>1. \A o, p \in CellWrites(P, row) : o.actor = p.actor
    BY <1>1 DEF Contested
  <2>2. PICK o : o \in CellWrites(P, row)
    BY <1>1, InCellRows
  <2> QED BY <2>1, <2>2, SoleWriter
<1>2. CASE row \notin CellRows(P)
  <2>1. CellWrites(P, row) = {}
    BY <1>2, InCellRows
  <2> QED BY <2>1 DEF RefLosers
<1> QED BY <1>1, <1>2

\* The tip of some ops is the key of one of them.
LEMMA TipIsSomeKey ==
    ASSUME NEW P, Ops(P), NEW S \in SUBSET P
    PROVE  TipOf(S) = Floor \/ \E o \in S : TipOf(S) = Key(o)
<1>1. CASE S = {}
  BY <1>1, TipOfNone
<1>2. CASE S # {}
  <2>1. PICK o : IsNewest(o, S)
    BY <1>2, NewestExists
  <2>2. Ops(S)
    BY OpsOrdered
  <2>3. TipOf(S) = Key(o)
    BY <2>1, <2>2, TipIs
  <2> QED BY <2>1, <2>3 DEF IsNewest
<1> QED BY <1>1, <1>2

LEMMA TipBeforeLater ==
    ASSUME NEW P, Good(P), NEW S \in SUBSET P, NEW op \in P, Follows(op, S)
    PROVE  Before(TipOf(S), Key(op))
<1>1. Key(op) \in Keys /\ IdOf(Key(op)) # Root
  BY OpKeys, IdOfKey DEF Good
<1>2. TipOf(S) = Floor \/ \E o \in S : TipOf(S) = Key(o)
  BY TipIsSomeKey DEF Good
<1> QED BY <1>1, <1>2, FloorBefore DEF Follows

\* The winner an image records of a cell.
LEMMA WinnerIs ==
    ASSUME NEW I, Good(I), NEW row
    PROVE  /\ row \notin CellRows(I) => Winner(I, row) = Floor
           /\ row \in CellRows(I) => /\ Winner(I, row) = Key(WonBy(I, row, {"cell"}))
                                     /\ Winner(I, row) # Floor
<1> DEFINE W == CellWrites(I, row)
<1>1. Winner(I, row) = TipOf(W)
  BY DEF Winner, TipOf
<1>2. ASSUME row \notin CellRows(I)
      PROVE  Winner(I, row) = Floor
  BY <1>1, <1>2, InCellRows, TipOfNone
<1>3. ASSUME row \in CellRows(I)
      PROVE  /\ Winner(I, row) = Key(WonBy(I, row, {"cell"}))
             /\ Winner(I, row) # Floor
  <2> DEFINE one == {"cell"}  w == WonBy(I, row, one)
  <2>1. W = Writes(I, row, one) /\ W # {} /\ W \in SUBSET I /\ Ops(I)
    BY <1>3, WritesAre, InCellRows DEF CellWrites, Good
  <2> HIDE DEF one
  <2>2. IsNewest(w, W)
    BY <2>1, WonByNewest
  <2>3. Ops(W)
    BY <2>1, OpsOrdered
  <2> HIDE DEF w, W
  <2>4. Winner(I, row) = Key(w)
    BY <1>1, <2>2, <2>3, TipIs
  <2>5. w \in I
    BY <2>1, <2>2 DEF IsNewest
  <2>6. Id(w) # Root
    BY <2>5 DEF Good
  <2>7. IdOf(Floor) = Root
    BY DEF IdOf, Floor, Root
  <2>8. Key(w) # Floor
    BY <2>6, <2>7, IdOfKey
  <2> QED BY <2>4, <2>8 DEF w, one
<1> QED BY <1>2, <1>3

LEMMA AdoptFields ==
    ASSUME NEW A, NEW T, NEW z, NEW C, NEW v, NEW m, NEW f, NEW t, NEW d, NEW w, NEW row, NEW key
    PROVE  /\ key = Floor \/ row \in C =>
                  AdoptStamp(Fields(A, T, z, C, v, m, f, t, d, w), row, key)
                      = Fields(A, T, z, C, v, m, f, t, d, w)
           /\ ~(key = Floor \/ row \in C) =>
                  AdoptStamp(Fields(A, T, z, C, v, m, f, t, d, w), row, key)
                      = Fields(A, T, z, C \union {row}, v,
                               Put(m, row, [key |-> key, losers |-> {}]), f, t, d, w)
<1> DEFINE s == Fields(A, T, z, C, v, m, f, t, d, w)
           y == [key |-> key, losers |-> {}]
<1>1. s.contested = C /\ s.meta = m
  BY DEF Fields
<1>2. CASE key = Floor \/ row \in C
  <2> HIDE DEF s
  <2>1. AdoptStamp(s, row, key) = s
    BY <1>1, <1>2 DEF AdoptStamp
  <2> QED BY <1>2, <2>1 DEF s
<1>3. CASE ~(key = Floor \/ row \in C)
  <2> DEFINE D == C \union {row}  n == Put(m, row, y)
  <2>1. AdoptStamp(s, row, key) = [s EXCEPT !.contested = D, !.meta = n]
    <3> HIDE DEF s
    <3> QED BY Zenon, <1>1, <1>3 DEF AdoptStamp
  <2> HIDE DEF D, n
  <2>2. [s EXCEPT !.contested = D] = Fields(A, T, z, D, v, m, f, t, d, w)
    BY DEF Fields
  <2>3. [Fields(A, T, z, D, v, m, f, t, d, w) EXCEPT !.meta = n] = Fields(A, T, z, D, v, n, f, t, d, w)
    BY DEF Fields
  <2> HIDE DEF s
  <2>4. [s EXCEPT !.contested = D, !.meta = n] = [[s EXCEPT !.contested = D] EXCEPT !.meta = n]
    OBVIOUS
  <2> QED BY <1>3, <2>1, <2>2, <2>3, <2>4 DEF s, D, n
<1> QED BY <1>2, <1>3

\* A cell that is adopted has the stamp it would have had all along.
LEMMA AdoptRecalls ==
    ASSUME NEW I, Good(I), NEW Q, NEW row, NEW z, NEW C, NEW F, NEW d, NEW t, NEW w,
           Contested(I) \subseteq C,
           row \in CellRows(I) \ C => CellWrites(Q, row) = CellWrites(I, row)
    PROVE  AdoptStamp(Recalls(Q, z, C, F, d, t, w), row, Winner(I, row)) =
             Recalls(Q, z, C \union ({row} \cap CellRows(I)), F, d, t, w)
<1> DEFINE A == TreeOf(Q)
           T == Tombs(Q)
           v == ValueOf(Q)
           m == MetaOf(Q, C)
           f == FormulasOf(Q, F)
           k == Winner(I, row)
           y == [key |-> k, losers |-> {}]
           D == C \union ({row} \cap CellRows(I))
<1>1. Recalls(Q, z, C, F, d, t, w) = Fields(A, T, z, C, v, m, f, t, d, w)
  BY DEF Recalls, Fields
<1>2. /\ k = Floor \/ row \in C =>
            AdoptStamp(Fields(A, T, z, C, v, m, f, t, d, w), row, k)
                = Fields(A, T, z, C, v, m, f, t, d, w)
      /\ ~(k = Floor \/ row \in C) =>
            AdoptStamp(Fields(A, T, z, C, v, m, f, t, d, w), row, k)
                = Fields(A, T, z, C \union {row}, v, Put(m, row, y), f, t, d, w)
  <2> HIDE DEF A, T, v, m, f, k
  <2> QED BY AdoptFields
<1>3. k = Floor <=> row \notin CellRows(I)
  BY WinnerIs
<1>4. CASE k = Floor \/ row \in C
  <2>1. D = C
    BY <1>3, <1>4
  <2> HIDE DEF A, T, v, m, f, k, D
  <2> QED BY <1>1, <1>2, <1>4, <2>1 DEF k, D
<1>5. CASE ~(k = Floor \/ row \in C)
  <2>1. D = C \union {row} /\ row \in CellRows(I)
    BY <1>3, <1>5
  <2>2. MetaOf(Q, C \union {row}) = Put(m, row, y)
    <3>1. CellWrites(Q, row) = CellWrites(I, row)
      BY <1>5, <2>1
    <3>2. row \in CellRows(Q)
      BY <2>1, <3>1, InCellRows
    <3>3. StampOf(Q, row) = y
      <4>1. Key(WonBy(Q, row, {"cell"})) = k
        <5> DEFINE one == {"cell"}
        <5>1. WonBy(Q, row, one) = WonBy(I, row, one) /\ Key(WonBy(I, row, one)) = k
          BY <2>1, <3>1, SameWrites, WinnerIs
        <5> HIDE DEF one, k
        <5>2. Key(WonBy(Q, row, one)) = k
          BY <5>1
        <5> QED BY <5>2 DEF one
      <4>2. RefLosers(Q, row) = {}
        <5>1. row \notin Contested(I)
          BY <1>5
        <5>2. RefLosers(I, row) = {}
          BY <5>1, Uncontested DEF Good
        <5>3. RefLosers(Q, row) = RefLosers(I, row)
          BY <3>1, SameWrites
        <5> QED BY <5>2, <5>3
      <4> HIDE DEF k
      <4> QED BY <4>1, <4>2 DEF StampOf
    <3>4. CellRows(Q) \cap (C \union {row}) = (CellRows(Q) \cap C) \union {row}
      BY <3>2
    <3>5. row \notin CellRows(Q) \cap C
      BY <1>5
    <3> HIDE DEF y
    <3> QED BY <3>3, <3>4, <3>5 DEF MetaOf, Put
  <2>3. Recalls(Q, z, C \union {row}, F, d, t, w) =
          Fields(A, T, z, C \union {row}, v, Put(m, row, y), f, t, d, w)
    <3> DEFINE E == C \union {row}  n == Put(m, row, y)
    <3>1. MetaOf(Q, E) = n
      BY <2>2
    <3> HIDE DEF E, n
    <3>2. Recalls(Q, z, E, F, d, t, w) = Fields(A, T, z, E, v, n, f, t, d, w)
      BY <3>1 DEF Recalls, Fields
    <3> QED BY <3>2 DEF E, n
  <2> HIDE DEF A, T, v, m, f, k, D, y
  <2> QED BY <1>1, <1>2, <1>5, <2>1, <2>3 DEF k, D
<1> QED BY <1>4, <1>5

\* One more op of the tail.
LEMMA TailGrows ==
    ASSUME NEW I, NEW R, NEW op, Good(I \union (R \union {op})), Follows(op, I \union R),
           op.kind \in OpKind
    PROVE  ApplyOp(IF op.kind \in {"cell", "formula"}
                   THEN AdoptStamp(Resumes(I, R), op.row, Winner(I, op.row)) ELSE Resumes(I, R), op)
           = Resumes(I, R \union {op})
<1> DEFINE Q == I \union R
           P == Q \union {op}
           C == Contested(I) \union Touched(I, R)
           D == Contested(I) \union Touched(I, R \union {op})
           z == SlotsOf(Q)
           F == FormulaRows(Q)
           t == TipOf(R)
           w == WritersOf(R)
           u == WritersOf(R \union {op})
           no == FALSE
<1>1. P = I \union (R \union {op}) /\ Good(P) /\ Good(I) /\ Good(Q) /\ Ops(P)
  <2>1. P = I \union (R \union {op})
    OBVIOUS
  <2>2. Good(P)
    BY <2>1
  <2>3. I \in SUBSET P /\ Q \in SUBSET P
    OBVIOUS
  <2> HIDE DEF P, Q
  <2> QED BY <2>1, <2>2, <2>3, GoodSubset DEF Good
<1>2. Before(t, Key(op))
  <2>1. R \in SUBSET P /\ op \in P /\ Follows(op, R)
    BY DEF Follows
  <2> HIDE DEF P
  <2> QED BY <1>1, <2>1, TipBeforeLater
<1>3. Ops(R \union {op}) /\ Follows(op, R)
  <2>1. R \union {op} \in SUBSET P /\ Follows(op, R)
    BY DEF Follows
  <2> HIDE DEF P
  <2> QED BY <1>1, <2>1, OpsOrdered
<1>4. TipOf(R \union {op}) = Key(op) /\ u = IF op.kind = "cell" THEN w \union {op.actor} ELSE w
  BY <1>3, TipGrows, WritersGrow
<1>5. SlotsOf(P) = StepSlots(z, op) /\ FormulaRows(P) = StepRows(F, op)
  <2>1. Ops(Q \union {op}) /\ Follows(op, Q)
    BY <1>1
  <2> HIDE DEF Q
  <2>2. SlotsOf(Q \union {op}) = StepSlots(SlotsOf(Q), op)
    BY <2>1, SlotsStep
  <2>3. FormulaRows(Q \union {op}) = StepRows(FormulaRows(Q), op)
    BY FormulaRowsGrow
  <2> QED BY <2>2, <2>3
<1>6. Resumes(I, R) = Recalls(Q, z, C, F, no, t, w)
  BY DEF Resumes
<1>7. Resumes(I, R \union {op}) = Recalls(P, SlotsOf(P), D, FormulaRows(P), no, Key(op), u)
  <2>1. Resumes(I, R \union {op}) =
          Recalls(I \union (R \union {op}), SlotsOf(I \union (R \union {op})), D,
                  FormulaRows(I \union (R \union {op})), no, TipOf(R \union {op}), u)
    BY DEF Resumes
  <2> HIDE DEF P, D, u, no
  <2> QED BY <1>1, <1>4, <2>1
<1>8. \A r \in CellRows(I) \ C : CellWrites(Q, r) = CellWrites(I, r)
  <2> SUFFICES ASSUME NEW r \in CellRows(I) \ C PROVE CellWrites(Q, r) = CellWrites(I, r)
    OBVIOUS
  <2>1. \A o \in R : ~(o.kind = "cell" /\ o.row = r)
    BY DEF Touched
  <2> QED BY <2>1 DEF CellWrites
<1>9. CASE op.kind \in {"cell", "formula"}
  <2> DEFINE row == op.row  E == C \union ({row} \cap CellRows(I))  s == Recalls(Q, z, E, F, no, t, w)
  <2>1. Contested(I) \subseteq C /\ (row \in CellRows(I) \ C => CellWrites(Q, row) = CellWrites(I, row))
    BY <1>8
  <2>2. D = E
    BY <1>9 DEF Touched
  <2> HIDE DEF Q, z, C, D, F, no, t, w, u, P, row
  <2>3. AdoptStamp(Resumes(I, R), row, Winner(I, row)) = s
    BY <1>1, <1>6, <2>1, AdoptRecalls
  <2> HIDE DEF E
  <2>4. ApplyOp(s, op) = Recalls(Q \union {op}, StepSlots(z, op), E, StepRows(F, op), no, Key(op), u)
    <3>1. Good(Q \union {op}) /\ Follows(op, Q)
      BY <1>1 DEF P, Q
    <3> QED BY <1>2, <1>4, <3>1, RecalledGrows
  <2>5. Resumes(I, R \union {op}) = ApplyOp(s, op)
    BY <1>5, <1>7, <2>2, <2>4 DEF P
  <2> HIDE DEF s
  <2> QED BY <1>9, <2>3, <2>5 DEF row
<1>10. CASE op.kind \notin {"cell", "formula"}
  <2>1. D = C
    BY <1>10 DEF Touched
  <2> HIDE DEF Q, z, C, D, F, no, t, w, u, P
  <2>2. ApplyOp(Resumes(I, R), op) = Recalls(Q \union {op}, StepSlots(z, op), C, StepRows(F, op), no, Key(op), u)
    <3>1. Good(Q \union {op}) /\ Follows(op, Q)
      BY <1>1 DEF P, Q
    <3> QED BY <1>2, <1>4, <1>6, <3>1, RecalledGrows
  <2>3. Resumes(I, R \union {op}) = ApplyOp(Resumes(I, R), op)
    BY <1>5, <1>7, <2>1, <2>2 DEF P
  <2> QED BY <1>10, <2>3
<1> QED BY <1>9, <1>10

\* An image is resumed with nothing of its tail.
LEMMA ImageResumes ==
    ASSUME NEW I, Good(I), \A op \in I : op.kind \in OpKind
    PROVE  FromImage(I) = Resumes(I, {})
<1> DEFINE A == TreeOf(I)
           T == Tombs(I)
           z == SlotsOf(I)
           C == Contested(I)
           v == ValueOf(I)
           m == MetaOf(I, C)
           f == FormulasOf(I, FormulaRows(I))
           t == TipOf(I)
           w == WritersOf(I)
           yes == TRUE
           no == FALSE
           none == {}
           floor == Floor
<1>1. Replay(I) = Fields(A, T, z, C, v, m, f, t, yes, w)
  <2>1. Replay(I) = Meaning(I, z, C, FormulaRows(I), yes)
    BY ReplayMeans
  <2> HIDE DEF z, C, yes
  <2> QED BY <2>1 DEF Meaning, Fields
<1>2. Resumes(I, none) = Fields(A, T, z, C, v, m, f, floor, no, none)
  <2>1. I \union none = I /\ Touched(I, none) = {} /\ C \union {} = C
    BY DEF Touched
  <2>2. TipOf(none) = floor /\ WritersOf(none) = none
    BY TipOfNone DEF WritersOf
  <2>3. Resumes(I, none) = Recalls(I, z, C, FormulaRows(I), no, floor, none)
    <3> HIDE DEF none, floor, no
    <3> QED BY <2>1, <2>2 DEF Resumes, no
  <2> HIDE DEF z, C, no, none, floor
  <2> QED BY <2>3 DEF Recalls, Fields
<1>3. FromImage(I) = [Replay(I) EXCEPT !.tip = floor, !.folded = no, !.writers = none]
  BY DEF FromImage
<1> HIDE DEF A, T, z, C, v, m, f, t, w, yes, no, none, floor
<1>4. [Fields(A, T, z, C, v, m, f, t, yes, w) EXCEPT !.tip = floor]
        = Fields(A, T, z, C, v, m, f, floor, yes, w)
  BY DEF Fields
<1>5. [Fields(A, T, z, C, v, m, f, floor, yes, w) EXCEPT !.folded = no]
        = Fields(A, T, z, C, v, m, f, floor, no, w)
  BY DEF Fields
<1>6. [Fields(A, T, z, C, v, m, f, floor, no, w) EXCEPT !.writers = none]
        = Fields(A, T, z, C, v, m, f, floor, no, none)
  BY DEF Fields
<1>7. FromImage(I) = [[[Replay(I) EXCEPT !.tip = floor] EXCEPT !.folded = no] EXCEPT !.writers = none]
  BY <1>3
<1>8. FromImage(I) = Resumes(I, none)
  BY <1>1, <1>2, <1>4, <1>5, <1>6, <1>7
<1> QED BY <1>8 DEF none

\* Folding the tail leaves what was to be resumed with all of it.
LEMMA TailFolds ==
    ASSUME NEW P, Good(P), \A op \in P : op.kind \in OpKind,
           NEW I \in SUBSET P, NEW R, R = P \ I, \A op \in R : Follows(op, I)
    PROVE  ApplyTail(FromImage(I), I, Canonical(R)) = Resumes(I, R)
<1> DEFINE c == Canonical(R)
           n == Cardinality(R)
           base == FromImage(I)
           Fed(x, op) == IF op.kind \in {"cell", "formula"}
                         THEN AdoptStamp(x, op.row, Winner(I, op.row)) ELSE x
           it == CHOOSE f : f = [s \in SUBSET (1 .. n) |->
                    IF s = {} THEN base
                    ELSE ApplyOp(Fed(f[s \ {Max(s)}], c[Max(s)]), c[Max(s)])]
           H(s) == Resumes(I, At(c, s))
           h == [s \in SUBSET (1 .. n) |-> H(s)]
<1>0. Good(R) /\ Good(I) /\ R \in SUBSET P
  BY GoodSubset
<1>1. n \in Nat /\ Lists(c, R, OpOrder(R)) /\ Ops(R)
  BY <1>0, CanonicalLists, FS_CardinalityType DEF Good, Ops
<1>2. DOMAIN c = 1 .. n
  BY <1>1 DEF Lists
<1> HIDE DEF base
<1>3. ApplyTail(base, I, c) = it[1 .. n]
  BY Zenon, <1>2 DEF ApplyTail, FoldLeft, MapThenFoldSet
<1>4. \A s \in SUBSET (1 .. n) : s # {} => LastOp(R, c, s)
  BY <1>0, CanonicalLast
<1>a. At(c, {}) = {} /\ At(c, 1 .. n) = R
  BY <1>1, AllPlaces
<1>b. base = Resumes(I, {})
  BY <1>0, ImageResumes DEF base
<1>c. \A s \in SUBSET (1 .. n) : At(c, s) \in SUBSET R
  <2>1. \A i \in 1 .. n : c[i] \in R
    BY <1>1 DEF Lists
  <2> HIDE DEF c
  <2> QED BY <2>1 DEF At
<1> HIDE DEF c, n, Fed
<1>5. ASSUME NEW s \in SUBSET (1 .. n)
      PROVE  h[s] = IF s = {} THEN base ELSE ApplyOp(Fed(h[s \ {Max(s)}], c[Max(s)]), c[Max(s)])
  <2>1. CASE s = {}
    BY <1>a, <1>b, <2>1
  <2>2. CASE s # {}
    <3> DEFINE op == c[Max(s)]
               r == s \ {Max(s)}
               S == At(c, r)
    <3>1. LastOp(R, c, s)
      BY <1>4, <2>2
    <3>2. /\ op \in R /\ r \in SUBSET (1 .. n) /\ At(c, s) = S \union {op}
          /\ Follows(op, S)
      BY <3>1 DEF LastOp, n
    <3>3. h[s] = Resumes(I, At(c, s)) /\ h[r] = Resumes(I, S)
      BY <3>2
    <3>4. S \in SUBSET R
      BY <1>c, <3>2
    <3> HIDE DEF op, r, h, S
    <3>5. Good(I \union (S \union {op})) /\ Follows(op, I \union S) /\ op.kind \in OpKind
      <4>1. I \union (S \union {op}) \in SUBSET P
        BY <3>2, <3>4
      <4>2. Follows(op, I \union S)
        BY <3>2 DEF Follows
      <4> QED BY <3>2, <4>1, <4>2, GoodSubset
    <3>6. ApplyOp(Fed(Resumes(I, S), op), op) = Resumes(I, S \union {op})
      BY <3>5, TailGrows DEF Fed
    <3>7. h[s] = ApplyOp(Fed(h[r], op), op)
      BY <3>2, <3>3, <3>6
    <3> QED BY <2>2, <3>7 DEF op, r
  <2> QED BY <2>1, <2>2
<1>6. h = [s \in SUBSET (1 .. n) |-> h[s]]
  <2> HIDE DEF H
  <2> QED OBVIOUS
<1>7. h[1 .. n] = Resumes(I, R)
  <2>1. h[1 .. n] = Resumes(I, At(c, 1 .. n))
    OBVIOUS
  <2> QED BY <1>a, <2>1
<1> HIDE DEF h
<1>8. it = [s \in SUBSET (1 .. n) |->
               IF s = {} THEN base ELSE ApplyOp(Fed(it[s \ {Max(s)}], c[Max(s)]), c[Max(s)])]
  <2>1. h = [s \in SUBSET (1 .. n) |->
               IF s = {} THEN base ELSE ApplyOp(Fed(h[s \ {Max(s)}], c[Max(s)]), c[Max(s)])]
    BY <1>5, <1>6
  <2> QED BY <2>1
<1> HIDE DEF it
<1>9. it[1 .. n] = h[1 .. n]
  <2>1. it[{}] = h[{}]
    BY <1>5, <1>8
  <2>2. ASSUME NEW k \in 0 .. n - 1, it[1 .. k] = h[1 .. k]
        PROVE  it[1 .. k + 1] = h[1 .. k + 1]
    <3> DEFINE s == 1 .. k + 1
               p == k + 1
    <3>1. s \in SUBSET (1 .. n) /\ s # {} /\ Max(s) = p /\ s \ {p} = 1 .. k
      BY <1>1, NextPlace
    <3> HIDE DEF s, p
    <3>2. it[s] = ApplyOp(Fed(it[1 .. k], c[p]), c[p])
      BY <1>8, <3>1
    <3>3. h[s] = ApplyOp(Fed(h[1 .. k], c[p]), c[p])
      BY <1>5, <3>1
    <3> QED BY <2>2, <3>2, <3>3 DEF s
  <2> QED BY <1>1, <2>1, <2>2, FirstsAgree
<1> QED BY <1>3, <1>7, <1>9 DEF base, c

\* A tail that follows all of the image is never refused, and folded whole.
LEMMA TailTaken ==
    ASSUME NEW P, Good(P), \A op \in P : op.kind \in OpKind,
           NEW I \in SUBSET P, NEW R, R = P \ I, \A op \in R : Follows(op, I)
    PROVE  IntoState(I, R) = Resumes(I, R)
<1> DEFINE S == {op \in I : op.kind = "cell"}
           g == GreatestWrite(I)
           fresh == {op \in R : ~Predates(op, g)}
<1>1. \A op \in R : Before(g, Key(op))
  <2>1. g = TipOf(S)
    BY DEF GreatestWrite, TipOf
  <2>2. \A op \in R : op \in P /\ Follows(op, S) /\ S \in SUBSET P
    BY DEF Follows
  <2> HIDE DEF S
  <2> QED BY <2>1, <2>2, TipBeforeLater
<1> HIDE DEF g
<1>2. fresh = R
  BY <1>1 DEF Predates
<1>3. ~ \E op \in fresh : ~Before(g, Key(op))
  BY <1>1
<1>4. IntoState(I, R) = IF \E op \in fresh : ~Before(g, Key(op)) THEN FromImage(I)
                        ELSE ApplyTail(FromImage(I), I, Canonical(fresh))
  BY Zenon DEF IntoState, g
<1> HIDE DEF fresh
<1>5. IntoState(I, R) = ApplyTail(FromImage(I), I, Canonical(R))
  BY <1>2, <1>3, <1>4
<1> QED BY <1>5, TailFolds

\* A sheet does not show what the tip path goes by.
LEMMA SheetReads ==
    ASSUME NEW s, NEW t, s.tree = t.tree, s.tombs = t.tombs, s.value = t.value,
           s.formulas = t.formulas
    PROVE  Sheet(s) = Sheet(t)
<1>1. \A r : (Live(s, r) <=> Live(t, r)) /\ Formula(s, r) = Formula(t, r)
  BY DEF Live, Formula
<1>2. LiveOrder(s) = LiveOrder(t)
  BY <1>1 DEF LiveOrder
<1>3. Present(s) = Present(t)
  BY <1>1 DEF Present
<1>4. {q \in DOMAIN s.formulas : Live(s, q) /\ Formula(s, q) # Blank}
        = {q \in DOMAIN t.formulas : Live(t, q) /\ Formula(t, q) # Blank}
  BY <1>1
<1>5. {<<r, Formula(s, r)>> : r \in {q \in DOMAIN s.formulas : Live(s, q) /\ Formula(s, q) # Blank}}
        = {<<r, Formula(t, r)>> : r \in {q \in DOMAIN t.formulas : Live(t, q) /\ Formula(t, q) # Blank}}
  BY <1>1, <1>4
<1> QED BY Zenon, <1>2, <1>3, <1>5 DEF Sheet

LEMMA RecallsFields ==
    ASSUME NEW P, NEW z, NEW C, NEW F, NEW d, NEW t, NEW w, NEW s, s = Recalls(P, z, C, F, d, t, w)
    PROVE  /\ s.tree = TreeOf(P) /\ s.tombs = Tombs(P) /\ s.value = ValueOf(P)
           /\ s.meta = MetaOf(P, C) /\ s.formulas = FormulasOf(P, F)
BY DEF Recalls

\* A resumed image shows what a replay shows, with every loser of its cells.
LEMMA ResumedShows ==
    ASSUME NEW P, Good(P), TextNamed(P), NEW I \in SUBSET P, NEW R, R = P \ I,
           NEW s, s = Resumes(I, R)
    PROVE  /\ Sheet(s) = RefSheet(P)
           /\ \A row \in CellRows(I) : Losers(s, row) = RefLosers(P, row)
<1> DEFINE C == Contested(I) \union Touched(I, R)
           no == FALSE
           u == Folds(P, C, no)
<1>1. P = I \union R
  OBVIOUS
<1>2. s = Recalls(P, SlotsOf(P), C, FormulaRows(P), no, TipOf(R), WritersOf(R))
  BY <1>1 DEF Resumes
<1> HIDE DEF C, no
<1>3. /\ s.tree = TreeOf(P) /\ s.tombs = Tombs(P) /\ s.value = ValueOf(P)
      /\ s.meta = MetaOf(P, C) /\ s.formulas = FormulasOf(P, FormulaRows(P))
  BY <1>2, RecallsFields
<1>u. u = Folds(P, C, no)
  OBVIOUS
<1> HIDE DEF u
<1>4. /\ u.tree = TreeOf(P) /\ u.tombs = Tombs(P) /\ u.value = ValueOf(P)
      /\ u.meta = MetaOf(P, C) /\ u.formulas = FormulasOf(P, FormulaRows(P))
  BY <1>u, FoldsFields
<1>5. Sheet(s) = RefSheet(P)
  <2>1. Sheet(s) = Sheet(u)
    BY <1>3, <1>4, SheetReads
  <2>2. Hashed(u) = <<RefSheet(P), RefSlots(P)>>
    BY <1>u, FoldsShow
  <2>3. Hashed(u)[1] = Sheet(u)
    BY DEF Hashed
  <2> QED BY <2>1, <2>2, <2>3
<1>6. ASSUME NEW row \in CellRows(I)
      PROVE  Losers(s, row) = RefLosers(P, row)
  <2>1. Losers(s, row) = Losers(u, row)
    BY <1>3, <1>4 DEF Losers
  <2>2. row \in CellRows(P)
    BY <1>1 DEF CellRows
  <2>3. Losers(u, row) = IF row \in C THEN RefLosers(P, row) ELSE {}
    BY <1>u, <2>2, LosersOfFold
  <2>4. row \notin C => RefLosers(P, row) = {}
    <3> SUFFICES ASSUME row \notin C PROVE RefLosers(P, row) = {}
      OBVIOUS
    <3>1. row \notin Contested(I) /\ \A o \in R : ~(o.kind = "cell" /\ o.row = row)
      BY DEF C, Touched
    <3>2. CellWrites(P, row) = CellWrites(I, row)
      BY <1>1, <3>1 DEF CellWrites
    <3>3. Good(I)
      BY GoodSubset
    <3>4. RefLosers(I, row) = {}
      BY <3>1, <3>3, Uncontested DEF Good
    <3> QED BY <3>2, <3>4, SameWrites
  <2> QED BY <2>1, <2>3, <2>4
<1> QED BY <1>5, <1>6

LEMMA SInvAdopts == SInv => AdoptedTailIsFold
<1> SUFFICES ASSUME SInv, NEW a \in Actor, NEW cut \in log[a],
                    NEW I, I = {op \in log[a] : ~Before(Key(cut), Key(op))}
             PROVE  /\ Sheet(IntoState(I, log[a] \ I)) = RefSheet(log[a])
                    /\ \A row \in CellRows(I) :
                          Losers(IntoState(I, log[a] \ I), row) = RefLosers(log[a], row)
    BY Zenon DEF AdoptedTailIsFold
<1> DEFINE P == log[a]  R == P \ I  s == IntoState(I, R)
<1>1. Good(P) /\ TextNamed(P) /\ \A op \in P : op.kind \in OpKind
    BY LogGood DEF SInv
<1>2. I \in SUBSET P
    OBVIOUS
<1>3. \A op \in R : Follows(op, I)
  <2> SUFFICES ASSUME NEW op \in R, NEW o \in I PROVE Before(Key(o), Key(op))
      BY DEF Follows
  <2>1. Key(op) \in Keys /\ Key(o) \in Keys /\ Key(cut) \in Keys
      BY <1>1, OpKeys DEF Good
  <2>2. Before(Key(cut), Key(op)) /\ ~Before(Key(cut), Key(o))
      OBVIOUS
  <2> HIDE DEF P, R
  <2> QED
      BY <2>1, <2>2, BeforeOrders
<1> HIDE DEF P
<1>r. R = P \ I
    OBVIOUS
<1> HIDE DEF R
<1>4. s = Resumes(I, R)
    BY <1>1, <1>2, <1>3, <1>r, TailTaken
<1> HIDE DEF s
<1>5. /\ Sheet(s) = RefSheet(P)
      /\ \A row \in CellRows(I) : Losers(s, row) = RefLosers(P, row)
    BY <1>1, <1>2, <1>4, <1>r, ResumedShows
<1> QED
    BY <1>5 DEF s, R, P

\* A snapshot taken anywhere in a session's log and opened with the rest as its
\* tail shows what a replay of the log shows, and no cell the snapshot held has
\* lost a loser: the tail is never refused, and a stamp adopted from the sidecar
\* is the one a replay would have made (apply_tail, Salvaged::into_state).
THEOREM AdoptedShowsLog == Spec => []AdoptedTailIsFold
    BY SInvAlways, SInvAdopts, PTL
=============================================================================
