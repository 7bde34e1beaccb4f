-------------------------- MODULE ContainerProofs --------------------------
(***************************************************************************)
(* Proofs about Container for any number of ops, kinds and authors, any    *)
(* retention limits and any damage: typing, the nesting of the snapshot    *)
(* chain and what compaction prunes.                                       *)
(***************************************************************************)
EXTENDS Container, SequenceTheorems, FiniteSetTheorems, WellFoundedInduction, TLAPS

-----------------------------------------------------------------------------
(* The least and the greatest index of a sequence that pass a test.        *)

\* A nonempty set of naturals has a least element.
LEMMA LeastNatural ==
    ASSUME NEW I \in SUBSET Nat, I # {}
    PROVE  \E x \in I : \A y \in I : x <= y
<1>1. PICK x \in I : \A y \in I : ~(<<y, x>> \in OpToRel(<, Nat))
  BY NatLessThanWellFounded, WFMin
<1>2. \A y \in I : ~(y < x)
  BY <1>1 DEF OpToRel
<1> QED
  BY <1>2

\* Min is the least element.
LEMMA MinLeast ==
    ASSUME NEW I \in SUBSET Nat, I # {}
    PROVE  Min(I) \in I /\ \A y \in I : Min(I) <= y
  BY LeastNatural DEF Min

\* Max is the greatest element of a bounded set.
LEMMA MaxGreatest ==
    ASSUME NEW n \in Nat, NEW I \in SUBSET (1..n), I # {}
    PROVE  Max(I) \in I /\ \A y \in I : y <= Max(I)
<1> DEFINE J == {n - x : x \in I}
<1>1. J \in SUBSET Nat /\ J # {}
  <2>1. \A x \in I : n - x \in Nat
    OBVIOUS
  <2> QED
    BY <2>1
<1>2. PICK j \in J : \A y \in J : j <= y
  BY <1>1, LeastNatural
<1>3. PICK x \in I : j = n - x
  OBVIOUS
<1>4. \A y \in I : n - x <= n - y
  BY <1>2, <1>3
<1>5. \A y \in I : y <= x
  BY <1>4
<1> QED
  BY <1>5 DEF Max

\* Chosen is the newest snapshot that verifies.
LEMMA ChosenNewest ==
    ASSUME NEW f \in File
    PROVE  /\ Chosen(f) = 0 => \A i \in DOMAIN f.chain : ~Verifies(f.chain[i])
           /\ Chosen(f) # 0 => /\ Chosen(f) \in DOMAIN f.chain
                               /\ Verifies(f.chain[Chosen(f)])
                               /\ \A i \in DOMAIN f.chain :
                                     Verifies(f.chain[i]) => Chosen(f) <= i
<1> DEFINE I == {i \in 1..Len(f.chain) : Verifies(f.chain[i])}
<1>1. f.chain \in Seq(Snapshot)
  BY DEF File
<1>2. I \in SUBSET Nat /\ DOMAIN f.chain = 1..Len(f.chain)
  BY <1>1
<1>3. Chosen(f) = IF I # {} THEN Min(I) ELSE 0
  BY DEF Chosen, SelectInSeq
<1>4. I # {} => Min(I) \in I /\ \A y \in I : Min(I) <= y
  BY <1>2, MinLeast
<1> HIDE DEF I
<1>5. CASE I = {}
  BY <1>2, <1>3, <1>5 DEF I
<1>6. CASE I # {}
  BY <1>1, <1>2, <1>3, <1>4, <1>6 DEF I
<1> QED
  BY <1>5, <1>6

-----------------------------------------------------------------------------
(* The chain a new snapshot leaves.                                        *)

\* What RemoveAt leaves, and where.
LEMMA RemoveAtElements ==
    ASSUME NEW S, NEW s \in Seq(S), NEW i \in 1..Len(s)
    PROVE  /\ RemoveAt(s, i) \in Seq(S)
           /\ Len(RemoveAt(s, i)) = Len(s) - 1
           /\ \A k \in 1..i-1 : RemoveAt(s, i)[k] = s[k]
           /\ \A k \in i..Len(s)-1 : RemoveAt(s, i)[k] = s[k+1]
<1> DEFINE left == SubSeq(s, 1, i-1)
           right == SubSeq(s, i+1, Len(s))
<1>1. /\ left \in Seq(S)
      /\ Len(left) = i - 1
      /\ \A k \in 1..i-1 : left[k] = s[k]
  OBVIOUS
<1>2. /\ right \in Seq(S)
      /\ Len(right) = Len(s) - i
      /\ \A k \in 1..Len(s)-i : right[k] = s[i+k]
  OBVIOUS
<1>3. RemoveAt(s, i) = left \o right
  BY Zenon DEF RemoveAt
<1> HIDE DEF left, right
<1>4. left \o right \in Seq(S) /\ Len(left \o right) = Len(s) - 1
  <2>1. left \o right \in Seq(S)
    BY <1>1, <1>2, ConcatProperties
  <2>2. Len(left \o right) = Len(left) + Len(right)
    BY <1>1, <1>2, ConcatProperties
  <2> QED
    BY <1>1, <1>2, <2>1, <2>2
<1>5. \A k \in 1..i-1 : (left \o right)[k] = s[k]
  BY <1>1, <1>2
<1>6. ASSUME NEW k \in i..Len(s)-1
      PROVE  (left \o right)[k] = s[k+1]
  <2>1. (left \o right)[k] = right[k - Len(left)]
    BY <1>1, <1>2
  <2>2. k - Len(left) = k - i + 1 /\ k - i + 1 \in 1..Len(s)-i
    BY <1>1
  <2>3. right[k - i + 1] = s[i + (k - i + 1)]
    BY <1>2, <2>2
  <2>4. i + (k - i + 1) = k + 1
    OBVIOUS
  <2> QED
    BY <2>1, <2>2, <2>3, <2>4
<1> QED
  BY <1>3, <1>4, <1>5, <1>6

\* A stored snapshot keeps its place among the others.
LEMMA OthersKeepOrder ==
    ASSUME NEW stored \in Seq(Snapshot), NEW snapshot \in Snapshot
    PROVE  /\ Others(stored, snapshot) \in Seq(Snapshot)
           /\ \E place \in [DOMAIN Others(stored, snapshot) -> DOMAIN stored] :
                /\ \A k \in DOMAIN Others(stored, snapshot) :
                      Others(stored, snapshot)[k] = stored[place[k]]
                /\ \A k, l \in DOMAIN Others(stored, snapshot) :
                      k < l => place[k] < place[l]
<1> DEFINE SameWatermark(s) == Watermark(s.covers) = Watermark(snapshot.covers)
           I == {i \in 1..Len(stored) : SameWatermark(stored[i])}
           i == SelectInSeq(stored, SameWatermark)
           others == Others(stored, snapshot)
<1>1. i = IF I # {} THEN Min(I) ELSE 0
  BY DEF SelectInSeq
<1>2. others = IF i = 0 THEN stored ELSE RemoveAt(stored, i)
  BY DEF Others
<1>3. i = 0 \/ i \in 1..Len(stored)
  <2>1. I \in SUBSET Nat
    OBVIOUS
  <2>2. I # {} => Min(I) \in I
    BY <2>1, MinLeast
  <2> QED
    BY <1>1, <2>2
<1> HIDE DEF i, others, I
<1>4. CASE i = 0
  <2> DEFINE place == [k \in DOMAIN others |-> k]
  <2>1. others = stored
    BY <1>2, <1>4
  <2>2. /\ place \in [DOMAIN others -> DOMAIN stored]
        /\ \A k \in DOMAIN others : others[k] = stored[place[k]]
        /\ \A k, l \in DOMAIN others : k < l => place[k] < place[l]
    BY <2>1
  <2> QED
    BY <2>1, <2>2 DEF others
<1>5. CASE i \in 1..Len(stored)
  <2> DEFINE place == [k \in DOMAIN others |-> IF k < i THEN k ELSE k + 1]
  <2>1. i # 0
    BY <1>5
  <2>2. others = RemoveAt(stored, i)
    BY <1>2, <2>1
  <2>3. others \in Seq(Snapshot) /\ Len(others) = Len(stored) - 1
    BY <1>5, <2>2, RemoveAtElements
  <2>4. /\ \A k \in 1..i-1 : others[k] = stored[k]
        /\ \A k \in i..Len(stored)-1 : others[k] = stored[k+1]
    BY <1>5, <2>2, RemoveAtElements
  <2>5. DOMAIN others = 1..Len(stored)-1 /\ DOMAIN stored = 1..Len(stored)
    BY <2>3
  <2>6. /\ place \in [DOMAIN others -> DOMAIN stored]
        /\ \A k \in DOMAIN others : others[k] = stored[place[k]]
        /\ \A k, l \in DOMAIN others : k < l => place[k] < place[l]
    BY <1>5, <2>4, <2>5
  <2> QED
    BY <2>3, <2>6 DEF others
<1> QED
  BY <1>3, <1>4, <1>5

\* A chain is sound for a log: its snapshots are nested, cover what an image
\* represents and, if they verify, only ops of the log.
SoundChain(chain, ops) ==
    /\ chain \in Seq(Snapshot)
    /\ \A i, j \in DOMAIN chain :
          i < j /\ Verifies(chain[i]) /\ Verifies(chain[j])
              => chain[j].covers \subseteq chain[i].covers
    /\ \A i \in DOMAIN chain : chain[i].covers \subseteq Represented(Op)
    /\ \A i \in DOMAIN chain : Verifies(chain[i]) => chain[i].covers \subseteq ops

\* A snapshot of the log keeps the chain sound.
LEMMA ChainSound ==
    ASSUME NEW ops \in SUBSET Op, NEW stored, SoundChain(stored, ops)
    PROVE  SoundChain(Chain(stored, Build(ops)), ops)
<1> DEFINE others == Others(stored, Build(ops))
           whole  == <<Build(ops)>> \o others
           chain  == Chain(stored, Build(ops))
           n      == Min({Retained, Len(whole)})
<1>1. Build(ops) \in Snapshot /\ Build(ops).covers = Represented(ops)
  BY DEF Build, Snapshot, Represented, Body
<1>2. stored \in Seq(Snapshot)
  BY DEF SoundChain
<1>3. PICK place \in [DOMAIN others -> DOMAIN stored] :
          /\ \A k \in DOMAIN others : others[k] = stored[place[k]]
          /\ \A k, l \in DOMAIN others : k < l => place[k] < place[l]
  BY <1>1, <1>2, OthersKeepOrder
<1>4. others \in Seq(Snapshot)
  BY <1>1, <1>2, OthersKeepOrder
<1> HIDE DEF others
<1>5. /\ whole \in Seq(Snapshot)
      /\ Len(whole) = Len(others) + 1
      /\ whole[1] = Build(ops)
      /\ \A k \in 2..Len(whole) : k - 1 \in DOMAIN others /\ whole[k] = others[k-1]
  BY <1>1, <1>4
<1>6. n \in 0..Len(whole)
  <2>1. {Retained, Len(whole)} \in SUBSET Nat
    BY <1>5, RetainedAssumption
  <2>2. n \in {Retained, Len(whole)} /\ n <= Len(whole)
    BY <2>1, MinLeast
  <2> QED
    BY <2>1, <2>2
<1>7. chain = SubSeq(whole, 1, n)
  BY DEF Chain, others
<1> HIDE DEF whole, n
<1>8. /\ chain \in Seq(Snapshot)
      /\ DOMAIN chain = 1..n
      /\ \A k \in 1..n : chain[k] = whole[k]
  BY <1>5, <1>6, <1>7
<1> HIDE DEF chain
<1>9. \A k \in DOMAIN chain :
          \/ k = 1 /\ chain[k] = Build(ops)
          \/ k > 1 /\ k - 1 \in DOMAIN others /\ place[k-1] \in DOMAIN stored
                   /\ chain[k] = stored[place[k-1]]
  BY <1>3, <1>5, <1>6, <1>8
<1>10. \A k \in DOMAIN chain : chain[k].covers \subseteq Represented(Op)
  BY <1>1, <1>9 DEF SoundChain, Represented
<1>11. \A k \in DOMAIN chain : Verifies(chain[k]) => chain[k].covers \subseteq ops
  BY <1>1, <1>9 DEF SoundChain, Represented
<1>12. ASSUME NEW k \in DOMAIN chain, NEW l \in DOMAIN chain, k < l,
              Verifies(chain[k]), Verifies(chain[l])
       PROVE  chain[l].covers \subseteq chain[k].covers
  <2>1. l > 1 /\ k \in Nat /\ l \in Nat
    BY <1>6, <1>8, <1>12
  <2>2. CASE k = 1
    BY <1>1, <1>9, <1>10, <1>11, <1>12, <2>1, <2>2 DEF Represented
  <2>3. CASE k > 1
    <3>1. place[k-1] < place[l-1]
      BY <1>3, <1>9, <1>12, <2>1, <2>3
    <3> QED
      BY <1>9, <1>12, <2>1, <2>3, <3>1 DEF SoundChain
  <2> QED
    BY <1>6, <1>8, <2>1, <2>2, <2>3
<1> QED
  BY <1>8, <1>10, <1>11, <1>12 DEF SoundChain, chain

-----------------------------------------------------------------------------
(* Type correctness.                                                       *)

\* A log and deferred ops belong to a session; only COMPACTING defers.
SessionOnly ==
    /\ doc = "Closed" => log = {}
    /\ doc # "Compacting" => deferred = {}

TypeInv == TypeOK /\ SessionOnly

\* Any snapshot added to a chain leaves a chain.
LEMMA ChainType ==
    ASSUME NEW stored \in Seq(Snapshot), NEW snapshot \in Snapshot
    PROVE  Chain(stored, snapshot) \in Seq(Snapshot)
<1> DEFINE whole == <<snapshot>> \o Others(stored, snapshot)
           n     == Min({Retained, Len(whole)})
<1>1. Others(stored, snapshot) \in Seq(Snapshot)
  BY OthersKeepOrder
<1>2. whole \in Seq(Snapshot)
  BY <1>1
<1> HIDE DEF whole
<1>3. n \in 0..Len(whole)
  <2>1. {Retained, Len(whole)} \in SUBSET Nat
    BY <1>2, RetainedAssumption
  <2>2. n \in {Retained, Len(whole)} /\ n <= Len(whole)
    BY <2>1, MinLeast
  <2> QED
    BY <2>1, <2>2
<1>4. Chain(stored, snapshot) = SubSeq(whole, 1, n)
  BY DEF Chain, whole
<1> HIDE DEF n
<1> QED
  BY <1>2, <1>3, <1>4

\* A snapshot of ops.
LEMMA BuildType ==
    ASSUME NEW ops \in SUBSET Op
    PROVE  Build(ops) \in Snapshot
  BY DEF Build, Snapshot, Represented, Body

\* The compacted file is a file.
LEMMA CompactedType ==
    ASSUME TypeOK
    PROVE  Compacted \in File
<1>1. Chain(file.chain, Build(log)) \in Seq(Snapshot)
  BY ChainType, BuildType DEF TypeOK, File
<1>2. log \ PruneFloor(Chain(file.chain, Build(log))) \subseteq Op
  BY DEF TypeOK
<1> HIDE DEF PruneFloor, Chain, Build
<1> QED
  BY <1>1, <1>2 DEF Compacted, File

\* What recovery believes in are ops.
LEMMA BelievedType ==
    ASSUME NEW f \in File
    PROVE  Believed(f) \subseteq Op /\ ReadTail(f) \subseteq Op
<1>1. ReadTail(f) \subseteq Op
  BY DEF ReadTail, StoredTail, File
<1>2. Chosen(f) # 0 => f.chain[Chosen(f)] \in Snapshot
  BY ChosenNewest DEF File
<1>3. Image(f) \subseteq Op
  BY <1>2 DEF Image, Snapshot
<1> QED
  BY <1>1, <1>3 DEF Believed

\* The initial state is well typed.
LEMMA TypeInit == Init => TypeInv
  BY DamageLimits
  DEF Init, TypeInv, TypeOK, SessionOnly, File, DocState

\* Every step keeps types.
LEMMA TypeStep ==
    ASSUME TypeInv, [Next]_vars
    PROVE  TypeInv'
<1> USE DEF TypeInv, TypeOK, SessionOnly, DocState
<1>1. CASE Open
  BY <1>1, BelievedType, Zenon DEF Open
<1>2. CASE UserAck
  BY <1>2 DEF UserAck
<1>3. ASSUME NEW op \in Op, Append1(op)
      PROVE  TypeInv'
  BY <1>3 DEF Append1, File
<1>4. ASSUME NEW op \in Op, Defer(op)
      PROVE  TypeInv'
  BY <1>4 DEF Defer
<1>5. CASE PutSnapshot
  <2>1. Chain(file.chain, Build(log)) \in Seq(Snapshot)
    BY ChainType, BuildType DEF File
  <2>2. file' \in File
    BY <1>5, <2>1 DEF PutSnapshot, File
  <2> QED
    BY <1>5, <2>2 DEF PutSnapshot
<1>6. CASE Compact
  BY <1>6, CompactedType DEF Compact
<1>7. CASE FailCompact
  <2>1. file' \in File /\ attached' \in BOOLEAN
    BY <1>7, CompactedType DEF FailCompact
  <2>2. failures' \in 0..MaxFailures
    BY <1>7, DamageLimits DEF FailCompact
  <2> QED
    BY <1>7, <2>1, <2>2 DEF FailCompact
<1>8. CASE Close
  BY <1>8 DEF Close
<1>9. CASE Crash
  BY <1>9 DEF Crash
<1>10. CASE DamageFile
  <2>1. file' \in File
    <3>1. CASE Tear
      BY <3>1 DEF Tear, File
    <3>2. CASE Spoil
      <4>1. PICK i \in DOMAIN file.chain, b \in Damage \ {"torn"} :
                file' = [file EXCEPT !.chain[i].body = b]
        BY <3>2 DEF Spoil
      <4>2. b \in Body
        BY DamageAssumption DEF Body
      <4>3. [file.chain[i] EXCEPT !.body = b] \in Snapshot
        <5>1. file.chain[i] \in Snapshot
          BY DEF File
        <5> QED
          BY <4>2, <5>1 DEF Snapshot
      <4>4. [file.chain EXCEPT ![i].body = b] \in Seq(Snapshot)
        BY <4>3 DEF File
      <4> QED
        BY <4>1, <4>4 DEF File
    <3> QED
      BY <1>10, <3>1, <3>2 DEF DamageFile
  <2> QED
    BY <1>10, <2>1, DamageLimits DEF DamageFile
<1>11. CASE UNCHANGED vars
  BY <1>11 DEF vars
<1> QED
  BY <1>1, <1>2, <1>3, <1>4, <1>5, <1>6, <1>7, <1>8, <1>9, <1>10, <1>11 DEF Next

\* The state keeps its type: deferred ops are always ones the log holds, so
\* FlushDeferred never flushes what the caller does not have (machine.rs).
THEOREM ContainerType == Spec => []TypeOK
<1>1. TypeInv /\ [Next]_vars => TypeInv'
  BY TypeStep
<1> QED
  BY <1>1, TypeInit, PTL DEF Spec, TypeInv

-----------------------------------------------------------------------------
(* The snapshot chain.                                                     *)

\* A session holds what every verifying snapshot covers; between sessions the
\* chain is sound for all ops.
ChainInv == SoundChain(file.chain, IF doc = "Closed" THEN Op ELSE log)

ContainerInv == TypeInv /\ ChainInv

\* A chain stays sound for more ops.
LEMMA SoundForMore ==
    ASSUME NEW chain, NEW few, NEW many, few \subseteq many, SoundChain(chain, few)
    PROVE  SoundChain(chain, many)
  BY DEF SoundChain

\* The newest snapshot that verifies covers the others, so an open that gives
\* the caller its image gives it what all of them cover.
LEMMA SoundWhenOpened ==
    ASSUME NEW f \in File, SoundChain(f.chain, Op)
    PROVE  SoundChain(f.chain, Believed(f))
<1>1. ASSUME NEW i \in DOMAIN f.chain, Verifies(f.chain[i])
      PROVE  f.chain[i].covers \subseteq Believed(f)
  <2>1. Chosen(f) # 0 /\ Chosen(f) \in DOMAIN f.chain /\ Chosen(f) <= i
        /\ Verifies(f.chain[Chosen(f)])
    BY <1>1, ChosenNewest
  <2>2. f.chain[i].covers \subseteq f.chain[Chosen(f)].covers
    <3>1. CASE Chosen(f) = i
      BY <3>1
    <3>2. CASE Chosen(f) < i
      BY <1>1, <2>1, <3>2 DEF SoundChain
    <3>3. Chosen(f) \in Int /\ i \in Int
      BY <2>1 DEF File
    <3> QED
      BY <2>1, <3>1, <3>2, <3>3
  <2> QED
    BY <2>1, <2>2 DEF Believed, Image
<1> QED
  BY <1>1 DEF SoundChain

\* Damage to a snapshot's body leaves a sound chain.
LEMMA SoundWhenSpoilt ==
    ASSUME TypeOK, NEW ops, SoundChain(file.chain, ops), Spoil
    PROVE  SoundChain(file'.chain, ops)
<1>1. PICK i \in DOMAIN file.chain, b \in Damage \ {"torn"} :
          file' = [file EXCEPT !.chain[i].body = b]
  BY DEF Spoil
<1>2. b \in Body /\ b # "intact"
  BY DamageAssumption DEF Body
<1>3. file.chain \in Seq(Snapshot)
  BY DEF TypeOK, File
<1>4. file'.chain = [file.chain EXCEPT ![i].body = b]
  BY <1>1 DEF TypeOK, File
<1>5. file'.chain = [file.chain EXCEPT ![i] = [file.chain[i] EXCEPT !.body = b]]
  BY <1>4
<1>6. file.chain[i] \in Snapshot
  BY <1>3
<1>7. /\ [file.chain[i] EXCEPT !.body = b] \in Snapshot
      /\ [file.chain[i] EXCEPT !.body = b].covers = file.chain[i].covers
      /\ [file.chain[i] EXCEPT !.body = b].body = b
  BY <1>2, <1>6 DEF Snapshot
<1>8. /\ file'.chain \in Seq(Snapshot)
      /\ DOMAIN file'.chain = DOMAIN file.chain
      /\ \A k \in DOMAIN file.chain :
            /\ file'.chain[k].covers = file.chain[k].covers
            /\ Verifies(file'.chain[k]) => Verifies(file.chain[k])
  BY <1>2, <1>3, <1>5, <1>7 DEF Verifies
<1> QED
  BY <1>8 DEF SoundChain

\* Every step keeps the chain sound.
LEMMA ChainStep ==
    ASSUME ContainerInv, [Next]_vars
    PROVE  ChainInv'
<1> DEFINE ops == IF doc = "Closed" THEN Op ELSE log
<1>1. ops \in SUBSET Op /\ log \in SUBSET Op /\ SoundChain(file.chain, ops)
  BY DEF ContainerInv, TypeInv, TypeOK, ChainInv
<1>2. SoundChain(file.chain, Op)
  BY <1>1, SoundForMore
<1>3. doc # "Closed" => SoundChain(Chain(file.chain, Build(log)), log)
  BY <1>1, ChainSound
<1>4. Compacted.chain = Chain(file.chain, Build(log))
  BY DEF Compacted
<1> SUFFICES SoundChain(file'.chain, IF doc' = "Closed" THEN Op ELSE log')
  BY DEF ChainInv
<1>5. CASE Open
  BY <1>2, <1>5, SoundWhenOpened DEF Open, ContainerInv, TypeInv, TypeOK
<1>6. CASE UserAck
  BY <1>1, <1>6 DEF UserAck
<1>7. ASSUME NEW op \in Op, Append1(op) \/ Defer(op)
      PROVE  SoundChain(file'.chain, IF doc' = "Closed" THEN Op ELSE log')
  <2>1. /\ file'.chain = file.chain
        /\ log' = log \union {op}
        /\ doc' = doc /\ doc # "Closed"
    BY <1>7 DEF Append1, Defer, ContainerInv, TypeInv, TypeOK, File
  <2> QED
    BY <1>1, <2>1, SoundForMore
<1>8. CASE PutSnapshot
  <2>1. file'.chain = Chain(file.chain, Build(log))
    BY <1>8 DEF PutSnapshot, ContainerInv, TypeInv, TypeOK, File
  <2> QED
    BY <1>3, <1>8, <2>1 DEF PutSnapshot
<1>9. CASE Compact
  BY <1>3, <1>4, <1>9 DEF Compact
<1>10. CASE FailCompact
  BY <1>1, <1>3, <1>4, <1>10 DEF FailCompact
<1>11. CASE Close
  BY <1>2, <1>11 DEF Close
<1>12. CASE Crash
  BY <1>2, <1>12 DEF Crash
<1>13. CASE DamageFile
  <2>1. SoundChain(file'.chain, ops)
    <3>1. CASE Tear
      BY <1>1, <3>1 DEF Tear, ContainerInv, TypeInv, TypeOK, File
    <3>2. CASE Spoil
      BY <1>1, <3>2, SoundWhenSpoilt DEF ContainerInv, TypeInv
    <3> QED
      BY <1>13, <3>1, <3>2 DEF DamageFile
  <2> QED
    BY <1>13, <2>1 DEF DamageFile
<1>14. CASE UNCHANGED vars
  BY <1>1, <1>14 DEF vars
<1> QED
  BY <1>5, <1>6, <1>7, <1>8, <1>9, <1>10, <1>11, <1>12, <1>13, <1>14 DEF Next

\* Both parts of the invariant are inductive.
LEMMA ContainerInvariant == Spec => []ContainerInv
<1>1. Init => ContainerInv
  <2>1. Init => SoundChain(file.chain, Op)
    BY DEF Init, SoundChain
  <2> QED
    BY <2>1, TypeInit DEF ContainerInv, ChainInv, Init
<1>2. ContainerInv /\ [Next]_vars => ContainerInv'
  BY TypeStep, ChainStep DEF ContainerInv
<1> QED
  BY <1>1, <1>2, PTL DEF Spec

\* Snapshots stay nested through appends, stores, compactions, failures, crashes
\* and damage, whatever the ops and however they interleave (docs/16).
THEOREM ContainerNested == Spec => []Nested
<1>1. ContainerInv => Nested
  BY DEF ContainerInv, ChainInv, SoundChain, Nested
<1> QED
  BY <1>1, ContainerInvariant, PTL

\* Every snapshot of a sound chain that verifies covers the floor, which is empty
\* unless MinVerified verify.
LEMMA FloorCovered ==
    ASSUME NEW chain, NEW ops, SoundChain(chain, ops), PruneFloor(chain) # {}
    PROVE  /\ \A i \in DOMAIN chain : Verifies(chain[i]) => PruneFloor(chain) \subseteq chain[i].covers
           /\ Cardinality({i \in DOMAIN chain : Verifies(chain[i])}) >= MinVerified
           /\ \E i \in DOMAIN chain : Verifies(chain[i])
<1> DEFINE I == {i \in 1..Len(chain) : Verifies(chain[i])}
           last == SelectLastInSeq(chain, Verifies)
<1>1. chain \in Seq(Snapshot) /\ DOMAIN chain = 1..Len(chain) /\ Len(chain) \in Nat
  BY DEF SoundChain
<1>2. IsFiniteSet(I) /\ Cardinality(I) \in Nat
  <2>1. IsFiniteSet(1..Len(chain)) /\ I \in SUBSET (1..Len(chain))
    BY <1>1, FS_Interval
  <2>2. IsFiniteSet(I)
    BY <2>1, FS_Subset
  <2> QED
    BY <2>2, FS_CardinalityType
<1>3. Cardinality(I) >= MinVerified /\ PruneFloor(chain) = chain[last].covers
  <2>1. I = {i \in DOMAIN chain : Verifies(chain[i])}
    BY <1>1
  <2>2. ~(Cardinality(I) < MinVerified) /\ PruneFloor(chain) = chain[last].covers
    BY <2>1 DEF PruneFloor
  <2> QED
    BY <1>2, <2>2, MinVerifiedAssumption
<1>4. I # {}
  BY <1>2, <1>3, MinVerifiedAssumption, FS_EmptySet
<1>5. last = Max(I)
  BY <1>4 DEF SelectLastInSeq
<1>6. last \in I /\ \A i \in I : i <= last
  BY <1>1, <1>4, <1>5, MaxGreatest
<1> HIDE DEF last
<1>7. ASSUME NEW i \in I
      PROVE  PruneFloor(chain) \subseteq chain[i].covers
  <2>1. CASE i = last
    BY <1>3, <2>1
  <2>2. CASE i < last
    BY <1>1, <1>3, <1>6, <2>2 DEF SoundChain
  <2>3. i <= last /\ i \in Int /\ last \in Int
    BY <1>1, <1>6
  <2> QED
    BY <2>1, <2>2, <2>3
<1>8. I = {i \in DOMAIN chain : Verifies(chain[i])}
  BY <1>1
<1> QED
  BY <1>3, <1>4, <1>7, <1>8

\* Compaction deletes an op only when MinVerified snapshots of the new file
\* prove they contain it (Container::prune_floor).
THEOREM ContainerPrunes == Spec => PrunesOnlyProven
<1> DEFINE Proven(op) ==
        Cardinality({i \in DOMAIN file'.chain :
            Verifies(file'.chain[i]) /\ op \in file'.chain[i].covers}) >= MinVerified
<1>1. ASSUME ContainerInv, Compacts, NEW op \in log \ file'.rows
      PROVE  Proven(op)
  <2>1. doc # "Closed"
    BY <1>1 DEF ContainerInv, TypeInv, SessionOnly
  <2>2. SoundChain(file.chain, log) /\ log \in SUBSET Op
    BY <1>1, <2>1 DEF ContainerInv, ChainInv, TypeInv, TypeOK
  <2>3. /\ file'.chain = Chain(file.chain, Build(log))
        /\ file'.rows = log \ PruneFloor(file'.chain)
    BY <1>1 DEF Compacts, Compacted
  <2>4. SoundChain(file'.chain, log)
    BY <2>2, <2>3, ChainSound
  <2>5. op \in PruneFloor(file'.chain)
    BY <1>1, <2>3
  <2>6. {i \in DOMAIN file'.chain : Verifies(file'.chain[i]) /\ op \in file'.chain[i].covers}
          = {i \in DOMAIN file'.chain : Verifies(file'.chain[i])}
    BY <2>4, <2>5, FloorCovered
  <2> QED
    BY <2>4, <2>5, <2>6, FloorCovered
<1>2. ContainerInv /\ [Next]_vars => [Compacts => \A op \in log \ file'.rows : Proven(op)]_vars
  BY <1>1
<1> QED
  BY <1>2, ContainerInvariant, PTL DEF PrunesOnlyProven, Spec

-----------------------------------------------------------------------------
(* No acknowledged op is lost.                                             *)

\* The acknowledged ops this build can read.
Owed == acked \ Opaque

\* The rows and any one snapshot that verifies hold them; without a snapshot the
\* rows do.
Covered ==
    /\ \A i \in DOMAIN file.chain :
          Verifies(file.chain[i]) => Owed \subseteq file.rows \union file.chain[i].covers
    /\ file.chain = <<>> => Owed \subseteq file.rows

\* A session holds them too, less what its report owns up to until it is read.
Held ==
    /\ doc \in {"Ready", "Compacting"} => Owed \subseteq log
    /\ doc = "Salvage" => Owed \ report \subseteq log

KeptInv == Covered /\ Held

\* A new chain starts with the new snapshot and goes on with stored ones.
LEMMA ChainElements ==
    ASSUME NEW stored \in Seq(Snapshot), NEW snapshot \in Snapshot
    PROVE  /\ Chain(stored, snapshot) \in Seq(Snapshot)
           /\ Len(Chain(stored, snapshot)) >= 1
           /\ \A k \in DOMAIN Chain(stored, snapshot) :
                 \/ Chain(stored, snapshot)[k] = snapshot
                 \/ \E j \in DOMAIN stored : Chain(stored, snapshot)[k] = stored[j]
           /\ Retained >= 2 /\ Len(Chain(stored, snapshot)) <= 1 => Len(stored) <= 1
<1> DEFINE others == Others(stored, snapshot)
           whole  == <<snapshot>> \o others
           n      == Min({Retained, Len(whole)})
<1>1. others \in Seq(Snapshot)
  BY OthersKeepOrder
<1>2. \A k \in DOMAIN others : \E j \in DOMAIN stored : others[k] = stored[j]
  BY OthersKeepOrder
<1>3. Len(others) >= Len(stored) - 1
  <2> DEFINE SameWatermark(s) == Watermark(s.covers) = Watermark(snapshot.covers)
             I == {i \in 1..Len(stored) : SameWatermark(stored[i])}
             i == SelectInSeq(stored, SameWatermark)
  <2>1. i = IF I # {} THEN Min(I) ELSE 0
    BY DEF SelectInSeq
  <2>2. others = IF i = 0 THEN stored ELSE RemoveAt(stored, i)
    BY DEF Others
  <2>3. i = 0 \/ i \in 1..Len(stored)
    <3>1. I \in SUBSET Nat
      OBVIOUS
    <3>2. I # {} => Min(I) \in I
      BY <3>1, MinLeast
    <3> QED
      BY <2>1, <3>2
  <2> HIDE DEF i, others, I
  <2>4. i \in 1..Len(stored) => Len(RemoveAt(stored, i)) = Len(stored) - 1
    BY RemoveAtElements
  <2> QED
    BY <2>2, <2>3, <2>4
<1> HIDE DEF others
<1>4. /\ whole \in Seq(Snapshot)
      /\ Len(whole) = Len(others) + 1
      /\ whole[1] = snapshot
      /\ \A k \in 2..Len(whole) : k - 1 \in DOMAIN others /\ whole[k] = others[k-1]
  BY <1>1
<1>5. n \in {Retained, Len(whole)} /\ n <= Len(whole) /\ n <= Retained
  <2>1. {Retained, Len(whole)} \in SUBSET Nat
    BY <1>4, RetainedAssumption
  <2> QED
    BY <2>1, MinLeast
<1>6. Chain(stored, snapshot) = SubSeq(whole, 1, n)
  BY DEF Chain, others
<1> HIDE DEF whole, n
<1>7. n \in 1..Len(whole)
  BY <1>1, <1>4, <1>5, RetainedAssumption
<1>8. /\ SubSeq(whole, 1, n) \in Seq(Snapshot)
      /\ Len(SubSeq(whole, 1, n)) = n
      /\ DOMAIN SubSeq(whole, 1, n) = 1..n
      /\ \A k \in 1..n : SubSeq(whole, 1, n)[k] = whole[k]
  BY <1>4, <1>7
<1>9. ASSUME NEW k \in 1..n
      PROVE  whole[k] = snapshot \/ \E j \in DOMAIN stored : whole[k] = stored[j]
  <2>1. CASE k = 1
    BY <1>4, <2>1
  <2>2. CASE k > 1
    BY <1>2, <1>4, <1>7, <2>2
  <2> QED
    BY <2>1, <2>2
<1>10. Retained >= 2 /\ n <= 1 => Len(stored) <= 1
  BY <1>1, <1>3, <1>4, <1>5, RetainedAssumption
<1> QED
  BY <1>6, <1>7, <1>8, <1>9, <1>10

\* The initial state owes nothing.
LEMMA KeptInit == Init => KeptInv
  BY DEF Init, KeptInv, Covered, Held, Owed

\* Of a file whose rows and snapshots hold the ops owed, a clean open believes in
\* all of them, and any other in all but those its report owns up to.
LEMMA OpenHolds ==
    ASSUME ContainerInv, Covered
    PROVE  IF Clean(file) THEN Owed \subseteq Believed(file)
           ELSE Owed \ (acked \ (Shown(file) \union Opaque)) \subseteq Believed(file)
<1>1. file \in File /\ file.chain \in Seq(Snapshot)
  BY DEF ContainerInv, TypeInv, TypeOK, File
<1>2. CASE Clean(file)
  <2>1. Rejected(file) = 0 /\ Quarantine(file) = {}
    BY <1>2 DEF Clean
  <2>2. StoredTail(file) = ReadTail(file)
    BY <2>1 DEF Quarantine, ReadTail
  <2>3. CASE Chosen(file) = 0
    <3>1. Len(file.chain) = 0
      BY <2>1, <2>3 DEF Rejected
    <3>2. file.chain = <<>>
      BY <1>1, <3>1
    <3>3. CoveredIds(file) = {}
      BY <3>2 DEF CoveredIds, SelectInSeq
    <3> QED
      BY <1>2, <2>2, <3>2, <3>3 DEF Covered, Believed, StoredTail
  <2>4. CASE Chosen(file) # 0
    <3>1. Chosen(file) \in DOMAIN file.chain /\ Verifies(file.chain[Chosen(file)])
      BY <1>1, <2>4, ChosenNewest
    <3>2. Chosen(file) = 1
      BY <1>1, <2>1, <2>4, <3>1 DEF Rejected
    <3>3. Image(file) = file.chain[1].covers
      BY <3>2 DEF Image
    <3>4. CoveredIds(file) = file.chain[1].covers
      <4> DEFINE I == {i \in 1..Len(file.chain) : Splits(file.chain[i])}
                 i == SelectInSeq(file.chain, Splits)
      <4>1. i = IF I # {} THEN Min(I) ELSE 0
        BY DEF SelectInSeq
      <4>2. I \in SUBSET Nat /\ 1 \in I
        BY <1>1, <3>1, <3>2 DEF Splits, Verifies
      <4>3. Min(I) \in I /\ Min(I) <= 1
        BY <4>2, MinLeast
      <4>4. i = 1
        BY <4>1, <4>2, <4>3
      <4> QED
        BY <4>4 DEF CoveredIds
    <3> QED
      BY <1>2, <2>2, <3>1, <3>2, <3>3, <3>4 DEF Covered, Believed, StoredTail
  <2> QED
    BY <2>3, <2>4
<1>3. CASE ~Clean(file)
  <2>1. Applied(file) \subseteq ReadTail(file)
    BY DEF Applied, Fresh, Represented
  <2>2. Shown(file) \subseteq Believed(file)
    BY <2>1 DEF Shown, Believed
  <2> QED
    BY <1>3, <2>2 DEF Owed
<1> QED
  BY <1>2, <1>3

\* What compact writes holds the whole log, in the rows and in any one snapshot.
LEMMA CompactedCovers ==
    ASSUME ContainerInv, doc # "Closed"
    PROVE  /\ \A i \in DOMAIN Compacted.chain :
                 Verifies(Compacted.chain[i]) => log \subseteq Compacted.rows \union Compacted.chain[i].covers
           /\ Compacted.chain # <<>>
           /\ MinVerified >= 2 /\ Len(Compacted.chain) <= 1 => Compacted.rows = log
<1> DEFINE chain == Chain(file.chain, Build(log))
<1>1. log \in SUBSET Op /\ SoundChain(file.chain, log)
  BY DEF ContainerInv, TypeInv, TypeOK, ChainInv
<1>2. SoundChain(chain, log)
  BY <1>1, ChainSound
<1>3. Compacted.chain = chain /\ Compacted.rows = log \ PruneFloor(chain)
  BY DEF Compacted
<1>4. chain \in Seq(Snapshot) /\ Len(chain) >= 1
  BY <1>1, ChainElements, BuildType DEF SoundChain
<1> HIDE DEF chain
<1>5. \A i \in DOMAIN chain : Verifies(chain[i]) => PruneFloor(chain) \subseteq chain[i].covers
  BY <1>2, FloorCovered
<1>6. ASSUME MinVerified >= 2, Len(chain) <= 1
      PROVE  PruneFloor(chain) = {}
  <2> DEFINE I == {i \in DOMAIN chain : Verifies(chain[i])}
  <2>1. I \subseteq {1}
    BY <1>4, <1>6
  <2>2. IsFiniteSet({1}) /\ Cardinality({1}) = 1
    BY FS_Singleton
  <2>3. Cardinality(I) <= 1 /\ Cardinality(I) \in Nat
    BY <2>1, <2>2, FS_Subset, FS_CardinalityType
  <2>4. Cardinality(I) < MinVerified
    BY <1>6, <2>3, MinVerifiedAssumption
  <2> QED
    BY <2>4 DEF PruneFloor
<1> QED
  BY <1>3, <1>4, <1>5, <1>6

\* Spoiling a snapshot changes neither rows nor what the others cover.
LEMMA SpoilKeeps ==
    ASSUME TypeOK, Spoil
    PROVE  /\ file'.rows = file.rows /\ file'.torn = file.torn
           /\ Len(file'.chain) = Len(file.chain)
           /\ DOMAIN file'.chain = DOMAIN file.chain
           /\ \A k \in DOMAIN file.chain :
                 /\ file'.chain[k].covers = file.chain[k].covers
                 /\ Verifies(file'.chain[k]) => Verifies(file.chain[k])
                 /\ file'.chain[k].body = file.chain[k].body \/ file'.chain[k].body \in Damage \ {"torn"}
<1>1. PICK i \in DOMAIN file.chain, b \in Damage \ {"torn"} :
          file' = [file EXCEPT !.chain[i].body = b]
  BY DEF Spoil
<1>2. b # "intact"
  BY DamageAssumption
<1>3. file.chain \in Seq(Snapshot)
  BY DEF TypeOK, File
<1>4. /\ file'.chain = [file.chain EXCEPT ![i].body = b]
      /\ file'.rows = file.rows /\ file'.torn = file.torn
  BY <1>1 DEF TypeOK, File
<1>5. file'.chain = [file.chain EXCEPT ![i] = [file.chain[i] EXCEPT !.body = b]]
  BY <1>4
<1>6. file.chain[i] \in Snapshot
  BY <1>3
<1>7. /\ [file.chain[i] EXCEPT !.body = b].covers = file.chain[i].covers
      /\ [file.chain[i] EXCEPT !.body = b].body = b
  BY <1>6 DEF Snapshot
<1>8. DOMAIN file'.chain = DOMAIN file.chain /\ Len(file'.chain) = Len(file.chain)
  BY <1>3, <1>5, EmptySeq, ExceptSeq
<1> QED
  BY <1>1, <1>2, <1>4, <1>5, <1>7, <1>8 DEF Verifies

\* Every step keeps the ops owed where they are held.
LEMMA KeptStep ==
    ASSUME ContainerInv, KeptInv, [Next]_vars
    PROVE  KeptInv'
<1> USE DEF ContainerInv, TypeInv, TypeOK
<1>1. file \in File /\ file.chain \in Seq(Snapshot) /\ log \in SUBSET Op
  BY DEF File
<1>2. doc \in {"Ready", "Compacting"} => (acked \union deferred) \ Opaque \subseteq log
  BY DEF KeptInv, Held, Owed
<1> DEFINE owed == (acked \union deferred) \ Opaque
           CoveredBy(f, ops) ==
              /\ \A i \in DOMAIN f.chain : Verifies(f.chain[i]) => ops \subseteq f.rows \union f.chain[i].covers
              /\ f.chain = <<>> => ops \subseteq f.rows
<1>3. Covered = CoveredBy(file, acked \ Opaque) /\ Covered' = CoveredBy(file', (acked \ Opaque)')
  BY DEF Covered, Owed
<1>4. doc \in {"Ready", "Compacting"} => CoveredBy(Compacted, owed)
  <2>1. doc # "Closed" => CoveredBy(Compacted, log)
    BY CompactedCovers
  <2> QED
    BY <1>2, <2>1
<1>5. CASE Open
  <2>1. Covered'
    BY <1>5 DEF Open, KeptInv, Covered, Owed
  <2>2. Held'
    BY <1>5, OpenHolds DEF Open, KeptInv, Held, Owed
  <2> QED
    BY <2>1, <2>2 DEF KeptInv
<1>6. CASE UserAck
  BY <1>6 DEF UserAck, KeptInv, Covered, Held, Owed
<1>7. ASSUME NEW op \in Op, Append1(op)
      PROVE  KeptInv'
  <2>1. file'.chain = file.chain /\ file'.rows = file.rows \union {op}
    BY <1>1, <1>7 DEF Append1, File
  <2>2. Covered'
    BY <1>3, <1>7, <2>1 DEF Append1, KeptInv
  <2>3. Held'
    BY <1>7 DEF Append1, KeptInv, Held, Owed
  <2> QED
    BY <2>2, <2>3 DEF KeptInv
<1>8. ASSUME NEW op \in Op, Defer(op)
      PROVE  KeptInv'
  BY <1>8 DEF Defer, KeptInv, Covered, Held, Owed
<1>9. CASE PutSnapshot
  <2>1. Build(log) \in Snapshot /\ Build(log).covers = Represented(log)
    BY <1>1, BuildType DEF Build
  <2>2. file'.chain = Chain(file.chain, Build(log)) /\ file'.rows = file.rows
    BY <1>1, <1>9 DEF PutSnapshot, File
  <2>3. /\ file'.chain \in Seq(Snapshot) /\ Len(file'.chain) >= 1
        /\ \A k \in DOMAIN file'.chain :
              \/ file'.chain[k] = Build(log)
              \/ \E j \in DOMAIN file.chain : file'.chain[k] = file.chain[j]
    BY <1>1, <2>1, <2>2, ChainElements
  <2>4. file'.chain # <<>>
    BY <2>3
  <2>5. acked \ Opaque \subseteq Represented(log)
    BY <1>2, <1>9 DEF PutSnapshot, Represented, Opaque
  <2>6. \A k \in DOMAIN file'.chain :
            Verifies(file'.chain[k]) => acked \ Opaque \subseteq file'.rows \union file'.chain[k].covers
    BY <1>3, <2>1, <2>2, <2>3, <2>5 DEF KeptInv
  <2>7. Covered'
    BY <1>3, <1>9, <2>4, <2>6 DEF PutSnapshot
  <2>8. Held'
    BY <1>9 DEF PutSnapshot, KeptInv, Held, Owed
  <2> QED
    BY <2>7, <2>8 DEF KeptInv
<1>10. CASE Compact
  <2>1. Covered'
    BY <1>3, <1>4, <1>10 DEF Compact
  <2>2. Held'
    BY <1>2, <1>10 DEF Compact, Held, Owed
  <2> QED
    BY <2>1, <2>2 DEF KeptInv
<1>11. CASE FailCompact
  <2>1. file' \in {file, Compacted}
    BY <1>11 DEF FailCompact
  <2>2. CoveredBy(Compacted, acked \ Opaque)
    <3>1. acked \ Opaque \subseteq owed
      OBVIOUS
    <3>2. CoveredBy(Compacted, owed)
      BY <1>4, <1>11 DEF FailCompact
    <3> QED
      BY <3>1, <3>2
  <2>3. Covered'
    BY <1>3, <1>11, <2>1, <2>2 DEF FailCompact, KeptInv
  <2>4. Held'
    BY <1>11 DEF FailCompact, KeptInv, Held, Owed
  <2> QED
    BY <2>3, <2>4 DEF KeptInv
<1>12. CASE Close
  BY <1>12 DEF Close, KeptInv, Covered, Held, Owed
<1>13. CASE Crash
  BY <1>13 DEF Crash, KeptInv, Covered, Held, Owed
<1>14. CASE DamageFile
  <2>1. Held'
    BY <1>14 DEF DamageFile, KeptInv, Held, Owed
  <2>2. Covered'
    <3>1. CASE Tear
      <4>1. file'.rows = file.rows /\ file'.chain = file.chain
        BY <1>1, <3>1 DEF Tear, File
      <4> QED
        BY <1>3, <1>14, <4>1 DEF DamageFile, KeptInv
    <3>2. CASE Spoil
      <4>1. file'.chain = <<>> => file.chain = <<>>
        <5>1. Len(file'.chain) = Len(file.chain)
          BY <3>2, SpoilKeeps
        <5> QED
          BY <1>1, <5>1
      <4> QED
        BY <1>3, <1>14, <3>2, <4>1, SpoilKeeps DEF DamageFile, KeptInv
    <3> QED
      BY <1>14, <3>1, <3>2 DEF DamageFile
  <2> QED
    BY <2>1, <2>2 DEF KeptInv
<1>15. CASE UNCHANGED vars
  BY <1>15 DEF vars, KeptInv, Covered, Held, Owed
<1> QED
  BY <1>5, <1>6, <1>7, <1>8, <1>9, <1>10, <1>11, <1>12, <1>13, <1>14, <1>15 DEF Next

\* The ops owed are held, always.
LEMMA KeptInvariant == Spec => [](ContainerInv /\ KeptInv)
<1>1. ContainerInv /\ KeptInv /\ [Next]_vars => KeptInv'
  BY KeptStep
<1> QED
  BY <1>1, KeptInit, ContainerInvariant, PTL DEF Spec

\* What a clean open believes in it shows, unless apply_tail refuses the tail.
LEMMA CleanOpenShows ==
    ASSUME ContainerInv, KeptInv, Clean(file), ~TailRefused(file)
    PROVE  Restores(file)
<1>1. Owed \subseteq Believed(file)
  BY OpenHolds DEF KeptInv
<1>2. Fresh(file) = ReadTail(file)
  BY DEF Clean, Fresh
<1>3. ReadTail(file) \subseteq Op
  BY BelievedType DEF ContainerInv, TypeInv, TypeOK
<1>4. ReadTail(file) \subseteq Applied(file) \union Opaque
  BY <1>2, <1>3 DEF Applied, Represented, Opaque
<1> QED
  BY <1>1, <1>4 DEF Owed, Believed, Shown, Restores

\* Silent partial restore has one way in (docs/16): whatever the ops, their
\* authors and their order, the limits and the damage, an open without a report
\* that hides an acknowledged op is one whose tail apply_tail refused.
THEOREM OnlyARefusedTailIsSilent ==
    Spec => [](Clean(file) /\ ~Restores(file) => TailRefused(file))
<1>1. ContainerInv /\ KeptInv => (Clean(file) /\ ~Restores(file) => TailRefused(file))
  BY CleanOpenShows
<1> QED
  BY <1>1, KeptInvariant, PTL

\* Where every op writes a cell there is no way in: a file that opens without a
\* report shows everything that was acknowledged (usk-recover, salvage.rs).
THEOREM CellsAreNeverLostSilently ==
    ASSUME \A op \in Op : Kind[op] \in {"value", "formula"}
    PROVE  Spec => []NoSilentLoss
<1>1. ASSUME ContainerInv, Clean(file)
      PROVE  ~TailRefused(file)
  <2>1. ReadTail(file) \subseteq Op
    BY <1>1, BelievedType DEF ContainerInv, TypeInv, TypeOK
  <2>2. Predating(file) = {}
    BY <1>1 DEF Clean
  <2> QED
    BY <2>1, <2>2 DEF TailRefused, Fresh, Predating, Predates
<1>2. ContainerInv /\ KeptInv => NoSilentLoss
  BY <1>1, CleanOpenShows DEF NoSilentLoss
<1> QED
  BY <1>2, KeptInvariant, PTL

-----------------------------------------------------------------------------
(* A single snapshot that goes bad.                                        *)

\* While there are not two snapshots, the rows alone hold the ops owed.
Spare == Len(file.chain) <= 1 => Owed \subseteq file.rows

\* Every step keeps it, with the limits docs/16 asks for.
LEMMA SpareStep ==
    ASSUME Retained >= 2, MinVerified >= 2, ContainerInv, KeptInv, Spare, [Next]_vars
    PROVE  Spare'
<1> USE DEF ContainerInv, TypeInv, TypeOK
<1>1. file \in File /\ file.chain \in Seq(Snapshot) /\ log \in SUBSET Op
  BY DEF File
<1>2. doc \in {"Ready", "Compacting"} => (acked \union deferred) \ Opaque \subseteq log
  BY DEF KeptInv, Held, Owed
<1>3. doc # "Closed" /\ Len(Compacted.chain) <= 1 => Compacted.rows = log
  BY CompactedCovers
<1>4. CASE Open
  BY <1>4 DEF Open, Spare, Owed
<1>5. CASE UserAck
  BY <1>5 DEF UserAck, Spare, Owed
<1>6. ASSUME NEW op \in Op, Append1(op)
      PROVE  Spare'
  <2>1. file'.chain = file.chain /\ file'.rows = file.rows \union {op}
    BY <1>1, <1>6 DEF Append1, File
  <2> QED
    BY <1>6, <2>1 DEF Append1, Spare, Owed
<1>7. ASSUME NEW op \in Op, Defer(op)
      PROVE  Spare'
  BY <1>7 DEF Defer, Spare, Owed
<1>8. CASE PutSnapshot
  <2>1. file'.chain = Chain(file.chain, Build(log)) /\ file'.rows = file.rows
    BY <1>1, <1>8 DEF PutSnapshot, File
  <2>2. Len(file'.chain) <= 1 => Len(file.chain) <= 1
    BY <1>1, <2>1, ChainElements, BuildType
  <2> QED
    BY <1>8, <2>1, <2>2 DEF PutSnapshot, Spare, Owed
<1>9. CASE Compact
  BY <1>2, <1>3, <1>9 DEF Compact, Spare, Owed
<1>10. CASE FailCompact
  BY <1>2, <1>3, <1>10 DEF FailCompact, Spare, Owed
<1>11. CASE Close
  BY <1>11 DEF Close, Spare, Owed
<1>12. CASE Crash
  BY <1>12 DEF Crash, Spare, Owed
<1>13. CASE DamageFile
  <2>1. file'.rows = file.rows /\ Len(file'.chain) = Len(file.chain)
    <3>1. CASE Tear
      BY <1>1, <3>1 DEF Tear, File
    <3>2. CASE Spoil
      BY <3>2, SpoilKeeps
    <3> QED
      BY <1>13, <3>1, <3>2 DEF DamageFile
  <2> QED
    BY <1>13, <2>1 DEF DamageFile, Spare, Owed
<1>14. CASE UNCHANGED vars
  BY <1>14 DEF vars, Spare, Owed
<1> QED
  BY <1>4, <1>5, <1>6, <1>7, <1>8, <1>9, <1>10, <1>11, <1>12, <1>13, <1>14 DEF Next

\* One snapshot no longer splits; everything else in the file is as written.
OneBlank ==
    /\ file.torn = {}
    /\ Cardinality({i \in DOMAIN file.chain : ~Verifies(file.chain[i])}) <= 1
    /\ \A i \in DOMAIN file.chain : Splits(file.chain[i]) => Verifies(file.chain[i])

\* Where whatever splits verifies, the tail is what the image does not cover.
LEMMA BelievedWhole ==
    ASSUME NEW f \in File, f.torn = {},
           \A i \in DOMAIN f.chain : Splits(f.chain[i]) => Verifies(f.chain[i])
    PROVE  /\ CoveredIds(f) = Image(f)
           /\ ReadTail(f) = f.rows \ Image(f)
           /\ Believed(f) = Image(f) \union f.rows
<1>1. \A i \in DOMAIN f.chain : Splits(f.chain[i]) <=> Verifies(f.chain[i])
  BY DEF Splits, Verifies
<1>2. SelectInSeq(f.chain, Splits) = SelectInSeq(f.chain, Verifies)
  <2>1. DOMAIN f.chain = 1..Len(f.chain)
    BY DEF File
  <2>2. {i \in 1..Len(f.chain) : Splits(f.chain[i])} = {i \in 1..Len(f.chain) : Verifies(f.chain[i])}
    BY <1>1, <2>1
  <2> QED
    BY <2>2 DEF SelectInSeq
<1>3. CoveredIds(f) = Image(f)
  BY <1>2 DEF CoveredIds, Image, Chosen
<1>4. ReadTail(f) = f.rows \ Image(f)
  BY <1>3 DEF ReadTail, StoredTail
<1> QED
  BY <1>3, <1>4 DEF Believed

\* A file with one blank snapshot gives recovery every op owed.
LEMMA OneBlankRecovers ==
    ASSUME ContainerInv, KeptInv, Spare, OneBlank
    PROVE  Owed \subseteq Image(file) \union file.rows
<1>1. file \in File /\ file.chain \in Seq(Snapshot)
  BY DEF ContainerInv, TypeInv, TypeOK, File
<1>2. CASE Chosen(file) # 0
  <2>1. Chosen(file) \in DOMAIN file.chain /\ Verifies(file.chain[Chosen(file)])
    BY <1>1, <1>2, ChosenNewest
  <2> QED
    BY <1>2, <2>1 DEF KeptInv, Covered, Image
<1>3. CASE Chosen(file) = 0
  <2>1. \A i \in DOMAIN file.chain : ~Verifies(file.chain[i])
    BY <1>1, <1>3, ChosenNewest
  <2>2. {i \in DOMAIN file.chain : ~Verifies(file.chain[i])} = 1..Len(file.chain)
    BY <1>1, <2>1
  <2>3. Cardinality(1..Len(file.chain)) = Len(file.chain)
    BY <1>1, FS_Interval
  <2>4. Len(file.chain) <= 1
    BY <2>2, <2>3 DEF OneBlank
  <2> QED
    BY <2>4 DEF Spare
<1> QED
  BY <1>2, <1>3

\* Both parts of the invariant, and what was there before.
LEMMA SpareInvariant ==
    ASSUME Retained >= 2, MinVerified >= 2
    PROVE  Spec => [](ContainerInv /\ KeptInv /\ Spare)
<1>1. Init => Spare
  BY DEF Init, Spare, Owed
<1>2. ContainerInv /\ KeptInv /\ Spare /\ [Next]_vars => Spare'
  BY SpareStep
<1> QED
  BY <1>1, <1>2, KeptInvariant, PTL DEF Spec

\* Compaction never leaves the container in a state where one snapshot that goes
\* bad takes an acknowledged op from recovery (docs/16 Retention): whatever the
\* ops and authors, whatever was torn, disclaimed or spoilt before.
THEOREM OneBlankCostsNothing ==
    ASSUME Retained >= 2, MinVerified >= 2
    PROVE  Spec => [](OneBlank => acked \subseteq Believed(file) \union Opaque)
<1>1. ASSUME ContainerInv, KeptInv, Spare, OneBlank
      PROVE  acked \subseteq Believed(file) \union Opaque
  <2>1. Believed(file) = Image(file) \union file.rows
    BY <1>1, BelievedWhole DEF OneBlank, ContainerInv, TypeInv, TypeOK
  <2> QED
    BY <1>1, <2>1, OneBlankRecovers DEF Owed
<1>2. ContainerInv /\ KeptInv /\ Spare => (OneBlank => acked \subseteq Believed(file) \union Opaque)
  BY <1>1
<1> QED
  BY <1>2, SpareInvariant, PTL

-----------------------------------------------------------------------------
(* One author, every op readable, snapshots that go blank.                 *)

\* The workbook of one author of which only snapshots are ever damaged, so that
\* they no longer split.
Alone ==
    /\ \A o, p \in Op : Author[o] = Author[p]
    /\ Opaque = {}
    /\ Damage \subseteq {"unreadable"}

\* An op of the rows, the session or a snapshot that verifies.
Known(op) ==
    \/ op \in file.rows \union log
    \/ \E i \in DOMAIN file.chain : Verifies(file.chain[i]) /\ op \in file.chain[i].covers

\* Rows decode, what splits verifies, a session holds the rows, and a snapshot
\* that verifies covers a prefix of the ops known.
PrefixInv ==
    /\ file.torn = {}
    /\ \A i \in DOMAIN file.chain : Splits(file.chain[i]) => Verifies(file.chain[i])
    /\ doc # "Closed" => file.rows \subseteq log
    /\ \A i \in DOMAIN file.chain : Verifies(file.chain[i]) =>
          \A c \in file.chain[i].covers, o \in Op :
             Known(o) /\ o \notin file.chain[i].covers => c < o

\* A chain that starts with a snapshot of the session's log and goes on with
\* stored ones keeps it.
LEMMA PrefixChain ==
    ASSUME ContainerInv, PrefixInv, Alone, doc # "Closed", log' = log,
           doc' # "Closed" => file'.rows \subseteq log,
           file'.torn = {}, file'.rows \subseteq log,
           file'.chain = Chain(file.chain, Build(log))
    PROVE  PrefixInv'
<1>1. file.chain \in Seq(Snapshot) /\ log \in SUBSET Op
  BY DEF ContainerInv, TypeInv, TypeOK, File
<1>2. Build(log).covers = log /\ Verifies(Build(log))
  BY <1>1 DEF Build, Represented, Verifies, Alone, Opaque
<1>3. \A k \in DOMAIN file'.chain :
          \/ file'.chain[k] = Build(log)
          \/ \E j \in DOMAIN file.chain : file'.chain[k] = file.chain[j]
  BY <1>1, ChainElements, BuildType
<1>4. \A j \in DOMAIN file.chain : Verifies(file.chain[j]) => file.chain[j].covers \subseteq log
  BY DEF ContainerInv, ChainInv, SoundChain
<1>5. ASSUME NEW o \in Op, Known(o)'
      PROVE  o \in log
  BY <1>2, <1>3, <1>4, <1>5 DEF Known
<1>6. ASSUME NEW k \in DOMAIN file'.chain, Verifies(file'.chain[k]),
             NEW c \in file'.chain[k].covers, NEW o \in Op,
             Known(o)', o \notin file'.chain[k].covers
      PROVE  c < o
  <2>1. o \in log
    BY <1>5, <1>6
  <2>2. PICK j \in DOMAIN file.chain : file'.chain[k] = file.chain[j]
    BY <1>2, <1>3, <1>6, <2>1
  <2> QED
    BY <1>6, <2>1, <2>2 DEF PrefixInv, Known
<1>7. \A k \in DOMAIN file'.chain : Splits(file'.chain[k]) => Verifies(file'.chain[k])
  BY <1>2, <1>3 DEF PrefixInv
<1> QED
  BY <1>6, <1>7 DEF PrefixInv

\* Where nothing new is known and the chain is as it was, it holds on.
LEMMA PrefixKept ==
    ASSUME PrefixInv, file'.chain = file.chain, file'.torn = file.torn,
           doc' # "Closed" => file'.rows \subseteq log',
           \A o \in Op : Known(o)' => Known(o)
    PROVE  PrefixInv'
  BY DEF PrefixInv

\* Every step keeps it.
LEMMA PrefixStep ==
    ASSUME Alone, ContainerInv, PrefixInv, [Next]_vars
    PROVE  PrefixInv'
<1> USE DEF ContainerInv, TypeInv, TypeOK
<1>1. file \in File /\ file.chain \in Seq(Snapshot) /\ log \in SUBSET Op /\ file.rows \in SUBSET Op
  BY DEF File
<1>2. Believed(file) = Image(file) \union file.rows
  BY <1>1, BelievedWhole DEF PrefixInv
<1>3. \A o \in Image(file) : Known(o)
  BY <1>1, ChosenNewest DEF Image, Known
<1>4. CASE Open
  <2>1. /\ file' = file /\ log' = Image(file) \union file.rows
    BY <1>2, <1>4 DEF Open
  <2>2. \A o \in Op : Known(o)' => Known(o)
    BY <1>3, <2>1 DEF Known
  <2> QED
    BY <2>1, <2>2, PrefixKept
<1>5. CASE UserAck
  <2>1. file' = file /\ log' = log /\ doc # "Closed"
    BY <1>5 DEF UserAck
  <2>2. \A o \in Op : Known(o)' => Known(o)
    BY <2>1 DEF Known
  <2> QED
    BY <2>1, <2>2, PrefixKept DEF PrefixInv
<1>6. ASSUME NEW op \in Op, Append1(op) \/ Defer(op)
      PROVE  PrefixInv'
  <2>1. /\ file'.chain = file.chain /\ file'.torn = file.torn
        /\ file'.rows \subseteq file.rows \union {op}
        /\ log' = log \union {op}
        /\ doc # "Closed" /\ doc' = doc
        /\ Arrives(op)
    BY <1>1, <1>6 DEF Append1, Defer, File
  <2>2. \A o \in log \union Believed(file) : o \in Op => o < op
    BY <2>1 DEF Arrives, Alone
  <2>3. \A i \in DOMAIN file.chain : Verifies(file.chain[i]) =>
            \A c \in file.chain[i].covers : c < op
    <3>1. \A i \in DOMAIN file.chain : Verifies(file.chain[i]) => file.chain[i].covers \subseteq log
      BY <2>1 DEF ChainInv, SoundChain
    <3> QED
      BY <1>1, <2>2, <3>1
  <2>4. \A o \in Op : Known(o)' => Known(o) \/ o = op
    BY <2>1 DEF Known
  <2>5. \A i \in DOMAIN file.chain : Verifies(file.chain[i]) =>
            \A c \in file.chain[i].covers, o \in Op :
               Known(o)' /\ o \notin file.chain[i].covers => c < o
    BY <2>3, <2>4 DEF PrefixInv
  <2> QED
    BY <2>1, <2>5 DEF PrefixInv
<1>7. CASE PutSnapshot
  <2>1. /\ file'.chain = Chain(file.chain, Build(log)) /\ file'.rows = file.rows
        /\ file'.torn = file.torn
        /\ log' = log /\ doc # "Closed"
    BY <1>1, <1>7 DEF PutSnapshot, File
  <2> QED
    BY <2>1, PrefixChain DEF PrefixInv
<1>8. CASE file' = Compacted /\ log' = log /\ doc # "Closed"
  <2>1. file'.chain = Chain(file.chain, Build(log)) /\ file'.rows \subseteq log /\ file'.torn = {}
    BY <1>8 DEF Compacted
  <2> QED
    BY <1>8, <2>1, PrefixChain
<1>9. CASE Compact
  BY <1>8, <1>9 DEF Compact
<1>10. CASE FailCompact
  <2>1. CASE file' = file
    <3>1. \A o \in Op : Known(o)' => Known(o)
      BY <1>10, <2>1 DEF FailCompact, Known
    <3>2. doc # "Closed" /\ log' = log
      BY <1>10 DEF FailCompact
    <3> QED
      BY <2>1, <3>1, <3>2, PrefixKept DEF PrefixInv
  <2>2. CASE file' = Compacted
    BY <1>8, <1>10, <2>2 DEF FailCompact
  <2> QED
    BY <1>10, <2>1, <2>2 DEF FailCompact
<1>11. CASE Close \/ Crash
  <2>1. file' = file /\ log' = {} /\ doc' = "Closed"
    BY <1>11 DEF Close, Crash
  <2>2. \A o \in Op : Known(o)' => Known(o)
    BY <2>1 DEF Known
  <2> QED
    BY <2>1, <2>2, PrefixKept
<1>12. CASE DamageFile
  <2>1. ~Tear /\ Spoil /\ log' = log /\ doc' = doc
    BY <1>12 DEF DamageFile, Tear, Alone
  <2>2. /\ file'.rows = file.rows /\ file'.torn = file.torn
        /\ DOMAIN file'.chain = DOMAIN file.chain
        /\ \A k \in DOMAIN file.chain :
              /\ file'.chain[k].covers = file.chain[k].covers
              /\ Verifies(file'.chain[k]) => Verifies(file.chain[k])
              /\ file'.chain[k].body = file.chain[k].body \/ file'.chain[k].body = "unreadable"
    BY <2>1, SpoilKeeps DEF Alone
  <2>3. \A o \in Op : Known(o)' => Known(o)
    BY <2>1, <2>2 DEF Known
  <2>4. \A k \in DOMAIN file'.chain : Splits(file'.chain[k]) => Verifies(file'.chain[k])
    BY <2>2 DEF PrefixInv, Splits, Verifies
  <2>5. \A k \in DOMAIN file'.chain : Verifies(file'.chain[k]) =>
            \A c \in file'.chain[k].covers, o \in Op :
               Known(o)' /\ o \notin file'.chain[k].covers => c < o
    BY <2>2, <2>3 DEF PrefixInv
  <2> QED
    BY <2>1, <2>2, <2>4, <2>5 DEF PrefixInv
<1>13. CASE UNCHANGED vars
  <2>1. \A o \in Op : Known(o)' => Known(o)
    BY <1>13 DEF vars, Known
  <2> QED
    BY <1>13, <2>1, PrefixKept DEF vars, PrefixInv
<1> QED
  BY <1>4, <1>5, <1>6, <1>7, <1>9, <1>10, <1>11, <1>12, <1>13 DEF Next

\* The image's key is an op it covers, or 0.
LEMMA KeyCovered ==
    ASSUME NEW snapshot \in Snapshot
    PROVE  Greatest(snapshot) = 0 \/ Greatest(snapshot) \in snapshot.covers
<1> DEFINE J == {0} \union {op \in snapshot.covers : Kind[op] = "value"}
           I == {x + 1 : x \in J}
<1>1. J \subseteq 0..MaxOps
  BY RecoveryMaxOps DEF Snapshot, Op
<1>2. I \in SUBSET (1..(MaxOps + 1)) /\ I # {}
  <2>1. \A x \in J : x + 1 \in 1..(MaxOps + 1)
    BY <1>1, RecoveryMaxOps
  <2>2. 1 \in I
    OBVIOUS
  <2> QED
    BY <2>1, <2>2
<1>3. PICK m \in J : \A y \in I : y <= m + 1
  <2> HIDE DEF I
  <2>1. MaxOps + 1 \in Nat
    BY RecoveryMaxOps
  <2>2. Max(I) \in I /\ \A y \in I : y <= Max(I)
    BY <1>2, <2>1, MaxGreatest
  <2> USE DEF I
  <2>3. PICK m \in J : Max(I) = m + 1
    BY <2>2
  <2> QED
    BY <2>2, <2>3
<1>4. \A x \in J : x <= m
  <2>1. \A x \in J : x + 1 <= m + 1
    BY <1>3
  <2> QED
    BY <1>1, <2>1
<1>5. Greatest(snapshot) \in J
  BY <1>4 DEF Greatest, Max
<1> QED
  BY <1>5

\* Opened, such a file shows all that recovery believes in.
LEMMA AloneShows ==
    ASSUME Alone, ContainerInv, PrefixInv
    PROVE  Shown(file) = Image(file) \union file.rows
<1>1. file \in File /\ file.chain \in Seq(Snapshot) /\ file.rows \in SUBSET Op
  BY DEF ContainerInv, TypeInv, TypeOK, File
<1>2. ReadTail(file) = file.rows \ Image(file)
  BY <1>1, BelievedWhole DEF PrefixInv
<1>3. ASSUME NEW op \in ReadTail(file)
      PROVE  ImageKey(file) < op
  <2>1. op \in Op /\ op \in file.rows /\ op \notin Image(file)
    BY <1>1, <1>2, <1>3
  <2>2. CASE ImageKey(file) = 0
    BY <2>1, <2>2, RecoveryMaxOps DEF Op
  <2>3. CASE ImageKey(file) # 0
    <3>1. Chosen(file) # 0
      BY <2>3 DEF ImageKey
    <3>2. Chosen(file) \in DOMAIN file.chain /\ Verifies(file.chain[Chosen(file)])
      BY <1>1, <3>1, ChosenNewest
    <3>3. file.chain[Chosen(file)] \in Snapshot
      BY <1>1, <3>2
    <3>4. ImageKey(file) \in file.chain[Chosen(file)].covers
      BY <2>3, <3>1, <3>3, KeyCovered DEF ImageKey
    <3> QED
      BY <2>1, <3>1, <3>2, <3>4 DEF PrefixInv, Image, Known
  <2> QED
    BY <2>2, <2>3
<1>4. ReadTail(file) \subseteq Op /\ ImageKey(file) \in Int
  <2>1. ReadTail(file) \subseteq Op
    BY <1>1, BelievedType
  <2>2. ImageKey(file) \in Int
    <3>1. CASE Chosen(file) = 0
      BY <3>1 DEF ImageKey
    <3>2. CASE Chosen(file) # 0
      <4>1. file.chain[Chosen(file)] \in Snapshot
        BY <1>1, <3>2, ChosenNewest
      <4>2. file.chain[Chosen(file)].covers \subseteq Int
        BY <4>1, RecoveryMaxOps DEF Snapshot, Op
      <4> QED
        BY <3>2, <4>1, <4>2, KeyCovered DEF ImageKey
    <3> QED
      BY <3>1, <3>2
  <2> QED
    BY <2>1, <2>2
<1>5. Fresh(file) = ReadTail(file) /\ ~TailRefused(file)
  <2>1. \A op \in ReadTail(file) : ~(op <= ImageKey(file))
    BY <1>3, <1>4, RecoveryMaxOps DEF Op
  <2>2. Predating(file) = {}
    BY <2>1 DEF Predating, Predates
  <2> QED
    BY <2>1, <2>2 DEF Fresh, TailRefused
<1>6. Applied(file) = ReadTail(file)
  BY <1>4, <1>5 DEF Applied, Represented, Alone, Opaque
<1> QED
  BY <1>2, <1>6 DEF Shown

\* One author's workbook whose snapshots go bad: while one of them is, an open
\* shows every op acknowledged, for any history of stores, compactions, failures,
\* crashes and earlier losses (docs/16 Retention).
THEOREM OneDamageShowsAll ==
    ASSUME Alone, Retained >= 2, MinVerified >= 2
    PROVE  Spec => []SurvivesOneDamage
<1>1. Init => PrefixInv
  BY DEF Init, PrefixInv, Known
<1>2. ContainerInv /\ PrefixInv /\ [Next]_vars => PrefixInv'
  BY PrefixStep
<1>3. ContainerInv /\ KeptInv /\ Spare /\ PrefixInv => SurvivesOneDamage
  <2>1. ASSUME ContainerInv, KeptInv, Spare, PrefixInv, file.torn = {},
               Cardinality({i \in DOMAIN file.chain : ~Verifies(file.chain[i])}) <= 1
        PROVE  Restores(file)
    <3>1. OneBlank
      BY <2>1 DEF OneBlank, PrefixInv
    <3>2. Owed \subseteq Image(file) \union file.rows
      BY <2>1, <3>1, OneBlankRecovers
    <3> QED
      BY <2>1, <3>2, AloneShows DEF Restores, Owed
  <2> QED
    BY <2>1 DEF SurvivesOneDamage
<1> QED
  BY <1>1, <1>2, <1>3, SpareInvariant, ContainerInvariant, PTL DEF Spec
=============================================================================
