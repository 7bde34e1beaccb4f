------------------------------ MODULE OpClocks ------------------------------
(***************************************************************************)
(* Operation identities, vector clocks and the causal-gap buffer of        *)
(* usk-sync.  An op is identified by its author and the author's 1-based   *)
(* counter; payload, lamport and encoding are abstracted, because nothing  *)
(* in the sync protocol but admission looks at them.  A frame or a buffer  *)
(* of ops is a set: ops of one author travel in counter order, and order   *)
(* inside a frame matters only to the bounded buffer (see Inserted).       *)
(***************************************************************************)
EXTENDS Integers, FiniteSets

CONSTANTS
    Actor,        \* replicas; each authors under its own actor id
    MaxOps,       \* bound: ops one actor may author
    BufferLimit   \* CAUSAL_BUFFER_LIMIT, 4096 in the code

ASSUME ActorAssumption == IsFiniteSet(Actor)
ASSUME MaxOpsAssumption == MaxOps \in Nat
ASSUME BufferLimitAssumption == BufferLimit \in Nat \ {0}

Counter == 1..MaxOps
Op      == Actor \X Counter
Clock   == [Actor -> 0..MaxOps]

EmptyClock == [a \in Actor |-> 0]

\* The op is within the contiguous run the clock claims for its author.
Covers(c, op) == op[2] <= c[op[1]]

\* Every op a clock claims: {A: 7} is "every op A ever minted up to 7".
Claimed(c) == {op \in Op : Covers(c, op)}

CountersOf(a, ops) == {n \in Counter : <<a, n>> \in ops}

\* Observing the counters in S, in ascending order, moves a clock entry n only
\* over a contiguous run: a hole stops it.
Extend(n, S) == CHOOSE m \in n..MaxOps : n + 1 .. m \subseteq S /\ m + 1 \notin S

\* MUTANT of ObserveAll: every op seen counts as one more, held already or not.
ObserveByCount(c, ops) == [a \in Actor |-> c[a] + Cardinality(CountersOf(a, ops))]

ObserveAll(c, ops) == [a \in Actor |-> Extend(c[a], CountersOf(a, ops))]

-----------------------------------------------------------------------------
(* CausalBuffer::admit: offer ops to the held set, then release what the    *)
(* arrivals made contiguous.                                                *)

\* The held sets one frame can leave.  An op the clock covers is skipped; an op
\* met while the buffer is full is skipped too, so a frame larger than the room
\* left keeps as many of its ops as fit, which ones depending on its order.
Inserted(c, buffer, ops) ==
    LET fresh == {op \in ops : ~Covers(c, op)}
    IN  {buffer \union kept : kept \in
            {k \in SUBSET fresh :
                \/ k = fresh /\ Cardinality(buffer \union fresh) <= BufferLimit
                \/ /\ Cardinality(buffer \union fresh) > BufferLimit
                   /\ Cardinality(buffer \union k) = BufferLimit}}

\* MUTANT of Released: everything new goes to the applier, gap or no gap.
ReleasedEagerly(c, buffer) == {op \in buffer : ~Covers(c, op)}

\* Held ops the release sweep hands to the applier under the advanced clock.
Released(c, buffer) == {op \in buffer : ~Covers(c, op) /\ Covers(ObserveAll(c, buffer), op)}
=============================================================================
