------------------------------ MODULE Recovery ------------------------------
(***************************************************************************)
(* What a container file amounts to when it is opened: usk-recover's       *)
(* snapshots and salvage decision, over the file ehkatra-store keeps.      *)
(*                                                                         *)
(* An op is its rank in canonical (lamport, actor, counter) order; of its  *)
(* payload only the kind matters here.  A snapshot's image is abstracted   *)
(* to the ops it folded.  A file is its op rows, those whose payload no    *)
(* longer decodes, and its snapshots, newest first.                        *)
(***************************************************************************)
EXTENDS Integers, SequencesExt

CONSTANTS
    MaxOps,   \* bound: ops ever authored
    Kind,     \* what each op's payload does
    Author    \* the actor of each op

Op == 1..MaxOps

\* A cell value, a cell formula, an axis or style edit, a payload this build
\* cannot read.
OpKind == {"value", "formula", "structure", "opaque"}

ASSUME RecoveryMaxOps == MaxOps \in Nat
ASSUME KindAssumption == Kind \in [Op -> OpKind]
ASSUME AuthorAssumption == DOMAIN Author = Op

-----------------------------------------------------------------------------
(* Snapshots.                                                              *)

\* A stored body verifies; or it splits into image and covered ids but fails
\* verification; or it does not even split.
Body == {"intact", "wrong", "unreadable"}

Snapshot == [covers : SUBSET Op, body : Body]

File == [rows : SUBSET Op, torn : SUBSET Op, chain : Seq(Snapshot)]

\* Ops a tile image has a place for (image_represents).
Represented(ops) == {op \in ops : Kind[op] # "opaque"}

Build(log) == [covers |-> Represented(log), body |-> "intact"]

\* Per actor, the greatest op covered.
Watermark(ops) == {op \in ops : \A o \in ops : Author[o] = Author[op] => o <= op}

\* The greatest cell write the image folded, 0 if none.
Greatest(snapshot) == Max({0} \union {op \in snapshot.covers : Kind[op] = "value"})

Verifies(snapshot) == snapshot.body = "intact"
Splits(snapshot) == snapshot.body # "unreadable"

-----------------------------------------------------------------------------
(* Opening a file: Container::open_document and recover().                 *)

\* The covered ids of the newest snapshot that has readable ones.
CoveredIds(f) ==
    LET i == SelectInSeq(f.chain, Splits) IN IF i = 0 THEN {} ELSE f.chain[i].covers

\* Position of the newest snapshot that proves itself, 0 if none.
Chosen(f) == SelectInSeq(f.chain, Verifies)

StoredTail(f) == f.rows \ CoveredIds(f)

\* Read in canonical order, stopping at the first row that does not decode.
ReadTail(f) == {op \in StoredTail(f) : \A t \in StoredTail(f) \intersect f.torn : op < t}

Quarantine(f) == StoredTail(f) \ ReadTail(f)

\* A cell write canonically at or before the image.
Predates(op, greatest) == Kind[op] \in {"value", "formula"} /\ op <= greatest

ImageKey(f) == IF Chosen(f) = 0 THEN 0 ELSE Greatest(f.chain[Chosen(f)])

\* MUTANT of Predating: only value writes are looked for.
PredatingValues(f) == {op \in ReadTail(f) : Kind[op] = "value" /\ op <= ImageKey(f)}

Predating(f) == {op \in ReadTail(f) : Predates(op, ImageKey(f))}

\* Snapshots that failed before one verified.
Rejected(f) == IF Chosen(f) = 0 THEN Len(f.chain) ELSE Chosen(f) - 1

\* SalvageReport::is_clean.
Clean(f) == Rejected(f) = 0 /\ Quarantine(f) = {} /\ Predating(f) = {}

Image(f) == IF Chosen(f) = 0 THEN {} ELSE f.chain[Chosen(f)].covers

\* What of the tail goes to State::apply_tail, which refuses the whole of it if
\* any op in it is at or before the image's key.
Fresh(f) == ReadTail(f) \ Predating(f)
TailRefused(f) == \E op \in Fresh(f) : op <= ImageKey(f)

Applied(f) == IF TailRefused(f) THEN {} ELSE Represented(Fresh(f))

\* The ops whose effect the opened state shows (Salvaged::into_state).
Shown(f) == Image(f) \union Applied(f)

\* The ops recovery believes in.
Believed(f) == Image(f) \union ReadTail(f)
=============================================================================
