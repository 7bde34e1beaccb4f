----------------------------- MODULE Container -----------------------------
(***************************************************************************)
(* One workbook: ehkatra-store's container under the docs/27 lifecycle of  *)
(* usk-recover, with process crashes and damage to the file.               *)
(*                                                                         *)
(* append_ops commits its transaction with synchronous = FULL, so a row is *)
(* durable once appended; the later WAL checkpoint changes nothing here.   *)
(* compact borrows container and document for the whole call and touches   *)
(* the old file only by the final rename, so it succeeds or fails in one   *)
(* step, and a crash inside it is a crash before or after that step.       *)
(* RECOVERING lasts for one call and is not a state of its own.            *)
(*                                                                         *)
(* The caller passes compact and Snapshot::build the whole op log: the ops *)
(* it was restored from and those of the session.  A file that was         *)
(* compacted no longer gives those back, so the caller kept them, as every *)
(* caller in the repository's tests does.                                  *)
(***************************************************************************)
EXTENDS Recovery

CONSTANTS
    Retained,     \* SNAPSHOTS_RETAINED, 3 in the code
    MinVerified,  \* MIN_VERIFIED_SNAPSHOTS_TO_PRUNE_OPS, 2 in the code
    Damage,       \* bound: the kinds of damage that happen
    MaxDamage,    \* bound: how often
    MaxFailures   \* bound: compactions that fail

ASSUME RetainedAssumption == Retained \in Nat \ {0}
ASSUME MinVerifiedAssumption == MinVerified \in Nat \ {0}
ASSUME DamageAssumption == Damage \subseteq {"torn", "wrong", "unreadable"}
ASSUME DamageLimits == MaxDamage \in Nat /\ MaxFailures \in Nat

VARIABLES
    file,      \* what is on disk
    doc,       \* Document.state
    log,       \* the caller's op log
    report,    \* what the report of SALVAGE owns up to
    deferred,  \* ops acknowledged while COMPACTING, on no disk yet
    attached,  \* Container.conn is the file, not compact's placeholder
    acked,     \* ops acknowledged as durable, less what a report owned up to
    damaged,   \* how often the file was damaged
    failures   \* how often a compaction failed

vars == <<file, doc, log, report, deferred, attached, acked, damaged, failures>>

DocState == {"Closed", "Salvage", "Ready", "Compacting"}

TypeOK ==
    /\ file \in File
    /\ doc \in DocState
    /\ log \subseteq Op
    /\ report \subseteq acked
    /\ deferred \subseteq log
    /\ attached \in BOOLEAN
    /\ acked \subseteq Op
    /\ damaged \in 0..MaxDamage
    /\ failures \in 0..MaxFailures

Init ==
    /\ file = [rows |-> {}, torn |-> {}, chain |-> <<>>]
    /\ doc = "Closed"
    /\ log = {}
    /\ report = {}
    /\ deferred = {}
    /\ attached = TRUE
    /\ acked = {}
    /\ damaged = 0
    /\ failures = 0

-----------------------------------------------------------------------------
(* The snapshot chain.                                                     *)

\* The stored snapshots less the one with this watermark, the primary key.
Others(stored, snapshot) ==
    LET SameWatermark(s) == Watermark(s.covers) = Watermark(snapshot.covers)
        i == SelectInSeq(stored, SameWatermark)
    IN  IF i = 0 THEN stored ELSE RemoveAt(stored, i)

\* MUTANT of Chain: stamped by a clock that went back, the new snapshot is oldest.
StaleStampChain(stored, snapshot) ==
    LET chain == Others(stored, snapshot) \o <<snapshot>>
    IN  SubSeq(chain, 1, Min({Retained, Len(chain)}))

\* A snapshot replaces one with its watermark and the newest Retained are kept.
Chain(stored, snapshot) ==
    LET chain == <<snapshot>> \o Others(stored, snapshot)
    IN  SubSeq(chain, 1, Min({Retained, Len(chain)}))

\* MUTANT of PruneFloor: the newest snapshot authorises deletion.
NewestFloor(chain) == chain[1].covers

\* MUTANT of PruneFloor: the oldest snapshot is taken at its word.
UnprovenFloor(chain) == IF Len(chain) < MinVerified THEN {} ELSE chain[Len(chain)].covers

\* Ops compaction may delete: those the oldest verified snapshot contains, and
\* none while fewer than MinVerified verify.
PruneFloor(chain) ==
    IF Cardinality({i \in DOMAIN chain : Verifies(chain[i])}) < MinVerified
      THEN {}
      ELSE chain[SelectLastInSeq(chain, Verifies)].covers

\* The file compact writes beside the old one and renames over it.
Compacted ==
    LET chain == Chain(file.chain, Build(log))
    IN  [rows |-> log \ PruneFloor(chain), torn |-> {}, chain |-> chain]

-----------------------------------------------------------------------------
(* The lifecycle.                                                          *)

Opaque == {op \in Op : Kind[op] = "opaque"}

\* Open through recovery: READY if nothing was wrong, SALVAGE otherwise.
Open ==
    /\ doc = "Closed"
    /\ doc' = IF Clean(file) THEN "Ready" ELSE "Salvage"
    /\ log' = Believed(file)
    /\ report' = IF Clean(file) THEN {} ELSE acked \ (Shown(file) \union Opaque)
    /\ attached' = TRUE
    /\ UNCHANGED <<file, deferred, acked, damaged, failures>>

\* The user has read the report: what it lost is no longer owed.
UserAck ==
    /\ doc = "Salvage"
    /\ doc' = "Ready"
    /\ acked' = acked \ report
    /\ report' = {}
    /\ UNCHANGED <<file, log, deferred, attached, damaged, failures>>

\* The next op of its author after the greatest the document holds, which is
\* what an author writes and a peer sends; those of different authors come in
\* any order.
Arrives(op) ==
    LET held   == log \union Believed(file)
        before == {o \in 1..op-1 : Author[o] = Author[op]}
    IN  /\ \A o \in held : Author[o] = Author[op] => o < op
        /\ \A o \in before : \E h \in before \intersect held : o <= h

\* Event::Ops in READY and the append it asks for: INSERT OR IGNORE, so a row
\* already there, readable or not, stays as it is.
Append1(op) ==
    /\ doc = "Ready"
    /\ Arrives(op)
    /\ log' = log \union {op}
    /\ file' = [file EXCEPT !.rows = @ \union {op}]
    /\ acked' = acked \union {op}
    /\ UNCHANGED <<doc, report, deferred, attached, damaged, failures>>

\* Event::Ops in COMPACTING: acknowledged, not written.
Defer(op) ==
    /\ doc = "Compacting"
    /\ Arrives(op)
    /\ log' = log \union {op}
    /\ deferred' = deferred \union {op}
    /\ UNCHANGED <<file, doc, report, attached, acked, damaged, failures>>

\* Container::put_snapshot of the session's log, which asks nothing of the document.
PutSnapshot ==
    /\ doc \in {"Ready", "Compacting"}
    /\ attached
    /\ file' = [file EXCEPT !.chain = Chain(@, Build(log))]
    /\ UNCHANGED <<doc, log, report, deferred, attached, acked, damaged, failures>>

\* Container::compact.  The trigger is unlisted in COMPACTING, where an earlier
\* failure can leave the document: a release build logs it and goes on.  The
\* caller's log holds the deferred ops, so the new file does too.
Compact ==
    /\ doc \in {"Ready", "Compacting"}
    /\ attached
    /\ file' = Compacted
    /\ doc' = "Ready"
    /\ deferred' = {}
    /\ acked' = acked \union deferred
    /\ UNCHANGED <<log, report, attached, damaged, failures>>

\* compact returns early by `?` and nobody tells the document: before the rename or
\* after it, with a connection (the old one, or the new one whose pragma failed) or
\* with the placeholder.
FailCompact ==
    /\ doc \in {"Ready", "Compacting"}
    /\ attached
    /\ failures < MaxFailures
    /\ failures' = failures + 1
    /\ doc' = "Compacting"
    /\ file' \in {file, Compacted} /\ attached' \in BOOLEAN
    /\ UNCHANGED <<log, report, deferred, acked, damaged>>

Close ==
    /\ doc = "Ready"
    /\ doc' = "Closed"
    /\ log' = {}
    /\ UNCHANGED <<file, report, deferred, attached, acked, damaged, failures>>

-----------------------------------------------------------------------------
(* Faults.                                                                 *)

\* MUTANT of Crash: the deferred ops outlive the process that held them.
CrashKeepsDeferred ==
    /\ doc # "Closed"
    /\ doc' = "Closed"
    /\ log' = {}
    /\ report' = {}
    /\ UNCHANGED <<file, deferred, attached, acked, damaged, failures>>

\* The process is killed.
Crash ==
    /\ doc # "Closed"
    /\ doc' = "Closed"
    /\ log' = {}
    /\ report' = {}
    /\ deferred' = {}
    /\ UNCHANGED <<file, attached, acked, damaged, failures>>

\* A stored payload no longer decodes.
Tear ==
    /\ "torn" \in Damage
    /\ \E op \in file.rows \ file.torn : file' = [file EXCEPT !.torn = @ \union {op}]

\* A stored snapshot no longer verifies.
Spoil ==
    \E i \in DOMAIN file.chain, b \in Damage \ {"torn"} :
        /\ Verifies(file.chain[i])
        /\ file' = [file EXCEPT !.chain[i].body = b]

DamageFile ==
    /\ damaged < MaxDamage
    /\ damaged' = damaged + 1
    /\ Tear \/ Spoil
    /\ UNCHANGED <<doc, log, report, deferred, attached, acked, failures>>

Next ==
    \/ Open
    \/ UserAck
    \/ \E op \in Op : Append1(op) \/ Defer(op)
    \/ PutSnapshot
    \/ Compact
    \/ FailCompact
    \/ Close
    \/ Crash
    \/ DamageFile

Spec == Init /\ [][Next]_vars

-----------------------------------------------------------------------------
(* What must hold.                                                         *)

\* Opening the file now would show every op acknowledged and not owned up to.
Restores(f) == acked \subseteq Shown(f) \union Opaque

\* Silent partial restore is forbidden (docs/16): a file that opens cleanly,
\* with no report, shows everything that was acknowledged, wherever in
\* canonical order remote ops arrived and whatever was damaged.
NoSilentLoss == Clean(file) => Restores(file)

\* Compaction may never leave the container in a state where a single corrupt
\* snapshot loses acknowledged ops (docs/16 Retention).
SurvivesOneDamage ==
    /\ file.torn = {}
    /\ Cardinality({i \in DOMAIN file.chain : ~Verifies(file.chain[i])}) <= 1
    => Restores(file)

\* Snapshots are nested, which docs/16 rests its argument on: one that verifies
\* covers everything older ones that verify cover.
Nested ==
    \A i, j \in DOMAIN file.chain :
        i < j /\ Verifies(file.chain[i]) /\ Verifies(file.chain[j])
            => file.chain[j].covers \subseteq file.chain[i].covers

Compacts == file' = Compacted /\ doc' = "Ready"

\* Compaction deletes only ops that MinVerified snapshots in the new file prove
\* they contain.
PrunesOnlyProven ==
    [][Compacts => \A op \in log \ file'.rows :
          Cardinality({i \in DOMAIN file'.chain :
              Verifies(file'.chain[i]) /\ op \in file'.chain[i].covers}) >= MinVerified]_vars
=============================================================================
