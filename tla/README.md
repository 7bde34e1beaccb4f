# Ehkatra: a TLA+ verification project

Ehkatra is a local-first spreadsheet written in Rust. Every edit is an *op* appended to a log; a
workbook is the fold of its log; replicas exchange ops through a relay; containers store ops and
snapshots. This directory holds TLA+ models of its core, TLC configurations that check them on
small instances, and TLAPS proofs of the results that matter most. `PROJECT.json` is the index:
components, runs, mutants, the map from definitions to source lines, hazards and theorems.

    tlc -workers 2 -config MCSync_faults.cfg MCSync     # one run
    tlc -workers 2 -config MCContainer_desktop.cfg MCContainer
    tlc -workers 2 -config MCSession_edits.cfg MCSession
    tlc -workers 2 -config MCPacing_pacing.cfg MCPacing
    tlc -workers 2 -config MCStyles_styles.cfg MCStyles
    tlc -workers 2 -config MCCalc_recalc.cfg MCCalc
    tlc -workers 2 -config MCAgent_agent.cfg MCAgent
    tlc -workers 2 -config MCShell_shell.cfg MCShell
    tlapm SyncProofs.tla                                # one proof module

## 1. The system

### Inventory

| component | state | operations | talks to |
|---|---|---|---|
| `usk-types`, `usk-oplog` | `OpId` (actor, counter), lamport, payload; `OpLog` (ops by id, canonical order `(lamport, id)`) | append, merge, encode/decode, canonical hash | everything |
| `usk-state` | axis sequences, cell tiles (summary or stamped), formula registry, style rules, stamps | `replay`, `apply_tip`, `apply_tail`, image write/read | reducer, recovery, views |
| `usk-reduce` | `Session`: log, state, ops not folded yet, mint (counter, lamport), undo and redo groups | `reduce_v1`, `apply`, `integrate_batch`, `settle`, `undo`, `redo`, `from_log` | state, replica, MCP, shell |
| `usk-sync` session | state machine of docs/27 §1, vector clock, never-drop queue with `sent` flags, causal-gap buffer, backoff | one transition per event: connect, HELLO_ACK/REJECT, GIVE/OPS, NEED, ACK, IN_SYNC, local op, transport loss, timer, revocation, staleness, rebase | replica |
| `usk-sync` relay | retained ops, relay clock, one rate and one byte bucket per actor | `submit`, `ops_missing_from` | endpoint |
| `ehkatra-relay` | `Replica` (document + session + retry timer + read-only flag), `Endpoint`, the server's hub of connections, a deterministic test bus | `edit`, `receive`, `transport_loss`, `resume`, `recover`; HELLO, NEED, OPS handlers; fanout and reply | TCP or the bus |
| `usk-recover` | `Document` lifecycle (CLOSED, RECOVERING, SALVAGE, READY, COMPACTING), acked and deferred counts; `Snapshot` (watermark, hash, image, covered ids) | `step`, `Snapshot::build`/`verify`, `recover`, `into_state` | container |
| `ehkatra-store` | SQLite file: `ops` table, snapshot chain, migration version | `append_ops`, `maybe_commit`, `put_snapshot`, `open_document`, `compact`, `close`, migrate | recovery |
| `usk-calc`, `usk-formula` | formula groups with their reads and writes, a band index over the reads, results by position; parser, evaluator, reference translation | `regroup`, `evaluate` (whole or from dirty rectangles), `rebind`, `translate` | reducer, shell |
| `usk-mcp`, `ehkatra-mcp` | one session, the pending preview, a journal of batches | `preview_edits`, `apply_edits`, `undo` over JSON-RPC | reducer |
| `ehkatra-io`, `usk-xlsx/csv/xml/zip/json` | none between calls; the sandbox has a child process | import, export, parse in a child | files |
| `usk-view` | none: an axis of identities, a viewport anchored to one of them | `visible`, `scroll`, `scroll_into_view`, `reanchor` | shell |
| `ehkatra-shell` | `App`: session, cursor and selection, in-cell editor, input method, clipboard and pending cut, pointer gesture, viewport | one method per intent of `input.rs` and per window event | reducer, view |
| `ehkatra-cli`, `tools` | none | command lines, benchmarks | documents |

### Where it is hard

* **Sync.** Three kinds of actor (replica, connection thread, another connection's thread) and two
  queues per link; frames of a dead connection arrive late; an ack names the relay's clock rather
  than ops; refusals leave holes; the gap buffer is bounded; a process dies between any two steps.
  What must hold: no op is lost before someone else has it, clock and log never part, each author's
  ops are delivered in order and once, and after faults stop everyone converges.
* **Storage.** A crash, a torn row or a damaged snapshot between any two steps; compaction deletes
  user data on the word of a snapshot; recovery decides what is tail. What must hold: every acked op
  is restored, or the user is told.
* **State.** Ops arrive in any order at each replica and the fold must agree; two code paths
  (replay and the incremental tip/tail paths) must give the same state; undo inverts what other
  actors may have overwritten.
* **Formatting.** Rules are rectangles over identities that come and go; an undo is a clear and a
  rewrite, both newer than what others wrote meanwhile. What must hold: undo gives back the look, and
  never reaches outside its rectangle.
* **Calculation.** Formulas are grouped, groups are ordered in levels, and an incremental pass visits
  only what a dirty rectangle reaches and stops where a value did not change. References are bound to
  identities once and turned back into positions after every structural edit. What must hold: each
  cell shows what its formula means on the sheet as it is.
* **Agent.** A batch is many undo groups, may fail half-way and may grow the sheet; the preview it
  quotes was made of a workbook others may have changed. What must hold: the journal and the undo stack
  agree, and what was previewed is what happens.
* **Shell.** An editor, a composition, a cut and a drag stay open across each other and across
  structural edits; some hold identities and some ordinals. What must hold: an edit lands in the
  cell it was opened on, a cut moves its block, nothing on screen teleports.

`PROJECT.json` lists the hazards one by one, at the line where each bites.

## 2. Plan

1. *Sync* (done): `OpClocks`, `SyncSession`, `Relay`, `SyncSystem`; abstract `OpStream`; proofs.
2. *Storage and recovery* (done): `Recovery`, `Container`; proofs.
3. *State and reducer* (done): `WorkbookState`, `EditSession`, reference fold in `SheetReference`;
   proofs, of every property of the run.
4. *Admission and backoff arithmetic* (done): `Pacing`; proofs.
5. *Formatting* (done): `StyleRules`, `StyleSession`; proofs.
6. *Calculation* (done): `Rectangles`, `AxisOrder`, `CalcGraph`, `CalcEngine`; proofs of the index and of
   every property of the run.
7. *Agent server* (done): `AgentServer`; proofs.
8. *View and shell* (done for one column): `GridView`, `ShellBook`, `Shell`; proofs, of every property
   of the run.
9. *Import sandbox*: parent, child and timeout.

Within each: TLC first, then the inductive invariant and its proof.

## 3. The sync modules

| module | models | state |
|---|---|---|
| `OpClocks` | op ids, vector clocks, the causal-gap buffer's admit | none (operators) |
| `SyncSession` | `usk-sync::machine` and `queue` inside `ehkatra-relay::Replica` | `state clock queue sent held log minted timer readOnly up down` |
| `Relay` | `usk-sync::relay`, `endpoint`, the server loop | `retained relayClock reply` |
| `SyncSystem` | composition and faults | `faults` |
| `OpStream` | what the protocol promises an editor | `minted have` |
| `SyncInvariant` | inductive invariant, refinement mapping | |
| `MCSync` | instances for TLC | |
| `Pacing`, `MCPacing` | the relay's token buckets and the replica's delays, over one clock | `now opBucket byteBucket window link attempt retry hello` |
| `SyncProofs` | lemmas and theorems of both systems | |

**Correspondence.** `Session.state/clock/queue/buffer` are `state/clock/queue+sent/held`;
`Replica.doc.log` is `log` and its mint counter `minted`; `retry_at_ms` is `timer`. Each inbound
frame type is an action (`RecvHelloAck`, `RecvHelloReject`, `RecvOps`, `RecvAck`, `RecvInSync`), and
`Discard` is `Replica::receive` dropping a frame the current state has no use for. `LoseTransport`
has both branches of `transport_loss`: backoff where the machine has the edge, otherwise a rebuilt
session. `Recover` is `Replica::recover`. On the relay, `HandleHello/HandleNeed/HandleOps` are the
endpoint's arms with the fanout made under the hub lock; `FlushReply` is the second critical section.

**Abstractions.** An op is (author, counter); payload, lamport and encoding do not matter to the
protocol beyond a validity verdict (`Invalid`). That verdict is one for all receivers and times; the code
also refuses an op whose lamport is too far above the receiver's own frontier (`validate.rs:92`,
`machine.rs:418`, `relay.rs:148`), so an op refused today may pass tomorrow. Convergence and what a quiet
link hides are of verdicts the receivers share. A batch is a set: ops of one author travel in
counter order, and order inside a batch matters only to the bounded buffer, where `Inserted` allows
every subset that an order could keep. Token buckets are abstracted to their verdict (`Refuse`:
any part of a batch may be refused), and delays to an armed timer: `Pacing` has both, since there only
time matters and here only order does. HELLO's clock and the replica's own ACK are left off the wire:
the relay reads neither. Version numbers are left out: no guard reads them.

**Pacing.** A system of its own, whose names (`PacingSpec`, `PacingTypeOK`) leave room for one proof module
about both. `opBucket` and `byteBucket` are `Peer.rate` and `Peer.bytes`. `Refill`, `Spend` and `Submit` are the bucket and the admission of one op; `Delays` is the set
of delays `enter_backoff` can compute for an attempt, over every residue of the jitter; `Lose` is
`transport_loss` where the machine has the edge, `HardReset` where it has not. A connection's thread
reads the clock before it takes the hub lock, so a submission's time may be up to `MaxLag` old and times
may go back from one to the next. `Watch` is the specification's own: it starts a stretch over which
admitted ops and bytes are counted, at any time, so the bound holds over every stretch.

**Environment.** A link is a FIFO pair, as TCP and the test bus are; when it dies, `Break` keeps any
prefix of what was in flight in each direction, so late frames of the old connection are delivered
to the new one's state — all that either transport does, and somewhat more. `Crash` assumes what `Replica::recover`
takes as arguments: the log and the unacknowledged ops were persisted. A relay restart loses
everything it retained, since the hub is in memory. The snapshot of a rebase comes from outside
`src/` (the shell does not have it yet) and is taken to be what the relay holds contiguously.

### Runs

| run | instance | shows |
|---|---|---|
| `faults` | 2 replicas, 1 op each, any two of loss, crash, refusal, revocation, staleness | `NeverDrop`, `QuietMeansCaughtUp`, `QuietMeansDrained` |
| `streams` | 2 ops each, buffer of 1, one of loss, crash, refusal, relay restart; one invalid first op | `ClockIsLog`; refinement `DeliversStreams` |
| `incompatible` | one replica outside the version window | `NoOpsBeforeHelloAck` |
| `liveness` | 1 op each, one loss or crash, `FairSpec` | `Convergence` |
| `pacing` | rates, bursts and delays of a few units, times up to one unit late | `RateHeld`, `BytesHeld`, `HellosSpaced` |

*Bounds.* Two replicas and one relay already give every role: sender, receiver, and a concurrent
connection thread. Two ops per author is the least with a hole; a buffer of one the least that
overflows; two faults the least in which a fault hits a recovery. Fault counters and `MaxOps` are
bounds of the model; nothing else is capped. Every `MCSync` cfg says `CHECK_DEADLOCK FALSE`: with edits and
faults spent the system really stops. `pacing` runs eight time units, enough to empty, refill and cap
both buckets and to reach the delay's cap; a rate that does not divide a second gives the truncating
refill, a rate above it several tokens a unit. It says `CHECK_DEADLOCK FALSE` because its time is bounded.

*Fairness* (`FairSpec`): weak fairness of reading inbound frames, of the relay's handlers, of armed
timers firing and of a started replica connecting — loops the code runs unconditionally
(`serve`'s loop, the writer thread, the bus's timer scan). Edits and faults have none.

### Proofs

For every finite set of actors, every `MaxOps`, buffer limit, set of invalid ops, set of
unsupported replicas and fault limits:

* `TypeCorrect`: `Spec => []TypeOK`.
* `StreamsInvariant`: `Spec => []StreamInv`. `StreamInv` adds to `ClockIsLog` and `PrefixOfAuthor`
  what makes them inductive: everything in flight, retained, queued or held was minted
  (`OnlyMinted`, `WireHonest`), and a watermark claims no more than the relay retains
  (`WatermarkHonest`) — without the last two an ACK in flight could claim anything.
* `LogMatchesClock`: `Spec => []ClockIsLog`.
* `ImplementsStreams`: `Spec => DeliversStreams`; the step from `[Next]_vars` to
  `[Streams!Next]_Streams!vars` has one case per action.
* `NothingDropped`: if the relay never restarts, `Spec => []NeverDrop`. The assumption is needed:
  a restarted relay has nothing, while authors dropped what it acknowledged.
* `UnsupportedStayOut`: `Spec => []NoOpsBeforeHelloAck`. What the relay retains tells nothing of what is
  on its way, so it is not inductive. `ShutOut` adds, of a replica outside the version window: it is in no
  state that sends or merges, all it has in flight are HELLOs, and no HELLO_ACK is on its way to it or
  waiting to be sent.
* `QuietIsCaughtUp`: `Spec => []QuietMeansCaughtUp`, with any faults, refusals and restarts. `FeedInv` says
  where an op the relay's clock claims and a live replica lacks may be: behind a hole in the causal buffer,
  in a frame or reply on its way, or still to be asked for by a NEED in flight, whose clock claims no more
  than the replica has (`NeedsHonest`: a NEED that claimed too much would be answered short). On a quiet
  link only the buffer is left, and a buffer that holds the author's ops with nothing coming has no hole:
  what would fill it is claimed as well. The property's premise, that a catch-up fits the buffer, is
  needed (section 11).
* `QuietIsDrained`: `Spec => []QuietMeansDrained`, by `DrainInv`, which speaks of runs without refusal,
  restart or staleness (`Clean`). An op marked as sent is in an OPS frame in flight or covered by an ACK
  on its way (`SentIsPending`). That an ACK covers the op and not only some of the author's needs the relay
  never to retain past a hole (`retained = Claimed(relayClock)`), so every uplink must offer its author's
  stream without gaps whatever prefix of it a broken link delivers (`Gapless`), which `NeverDrop` gives on
  reconnection: what the queue no longer holds the relay retains.

For every rate, burst, lag and set of sizes:

* `RateBounded`, `BytesBounded`: `PacingSpec => []RateHeld`, `PacingSpec => []BytesHeld`. A bucket's level says
  nothing of a past stretch; the invariant `Paced` adds what is missing, that admitted plus tokens left
  stays within burst plus what the time up to the bucket's last refill earned, and that this refill is
  no older than the stretch's start less the lag once anything was admitted in it.
* `FlappingIsPaced`: `PacingSpec => HellosSpaced`, if neither the cap nor the reset delay is below the base (500,
  60000 and 500 ms in the code). The property speaks of the moment a HELLO goes out; `Spaced` carries it
  from the moment a timer is armed: what has passed since the last HELLO and what the timer has left
  always make three quarters of the base. `PacingType`: `PacingSpec => []PacingTypeOK`.

`SyncProofs` begins with what every way of touching a link does to its frames and with the lemmas about
`Extend`, `ObserveAll` and `Claimed`. Only model-checked: `Convergence` (liveness, out of the
prover's reach).

## 4. The storage modules

| module | models | state |
|---|---|---|
| `Recovery` | `usk-recover` snapshots and salvage, what a file amounts to when opened | none (operators over a file) |
| `Container` | `ehkatra-store`'s container under the docs/27 lifecycle, crashes, damage | `file doc log report deferred attached acked damaged failures` |
| `MCContainer` | instances for TLC | |
| `ContainerProofs` | lemmas and theorems | |

**Correspondence.** An op is its rank in canonical `(lamport, actor, counter)` order, with the kind
of its payload (`value`, `formula`, `structure`, `opaque`) and its author: those three are all
recovery looks at. `file` is the `ops` and `snapshots` tables; `torn` are rows that do not decode;
a snapshot is the ops it covers and whether its body verifies, only splits, or neither. `doc` is
`Document.state`; `log` and `deferred` are the ops its caller holds. `Open` is `open_document`
with `recover`, both `Recovered` and `Salvaged` edges; `Shown` is what `into_state` then shows,
`Clean` whether a report is due. `Append1`/`Defer` are `Event::Ops` in READY and COMPACTING;
`PutSnapshot`, `Compact`, `Close` the container's methods; `FailCompact` every `?` of `compact`
(the old connection, the placeholder, or the new connection whose pragma failed; before or after the
rename). `put_snapshot` asks nothing of the document, and in COMPACTING it may run too; before a
report is acknowledged it does not, which is the caller's discipline. `report` stands for the
report SALVAGE carries: the acknowledged ops it owns up to. `acked` is the specification's own: ops
acknowledged as durable, less those a report the user has read owned up to.

**Assumptions.** `append_ops` commits its transaction with `synchronous = FULL`, so a row is durable
once appended. `compact` borrows container and document for the whole call and the old file changes
only by the rename, so it is one step. An author's ops arrive in order, those of different authors
in any. A release build logs an unlisted lifecycle transition and goes on. The caller
passes `compact` the whole op log. No shell in the repository calls it yet; the tests do, with the
whole history in memory. After a compaction the file itself gives back only its tail and `compact`
checks nothing of what it is given: a caller that reopened the file and passed the tail would leave
a snapshot of the tail in front, and the next open would be clean and short.

### Runs

| run | instance | shows |
|---|---|---|
| `desktop` | one author, five ops of three kinds, snapshots unreadable (2), one failed compaction | `SurvivesOneDamage`, `Nested`, `PrunesOnlyProven` |
| `shared` | cell writes of two authors in any order of arrival, any two damages | `NoSilentLoss` |

Where these claims end is in section 11. `SurvivesOneDamage` is of snapshots that no longer split (one that
splits and does not verify hides ops the file still has) and of files no row of which was ever torn (one
that was may come back with an op older than the image, and `apply_tail` then refuses the tail: five ops
and two damages, a torn row and a later snapshot, show it). `NoSilentLoss` is of cell writes.

*Bounds.* Retention limits are the code's (3 and 2). Four ops give five watermarks, so the chain
overflows; two damages break the newest snapshot and a fallback, or a snapshot and a row; one failed
compaction reaches COMPACTING with either connection. Deadlock is checked. No liveness: every
step is a call the user or the editor makes.

### Proofs

For any number of ops, any kinds and authors, any limits, any damage:

* `ContainerType`: `Spec => []TypeOK`, with `SessionOnly` (only COMPACTING defers, a closed document
  has no log) as strengthening. `deferred` staying inside `log` is what lets `compact` flush.
* `ContainerNested`: `Spec => []Nested`, the fact docs/16 rests retention on. Alone
  it is not inductive: a new snapshot covers the log, so the log must hold what every verifying
  snapshot covers (`ChainInv`), which an open gives because the image chosen is the newest.
* `ContainerPrunes`: `Spec => PrunesOnlyProven`: the floor is covered by every
  verifying snapshot of a nested chain, and is empty unless `MinVerified` verify.
* `OnlyARefusedTailIsSilent`: an open without a report that hides an acknowledged op is one whose tail
  `apply_tail` refused; there is no other way. The invariant is `KeptInv`: an acknowledged op this build
  reads is, for *every* snapshot that verifies, covered by it or in the rows (`Covered`; of the newest
  alone it would not survive the newest going bad), and in the session's log, or in the report until the
  user has read it (`Held`, without which a compaction would drop it).
* `CellsAreNeverLostSilently`: `Spec => []NoSilentLoss` if every op writes a cell, whose tails are never
  refused: what is at or before the image's key is quarantined first.

If also at least two snapshots are retained and at least two must verify before ops are deleted (the
code's limits are 3 and 2):

* `OneBlankCostsNothing`: while one snapshot no longer splits and all else is as written, recovery believes
  in every acknowledged op, whatever the ops, the authors and earlier damage. Added to `KeptInv` is
  `Spare`: as long as there are not two snapshots the rows alone hold everything.
* `OneDamageShowsAll`: `Spec => []SurvivesOneDamage` for one author, readable ops and snapshots as the only
  thing that goes bad (`Alone`, which `desktop` satisfies): what recovery believes in is also shown. By
  `PrefixInv` every snapshot that verifies covers a prefix of the ops known to rows, session and
  snapshots, so that nothing of a tail is ever at or before an image's key.

All the runs' properties are proved.

## 5. The state and session modules

| module | models | state |
|---|---|---|
| `WorkbookState` | `usk-state`: axis tree, cell store, formula registry, replay, tip path, image and tail | none (operators on a folded state) |
| `EditSession` | `usk-reduce::Session`, one per actor, exchanging ops | `log state pending undo redo counter lamport` |
| `SheetReference` | what an op set means, without folding; the properties | |
| `MCSession`, `SessionProofs` | instances for TLC; theorems | |

**Correspondence.** The fields of `Session` are the variables. A state's `tree`/`tombs` are
`AxisSeq`'s, `slots` the row `SlotMap`, `contested` the plan's bitmaps, `value` and `meta` a tile's
payload and `Meta::Mixed` stamps, `formulas` the registry, `tip`, `folded`, `writers` the bookkeeping
of `apply_tip` (`tip_ok`, `value_writer` and `multi_value_writer`). `Settled` is `settle`: the tip
path if `TipAccepts` the batch, otherwise a replay; every command, undo and redo settles first and
leaves its own op pending, which is why a batch may hold a local op and remote ones. `Edit` has one
alternative per `Command` kept, `Undo`/`Redo` one per outcome of `invert_group`. `IntoState` is
`Salvaged::into_state` with `apply_tail`.

**Abstractions.** Rows stand for both axes, whose code is the same, and there is one column: a cell
is named by its row. All cells lie in one tile, whose packing is left out. A value is the id of the
op that first wrote it, so what undo restores is told from what was written anew. A `ClearCell` is
a write of `Blank`. Style rules are in section 6, the calculation engine in section 7; opaque ops and
the fill command are left out.
Values with equal content, on which nothing in the fold depends, do not arise.

**Environment.** A session starts from the base workbook or empty, as a peer that joins. Ops of one
author arrive in order, different authors' in any interleaving, which is what section 3 proves of
the replica (`DeliversStreams`). `Reopen` is `from_log` over the durable log, `Recover` is
`Replica::recover`, which integrates that log into a new session as one batch.

### Runs

| run | instance | shows |
|---|---|---|
| `edits` | two actors, one base row, three ops (two once a row is inserted) | `OneOpPerId`, `MintedLast`, `SettledIsFold`, `TipKeepsLosers`, `UndoInverts`, `AdoptedTailIsFold` |

`SettledIsFold` compares what a reader sees, and the slot order the hash folds in, with a
reference computed from the op set by maxima over stamps. `TipKeepsLosers` says that folding a whole
deferred batch, own ops and deliveries together, loses no concurrent write. `UndoInverts` says the entry a command, undo or redo leaves takes back its
effect. `AdoptedTailIsFold` cuts every log at every op and opens the first part as an image
and the rest as its tail.

`TipKeepsLosers` leaves out a cell the batch itself opens twice (`OpenedTogether`), `UndoInverts` does not
ask whose content an entry restores, and `AdoptedTailIsFold` is of tails that follow the image. Section 11
says what the code does in each case.

*Bounds.* Three ops over a base row are the least with two concurrent writes and a third that
extends, undoes or tops them, in every order of arrival. An inserted row multiplies the choices, so at most two ops are minted in a
history that has one: a row inserted and written into, deleted, undone, or inserted twice at one
place. Deadlock is checked: a session can always be reopened. There is no fairness and no liveness
property: every step is a user's or a delivery, and nothing in the session waits.

### Proofs

For any set of actors, base workbook and bounds:

* `IdsAreUnique`: `Spec => []OneOpPerId`.
* `LocalEditsAtTip`: `Spec => MintedLast`, which is what makes the tip path take a local edit.
* `SessionTypes`: `Spec => []TypeOK`.
* `SettledShowsLog`: `Spec => []SettledIsFold`. It makes two sessions with one op set agree, hash
  included, however each got there.
* `NoLoserForgotten`: `Spec => []TipKeepsLosers`.
* `UndoTakesBack`: `Spec => []UndoInverts`.
* `AdoptedShowsLog`: `Spec => []AdoptedTailIsFold`.

*Identity.* Neither of the first two is inductive alone. `IInv` adds: every op is a base op or one its
author's own log holds (`Owned`), that log has one op per counter (`OwnUnique`), base ops are the base
workbook (`GenesisIsBase`), the mint stands at or past every own counter and every lamport the log
holds, and each is witnessed by an op (`CounterWitnessed`, `LamportWitnessed`, `LamportCovers`).
`OwnUnique` rests on the mint being past every counter, which a reopen or a recovery re-establishes
only because the log itself holds the witness.

*Folds.* The folds are not reasoned about as recursions but written out. `Meaning(P, ...)` is the
state an op set `P` determines, each field said of the set alone: the tombstones by the last op about
each row's life, values and stamps by the last write, losers by `RefLosers`, registers by the last of
both kinds, slots as the list of rows by first mention. `MeaningGrows` shows that applying an op that
follows all of `P` to the meaning of `P` gives the meaning of `P` and it. It is a case of
`RecalledGrows`, about `Recalls`, which is `Meaning` with any tip and any writers, with one lemma per
kind of op (`InsertRecalled`, `DeleteRecalled`, `CellRecalled`, `FormulaRecalled`) and one per field
under those. A fold is then that step repeated along a list: `ReplayMeans` for a replay, which starts from the plan, and
`TipMeans` for a tip batch, which starts from a folded state and must ascend. Both need the logs to be
`Good`: finitely many ops, one per id, and every row younger than its anchor.

Order takes most of the proof. `FullOrder` walks the insertion tree with a stack, `RefOrder` places
each row directly below its anchor; `OrderGrows` follows the two walks of a tree with and without its
latest leaf side by side, and shows that they are the same but for the leaf, which comes directly
after its anchor. It needs that the walk visits a row once, after its anchor, and ends
(`WalkAlwaysOK`, `WalkEnds`). `FoldsShow` collects this: what a folded state shows and hashes is
`<<RefSheet, RefSlots>>`.

*Sessions.* `SInv` is `IInv` with: ops are well formed and logs finite (`Shaped`), a row's anchor is
the start or an older row somebody published (`Anchored`, which makes logs `Good`), undo entries hold
contents a cell can have (`Stacked`), batches are of the log (`Waiting`), and a session's state has
folded exactly what of its log is not pending (`Folded`). The last is kept by every step because
`Settled` folds the whole log by either path (`SettledFolds`).

`NoLoserForgotten` adds that a cell which `CannotContend` lets through unstamped has a single author
(`UnstampedIsSole`): whoever writes a cell that held a value is the only writer of the document, the ops
of the batch before him included.

*Undo.* `Undoable` is what the stacks keep: an own op that is alone in pending follows the rest of
the log, and the top of the stack it went to is the inverse of that op, with what its cell held
before it (`Took`). That the inverse restores the sheet is then about an op set, an op and its
inverse (`ViewBack`): a write and the write of the former content leave every cell as it was
(`ContentWritten`); a row inserted and deleted leaves the walk of the tree with one dead leaf more,
and so the live rows in their places (`OrderBack`, `KeptPlaced`); a delete and an undelete leave the
tombstones as they were if the op changed anything, and `UndoInverts` asks for that: deleting a row
that is already dead, then undoing it, does bring the row to life. `InverseGood` shows that the minted
inverse makes a log a fold may meet, so that `FoldsShow` applies to both sides.

*Images.* An image does not remember the stamps of its cells, so its state is not the `Meaning` of
its ops. `Resumes(I, R)` says what it is once the tail `R` is folded over the image of `I`: the
meaning of both, but that only the cells contested in the image or touched by the tail carry stamps,
and tip and writers know the tail alone.
A stamp adopted for a cell is the one `StampOf` finds, because a cell nobody else has written
(`Uncontested`) has its winner at the greatest write (`AdoptRecalls`). `TailGrows` repeats this along
the tail, and `TailTaken` shows that a tail is never refused for being out of order: every op of it is
after the greatest write of the image.

Every property of the `edits` run is so a theorem.

## 6. The formatting modules

| module | models | state |
|---|---|---|
| `StyleRules` | `usk-state::style`: the registry, `facet`, `overlapping` with `clip_span`, `style_winner` | none (operators on a registry and two axes) |
| `StyleSession` | formatting, rows and their undo in `usk-reduce::Session`, with another author's ops arriving | `rules rows undo redo own foreign` |
| `MCStyles`, `StyleProofs` | an instance for TLC; theorems | |

**Correspondence.** The registry is a sequence of rules by ascending stamp; `Look` is the newest rule that
covers a cell. `Format` is `SetStyle`/`ClearStyle`, with `prior_rules` taken before; `Replayed` is the style
arm of `invert_group`, a clear and then the prior rules again as new ops; `Blocked` is its guard.
`ForeignRule` puts a rule at any stamp after that author's own.

**Abstractions.** One facet, since facets do not meet. Columns stand still: one span of them and the whole
sheet are named. No cell is written, so no row's undo is blocked (`EditSession` has that). A style entry
also carries what the properties compare with: the rules it was made on, the axes formatting was done on
since, and whether a rule of the other author has arrived since. `Above` keeps the second as a format, or
the undo of one, is done above it; none of them guards a step.

| run | instance | shows |
|---|---|---|
| `styles` | two rows, at most three, three own steps and one of another author | `PriorInsideTarget`, `RevertRestores` |

*Bounds.* Three own steps are a format, a structural edit or second format, and an undo; one foreign op
may fall anywhere among them, with any stamp. `CHECK_DEADLOCK FALSE`: both counts are bounded.
`RevertRestores` leaves out histories in which another author's rule arrived, and rows that were dead, or
inserted while some row was, when something was formatted since: section 11 says what happens there. It
leaves out every such time, not only the entry's own: the clips of a format made above it, later undone,
are what its cells go back to.

### Proofs

For any numbers of rows, columns, facet values, steps and foreign ops:

* `StyleType`: `Spec => []TypeOK`.
* `RevertStaysInside`: `Spec => []PriorInsideTarget`. The windows the property compares move with every row
  that comes, goes or returns, so it is not inductive. What does not move is the order of identities: the two
  ends of a clipped rule stand between the ends of its target (`Inside`), which every edit of the axis leaves
  as it was (`SameOrder` in `AxisProofs`), and a window follows its ends (`InsideWindow`).
* `RevertBringsBack`: `Spec => RevertRestores`. A live cell is covered when it stands between a rule's ends
  (`LiveIsWithin`), so what a registry shows of it (`Shown`) is told by the order of identities too, and is
  defined for cells no longer or not yet there. The invariant `SessionOK` says of each stack (`StackOK`), of
  the axis there is and of every axis later edits may make of it (`Near`):
  * `Exact`: under its target, an entry's rules show what the registry did when it was made (`OverlapExact`,
    from `ClipAddsNothing` and `ClipLosesNothing`: a clip covers what both spans do, of a row that was live
    or of any row if none was dead);
  * `Guarded`: my own rule over an undisturbed entry's target is there, with no rule of another author after
    it, so its undo is not blocked (`GuardedWins`);
  * `Nested`: an entry remembers no more than those above it;
  * `Follows`: of the entries from one upwards, the first whose target has a given cell was made while the
    cell looked as when the one was made; if none has it, the cell looks so now. Popping an entry, pushing
    one and replaying one keep this (`FrontFollows`, `AppendFollows`, `ReplayShown`), and at the top of a
    stack it is the property outside the target.

## 7. The calculation modules

| module | models | state |
|---|---|---|
| `Rectangles` | `usk-calc` rectangles: bounding cover by a sweep, the band index and its `stab` | none (operators) |
| `AxisOrder` | `refs.rs` `Axis`: live order, `resolve` of an interval of identities, insertion, deletion | none (operators) |
| `CalcGraph` | `graph.rs`: binding, `rebind`, grouping and splitting, `evaluate` by levels, changed regions, cutoff | none (operators on a sheet and an engine) |
| `CalcEngine` | the engine beside a session: edits queue, `settle` hands the batch to `observe` | `sheet engine batch left` |
| `MCCalc` | small documents for TLC | |
| `AxisProofs`, `CalcProofs` | lemmas on an axis; lemmas and theorems | |

**Correspondence.** `Regroup` is `Engine::regroup`: formulas with one relative pattern are a group, a group
that may read itself is split by column and then by cell. `Pass` is `evaluate`: `Mark` follows dirty
rectangles through the band index, `Levels` orders what was marked, `Circular` is what no level takes,
`Region` is the part of a group a changed rectangle reaches, and a cell whose value stays spreads
nothing. `RecalcAll`, `RecalcAfter` and `Observe` are the methods of those names; `Shown` is what a reader
gets. `Opened` evaluates a document whole, as `Session::from_log` does.

**Abstractions.** A formula is the items it reads and a kind: `sum` adds one to what it reads, `sign` tells
whether that is positive (so a changed input often changes nothing, which is what the cutoff is for), and
`guard` turns an error to zero. Arithmetic is modulo `Mod`, with errors apart. Each item has the rectangle
it was typed as, its binding to identities and whether it stands in parentheses. Volatile functions,
dates and the extent limit of whole-column references are left out, and so are `$` anchors: they are part of
the key formulas are grouped by (`graph.rs:1195`), so formulas that differ in them alone are one group here
and two in the engine. A rectangle that leaves the grid is `#REF!` where the code clamps it, which only an item in parentheses
can reach. `Precedents` reads the stored bindings, not what the engine rebinds; the two differ for
parenthesised references only.

**Reference.** `Denoted` re-evaluates every formula from its bindings, cell by cell, until nothing can
change; it knows no groups, levels, rectangles or cutoff.

| run | instance | shows |
|---|---|---|
| `recalc` | every filling of 2 by 3 cells with three texts, then one edit; five sheets of a shape of their own, then up to two edits in one batch or two | `ShownIsDenoted`, `CycleIsShown`, `ReadsTravel` |

*Bounds.* Bands of two rows, so rectangles cross bands. The sheets of their own are a pair-of-rows column
(overlapping reads of one group), opening and closing balances with a guard behind them (a group split
and a false cycle of groups), a guard over a cycle, a total that takes in its own cell, and a running
total with a gap. No text stands in parentheses though `Rebind` models them (section 11).
`CHECK_DEADLOCK FALSE`: edits are bounded. `ShownIsDenoted` is stated where `GraphCurrent` holds, which a
value typed over a formula breaks, and of cells not behind a cycle of groups; section 11 has both. A read
of an unsettled engine is not a state a caller sees: every reader settles first.

### Proofs

* `ReferencesTravel`: `Spec => ReadsTravel`, for any grid, texts and documents that meet `CalcAssumption`:
  an edit never changes which of the cells outliving it a formula reads. The core is a lemma on
  `Resolve`: what lies between two identities and is live before and after an edit is the same set,
  whether an end was deleted, brought back or had something inserted beside it.
* `SheetAlwaysOK`: `Spec => []SheetOK(sheet)`, its invariant: distinct identities on both axes, and
  every binding names identities the axes know.
* `CalcTypes`: `Spec => []TypeOK`: after any edits, in whatever batches, each formula has a number or an
  error as its result and no slot is left unwritten. `Regroup` puts every formula into one group: the
  classes of `Pattern` and their splits are partitions, and since no two formulas share a cell no two groups
  share a `Lead`. In a full pass each group's extent covers its cells, marking only grows it, so a cell is in
  a group that a level evaluates or among the circular ones; in an incremental pass a slot that has a value
  keeps one. Its invariant `CalcInv` adds that formulas name cells of the grid and that the sheet fits it
  (`SheetTyped`, which `CalcAssumption` asks of the documents). The folds of the library recurse over a set
  by `CHOOSE`, so lemmas first show that such a recursion has a solution and stays in a set its steps stay in.
* `StabExact`: the band index returns the groups that read a rectangle, no more and no fewer.
* `SweepLosesNothing`: a step of the sweep that merges reads loses no cell.
* `CalcShows`: `Spec => []ShownIsDenoted`, and `CalcCircles`: `Spec => []CycleIsShown`, for any grid, bands,
  modulus, documents and formulas, after any edits in any batches. Both are under `PlainTexts`: no
  reference stands in parentheses, as in the run. It is needed, since `rebind_walk` gives a
  parenthesised reference's binding to the item after it (section 11) and the graph then reads
  other cells than the bindings name.

The argument for these two, bottom up; each part is a lemma or theorem of `CalcProofs`.

1. *The graph of a sheet is linked* (`RegroupBuilt`, `BuiltLinked`). Regrouping puts each formula in one
   group, a group that reads itself has one member, and whoever reads a cell of a group is found from it:
   by the merged cover (`MergedCovers`), the index (`StabExact`) and the bounding box of what is affected.
2. *Marking reaches its fixed point* (`MarkedStill`). A round that changes a dirty rectangle makes it pass
   another of the 4 * `Grid` lines there are for each group, so the rounds the model allows suffice and
   the code's frontier runs dry. A dirty member's readers are then dirty.
3. *Levels are an order* (`LevelsOrdered`, `OrderedClosed`). Level k holds what reads only levels before it,
   the last round adds nothing, and what a level places in the whole graph it also places in any dirty
   part of it (`PlacedStays`).
4. *A step brings a group to date* (`SteppedBrings`). With its upstream groups done, a group's members
   that a changed rectangle reaches are evaluated and hold what their formulas say; a member skipped
   reads nothing that changed, which is where `Region` and the cutoff have to be right. The groups done
   before do not read it and stay. Level by level this gives `PassSound`: a pass brings up to date
   what was seeded and keeps what was.
5. *Cells that can reach themselves* are in no level (`CycleUnplaced`): what the levels before one hold is
   closed under reading, and a cell that can reach itself is in every such set that has all it reads, so
   no level is the first to take it. `PassCirc`: a pass leaves `#CIRC!` in them,
   where it was or where the pass is seeded.
6. *The reference arrives at the same values* (`DenotedReached`). Each round of `Denoted` settles one more
   level, and there are no more groups than live cells (`FewGroups`), so its bound is enough.
7. *The invariant* `SettledInv` is `CalcInv`, plain texts and `GraphInv`: between batches, unless a structural
   edit is pending, each formula has a slot, and if no slot is left of a formula typed over, the graph is
   the sheet's, every placed member that reads no cell the batch has written is consistent with what it
   reads, and every member that can reach itself shows `#CIRC!`. `ShownIsDenoted` alone is not inductive: it
   says nothing while a batch is open, and what a pass may skip is decided by what was so before it.

## 8. The agent server

| module | models | state |
|---|---|---|
| `AgentServer` | `usk-mcp`: `preview_edits`, `apply_edits`, `undo`, growth, journal, preview check | `book journal preview told steps` |
| `MCAgent` | request batches for TLC | |
| `AgentProofs` | lemmas and theorems | |

**Correspondence.** `Commands` is growth followed by the edits; `Accepted` is `validate` with its scratch
copy; `PreviewEdits`, `ApplyEdits` and `Undo` are the tools, each atomic since one request is handled at a
time; `Evidence` is the check that a batch above the blast radius quotes the pending preview. `Execute` is
`Session::apply` for one command and `Run` a batch of them, stopping at the first that cannot be bound. `Impact` counts the
changed cells the way the server does. `told` is the agent's knowledge: version, preview hash, its request.

**Abstractions.** One column; a cell is blank, a number or a formula copying another row. The session's
rules for undo (`EditSession`) are there with ops applied as they come: `book` keeps per row its content,
its winner and who ever wrote in it. A version is the workbook it is the hash of, as far as it shows: the
code's hash also folds the value stored beneath a formula (`usk-state/src/lib.rs:653`), so it tells apart
workbooks that `Hash` does not.

**Environment.** `ForeignWrite` and `ForeignDelete` are ops integrated between two calls, newest of all.

| run | instance | shows |
|---|---|---|
| `agent` | two seeded rows, five batches (one edit, two with an effect downstream, growth, one that may not bind, a clear), four steps besides previews | `JournalIsUndoStack`, `UndoRestores`, `UndoSparesOthers`, `PreviewForetells` |

*Bounds.* Four steps are two applied batches, a foreign op between or after them, and an undo. Growth is
capped at two rows a call and the blast radius at one cell, so both limits are met. Deadlock is checked:
a preview is always possible.

### Proofs

For any batches, limits and seeded workbook that meet `AgentAssumption`: what an edit writes is a number, a
blank or a copy naming an ordinal from 1 (`parse_edits` admits nothing else the model tells apart), and the
limits are natural numbers.

* `AgentType`: `Spec => []TypeOK`, from `ServerOK`, which adds that rows are numbered as inserted and that
  an undo group names a row there is.
* `PreviewIsKept`: `Spec => PreviewForetells`. The trial a preview runs and the batch run later are the same
  commands on the same book; `Foretold` says that while `told` is fresh, the quoted hash is that of the trial.
* `UndoSparesTheOthers`: `Spec => UndoSparesOthers`, group by group: an undo takes back several, and what
  is spared by each must still be there, and still another author's, when the next is judged.
* `JournalIsStack`: `Spec => []JournalIsUndoStack`, and `UndoBringsBack`: `Spec => UndoRestores`. Both need
  `Chained`: a batch's depth is the height of the undo stack when it was applied, and is where the batch
  below it ends; and while nobody interfered, the batch is `Restorable`: of the groups above its depth, the
  oldest that wrote a row remembers what the batch found there, none of them is blocked, and every row it
  did not find is one that such a group inserted. Neither the journal's depths nor an undone batch's cells
  can be read off the state without it, since the batches above may have rewritten the same cells.

Batches are run and undone by folds of the library. `FoldExists` and `Firsts` unfold such a fold to the
results of its first steps, and `UpTo` with `StaysIn` is induction up to a bound over a set of numbers,
which the provers can use where an operator parameter is out of reach. All the run's properties are proved.

## 9. The view and the shell

| module | models | state |
|---|---|---|
| `GridView` | `usk-view` along one axis: pixels, visible slots, scrolling, re-anchoring | none (operators on an axis and a viewport) |
| `ShellBook` | the session as the shell drives it: commands by ordinal, undo and redo; `fill`, `clipboard`, `translate` | none (operators on a book) |
| `Shell` | `App` of `ehkatra-shell` | `book axis view active anchor editor mine os cut drag pressed events` |
| `MCShell` | scenes for TLC | |
| `ShellProofs` | lemmas and theorems | |

**Correspondence.** The variables are `App`'s fields: `axis` is its copy of the live order, `mine` and
`os` are `Clipboard`'s two halves and `cut` is `pending_cut`, `drag` the gesture. `clip` is
`Clipboard::read`: our block while the system holds its text or there is no system's clipboard, otherwise
that text. `Copy` may be refused by the system, `ForeignCopy` is another application's, and `PasteNothing`
a paste that finds nothing or is not let read. `Landing` is `commit`; `MoveCursor` every `Step` with
`ensure_visible`; `GridKey` and `EditKey` the two keymaps of `input.rs`; `Preedit`, `PreeditWithdrawn` and
`ImeCommit` the input method; `Paste`, `Filled`, `Restructure` and `History` the methods of those names,
each with `Rebuilt`, which is `rebuild_axes`: axis, viewport and cursor are found again by identity.
`PressCell`, `DragTo`, `Release` are the pointer's events.

**Abstractions.** One column, so a step to the side stays put; columns are the same code. A pointer is the
slot it is over, or the fill handle. Rows have one height, as the shell never sets another. A text is a
sequence of at most two characters, where an A1 name is one character; words are letters, so a fill
repeats and has no numeric series. What a formula shows, which is what a copy puts in the text, is any of
`Results`. Status line, theme, drawing, shaping and the GPU are left out.

| run | instance | shows |
|---|---|---|
| `shell` | sheets of one and three rows, at most four; windows of one and a half and two and a half rows; five events | `EditLandsInItsCell`, `CutMoves`, `ViewHolds` |

*Bounds.* Five events are the least for a cut, a move, a structural edit, another move and a paste, and for
an editor opened, filled, composed in, disturbed and committed. A window of a row and a half always has a
row cut off. One scene has no system's clipboard. `ViewHolds` leaves out a window neither scrolled nor
reshaped yet, which is on no row, and a cursor moved by the pointer or a fill. `CutMoves` is of a cut whose
block is what a paste takes, which a refused copy or a foreign one prevents. `CHECK_DEADLOCK FALSE`: events are bounded.

### Proofs

For every height of the sheet, of a row and of the windows, every opening sheet, key, wheel step and foreign
text, any longest text and any number of events (`ShellAssumption` says only that these are numbers and
texts, and that an opening sheet fits):

* `ShellType`: `Spec => []TypeOK`. A cursor on a live row is not inductive by itself: an undo makes a book the
  shell never looked at. The invariant `IInv` therefore types the session as a whole (`BookOK`: rows without
  duplicates within `MaxRow`, a text for each, and no row named on the undo and redo stacks that is not one of
  them), says that the shell's axis is its live order (`DocOK`), that cursor and viewport point into that axis
  (`CursorOK`, `ViewOK`), that an editor's row is on it and its caret within its text (`EditorOK`), and that a
  fill belongs to a held button (`GestureOK`). Every paste, clear and fill is a fold of commands over the book;
  `FoldRuns` in `AxisProofs` turns that into the books after each command, where a bound on the steps can be
  carried.
* `EditsLand`: `Spec => EditLandsInItsCell`. A commit finds the row by its identity, and the ordinal it writes
  to is the one the session resolves to that identity again, since `DocOK` keeps the two orders equal
  (`Landed`). The rest is that no other action writes while an editor is open but a fill's release.
* `CutsMove`: `Spec => CutMoves`. `BoardOK` adds that a pending cut is the range its block was taken from and of
  its size. A clear is as many writes as the range has rows, and a paste as many as the block has
  cells, each at the row its ordinal resolved to in the axis (`BlockLands`); clearing first, then writing, is
  what makes overlap harmless (`PasteMoves`).
* `NothingTeleports`: `Spec => ViewHolds`. That rows from the first shown one on have not changed says that they
  end both axes (`SuffixIs`); the anchor's place moved by the difference of lengths and its offset stayed, so
  each is drawn from the same pixel (`RestStays`, `DrawnFrom`). For a cursor that moves, the least scroll that
  `ScrollNeeded` computes is not cut short by the ends of the sheet (`BroughtIntoView`), by division with
  remainder of pixels by rows.

All the run's properties are proved.

## 10. Not modelled

Byte formats (op codec, frames, images, zip, xml, xlsx, csv, json), the formula grammar and function
library, decimal arithmetic, drawing, text shaping and the window's event loop: pure or I/O, with no
protocol state. Of the container: file creation and schema versions, the checkpoint cadence (it moves
bytes that are already durable) and migrations (the registry is empty). The import sandbox's parent and
child exchange one request and one answer under a timeout; it is next in the plan. Command lines and
benchmarks drive what is modelled. `PROJECT.json` gives the status and reason of each component. Most of
the repository's lines are of these kinds, or copies of earlier states of the shell under `.checkpoints`.

## 11. Other disagreements met

Seen while modelling, each without a run of its own. *Sync:*

* `submit` observes an op in the relay's clock only when it is first retained (`relay.rs:177`), so one
  retained past a hole is never claimed once the hole fills, and a resend is not observed either: the
  author's queue keeps it. `relay.rs:178` says of that resend: "the ack below still moves the sender's
  queue forward".
* A catch-up larger than the causal buffer drops ops (`clock.rs:95`) whose authors, acknowledged by
  the relay, no longer queue them, where `clock.rs:73` says the sender's queue still holds them.
  A quiet LIVE replica may then lack ops the relay has, where docs/27 says "vector clocks equal".
* Losing the transport in REBASE_REQUIRED rebuilds the session in DISCONNECTED (`replica.rs:178`), from
  where it merges; `machine.rs:63` says it must rebase. The same edge takes INCOMPATIBLE, "terminal
  until the build is upgraded", back to DISCONNECTED.
* That rebuilt session starts its backoff at attempt 0, so a relay that is down is tried again every half
  to one second for as long as the loss takes this way back (`HellosSpaced` still holds).
* A refill truncates to whole tokens and moves its clock all the same (`relay.rs:53`), so frequent small
  submissions earn up to a token less each than the rate says; the bound from above is proved.
* The relay keeps retained ops in memory, where docs/16 promises a durable ack.
* An ack discarded in REBASE_REQUIRED leaves its op queued and marked sent until the next disconnect.

*Storage:*

* `apply_tail` refuses the whole tail if any op in it, of whatever payload, is at or before the image's
  greatest cell write (`usk-state/src/lib.rs:384`), and `into_state` discards that error: an op of a newer
  build older than a value the snapshot covers makes every later edit vanish from a clean open.
  `salvage.rs:124` says "Cannot fail: every op left is outside the only condition `apply_tail` refuses on".
  So does a row or column edit quarantined behind a torn row: once a later snapshot covers the torn op, the
  row behind it is tail again, and older than the image.
* `open_document` takes the covered ids of the newest snapshot that splits, `recover` the first that
  verifies (`container.rs:475`). With the newest damaged in its image or hash, the ops between the two are
  not tail although their rows are there; `container.rs:454` says "Ops the newest *verifiable* snapshot
  already contains are not tail".
* A failed `compact` (`container.rs:538`) leaves the document COMPACTING for good: ops acknowledged and
  deferred from then on reach no disk, where `machine.rs:83` says they "were never dropped".
* `compact` after a salvage writes a file without the quarantined rows, which `salvage.rs:90` calls
  "held verbatim, never deleted".
* `INSERT OR IGNORE` keeps a row that no longer decodes when its op is delivered again.
* A tail with a formula for a cell the image never seeded trips `set_formula`'s `debug_assert`;
  a release build keeps the formula, as modelled.
* A delete or undelete older than one the image has folded is applied after it: A deletes a row and
  undoes that, B's concurrent delete arrives as tail, and the open differs from the replay.
  `stamps.rs:52` says "Axis ops are a CRDT and resolve independently of arrival order".

*State and session:*

* `apply_tip` asks whether a cell holds a value of the state before the batch (`usk-state/src/lib.rs:338`), so
  of two actors' writes to one empty cell in one batch the loser is kept nowhere; `lib.rs:312` says "the cell
  holds **nothing yet** — there is no loser to lose".
* A cell's undo asks whose op wins the cell, not whose content it holds (`usk-reduce/src/lib.rs:646`): undo
  restores a collaborator's content under this actor's name and the next undo takes it away. `lib.rs:13`
  says "if someone else overwrote it, undo is a no-op and their intent is preserved".
* Redo after undoing an insert brings back a row another actor deleted meanwhile (`lib.rs:670`), where
  `usk-reduce` says the two directions "cannot drift apart".

*Formatting* (docs/43, ADR-041, Decisions 5 and 6):

* A style undo is to be blocked when "any *later* rule for the same facet, authored by another actor,
  intersects my target"; `style_winner` (`usk-reduce/src/lib.rs:479`) looks at the newest overlapping rule
  only. I format a sheet, another formats it, I format a cell, undo that and undo the first: their rule
  is wiped.
* Another's rule with an older stamp that arrives after mine is wiped by the clear of my undo, and a
  foreign rule my undo restores is mine from then on.
* Clipped prior rules forget ends that were dead: format two rows, delete the second, format over them and
  undo; when the row returns it has no format, where "a resurrected row must find its formatting again".
  So do formats undone below it: format two rows one by one, let another author delete the second, format
  the sheet, let the row return, undo the last format and the one before. The second of these was made and
  is undone with both rows there, and the row its own format was not about has lost its format.

*Calculation:*

* `rebind_walk` has no arm for a parenthesised reference (`graph.rs:918`) while `collect_refs` binds it, so in
  `=(A1+B1)*C1` the item after it takes its binding; the comment says "Rewrites an AST's `A1` view
  coordinates from its stored identity bindings".
* Two groups that read each other without any cell reaching itself are shown as `#CIRC!` (`graph.rs:724`),
  where `usk-calc/src/lib.rs:22` says that what the levels cannot place "is, by definition, in a cycle";
  `CycleIsShown` is the other direction. A guard behind a self-cycle shows `#CIRC!` after a full pass and zero
  after an incremental one.
* `SetCell` or `ClearCell` over a formula recalculates and does not regroup (`graph.rs:459`): the slot keeps the
  old result. `usk-reduce/src/lib.rs:889` says a reader gets "the computed formula result if the cell holds a
  formula, otherwise the stored value".

*Agent server:* a batch above the blast radius is applied when no preview is pending; a quoted hash is not
tied to the edits that come with it; a pending large preview blocks a small unrelated batch that quotes
nothing; `cells_changed` leaves out cells that became blank, and counts downstream cells by a graph that
may be stale. The version may be that of the preview when a row has been grown and undone since, and the
applied hash then differs.

*Shell:*

* `pending_cut` holds ordinals (`app.rs:185`): a row inserted or deleted between cut and paste makes the paste
  clear other cells. A paste of foreign text clears the cut too, where `app.rs:184` says "to be cleared when its
  block is pasted"; a cut cell that falls off the sheet, or whose formula is refused, is cleared and lost.
* A copy the system refuses leaves what the system held, and that is what a paste takes (`clipboard.rs:275`);
  `clipboard.rs:259` says "the in-process block still works". After a refused cut the paste
  clears the source and writes the older text.
* A formula's source is never rewritten after a structural edit, so F2 and Enter, a copy, a cut or a fill binds
  it to whatever is at its old name now.
* A fill's origin is ordinals, stale after a structural edit from the keyboard in mid-drag. `drag_cancel`, which
  `app.rs:536` wants called when a window loses focus in mid-drag, is called by no window.
* Re-anchoring does not clamp: deleting the last, anchored row leaves a viewport with nothing visible, and
  deleting the last row of the sheet a cursor on a dead cell, where an editor's text is discarded.
