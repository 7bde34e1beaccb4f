---------------------------- MODULE SyncSession ----------------------------
(***************************************************************************)
(* One replica's end of the sync protocol: the docs/27 state machine and   *)
(* never-drop queue of usk-sync, wrapped by ehkatra-relay's Replica, which *)
(* owns the op log, routes inbound frames by state and rebuilds the        *)
(* session when a link dies in a state the machine has no edge for.        *)
(*                                                                         *)
(* Simplifications.  The backoff schedule, the negotiated versions and the *)
(* quarantine counter are left out: no guard here reads them.  HELLO's     *)
(* clock and the replica's own ACK are left off the wire: the relay drops  *)
(* both unread.  The relay never sends NEED, so the machine's answer to it *)
(* is not modelled.                                                        *)
(***************************************************************************)
EXTENDS OpClocks, Sequences

CONSTANTS
    Invalid       \* ops that fail schema or bounds validation

ASSUME InvalidAssumption == Invalid \subseteq Op

VARIABLES
    state,        \* SyncSession.state
    clock,        \* SyncSession.clock
    queue,        \* SyncSession.queue: own ops not yet acknowledged
    sent,         \* the queue entries whose `sent` flag is set
    held,         \* SyncSession.buffer
    log,          \* Replica.doc.log
    minted,       \* Session.counter: the last counter this actor spent
    timer,        \* Replica.retry_at_ms is armed
    readOnly,     \* Replica.read_only
    up,           \* frames from each replica to the relay, oldest first
    down          \* frames from the relay to each replica, oldest first

sessionVars == <<state, clock, queue, sent, held>>
replicaVars == <<log, minted, timer, readOnly>>
linkVars    == <<up, down>>

SyncState == {"Disconnected", "HelloSent", "Incompatible", "Syncing", "Live",
              "Backoff", "RebaseRequired"}

UpFrame   == [type : {"Hello"}]
               \union [type : {"Need"}, clock : Clock]
               \union [type : {"Ops"}, ops : SUBSET Op]
DownFrame == [type : {"HelloAck", "HelloReject", "InSync"}]
               \union [type : {"Give", "Ops"}, ops : SUBSET Op]
               \union [type : {"Ack"}, clock : Clock]

SessionTypeOK ==
    /\ state \in [Actor -> SyncState]
    /\ clock \in [Actor -> Clock]
    /\ queue \in [Actor -> SUBSET Op]
    /\ sent \in [Actor -> SUBSET Op]
    /\ held \in [Actor -> SUBSET Op]
    /\ log \in [Actor -> SUBSET Op]
    /\ minted \in [Actor -> 0..MaxOps]
    /\ timer \in [Actor -> BOOLEAN]
    /\ readOnly \in [Actor -> BOOLEAN]
    /\ up \in [Actor -> Seq(UpFrame)]
    /\ down \in [Actor -> Seq(DownFrame)]

SessionInit ==
    /\ state = [r \in Actor |-> "Disconnected"]
    /\ clock = [r \in Actor |-> EmptyClock]
    /\ queue = [r \in Actor |-> {}]
    /\ sent = [r \in Actor |-> {}]
    /\ held = [r \in Actor |-> {}]
    /\ log = [r \in Actor |-> {}]
    /\ minted = [r \in Actor |-> 0]
    /\ timer = [r \in Actor |-> FALSE]
    /\ readOnly = [r \in Actor |-> FALSE]
    /\ up = [r \in Actor |-> <<>>]
    /\ down = [r \in Actor |-> <<>>]

-----------------------------------------------------------------------------
(* Wire helpers.                                                           *)

Goto(r, s) == state' = [state EXCEPT ![r] = s]

Send(r, frame) == up' = [up EXCEPT ![r] = Append(@, frame)]

OpsFrame(ops) == [type |-> "Ops", ops |-> ops]

\* Empty batches are not put on the wire.
SendOps(r, ops) == IF ops = {} THEN UNCHANGED up ELSE Send(r, OpsFrame(ops))

SendNeed(r) == Send(r, [type |-> "Need", clock |-> clock'[r]])

\* MUTANT of MaySendOps: sending is open as soon as HELLO is on the wire.
MaySendEarly(s) == s \in {"HelloSent", "Syncing", "Live"}

\* SyncState::may_send_ops.
MaySendOps(s) == s \in {"Syncing", "Live"}

\* MUTANT of MarkAllUnsent: what was on the wire is taken to have arrived.
KeepSent(R) == UNCHANGED sent

\* Queue::mark_all_unsent, for every replica of R.
MarkAllUnsent(R) == sent' = [r \in Actor |-> IF r \in R THEN {} ELSE sent[r]]

\* MUTANT of Acked: an ack releases whatever has been sent.
AckedBySending(r, watermark) == sent[r]

\* Queue::ack: the entries a watermark releases.
Acked(r, watermark) == {op \in queue[r] : Covers(watermark, op)}

\* Consume the oldest inbound frame.
Consume(r) == /\ down[r] # <<>>
              /\ down' = [down EXCEPT ![r] = Tail(@)]

Inbound(r) == Head(down[r])

-----------------------------------------------------------------------------
(* Connecting.                                                             *)

OpenSession(r) ==
    /\ Goto(r, "HelloSent")
    /\ Send(r, [type |-> "Hello"])

\* Replica::connect, at startup or by hand: defined from DISCONNECTED only.
Connect(r) ==
    /\ state[r] = "Disconnected"
    /\ OpenSession(r)
    /\ UNCHANGED <<clock, queue, sent, held, replicaVars, down>>

\* The retry timer fired (Replica::resume): reconnect by whichever edge the
\* current state defines, or do nothing if another path already did.
Resume(r) ==
    /\ timer[r]
    /\ timer' = [timer EXCEPT ![r] = FALSE]
    /\ IF state[r] \in {"Disconnected", "Backoff"}
         THEN OpenSession(r)
         ELSE UNCHANGED <<state, up>>
    /\ UNCHANGED <<clock, queue, sent, held, log, minted, readOnly, down>>

-----------------------------------------------------------------------------
(* Local edits.                                                            *)

\* Replica::edit followed by Event::LocalOp: mint, log, queue, and send only
\* where ops may be on the wire.
Edit(r) ==
    LET op == <<r, minted[r] + 1>>
    IN  /\ ~readOnly[r]
        /\ minted[r] < MaxOps
        /\ minted' = [minted EXCEPT ![r] = @ + 1]
        /\ log' = [log EXCEPT ![r] = @ \union {op}]
        /\ clock' = [clock EXCEPT ![r] = ObserveAll(@, {op})]
        /\ queue' = [queue EXCEPT ![r] = @ \union {op}]
        /\ IF MaySendOps(state[r])
             THEN /\ SendOps(r, queue'[r] \ sent[r])
                  /\ sent' = [sent EXCEPT ![r] = queue'[r]]
             ELSE UNCHANGED <<sent, up>>
        /\ UNCHANGED <<state, held, timer, readOnly, down>>

-----------------------------------------------------------------------------
(* Inbound frames (Replica::receive), routed by the state that defines them.*)

RecvHelloAck(r) ==
    /\ Consume(r)
    /\ Inbound(r).type = "HelloAck"
    /\ state[r] = "HelloSent"
    /\ Goto(r, "Syncing")
    /\ UNCHANGED <<clock, queue, sent, held, replicaVars>>
    /\ SendNeed(r)

RecvHelloReject(r) ==
    /\ Consume(r)
    /\ Inbound(r).type = "HelloReject"
    /\ state[r] = "HelloSent"
    /\ Goto(r, "Incompatible")
    /\ readOnly' = [readOnly EXCEPT ![r] = TRUE]
    /\ UNCHANGED <<clock, queue, sent, held, log, minted, timer, up>>

\* Give and Ops carry one payload under two names.  Invalid ops are reported
\* and go no further; the rest pass the causal buffer, and what it releases is
\* appended to the log.
RecvOps(r) ==
    /\ Consume(r)
    /\ Inbound(r).type \in {"Give", "Ops"}
    /\ MaySendOps(state[r])
    /\ \E buffer \in Inserted(clock[r], held[r], Inbound(r).ops \ Invalid) :
         LET ready == Released(clock[r], buffer)
         IN  /\ held' = [held EXCEPT ![r] = buffer \ ready]
             /\ clock' = [clock EXCEPT ![r] = ObserveAll(@, buffer)]
             /\ log' = [log EXCEPT ![r] = @ \union ready]
    /\ UNCHANGED <<state, queue, sent, minted, timer, readOnly, up>>

\* The relay's watermark is the only thing that takes an op off the queue.
RecvAck(r) ==
    /\ Consume(r)
    /\ Inbound(r).type = "Ack"
    /\ MaySendOps(state[r])
    /\ LET acked == Acked(r, Inbound(r).clock)
       IN  /\ queue' = [queue EXCEPT ![r] = @ \ acked]
           /\ sent' = [sent EXCEPT ![r] = @ \ acked]
    /\ UNCHANGED <<state, clock, held, replicaVars, up>>

\* Anti-entropy converged: go LIVE and flush what was authored meanwhile.
RecvInSync(r) ==
    /\ Consume(r)
    /\ Inbound(r).type = "InSync"
    /\ state[r] = "Syncing"
    /\ Goto(r, "Live")
    /\ SendOps(r, queue[r] \ sent[r])
    /\ sent' = [sent EXCEPT ![r] = queue[r]]
    /\ UNCHANGED <<clock, queue, held, replicaVars>>

Expected(frame, s) ==
    \/ frame.type \in {"HelloAck", "HelloReject"} /\ s = "HelloSent"
    \/ frame.type \in {"Give", "Ops", "Ack"} /\ MaySendOps(s)
    \/ frame.type = "InSync" /\ s = "Syncing"

\* A frame addressed to a state that has no use for it is dropped.
Discard(r) ==
    /\ Consume(r)
    /\ ~Expected(Inbound(r), state[r])
    /\ UNCHANGED <<sessionVars, replicaVars, up>>

Receive(r) ==
    \/ RecvHelloAck(r)
    \/ RecvHelloReject(r)
    \/ RecvOps(r)
    \/ RecvAck(r)
    \/ RecvInSync(r)
    \/ Discard(r)

-----------------------------------------------------------------------------
(* Losing the session.                                                     *)

\* MUTANT of Rebuilt: the fresh session is not told what the log holds.
RebuiltBlank(r) == EmptyClock

\* What a rebuilt session knows: the clock its durable log amounts to.
Rebuilt(r) == ObserveAll(EmptyClock, log[r])

\* Replica::transport_loss for every replica of R.  LIVE and SYNCING take the
\* machine's backoff edge; any other state tears the session down and rebuilds
\* it from the log and the queue.  Either way everything queued is unsent again.
LoseTransport(R) ==
    LET graceful == {r \in R : MaySendOps(state[r])}
        reset    == R \ graceful
    IN  /\ state' = [r \in Actor |-> IF r \in graceful THEN "Backoff"
                                     ELSE IF r \in reset THEN "Disconnected"
                                     ELSE state[r]]
        /\ clock' = [r \in Actor |-> IF r \in reset THEN Rebuilt(r) ELSE clock[r]]
        /\ held' = [r \in Actor |-> IF r \in reset THEN {} ELSE held[r]]
        /\ MarkAllUnsent(R)
        /\ timer' = [r \in Actor |-> timer[r] \/ r \in R]
        /\ UNCHANGED <<queue, log, minted, readOnly>>

\* The process dies and Replica::recover rebuilds it from the durable log and
\* the unacknowledged ops; nothing else survives, and no timer is armed.
Recover(r) ==
    /\ state' = [state EXCEPT ![r] = "Disconnected"]
    /\ clock' = [clock EXCEPT ![r] = Rebuilt(r)]
    /\ held' = [held EXCEPT ![r] = {}]
    /\ MarkAllUnsent({r})
    /\ timer' = [timer EXCEPT ![r] = FALSE]
    /\ readOnly' = [readOnly EXCEPT ![r] = FALSE]
    /\ UNCHANGED <<queue, log, minted>>

\* Event::AuthRevoked, listed for every state.
Revoke(r) ==
    /\ Goto(r, "Disconnected")
    /\ MarkAllUnsent({r})
    /\ UNCHANGED <<clock, queue, held, replicaVars, linkVars>>

\* Event::StalenessExceeded with a gap past the 180-day window.
Staleness(r) ==
    /\ state[r] = "Live"
    /\ Goto(r, "RebaseRequired")
    /\ UNCHANGED <<clock, queue, sent, held, replicaVars, linkVars>>

\* Event::RebaseComplete: a snapshot's ops replaced the local history, so log
\* and clock take them in together; the queue and its sent flags are untouched.
Rebase(r, ops) ==
    /\ state[r] = "RebaseRequired"
    /\ Goto(r, "Syncing")
    /\ log' = [log EXCEPT ![r] = @ \union ops]
    /\ clock' = [clock EXCEPT ![r] = ObserveAll(@, ops)]
    /\ UNCHANGED <<queue, sent, held, minted, timer, readOnly, down>>
    /\ SendNeed(r)
=============================================================================
