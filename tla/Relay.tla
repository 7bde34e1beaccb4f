------------------------------- MODULE Relay -------------------------------
(***************************************************************************)
(* The relay: usk-sync's Relay (retention, admission control, watermark)   *)
(* behind ehkatra-relay's endpoint and its server loop.  One thread serves *)
(* each connection; it handles a frame under the hub lock, queueing the    *)
(* fanout to the other connections before it drops the lock, and takes the *)
(* lock again to queue its replies, so another thread's fanout may reach   *)
(* the sender's connection in between.                                     *)
(*                                                                         *)
(* The token buckets are abstracted to their verdict: any part of a batch  *)
(* may be refused for rate or bytes (large ops fail where small ones pass).*)
(***************************************************************************)
EXTENDS SyncSession

CONSTANTS
    Unsupported   \* replicas whose wire version is outside the N-2 window

ASSUME UnsupportedAssumption == Unsupported \subseteq Actor

VARIABLES
    retained,     \* Relay.retained
    relayClock,   \* Relay.clock, sent out as the watermark
    reply         \* frames a connection's thread has produced and not queued

relayVars == <<retained, relayClock, reply>>

RelayTypeOK ==
    /\ retained \subseteq Op
    /\ relayClock \in Clock
    /\ reply \in [Actor -> Seq(DownFrame)]

RelayInit ==
    /\ retained = {}
    /\ relayClock = EmptyClock
    /\ reply = [r \in Actor |-> <<>>]

-----------------------------------------------------------------------------
\* MUTANT of Connected: fan out only to those who have finished catching up.
OnlyLive == {r \in Actor : state[r] = "Live"}

\* Connections the hub knows: everyone who has said HELLO and not gone away.
Connected == {r \in Actor : state[r] \notin {"Disconnected", "Backoff"}}

Reply(r, frames) == reply' = [reply EXCEPT ![r] = frames]

\* Fan a batch out to every connection but the sender's.
Fanout(r, ops) ==
    down' = [o \in Actor |-> IF o \in Connected \ {r} /\ ops # {}
                               THEN Append(down[o], OpsFrame(ops))
                               ELSE down[o]]

\* Admission: only the principal's own, valid ops, less what the quota refused.
Admitted(r, ops, refused) == {op \in ops : op[1] = r /\ op \notin Invalid \union refused}

\* Only ops not retained before are observed by the relay's clock.
Watermark(fresh) == ObserveAll(relayClock, fresh)

-----------------------------------------------------------------------------
\* A connection's thread takes the next frame once it has queued its replies.
Take(r) == /\ up[r] # <<>>
           /\ reply[r] = <<>>
           /\ up' = [up EXCEPT ![r] = Tail(@)]

HandleHello(r) ==
    /\ Take(r)
    /\ Head(up[r]).type = "Hello"
    /\ Reply(r, <<[type |-> IF r \in Unsupported THEN "HelloReject" ELSE "HelloAck"]>>)
    /\ UNCHANGED <<retained, relayClock, down>>

\* Anti-entropy: exactly what the peer's clock lacks, then "in sync".
Missing(c) == {op \in retained : ~Covers(c, op)}

HandleNeed(r) ==
    /\ Take(r)
    /\ Head(up[r]).type = "Need"
    /\ LET missing == Missing(Head(up[r]).clock)
           give    == IF missing = {} THEN <<>> ELSE <<[type |-> "Give", ops |-> missing]>>
       IN  Reply(r, Append(give, [type |-> "InSync"]))
    /\ UNCHANGED <<retained, relayClock, down>>

Offered(r) == IF up[r] # <<>> /\ Head(up[r]).type = "Ops" THEN Head(up[r]).ops ELSE {}

\* Relay::submit, then the fanout and the ack, which is sent even when nothing
\* was admitted.
HandleOps(r, refused) ==
    /\ Take(r)
    /\ Head(up[r]).type = "Ops"
    /\ refused \subseteq Head(up[r]).ops
    /\ LET admitted == Admitted(r, Head(up[r]).ops, refused)
           fresh    == admitted \ retained
       IN  /\ retained' = retained \union fresh
           /\ relayClock' = Watermark(fresh)
           /\ Fanout(r, admitted)
    /\ Reply(r, <<[type |-> "Ack", clock |-> relayClock']>>)

\* The second critical section: the replies join the connection's out-queue.
FlushReply(r) ==
    /\ reply[r] # <<>>
    /\ down' = [down EXCEPT ![r] = @ \o reply[r]]
    /\ reply' = [reply EXCEPT ![r] = <<>>]
    /\ UNCHANGED <<retained, relayClock, up>>
=============================================================================
