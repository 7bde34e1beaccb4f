---------------------------- MODULE SyncInvariant ----------------------------
(***************************************************************************)
(* The inductive invariant behind SyncSystem's safety properties, and the  *)
(* mapping onto OpStream.                                                  *)
(***************************************************************************)
EXTENDS SyncSystem

Minted == {op \in Op : op[2] <= minted[op[1]]}

\* Everything the relay retains, queues keep and gap buffers hold was authored.
OnlyMinted ==
    /\ retained \subseteq Minted
    /\ \A r \in Actor : held[r] \union queue[r] \subseteq Minted

\* The relay's clock claims only ops the relay retains.
WatermarkHonest == Claimed(relayClock) \subseteq retained

\* A frame carries only authored ops, and as an acknowledgement claims no more
\* than the relay still does.
Honest(frame) ==
    /\ frame.type \in {"Ops", "Give"} => frame.ops \subseteq Minted
    /\ frame.type = "Ack" => \A a \in Actor : frame.clock[a] <= relayClock[a]

InFlight(r) == Range(up[r]) \union Range(down[r]) \union Range(reply[r])

WireHonest == \A r \in Actor : \A frame \in InFlight(r) : Honest(frame)

\* Inductive whatever fails.
StreamInv ==
    /\ TypeOK
    /\ ClockIsLog
    /\ PrefixOfAuthor
    /\ OnlyMinted
    /\ WatermarkHonest
    /\ WireHonest

\* Inductive while the relay process lives.
IInv == StreamInv /\ NeverDrop

\* A NEED on the wire asks for no more than its sender still lacks.
NeedsHonest ==
    \A r \in Actor : \A frame \in Range(up[r]) :
        frame.type = "Need" => \A a \in Actor : frame.clock[a] <= clock[r][a]

\* Ops the relay has put on their way to r.
Coming(r) == UNION {frame.ops : frame \in {f \in Range(down[r]) \union Range(reply[r]) :
                                             f.type \in {"Ops", "Give"}}}

\* Ops r holds behind a hole.
Waiting(r) == {op \in held[r] : op[2] # clock[r][op[1]] + 1}

\* What the relay's clock claims and r lacks is in r's hands, on its way, or
\* about to be asked for.
Fed(r) ==
    \/ \E frame \in Range(up[r]) : frame.type = "Need"
    \/ Claimed(relayClock) \subseteq Claimed(clock[r]) \union Waiting(r) \union Coming(r)

\* Inductive while a catch-up fits the causal buffer.
FeedInv ==
    /\ StreamInv
    /\ retained \intersect Invalid = {}
    /\ NeedsHonest
    /\ \A r \in Actor : MaySendOps(state[r]) => Fed(r)

\* No op was refused, the relay has not restarted and no replica went stale.
Clean == Invalid = {} /\ faults["refuse"] + faults["restart"] + faults["stale"] = 0

\* The relay has answered, or is about to answer, for the op.
Answered(r, op) == \E frame \in Range(down[r]) \union Range(reply[r]) :
                       frame.type = "Ack" /\ Covers(frame.clock, op)

\* The ops the first i frames of an uplink offer.
OpsAmong(frames, i) == UNION {frames[j].ops : j \in {k \in 1..i : frames[k].type = "Ops"}}

\* Frames offer r's own stream without holes: what comes before an op is kept
\* by the relay already, or offered no later.
Gapless(r, frames, kept) ==
    \A i \in 1..Len(frames) : frames[i].type = "Ops" =>
        \A op \in frames[i].ops :
            /\ op[1] = r
            /\ \A n \in 1..op[2] : <<r, n>> \in kept \union OpsAmong(frames, i)

\* A queue holds the replica's own ops, and marks as sent only what it holds
\* and has a session to send it on.
QueueInv(r) ==
    /\ \A op \in queue[r] : op[1] = r
    /\ sent[r] \subseteq queue[r]
    /\ ~MaySendOps(state[r]) => sent[r] = {}
    /\ state[r] = "Live" => sent[r] = queue[r]

\* What a queue marks as sent is still to be handled or still to be answered.
SentIsPending(r) ==
    \A op \in sent[r] : op \in OpsAmong(up[r], Len(up[r])) \/ Answered(r, op)

InOrder(r) == QueueInv(r) /\ SentIsPending(r) /\ Gapless(r, up[r], retained)

\* What a clean run keeps: the relay retains whole runs, and every session is
\* in order.
DrainOK ==
    /\ NeverDrop
    /\ retained = Claimed(relayClock)
    /\ \A r \in Actor : InOrder(r)

\* Inductive in a clean run.
DrainInv == StreamInv /\ (Clean => DrainOK)

\* An unsupported replica is never let in: it waits for an answer that is not
\* a HELLO_ACK, and says nothing but HELLO.
ShutOut(u) ==
    /\ state[u] \in {"Disconnected", "HelloSent", "Incompatible"}
    /\ \A frame \in Range(up[u]) : frame.type = "Hello"
    /\ \A frame \in Range(down[u]) \union Range(reply[u]) : frame.type # "HelloAck"

Streams == INSTANCE OpStream WITH have <- clock

\* Every behaviour of the protocol delivers per-actor streams: an editor sees
\* each author's ops as a prefix that only grows, own edits at once, whatever
\* frames, buffers, queues, crashes and the relay do underneath.
DeliversStreams == Streams!Spec
=============================================================================
