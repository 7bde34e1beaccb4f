----------------------------- MODULE SyncSystem -----------------------------
(***************************************************************************)
(* Replicas, their links and the relay, composed, with the failures the    *)
(* code handles: a link that dies with frames in flight, a replica process *)
(* that is killed and recovers from its log, a relay process that restarts *)
(* (it keeps everything in memory), quota refusals, revocation and rebase. *)
(***************************************************************************)
EXTENDS Relay, FiniteSetsExt

CONSTANTS
    FaultLimit,   \* bound: how many faults of each kind a behaviour may have
    MaxFaults     \* bound: how many faults of all kinds together

FaultKind == {"loss", "crash", "restart", "refuse", "revoke", "stale"}

ASSUME FaultLimitAssumption == FaultLimit \in [FaultKind -> Nat]
ASSUME MaxFaultsAssumption == MaxFaults \in Nat

VARIABLES faults  \* faults so far, by kind

vars == <<sessionVars, replicaVars, linkVars, relayVars, faults>>

TypeOK == /\ SessionTypeOK
          /\ RelayTypeOK
          /\ faults \in [FaultKind -> Nat]

Init == /\ SessionInit
        /\ RelayInit
        /\ faults = [k \in FaultKind |-> 0]

\* Faults of all kinds so far.
FaultCount == MapThenSumSet(LAMBDA k : faults[k], FaultKind)

Fault(k) == /\ faults[k] < FaultLimit[k]
            /\ FaultCount < MaxFaults
            /\ faults' = [faults EXCEPT ![k] = @ + 1]

Prefixes(s) == {SubSeq(s, 1, n) : n \in 0..Len(s)}

-----------------------------------------------------------------------------
(* Normal operation.                                                       *)

ReplicaStep(r) ==
    /\ \/ Connect(r)
       \/ Resume(r)
       \/ Edit(r)
       \/ Receive(r)
    /\ UNCHANGED <<relayVars, faults>>

RelayStep(r) ==
    /\ \/ HandleHello(r)
       \/ HandleNeed(r)
       \/ HandleOps(r, {})
       \/ FlushReply(r)
    /\ UNCHANGED <<sessionVars, replicaVars, faults>>

-----------------------------------------------------------------------------
(* Faults.                                                                 *)

\* The quota refuses part of the batch the relay is handling.
Refuse(r) ==
    /\ Fault("refuse")
    /\ \E refused \in SUBSET Offered(r) \ {{}} : HandleOps(r, refused)
    /\ UNCHANGED <<sessionVars, replicaVars>>

\* The link dies: a prefix of what was in flight may still arrive.
Break(r) ==
    /\ Fault("loss")
    /\ state[r] # "Disconnected"
    /\ LoseTransport({r})
    /\ \E f \in Prefixes(up[r]) : up' = [up EXCEPT ![r] = f]
    /\ \E f \in Prefixes(down[r]) : down' = [down EXCEPT ![r] = f]
    /\ reply' = [reply EXCEPT ![r] = <<>>]
    /\ UNCHANGED <<retained, relayClock>>

\* A replica process is killed; its socket dies with it, but frames it had
\* written may still be read by the relay.
Crash(r) ==
    /\ Fault("crash")
    /\ Recover(r)
    /\ \E f \in Prefixes(up[r]) : up' = [up EXCEPT ![r] = f]
    /\ down' = [down EXCEPT ![r] = <<>>]
    /\ reply' = [reply EXCEPT ![r] = <<>>]
    /\ UNCHANGED <<retained, relayClock>>

\* The relay process restarts empty and every open connection dies.
Restart ==
    /\ Fault("restart")
    /\ retained' = {}
    /\ relayClock' = EmptyClock
    /\ reply' = [r \in Actor |-> <<>>]
    /\ LoseTransport(Connected)
    /\ up' = [r \in Actor |-> <<>>]
    /\ down' = [r \in Actor |-> <<>>]

RevokeAuth(r) ==
    /\ Fault("revoke")
    /\ Revoke(r)
    /\ UNCHANGED relayVars

GoStale(r) ==
    /\ Fault("stale")
    /\ Staleness(r)
    /\ UNCHANGED relayVars

\* The shell has no snapshot service yet: the snapshot is what the relay holds
\* contiguously, which is what a compacted snapshot at its watermark contains.
CompleteRebase(r) ==
    /\ Rebase(r, Claimed(relayClock))
    /\ UNCHANGED <<relayVars, faults>>

Next ==
    \/ Restart
    \/ \E r \in Actor :
         \/ ReplicaStep(r)
         \/ RelayStep(r)
         \/ Refuse(r)
         \/ Break(r)
         \/ Crash(r)
         \/ RevokeAuth(r)
         \/ GoStale(r)
         \/ CompleteRebase(r)

Spec == Init /\ [][Next]_vars

\* Event loops run: frames are read and handled, replies are queued, armed
\* timers fire, and a started process connects.  Edits and faults are not fair.
Fairness ==
    \A r \in Actor :
        /\ WF_vars(Resume(r) /\ UNCHANGED <<relayVars, faults>>)
        /\ WF_vars(Connect(r) /\ UNCHANGED <<relayVars, faults>>)
        /\ WF_vars(Receive(r) /\ UNCHANGED <<relayVars, faults>>)
        /\ WF_vars(RelayStep(r))

FairSpec == Spec /\ Fairness

-----------------------------------------------------------------------------
(* What must hold.                                                         *)

\* Never-drop (docs/15, docs/27): an op some replica minted is in its author's
\* queue or retained by the relay, whatever links, processes and quotas do.
\* Does not survive a relay restart: the hub keeps retained ops in memory only.
NeverDrop ==
    \A a \in Actor : \A n \in 1..minted[a] : <<a, n>> \in queue[a] \union retained

\* A session's vector clock and its replica's log say the same thing, through
\* reordering, holes, teardown and recovery: the log holds exactly the ops the
\* clock claims.  NEED, GIVE and echo suppression all read the clock only.
ClockIsLog == \A r \in Actor : log[r] = Claimed(clock[r])

\* A replica never runs ahead of the author: what it holds of another actor is
\* a prefix of what that actor minted, and of its own work it holds everything.
PrefixOfAuthor ==
    \A r, a \in Actor :
        /\ clock[r][a] <= minted[a]
        /\ clock[r][r] = minted[r]

Quiet(r) == state[r] = "Live" /\ up[r] = <<>> /\ down[r] = <<>> /\ reply[r] = <<>>

CaughtUp(r) == \A a \in Actor : relayClock[a] <= clock[r][a]

\* A link that has gone quiet in LIVE hides nothing: the replica has every op
\* the relay's clock claims.  Only while a catch-up fits the causal buffer,
\* which drops what it has no room for.
QuietMeansCaughtUp ==
    Cardinality(Op) <= BufferLimit => \A r \in Actor : Quiet(r) => CaughtUp(r)

\* Nor does it forget local work: unless the relay refused an op (for quota or
\* as invalid) or restarted, or the replica went through a rebase (which leaves
\* the sent flags as they are), a quiet LIVE replica has had all it authored
\* acknowledged.
QuietMeansDrained ==
    Invalid = {} /\ faults["refuse"] + faults["restart"] + faults["stale"] = 0 =>
        \A r \in Actor : Quiet(r) => queue[r] = {}

\* Nothing a version-incompatible replica authored gets past its HELLO.
NoOpsBeforeHelloAck == \A op \in retained : op[1] \notin Unsupported

\* Once faults and edits stop, every log holds every op and every queue is empty.
Converged == \A r \in Actor : /\ log[r] = UNION {{<<a, n>> : n \in 1..minted[a]} : a \in Actor}
                              /\ queue[r] = {}
Convergence == <>[]Converged

=============================================================================
