------------------------------- MODULE Pacing -------------------------------
(***************************************************************************)
(* How fast one replica may talk to the relay: the replica's own delay     *)
(* between connections (usk-sync's machine, ehkatra-relay's Replica) and   *)
(* the relay's token buckets for it (usk-sync's relay), over one clock.    *)
(* What is said on the connection is SyncSystem's business.                *)
(*                                                                         *)
(* A connection's thread reads the clock before it takes the hub lock, so  *)
(* a submission may carry a time up to MaxLag old, and times may go back   *)
(* between two submissions.  A batch is its ops one after the other: a     *)
(* second refill at the same time changes nothing.                         *)
(***************************************************************************)
EXTENDS Integers

CONSTANTS
    Second,         \* clock units in a second (1000)
    RateOps,        \* RATE_OPS_PER_SEC
    BurstOps,       \* RATE_BURST_OPS
    RateBytes,      \* RATE_BYTES_PER_SEC
    BurstBytes,     \* RATE_BURST_BYTES
    Sizes,          \* encoded sizes of ops
    MaxLag,         \* greatest age of a submission's time (an assumption)
    BaseDelay,      \* BACKOFF_BASE_MS
    CapDelay,       \* BACKOFF_CAP_MS
    MaxShift,       \* greatest exponent of the backoff
    ResetDelay,     \* RESET_BACKOFF_MS
    ResetSpread,    \* values of the seed it is varied by
    MaxTime         \* bound: time passed

ASSUME PacingAssumption ==
    /\ Second \in Nat \ {0}
    /\ RateOps \in Nat /\ BurstOps \in Nat
    /\ RateBytes \in Nat /\ BurstBytes \in Nat
    /\ Sizes \subseteq Nat
    /\ MaxLag \in Nat

ASSUME DelayAssumption ==
    /\ BaseDelay \in Nat /\ CapDelay \in Nat /\ BaseDelay <= CapDelay
    /\ MaxShift \in Nat
    /\ ResetDelay \in Nat /\ BaseDelay <= ResetDelay
    /\ ResetSpread \subseteq Nat

VARIABLES
    now,        \* the clock
    opBucket,   \* Peer.rate: [tokens, last]
    byteBucket, \* Peer.bytes
    window,     \* a stretch an observer watches: its start, what was admitted since
    link,       \* SyncState
    attempt,    \* backoff_attempt
    retry,      \* retry_at_ms as time left, or NoTimer
    hello       \* when the last HELLO went out, or Never

bucketVars == <<opBucket, byteBucket, window>>
paceVars == <<link, attempt, retry, hello>>
pacingVars == <<now, bucketVars, paceVars>>

NoTimer == -1
Never == -1

-----------------------------------------------------------------------------
(* Token buckets.                                                          *)

Bucket(burst) == [tokens |-> burst, last |-> 0]

Least(x, y) == IF x <= y THEN x ELSE y

\* MUTANT of Earned: rounded up.
EarnedRoundedUp(bucket, rate, at) ==
    ((at - bucket.last) * rate + Second - 1) \div Second

\* Whole tokens for the time passed since the last refill; the rest is lost.
Earned(bucket, rate, at) == ((at - bucket.last) * rate) \div Second

\* MUTANT of Refill: a time that went back moves the bucket's clock back.
RefillBackwards(bucket, rate, burst, at) ==
    [tokens |-> IF at <= bucket.last THEN bucket.tokens
                ELSE Least(bucket.tokens + Earned(bucket, rate, at), burst),
     last |-> at]

\* MUTANT of Refill: the burst does not cap it.
RefillUncapped(bucket, rate, burst, at) ==
    IF at <= bucket.last THEN bucket
    ELSE [tokens |-> bucket.tokens + Earned(bucket, rate, at), last |-> at]

Refill(bucket, rate, burst, at) ==
    IF at <= bucket.last THEN bucket
    ELSE [tokens |-> Least(bucket.tokens + Earned(bucket, rate, at), burst), last |-> at]

Has(bucket, n) == bucket.tokens >= n

Spend(bucket, n) == [bucket EXCEPT !.tokens = @ - n]

-----------------------------------------------------------------------------
(* The relay admits one op (submit): an impostor's costs nothing, one too  *)
(* many bytes has cost its op token, an invalid one has cost both.         *)

Submit(size, at, own, valid) ==
    /\ link \in {"Syncing", "Live"}
    /\ LET o == Refill(opBucket, RateOps, BurstOps, at)
           b == Refill(byteBucket, RateBytes, BurstBytes, at)
           rated == own /\ Has(o, 1)
           paid == rated /\ Has(b, size)
       IN /\ opBucket' = IF rated THEN Spend(o, 1) ELSE o
          /\ byteBucket' = IF paid THEN Spend(b, size) ELSE b
          /\ window' = IF paid /\ valid
                       THEN [window EXCEPT !.ops = @ + 1, !.bytes = @ + size]
                       ELSE window
    /\ UNCHANGED <<now, paceVars>>

-----------------------------------------------------------------------------
(* The replica's connection.                                               *)

\* enter_backoff: doubled per failure up to the cap, then a quarter either
\* way, and the cap again.  Any residue of the jitter may come up.
Doubled(n) == Least(BaseDelay * 2 ^ Least(n, MaxShift), CapDelay)

\* MUTANT of Delays: jitter from nothing to the whole base.
DelaysFullJitter(n) == 0 .. Doubled(n)

Delays(n) ==
    LET base == Doubled(n)
        spread == base \div 2
        from == base - spread \div 2
    IN {Least(d, CapDelay) : d \in from .. from + (IF spread = 0 THEN 0 ELSE spread - 1)}

\* HELLO goes out, by connect, by the timer of a rebuilt session or by the
\* timer of a backoff.
SayHello ==
    /\ link' = "HelloSent"
    /\ retry' = NoTimer
    /\ hello' = now
    /\ UNCHANGED <<now, attempt, bucketVars>>

FirstHello == link = "Disconnected" /\ hello = Never /\ SayHello

RetryHello ==
    /\ retry = 0
    /\ link \in {"Disconnected", "Backoff"}
    /\ SayHello

HelloAck ==
    /\ link = "HelloSent"
    /\ link' = "Syncing"
    /\ UNCHANGED <<now, attempt, retry, hello, bucketVars>>

InSync ==
    /\ link = "Syncing"
    /\ link' = "Live"
    /\ attempt' = 0
    /\ UNCHANGED <<now, retry, hello, bucketVars>>

\* transport_loss where the machine has the edge.
Lose ==
    /\ link \in {"Syncing", "Live"}
    /\ link' = "Backoff"
    /\ retry' \in Delays(attempt)
    /\ attempt' = attempt + 1
    /\ UNCHANGED <<now, hello, bucketVars>>

\* transport_loss anywhere else: a session from the beginning.
HardReset ==
    /\ hello # Never
    /\ link \in {"HelloSent", "Backoff", "Disconnected"}
    /\ link' = "Disconnected"
    /\ attempt' = 0
    /\ retry' \in {ResetDelay + s : s \in ResetSpread}
    /\ UNCHANGED <<now, hello, bucketVars>>

-----------------------------------------------------------------------------
PacingInit ==
    /\ now = 0
    /\ opBucket = Bucket(BurstOps)
    /\ byteBucket = Bucket(BurstBytes)
    /\ window = [from |-> 0, ops |-> 0, bytes |-> 0]
    /\ link = "Disconnected" /\ attempt = 0 /\ retry = NoTimer /\ hello = Never

\* A timer that is due may fire late, never early.
Pass ==
    /\ now < MaxTime
    /\ now' = now + 1
    /\ retry' = IF retry > 0 THEN retry - 1 ELSE retry
    /\ UNCHANGED <<bucketVars, link, attempt, hello>>

\* The observer starts to watch.
Watch ==
    /\ window' = [from |-> now, ops |-> 0, bytes |-> 0]
    /\ UNCHANGED <<now, opBucket, byteBucket, paceVars>>

PacingNext ==
    \/ \E size \in Sizes, at \in now - MaxLag .. now, own, valid \in BOOLEAN :
            at >= 0 /\ Submit(size, at, own, valid)
    \/ FirstHello
    \/ RetryHello
    \/ HelloAck
    \/ InSync
    \/ Lose
    \/ HardReset
    \/ Pass
    \/ Watch

PacingSpec == PacingInit /\ [][PacingNext]_pacingVars

-----------------------------------------------------------------------------
(* Properties.                                                             *)

BucketOK(bucket, burst) ==
    /\ bucket.tokens \in 0 .. burst
    /\ bucket.last \in 0 .. now

PacingTypeOK ==
    /\ now \in Nat
    /\ BucketOK(opBucket, BurstOps) /\ BucketOK(byteBucket, BurstBytes)
    /\ window.from \in 0 .. now /\ window.ops \in Nat /\ window.bytes \in Nat
    /\ retry \in Nat \union {NoTimer}

\* In any stretch of time no more is admitted than the burst and the sustained
\* rate allow, however submissions are timed and though their times lag
\* (relay.rs: "per second an actor may sustain", "burst depth").
Held(admitted, rate, burst) ==
    Second * admitted <= Second * burst + rate * (now - window.from + MaxLag)
RateHeld == Held(window.ops, RateOps, BurstOps)
BytesHeld == Held(window.bytes, RateBytes, BurstBytes)

\* A flapping link never reconnects in a tight loop, whichever of the two ways
\* back each loss takes: three quarters of the base pass between two HELLOs
\* (replica.rs hard_reset, machine.rs enter_backoff).
HellosSpaced ==
    [][hello # Never /\ link # "HelloSent" /\ link' = "HelloSent"
        => 4 * (now - hello) >= 3 * BaseDelay]_pacingVars
=============================================================================
