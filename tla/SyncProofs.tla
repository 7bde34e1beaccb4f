----------------------------- MODULE SyncProofs -----------------------------
(***************************************************************************)
(* Proofs about SyncSystem for any set of replicas, any number of ops, any *)
(* buffer bound and any number of faults: typing, the streams invariant    *)
(* and its refinement of OpStream, never-drop while the relay lives, what  *)
(* a link gone quiet means, and the version window.  The first sections    *)
(* say what each way of putting frames on a link, or taking them off, does *)
(* to the frames in flight, and what clocks claim after observing ops.     *)
(***************************************************************************)
EXTENDS SyncInvariant, Pacing, SequenceTheorems, FiniteSetTheorems, WellFoundedInduction, TLAPS

-----------------------------------------------------------------------------
(* Ranges of sequences.                                                    *)

\* The empty link carries no frame.
LEMMA RangeEmpty == Range(<<>>) = {}
  BY DEF Range

\* Sending appends: a link carries one frame more.
LEMMA RangeAppend ==
    ASSUME NEW S, NEW s \in Seq(S), NEW e \in S
    PROVE  /\ Append(s, e) \in Seq(S)
           /\ Range(Append(s, e)) \subseteq Range(s) \union {e}
<1>1. /\ Append(s, e) \in Seq(S)
      /\ DOMAIN Append(s, e) = 1..Len(s) + 1
      /\ DOMAIN s = 1..Len(s)
      /\ Len(s) \in Nat
  OBVIOUS
<1>2. \A i \in 1..Len(s) + 1 : Append(s, e)[i] = IF i <= Len(s) THEN s[i] ELSE e
  OBVIOUS
<1> QED
  BY <1>1, <1>2 DEF Range

\* Receiving consumes: no frame is left that was not there.
LEMMA RangeTail ==
    ASSUME NEW S, NEW s \in Seq(S), s # <<>>
    PROVE  /\ Tail(s) \in Seq(S)
           /\ Range(Tail(s)) \subseteq Range(s)
           /\ Head(s) \in S
           /\ Head(s) \in Range(s)
<1>1. /\ Tail(s) \in Seq(S)
      /\ Head(s) \in S
      /\ Len(Tail(s)) = Len(s) - 1
      /\ \A i \in 1..Len(Tail(s)) : Tail(s)[i] = s[i + 1]
  BY HeadTailProperties
<1>2. Len(s) \in Nat \ {0} /\ DOMAIN s = 1..Len(s) /\ DOMAIN Tail(s) = 1..Len(Tail(s))
  BY <1>1, EmptySeq, LenProperties
<1>3. Head(s) = s[1]
  OBVIOUS
<1>4. Head(s) \in Range(s)
  BY <1>2, <1>3 DEF Range
<1>5. \A i \in 1..Len(Tail(s)) : i + 1 \in 1..Len(s)
  BY <1>1, <1>2
<1> QED
  BY <1>1, <1>2, <1>4, <1>5 DEF Range

\* Queueing replies: the out-queue carries its own frames and the replies.
LEMMA RangeConcat ==
    ASSUME NEW S, NEW s \in Seq(S), NEW t \in Seq(S)
    PROVE  /\ s \o t \in Seq(S)
           /\ Range(s \o t) \subseteq Range(s) \union Range(t)
<1>1. /\ s \o t \in Seq(S)
      /\ Len(s \o t) = Len(s) + Len(t)
      /\ \A i \in 1..Len(s) + Len(t) : (s \o t)[i] = IF i <= Len(s) THEN s[i] ELSE t[i - Len(s)]
  BY ConcatProperties
<1>2. /\ DOMAIN (s \o t) = 1..Len(s) + Len(t)
      /\ DOMAIN s = 1..Len(s) /\ DOMAIN t = 1..Len(t)
      /\ Len(s) \in Nat /\ Len(t) \in Nat
  BY <1>1, LenProperties
<1>3. ASSUME NEW i \in 1..Len(s) + Len(t)
      PROVE  (s \o t)[i] \in Range(s) \union Range(t)
  <2>1. CASE i <= Len(s)
    BY <1>1, <1>2, <2>1 DEF Range
  <2>2. CASE ~ (i <= Len(s))
    <3>1. i - Len(s) \in 1..Len(t)
      BY <1>2, <2>2
    <3> QED
      BY <1>1, <1>2, <2>2, <3>1 DEF Range
  <2> QED
    BY <2>1, <2>2
<1> QED
  BY <1>1, <1>2, <1>3 DEF Range

\* A link cut short carries no frame it did not carry before.
LEMMA RangePrefix ==
    ASSUME NEW S, NEW s \in Seq(S), NEW t \in Prefixes(s)
    PROVE  /\ t \in Seq(S)
           /\ Range(t) \subseteq Range(s)
<1>1. PICK n \in 0..Len(s) : t = SubSeq(s, 1, n)
  BY DEF Prefixes
<1>2. Len(s) \in Nat /\ DOMAIN s = 1..Len(s) /\ n \in Int /\ 1 \in Int
  BY LenProperties
<1>3. \A i \in 1..n : s[i] \in S
  BY <1>2, ElementOfSeq
<1>4. /\ t \in Seq(S)
      /\ Len(t) = n
      /\ \A i \in 1..n : t[i] = s[i]
  BY <1>1, <1>2, <1>3, SubSeqProperties
<1>5. DOMAIN t = 1..n
  BY <1>4, LenProperties
<1> QED
  BY <1>2, <1>4, <1>5 DEF Range

\* Sending keeps what was in flight.
LEMMA RangeAppendKeeps ==
    ASSUME NEW S, NEW s \in Seq(S), NEW e \in S
    PROVE  Range(s) \union {e} \subseteq Range(Append(s, e))
<1>1. /\ DOMAIN Append(s, e) = 1..Len(s) + 1
      /\ DOMAIN s = 1..Len(s)
      /\ Len(s) \in Nat
  OBVIOUS
<1>2. \A i \in 1..Len(s) + 1 : Append(s, e)[i] = IF i <= Len(s) THEN s[i] ELSE e
  OBVIOUS
<1>3. Append(s, e)[Len(s) + 1] = e /\ Len(s) + 1 \in 1..Len(s) + 1
  BY <1>1, <1>2
<1>4. \A i \in 1..Len(s) : i \in 1..Len(s) + 1 /\ Append(s, e)[i] = s[i]
  BY <1>1, <1>2
<1> QED
  BY <1>1, <1>3, <1>4 DEF Range

\* Receiving takes only the oldest frame.
LEMMA RangeTailKeeps ==
    ASSUME NEW S, NEW s \in Seq(S), s # <<>>
    PROVE  Range(s) \subseteq Range(Tail(s)) \union {Head(s)}
<1>1. /\ Len(Tail(s)) = Len(s) - 1
      /\ \A i \in 1..Len(Tail(s)) : Tail(s)[i] = s[i + 1]
      /\ Tail(s) \in Seq(S)
  BY HeadTailProperties
<1>2. Len(s) \in Nat \ {0} /\ DOMAIN s = 1..Len(s) /\ DOMAIN Tail(s) = 1..Len(Tail(s))
  BY <1>1, EmptySeq, LenProperties
<1>3. Head(s) = s[1]
  OBVIOUS
<1>4. ASSUME NEW i \in 1..Len(s), i # 1
      PROVE  i - 1 \in 1..Len(Tail(s)) /\ Tail(s)[i - 1] = s[i]
  <2>1. i - 1 \in 1..Len(Tail(s)) /\ (i - 1) + 1 = i
    BY <1>1, <1>2, <1>4
  <2> QED
    BY <1>1, <2>1
<1> QED
  BY <1>2, <1>3, <1>4 DEF Range

\* Queueing replies keeps what was queued and adds every reply.
LEMMA RangeConcatKeeps ==
    ASSUME NEW S, NEW s \in Seq(S), NEW t \in Seq(S)
    PROVE  Range(s) \union Range(t) \subseteq Range(s \o t)
<1>1. /\ s \o t \in Seq(S)
      /\ Len(s \o t) = Len(s) + Len(t)
      /\ \A i \in 1..Len(s) + Len(t) : (s \o t)[i] = IF i <= Len(s) THEN s[i] ELSE t[i - Len(s)]
  BY ConcatProperties
<1>2. /\ DOMAIN (s \o t) = 1..Len(s) + Len(t)
      /\ DOMAIN s = 1..Len(s) /\ DOMAIN t = 1..Len(t)
      /\ Len(s) \in Nat /\ Len(t) \in Nat
  BY <1>1, LenProperties
<1>3. \A i \in 1..Len(s) : i \in 1..Len(s) + Len(t) /\ (s \o t)[i] = s[i]
  BY <1>1, <1>2
<1>4. ASSUME NEW i \in 1..Len(t)
      PROVE  i + Len(s) \in 1..Len(s) + Len(t) /\ (s \o t)[i + Len(s)] = t[i]
  <2>1. i + Len(s) \in 1..Len(s) + Len(t) /\ ~(i + Len(s) <= Len(s)) /\ (i + Len(s)) - Len(s) = i
    BY <1>2
  <2> QED
    BY <1>1, <2>1
<1> QED
  BY <1>2, <1>3, <1>4 DEF Range

-----------------------------------------------------------------------------
(* Frames.                                                                 *)

\* An OPS frame may travel either way: replicas offer it, the relay fans it out.
LEMMA OpsFrameType ==
    ASSUME NEW ops \in SUBSET Op
    PROVE  OpsFrame(ops) \in UpFrame /\ OpsFrame(ops) \in DownFrame
  BY DEF OpsFrame, UpFrame, DownFrame

\* What the relay may read of an inbound frame.
LEMMA UpFrameFields ==
    ASSUME NEW f \in UpFrame
    PROVE  /\ f.type = "Need" => f.clock \in Clock
           /\ f.type = "Ops" => f.ops \in SUBSET Op
  BY DEF UpFrame

\* What a replica may read of an inbound frame.
LEMMA DownFrameFields ==
    ASSUME NEW f \in DownFrame
    PROVE  /\ f.type = "Ack" => f.clock \in Clock
           /\ f.type \in {"Ops", "Give"} => f.ops \in SUBSET Op
  BY DEF DownFrame

-----------------------------------------------------------------------------
(* Steps on the links.                                                     *)

\* Send puts one frame on the replica's own link and nothing else anywhere.
LEMMA SendWire ==
    ASSUME up \in [Actor -> Seq(UpFrame)], NEW r \in Actor, NEW frame \in UpFrame,
           Send(r, frame)
    PROVE  /\ up' \in [Actor -> Seq(UpFrame)]
           /\ \A x \in Actor : Range(up'[x]) \subseteq Range(up[x]) \union {frame}
<1>1. Append(up[r], frame) \in Seq(UpFrame)
      /\ Range(Append(up[r], frame)) \subseteq Range(up[r]) \union {frame}
  BY RangeAppend
<1> QED
  BY <1>1 DEF Send

\* SendOps puts at most one OPS frame on the link.
LEMMA SendOpsWire ==
    ASSUME up \in [Actor -> Seq(UpFrame)], NEW r \in Actor, NEW ops \in SUBSET Op,
           SendOps(r, ops)
    PROVE  /\ up' \in [Actor -> Seq(UpFrame)]
           /\ \A x \in Actor : Range(up'[x]) \subseteq Range(up[x]) \union {OpsFrame(ops)}
  BY SendWire, OpsFrameType DEF SendOps

\* A replica reading its oldest frame reads a frame that was in flight to it
\* and leaves only frames that were.
LEMMA ConsumeWire ==
    ASSUME down \in [Actor -> Seq(DownFrame)], NEW r \in Actor, Consume(r)
    PROVE  /\ down' \in [Actor -> Seq(DownFrame)]
           /\ \A x \in Actor : Range(down'[x]) \subseteq Range(down[x])
           /\ Inbound(r) \in DownFrame
           /\ Inbound(r) \in Range(down[r])
<1>1. down[r] \in Seq(DownFrame) /\ down[r] # <<>>
  BY DEF Consume
<1>2. Tail(down[r]) \in Seq(DownFrame) /\ Range(Tail(down[r])) \subseteq Range(down[r])
  BY <1>1, RangeTail
<1>3. Head(down[r]) \in DownFrame /\ Head(down[r]) \in Range(down[r])
  BY <1>1, RangeTail
<1> QED
  BY <1>2, <1>3 DEF Consume, Inbound

\* The same of the relay's connection thread.
LEMMA TakeWire ==
    ASSUME up \in [Actor -> Seq(UpFrame)], NEW r \in Actor, Take(r)
    PROVE  /\ up' \in [Actor -> Seq(UpFrame)]
           /\ \A x \in Actor : Range(up'[x]) \subseteq Range(up[x])
           /\ Head(up[r]) \in UpFrame
           /\ Head(up[r]) \in Range(up[r])
<1>1. up[r] \in Seq(UpFrame) /\ up[r] # <<>>
  BY DEF Take
<1>2. Tail(up[r]) \in Seq(UpFrame) /\ Range(Tail(up[r])) \subseteq Range(up[r])
  BY <1>1, RangeTail
<1>3. Head(up[r]) \in UpFrame /\ Head(up[r]) \in Range(up[r])
  BY <1>1, RangeTail
<1> QED
  BY <1>2, <1>3 DEF Take

\* A connection's replies replace no other connection's.
LEMMA ReplyWire ==
    ASSUME reply \in [Actor -> Seq(DownFrame)], NEW r \in Actor,
           NEW frames \in Seq(DownFrame), Reply(r, frames)
    PROVE  /\ reply' \in [Actor -> Seq(DownFrame)]
           /\ \A x \in Actor : Range(reply'[x]) \subseteq Range(reply[x]) \union Range(frames)
  BY DEF Reply

\* Fanout adds to a connection's queue nothing but the batch.
LEMMA FanoutWire ==
    ASSUME down \in [Actor -> Seq(DownFrame)], NEW r \in Actor, NEW ops \in SUBSET Op,
           Fanout(r, ops)
    PROVE  /\ down' \in [Actor -> Seq(DownFrame)]
           /\ \A x \in Actor : Range(down'[x]) \subseteq Range(down[x]) \union {OpsFrame(ops)}
<1>1. OpsFrame(ops) \in DownFrame
  BY OpsFrameType
<1>2. ASSUME NEW x \in Actor
      PROVE  /\ Append(down[x], OpsFrame(ops)) \in Seq(DownFrame)
             /\ Range(Append(down[x], OpsFrame(ops))) \subseteq Range(down[x]) \union {OpsFrame(ops)}
  BY <1>1, RangeAppend
<1> QED
  BY <1>2 DEF Fanout

\* Flushing moves replies to the out-queue: nothing new is in flight.
LEMMA FlushWire ==
    ASSUME down \in [Actor -> Seq(DownFrame)], reply \in [Actor -> Seq(DownFrame)],
           NEW r \in Actor, FlushReply(r)
    PROVE  /\ down' \in [Actor -> Seq(DownFrame)]
           /\ reply' \in [Actor -> Seq(DownFrame)]
           /\ \A x \in Actor : /\ Range(down'[x]) \subseteq Range(down[x]) \union Range(reply[x])
                               /\ Range(reply'[x]) \subseteq Range(reply[x])
<1>1. /\ down[r] \o reply[r] \in Seq(DownFrame)
      /\ Range(down[r] \o reply[r]) \subseteq Range(down[r]) \union Range(reply[r])
  BY RangeConcat
<1>2. <<>> \in Seq(DownFrame) /\ Range(<<>>) = {}
  BY RangeEmpty
<1> QED
  BY <1>1, <1>2 DEF FlushReply

\* A broken uplink carries only what was in flight.
LEMMA CutUpWire ==
    ASSUME up \in [Actor -> Seq(UpFrame)], NEW r \in Actor, NEW f \in Prefixes(up[r]),
           up' = [up EXCEPT ![r] = f]
    PROVE  /\ up' \in [Actor -> Seq(UpFrame)]
           /\ \A x \in Actor : Range(up'[x]) \subseteq Range(up[x])
<1>1. f \in Seq(UpFrame) /\ Range(f) \subseteq Range(up[r])
  BY RangePrefix
<1> QED
  BY <1>1

\* A broken downlink carries only what was in flight.
LEMMA CutDownWire ==
    ASSUME down \in [Actor -> Seq(DownFrame)], NEW r \in Actor, NEW f \in Prefixes(down[r]),
           down' = [down EXCEPT ![r] = f]
    PROVE  /\ down' \in [Actor -> Seq(DownFrame)]
           /\ \A x \in Actor : Range(down'[x]) \subseteq Range(down[x])
<1>1. f \in Seq(DownFrame) /\ Range(f) \subseteq Range(down[r])
  BY RangePrefix
<1> QED
  BY <1>1

\* A frame consumed leaves the rest in flight.
LEMMA ConsumeKeeps ==
    ASSUME down \in [Actor -> Seq(DownFrame)], NEW r \in Actor, Consume(r)
    PROVE  /\ Range(down[r]) \subseteq Range(down'[r]) \union {Inbound(r)}
           /\ \A x \in Actor \ {r} : down'[x] = down[x]
  BY RangeTailKeeps DEF Consume, Inbound

\* The same of the frames the relay takes.
LEMMA TakeKeeps ==
    ASSUME up \in [Actor -> Seq(UpFrame)], NEW r \in Actor, Take(r)
    PROVE  /\ Range(up[r]) \subseteq Range(up'[r]) \union {Head(up[r])}
           /\ \A x \in Actor \ {r} : up'[x] = up[x]
  BY RangeTailKeeps DEF Take

-----------------------------------------------------------------------------
(* What observing ops does to a vector clock, for every MaxOps.            *)

\* Extend is well defined: from any entry n there is a longest contiguous run
\* of observed counters, it stays within the bound, and the next counter is a
\* hole (VectorClock::observe in ascending order).
LEMMA ExtendProps ==
    ASSUME NEW n \in 0..MaxOps, NEW S \in SUBSET Counter
    PROVE  /\ Extend(n, S) \in n..MaxOps
           /\ n + 1 .. Extend(n, S) \subseteq S
           /\ Extend(n, S) + 1 \notin S
<1> DEFINE T == {k \in Nat : k >= n /\ k + 1 \notin S}
<1>1. MaxOps \in T
  BY MaxOpsAssumption DEF Counter
<1>2. PICK m \in T : \A k \in T : ~ (<<k, m>> \in OpToRel(<, Nat))
  BY <1>1, NatLessThanWellFounded, WFMin
<1>3. \A k \in T : ~ (k < m)
  BY <1>2 DEF OpToRel
<1>4. m \in n..MaxOps
  BY <1>1, <1>3, MaxOpsAssumption
<1>5. ASSUME NEW j \in n + 1 .. m PROVE j \in S
  <2>1. j - 1 \in Nat /\ j - 1 >= n /\ j - 1 < m
    BY <1>4
  <2>2. (j - 1) + 1 = j
    BY <1>4
  <2> QED
    BY <2>1, <2>2, <1>3
<1>6. \E k \in n..MaxOps : n + 1 .. k \subseteq S /\ k + 1 \notin S
  BY <1>4, <1>5
<1> QED
  BY <1>6 DEF Extend

\* The bounds determine the result: whatever run ends at a hole is the one.
LEMMA ExtendUnique ==
    ASSUME NEW n \in 0..MaxOps, NEW S \in SUBSET Counter,
           NEW m \in n..MaxOps, n + 1 .. m \subseteq S, m + 1 \notin S
    PROVE  Extend(n, S) = m
<1> DEFINE e == Extend(n, S)
<1>1. e \in n..MaxOps /\ n + 1 .. e \subseteq S /\ e + 1 \notin S
  BY ExtendProps
<1>2. ~ (e < m)
  <2> SUFFICES ASSUME e < m PROVE FALSE
    OBVIOUS
  <2>1. e + 1 \in n + 1 .. m
    BY <1>1, MaxOpsAssumption
  <2> QED
    BY <2>1, <1>1
<1>3. ~ (m < e)
  <2> SUFFICES ASSUME m < e PROVE FALSE
    OBVIOUS
  <2>1. m + 1 \in n + 1 .. e
    BY <1>1, MaxOpsAssumption
  <2> QED
    BY <2>1, <1>1
<1> QED
  BY <1>1, <1>2, <1>3, MaxOpsAssumption

\* Observing a set of ops yields a clock that claims no less than before, and
\* whose every new claim was in the set.
LEMMA ObserveAllProps ==
    ASSUME NEW c \in Clock, NEW ops
    PROVE  /\ ObserveAll(c, ops) \in Clock
           /\ \A a \in Actor : c[a] <= ObserveAll(c, ops)[a]
           /\ \A op \in Op : Covers(ObserveAll(c, ops), op) => Covers(c, op) \/ op \in ops
<1> DEFINE o == ObserveAll(c, ops)
<1>1. ASSUME NEW a \in Actor
      PROVE  /\ o[a] \in c[a]..MaxOps
             /\ c[a] + 1 .. o[a] \subseteq CountersOf(a, ops)
  <2>1. c[a] \in 0..MaxOps /\ CountersOf(a, ops) \in SUBSET Counter
    BY DEF Clock, CountersOf
  <2>2. o[a] = Extend(c[a], CountersOf(a, ops))
    BY DEF ObserveAll
  <2> QED
    BY <2>1, <2>2, ExtendProps
<1>2. \A a \in Actor : c[a] \in 0..MaxOps
  BY DEF Clock
<1>3. o \in Clock
  BY <1>1, <1>2, MaxOpsAssumption DEF Clock, ObserveAll
<1>4. \A a \in Actor : c[a] <= o[a]
  BY <1>1, <1>2, MaxOpsAssumption
<1>5. ASSUME NEW op \in Op, Covers(o, op), ~Covers(c, op)
      PROVE  op \in ops
  <2>1. PICK a \in Actor, k \in Counter : op = <<a, k>>
    BY DEF Op
  <2>2. k \in c[a] + 1 .. o[a]
    BY <1>5, <2>1, <1>1, <1>2, MaxOpsAssumption DEF Covers, Counter
  <2>3. k \in CountersOf(a, ops)
    BY <2>2, <1>1
  <2> QED
    BY <2>1, <2>3 DEF CountersOf
<1> QED
  BY <1>3, <1>4, <1>5

\* Observing exactly the ops some clock d claims gives the greater of the two,
\* entry by entry: what rebuilding a session from its log and adopting a
\* snapshot amount to.
LEMMA ObserveClaimed ==
    ASSUME NEW c \in Clock, NEW d \in Clock
    PROVE  \A a \in Actor : ObserveAll(c, Claimed(d))[a] = IF c[a] <= d[a] THEN d[a] ELSE c[a]
<1> SUFFICES ASSUME NEW a \in Actor
             PROVE  Extend(c[a], CountersOf(a, Claimed(d))) = IF c[a] <= d[a] THEN d[a] ELSE c[a]
  BY DEF ObserveAll
<1>1. c[a] \in 0..MaxOps /\ d[a] \in 0..MaxOps
  BY DEF Clock
<1>2. CountersOf(a, Claimed(d)) = 1..d[a]
  BY <1>1, MaxOpsAssumption DEF CountersOf, Claimed, Covers, Op, Counter
<1>3. 1..d[a] \in SUBSET Counter
  BY <1>1, MaxOpsAssumption DEF Counter
<1>4. CASE c[a] <= d[a]
  <2>1. d[a] \in c[a]..MaxOps /\ c[a] + 1 .. d[a] \subseteq 1..d[a] /\ d[a] + 1 \notin 1..d[a]
    BY <1>1, <1>4, MaxOpsAssumption
  <2> QED
    BY <1>1, <1>2, <1>3, <1>4, <2>1, ExtendUnique
<1>5. CASE ~ (c[a] <= d[a])
  <2>1. c[a] \in c[a]..MaxOps /\ c[a] + 1 .. c[a] \subseteq 1..d[a] /\ c[a] + 1 \notin 1..d[a]
    BY <1>1, <1>5, MaxOpsAssumption
  <2> QED
    BY <1>1, <1>2, <1>3, <1>5, <2>1, ExtendUnique
<1> QED
  BY <1>4, <1>5

\* Rebuilding from the claimed ops gives the clock back.
LEMMA ObserveOwnClaims ==
    ASSUME NEW c \in Clock
    PROVE  ObserveAll(EmptyClock, Claimed(c)) = c
<1>1. EmptyClock \in Clock
  BY MaxOpsAssumption DEF EmptyClock, Clock
<1>2. \A a \in Actor : c[a] \in 0..MaxOps /\ EmptyClock[a] = 0
  BY DEF Clock, EmptyClock
<1>3. \A a \in Actor : ObserveAll(EmptyClock, Claimed(c))[a] = c[a]
  BY <1>1, <1>2, ObserveClaimed
<1>4. ObserveAll(EmptyClock, Claimed(c)) \in Clock
  BY <1>1, ObserveAllProps
<1> QED
  BY <1>3, <1>4 DEF Clock

\* Observing the author's next op advances its entry by one and no other.
LEMMA ObserveNext ==
    ASSUME NEW c \in Clock, NEW a \in Actor, c[a] < MaxOps
    PROVE  ObserveAll(c, {<<a, c[a] + 1>>}) = [c EXCEPT ![a] = c[a] + 1]
<1> DEFINE op == <<a, c[a] + 1>>
<1>1. \A b \in Actor : c[b] \in 0..MaxOps
  BY DEF Clock
<1>2. CountersOf(a, {op}) = {c[a] + 1} /\ {c[a] + 1} \in SUBSET Counter
  BY <1>1, MaxOpsAssumption DEF CountersOf, Counter
<1>3. Extend(c[a], {c[a] + 1}) = c[a] + 1
  <2>1. /\ c[a] + 1 \in c[a]..MaxOps
        /\ c[a] + 1 .. c[a] + 1 \subseteq {c[a] + 1}
        /\ (c[a] + 1) + 1 \notin {c[a] + 1}
    BY <1>1, MaxOpsAssumption
  <2> QED
    BY <1>1, <1>2, <2>1, ExtendUnique
<1>4. ASSUME NEW b \in Actor, b # a
      PROVE  Extend(c[b], CountersOf(b, {op})) = c[b]
  <2>1. CountersOf(b, {op}) = {} /\ {} \in SUBSET Counter
    BY <1>4 DEF CountersOf
  <2>2. c[b] \in c[b]..MaxOps /\ c[b] + 1 .. c[b] \subseteq {} /\ c[b] + 1 \notin {}
    BY <1>1, MaxOpsAssumption
  <2> QED
    BY <1>1, <2>1, <2>2, ExtendUnique
<1> QED
  BY <1>2, <1>3, <1>4 DEF ObserveAll, Clock

\* A replica's clock claims what it claimed before.
LEMMA ClaimsGrow ==
    ASSUME NEW c \in Clock, NEW d \in Clock, \A a \in Actor : c[a] <= d[a]
    PROVE  Claimed(c) \subseteq Claimed(d)
<1> SUFFICES ASSUME NEW op \in Op, Covers(c, op) PROVE Covers(d, op)
  BY DEF Claimed
<1>1. op[1] \in Actor /\ op[2] \in Int
  BY DEF Op, Counter
<1>2. c[op[1]] \in Int /\ d[op[1]] \in Int
  BY <1>1 DEF Clock
<1> QED
  BY <1>1, <1>2 DEF Covers

USE DEF sessionVars, replicaVars, linkVars, relayVars

-----------------------------------------------------------------------------
(* Type correctness.                                                       *)

\* The empty clock is a clock.
LEMMA EmptyClockType == EmptyClock \in Clock
  BY MaxOpsAssumption DEF EmptyClock, Clock

\* The initial state is well typed.
LEMMA InitType == Init => TypeOK
  BY EmptyClockType, MaxOpsAssumption
  DEF Init, SessionInit, RelayInit, TypeOK, SessionTypeOK, RelayTypeOK, SyncState

\* A fault only counts itself.
LEMMA FaultType ==
    ASSUME TypeOK, NEW k \in FaultKind, Fault(k)
    PROVE  faults' \in [FaultKind -> Nat]
  BY DEF TypeOK, Fault

\* The steps of a replica (Replica::connect, resume, edit, receive) keep types.
LEMMA ReplicaType ==
    ASSUME TypeOK, NEW r \in Actor, ReplicaStep(r)
    PROVE  TypeOK'
<1> USE DEF TypeOK, SessionTypeOK, RelayTypeOK
<1> SUFFICES SessionTypeOK'
  BY DEF ReplicaStep
<1>1. ASSUME OpenSession(r)
      PROVE  state' \in [Actor -> SyncState] /\ up' \in [Actor -> Seq(UpFrame)]
  <2>1. [type |-> "Hello"] \in UpFrame
    BY DEF UpFrame
  <2> QED
    BY <1>1, <2>1, SendWire DEF OpenSession, Goto, SyncState
<1>2. CASE Connect(r)
  BY <1>1, <1>2 DEF Connect
<1>3. CASE Resume(r)
  BY <1>1, <1>3 DEF Resume
<1>4. CASE Edit(r)
  <2> DEFINE op == <<r, minted[r] + 1>>
  <2>1. minted[r] + 1 \in Counter /\ op \in Op /\ minted' \in [Actor -> 0..MaxOps]
    BY <1>4, MaxOpsAssumption DEF Edit, Counter, Op
  <2>2. ObserveAll(clock[r], {op}) \in Clock
    BY ObserveAllProps
  <2>3. queue' \in [Actor -> SUBSET Op] /\ queue'[r] \in SUBSET Op
    BY <1>4, <2>1 DEF Edit
  <2>4. up' \in [Actor -> Seq(UpFrame)] /\ sent' \in [Actor -> SUBSET Op]
    BY <1>4, <2>3, SendOpsWire DEF Edit
  <2> QED
    BY <1>4, <2>1, <2>2, <2>3, <2>4 DEF Edit
<1>5. CASE Receive(r)
  <2>1. CASE RecvHelloAck(r)
    <3>1. [type |-> "Need", clock |-> clock'[r]] \in UpFrame
      BY <2>1 DEF RecvHelloAck, UpFrame
    <3> QED
      BY <2>1, <3>1, ConsumeWire, SendWire DEF RecvHelloAck, SendNeed, Goto, SyncState
  <2>2. CASE RecvHelloReject(r)
    BY <2>2, ConsumeWire DEF RecvHelloReject, Goto, SyncState
  <2>3. CASE RecvOps(r)
    <3>1. Consume(r) /\ Inbound(r).ops \in SUBSET Op
      BY <2>3, ConsumeWire, DownFrameFields DEF RecvOps
    <3>2. PICK buffer \in Inserted(clock[r], held[r], Inbound(r).ops \ Invalid) :
             LET ready == Released(clock[r], buffer)
             IN  /\ held' = [held EXCEPT ![r] = buffer \ ready]
                 /\ clock' = [clock EXCEPT ![r] = ObserveAll(@, buffer)]
                 /\ log' = [log EXCEPT ![r] = @ \union ready]
      BY <2>3 DEF RecvOps
    <3>3. buffer \in SUBSET Op
      BY <3>1, <3>2 DEF Inserted
    <3>4. ObserveAll(clock[r], buffer) \in Clock
      BY ObserveAllProps
    <3>5. Released(clock[r], buffer) \in SUBSET Op
      BY <3>3 DEF Released
    <3> QED
      BY <2>3, <3>1, <3>2, <3>3, <3>4, <3>5, ConsumeWire DEF RecvOps
  <2>4. CASE RecvAck(r)
    BY <2>4, ConsumeWire DEF RecvAck
  <2>5. CASE RecvInSync(r)
    <3>1. queue[r] \ sent[r] \in SUBSET Op
      OBVIOUS
    <3> QED
      BY <2>5, <3>1, ConsumeWire, SendOpsWire DEF RecvInSync, Goto, SyncState
  <2>6. CASE Discard(r)
    BY <2>6, ConsumeWire DEF Discard
  <2> QED
    BY <1>5, <2>1, <2>2, <2>3, <2>4, <2>5, <2>6 DEF Receive
<1> QED
  BY <1>2, <1>3, <1>4, <1>5 DEF ReplicaStep

\* Submitting a batch (Relay::submit, fanout, ack) keeps types.
LEMMA HandleOpsType ==
    ASSUME TypeOK, NEW r \in Actor, NEW refused, HandleOps(r, refused),
           UNCHANGED <<sessionVars, replicaVars>>, faults' \in [FaultKind -> Nat]
    PROVE  TypeOK'
<1> USE DEF TypeOK, SessionTypeOK, RelayTypeOK
<1> DEFINE admitted == Admitted(r, Head(up[r]).ops, refused)
           fresh    == admitted \ retained
<1>1. /\ Take(r)
      /\ Head(up[r]).type = "Ops"
      /\ retained' = retained \union fresh
      /\ relayClock' = ObserveAll(relayClock, fresh)
      /\ Fanout(r, admitted)
      /\ Reply(r, <<[type |-> "Ack", clock |-> relayClock']>>)
  BY DEF HandleOps, Watermark
<1>2. Head(up[r]).ops \in SUBSET Op /\ up' \in [Actor -> Seq(UpFrame)]
  BY <1>1, TakeWire, UpFrameFields
<1>3. admitted \in SUBSET Op /\ fresh \in SUBSET Op
  BY <1>2 DEF Admitted
<1>4. down' \in [Actor -> Seq(DownFrame)]
  BY <1>1, <1>3, FanoutWire
<1>5. relayClock' \in Clock
  BY <1>1, ObserveAllProps
<1>6. <<[type |-> "Ack", clock |-> relayClock']>> \in Seq(DownFrame)
  BY <1>5 DEF DownFrame
<1>7. reply' \in [Actor -> Seq(DownFrame)]
  BY <1>1, <1>6, ReplyWire
<1> QED
  BY <1>1, <1>2, <1>3, <1>4, <1>5, <1>7

\* The relay's steps (RelayEndpoint::handle and the reply flush) keep types.
LEMMA RelayType ==
    ASSUME TypeOK, NEW r \in Actor, RelayStep(r)
    PROVE  TypeOK'
<1> USE DEF TypeOK, SessionTypeOK, RelayTypeOK
<1>1. CASE HandleHello(r)
  <2>1. <<[type |-> IF r \in Unsupported THEN "HelloReject" ELSE "HelloAck"]>> \in Seq(DownFrame)
    BY DEF DownFrame
  <2> QED
    BY <1>1, <2>1, TakeWire, ReplyWire DEF HandleHello, RelayStep
<1>2. CASE HandleNeed(r)
  <2> DEFINE missing == Missing(Head(up[r]).clock)
             give    == IF missing = {} THEN <<>> ELSE <<[type |-> "Give", ops |-> missing]>>
  <2>1. missing \in SUBSET Op
    BY DEF Missing
  <2>2. [type |-> "Give", ops |-> missing] \in DownFrame /\ [type |-> "InSync"] \in DownFrame
    BY <2>1 DEF DownFrame
  <2>3. Append(give, [type |-> "InSync"]) \in Seq(DownFrame)
    BY <2>2
  <2> QED
    BY <1>2, <2>3, TakeWire, ReplyWire DEF HandleNeed, RelayStep
<1>3. CASE HandleOps(r, {})
  BY <1>3, HandleOpsType DEF RelayStep
<1>4. CASE FlushReply(r)
  BY <1>4, FlushWire DEF FlushReply, RelayStep
<1> QED
  BY <1>1, <1>2, <1>3, <1>4 DEF RelayStep

\* The failures keep types.
LEMMA FaultStepType ==
    ASSUME TypeOK, NEW r \in Actor,
           Refuse(r) \/ Break(r) \/ Crash(r) \/ RevokeAuth(r) \/ GoStale(r) \/ CompleteRebase(r)
    PROVE  TypeOK'
<1> USE DEF TypeOK, SessionTypeOK, RelayTypeOK
<1>0. <<>> \in Seq(DownFrame) /\ Rebuilt(r) \in Clock
  BY EmptyClockType, ObserveAllProps DEF Rebuilt
<1>1. CASE Refuse(r)
  <2>1. faults' \in [FaultKind -> Nat] /\ UNCHANGED <<sessionVars, replicaVars>>
    BY <1>1, FaultType DEF Refuse, FaultKind
  <2>2. PICK refused : HandleOps(r, refused)
    BY <1>1 DEF Refuse
  <2> QED
    BY <2>1, <2>2, HandleOpsType
<1>2. CASE Break(r)
  <2>1. faults' \in [FaultKind -> Nat]
    BY <1>2, FaultType DEF Break, FaultKind
  <2>2. /\ up' \in [Actor -> Seq(UpFrame)]
        /\ down' \in [Actor -> Seq(DownFrame)]
        /\ reply' \in [Actor -> Seq(DownFrame)]
    BY <1>0, <1>2, CutUpWire, CutDownWire DEF Break
  <2>3. \A x \in Actor : Rebuilt(x) \in Clock
    BY EmptyClockType, ObserveAllProps DEF Rebuilt
  <2> QED
    BY <1>2, <2>1, <2>2, <2>3 DEF Break, LoseTransport, MarkAllUnsent, SyncState
<1>3. CASE Crash(r)
  <2>1. faults' \in [FaultKind -> Nat]
    BY <1>3, FaultType DEF Crash, FaultKind
  <2>2. /\ up' \in [Actor -> Seq(UpFrame)]
        /\ down' \in [Actor -> Seq(DownFrame)]
        /\ reply' \in [Actor -> Seq(DownFrame)]
    BY <1>0, <1>3, CutUpWire DEF Crash
  <2> QED
    BY <1>0, <1>3, <2>1, <2>2 DEF Crash, Recover, MarkAllUnsent, SyncState
<1>4. CASE RevokeAuth(r)
  BY <1>4, FaultType DEF RevokeAuth, FaultKind, Revoke, Goto, MarkAllUnsent, SyncState
<1>5. CASE GoStale(r)
  BY <1>5, FaultType DEF GoStale, FaultKind, Staleness, Goto, SyncState
<1>6. CASE CompleteRebase(r)
  <2>1. Claimed(relayClock) \in SUBSET Op /\ ObserveAll(clock[r], Claimed(relayClock)) \in Clock
    BY ObserveAllProps DEF Claimed
  <2>2. clock' \in [Actor -> Clock] /\ log' \in [Actor -> SUBSET Op]
    BY <1>6, <2>1 DEF CompleteRebase, Rebase
  <2>3. [type |-> "Need", clock |-> clock'[r]] \in UpFrame
    BY <2>2 DEF UpFrame
  <2> QED
    BY <1>6, <2>2, <2>3, SendWire DEF CompleteRebase, Rebase, SendNeed, Goto, SyncState
<1> QED
  BY <1>1, <1>2, <1>3, <1>4, <1>5, <1>6

\* The relay's restart keeps types.
LEMMA RestartType ==
    ASSUME TypeOK, Restart
    PROVE  TypeOK'
<1> USE DEF TypeOK, SessionTypeOK, RelayTypeOK
<1>1. faults' \in [FaultKind -> Nat]
  BY FaultType DEF Restart, FaultKind
<1>2. \A x \in Actor : Rebuilt(x) \in Clock
  BY EmptyClockType, ObserveAllProps DEF Rebuilt
<1> QED
  BY <1>1, <1>2, EmptyClockType DEF Restart, LoseTransport, MarkAllUnsent, SyncState

\* Every step keeps types.
LEMMA NextType == TypeOK /\ [Next]_vars => TypeOK'
<1> SUFFICES ASSUME TypeOK, [Next]_vars PROVE TypeOK'
  OBVIOUS
<1>1. CASE Next
  BY <1>1, ReplicaType, RelayType, FaultStepType, RestartType DEF Next
<1>2. CASE UNCHANGED vars
  BY <1>2 DEF vars, TypeOK, SessionTypeOK, RelayTypeOK
<1> QED
  BY <1>1, <1>2

\* The variables of replicas, links and relay keep to their types: clocks never
\* leave their range, links carry only well-formed frames.
THEOREM TypeCorrect == Spec => []TypeOK
  BY InitType, NextType, PTL DEF Spec

-----------------------------------------------------------------------------
(* Streams.                                                                *)

\* A step forges nothing: a frame in flight after it was in flight before it,
\* or is an honest new one.
NoForgery == \A x \in Actor : \A f \in InFlight(x)' : f \in InFlight(x) \/ Honest(f)'

\* Honest frames stay honest while authors and the relay's clock only advance.
LEMMA StaysHonest ==
    ASSUME TypeOK, TypeOK', WireHonest, NoForgery, Minted \subseteq Minted',
           \A a \in Actor : relayClock[a] <= relayClock'[a]
    PROVE  WireHonest'
<1> SUFFICES ASSUME NEW x \in Actor, NEW f \in InFlight(x)'
             PROVE  Honest(f)'
  BY DEF WireHonest
<1>1. CASE f \in InFlight(x)
  <2>1. Honest(f)
    BY <1>1 DEF WireHonest
  <2>2. f \in UpFrame \/ f \in DownFrame
    <3>1. up[x] \in Seq(UpFrame) /\ down[x] \in Seq(DownFrame) /\ reply[x] \in Seq(DownFrame)
      BY DEF TypeOK, SessionTypeOK, RelayTypeOK
    <3>2. PICK s \in {up[x], down[x], reply[x]} : f \in Range(s)
      BY <1>1 DEF InFlight
    <3>3. PICK i \in DOMAIN s : f = s[i]
      BY <3>2 DEF Range
    <3> QED
      BY <3>1, <3>2, <3>3
  <2>3. f.type = "Ack" => f.clock \in Clock
    BY <2>2 DEF UpFrame, DownFrame
  <2>4. \A a \in Actor : relayClock[a] \in Int /\ relayClock'[a] \in Int
    BY MaxOpsAssumption DEF TypeOK, RelayTypeOK, Clock
  <2>5. f.type = "Ack" => \A a \in Actor : f.clock[a] \in Int
    BY <2>3, MaxOpsAssumption DEF Clock
  <2>6. f.type \in {"Ops", "Give"} => f.ops \subseteq Minted'
    BY <2>1 DEF Honest
  <2>7. f.type = "Ack" => \A a \in Actor : f.clock[a] <= relayClock'[a]
    BY <2>1, <2>4, <2>5 DEF Honest
  <2> QED
    BY <2>6, <2>7 DEF Honest
<1>2. CASE f \notin InFlight(x)
  BY <1>2 DEF NoForgery
<1> QED
  BY <1>1, <1>2

\* A step that touches neither clocks, logs, holds nor retention has only its
\* frames to answer for.
LEMMA WireOnly ==
    ASSUME StreamInv, TypeOK', NoForgery,
           UNCHANGED <<clock, log, minted, held, retained, relayClock>>,
           \A x \in Actor : queue'[x] \subseteq queue[x]
    PROVE  StreamInv'
<1>1. \A a \in Actor : relayClock[a] <= relayClock'[a]
  BY MaxOpsAssumption DEF StreamInv, TypeOK, RelayTypeOK, Clock
<1>2. Minted' = Minted
  BY DEF Minted
<1>3. WireHonest'
  BY <1>1, <1>2, StaysHonest DEF StreamInv
<1>4. OnlyMinted'
  BY <1>2 DEF StreamInv, OnlyMinted
<1>5. ClockIsLog' /\ PrefixOfAuthor' /\ WatermarkHonest'
  BY DEF StreamInv, ClockIsLog, PrefixOfAuthor, WatermarkHonest, Claimed, Covers
<1> QED
  BY <1>3, <1>4, <1>5 DEF StreamInv

\* The initial state satisfies the invariant.
LEMMA InitStream == Init => StreamInv
<1> SUFFICES ASSUME Init PROVE StreamInv
  OBVIOUS
<1> USE DEF Init, SessionInit, RelayInit
<1>1. TypeOK
  BY InitType
<1>2. Claimed(EmptyClock) = {}
  BY MaxOpsAssumption DEF Claimed, Covers, EmptyClock, Op, Counter
<1>3. ClockIsLog /\ WatermarkHonest
  BY <1>2 DEF ClockIsLog, WatermarkHonest
<1>4. PrefixOfAuthor
  BY DEF PrefixOfAuthor, EmptyClock
<1>5. OnlyMinted
  BY DEF OnlyMinted
<1>6. WireHonest
  BY RangeEmpty DEF WireHonest, InFlight
<1> QED
  BY <1>1, <1>3, <1>4, <1>5, <1>6 DEF StreamInv

\* Rebuilding a session from its log changes nothing it knew: hard_reset and
\* recover are invisible in the clock.
LEMMA RebuiltIsClock ==
    ASSUME StreamInv, NEW r \in Actor
    PROVE  Rebuilt(r) = clock[r]
<1>1. clock[r] \in Clock /\ log[r] = Claimed(clock[r])
  BY DEF StreamInv, TypeOK, SessionTypeOK, ClockIsLog
<1> QED
  BY <1>1, ObserveOwnClaims DEF Rebuilt

\* The author's next op joins its own stream (Replica::edit).
LEMMA EditStream ==
    ASSUME StreamInv, TypeOK', NEW r \in Actor, Edit(r), UNCHANGED <<relayVars, faults>>
    PROVE  /\ StreamInv'
           /\ clock' = [clock EXCEPT ![r][r] = minted[r] + 1]
<1> DEFINE op == <<r, minted[r] + 1>>
<1>1. /\ clock[r] \in Clock /\ clock \in [Actor -> Clock]
      /\ minted \in [Actor -> 0..MaxOps] /\ minted' \in [Actor -> 0..MaxOps]
      /\ minted[r] < MaxOps /\ clock[r][r] = minted[r]
      /\ \A x, a \in Actor : clock[x][a] \in 0..MaxOps
  BY DEF StreamInv, TypeOK, SessionTypeOK, PrefixOfAuthor, Edit, Clock
<1>2. ObserveAll(clock[r], {op}) = [clock[r] EXCEPT ![r] = minted[r] + 1]
  BY <1>1, ObserveNext
<1>3. clock' = [clock EXCEPT ![r][r] = minted[r] + 1]
  BY <1>1, <1>2 DEF Edit
<1>4. minted' = [minted EXCEPT ![r] = @ + 1]
  BY DEF Edit
<1>5. Minted \subseteq Minted' /\ op \in Minted' /\ op \in Op
  BY <1>1, <1>4, MaxOpsAssumption DEF Minted, Op, Counter
<1>6. Claimed([clock[r] EXCEPT ![r] = minted[r] + 1]) = Claimed(clock[r]) \union {op}
  <2>1. ASSUME NEW o \in Op
        PROVE  Covers([clock[r] EXCEPT ![r] = minted[r] + 1], o) <=> Covers(clock[r], o) \/ o = op
    <3>1. PICK a \in Actor, k \in Counter : o = <<a, k>>
      BY DEF Op
    <3>2. k \in Int /\ DOMAIN clock[r] = Actor
      BY <1>1 DEF Counter, Clock
    <3>3. CASE a = r
      BY <1>1, <3>1, <3>2, <3>3 DEF Covers
    <3>4. CASE a # r
      BY <1>1, <3>1, <3>2, <3>4 DEF Covers
    <3> QED
      BY <3>3, <3>4
  <2> QED
    BY <2>1, <1>5 DEF Claimed
<1>7. ClockIsLog'
  <2>1. log' = [log EXCEPT ![r] = @ \union {op}]
    BY DEF Edit
  <2> QED
    BY <1>1, <1>3, <1>6, <2>1 DEF StreamInv, ClockIsLog, TypeOK, SessionTypeOK
<1>8. PrefixOfAuthor'
  BY <1>1, <1>3, <1>4 DEF StreamInv, PrefixOfAuthor, Clock
<1>9. OnlyMinted'
  <2>1. queue' = [queue EXCEPT ![r] = @ \union {op}] /\ UNCHANGED <<held, retained>>
    BY DEF Edit
  <2> QED
    BY <1>5, <2>1 DEF StreamInv, OnlyMinted, TypeOK, SessionTypeOK
<1>10. WatermarkHonest'
  BY DEF StreamInv, WatermarkHonest, Claimed, Covers
<1>11. WireHonest'
  <2>1. \A a \in Actor : relayClock[a] <= relayClock'[a]
    BY MaxOpsAssumption DEF StreamInv, TypeOK, RelayTypeOK, Clock
  <2>2. PICK ops \in SUBSET Minted' :
          \A x \in Actor : Range(up'[x]) \subseteq Range(up[x]) \union {OpsFrame(ops)}
    <3>1. CASE MaySendOps(state[r])
      <4>1. SendOps(r, queue'[r] \ sent[r]) /\ queue'[r] = queue[r] \union {op}
        BY <3>1 DEF Edit, StreamInv, TypeOK, SessionTypeOK
      <4> DEFINE ops == queue'[r] \ sent[r]
      <4>2. queue'[r] \subseteq Minted'
        BY <1>5, <4>1 DEF StreamInv, OnlyMinted
      <4> QED
        BY <4>1, <4>2, SendOpsWire, <1>5 DEF StreamInv, TypeOK, SessionTypeOK, Minted
    <3>2. CASE ~ MaySendOps(state[r])
      BY <3>2 DEF Edit
    <3> QED
      BY <3>1, <3>2
  <2>3. NoForgery
    BY <2>2 DEF NoForgery, InFlight, Edit, OpsFrame, Honest
  <2> QED
    BY <1>5, <2>1, <2>3, StaysHonest DEF StreamInv
<1> QED
  BY <1>3, <1>7, <1>8, <1>9, <1>10, <1>11 DEF StreamInv

\* What the gap buffer releases extends the log exactly as the clock advances,
\* and never past the author (CausalBuffer::admit).
LEMMA RecvOpsStream ==
    ASSUME StreamInv, TypeOK', NEW r \in Actor, RecvOps(r), UNCHANGED <<relayVars, faults>>
    PROVE  /\ StreamInv'
           /\ \A x \in Actor \ {r} : clock'[x] = clock[x]
           /\ \A a \in Actor : clock[r][a] <= clock'[r][a] /\ clock'[r][a] <= minted[a]
<1>1. /\ clock \in [Actor -> Clock] /\ clock' \in [Actor -> Clock]
      /\ held \in [Actor -> SUBSET Op] /\ log \in [Actor -> SUBSET Op]
      /\ minted \in [Actor -> 0..MaxOps]
      /\ down \in [Actor -> Seq(DownFrame)]
  BY DEF StreamInv, TypeOK, SessionTypeOK
<1>2. /\ Inbound(r) \in Range(down[r]) /\ Inbound(r).ops \subseteq Minted
      /\ \A x \in Actor : Range(down'[x]) \subseteq Range(down[x])
  BY <1>1, ConsumeWire DEF RecvOps, StreamInv, WireHonest, InFlight, Honest
<1>3. PICK buffer \in Inserted(clock[r], held[r], Inbound(r).ops \ Invalid) :
         LET ready == Released(clock[r], buffer)
         IN  /\ held' = [held EXCEPT ![r] = buffer \ ready]
             /\ clock' = [clock EXCEPT ![r] = ObserveAll(@, buffer)]
             /\ log' = [log EXCEPT ![r] = @ \union ready]
  BY DEF RecvOps
<1> DEFINE after == ObserveAll(clock[r], buffer)
           ready == Released(clock[r], buffer)
<1>4. buffer \subseteq Minted
  BY <1>2, <1>3 DEF Inserted, StreamInv, OnlyMinted
<1>5. /\ after \in Clock
      /\ \A a \in Actor : clock[r][a] <= after[a]
      /\ \A op \in Op : Covers(after, op) => Covers(clock[r], op) \/ op \in buffer
  BY <1>1, ObserveAllProps
<1>6. clock'[r] = after /\ \A x \in Actor \ {r} : clock'[x] = clock[x]
  BY <1>1, <1>3
<1>7. \A a \in Actor : /\ clock[r][a] \in 0..MaxOps /\ after[a] \in 0..MaxOps
                       /\ minted[a] \in 0..MaxOps /\ clock[r][a] <= minted[a]
  BY <1>1, <1>5 DEF Clock, StreamInv, PrefixOfAuthor
<1>8. ASSUME NEW a \in Actor PROVE after[a] <= minted[a]
  <2>1. CASE after[a] = 0
    BY <1>7, <2>1
  <2>2. CASE after[a] > 0
    <3>1. <<a, after[a]>> \in Op /\ Covers(after, <<a, after[a]>>)
      BY <1>7, <2>2, MaxOpsAssumption DEF Op, Counter, Covers
    <3>2. CASE Covers(clock[r], <<a, after[a]>>)
      BY <1>7, <3>2, MaxOpsAssumption DEF Covers
    <3>3. CASE <<a, after[a]>> \in buffer
      BY <1>4, <3>3 DEF Minted
    <3> QED
      BY <1>5, <3>1, <3>2, <3>3
  <2> QED
    BY <1>7, <2>1, <2>2
<1>9. Claimed(after) = Claimed(clock[r]) \union ready
  <2>1. ASSUME NEW op \in Op, Covers(clock[r], op) PROVE Covers(after, op)
    <3>1. op[1] \in Actor /\ op[2] \in Int
      BY DEF Op, Counter
    <3> QED
      BY <1>5, <1>7, <2>1, <3>1 DEF Covers
  <2>2. ready \subseteq Op
    BY <1>4 DEF Released, Minted
  <2> QED
    BY <1>5, <2>1, <2>2 DEF Claimed, Released
<1>10. ClockIsLog'
  BY <1>1, <1>3, <1>6, <1>9 DEF StreamInv, ClockIsLog
<1>11. PrefixOfAuthor'
  <2>1. minted' = minted
    BY DEF RecvOps
  <2>2. after[r] = minted[r]
    BY <1>5, <1>7, <1>8, MaxOpsAssumption DEF StreamInv, PrefixOfAuthor
  <2> QED
    BY <1>6, <1>8, <2>1, <2>2 DEF StreamInv, PrefixOfAuthor
<1>12. OnlyMinted' /\ WatermarkHonest' /\ Minted' = Minted
  <2>1. UNCHANGED <<minted, retained, relayClock, queue>>
    BY DEF RecvOps
  <2>2. Minted' = Minted
    BY <2>1 DEF Minted
  <2> QED
    BY <1>1, <1>3, <1>4, <2>1, <2>2 DEF StreamInv, OnlyMinted, WatermarkHonest, Claimed, Covers
<1>13. WireHonest'
  <2>1. \A a \in Actor : relayClock[a] <= relayClock'[a]
    BY MaxOpsAssumption DEF StreamInv, TypeOK, RelayTypeOK, Clock
  <2>2. NoForgery
    BY <1>2 DEF NoForgery, InFlight, RecvOps
  <2> QED
    BY <1>12, <2>1, <2>2, StaysHonest DEF StreamInv
<1> QED
  BY <1>6, <1>5, <1>8, <1>10, <1>11, <1>12, <1>13 DEF StreamInv

\* Every other step of a replica only moves frames it may.
LEMMA ReplicaStream ==
    ASSUME StreamInv, TypeOK', NEW r \in Actor, UNCHANGED <<relayVars, faults>>,
           \/ Connect(r) \/ Resume(r) \/ RecvHelloAck(r) \/ RecvHelloReject(r)
           \/ RecvAck(r) \/ RecvInSync(r) \/ Discard(r)
    PROVE  StreamInv'
<1>1. /\ up \in [Actor -> Seq(UpFrame)] /\ down \in [Actor -> Seq(DownFrame)]
      /\ queue \in [Actor -> SUBSET Op] /\ clock \in [Actor -> Clock]
  BY DEF StreamInv, TypeOK, SessionTypeOK
<1>2. ASSUME OpenSession(r), UNCHANGED <<down, reply>>
      PROVE  NoForgery
  <2>1. [type |-> "Hello"] \in UpFrame
    BY DEF UpFrame
  <2>2. \A x \in Actor : Range(up'[x]) \subseteq Range(up[x]) \union {[type |-> "Hello"]}
    BY <1>1, <1>2, <2>1, SendWire DEF OpenSession
  <2> QED
    BY <1>2, <2>2 DEF NoForgery, InFlight, Honest
<1>3. CASE Connect(r)
  BY <1>2, <1>3, WireOnly DEF Connect
<1>4. CASE Resume(r)
  <2>1. NoForgery
    BY <1>2, <1>4 DEF Resume, NoForgery, InFlight
  <2> QED
    BY <1>4, <2>1, WireOnly DEF Resume
<1>5. CASE RecvHelloAck(r)
  <2>1. [type |-> "Need", clock |-> clock'[r]] \in UpFrame
    BY <1>1, <1>5 DEF RecvHelloAck, UpFrame
  <2>2. \A x \in Actor :
          /\ Range(up'[x]) \subseteq Range(up[x]) \union {[type |-> "Need", clock |-> clock'[r]]}
          /\ Range(down'[x]) \subseteq Range(down[x])
    BY <1>1, <1>5, <2>1, SendWire, ConsumeWire DEF RecvHelloAck, SendNeed
  <2>3. NoForgery
    BY <2>2 DEF NoForgery, InFlight, Honest
  <2> QED
    BY <1>5, <2>3, WireOnly DEF RecvHelloAck
<1>6. CASE RecvHelloReject(r)
  <2>1. NoForgery
    BY <1>1, <1>6, ConsumeWire DEF RecvHelloReject, NoForgery, InFlight
  <2> QED
    BY <1>6, <2>1, WireOnly DEF RecvHelloReject
<1>7. CASE RecvAck(r)
  <2>1. NoForgery
    BY <1>1, <1>7, ConsumeWire DEF RecvAck, NoForgery, InFlight
  <2>2. \A x \in Actor : queue'[x] \subseteq queue[x]
    BY <1>1, <1>7 DEF RecvAck
  <2> QED
    BY <1>7, <2>1, <2>2, WireOnly DEF RecvAck
<1>8. CASE RecvInSync(r)
  <2>1. queue[r] \ sent[r] \in SUBSET Op /\ queue[r] \ sent[r] \subseteq Minted
    BY <1>1 DEF StreamInv, OnlyMinted
  <2>2. \A x \in Actor :
          /\ Range(up'[x]) \subseteq Range(up[x]) \union {OpsFrame(queue[r] \ sent[r])}
          /\ Range(down'[x]) \subseteq Range(down[x])
    BY <1>1, <1>8, <2>1, SendOpsWire, ConsumeWire DEF RecvInSync
  <2>3. Minted' = Minted
    BY <1>8 DEF RecvInSync, Minted
  <2>4. NoForgery
    BY <2>1, <2>2, <2>3 DEF NoForgery, InFlight, Honest, OpsFrame
  <2> QED
    BY <1>8, <2>4, WireOnly DEF RecvInSync
<1>9. CASE Discard(r)
  <2>1. NoForgery
    BY <1>1, <1>9, ConsumeWire DEF Discard, NoForgery, InFlight
  <2> QED
    BY <1>9, <2>1, WireOnly DEF Discard
<1> QED
  BY <1>3, <1>4, <1>5, <1>6, <1>7, <1>8, <1>9

\* Submitting a batch retains only authored ops, and moves the watermark only
\* over ops retained (Relay::submit).
LEMMA HandleOpsStream ==
    ASSUME StreamInv, TypeOK', NEW r \in Actor, NEW refused, HandleOps(r, refused),
           UNCHANGED <<sessionVars, replicaVars>>
    PROVE  StreamInv'
<1>0. PICK admitted, watermark : /\ admitted = Admitted(r, Head(up[r]).ops, refused)
                                 /\ watermark = relayClock'
  OBVIOUS
<1> DEFINE fresh == admitted \ retained
           ack   == [type |-> "Ack", clock |-> watermark]
<1>1. /\ up \in [Actor -> Seq(UpFrame)] /\ down \in [Actor -> Seq(DownFrame)]
      /\ reply \in [Actor -> Seq(DownFrame)] /\ relayClock \in Clock
      /\ relayClock' \in Clock
  BY DEF StreamInv, TypeOK, SessionTypeOK, RelayTypeOK
<1>2. /\ Take(r)
      /\ Head(up[r]).type = "Ops"
      /\ retained' = retained \union fresh
      /\ relayClock' = ObserveAll(relayClock, fresh)
      /\ Fanout(r, admitted)
      /\ Reply(r, <<ack>>)
  BY <1>0 DEF HandleOps, Watermark
<1>3. Head(up[r]).ops \subseteq Minted
  BY <1>1, <1>2, TakeWire DEF StreamInv, WireHonest, InFlight, Honest
<1>4. admitted \subseteq Minted /\ admitted \in SUBSET Op
  BY <1>0, <1>3 DEF Admitted, Minted
<1>5. /\ \A a \in Actor : relayClock[a] <= relayClock'[a]
      /\ \A op \in Op : Covers(relayClock', op) => Covers(relayClock, op) \/ op \in fresh
  BY <1>1, <1>2, ObserveAllProps
<1>6. Minted' = Minted
  BY DEF Minted
<1>7. OnlyMinted'
  BY <1>2, <1>4, <1>6 DEF StreamInv, OnlyMinted
<1>8. WatermarkHonest'
  BY <1>2, <1>5 DEF StreamInv, WatermarkHonest, Claimed
<1>9. ClockIsLog' /\ PrefixOfAuthor'
  BY DEF StreamInv, ClockIsLog, PrefixOfAuthor, Claimed, Covers
<1>10. NoForgery
  <2>1. <<ack>> \in Seq(DownFrame) /\ Range(<<ack>>) = {ack}
    BY <1>0, <1>1 DEF DownFrame, Range
  <2>2. \A x \in Actor :
          /\ Range(up'[x]) \subseteq Range(up[x])
          /\ Range(down'[x]) \subseteq Range(down[x]) \union {OpsFrame(admitted)}
          /\ Range(reply'[x]) \subseteq Range(reply[x]) \union {ack}
    BY <1>1, <1>2, <1>4, <2>1, TakeWire, FanoutWire, ReplyWire
  <2>3. Honest(ack)'
    BY <1>0, <1>1, MaxOpsAssumption DEF Honest, Clock
  <2>4. Honest(OpsFrame(admitted))'
    BY <1>4, <1>6 DEF Honest, OpsFrame
  <2> QED
    BY <2>2, <2>3, <2>4 DEF NoForgery, InFlight
<1>11. WireHonest'
  BY <1>5, <1>6, <1>10, StaysHonest DEF StreamInv
<1> QED
  BY <1>7, <1>8, <1>9, <1>11 DEF StreamInv

\* The relay's steps keep the invariant and touch no replica.
LEMMA RelayStream ==
    ASSUME StreamInv, TypeOK', NEW r \in Actor, RelayStep(r)
    PROVE  StreamInv' /\ UNCHANGED <<minted, clock>>
<1>0. UNCHANGED <<minted, clock>>
  BY DEF RelayStep
<1>1. /\ up \in [Actor -> Seq(UpFrame)] /\ down \in [Actor -> Seq(DownFrame)]
      /\ reply \in [Actor -> Seq(DownFrame)]
  BY DEF StreamInv, TypeOK, SessionTypeOK, RelayTypeOK
<1>2. CASE HandleHello(r)
  <2> DEFINE answer == [type |-> IF r \in Unsupported THEN "HelloReject" ELSE "HelloAck"]
  <2>1. <<answer>> \in Seq(DownFrame) /\ Range(<<answer>>) = {answer}
    BY DEF DownFrame, Range
  <2>2. \A x \in Actor : /\ Range(up'[x]) \subseteq Range(up[x])
                         /\ Range(reply'[x]) \subseteq Range(reply[x]) \union {answer}
    BY <1>1, <1>2, <2>1, TakeWire, ReplyWire DEF HandleHello
  <2>3. NoForgery
    BY <1>2, <2>2 DEF NoForgery, InFlight, HandleHello, Honest
  <2> QED
    BY <1>0, <1>2, <2>3, WireOnly DEF HandleHello, RelayStep
<1>3. CASE HandleNeed(r)
  <2>1. PICK missing : missing = Missing(Head(up[r]).clock)
    OBVIOUS
  <2> DEFINE give   == [type |-> "Give", ops |-> missing]
             gives  == IF missing = {} THEN <<>> ELSE <<give>>
             insync == [type |-> "InSync"]
  <2>2. missing \in SUBSET Op /\ missing \subseteq Minted
    BY <2>1 DEF Missing, StreamInv, OnlyMinted, TypeOK, RelayTypeOK
  <2>3. give \in DownFrame /\ insync \in DownFrame
    BY <2>2 DEF DownFrame
  <2>4. gives \in Seq(DownFrame) /\ Range(gives) \subseteq {give}
    BY <2>3 DEF Range
  <2>5. /\ Append(gives, insync) \in Seq(DownFrame)
        /\ Range(Append(gives, insync)) \subseteq {give, insync}
    <3> HIDE DEF gives
    <3> QED
      BY <2>3, <2>4, RangeAppend
  <2>6. Take(r) /\ Reply(r, Append(gives, insync)) /\ UNCHANGED down
    BY <1>3, <2>1 DEF HandleNeed
  <2>7. \A x \in Actor : /\ Range(up'[x]) \subseteq Range(up[x])
                         /\ Range(reply'[x]) \subseteq Range(reply[x]) \union {give, insync}
    <3> HIDE DEF gives, give, insync
    <3> QED
      BY <1>1, <2>5, <2>6, TakeWire, ReplyWire
  <2>8. Honest(give)' /\ Honest(insync)'
    BY <1>0, <2>2 DEF Honest, Minted
  <2>9. NoForgery
    BY <2>6, <2>7, <2>8 DEF NoForgery, InFlight
  <2> QED
    BY <1>0, <1>3, <2>9, WireOnly DEF HandleNeed, RelayStep
<1>4. CASE HandleOps(r, {})
  BY <1>0, <1>4, HandleOpsStream DEF RelayStep
<1>5. CASE FlushReply(r)
  <2>1. NoForgery
    BY <1>1, <1>5, FlushWire DEF NoForgery, InFlight, FlushReply
  <2> QED
    BY <1>0, <1>5, <2>1, WireOnly DEF FlushReply, RelayStep
<1> QED
  BY <1>2, <1>3, <1>4, <1>5 DEF RelayStep

\* Losing or restarting a replica's session keeps the invariant: what the
\* session holds shrinks, what it knows does not change.
LEMMA SessionLossStream ==
    ASSUME StreamInv, TypeOK', NoForgery,
           UNCHANGED <<log, minted, queue, retained, relayClock>>,
           \A x \in Actor : /\ clock'[x] \in {clock[x], Rebuilt(x)}
                            /\ held'[x] \subseteq held[x]
    PROVE  StreamInv' /\ UNCHANGED clock
<1>1. clock' = clock
  BY RebuiltIsClock DEF StreamInv, TypeOK, SessionTypeOK
<1>2. \A a \in Actor : relayClock[a] <= relayClock'[a]
  BY MaxOpsAssumption DEF StreamInv, TypeOK, RelayTypeOK, Clock
<1>3. Minted' = Minted
  BY DEF Minted
<1>4. WireHonest'
  BY <1>2, <1>3, StaysHonest DEF StreamInv
<1>5. OnlyMinted'
  BY <1>3 DEF StreamInv, OnlyMinted
<1>6. ClockIsLog' /\ PrefixOfAuthor' /\ WatermarkHonest'
  BY <1>1 DEF StreamInv, ClockIsLog, PrefixOfAuthor, WatermarkHonest, Claimed, Covers
<1> QED
  BY <1>1, <1>4, <1>5, <1>6 DEF StreamInv

\* Failures of a link, a replica or its authorization keep the invariant.
LEMMA FailureStream ==
    ASSUME StreamInv, TypeOK', NEW r \in Actor,
           Refuse(r) \/ Break(r) \/ Crash(r) \/ RevokeAuth(r) \/ GoStale(r)
    PROVE  StreamInv' /\ UNCHANGED <<minted, clock>>
<1>0. /\ up \in [Actor -> Seq(UpFrame)] /\ down \in [Actor -> Seq(DownFrame)]
      /\ reply \in [Actor -> Seq(DownFrame)]
      /\ clock \in [Actor -> Clock] /\ held \in [Actor -> SUBSET Op]
      /\ Range(<<>>) = {}
  BY RangeEmpty DEF StreamInv, TypeOK, SessionTypeOK, RelayTypeOK
<1>1. CASE Refuse(r)
  <2>1. PICK refused : HandleOps(r, refused)
    BY <1>1 DEF Refuse
  <2> QED
    BY <1>1, <2>1, HandleOpsStream DEF Refuse
<1>2. CASE Break(r)
  <2>1. \A x \in Actor : /\ Range(up'[x]) \subseteq Range(up[x])
                         /\ Range(down'[x]) \subseteq Range(down[x])
                         /\ Range(reply'[x]) \subseteq Range(reply[x])
    BY <1>0, <1>2, CutUpWire, CutDownWire DEF Break
  <2>2. NoForgery
    BY <2>1 DEF NoForgery, InFlight
  <2> QED
    BY <1>0, <1>2, <2>2, SessionLossStream DEF Break, LoseTransport
<1>3. CASE Crash(r)
  <2>1. \A x \in Actor : /\ Range(up'[x]) \subseteq Range(up[x])
                         /\ Range(down'[x]) \subseteq Range(down[x])
                         /\ Range(reply'[x]) \subseteq Range(reply[x])
    BY <1>0, <1>3, CutUpWire DEF Crash
  <2>2. NoForgery
    BY <2>1 DEF NoForgery, InFlight
  <2> QED
    BY <1>0, <1>3, <2>2, SessionLossStream DEF Crash, Recover
<1>4. CASE RevokeAuth(r)
  <2>1. NoForgery
    BY <1>4 DEF NoForgery, InFlight, RevokeAuth, Revoke
  <2> QED
    BY <1>4, <2>1, WireOnly DEF RevokeAuth, Revoke
<1>5. CASE GoStale(r)
  <2>1. NoForgery
    BY <1>5 DEF NoForgery, InFlight, GoStale, Staleness
  <2> QED
    BY <1>5, <2>1, WireOnly DEF GoStale, Staleness
<1> QED
  BY <1>1, <1>2, <1>3, <1>4, <1>5

\* A relay that restarts empty keeps the invariant: no link survives to carry
\* a claim it no longer backs.
LEMMA RestartStream ==
    ASSUME StreamInv, TypeOK', Restart
    PROVE  StreamInv' /\ UNCHANGED <<minted, clock>>
<1>1. clock' = clock
  BY RebuiltIsClock DEF Restart, LoseTransport, StreamInv, TypeOK, SessionTypeOK
<1>2. /\ UNCHANGED <<log, minted, queue>>
      /\ \A x \in Actor : held'[x] \subseteq held[x]
      /\ retained' = {} /\ relayClock' = EmptyClock
      /\ \A x \in Actor : up'[x] = <<>> /\ down'[x] = <<>> /\ reply'[x] = <<>>
  BY DEF Restart, LoseTransport, StreamInv, TypeOK, SessionTypeOK
<1>3. Minted' = Minted
  BY <1>2 DEF Minted
<1>4. WireHonest'
  BY <1>2, RangeEmpty DEF WireHonest, InFlight
<1>5. OnlyMinted'
  BY <1>2, <1>3 DEF StreamInv, OnlyMinted
<1>6. Claimed(EmptyClock) = {}
  BY MaxOpsAssumption DEF Claimed, Covers, EmptyClock, Op, Counter
<1>7. WatermarkHonest'
  BY <1>2, <1>6 DEF WatermarkHonest, Claimed, Covers
<1>8. ClockIsLog' /\ PrefixOfAuthor'
  BY <1>1, <1>2 DEF StreamInv, ClockIsLog, PrefixOfAuthor, Claimed, Covers
<1> QED
  BY <1>1, <1>2, <1>4, <1>5, <1>7, <1>8 DEF StreamInv

\* Adopting a snapshot at the relay's watermark lifts a replica's prefixes to
\* the relay's, never past an author (Event::RebaseComplete).
LEMMA RebaseStream ==
    ASSUME StreamInv, TypeOK', NEW r \in Actor, CompleteRebase(r)
    PROVE  /\ StreamInv'
           /\ \A x \in Actor \ {r} : clock'[x] = clock[x]
           /\ \A a \in Actor : clock[r][a] <= clock'[r][a] /\ clock'[r][a] <= minted[a]
           /\ UNCHANGED minted
<1> DEFINE after == ObserveAll(clock[r], Claimed(relayClock))
<1>1. /\ clock \in [Actor -> Clock] /\ clock' \in [Actor -> Clock] /\ relayClock \in Clock
      /\ log \in [Actor -> SUBSET Op] /\ minted \in [Actor -> 0..MaxOps]
      /\ up \in [Actor -> Seq(UpFrame)]
  BY DEF StreamInv, TypeOK, SessionTypeOK, RelayTypeOK
<1>2. /\ clock' = [clock EXCEPT ![r] = after]
      /\ log' = [log EXCEPT ![r] = @ \union Claimed(relayClock)]
      /\ UNCHANGED <<queue, sent, held, minted, timer, readOnly, down, relayVars, faults>>
      /\ SendNeed(r)
  BY DEF CompleteRebase, Rebase
<1>3. \A a \in Actor : after[a] = IF clock[r][a] <= relayClock[a] THEN relayClock[a] ELSE clock[r][a]
  BY <1>1, ObserveClaimed
<1>4. \A a \in Actor : /\ clock[r][a] \in 0..MaxOps /\ relayClock[a] \in 0..MaxOps
                       /\ minted[a] \in 0..MaxOps /\ clock[r][a] <= minted[a]
  BY <1>1 DEF Clock, StreamInv, PrefixOfAuthor
<1>5. ASSUME NEW a \in Actor PROVE relayClock[a] <= minted[a]
  <2>1. CASE relayClock[a] = 0
    BY <1>4, <2>1
  <2>2. CASE relayClock[a] > 0
    <3>1. <<a, relayClock[a]>> \in Claimed(relayClock)
      BY <1>4, <2>2, MaxOpsAssumption DEF Claimed, Covers, Op, Counter
    <3> QED
      BY <3>1 DEF StreamInv, WatermarkHonest, OnlyMinted, Minted
  <2> QED
    BY <1>4, <2>1, <2>2
<1>6. /\ \A x \in Actor \ {r} : clock'[x] = clock[x]
      /\ clock'[r] = after
      /\ \A a \in Actor : clock[r][a] <= after[a] /\ after[a] <= minted[a]
  BY <1>1, <1>2, <1>3, <1>4, <1>5
<1>7. Claimed(after) = Claimed(clock[r]) \union Claimed(relayClock)
  <2>1. ASSUME NEW op \in Op
        PROVE  Covers(after, op) <=> Covers(clock[r], op) \/ Covers(relayClock, op)
    <3>1. op[1] \in Actor /\ op[2] \in Int
      BY DEF Op, Counter
    <3> HIDE DEF after
    <3> QED
      BY <1>3, <1>4, <3>1 DEF Covers
  <2> HIDE DEF after
  <2> QED
    BY <2>1 DEF Claimed
<1>8. ClockIsLog'
  BY <1>1, <1>2, <1>6, <1>7 DEF StreamInv, ClockIsLog
<1>9. PrefixOfAuthor'
  <2> HIDE DEF after
  <2>1. clock[r][r] = minted[r] /\ after[r] \in Int /\ minted[r] \in Int
    BY <1>3, <1>4 DEF StreamInv, PrefixOfAuthor
  <2>2. after[r] = minted[r]
    BY <1>6, <2>1
  <2> QED
    BY <1>2, <1>6, <2>2 DEF StreamInv, PrefixOfAuthor
<1>10. Minted' = Minted
  BY <1>2 DEF Minted
<1>11. OnlyMinted' /\ WatermarkHonest'
  BY <1>2, <1>10 DEF StreamInv, OnlyMinted, WatermarkHonest, Claimed, Covers
<1>12. NoForgery
  <2>1. PICK w : w = clock'[r]
    OBVIOUS
  <2>2. [type |-> "Need", clock |-> w] \in UpFrame
    BY <1>1, <2>1 DEF UpFrame
  <2>3. \A x \in Actor : Range(up'[x]) \subseteq Range(up[x]) \union {[type |-> "Need", clock |-> w]}
    BY <1>1, <1>2, <2>1, <2>2, SendWire DEF SendNeed
  <2> QED
    BY <1>2, <2>3 DEF NoForgery, InFlight, Honest
<1>13. WireHonest'
  <2>1. \A a \in Actor : relayClock[a] <= relayClock'[a]
    BY <1>2, <1>4
  <2> QED
    BY <1>10, <1>12, <2>1, StaysHonest DEF StreamInv
<1> QED
  BY <1>2, <1>6, <1>8, <1>9, <1>11, <1>13 DEF StreamInv

\* A step that raises one replica's prefixes, within what was authored, is a
\* delivery of the abstract stream.
LEMMA IsDelivery ==
    ASSUME TypeOK, TypeOK', NEW r \in Actor, UNCHANGED minted,
           \A x \in Actor \ {r} : clock'[x] = clock[x],
           \A a \in Actor : clock[r][a] <= clock'[r][a] /\ clock'[r][a] <= minted[a]
    PROVE  Streams!Next
<1>1. /\ clock \in [Actor -> Clock] /\ clock' \in [Actor -> Clock]
      /\ clock'[r] \in [Actor -> 0..MaxOps]
  BY DEF TypeOK, SessionTypeOK, Clock
<1>2. clock' = [clock EXCEPT ![r] = clock'[r]]
  BY <1>1
<1>3. Streams!Deliver(r)
  BY <1>1, <1>2 DEF Streams!Deliver
<1> QED
  BY <1>3 DEF Streams!Next

\* Every step keeps the invariant and is a step of the abstract stream or none.
LEMMA StreamStep == StreamInv /\ [Next]_vars => StreamInv' /\ [Streams!Next]_(Streams!vars)
<1> SUFFICES ASSUME StreamInv, [Next]_vars
             PROVE  StreamInv' /\ [Streams!Next]_(Streams!vars)
  OBVIOUS
<1>1. TypeOK /\ TypeOK'
  BY NextType DEF StreamInv
<1>2. ASSUME UNCHANGED <<minted, clock>> PROVE [Streams!Next]_(Streams!vars)
  BY <1>2 DEF Streams!vars
<1>3. CASE Restart
  BY <1>1, <1>2, <1>3, RestartStream
<1>4. ASSUME NEW r \in Actor, ReplicaStep(r)
      PROVE  StreamInv' /\ [Streams!Next]_(Streams!vars)
  <2>1. UNCHANGED <<relayVars, faults>>
    BY <1>4 DEF ReplicaStep
  <2>2. CASE Edit(r)
    <3>1. StreamInv' /\ clock' = [clock EXCEPT ![r][r] = minted[r] + 1]
      BY <1>1, <2>1, <2>2, EditStream
    <3>2. Streams!Author(r)
      BY <2>2, <3>1 DEF Edit, Streams!Author
    <3> QED
      BY <3>1, <3>2 DEF Streams!Next
  <2>3. CASE RecvOps(r)
    <3>1. UNCHANGED minted
      BY <2>3 DEF RecvOps
    <3>2. /\ StreamInv'
          /\ \A x \in Actor \ {r} : clock'[x] = clock[x]
          /\ \A a \in Actor : clock[r][a] <= clock'[r][a] /\ clock'[r][a] <= minted[a]
      BY <1>1, <2>1, <2>3, RecvOpsStream
    <3> QED
      BY <1>1, <3>1, <3>2, IsDelivery
  <2>4. CASE \/ Connect(r) \/ Resume(r) \/ RecvHelloAck(r) \/ RecvHelloReject(r)
             \/ RecvAck(r) \/ RecvInSync(r) \/ Discard(r)
    <3>1. UNCHANGED <<minted, clock>>
      BY <2>4 DEF Connect, Resume, RecvHelloAck, RecvHelloReject, RecvAck, RecvInSync, Discard
    <3> QED
      BY <1>1, <1>2, <2>1, <2>4, <3>1, ReplicaStream
  <2> QED
    BY <1>4, <2>2, <2>3, <2>4 DEF ReplicaStep, Receive
<1>5. ASSUME NEW r \in Actor, RelayStep(r)
      PROVE  StreamInv' /\ [Streams!Next]_(Streams!vars)
  BY <1>1, <1>2, <1>5, RelayStream
<1>6. ASSUME NEW r \in Actor,
             Refuse(r) \/ Break(r) \/ Crash(r) \/ RevokeAuth(r) \/ GoStale(r)
      PROVE  StreamInv' /\ [Streams!Next]_(Streams!vars)
  BY <1>1, <1>2, <1>6, FailureStream
<1>7. ASSUME NEW r \in Actor, CompleteRebase(r)
      PROVE  StreamInv' /\ [Streams!Next]_(Streams!vars)
  <2>1. /\ StreamInv' /\ UNCHANGED minted
        /\ \A x \in Actor \ {r} : clock'[x] = clock[x]
        /\ \A a \in Actor : clock[r][a] <= clock'[r][a] /\ clock'[r][a] <= minted[a]
    BY <1>1, <1>7, RebaseStream
  <2> QED
    BY <1>1, <2>1, IsDelivery
<1>8. CASE UNCHANGED vars
  <2>1. NoForgery
    BY <1>8 DEF vars, NoForgery, InFlight
  <2> QED
    BY <1>1, <1>2, <1>8, <2>1, WireOnly DEF vars
<1> QED
  BY <1>3, <1>4, <1>5, <1>6, <1>7, <1>8 DEF Next

\* The invariant holds whatever fails, the relay's restart included.
THEOREM StreamsInvariant == Spec => []StreamInv
  BY InitStream, StreamStep, PTL DEF Spec

\* Replica.doc.log and SyncSession.clock never disagree: the log is exactly
\* what the clock claims, after any gap, teardown, crash or rebase.
THEOREM LogMatchesClock == Spec => []ClockIsLog
<1>1. StreamInv => ClockIsLog
  BY DEF StreamInv
<1> QED
  BY <1>1, StreamsInvariant, PTL

\* The protocol implements per-actor streams: every step of replicas, relay,
\* links and failures authors one op, delivers prefixes to one replica, or is
\* invisible.
THEOREM ImplementsStreams == Spec => DeliversStreams
<1>1. Init => Streams!Init
  BY DEF Init, SessionInit, EmptyClock, Streams!Init
<1> QED
  BY <1>1, InitStream, StreamStep, PTL DEF Spec, DeliversStreams, Streams!Spec

-----------------------------------------------------------------------------
(* Never-drop.                                                             *)

\* Only an acknowledgement takes ops off a queue, and it is honest about what
\* the relay retains (Queue::ack).
LEMMA AckNeverDrops ==
    ASSUME StreamInv, NeverDrop, NEW r \in Actor, RecvAck(r), UNCHANGED <<relayVars, faults>>
    PROVE  NeverDrop'
<1> DEFINE acked == Acked(r, Inbound(r).clock)
<1>1. /\ queue \in [Actor -> SUBSET Op] /\ minted \in [Actor -> 0..MaxOps]
      /\ down \in [Actor -> Seq(DownFrame)] /\ relayClock \in Clock
  BY DEF StreamInv, TypeOK, SessionTypeOK, RelayTypeOK
<1>2. Inbound(r) \in Range(down[r]) /\ Inbound(r) \in DownFrame
  BY <1>1, ConsumeWire DEF RecvAck
<1>3. /\ Inbound(r).clock \in Clock
      /\ \A a \in Actor : Inbound(r).clock[a] <= relayClock[a]
  BY <1>2, DownFrameFields DEF RecvAck, StreamInv, WireHonest, InFlight, Honest
<1>4. ASSUME NEW op \in acked PROVE op \in retained
  <2>1. op \in Op /\ Covers(Inbound(r).clock, op)
    BY <1>1 DEF Acked
  <2>2. PICK a \in Actor, n \in Counter : op = <<a, n>>
    BY <2>1 DEF Op
  <2>3. Inbound(r).clock[a] \in Int /\ relayClock[a] \in Int /\ n \in Int
    BY <1>1, <1>3 DEF Clock, Counter
  <2>4. Covers(relayClock, op)
    BY <1>3, <2>1, <2>2, <2>3 DEF Covers
  <2> QED
    BY <2>1, <2>4 DEF Claimed, StreamInv, WatermarkHonest
<1>5. queue' = [queue EXCEPT ![r] = @ \ acked] /\ UNCHANGED <<minted, retained>>
  BY DEF RecvAck
<1> HIDE DEF acked
<1> QED
  BY <1>1, <1>4, <1>5 DEF NeverDrop

\* Every step but a relay restart keeps every op somewhere.
LEMMA NeverDropStep ==
    ASSUME ~Restart, StreamInv, NeverDrop, [Next]_vars
    PROVE  NeverDrop'
<1>1. /\ queue \in [Actor -> SUBSET Op] /\ minted \in [Actor -> 0..MaxOps]
      /\ faults \in [FaultKind -> Nat]
  BY DEF StreamInv, TypeOK, SessionTypeOK
<1>2. ASSUME UNCHANGED <<queue, minted>>, retained \subseteq retained'
      PROVE  NeverDrop'
  BY <1>2 DEF NeverDrop
<1>4. ASSUME NEW r \in Actor, ReplicaStep(r) PROVE NeverDrop'
  <2>1. CASE Edit(r)
    <3>1. /\ minted' = [minted EXCEPT ![r] = @ + 1]
          /\ queue' = [queue EXCEPT ![r] = @ \union {<<r, minted[r] + 1>>}]
          /\ UNCHANGED retained
      BY <1>4, <2>1 DEF Edit, ReplicaStep
    <3>2. ASSUME NEW a \in Actor, NEW n \in 1..minted'[a]
          PROVE  <<a, n>> \in queue'[a] \union retained'
      <4>1. CASE n \in 1..minted[a]
        BY <1>1, <3>1, <4>1 DEF NeverDrop
      <4>2. CASE n \notin 1..minted[a]
        <5>1. a = r /\ n = minted[r] + 1
          BY <1>1, <3>1, <4>2, MaxOpsAssumption
        <5> QED
          BY <1>1, <3>1, <5>1
      <4> QED
        BY <4>1, <4>2
    <3> QED
      BY <3>2 DEF NeverDrop
  <2>2. CASE RecvAck(r)
    BY <1>4, <2>2, AckNeverDrops DEF ReplicaStep
  <2>3. CASE \/ Connect(r) \/ Resume(r) \/ RecvHelloAck(r) \/ RecvHelloReject(r)
             \/ RecvOps(r) \/ RecvInSync(r) \/ Discard(r)
    BY <1>2, <1>4, <2>3
    DEF ReplicaStep, Connect, Resume, RecvHelloAck, RecvHelloReject, RecvOps, RecvInSync, Discard
  <2> QED
    BY <1>4, <2>1, <2>2, <2>3 DEF ReplicaStep, Receive
<1>5. ASSUME NEW r \in Actor, RelayStep(r) PROVE NeverDrop'
  BY <1>2, <1>5 DEF RelayStep, HandleHello, HandleNeed, HandleOps, FlushReply
<1>6. ASSUME NEW r \in Actor,
             Refuse(r) \/ Break(r) \/ Crash(r) \/ RevokeAuth(r) \/ GoStale(r) \/ CompleteRebase(r)
      PROVE  NeverDrop'
  BY <1>2, <1>6
  DEF Refuse, HandleOps, Break, LoseTransport, Crash, Recover, RevokeAuth, Revoke,
      GoStale, Staleness, CompleteRebase, Rebase
<1>7. CASE UNCHANGED vars
  BY <1>2, <1>7 DEF vars
<1> QED
  BY <1>4, <1>5, <1>6, <1>7 DEF Next

\* No op is ever lost while the relay process lives: in its author's never-drop
\* queue or retained by the relay, through lost links, killed replicas, refused
\* batches, revocation and rebase, in any number.
THEOREM NothingDropped ==
    ASSUME FaultLimit["restart"] = 0
    PROVE  Spec => []NeverDrop
<1>1. Init => NeverDrop
  BY DEF Init, SessionInit, NeverDrop
<1>2. StreamInv /\ NeverDrop /\ [Next]_vars => NeverDrop'
  <2>1. StreamInv => ~Restart
    BY FaultLimitAssumption DEF StreamInv, TypeOK, Restart, Fault, FaultKind
  <2> QED
    BY <2>1, NeverDropStep
<1> QED
  BY <1>1, <1>2, StreamsInvariant, PTL DEF Spec

-----------------------------------------------------------------------------
(* Catching up.                                                            *)

\* Clocks only advance (the streams they stand for only grow).
LEMMA ClockGrows ==
    ASSUME StreamInv, [Next]_vars
    PROVE  /\ StreamInv'
           /\ \A x, a \in Actor : clock[x][a] <= clock'[x][a]
<1>1. StreamInv' /\ [Streams!Next]_(Streams!vars)
  BY StreamStep
<1>2. /\ clock \in [Actor -> Clock] /\ minted \in [Actor -> 0..MaxOps]
      /\ \A x, a \in Actor : clock[x][a] \in 0..MaxOps
      /\ \A x \in Actor : clock[x][x] = minted[x]
  BY DEF StreamInv, TypeOK, SessionTypeOK, Clock, PrefixOfAuthor
<1>3. SUFFICES ASSUME NEW x \in Actor, NEW a \in Actor PROVE clock[x][a] <= clock'[x][a]
  BY <1>1
<1>4. CASE UNCHANGED Streams!vars
  BY <1>2, <1>4 DEF Streams!vars
<1>5. CASE \E r \in Actor : Streams!Author(r)
  <2>1. PICK r \in Actor : clock' = [clock EXCEPT ![r][r] = minted[r] + 1]
    BY <1>5 DEF Streams!Author
  <2>2. DOMAIN clock[r] = Actor
    BY <1>2 DEF Clock
  <2>3. clock'[x][a] = IF x = r /\ a = r THEN minted[r] + 1 ELSE clock[x][a]
    BY <1>2, <2>1, <2>2
  <2> QED
    BY <1>2, <2>3
<1>6. CASE \E r \in Actor : Streams!Deliver(r)
  <2>1. PICK r \in Actor, prefix \in [Actor -> 0..MaxOps] :
          /\ \A b \in Actor : clock[r][b] <= prefix[b]
          /\ clock' = [clock EXCEPT ![r] = prefix]
    BY <1>6 DEF Streams!Deliver
  <2> QED
    BY <1>2, <2>1
<1> QED
  BY <1>1, <1>4, <1>5, <1>6 DEF Streams!Next

\* Frames of ops that stay in flight keep coming.
LEMMA ComingStays ==
    ASSUME NEW x \in Actor,
           \A f \in Range(down[x]) \union Range(reply[x]) :
               f.type \in {"Ops", "Give"} => f \in Range(down'[x]) \union Range(reply'[x])
    PROVE  Coming(x) \subseteq Coming(x)'
  BY DEF Coming

\* What a step leaves as it was still feeds the replica.
LEMMA FedStays ==
    ASSUME NEW x \in Actor, Fed(x),
           \A f \in Range(up[x]) : f.type = "Need" => f \in Range(up'[x]),
           relayClock' = relayClock, clock'[x] = clock[x], held'[x] = held[x],
           \A f \in Range(down[x]) \union Range(reply[x]) :
               f.type \in {"Ops", "Give"} => f \in Range(down'[x]) \union Range(reply'[x])
    PROVE  Fed(x)'
<1>1. Coming(x) \subseteq Coming(x)'
  BY ComingStays
<1>2. Claimed(relayClock)' = Claimed(relayClock) /\ Claimed(clock[x])' = Claimed(clock[x])
  BY DEF Claimed, Covers
<1>3. Waiting(x)' = Waiting(x)
  BY DEF Waiting
<1> QED
  BY <1>1, <1>2, <1>3 DEF Fed

\* A NEED sent is a NEED on the wire.
LEMMA NeedFeeds ==
    ASSUME up \in [Actor -> Seq(UpFrame)], clock' \in [Actor -> Clock], NEW r \in Actor,
           SendNeed(r)
    PROVE  Fed(r)'
<1> DEFINE need == [type |-> "Need", clock |-> clock'[r]]
<1>1. need \in UpFrame
  BY DEF UpFrame
<1>2. up'[r] = Append(up[r], need)
  BY DEF SendNeed, Send
<1>3. need \in Range(up'[r])
  BY <1>1, <1>2, RangeAppendKeeps
<1> QED
  BY <1>3 DEF Fed

\* What the buffer keeps while everything fits: all of it (CausalBuffer::admit
\* below its limit).
LEMMA NothingOverflows ==
    ASSUME Cardinality(Op) <= BufferLimit, NEW c, NEW buffer \in SUBSET Op, NEW ops \in SUBSET Op,
           NEW b \in Inserted(c, buffer, ops)
    PROVE  b = buffer \union {op \in ops : ~Covers(c, op)}
<1> DEFINE fresh == {op \in ops : ~Covers(c, op)}
<1>1. IsFiniteSet(Op)
  <2>1. 1 \in Int /\ MaxOps \in Int
    BY MaxOpsAssumption
  <2>2. IsFiniteSet(Counter)
    BY <2>1, FS_Interval DEF Counter
  <2> QED
    BY <2>2, ActorAssumption, FS_Product DEF Op
<1>2. buffer \union fresh \subseteq Op
  OBVIOUS
<1>3. Cardinality(buffer \union fresh) <= Cardinality(Op)
  BY <1>1, <1>2, FS_Subset
<1>4. Cardinality(buffer \union fresh) \in Nat /\ Cardinality(Op) \in Nat
  BY <1>1, <1>2, FS_Subset, FS_CardinalityType
<1>5. ~ (Cardinality(buffer \union fresh) > BufferLimit)
  BY <1>3, <1>4, BufferLimitAssumption
<1> QED
  BY <1>5 DEF Inserted

\* After a release the op next in line is not in the buffer: what stays waits
\* behind a hole.
LEMMA LeftoversWait ==
    ASSUME NEW c \in Clock, NEW buffer \in SUBSET Op, NEW op \in buffer
    PROVE  op[2] # ObserveAll(c, buffer)[op[1]] + 1
<1>1. PICK a \in Actor, k \in Counter : op = <<a, k>>
  BY DEF Op
<1>2. c[a] \in 0..MaxOps /\ CountersOf(a, buffer) \in SUBSET Counter
  BY DEF Clock, CountersOf
<1>3. ObserveAll(c, buffer)[a] = Extend(c[a], CountersOf(a, buffer))
  BY DEF ObserveAll
<1>4. Extend(c[a], CountersOf(a, buffer)) + 1 \notin CountersOf(a, buffer)
  BY <1>2, ExtendProps
<1>5. k \in CountersOf(a, buffer)
  BY <1>1 DEF CountersOf
<1> QED
  BY <1>1, <1>3, <1>4, <1>5

\* Receiving a batch puts every op it carries in the replica's hands.
LEMMA RecvOpsFed ==
    ASSUME FeedInv, StreamInv', Cardinality(Op) <= BufferLimit,
           NEW r \in Actor, RecvOps(r), UNCHANGED <<relayVars, faults>>
    PROVE  Fed(r)'
<1>1. /\ clock \in [Actor -> Clock] /\ clock' \in [Actor -> Clock]
      /\ held \in [Actor -> SUBSET Op] /\ relayClock \in Clock
      /\ down \in [Actor -> Seq(DownFrame)]
      /\ held[r] \in SUBSET Op /\ clock[r] \in Clock
  BY DEF FeedInv, StreamInv, TypeOK, SessionTypeOK, RelayTypeOK
<1>2. /\ Consume(r) /\ UNCHANGED <<up, reply, relayClock>>
      /\ MaySendOps(state[r])
      /\ Inbound(r).type \in {"Give", "Ops"}
  BY DEF RecvOps
<1>3. Inbound(r) \in DownFrame /\ Inbound(r).ops \in SUBSET Op
  BY <1>1, <1>2, ConsumeWire, DownFrameFields
<1> DEFINE valid == Inbound(r).ops \ Invalid
<1>4. PICK buffer \in Inserted(clock[r], held[r], valid) :
         LET ready == Released(clock[r], buffer)
         IN  /\ held' = [held EXCEPT ![r] = buffer \ ready]
             /\ clock' = [clock EXCEPT ![r] = ObserveAll(@, buffer)]
  BY DEF RecvOps
<1> DEFINE after == ObserveAll(clock[r], buffer)
<1>5. buffer = held[r] \union {op \in valid : ~Covers(clock[r], op)}
  BY <1>1, <1>3, <1>4, NothingOverflows
<1>6. buffer \in SUBSET Op
  BY <1>1, <1>3, <1>5
<1>7. clock'[r] = after /\ held'[r] = buffer \ Released(clock[r], buffer)
  BY <1>1, <1>4
<1>8. after \in Clock /\ Claimed(clock[r]) \subseteq Claimed(after)
  BY <1>1, ObserveAllProps, ClaimsGrow
<1>9. ASSUME NEW op \in buffer PROVE op \in Claimed(after) \union Waiting(r)'
  <2>1. CASE Covers(after, op)
    BY <1>6, <2>1 DEF Claimed
  <2>2. CASE ~Covers(after, op)
    <3>1. op \in held'[r]
      BY <1>7, <2>2 DEF Released
    <3>2. op[2] # after[op[1]] + 1
      BY <1>1, <1>6, LeftoversWait
    <3> QED
      BY <1>7, <3>1, <3>2 DEF Waiting
  <2> QED
    BY <2>1, <2>2
<1>10. CASE \E f \in Range(up[r]) : f.type = "Need"
  BY <1>2, <1>10 DEF Fed
<1>11. CASE Claimed(relayClock) \subseteq Claimed(clock[r]) \union Waiting(r) \union Coming(r)
  <2>1. ASSUME NEW op \in Claimed(relayClock)
        PROVE  op \in Claimed(after) \union Waiting(r)' \union Coming(r)'
    <3>1. CASE op \in Claimed(clock[r])
      BY <1>8, <3>1
    <3>2. CASE op \in Waiting(r)
      BY <1>5, <1>9, <3>2 DEF Waiting
    <3>3. CASE op \in Coming(r) /\ op \notin Claimed(clock[r])
      <4>1. PICK f \in Range(down[r]) \union Range(reply[r]) :
               f.type \in {"Ops", "Give"} /\ op \in f.ops
        BY <3>3 DEF Coming
      <4>2. CASE f = Inbound(r)
        <5>1. op \notin Invalid /\ op \in Op
          BY DEF FeedInv, StreamInv, WatermarkHonest, Claimed
        <5>2. op \in buffer
          BY <1>5, <3>3, <4>1, <4>2, <5>1 DEF Claimed
        <5> QED
          BY <1>9, <5>2
      <4>3. CASE f # Inbound(r)
        <5>1. f \in Range(down'[r]) \union Range(reply'[r])
          BY <1>1, <1>2, <4>1, <4>3, ConsumeKeeps
        <5> QED
          BY <4>1, <5>1 DEF Coming
      <4> QED
        BY <4>2, <4>3
    <3> QED
      BY <1>11, <3>1, <3>2, <3>3
  <2>2. Claimed(relayClock)' = Claimed(relayClock) /\ Claimed(clock[r])' = Claimed(after)
    BY <1>2, <1>7 DEF Claimed, Covers
  <2> QED
    BY <2>1, <2>2 DEF Fed
<1> QED
  BY <1>2, <1>10, <1>11 DEF FeedInv, Fed

\* An edit lets nothing the relay sends go unaccounted for.
LEMMA EditFed ==
    ASSUME FeedInv, StreamInv', NEW r \in Actor, MaySendOps(state[r]), Edit(r),
           clock' = [clock EXCEPT ![r][r] = minted[r] + 1], UNCHANGED <<relayVars, faults>>
    PROVE  Fed(r)'
<1>1. /\ clock \in [Actor -> Clock] /\ clock[r] \in Clock /\ clock'[r] \in Clock
      /\ DOMAIN clock[r] = Actor
      /\ up \in [Actor -> Seq(UpFrame)] /\ queue' \in [Actor -> SUBSET Op]
      /\ minted \in [Actor -> 0..MaxOps] /\ clock[r][r] = minted[r]
      /\ \A a \in Actor : clock[r][a] \in 0..MaxOps
  BY DEF FeedInv, StreamInv, TypeOK, SessionTypeOK, PrefixOfAuthor, Clock
<1>2. \A a \in Actor : clock'[r][a] = IF a = r THEN minted[r] + 1 ELSE clock[r][a]
  BY <1>1
<1>3. Claimed(clock[r]) \subseteq Claimed(clock'[r])
  <2>1. \A a \in Actor : clock[r][a] <= clock'[r][a]
    BY <1>1, <1>2
  <2> QED
    BY <1>1, <2>1, ClaimsGrow
<1>4. UNCHANGED <<held, down, reply, relayClock>>
  BY DEF Edit
<1>5. Range(up[r]) \subseteq Range(up'[r])
  <2>1. SendOps(r, queue'[r] \ sent[r])
    BY DEF Edit
  <2>2. queue'[r] \ sent[r] \in SUBSET Op
    BY <1>1
  <2> HIDE DEF Edit
  <2>3. CASE UNCHANGED up
    BY <2>3
  <2>4. CASE Send(r, OpsFrame(queue'[r] \ sent[r]))
    <3>1. OpsFrame(queue'[r] \ sent[r]) \in UpFrame
      BY <2>2, OpsFrameType
    <3>2. up'[r] = Append(up[r], OpsFrame(queue'[r] \ sent[r]))
      BY <1>1, <2>4 DEF Send
    <3> QED
      BY <1>1, <3>1, <3>2, RangeAppendKeeps
  <2> QED
    BY <2>1, <2>3, <2>4 DEF SendOps
<1>6. Waiting(r) \subseteq Claimed(clock'[r]) \union Waiting(r)'
  <2> SUFFICES ASSUME NEW op \in Waiting(r) PROVE op \in Claimed(clock'[r]) \union Waiting(r)'
    OBVIOUS
  <2>1. op \in held[r] /\ op[2] # clock[r][op[1]] + 1 /\ op \in Minted
    BY DEF Waiting, FeedInv, StreamInv, OnlyMinted
  <2>2. PICK a \in Actor, k \in Counter : op = <<a, k>> /\ op \in Op /\ k <= minted[a]
    BY <2>1 DEF Minted, Op
  <2>3. CASE a = r
    <3>1. k \in Int /\ minted[r] \in Int
      BY <1>1 DEF Counter
    <3>2. k <= clock'[r][a]
      BY <1>2, <2>2, <2>3, <3>1
    <3> QED
      BY <2>2, <3>2 DEF Claimed, Covers
  <2>4. CASE a # r
    BY <1>2, <1>4, <2>1, <2>2, <2>4 DEF Waiting
  <2> QED
    BY <2>3, <2>4
<1>7. Coming(r)' = Coming(r) /\ Claimed(relayClock)' = Claimed(relayClock)
  BY <1>4 DEF Coming, Claimed, Covers
<1>8. Fed(r)
  BY DEF FeedInv
<1> QED
  BY <1>3, <1>5, <1>6, <1>7, <1>8 DEF Fed, Claimed, Covers

\* The relay answers a NEED with everything it claims and the peer lacks.
LEMMA NeedAnswered ==
    ASSUME FeedInv, StreamInv', NEW r \in Actor, HandleNeed(r), UNCHANGED <<sessionVars, replicaVars, faults>>
    PROVE  Fed(r)'
<1>1. /\ clock \in [Actor -> Clock] /\ relayClock \in Clock
      /\ up \in [Actor -> Seq(UpFrame)] /\ reply \in [Actor -> Seq(DownFrame)]
      /\ retained \subseteq Op
  BY DEF FeedInv, StreamInv, TypeOK, SessionTypeOK, RelayTypeOK
<1>2. Take(r) /\ Head(up[r]).type = "Need" /\ UNCHANGED <<clock, held, down, retained, relayClock>>
  BY DEF HandleNeed
<1>3. PICK missing : missing = Missing(Head(up[r]).clock)
  OBVIOUS
<1> DEFINE give   == [type |-> "Give", ops |-> missing]
           gives  == IF missing = {} THEN <<>> ELSE <<give>>
           insync == [type |-> "InSync"]
<1>4. missing \in SUBSET Op
  BY <1>1, <1>3 DEF Missing
<1>5. give \in DownFrame /\ insync \in DownFrame
  BY <1>4 DEF DownFrame
<1>6. gives \in Seq(DownFrame) /\ (missing # {} => give \in Range(gives))
  BY <1>5 DEF Range
<1>7. reply'[r] = Append(gives, insync)
  BY <1>1, <1>3 DEF HandleNeed, Reply
<1>8. missing # {} => give \in Range(reply'[r])
  <2> HIDE DEF gives, give, insync
  <2> QED
    BY <1>5, <1>6, <1>7, RangeAppendKeeps
<1>9. missing \subseteq Coming(r)'
  BY <1>8 DEF Coming
<1>10. Claimed(Head(up[r]).clock) \subseteq Claimed(clock[r])
  <2>1. Head(up[r]) \in UpFrame /\ Head(up[r]) \in Range(up[r])
    BY <1>1, <1>2, TakeWire
  <2>2. Head(up[r]).clock \in Clock
    BY <1>2, <2>1, UpFrameFields
  <2>3. \A a \in Actor : Head(up[r]).clock[a] <= clock[r][a]
    BY <1>2, <2>1 DEF FeedInv, NeedsHonest
  <2> QED
    BY <1>1, <2>2, <2>3, ClaimsGrow
<1>11. Claimed(relayClock) \subseteq Claimed(clock[r]) \union missing
  BY <1>1, <1>3, <1>10 DEF FeedInv, StreamInv, WatermarkHonest, Missing, Claimed
<1> QED
  BY <1>2, <1>9, <1>11 DEF Fed, Claimed, Covers

\* A batch the relay admits is fanned out to every other session, and its
\* author has it.
LEMMA HandleOpsFed ==
    ASSUME FeedInv, StreamInv', NEW r \in Actor, NEW refused, HandleOps(r, refused),
           UNCHANGED <<sessionVars, replicaVars>>, NEW x \in Actor, MaySendOps(state[x])
    PROVE  Fed(x)'
<1>1. /\ clock \in [Actor -> Clock] /\ relayClock \in Clock /\ relayClock' \in Clock
      /\ up \in [Actor -> Seq(UpFrame)] /\ down \in [Actor -> Seq(DownFrame)]
      /\ reply \in [Actor -> Seq(DownFrame)] /\ reply' \in [Actor -> Seq(DownFrame)]
      /\ minted \in [Actor -> 0..MaxOps]
  BY DEF FeedInv, StreamInv, TypeOK, SessionTypeOK, RelayTypeOK
<1>2. PICK admitted : admitted = Admitted(r, Head(up[r]).ops, refused)
  OBVIOUS
<1> DEFINE fresh == admitted \ retained
<1>3. /\ Take(r) /\ Head(up[r]).type = "Ops"
      /\ relayClock' = ObserveAll(relayClock, fresh)
      /\ Fanout(r, admitted)
      /\ \E frames : Reply(r, frames)
      /\ UNCHANGED <<clock, held, state>>
  BY <1>2 DEF HandleOps, Watermark
<1>4. Head(up[r]) \in UpFrame /\ Head(up[r]) \in Range(up[r])
  BY <1>1, <1>3, TakeWire
<1>5. admitted \in SUBSET Op /\ admitted \subseteq Minted /\ \A op \in admitted : op[1] = r
  BY <1>2, <1>3, <1>4 DEF Admitted, FeedInv, StreamInv, WireHonest, InFlight, Honest, Minted
<1>6. Claimed(relayClock') \subseteq Claimed(relayClock) \union fresh
  BY <1>1, <1>3, ObserveAllProps DEF Claimed
<1>7. \A f \in Range(up[x]) : f.type = "Need" => f \in Range(up'[x])
  BY <1>1, <1>3, TakeKeeps
<1>8. Range(reply[x]) \subseteq Range(reply'[x])
  <2>1. CASE x = r
    BY <1>3, <2>1, RangeEmpty DEF Take
  <2>2. CASE x # r
    BY <1>1, <1>3, <2>2 DEF Reply
  <2> QED
    BY <2>1, <2>2
<1>9. OpsFrame(admitted) \in DownFrame
  BY <1>5, OpsFrameType
<1>10. Range(down[x]) \subseteq Range(down'[x])
  <2>1. down'[x] = down[x] \/ down'[x] = Append(down[x], OpsFrame(admitted))
    BY <1>1, <1>3 DEF Fanout
  <2> QED
    BY <1>1, <1>9, <2>1, RangeAppendKeeps
<1>11. Coming(x) \subseteq Coming(x)'
  BY <1>8, <1>10, ComingStays
<1>12. fresh \subseteq Claimed(clock[x]) \union Coming(x)'
  <2>1. CASE x = r
    <3>1. ASSUME NEW op \in fresh PROVE op \in Claimed(clock[r])
      <4>1. op \in Op /\ op[1] = r /\ op[2] <= minted[r]
        BY <1>5 DEF Minted
      <4> QED
        BY <4>1 DEF Claimed, Covers, FeedInv, StreamInv, PrefixOfAuthor
    <3> QED
      BY <2>1, <3>1
  <2>2. CASE x # r
    <3>1. x \in Connected
      BY DEF Connected, MaySendOps
    <3>2. CASE admitted = {}
      BY <3>2
    <3>3. CASE admitted # {}
      <4>1. down'[x] = Append(down[x], OpsFrame(admitted))
        BY <1>1, <1>3, <2>2, <3>1, <3>3 DEF Fanout
      <4>2. OpsFrame(admitted) \in Range(down'[x])
        BY <1>1, <1>9, <4>1, RangeAppendKeeps
      <4>3. admitted \subseteq Coming(x)'
        BY <4>2 DEF Coming, OpsFrame
      <4> QED
        BY <4>3
    <3> QED
      BY <3>2, <3>3
  <2> QED
    BY <2>1, <2>2
<1>13. Fed(x)
  BY DEF FeedInv
<1>14. CASE \E f \in Range(up[x]) : f.type = "Need"
  BY <1>7, <1>14 DEF Fed
<1>15. CASE Claimed(relayClock) \subseteq Claimed(clock[x]) \union Waiting(x) \union Coming(x)
  <2>1. Claimed(relayClock') \subseteq Claimed(clock[x]) \union Waiting(x) \union Coming(x)'
    <3> HIDE DEF fresh
    <3> QED
      BY <1>6, <1>11, <1>12, <1>15
  <2>2. Waiting(x)' = Waiting(x) /\ Claimed(clock[x])' = Claimed(clock[x])
        /\ Claimed(relayClock)' = Claimed(relayClock')
    BY <1>3 DEF Waiting, Claimed, Covers
  <2> QED
    BY <2>1, <2>2 DEF Fed
<1> QED
  BY <1>13, <1>14, <1>15 DEF Fed

\* A replica's own step leaves it fed, if it leaves it in session.
LEMMA ReplicaFed ==
    ASSUME FeedInv, StreamInv', Cardinality(Op) <= BufferLimit,
           NEW r \in Actor, ReplicaStep(r), MaySendOps(state'[r])
    PROVE  Fed(r)'
<1>1. /\ state \in [Actor -> SyncState] /\ clock' \in [Actor -> Clock]
      /\ up \in [Actor -> Seq(UpFrame)] /\ down \in [Actor -> Seq(DownFrame)]
      /\ reply' = reply
  BY DEF FeedInv, StreamInv, TypeOK, SessionTypeOK, ReplicaStep
<1>2. UNCHANGED <<relayVars, faults>>
  BY DEF ReplicaStep
<1>3. CASE Connect(r) \/ Resume(r)
  <2>1. ~OpenSession(r)
    BY <1>1 DEF OpenSession, Goto, MaySendOps
  <2>2. UNCHANGED <<state, up, down, clock, held>>
    BY <1>3, <2>1 DEF Connect, Resume
  <2> QED
    BY <1>2, <2>2, FedStays DEF FeedInv
<1>4. CASE Edit(r)
  BY <1>2, <1>4, EditStream, EditFed DEF FeedInv, Edit, StreamInv
<1>5. CASE RecvHelloAck(r)
  BY <1>1, <1>5, NeedFeeds DEF RecvHelloAck
<1>6. CASE RecvHelloReject(r)
  BY <1>1, <1>6 DEF RecvHelloReject, Goto, MaySendOps
<1>7. CASE RecvOps(r)
  BY <1>2, <1>7, RecvOpsFed
<1>8. CASE RecvAck(r) \/ RecvInSync(r) \/ Discard(r)
  <2>1. Consume(r) /\ UNCHANGED <<clock, held, relayClock>> /\ MaySendOps(state[r])
    BY <1>1, <1>2, <1>8 DEF RecvAck, RecvInSync, Discard, MaySendOps
  <2>2. Inbound(r).type \notin {"Ops", "Give"}
    BY <1>8, <2>1 DEF RecvAck, RecvInSync, Discard, Expected
  <2>3. \A f \in Range(down[r]) \union Range(reply[r]) :
            f.type \in {"Ops", "Give"} => f \in Range(down'[r]) \union Range(reply'[r])
    BY <1>1, <2>1, <2>2, ConsumeKeeps
  <2>4. Range(up[r]) \subseteq Range(up'[r])
    <3>1. up' = up \/ SendOps(r, queue[r] \ sent[r])
      BY <1>8 DEF RecvAck, RecvInSync, Discard
    <3>2. CASE Send(r, OpsFrame(queue[r] \ sent[r]))
      <4>1. queue[r] \ sent[r] \in SUBSET Op
        BY DEF FeedInv, StreamInv, TypeOK, SessionTypeOK
      <4>2. OpsFrame(queue[r] \ sent[r]) \in UpFrame
        BY <4>1, OpsFrameType
      <4>3. up'[r] = Append(up[r], OpsFrame(queue[r] \ sent[r]))
        BY <1>1, <3>2 DEF Send
      <4> QED
        BY <1>1, <4>2, <4>3, RangeAppendKeeps
    <3> QED
      BY <3>1, <3>2 DEF SendOps
  <2> QED
    BY <2>1, <2>3, <2>4, FedStays DEF FeedInv
<1> QED
  BY <1>3, <1>4, <1>5, <1>6, <1>7, <1>8 DEF ReplicaStep, Receive

\* A replica's step is nothing to another's session.
LEMMA OthersUntouched ==
    ASSUME TypeOK, NEW r \in Actor, ReplicaStep(r), NEW x \in Actor \ {r}
    PROVE  /\ state'[x] = state[x] /\ clock'[x] = clock[x] /\ held'[x] = held[x]
           /\ queue'[x] = queue[x] /\ sent'[x] = sent[x]
           /\ up'[x] = up[x] /\ down'[x] = down[x]
           /\ UNCHANGED <<relayVars, faults>>
<1>1. ReplicaStep(r) => UNCHANGED <<relayVars, faults>>
  BY DEF ReplicaStep
<1>2. /\ state'[x] = state[x] /\ clock'[x] = clock[x] /\ held'[x] = held[x]
      /\ queue'[x] = queue[x] /\ sent'[x] = sent[x]
  BY DEF TypeOK, SessionTypeOK, ReplicaStep, Connect, Resume, Edit, Receive, RecvHelloAck, RecvHelloReject,
         RecvOps, RecvAck, RecvInSync, Discard, OpenSession, Goto
<1>3. up'[x] = up[x]
  BY DEF TypeOK, SessionTypeOK, ReplicaStep, Connect, Resume, Edit, Receive, RecvHelloAck, RecvHelloReject,
         RecvOps, RecvAck, RecvInSync, Discard, OpenSession, Send, SendOps, SendNeed
<1>4. down'[x] = down[x]
  BY DEF TypeOK, SessionTypeOK, ReplicaStep, Connect, Resume, Edit, Receive, RecvHelloAck, RecvHelloReject,
         RecvOps, RecvAck, RecvInSync, Discard, Consume
<1> QED
  BY <1>1, <1>2, <1>3, <1>4

\* The relay's steps leave every session fed.
LEMMA RelayFed ==
    ASSUME FeedInv, StreamInv', NEW r \in Actor, RelayStep(r), NEW x \in Actor, MaySendOps(state[x])
    PROVE  Fed(x)'
<1>1. /\ up \in [Actor -> Seq(UpFrame)] /\ down \in [Actor -> Seq(DownFrame)]
      /\ reply \in [Actor -> Seq(DownFrame)]
      /\ UNCHANGED <<clock, held>> /\ Fed(x)
  BY DEF FeedInv, StreamInv, TypeOK, SessionTypeOK, RelayTypeOK, RelayStep
<1>2. ASSUME Take(r), \E frames : Reply(r, frames)
      PROVE  Range(reply[x]) \subseteq Range(reply'[x])
  BY <1>1, <1>2, RangeEmpty DEF Take, Reply
<1>3. CASE HandleHello(r)
  <2>1. \A f \in Range(up[x]) : f.type = "Need" => f \in Range(up'[x])
    BY <1>1, <1>3, TakeKeeps DEF HandleHello
  <2> QED
    BY <1>1, <1>2, <1>3, <2>1, FedStays DEF HandleHello
<1>4. CASE HandleNeed(r)
  <2>1. CASE x = r
    BY <1>4, <2>1, NeedAnswered DEF RelayStep
  <2>2. CASE x # r
    <3>1. up'[x] = up[x]
      BY <1>1, <1>4, <2>2, TakeKeeps DEF HandleNeed
    <3> QED
      BY <1>1, <1>2, <1>4, <3>1, FedStays DEF HandleNeed
  <2> QED
    BY <2>1, <2>2
<1>5. CASE HandleOps(r, {})
  BY <1>5, HandleOpsFed DEF RelayStep
<1>6. CASE FlushReply(r)
  <2>1. Range(down[x]) \union Range(reply[x]) \subseteq Range(down'[x]) \union Range(reply'[x])
    <3>1. CASE x = r
      <4>1. down'[r] = down[r] \o reply[r]
        BY <1>1, <1>6 DEF FlushReply
      <4> QED
        BY <1>1, <3>1, <4>1, RangeConcatKeeps
    <3>2. CASE x # r
      BY <1>1, <1>6, <3>2 DEF FlushReply
    <3> QED
      BY <3>1, <3>2
  <2> QED
    BY <1>1, <1>6, <2>1, FedStays DEF FlushReply
<1> QED
  BY <1>3, <1>4, <1>5, <1>6 DEF RelayStep

\* Failures take sessions away or leave them fed.
LEMMA FailureFed ==
    ASSUME FeedInv, StreamInv', NEW r \in Actor,
           Refuse(r) \/ Break(r) \/ Crash(r) \/ RevokeAuth(r) \/ GoStale(r) \/ CompleteRebase(r),
           NEW x \in Actor, MaySendOps(state'[x])
    PROVE  Fed(x)'
<1>1. /\ state \in [Actor -> SyncState] /\ clock \in [Actor -> Clock] /\ clock' \in [Actor -> Clock]
      /\ held \in [Actor -> SUBSET Op]
      /\ up \in [Actor -> Seq(UpFrame)] /\ down \in [Actor -> Seq(DownFrame)]
      /\ reply \in [Actor -> Seq(DownFrame)]
  BY DEF FeedInv, StreamInv, TypeOK, SessionTypeOK, RelayTypeOK
<1>2. ASSUME x # r, MaySendOps(state[x]), clock'[x] = clock[x], held'[x] = held[x], up'[x] = up[x],
             down'[x] = down[x], reply'[x] = reply[x], relayClock' = relayClock
      PROVE  Fed(x)'
  BY <1>2, FedStays DEF FeedInv
<1>3. CASE Refuse(r)
  <2>1. PICK refused : HandleOps(r, refused)
    BY <1>3 DEF Refuse
  <2>2. UNCHANGED <<sessionVars, replicaVars>>
    BY <1>3 DEF Refuse
  <2> QED
    BY <2>1, <2>2, HandleOpsFed
<1>4. CASE Break(r)
  BY <1>1, <1>2, <1>4 DEF Break, LoseTransport, MaySendOps
<1>5. CASE Crash(r)
  BY <1>1, <1>2, <1>5 DEF Crash, Recover, MaySendOps
<1>6. CASE RevokeAuth(r)
  BY <1>1, <1>2, <1>6 DEF RevokeAuth, Revoke, Goto, MaySendOps
<1>7. CASE GoStale(r)
  BY <1>1, <1>2, <1>7 DEF GoStale, Staleness, Goto, MaySendOps
<1>8. CASE CompleteRebase(r)
  <2>1. CASE x = r
    BY <1>1, <1>8, <2>1, NeedFeeds DEF CompleteRebase, Rebase
  <2>2. CASE x # r
    BY <1>1, <1>2, <1>8, <2>2 DEF CompleteRebase, Rebase, Goto, SendNeed, Send
  <2> QED
    BY <2>1, <2>2
<1> QED
  BY <1>3, <1>4, <1>5, <1>6, <1>7, <1>8

\* A NEED on the wire was there before or states its sender's clock.
LEMMA NeedsStay ==
    ASSUME TypeOK, TypeOK', Next, NEW x \in Actor, NEW f \in Range(up'[x]), f.type = "Need"
    PROVE  f \in Range(up[x]) \/ f.clock = clock'[x]
<1>1. /\ up \in [Actor -> Seq(UpFrame)] /\ clock' \in [Actor -> Clock]
      /\ queue \in [Actor -> SUBSET Op] /\ queue' \in [Actor -> SUBSET Op]
  BY DEF TypeOK, SessionTypeOK
<1>2. ASSUME NEW r \in Actor, OpenSession(r)
      PROVE  f \in Range(up[x])
  <2>1. [type |-> "Hello"] \in UpFrame
    BY DEF UpFrame
  <2>2. Range(up'[x]) \subseteq Range(up[x]) \union {[type |-> "Hello"]}
    BY <1>1, <1>2, <2>1, SendWire DEF OpenSession
  <2> QED
    BY <2>2
<1>3. ASSUME NEW r \in Actor, NEW ops \in SUBSET Op, SendOps(r, ops)
      PROVE  f \in Range(up[x])
  BY <1>1, <1>3, SendOpsWire DEF OpsFrame
<1>4. ASSUME NEW r \in Actor, SendNeed(r)
      PROVE  f \in Range(up[x]) \/ f.clock = clock'[x]
  <2>1. [type |-> "Need", clock |-> clock'[r]] \in UpFrame
    BY <1>1 DEF UpFrame
  <2>2. up' = [up EXCEPT ![r] = Append(@, [type |-> "Need", clock |-> clock'[r]])]
    BY <1>4 DEF SendNeed, Send
  <2>3. CASE x = r
    <3>1. Range(up'[r]) \subseteq Range(up[r]) \union {[type |-> "Need", clock |-> clock'[r]]}
      BY <1>1, <2>1, <1>4, SendWire DEF SendNeed
    <3> QED
      BY <2>3, <3>1
  <2>4. CASE x # r
    BY <1>1, <2>2, <2>4
  <2> QED
    BY <2>3, <2>4
<1>5. ASSUME NEW r \in Actor, ReplicaStep(r)
      PROVE  f \in Range(up[x]) \/ f.clock = clock'[x]
  <2>1. CASE up' = up
    BY <2>1
  <2>2. queue'[r] \ sent[r] \in SUBSET Op /\ queue[r] \ sent[r] \in SUBSET Op
    BY <1>1
  <2>3. \/ up' = up \/ OpenSession(r) \/ SendNeed(r)
        \/ SendOps(r, queue'[r] \ sent[r]) \/ SendOps(r, queue[r] \ sent[r])
    BY <1>5 DEF ReplicaStep, Connect, Resume, Edit, Receive, RecvHelloAck, RecvHelloReject,
                RecvOps, RecvAck, RecvInSync, Discard
  <2> QED
    BY <1>2, <1>3, <1>4, <2>1, <2>2, <2>3
<1>6. ASSUME NEW r \in Actor, RelayStep(r) \/ Refuse(r)
      PROVE  f \in Range(up[x])
  <2>1. Take(r) \/ up' = up
    BY <1>6 DEF RelayStep, Refuse, HandleHello, HandleNeed, HandleOps, FlushReply
  <2> QED
    BY <1>1, <2>1, TakeWire
<1>7. ASSUME NEW r \in Actor, Break(r) \/ Crash(r)
      PROVE  f \in Range(up[x])
  BY <1>1, <1>7, CutUpWire DEF Break, Crash
<1>8. ASSUME NEW r \in Actor, RevokeAuth(r) \/ GoStale(r)
      PROVE  f \in Range(up[x])
  BY <1>8 DEF RevokeAuth, Revoke, GoStale, Staleness
<1>9. ASSUME NEW r \in Actor, CompleteRebase(r)
      PROVE  f \in Range(up[x]) \/ f.clock = clock'[x]
  BY <1>4, <1>9 DEF CompleteRebase, Rebase
<1>10. ~Restart
  BY RangeEmpty DEF Restart
<1> QED
  BY <1>5, <1>6, <1>7, <1>8, <1>9, <1>10 DEF Next

\* The relay retains no op that fails validation (Relay::submit).
LEMMA RetainedValid ==
    ASSUME retained \intersect Invalid = {}, [Next]_vars
    PROVE  retained' \intersect Invalid = {}
<1>1. ASSUME NEW r \in Actor, NEW refused, HandleOps(r, refused)
      PROVE  retained' \intersect Invalid = {}
  BY <1>1 DEF HandleOps, Admitted
<1>2. CASE Restart
  BY <1>2 DEF Restart
<1>3. ASSUME NEW r \in Actor, RelayStep(r) PROVE retained' \intersect Invalid = {}
  BY <1>1, <1>3 DEF RelayStep, HandleHello, HandleNeed, FlushReply
<1>4. ASSUME NEW r \in Actor, Refuse(r) PROVE retained' \intersect Invalid = {}
  BY <1>1, <1>4 DEF Refuse
<1>5. ASSUME NEW r \in Actor,
             \/ ReplicaStep(r) \/ Break(r) \/ Crash(r) \/ RevokeAuth(r) \/ GoStale(r)
             \/ CompleteRebase(r)
      PROVE  retained' = retained
  BY <1>5 DEF ReplicaStep, Break, Crash, RevokeAuth, GoStale, CompleteRebase
<1>6. CASE UNCHANGED vars
  BY <1>6 DEF vars
<1> QED
  BY <1>2, <1>3, <1>4, <1>5, <1>6 DEF Next

\* The feeding invariant is inductive while a catch-up fits the buffer.
LEMMA FeedStep ==
    ASSUME Cardinality(Op) <= BufferLimit, FeedInv, [Next]_vars
    PROVE  FeedInv'
<1>1. StreamInv' /\ \A x, a \in Actor : clock[x][a] <= clock'[x][a]
  BY ClockGrows DEF FeedInv
<1>2. TypeOK /\ TypeOK' /\ clock \in [Actor -> Clock] /\ clock' \in [Actor -> Clock]
      /\ up \in [Actor -> Seq(UpFrame)]
  BY <1>1 DEF FeedInv, StreamInv, TypeOK, SessionTypeOK
<1>3. NeedsHonest'
  <2> SUFFICES ASSUME NEW x \in Actor, NEW f \in Range(up'[x]), f.type = "Need", NEW a \in Actor
               PROVE  f.clock[a] <= clock'[x][a]
    BY DEF NeedsHonest
  <2>1. clock[x][a] \in Int /\ clock'[x][a] \in Int
    BY <1>2, MaxOpsAssumption DEF Clock
  <2>2. f \in Range(up[x]) \/ f.clock = clock'[x]
    <3>1. CASE Next
      BY <1>2, <3>1, NeedsStay
    <3>2. CASE UNCHANGED vars
      BY <3>2 DEF vars
    <3> QED
      BY <3>1, <3>2
  <2>3. CASE f \in Range(up[x])
    <3>1. f.clock[a] <= clock[x][a]
      BY <2>3 DEF FeedInv, NeedsHonest
    <3>2. f \in UpFrame
      BY <1>2, <2>3 DEF Range
    <3>3. f.clock[a] \in Int
      BY <3>2, UpFrameFields, MaxOpsAssumption DEF Clock
    <3> QED
      BY <1>1, <2>1, <3>1, <3>3
  <2>4. CASE f.clock = clock'[x]
    BY <2>1, <2>4
  <2> QED
    BY <2>2, <2>3, <2>4
<1>4. ASSUME NEW x \in Actor, MaySendOps(state'[x])
      PROVE  Fed(x)'
  <2>1. CASE Restart
    <3>1. Claimed(EmptyClock) = {}
      BY MaxOpsAssumption DEF Claimed, Covers, EmptyClock, Op, Counter
    <3> QED
      BY <2>1, <3>1 DEF Restart, Fed, Claimed, Covers
  <2>2. ASSUME NEW r \in Actor, ReplicaStep(r) PROVE Fed(x)'
    <3>1. CASE x = r
      BY <1>1, <1>4, <2>2, <3>1, ReplicaFed
    <3>2. CASE x # r
      <4>1. /\ state'[x] = state[x] /\ clock'[x] = clock[x] /\ held'[x] = held[x]
            /\ up'[x] = up[x] /\ down'[x] = down[x]
            /\ UNCHANGED <<relayVars, faults>>
        BY <1>2, <2>2, <3>2, OthersUntouched
      <4> QED
        BY <1>4, <4>1, FedStays DEF FeedInv
    <3> QED
      BY <3>1, <3>2
  <2>3. ASSUME NEW r \in Actor, RelayStep(r) PROVE Fed(x)'
    BY <1>1, <1>4, <2>3, RelayFed DEF RelayStep
  <2>4. ASSUME NEW r \in Actor,
               Refuse(r) \/ Break(r) \/ Crash(r) \/ RevokeAuth(r) \/ GoStale(r) \/ CompleteRebase(r)
        PROVE  Fed(x)'
    BY <1>1, <1>4, <2>4, FailureFed
  <2>5. CASE UNCHANGED vars
    BY <1>4, <2>5, FedStays DEF vars, FeedInv
  <2> QED
    BY <2>1, <2>2, <2>3, <2>4, <2>5 DEF Next
<1> QED
  BY <1>1, <1>3, <1>4, RetainedValid DEF FeedInv

\* A link gone quiet in LIVE hides nothing: the replica has every op the relay's
\* clock claims, through holes, reordered batches, echoes to the author, lost
\* links, crashes, revocation, rebase and relay restarts, while the causal
\* buffer has room for a catch-up.
THEOREM QuietIsCaughtUp == Spec => []QuietMeansCaughtUp
<1>1. Init => FeedInv
  BY InitStream, RangeEmpty
  DEF Init, SessionInit, RelayInit, FeedInv, NeedsHonest, MaySendOps
<1>2. Cardinality(Op) <= BufferLimit /\ FeedInv /\ [Next]_vars => FeedInv'
  BY FeedStep
<1>3. FeedInv => QuietMeansCaughtUp
  <2> SUFFICES ASSUME FeedInv, NEW r \in Actor, Quiet(r), NEW a \in Actor
               PROVE  relayClock[a] <= clock[r][a]
    BY DEF QuietMeansCaughtUp, CaughtUp
  <2>1. /\ clock[r][a] \in 0..MaxOps /\ relayClock[a] \in 0..MaxOps
    BY DEF FeedInv, StreamInv, TypeOK, SessionTypeOK, RelayTypeOK, Clock
  <2>2. Coming(r) = {} /\ ~\E f \in Range(up[r]) : f.type = "Need"
    BY RangeEmpty DEF Quiet, Coming
  <2>3. Claimed(relayClock) \subseteq Claimed(clock[r]) \union Waiting(r)
    BY <2>2 DEF FeedInv, Fed, Quiet, MaySendOps
  <2> SUFFICES ASSUME clock[r][a] < relayClock[a] PROVE FALSE
    BY <2>1
  <2> DEFINE op == <<a, clock[r][a] + 1>>
  <2>4. op \in Claimed(relayClock) /\ op \notin Claimed(clock[r])
    BY <2>1, MaxOpsAssumption DEF Claimed, Covers, Op, Counter
  <2>5. op \notin Waiting(r)
    BY DEF Waiting
  <2> QED
    BY <2>3, <2>4, <2>5
<1>4. CASE Cardinality(Op) <= BufferLimit
  BY <1>1, <1>2, <1>3, <1>4, PTL DEF Spec
<1>5. CASE ~(Cardinality(Op) <= BufferLimit)
  <2>1. QuietMeansCaughtUp
    BY <1>5 DEF QuietMeansCaughtUp
  <2> QED
    BY <2>1, PTL
<1> QED
  BY <1>4, <1>5

-----------------------------------------------------------------------------
(* Draining.                                                               *)

\* Frames sent later take nothing from what the earlier ones offer.
LEMMA OpsAmongAppend ==
    ASSUME NEW s \in Seq(UpFrame), NEW f \in UpFrame
    PROVE  /\ \A i \in 0..Len(s) : OpsAmong(Append(s, f), i) = OpsAmong(s, i)
           /\ OpsAmong(s, Len(s)) \subseteq OpsAmong(Append(s, f), Len(s) + 1)
           /\ f.type = "Ops" => f.ops \subseteq OpsAmong(Append(s, f), Len(s) + 1)
           /\ Len(Append(s, f)) = Len(s) + 1
<1>1. /\ Len(s) \in Nat /\ Len(Append(s, f)) = Len(s) + 1
      /\ \A j \in 1..Len(s) : Append(s, f)[j] = s[j]
      /\ Append(s, f)[Len(s) + 1] = f
  OBVIOUS
<1>2. ASSUME NEW i \in 0..Len(s) PROVE OpsAmong(Append(s, f), i) = OpsAmong(s, i)
  <2>1. \A j \in 1..i : j \in 1..Len(s)
    BY <1>1
  <2> QED
    BY <1>1, <2>1 DEF OpsAmong
<1>3. 1..Len(s) \subseteq 1..Len(s) + 1 /\ Len(s) + 1 \in 1..Len(s) + 1
  BY <1>1
<1>4. OpsAmong(s, Len(s)) \subseteq OpsAmong(Append(s, f), Len(s) + 1)
  BY <1>1, <1>3 DEF OpsAmong
<1>5. f.type = "Ops" => f.ops \subseteq OpsAmong(Append(s, f), Len(s) + 1)
  BY <1>1, <1>3 DEF OpsAmong
<1> QED
  BY <1>1, <1>2, <1>4, <1>5

\* What frames offer, the oldest or the rest of them offer.
LEMMA OpsAmongTail ==
    ASSUME NEW s \in Seq(UpFrame), s # <<>>, NEW i \in 0..Len(Tail(s))
    PROVE  OpsAmong(s, i + 1) \subseteq
               OpsAmong(Tail(s), i) \union (IF Head(s).type = "Ops" THEN Head(s).ops ELSE {})
<1>1. /\ Len(s) \in Nat /\ Len(Tail(s)) = Len(s) - 1
      /\ \A j \in 1..Len(Tail(s)) : Tail(s)[j] = s[j + 1]
      /\ Head(s) = s[1]
  BY HeadTailProperties
<1>2. ASSUME NEW j \in 1..i + 1, s[j].type = "Ops", j # 1
      PROVE  s[j].ops \subseteq OpsAmong(Tail(s), i)
  <2>1. j - 1 \in 1..i /\ j - 1 \in 1..Len(Tail(s)) /\ (j - 1) + 1 = j
    BY <1>1, <1>2
  <2>2. Tail(s)[j - 1] = s[j]
    BY <1>1, <2>1
  <2> QED
    BY <1>2, <2>1, <2>2 DEF OpsAmong
<1>3. ASSUME NEW op \in OpsAmong(s, i + 1), op \notin OpsAmong(Tail(s), i)
      PROVE  Head(s).type = "Ops" /\ op \in Head(s).ops
  <2>1. PICK j \in 1..i + 1 : s[j].type = "Ops" /\ op \in s[j].ops
    BY <1>3 DEF OpsAmong
  <2>2. j = 1
    BY <1>2, <1>3, <2>1
  <2> QED
    BY <1>1, <2>1, <2>2
<1> QED
  BY <1>3

\* Sending the next part of the stream leaves no hole.
LEMMA GaplessAppend ==
    ASSUME NEW r, NEW kept, NEW s \in Seq(UpFrame), NEW f \in UpFrame, Gapless(r, s, kept),
           f.type = "Ops" => \A op \in f.ops :
               /\ op[1] = r /\ op[2] \in Nat
               /\ \A n \in 1..op[2] : <<r, n>> \in kept \union OpsAmong(s, Len(s)) \union f.ops
    PROVE  Gapless(r, Append(s, f), kept)
<1>1. /\ Len(s) \in Nat /\ Len(Append(s, f)) = Len(s) + 1
      /\ \A j \in 1..Len(s) : Append(s, f)[j] = s[j]
      /\ Append(s, f)[Len(s) + 1] = f
  OBVIOUS
<1>2. ASSUME NEW i \in 1..Len(Append(s, f)), Append(s, f)[i].type = "Ops",
             NEW op \in Append(s, f)[i].ops
      PROVE  /\ op[1] = r
             /\ \A n \in 1..op[2] : <<r, n>> \in kept \union OpsAmong(Append(s, f), i)
  <2>1. CASE i \in 1..Len(s)
    <3>1. Append(s, f)[i] = s[i] /\ OpsAmong(Append(s, f), i) = OpsAmong(s, i)
      BY <1>1, <2>1, OpsAmongAppend
    <3> QED
      BY <1>2, <2>1, <3>1 DEF Gapless
  <2>2. CASE i = Len(s) + 1
    <3>1. f.type = "Ops" /\ op \in f.ops
      BY <1>1, <1>2, <2>2
    <3>2. /\ OpsAmong(s, Len(s)) \subseteq OpsAmong(Append(s, f), i)
          /\ f.ops \subseteq OpsAmong(Append(s, f), i)
      BY <2>2, <3>1, OpsAmongAppend
    <3> QED
      BY <3>1, <3>2
  <2> QED
    BY <1>1, <2>1, <2>2
<1> QED
  BY <1>2 DEF Gapless

\* Handling the oldest frame leaves no hole if the relay keeps what it offered.
LEMMA GaplessTail ==
    ASSUME NEW r, NEW kept, NEW after, NEW s \in Seq(UpFrame), s # <<>>, Gapless(r, s, kept),
           kept \subseteq after, Head(s).type = "Ops" => Head(s).ops \subseteq after
    PROVE  Gapless(r, Tail(s), after)
<1>1. /\ Len(s) \in Nat /\ Len(Tail(s)) = Len(s) - 1
      /\ \A j \in 1..Len(Tail(s)) : Tail(s)[j] = s[j + 1]
      /\ Tail(s) \in Seq(UpFrame)
  BY HeadTailProperties
<1>2. ASSUME NEW i \in 1..Len(Tail(s)), Tail(s)[i].type = "Ops", NEW op \in Tail(s)[i].ops
      PROVE  /\ op[1] = r
             /\ \A n \in 1..op[2] : <<r, n>> \in after \union OpsAmong(Tail(s), i)
  <2>1. i + 1 \in 1..Len(s) /\ i \in 0..Len(Tail(s)) /\ s[i + 1] = Tail(s)[i]
    BY <1>1
  <2>2. OpsAmong(s, i + 1) \subseteq OpsAmong(Tail(s), i) \union after
    BY <2>1, OpsAmongTail
  <2>3. op[1] = r /\ \A n \in 1..op[2] : <<r, n>> \in kept \union OpsAmong(s, i + 1)
    BY <1>2, <2>1 DEF Gapless
  <2> QED
    BY <2>2, <2>3
<1> QED
  BY <1>2 DEF Gapless

\* A link cut short leaves no hole: what comes before an op travels before it.
LEMMA GaplessPrefix ==
    ASSUME NEW r, NEW kept, NEW s \in Seq(UpFrame), NEW t \in Prefixes(s), Gapless(r, s, kept)
    PROVE  Gapless(r, t, kept)
<1>1. PICK n \in 0..Len(s) : t = SubSeq(s, 1, n)
  BY DEF Prefixes
<1>2. Len(s) \in Nat /\ n \in Int /\ 1 \in Int
  BY LenProperties
<1>3. \A i \in 1..n : s[i] \in UpFrame
  BY <1>2, ElementOfSeq
<1>4. Len(t) = n /\ \A i \in 1..n : t[i] = s[i]
  BY <1>1, <1>2, <1>3, SubSeqProperties
<1>5. ASSUME NEW i \in 1..n PROVE OpsAmong(t, i) = OpsAmong(s, i) /\ i \in 1..Len(s)
  <2>1. \A j \in 1..i : j \in 1..n
    BY <1>2
  <2>2. \A j \in 1..i : t[j] = s[j]
    BY <1>4, <2>1
  <2> QED
    BY <1>2, <2>2 DEF OpsAmong
<1> QED
  BY <1>4, <1>5 DEF Gapless

\* A relay that keeps more leaves no hole where there was none.
LEMMA GaplessGrows ==
    ASSUME NEW r, NEW kept, NEW after, NEW s, Gapless(r, s, kept), kept \subseteq after
    PROVE  Gapless(r, s, after)
  BY DEF Gapless

\* A run that is clean so far has been clean all along, and takes no step that
\* would end it.
LEMMA CleanBefore ==
    ASSUME TypeOK, [Next]_vars, Clean'
    PROVE  Clean /\ ~Restart /\ \A r \in Actor : ~Refuse(r) /\ ~GoStale(r)
<1>1. faults \in [FaultKind -> Nat]
  BY DEF TypeOK
<1> DEFINE count == faults["refuse"] + faults["restart"] + faults["stale"]
<1>2. {"refuse", "restart", "stale"} \subseteq FaultKind
  BY DEF FaultKind
<1>3. ASSUME NEW k \in FaultKind, Fault(k)
      PROVE  Clean /\ k \notin {"refuse", "restart", "stale"}
  <2>1. faults' = [faults EXCEPT ![k] = @ + 1]
    BY <1>3 DEF Fault
  <2>2. /\ faults'["refuse"] = faults["refuse"] + (IF k = "refuse" THEN 1 ELSE 0)
        /\ faults'["restart"] = faults["restart"] + (IF k = "restart" THEN 1 ELSE 0)
        /\ faults'["stale"] = faults["stale"] + (IF k = "stale" THEN 1 ELSE 0)
        /\ faults["refuse"] \in Nat /\ faults["restart"] \in Nat /\ faults["stale"] \in Nat
    BY <1>1, <1>2, <2>1
  <2>3. Invalid = {} /\ faults'["refuse"] + faults'["restart"] + faults'["stale"] = 0
    BY DEF Clean
  <2>4. count = 0 /\ k \notin {"refuse", "restart", "stale"}
    BY <2>2, <2>3
  <2> QED
    BY <2>3, <2>4 DEF Clean
<1>4. ASSUME UNCHANGED faults PROVE Clean
  BY <1>1, <1>4 DEF Clean
<1>5. ~Restart /\ \A r \in Actor : ~Refuse(r) /\ ~GoStale(r)
  BY <1>2, <1>3 DEF Restart, Refuse, GoStale
<1>6. UNCHANGED faults \/ \E k \in FaultKind : Fault(k)
  BY <1>5 DEF Next, vars, ReplicaStep, RelayStep, Break, Crash, RevokeAuth, CompleteRebase, FaultKind
<1> QED
  BY <1>3, <1>4, <1>5, <1>6

\* Answers in flight stay answers.
LEMMA AnswersStay ==
    ASSUME NEW x \in Actor, NEW op, Answered(x, op),
           \A f \in Range(down[x]) \union Range(reply[x]) :
               f.type = "Ack" => f \in Range(down'[x]) \union Range(reply'[x])
    PROVE  Answered(x, op)'
  BY DEF Answered

\* A session a step leaves alone stays in order.
LEMMA InOrderStays ==
    ASSUME NEW x \in Actor, InOrder(x), state'[x] = state[x], queue'[x] = queue[x], sent'[x] = sent[x],
           up'[x] = up[x], retained \subseteq retained',
           \A f \in Range(down[x]) \union Range(reply[x]) :
               f.type = "Ack" => f \in Range(down'[x]) \union Range(reply'[x])
    PROVE  InOrder(x)'
<1>1. QueueInv(x)'
  BY DEF InOrder, QueueInv
<1>2. SentIsPending(x)'
  BY AnswersStay DEF InOrder, SentIsPending
<1>3. Gapless(x, up[x], retained)'
  BY GaplessGrows DEF InOrder
<1> QED
  BY <1>1, <1>2, <1>3 DEF InOrder

\* A session with nothing sent only has to keep its stream whole.
LEMMA NothingSent ==
    ASSUME NEW x \in Actor, \A op \in queue'[x] : op[1] = x, sent'[x] = {}, state'[x] # "Live",
           Gapless(x, up'[x], retained')
    PROVE  InOrder(x)'
  BY DEF InOrder, QueueInv, SentIsPending

\* Sending a frame that offers nothing leaves no hole.
LEMMA SendOther ==
    ASSUME up \in [Actor -> Seq(UpFrame)], NEW r \in Actor, NEW f \in UpFrame, f.type # "Ops",
           Send(r, f), Gapless(r, up[r], retained), retained' = retained
    PROVE  Gapless(r, up'[r], retained')
<1>1. up'[r] = Append(up[r], f) /\ up[r] \in Seq(UpFrame)
  BY DEF Send
<1> QED
  BY <1>1, GaplessAppend

\* Everything a queue marks as sent is retained or among the frames it is still
\* offering: an answer on its way speaks for what the relay retains.
LEMMA SentIsSafe ==
    ASSUME StreamInv, DrainOK, NEW r \in Actor, NEW op \in sent[r]
    PROVE  op \in retained \union OpsAmong(up[r], Len(up[r]))
<1>1. op \in OpsAmong(up[r], Len(up[r])) \/ Answered(r, op)
  BY DEF DrainOK, InOrder, SentIsPending
<1> SUFFICES ASSUME Answered(r, op) PROVE op \in retained
  BY <1>1
<1>2. PICK f \in Range(down[r]) \union Range(reply[r]) : f.type = "Ack" /\ Covers(f.clock, op)
  BY DEF Answered
<1>3. down[r] \in Seq(DownFrame) /\ reply[r] \in Seq(DownFrame) /\ relayClock \in Clock
      /\ op \in Op
  BY DEF StreamInv, TypeOK, SessionTypeOK, RelayTypeOK
<1>4. f \in DownFrame
  BY <1>2, <1>3 DEF Range
<1>5. f.clock \in Clock /\ \A a \in Actor : f.clock[a] <= relayClock[a]
  BY <1>2, <1>4, DownFrameFields DEF StreamInv, WireHonest, InFlight, Honest
<1>6. Claimed(f.clock) \subseteq Claimed(relayClock)
  BY <1>3, <1>5, ClaimsGrow
<1> QED
  BY <1>2, <1>3, <1>6 DEF Claimed, DrainOK

\* Flushing the unsent part of a queue offers the next part of the stream, and
\* leaves everything sent on the wire (Session::flush).
LEMMA FlushInOrder ==
    ASSUME StreamInv, StreamInv', DrainOK, NeverDrop', NEW r \in Actor,
           SendOps(r, queue'[r] \ sent[r]), sent'[r] = queue'[r], sent[r] \subseteq queue'[r],
           \A op \in queue'[r] : op[1] = r, MaySendOps(state'[r]), retained' = retained,
           \A f \in Range(down[r]) \union Range(reply[r]) :
               f.type = "Ack" => f \in Range(down'[r]) \union Range(reply'[r])
    PROVE  InOrder(r)'
<1> DEFINE ops == queue'[r] \ sent[r]
<1>1. /\ up \in [Actor -> Seq(UpFrame)] /\ up[r] \in Seq(UpFrame)
      /\ queue' \in [Actor -> SUBSET Op] /\ minted' \in [Actor -> 0..MaxOps]
      /\ queue'[r] \subseteq Minted' /\ ops \in SUBSET Op
  BY DEF StreamInv, TypeOK, SessionTypeOK, OnlyMinted
<1>2. InOrder(r)
  BY DEF DrainOK
<1>3. QueueInv(r)'
  BY DEF QueueInv
<1>4. CASE ops = {}
  <2>1. up' = up /\ sent'[r] = sent[r]
    BY <1>4 DEF SendOps
  <2> QED
    BY <1>2, <1>3, <2>1, AnswersStay DEF InOrder, SentIsPending
<1>5. CASE ops # {}
  <2> DEFINE f == OpsFrame(ops)
  <2>1. f \in UpFrame /\ f.type = "Ops" /\ f.ops = ops
    BY <1>1, OpsFrameType DEF OpsFrame
  <2>2. up'[r] = Append(up[r], f)
    BY <1>1, <1>5 DEF SendOps, Send
  <2>3. ASSUME NEW op \in ops
        PROVE  /\ op[1] = r /\ op[2] \in Nat
               /\ \A n \in 1..op[2] : <<r, n>> \in retained \union OpsAmong(up[r], Len(up[r])) \union ops
    <3>1. op \in Op /\ op[1] = r /\ op[2] \in Nat /\ op[2] <= minted'[r] /\ minted'[r] \in Nat
      BY <1>1 DEF Minted, Op, Counter
    <3>2. ASSUME NEW n \in 1..op[2] PROVE <<r, n>> \in queue'[r] \union retained
      BY <3>1 DEF NeverDrop
    <3>3. sent[r] \subseteq retained \union OpsAmong(up[r], Len(up[r]))
      BY SentIsSafe
    <3> QED
      BY <3>1, <3>2, <3>3
  <2> HIDE DEF f, ops
  <2>4. Gapless(r, up'[r], retained')
    BY <1>1, <1>2, <2>1, <2>2, <2>3, GaplessAppend DEF InOrder
  <2>5. /\ OpsAmong(up[r], Len(up[r])) \subseteq OpsAmong(up'[r], Len(up'[r]))
        /\ ops \subseteq OpsAmong(up'[r], Len(up'[r]))
    BY <1>1, <2>1, <2>2, OpsAmongAppend
  <2>6. SentIsPending(r)'
    <3> SUFFICES ASSUME NEW op \in sent'[r]
                 PROVE  op \in OpsAmong(up'[r], Len(up'[r])) \/ Answered(r, op)'
      BY DEF SentIsPending
    <3>1. CASE op \in sent[r]
      BY <1>2, <2>5, <3>1, AnswersStay DEF InOrder, SentIsPending
    <3>2. CASE op \notin sent[r]
      BY <2>5, <3>2 DEF ops
    <3> QED
      BY <3>1, <3>2
  <2> QED
    BY <1>3, <2>4, <2>6 DEF InOrder
<1> QED
  BY <1>4, <1>5

\* A replica's own step keeps its session in order.
LEMMA ReplicaInOrder ==
    ASSUME StreamInv, StreamInv', DrainOK, NeverDrop', NEW r \in Actor, ReplicaStep(r)
    PROVE  InOrder(r)'
<1>1. /\ state \in [Actor -> SyncState] /\ clock' \in [Actor -> Clock]
      /\ queue \in [Actor -> SUBSET Op] /\ sent \in [Actor -> SUBSET Op]
      /\ up \in [Actor -> Seq(UpFrame)] /\ down \in [Actor -> Seq(DownFrame)]
      /\ UNCHANGED <<reply, retained, relayClock>>
  BY DEF StreamInv, TypeOK, SessionTypeOK, ReplicaStep
<1>2. InOrder(r) /\ QueueInv(r) /\ Gapless(r, up[r], retained)
  BY DEF DrainOK, InOrder
<1>3. CASE Connect(r) \/ Resume(r)
  <2>1. CASE OpenSession(r) /\ UNCHANGED <<queue, sent, down>> /\ ~MaySendOps(state[r])
    <3>1. [type |-> "Hello"] \in UpFrame
      BY DEF UpFrame
    <3>2. Gapless(r, up'[r], retained')
      BY <1>1, <1>2, <2>1, <3>1, SendOther DEF OpenSession
    <3>3. state'[r] = "HelloSent"
      BY <1>1, <2>1 DEF OpenSession, Goto
    <3> QED
      BY <1>2, <2>1, <3>2, <3>3, NothingSent DEF QueueInv
  <2>2. CASE UNCHANGED <<state, up, queue, sent, down>>
    BY <1>1, <1>2, <2>2, InOrderStays
  <2> QED
    BY <1>3, <2>1, <2>2 DEF Connect, Resume, MaySendOps
<1>4. CASE Edit(r)
  <2>1. /\ queue' = [queue EXCEPT ![r] = @ \union {<<r, minted[r] + 1>>}]
        /\ UNCHANGED <<state, down>>
    BY <1>4 DEF Edit
  <2>2. queue'[r] = queue[r] \union {<<r, minted[r] + 1>>}
    BY <1>1, <2>1
  <2>3. \A op \in queue'[r] : op[1] = r
    BY <1>2, <2>2 DEF QueueInv
  <2>4. CASE MaySendOps(state[r])
    <3>1. SendOps(r, queue'[r] \ sent[r]) /\ sent'[r] = queue'[r]
      BY <1>1, <1>4, <2>4 DEF Edit
    <3> QED
      BY <1>1, <1>2, <2>1, <2>2, <2>3, <2>4, <3>1, FlushInOrder DEF QueueInv
  <2>5. CASE ~MaySendOps(state[r])
    <3>1. UNCHANGED <<sent, up>> /\ sent[r] = {} /\ state[r] # "Live"
      BY <1>2, <1>4, <2>5 DEF Edit, QueueInv, MaySendOps
    <3> QED
      BY <1>1, <1>2, <2>1, <2>3, <3>1, NothingSent
  <2> QED
    BY <2>4, <2>5
<1>5. CASE RecvHelloAck(r)
  <2>1. [type |-> "Need", clock |-> clock'[r]] \in UpFrame
    BY <1>1 DEF UpFrame
  <2>2. Gapless(r, up'[r], retained')
    BY <1>1, <1>2, <1>5, <2>1, SendOther DEF RecvHelloAck, SendNeed
  <2>3. state'[r] = "Syncing" /\ sent[r] = {} /\ UNCHANGED <<queue, sent>>
    BY <1>1, <1>2, <1>5 DEF RecvHelloAck, Goto, QueueInv, MaySendOps
  <2> QED
    BY <1>2, <2>2, <2>3, NothingSent DEF QueueInv
<1>6. CASE RecvHelloReject(r)
  <2>1. state'[r] = "Incompatible" /\ sent[r] = {} /\ UNCHANGED <<queue, sent, up>>
    BY <1>1, <1>2, <1>6 DEF RecvHelloReject, Goto, QueueInv, MaySendOps
  <2> QED
    BY <1>1, <1>2, <2>1, NothingSent DEF QueueInv
<1>7. ASSUME Consume(r), Inbound(r).type # "Ack"
      PROVE  \A f \in Range(down[r]) \union Range(reply[r]) :
                 f.type = "Ack" => f \in Range(down'[r]) \union Range(reply'[r])
  BY <1>1, <1>7, ConsumeKeeps
<1>8. CASE RecvOps(r)
  BY <1>1, <1>2, <1>7, <1>8, InOrderStays DEF RecvOps
<1>9. CASE RecvAck(r)
  <2> DEFINE acked == Acked(r, Inbound(r).clock)
  <2>1. Consume(r) /\ UNCHANGED <<state, up>>
    BY <1>9 DEF RecvAck
  <2>2. queue'[r] = queue[r] \ acked /\ sent'[r] = sent[r] \ acked
    BY <1>1, <1>9 DEF RecvAck
  <2>3. QueueInv(r)'
    BY <1>2, <2>1, <2>2 DEF QueueInv
  <2>4. SentIsPending(r)'
    <3> SUFFICES ASSUME NEW op \in sent'[r]
                 PROVE  op \in OpsAmong(up[r], Len(up[r])) \/ Answered(r, op)'
      BY <2>1 DEF SentIsPending
    <3>1. op \in sent[r] /\ ~Covers(Inbound(r).clock, op)
      BY <1>2, <2>2 DEF Acked, QueueInv
    <3>2. ASSUME Answered(r, op) PROVE Answered(r, op)'
      <4>1. PICK f \in Range(down[r]) \union Range(reply[r]) : f.type = "Ack" /\ Covers(f.clock, op)
        BY <3>2 DEF Answered
      <4>2. f # Inbound(r)
        BY <3>1, <4>1
      <4>3. f \in Range(down'[r]) \union Range(reply'[r])
        BY <1>1, <2>1, <4>1, <4>2, ConsumeKeeps
      <4> QED
        BY <4>1, <4>3 DEF Answered
    <3> QED
      BY <1>2, <3>1, <3>2 DEF InOrder, SentIsPending
  <2> QED
    BY <1>1, <1>2, <2>1, <2>3, <2>4 DEF InOrder
<1>10. CASE RecvInSync(r)
  <2>1. /\ Consume(r) /\ Inbound(r).type # "Ack"
        /\ SendOps(r, queue[r] \ sent[r]) /\ UNCHANGED queue
        /\ sent'[r] = queue[r] /\ MaySendOps(state'[r])
    BY <1>1, <1>10 DEF RecvInSync, Goto, MaySendOps
  <2> QED
    BY <1>1, <1>2, <1>7, <2>1, FlushInOrder DEF QueueInv
<1>11. CASE Discard(r)
  <2>1. Consume(r) /\ UNCHANGED <<state, queue, sent, up>>
    BY <1>11 DEF Discard
  <2>2. CASE MaySendOps(state[r])
    <3>1. Inbound(r).type # "Ack"
      BY <1>11, <2>2 DEF Discard, Expected
    <3> QED
      BY <1>1, <1>2, <1>7, <2>1, <3>1, InOrderStays
  <2>3. CASE ~MaySendOps(state[r])
    <3>1. sent[r] = {} /\ state[r] # "Live"
      BY <1>2, <2>3 DEF QueueInv, MaySendOps
    <3> QED
      BY <1>1, <1>2, <2>1, <3>1, NothingSent DEF QueueInv
  <2> QED
    BY <2>2, <2>3
<1> QED
  BY <1>3, <1>4, <1>5, <1>6, <1>8, <1>9, <1>10, <1>11 DEF ReplicaStep, Receive

\* A relay that is offered a stream without holes retains exactly the runs its
\* clock claims, and everything the batch offered (Relay::submit).
LEMMA RunsRetained ==
    ASSUME StreamInv, DrainOK, Invalid = {}, NEW r \in Actor, HandleOps(r, {})
    PROVE  /\ retained' = Claimed(relayClock')
           /\ Head(up[r]).ops \subseteq retained'
           /\ retained \subseteq retained'
<1>1. /\ relayClock \in Clock /\ up \in [Actor -> Seq(UpFrame)] /\ up[r] \in Seq(UpFrame)
      /\ retained = Claimed(relayClock)
      /\ Gapless(r, up[r], retained)
  BY DEF StreamInv, TypeOK, SessionTypeOK, RelayTypeOK, DrainOK, InOrder
<1>2. PICK ops : ops = Head(up[r]).ops
  OBVIOUS
<1>3. /\ up[r] # <<>> /\ Head(up[r]).type = "Ops" /\ Head(up[r]) = up[r][1]
      /\ 1 \in 1..Len(up[r]) /\ Take(r)
  BY <1>1 DEF HandleOps, Take
<1>4. ops \in SUBSET Op
  BY <1>1, <1>2, <1>3, TakeWire, UpFrameFields
<1>5. OpsAmong(up[r], 1) = ops
  BY <1>2, <1>3 DEF OpsAmong
<1>6. ASSUME NEW op \in ops
      PROVE  op[1] = r /\ \A n \in 1..op[2] : <<r, n>> \in retained \union ops
  BY <1>1, <1>2, <1>3, <1>5, <1>6 DEF Gapless
<1>7. Admitted(r, ops, {}) = ops
  BY <1>6 DEF Admitted
<1> DEFINE fresh == ops \ retained
           after == ObserveAll(relayClock, fresh)
<1>8. retained' = retained \union ops /\ relayClock' = after
  BY <1>2, <1>7 DEF HandleOps, Watermark
<1>9. /\ after \in Clock
      /\ \A a \in Actor : relayClock[a] <= after[a]
      /\ \A op \in Op : Covers(after, op) => Covers(relayClock, op) \/ op \in fresh
  BY <1>1, ObserveAllProps
<1>10. Claimed(after) \subseteq retained \union ops
  BY <1>1, <1>9 DEF Claimed
<1>11. retained \subseteq Claimed(after)
  BY <1>1, <1>9, ClaimsGrow
<1>12. ASSUME NEW op \in ops PROVE op \in Claimed(after)
  <2>1. PICK k \in Counter : op = <<r, k>>
    BY <1>4, <1>6 DEF Op
  <2>0. PICK m : m = after[r]
    OBVIOUS
  <2>2. m \in 0..MaxOps /\ relayClock[r] \in 0..MaxOps /\ relayClock[r] <= m /\ k \in 1..MaxOps
    BY <1>1, <1>9, <2>0 DEF Clock, Counter
  <2>3. CASE k <= m
    BY <1>4, <2>0, <2>1, <2>3 DEF Claimed, Covers
  <2>4. CASE ~(k <= m)
    <3>1. m + 1 \in 1..k /\ m + 1 \in Counter /\ ~(m + 1 <= relayClock[r])
      BY <2>2, <2>4, MaxOpsAssumption DEF Counter
    <3>2. <<r, m + 1>> \in retained \union ops
      BY <1>6, <2>1, <3>1
    <3>3. <<r, m + 1>> \notin retained
      BY <1>1, <3>1 DEF Claimed, Covers
    <3>4. m + 1 \in CountersOf(r, fresh)
      BY <3>1, <3>2, <3>3 DEF CountersOf
    <3>5. CountersOf(r, fresh) \in SUBSET Counter /\ m = Extend(relayClock[r], CountersOf(r, fresh))
      BY <2>0 DEF CountersOf, ObserveAll
    <3>6. Extend(relayClock[r], CountersOf(r, fresh)) + 1 \notin CountersOf(r, fresh)
      BY <2>2, <3>5, ExtendProps
    <3> QED
      BY <3>4, <3>5, <3>6
  <2> QED
    BY <2>3, <2>4
<1>13. Claimed(relayClock') = retained \union ops
  BY <1>8, <1>10, <1>11, <1>12
<1> QED
  BY <1>2, <1>8, <1>13

\* The relay's steps keep every session in order: what it takes off the wire it
\* retains and answers.
LEMMA RelayInOrder ==
    ASSUME StreamInv, StreamInv', DrainOK, Invalid = {}, NEW r \in Actor, RelayStep(r)
    PROVE  /\ retained' = Claimed(relayClock')
           /\ \A x \in Actor : InOrder(x)'
<1>1. /\ up \in [Actor -> Seq(UpFrame)] /\ down \in [Actor -> Seq(DownFrame)]
      /\ reply \in [Actor -> Seq(DownFrame)] /\ up[r] \in Seq(UpFrame)
      /\ relayClock' \in Clock
      /\ UNCHANGED <<state, queue, sent>> /\ retained = Claimed(relayClock)
      /\ \A x \in Actor : InOrder(x)
  BY DEF StreamInv, TypeOK, SessionTypeOK, RelayTypeOK, RelayStep, DrainOK
<1>2. ASSUME NEW x \in Actor, Take(r), \E frames : Reply(r, frames)
      PROVE  Range(reply[x]) \subseteq Range(reply'[x])
  BY <1>1, <1>2, RangeEmpty DEF Take, Reply
<1>3. ASSUME Take(r), \E frames : Reply(r, frames), retained \subseteq retained',
             \A x \in Actor : Range(down[x]) \subseteq Range(down'[x]),
             Head(up[r]).type = "Ops" =>
                 /\ Head(up[r]).ops \subseteq retained'
                 /\ \A op \in sent[r] : op \in Head(up[r]).ops => Answered(r, op)',
             NEW x \in Actor
      PROVE  InOrder(x)'
  <2>1. Range(down[x]) \union Range(reply[x]) \subseteq Range(down'[x]) \union Range(reply'[x])
    BY <1>2, <1>3
  <2>2. CASE x # r
    <3>1. up'[x] = up[x]
      BY <1>1, <1>3, <2>2, TakeKeeps
    <3> QED
      BY <1>1, <1>3, <2>1, <3>1, InOrderStays
  <2>3. CASE x = r
    <3>1. up[r] # <<>> /\ up'[r] = Tail(up[r])
      BY <1>1, <1>3 DEF Take
    <3>2. Gapless(r, Tail(up[r]), retained')
      BY <1>1, <1>3, <3>1, GaplessTail DEF InOrder
    <3>3. /\ Len(Tail(up[r])) \in 0..Len(Tail(up[r]))
          /\ Len(up[r]) = Len(Tail(up[r])) + 1
      BY <1>1, <3>1
    <3>4. OpsAmong(up[r], Len(up[r])) \subseteq
            OpsAmong(Tail(up[r]), Len(Tail(up[r])))
              \union (IF Head(up[r]).type = "Ops" THEN Head(up[r]).ops ELSE {})
      BY <1>1, <3>1, <3>3, OpsAmongTail
    <3>5. SentIsPending(r)'
      <4> SUFFICES ASSUME NEW op \in sent[r]
                   PROVE  op \in OpsAmong(Tail(up[r]), Len(Tail(up[r]))) \/ Answered(r, op)'
        BY <1>1, <3>1 DEF SentIsPending
      <4>1. op \in OpsAmong(up[r], Len(up[r])) \/ Answered(r, op)
        BY <1>1 DEF InOrder, SentIsPending
      <4> QED
        BY <1>3, <2>1, <2>3, <3>4, <4>1, AnswersStay
    <3>6. QueueInv(r)'
      BY <1>1 DEF InOrder, QueueInv
    <3> QED
      BY <2>3, <3>1, <3>2, <3>5, <3>6 DEF InOrder
  <2> QED
    BY <2>2, <2>3
<1>4. CASE HandleHello(r)
  <2>1. Take(r) /\ Head(up[r]).type # "Ops" /\ UNCHANGED <<retained, relayClock, down>>
        /\ \E frames : Reply(r, frames)
    BY <1>4 DEF HandleHello
  <2> QED
    BY <1>1, <1>3, <2>1
<1>5. CASE HandleNeed(r)
  <2>1. Take(r) /\ Head(up[r]).type # "Ops" /\ UNCHANGED <<retained, relayClock, down>>
        /\ \E frames : Reply(r, frames)
    BY <1>5 DEF HandleNeed
  <2> QED
    BY <1>1, <1>3, <2>1
<1>6. CASE HandleOps(r, {})
  <2>1. PICK watermark, admitted : /\ watermark = relayClock'
                                   /\ admitted = Admitted(r, Head(up[r]).ops, {})
    OBVIOUS
  <2> DEFINE ack == [type |-> "Ack", clock |-> watermark]
  <2>2. Take(r) /\ Head(up[r]).type = "Ops" /\ Reply(r, <<ack>>) /\ Fanout(r, admitted)
    BY <1>6, <2>1 DEF HandleOps
  <2>3. /\ retained' = Claimed(relayClock')
        /\ Head(up[r]).ops \subseteq retained'
        /\ retained \subseteq retained'
    BY <1>6, RunsRetained
  <2>4. reply'[r] = <<ack>> /\ ack \in Range(reply'[r])
    BY <1>1, <2>2 DEF Reply, Range
  <2>5. ASSUME NEW op \in Head(up[r]).ops PROVE Answered(r, op)'
    <3>1. Covers(relayClock', op)
      BY <2>3 DEF Claimed
    <3> QED
      BY <2>1, <2>4, <3>1 DEF Answered, Covers
  <2>6. ASSUME NEW x \in Actor PROVE Range(down[x]) \subseteq Range(down'[x])
    <3>1. Head(up[r]) \in UpFrame
      BY <1>1, <2>2, TakeWire
    <3>2. admitted \in SUBSET Op
      BY <2>1, <2>2, <3>1, UpFrameFields DEF Admitted
    <3>3. OpsFrame(admitted) \in DownFrame
      BY <3>2, OpsFrameType
    <3>4. down'[x] = down[x] \/ down'[x] = Append(down[x], OpsFrame(admitted))
      BY <1>1, <2>2 DEF Fanout
    <3> QED
      BY <1>1, <3>3, <3>4, RangeAppendKeeps
  <2>7. \E frames : Reply(r, frames)
    BY <2>2
  <2> QED
    BY <1>3, <2>2, <2>3, <2>5, <2>6, <2>7
<1>7. CASE FlushReply(r)
  <2>1. UNCHANGED <<retained, relayClock, up>>
    BY <1>7 DEF FlushReply
  <2>2. ASSUME NEW x \in Actor
        PROVE  Range(down[x]) \union Range(reply[x]) \subseteq Range(down'[x]) \union Range(reply'[x])
    <3>1. CASE x = r
      <4>1. down'[r] = down[r] \o reply[r]
        BY <1>1, <1>7 DEF FlushReply
      <4> QED
        BY <1>1, <3>1, <4>1, RangeConcatKeeps
    <3>2. CASE x # r
      BY <1>1, <1>7, <3>2 DEF FlushReply
    <3> QED
      BY <3>1, <3>2
  <2> QED
    BY <1>1, <2>1, <2>2, InOrderStays
<1> QED
  BY <1>4, <1>5, <1>6, <1>7 DEF RelayStep

\* Losing a session, or completing a rebase nothing was sent in, leaves every
\* session in order.
LEMMA FailureInOrder ==
    ASSUME StreamInv, StreamInv', DrainOK, NEW r \in Actor,
           Break(r) \/ Crash(r) \/ RevokeAuth(r) \/ CompleteRebase(r), NEW x \in Actor
    PROVE  InOrder(x)'
<1>1. /\ state \in [Actor -> SyncState] /\ clock' \in [Actor -> Clock]
      /\ sent \in [Actor -> SUBSET Op]
      /\ up \in [Actor -> Seq(UpFrame)] /\ down \in [Actor -> Seq(DownFrame)]
      /\ reply \in [Actor -> Seq(DownFrame)]
      /\ UNCHANGED <<queue, retained, relayClock>>
  BY DEF StreamInv, TypeOK, SessionTypeOK, RelayTypeOK, Break, LoseTransport, Crash, Recover,
         RevokeAuth, Revoke, CompleteRebase, Rebase
<1>2. InOrder(x) /\ QueueInv(x) /\ QueueInv(r) /\ Gapless(r, up[r], retained)
  BY DEF DrainOK, InOrder
<1>3. CASE x # r
  <2>1. state'[x] = state[x] /\ sent'[x] = sent[x]
    BY <1>1, <1>3 DEF Break, LoseTransport, Crash, Recover, RevokeAuth, Revoke, CompleteRebase, Rebase,
                      MarkAllUnsent, Goto
  <2>2. up'[x] = up[x] /\ down'[x] = down[x] /\ reply'[x] = reply[x]
    BY <1>1, <1>3 DEF Break, Crash, RevokeAuth, Revoke, CompleteRebase, Rebase, SendNeed, Send
  <2> QED
    BY <1>1, <1>2, <2>1, <2>2, InOrderStays
<1>4. CASE x = r
  <2>1. CASE Break(r) \/ Crash(r)
    <3>1. PICK f \in Prefixes(up[r]) : up' = [up EXCEPT ![r] = f]
      BY <2>1 DEF Break, Crash
    <3>2. up'[r] = f /\ up[r] \in Seq(UpFrame)
      BY <1>1, <3>1
    <3>3. Gapless(r, up'[r], retained')
      BY <1>1, <1>2, <3>2, GaplessPrefix
    <3>4. sent'[r] = {} /\ state'[r] # "Live"
      BY <1>1, <2>1 DEF Break, LoseTransport, Crash, Recover, MarkAllUnsent
    <3> QED
      BY <1>1, <1>2, <1>4, <3>3, <3>4, NothingSent DEF QueueInv
  <2>2. CASE RevokeAuth(r)
    <3>1. sent'[r] = {} /\ state'[r] # "Live" /\ UNCHANGED up
      BY <1>1, <2>2 DEF RevokeAuth, Revoke, MarkAllUnsent, Goto
    <3> QED
      BY <1>1, <1>2, <1>4, <3>1, NothingSent DEF QueueInv
  <2>3. CASE CompleteRebase(r)
    <3>1. sent'[r] = {} /\ state'[r] = "Syncing" /\ SendNeed(r)
      BY <1>1, <1>2, <2>3 DEF CompleteRebase, Rebase, Goto, QueueInv, MaySendOps
    <3>2. [type |-> "Need", clock |-> clock'[r]] \in UpFrame
      BY <1>1 DEF UpFrame
    <3>3. Gapless(r, up'[r], retained')
      BY <1>1, <1>2, <3>1, <3>2, SendOther DEF SendNeed
    <3> QED
      BY <1>1, <1>2, <1>4, <3>1, <3>3, NothingSent DEF QueueInv
  <2> QED
    BY <2>1, <2>2, <2>3
<1> QED
  BY <1>3, <1>4

\* The draining invariant is inductive.
LEMMA DrainStep ==
    ASSUME DrainInv, [Next]_vars
    PROVE  DrainInv'
<1>1. StreamInv /\ StreamInv'
  BY StreamStep DEF DrainInv
<1> SUFFICES ASSUME Clean' PROVE DrainOK'
  BY <1>1 DEF DrainInv
<1>2. /\ Clean /\ DrainOK /\ Invalid = {} /\ TypeOK
      /\ ~Restart /\ \A r \in Actor : ~Refuse(r) /\ ~GoStale(r)
  BY <1>1, CleanBefore DEF DrainInv, StreamInv, Clean
<1>3. NeverDrop'
  BY <1>1, <1>2, NeverDropStep DEF DrainOK
<1>4. retained = Claimed(relayClock) /\ \A x \in Actor : InOrder(x)
  BY <1>2 DEF DrainOK
<1>5. CASE UNCHANGED <<retained, relayClock>> /\ \A x \in Actor : InOrder(x)'
  <2>1. retained' = Claimed(relayClock')
    BY <1>4, <1>5
  <2> QED
    BY <1>3, <1>5, <2>1 DEF DrainOK
<1>6. ASSUME NEW r \in Actor, ReplicaStep(r) PROVE DrainOK'
  <2>1. UNCHANGED <<retained, relayClock>>
    BY <1>6 DEF ReplicaStep
  <2>2. InOrder(r)'
    BY <1>1, <1>2, <1>3, <1>6, ReplicaInOrder
  <2>3. ASSUME NEW x \in Actor \ {r} PROVE InOrder(x)'
    <3>1. /\ state'[x] = state[x] /\ queue'[x] = queue[x] /\ sent'[x] = sent[x]
          /\ up'[x] = up[x] /\ down'[x] = down[x] /\ UNCHANGED <<relayVars, faults>>
      BY <1>2, <1>6, OthersUntouched
    <3> QED
      BY <1>4, <3>1, InOrderStays
  <2> QED
    BY <1>5, <2>1, <2>2, <2>3
<1>7. ASSUME NEW r \in Actor, RelayStep(r) PROVE DrainOK'
  <2>1. retained' = Claimed(relayClock') /\ \A x \in Actor : InOrder(x)'
    BY <1>1, <1>2, <1>7, RelayInOrder
  <2> QED
    BY <1>3, <2>1 DEF DrainOK
<1>8. ASSUME NEW r \in Actor, Break(r) \/ Crash(r) \/ RevokeAuth(r) \/ CompleteRebase(r)
      PROVE  DrainOK'
  <2>1. UNCHANGED <<retained, relayClock>>
    BY <1>8 DEF Break, Crash, RevokeAuth, CompleteRebase
  <2>2. \A x \in Actor : InOrder(x)'
    BY <1>1, <1>2, <1>8, FailureInOrder
  <2> QED
    BY <1>5, <2>1, <2>2
<1>9. CASE UNCHANGED vars
  <2>1. \A x \in Actor : InOrder(x)'
    BY <1>4, <1>9, InOrderStays DEF vars
  <2> QED
    BY <1>5, <1>9, <2>1 DEF vars
<1> QED
  BY <1>2, <1>6, <1>7, <1>8, <1>9 DEF Next

\* A quiet LIVE replica forgets no local work: in a run where the relay refused
\* nothing and kept running and no replica had to rebase, everything it authored
\* has been acknowledged, however often links broke and processes died.
THEOREM QuietIsDrained == Spec => []QuietMeansDrained
<1>1. Init => DrainInv
  <2> SUFFICES ASSUME Init PROVE DrainInv
    OBVIOUS
  <2>1. StreamInv
    BY InitStream
  <2>2. Claimed(EmptyClock) = {}
    BY MaxOpsAssumption DEF Claimed, Covers, EmptyClock, Op, Counter
  <2>3. NeverDrop
    BY DEF Init, SessionInit, NeverDrop
  <2>4. \A r \in Actor : InOrder(r)
    BY DEF Init, SessionInit, InOrder, QueueInv, SentIsPending, Gapless
  <2> QED
    BY <2>1, <2>2, <2>3, <2>4 DEF DrainInv, DrainOK, Init, RelayInit
<1>2. DrainInv /\ [Next]_vars => DrainInv'
  BY DrainStep
<1>3. DrainInv => QuietMeansDrained
  <2> SUFFICES ASSUME DrainInv, Clean, NEW r \in Actor, Quiet(r) PROVE queue[r] = {}
    BY DEF QuietMeansDrained, Clean
  <2>1. QueueInv(r) /\ SentIsPending(r)
    BY DEF DrainInv, DrainOK, InOrder
  <2>2. sent[r] = {}
    BY <2>1, RangeEmpty DEF Quiet, SentIsPending, OpsAmong, Answered
  <2> QED
    BY <2>1, <2>2 DEF Quiet, QueueInv
<1> QED
  BY <1>1, <1>2, <1>3, PTL DEF Spec

-----------------------------------------------------------------------------
(* The version window.                                                     *)

\* An unsupported replica's own steps: every frame that would let it send is
\* one it never gets.
LEMMA ShutOutReplica ==
    ASSUME TypeOK, NEW u \in Unsupported, ShutOut(u), ReplicaStep(u)
    PROVE  ShutOut(u)'
<1>1. /\ u \in Actor /\ state \in [Actor -> SyncState]
      /\ up \in [Actor -> Seq(UpFrame)] /\ down \in [Actor -> Seq(DownFrame)]
  BY UnsupportedAssumption DEF TypeOK, SessionTypeOK
<1>2. ~MaySendOps(state[u]) /\ UNCHANGED reply
  BY DEF ShutOut, MaySendOps, ReplicaStep
<1>3. CASE Connect(u) \/ Resume(u)
  <2>1. CASE OpenSession(u) /\ UNCHANGED down
    <3>1. [type |-> "Hello"] \in UpFrame
      BY DEF UpFrame
    <3>2. \A x \in Actor : Range(up'[x]) \subseteq Range(up[x]) \union {[type |-> "Hello"]}
      BY <1>1, <2>1, <3>1, SendWire DEF OpenSession
    <3>3. state'[u] = "HelloSent"
      BY <1>1, <2>1 DEF OpenSession, Goto
    <3> QED
      BY <1>1, <1>2, <2>1, <3>2, <3>3 DEF ShutOut
  <2>2. CASE UNCHANGED <<state, up, down>>
    BY <1>2, <2>2 DEF ShutOut
  <2> QED
    BY <1>3, <2>1, <2>2 DEF Connect, Resume
<1>4. CASE Edit(u)
  BY <1>2, <1>4 DEF Edit, ShutOut
<1>5. CASE Receive(u)
  <2>1. Consume(u)
    BY <1>5 DEF Receive, RecvHelloAck, RecvHelloReject, RecvOps, RecvAck, RecvInSync, Discard
  <2>2. /\ Range(down'[u]) \subseteq Range(down[u])
        /\ Inbound(u) \in Range(down[u])
    BY <1>1, <2>1, ConsumeWire
  <2>3. ~RecvHelloAck(u) /\ ~RecvOps(u) /\ ~RecvAck(u) /\ ~RecvInSync(u)
    BY <1>2, <2>2 DEF ShutOut, RecvHelloAck, RecvOps, RecvAck, RecvInSync
  <2>4. UNCHANGED up /\ state'[u] \in {state[u], "Incompatible"}
    BY <1>1, <1>5, <2>3 DEF Receive, RecvHelloReject, Discard, Goto
  <2> QED
    BY <1>2, <2>2, <2>4 DEF ShutOut
<1> QED
  BY <1>3, <1>4, <1>5 DEF ReplicaStep

\* The relay answers its HELLO with a rejection, and fans out to it at most
\* batches of others (HandleHello, HandleOps).
LEMMA ShutOutRelay ==
    ASSUME TypeOK, NEW u \in Unsupported, ShutOut(u), NEW r \in Actor,
           RelayStep(r) \/ Refuse(r)
    PROVE  ShutOut(u)'
<1>1. /\ u \in Actor
      /\ up \in [Actor -> Seq(UpFrame)] /\ down \in [Actor -> Seq(DownFrame)]
      /\ reply \in [Actor -> Seq(DownFrame)]
  BY UnsupportedAssumption DEF TypeOK, SessionTypeOK, RelayTypeOK
<1>2. UNCHANGED state
  BY DEF RelayStep, Refuse
<1>3. CASE FlushReply(r)
  <2>1. /\ Range(down'[u]) \subseteq Range(down[u]) \union Range(reply[u])
        /\ Range(reply'[u]) \subseteq Range(reply[u])
    BY <1>1, <1>3, FlushWire
  <2>2. UNCHANGED up
    BY <1>3 DEF FlushReply
  <2> QED
    BY <1>2, <2>1, <2>2 DEF ShutOut
<1>4. CASE Take(r)
  <2>1. Range(up'[u]) \subseteq Range(up[u]) /\ Head(up[r]) \in Range(up[r])
    BY <1>1, <1>4, TakeWire
  <2>2. CASE HandleHello(r)
    <3>1. reply'[u] = reply[u] \/ reply'[u] = <<[type |-> "HelloReject"]>>
      BY <1>1, <2>2 DEF HandleHello, Reply
    <3>2. \A frame \in Range(reply'[u]) : frame \in Range(reply[u]) \/ frame.type = "HelloReject"
      BY <3>1 DEF Range
    <3>3. UNCHANGED down
      BY <2>2 DEF HandleHello
    <3> QED
      BY <1>2, <2>1, <3>2, <3>3 DEF ShutOut
  <2>3. CASE HandleNeed(r) \/ (\E refused \in SUBSET Op : HandleOps(r, refused))
    <3>1. r # u
      BY <2>1, <2>3 DEF ShutOut, HandleNeed, HandleOps
    <3>2. reply'[u] = reply[u]
      BY <1>1, <2>3, <3>1 DEF HandleNeed, HandleOps, Reply
    <3>3. \A frame \in Range(down'[u]) : frame \in Range(down[u]) \/ frame.type = "Ops"
      <4>1. CASE HandleNeed(r)
        BY <4>1 DEF HandleNeed
      <4>2. CASE \E refused \in SUBSET Op : HandleOps(r, refused)
        <5>1. PICK refused \in SUBSET Op : HandleOps(r, refused)
          BY <4>2
        <5> DEFINE admitted == Admitted(r, Head(up[r]).ops, refused)
        <5>2. Head(up[r]) \in UpFrame
          BY <1>1, <1>4, TakeWire
        <5>3. admitted \in SUBSET Op
          BY <5>1, <5>2, UpFrameFields DEF HandleOps, Admitted
        <5>4. Fanout(r, admitted)
          BY <5>1 DEF HandleOps
        <5> HIDE DEF admitted
        <5>5. Range(down'[u]) \subseteq Range(down[u]) \union {OpsFrame(admitted)}
          BY <1>1, <5>3, <5>4, FanoutWire
        <5> QED
          BY <5>5 DEF OpsFrame
      <4> QED
        BY <2>3, <4>1, <4>2
    <3> QED
      BY <1>2, <2>1, <3>2, <3>3 DEF ShutOut
  <2>4. HandleHello(r) \/ HandleNeed(r) \/ (\E refused \in SUBSET Op : HandleOps(r, refused))
    <3>1. ~FlushReply(r)
      BY <1>4 DEF Take, FlushReply
    <3>2. Offered(r) \subseteq Op
      BY <1>1, <1>4, TakeWire, UpFrameFields DEF Offered
    <3> QED
      BY <3>1, <3>2 DEF RelayStep, Refuse
  <2> QED
    BY <2>2, <2>3, <2>4
<1> QED
  BY <1>3, <1>4 DEF RelayStep, Refuse, HandleHello, HandleNeed, HandleOps

\* No fault opens the door: what a broken link still delivers was in flight,
\* and a session without leave to send has no graceful way back.
LEMMA ShutOutFault ==
    ASSUME TypeOK, NEW u \in Unsupported, ShutOut(u), NEW r \in Actor,
           Break(r) \/ Crash(r) \/ RevokeAuth(r) \/ GoStale(r) \/ CompleteRebase(r)
    PROVE  ShutOut(u)'
<1>1. /\ u \in Actor /\ state \in [Actor -> SyncState]
      /\ up \in [Actor -> Seq(UpFrame)] /\ down \in [Actor -> Seq(DownFrame)]
      /\ reply \in [Actor -> Seq(DownFrame)]
  BY UnsupportedAssumption DEF TypeOK, SessionTypeOK, RelayTypeOK
<1>2. ~MaySendOps(state[u]) /\ state[u] \notin {"Live", "RebaseRequired"}
  BY DEF ShutOut, MaySendOps
<1>3. state'[u] \in {state[u], "Disconnected"}
  <2>1. CASE Break(r)
    BY <1>1, <1>2, <2>1 DEF Break, LoseTransport
  <2>2. CASE Crash(r)
    BY <1>1, <2>2 DEF Crash, Recover
  <2>3. CASE RevokeAuth(r)
    BY <1>1, <2>3 DEF RevokeAuth, Revoke, Goto
  <2>4. CASE GoStale(r)
    BY <1>1, <1>2, <2>4 DEF GoStale, Staleness, Goto
  <2>5. CASE CompleteRebase(r)
    BY <1>1, <1>2, <2>5 DEF CompleteRebase, Rebase, Goto
  <2> QED
    BY <2>1, <2>2, <2>3, <2>4, <2>5
<1>4. Range(up'[u]) \subseteq Range(up[u])
  <2>1. CASE Break(r) \/ Crash(r)
    BY <1>1, <2>1, CutUpWire DEF Break, Crash
  <2>2. CASE RevokeAuth(r) \/ GoStale(r)
    BY <2>2 DEF RevokeAuth, Revoke, GoStale, Staleness
  <2>3. CASE CompleteRebase(r)
    BY <1>1, <1>2, <2>3 DEF CompleteRebase, Rebase, SendNeed, Send
  <2> QED
    BY <2>1, <2>2, <2>3
<1>5. Range(down'[u]) \subseteq Range(down[u])
  <2>1. CASE Break(r)
    BY <1>1, <2>1, CutDownWire DEF Break
  <2>2. CASE Crash(r)
    BY <1>1, <2>2, RangeEmpty DEF Crash
  <2>3. CASE RevokeAuth(r) \/ GoStale(r) \/ CompleteRebase(r)
    BY <2>3 DEF RevokeAuth, Revoke, GoStale, Staleness, CompleteRebase, Rebase
  <2> QED
    BY <2>1, <2>2, <2>3
<1>6. Range(reply'[u]) \subseteq Range(reply[u])
  <2>1. CASE Break(r) \/ Crash(r)
    BY <1>1, <2>1, RangeEmpty DEF Break, Crash
  <2>2. CASE RevokeAuth(r) \/ GoStale(r) \/ CompleteRebase(r)
    BY <2>2 DEF RevokeAuth, GoStale, CompleteRebase
  <2> QED
    BY <2>1, <2>2
<1> QED
  BY <1>3, <1>4, <1>5, <1>6 DEF ShutOut

\* A step leaves an unsupported replica shut out.
LEMMA ShutOutStep ==
    ASSUME TypeOK, NEW u \in Unsupported, ShutOut(u), [Next]_vars
    PROVE  ShutOut(u)'
<1>1. /\ u \in Actor /\ state \in [Actor -> SyncState]
      /\ up \in [Actor -> Seq(UpFrame)] /\ down \in [Actor -> Seq(DownFrame)]
      /\ reply \in [Actor -> Seq(DownFrame)]
  BY UnsupportedAssumption DEF TypeOK, SessionTypeOK, RelayTypeOK
<1>2. CASE Restart
  <2>1. state'[u] \in {state[u], "Disconnected"}
    BY <1>1, <1>2 DEF Restart, LoseTransport, MaySendOps, ShutOut
  <2>2. up'[u] = <<>> /\ down'[u] = <<>> /\ reply'[u] = <<>>
    BY <1>1, <1>2 DEF Restart
  <2> QED
    BY <2>1, <2>2, RangeEmpty DEF ShutOut
<1>3. ASSUME NEW r \in Actor, ReplicaStep(r) PROVE ShutOut(u)'
  <2>1. CASE r = u
    BY <1>3, <2>1, ShutOutReplica
  <2>2. CASE r # u
    <3>1. state'[u] = state[u] /\ up'[u] = up[u]
      BY <1>1, <1>3, <2>2
      DEF ReplicaStep, Connect, Resume, Edit, Receive, RecvHelloAck, RecvHelloReject, RecvOps,
          RecvAck, RecvInSync, Discard, OpenSession, Goto, Send, SendOps, SendNeed
    <3>2. down'[u] = down[u] /\ UNCHANGED reply
      BY <1>1, <1>3, <2>2
      DEF ReplicaStep, Connect, Resume, Edit, Receive, RecvHelloAck, RecvHelloReject, RecvOps,
          RecvAck, RecvInSync, Discard, Consume
    <3> QED
      BY <3>1, <3>2 DEF ShutOut
  <2> QED
    BY <2>1, <2>2
<1>4. CASE UNCHANGED vars
  BY <1>4 DEF vars, ShutOut
<1> QED
  BY <1>2, <1>3, <1>4, ShutOutRelay, ShutOutFault DEF Next

\* An op reaches the relay only from its author's own connection (Relay::submit).
LEMMA AdmissionStep ==
    ASSUME TypeOK, \A u \in Unsupported : ShutOut(u), NoOpsBeforeHelloAck, [Next]_vars
    PROVE  NoOpsBeforeHelloAck'
<1>1. CASE retained' \subseteq retained
  BY <1>1 DEF NoOpsBeforeHelloAck
<1>2. ASSUME NEW r \in Actor, NEW refused, HandleOps(r, refused) PROVE NoOpsBeforeHelloAck'
  <2>1. up \in [Actor -> Seq(UpFrame)] /\ Take(r)
    BY <1>2 DEF TypeOK, SessionTypeOK, HandleOps
  <2>2. Head(up[r]) \in Range(up[r])
    BY <2>1, TakeWire
  <2>3. r \notin Unsupported
    BY <1>2, <2>2 DEF ShutOut, HandleOps
  <2>4. \A op \in retained' : op \in retained \/ op[1] = r
    BY <1>2 DEF HandleOps, Admitted
  <2> QED
    BY <2>3, <2>4 DEF NoOpsBeforeHelloAck
<1>3. ASSUME NEW r \in Actor, ReplicaStep(r) PROVE retained' = retained
  BY <1>3 DEF ReplicaStep
<1>4. ASSUME NEW r \in Actor, RelayStep(r)
      PROVE  retained' = retained \/ HandleOps(r, {})
  BY <1>4 DEF RelayStep, HandleHello, HandleNeed, FlushReply
<1>5. ASSUME NEW r \in Actor, Refuse(r) PROVE \E refused : HandleOps(r, refused)
  BY <1>5 DEF Refuse
<1>6. ASSUME NEW r \in Actor,
             Break(r) \/ Crash(r) \/ RevokeAuth(r) \/ GoStale(r) \/ CompleteRebase(r)
      PROVE  retained' = retained
  BY <1>6 DEF Break, Crash, RevokeAuth, GoStale, CompleteRebase
<1>7. CASE Restart
  BY <1>7 DEF Restart, NoOpsBeforeHelloAck
<1>8. CASE UNCHANGED vars
  BY <1>1, <1>8 DEF vars
<1> QED
  BY <1>1, <1>2, <1>3, <1>4, <1>5, <1>6, <1>7, <1>8 DEF Next

\* Nothing a replica outside the version window authored is ever retained,
\* through reconnects, crashes, revocation and relay restarts in any number
\* (HELLO_REJECT, docs/27 INCOMPATIBLE).
THEOREM UnsupportedStayOut == Spec => []NoOpsBeforeHelloAck
<1> DEFINE Inv == TypeOK /\ (\A u \in Unsupported : ShutOut(u)) /\ NoOpsBeforeHelloAck
<1>1. Init => Inv
  BY InitType, RangeEmpty, UnsupportedAssumption
  DEF Init, SessionInit, RelayInit, ShutOut, NoOpsBeforeHelloAck
<1>2. Inv /\ [Next]_vars => Inv'
  BY NextType, ShutOutStep, AdmissionStep
<1>3. Inv => NoOpsBeforeHelloAck
  OBVIOUS
<1> QED
  BY <1>1, <1>2, <1>3, PTL DEF Spec

-----------------------------------------------------------------------------
(* How fast a replica may talk (Pacing): the relay's admission bound, for  *)
(* every rate, burst, op size and lag of the clock readings, and the       *)
(* replica's delays, for every base, cap and spread.                       *)

\* Rounding down never gives more than there was.
LEMMA FloorBelow == ASSUME NEW x \in Nat, NEW s \in Nat \ {0}
                    PROVE  x \div s \in Nat /\ s * (x \div s) <= x
OBVIOUS

LEMMA ScaleMono == ASSUME NEW a \in Int, NEW b \in Int, NEW c \in Nat, a <= b
                   PROVE  c * a <= c * b
OBVIOUS

LEMMA ScaleSum == ASSUME NEW a \in Int, NEW b \in Int, NEW c \in Int
                  PROVE  c * (a + b) = c * a + c * b
OBVIOUS
-----------------------------------------------------------------------------
(* One bucket.  With a stretch that starts at `from`, what was admitted in *)
(* it and what is left stay below the burst and the rate for the time the  *)
(* bucket has seen since the oldest clock reading that can fall in it.     *)

Seen(bucket, from) ==
    IF bucket.last >= from - MaxLag THEN bucket.last - (from - MaxLag) ELSE 0

Within(bucket, rate, burst, from, admitted, time) ==
    /\ bucket = [tokens |-> bucket.tokens, last |-> bucket.last]
    /\ bucket.tokens \in Nat /\ bucket.tokens <= burst
    /\ bucket.last \in Nat /\ bucket.last <= time
    /\ from \in Nat /\ from <= time
    /\ admitted \in Nat
    /\ admitted > 0 => bucket.last >= from - MaxLag
    /\ Second * (admitted + bucket.tokens) <= Second * burst + rate * Seen(bucket, from)

\* A refill keeps a bucket within its bound, and brings it up to the time.
LEMMA RefillWithin ==
    ASSUME NEW bucket, NEW rate \in Nat, NEW burst \in Nat, NEW from, NEW admitted,
           NEW time \in Nat, NEW at \in Nat, at <= time,
           Within(bucket, rate, burst, from, admitted, time)
    PROVE  /\ Within(Refill(bucket, rate, burst, at), rate, burst, from, admitted, time)
           /\ Refill(bucket, rate, burst, at).last >= at
<1> DEFINE new == Refill(bucket, rate, burst, at)
           earned == Earned(bucket, rate, at)
           start == from - MaxLag
<1> USE PacingAssumption
<1>1. CASE at <= bucket.last
  BY <1>1 DEF Refill, Within
<1>2. CASE ~ (at <= bucket.last)
  <2>1. bucket.last \in Nat /\ bucket.tokens \in Nat /\ from \in Nat /\ admitted \in Nat
    BY DEF Within
  <2>2. (at - bucket.last) * rate \in Nat
    BY <1>2, <2>1
  <2>3. earned \in Nat /\ Second * earned <= (at - bucket.last) * rate
    BY <2>2, FloorBelow DEF Earned
  <2>4. new = [tokens |-> Least(bucket.tokens + earned, burst), last |-> at]
    BY <1>2 DEF Refill
  <2>5. /\ new.tokens \in Nat /\ new.tokens <= burst
        /\ new.tokens <= bucket.tokens + earned
        /\ new.last = at
    BY <2>1, <2>3, <2>4 DEF Least
  <2>6. CASE bucket.last >= start
    <3>1. Seen(bucket, from) = bucket.last - start /\ Seen(new, from) = at - start
      BY <2>6, <2>5, <1>2, <2>1 DEF Seen
    <3>2. Second * (admitted + new.tokens) <= Second * (admitted + bucket.tokens + earned)
      BY <2>1, <2>3, <2>5, ScaleMono
    <3>3. Second * (admitted + bucket.tokens + earned)
            = Second * (admitted + bucket.tokens) + Second * earned
      BY <2>1, <2>3, ScaleSum
    <3>4. rate * (at - start) = rate * (bucket.last - start) + rate * (at - bucket.last)
      <4>1. at - start = (bucket.last - start) + (at - bucket.last)
        BY <2>1
      <4> QED
        BY <4>1, <2>1, ScaleSum
    <3>5. rate * (at - bucket.last) = (at - bucket.last) * rate
      BY <2>1
    <3>6. Second * (admitted + bucket.tokens) <= Second * burst + rate * (bucket.last - start)
      BY <3>1 DEF Within
    <3>7. /\ Second * (admitted + new.tokens) \in Int /\ Second * (admitted + bucket.tokens) \in Int
          /\ Second * earned \in Int /\ Second * burst \in Int
          /\ rate * (bucket.last - start) \in Int /\ (at - bucket.last) * rate \in Int
      BY <2>1, <2>3, <2>5
    <3>8. Second * (admitted + new.tokens) <= Second * burst + rate * Seen(new, from)
      BY <3>1, <3>2, <3>3, <3>4, <3>5, <3>6, <3>7, <2>3
    <3> QED
      BY <3>8, <2>1, <2>4, <2>5, <2>6, <1>2 DEF Within
  <2>7. CASE ~ (bucket.last >= start)
    <3>1. admitted = 0
      BY <2>7, <2>1 DEF Within
    <3>2. Second * (admitted + new.tokens) <= Second * burst
      BY <3>1, <2>5, ScaleMono
    <3>3. Seen(new, from) \in Nat
      BY <2>5, <2>1 DEF Seen
    <3>4. rate * Seen(new, from) \in Nat
      BY <3>3
    <3>5. Second * (admitted + new.tokens) <= Second * burst + rate * Seen(new, from)
      BY <3>2, <3>4, <2>1, <2>5
    <3> QED
      BY <3>5, <3>1, <2>1, <2>4, <2>5 DEF Within
  <2> QED
    BY <2>6, <2>7, <2>5
<1> QED
  BY <1>1, <1>2

\* Spending keeps a bucket within its bound, whether or not what was paid for
\* is admitted in the end.
LEMMA SpendWithin ==
    ASSUME NEW bucket, NEW rate \in Nat, NEW burst \in Nat, NEW from, NEW admitted,
           NEW time \in Nat, NEW n \in Nat, Has(bucket, n), bucket.last >= from - MaxLag,
           Within(bucket, rate, burst, from, admitted, time)
    PROVE  /\ Within(Spend(bucket, n), rate, burst, from, admitted, time)
           /\ Within(Spend(bucket, n), rate, burst, from, admitted + n, time)
<1> DEFINE new == Spend(bucket, n)
<1> USE PacingAssumption
<1>1. bucket.tokens \in Nat /\ bucket.last \in Nat /\ from \in Nat /\ admitted \in Nat
  BY DEF Within
<1>2. new = [tokens |-> bucket.tokens - n, last |-> bucket.last]
  BY DEF Spend, Within
<1>3. new.tokens \in Nat /\ new.tokens + n = bucket.tokens /\ new.last = bucket.last
  BY <1>1, <1>2 DEF Has
<1>4. Seen(new, from) = Seen(bucket, from)
  BY <1>3 DEF Seen
<1>5. Second * (admitted + n + new.tokens) = Second * (admitted + bucket.tokens)
  BY <1>1, <1>3
<1>6. Second * (admitted + new.tokens) <= Second * (admitted + bucket.tokens)
  BY <1>1, <1>3, ScaleMono
<1>7. rate * Seen(bucket, from) \in Int
  BY <1>1 DEF Seen
<1> QED
  BY <1>1, <1>2, <1>3, <1>4, <1>5, <1>6, <1>7 DEF Within

\* Any new stretch starts within the bound.
LEMMA WatchWithin ==
    ASSUME NEW bucket, NEW rate \in Nat, NEW burst \in Nat, NEW from, NEW admitted,
           NEW time \in Nat, Within(bucket, rate, burst, from, admitted, time)
    PROVE  Within(bucket, rate, burst, time, 0, time)
<1> USE PacingAssumption
<1>1. bucket.tokens \in Nat /\ bucket.last \in Nat /\ bucket.tokens <= burst
  BY DEF Within
<1>2. Second * (0 + bucket.tokens) <= Second * burst
  BY <1>1, ScaleMono
<1>3. Seen(bucket, time) \in Nat
  BY <1>1 DEF Seen
<1>4. rate * Seen(bucket, time) \in Nat
  BY <1>3
<1> QED
  BY <1>1, <1>2, <1>4 DEF Within

\* Within its bound, a bucket has admitted no more than the run's property says.
LEMMA WithinHeld ==
    ASSUME NEW bucket, NEW rate \in Nat, NEW burst \in Nat, NEW admitted,
           now \in Nat, Within(bucket, rate, burst, window.from, admitted, now)
    PROVE  Held(admitted, rate, burst)
<1> DEFINE span == now - window.from + MaxLag
<1> USE PacingAssumption
<1>1. bucket.tokens \in Nat /\ bucket.last \in Nat /\ window.from \in Nat /\ admitted \in Nat
  BY DEF Within
<1>2. Seen(bucket, window.from) \in Nat /\ span \in Nat /\ Seen(bucket, window.from) <= span
  BY <1>1 DEF Seen, Within
<1>3. rate * Seen(bucket, window.from) <= rate * span
  BY <1>2, ScaleMono
<1>4. Second * admitted <= Second * (admitted + bucket.tokens)
  BY <1>1, ScaleMono
<1>5. rate * Seen(bucket, window.from) \in Int /\ rate * span \in Int
      /\ Second * (admitted + bucket.tokens) \in Int
  BY <1>1, <1>2
<1>6. Second * (admitted + bucket.tokens) <= Second * burst + rate * Seen(bucket, window.from)
  BY DEF Within
<1> QED
  BY <1>1, <1>3, <1>4, <1>5, <1>6 DEF Held

-----------------------------------------------------------------------------
(* The invariant: both buckets are within their bounds for the stretch     *)
(* being watched.                                                          *)

Paced ==
    /\ now \in Nat
    /\ window = [from |-> window.from, ops |-> window.ops, bytes |-> window.bytes]
    /\ Within(opBucket, RateOps, BurstOps, window.from, window.ops, now)
    /\ Within(byteBucket, RateBytes, BurstBytes, window.from, window.bytes, now)

LEMMA PacedInit == PacingInit => Paced
<1> SUFFICES ASSUME PacingInit PROVE Paced
  OBVIOUS
<1> USE PacingAssumption
<1>1. \A rate, burst \in Nat : Within(Bucket(burst), rate, burst, 0, 0, 0)
  <2> SUFFICES ASSUME NEW rate \in Nat, NEW burst \in Nat
               PROVE  Within(Bucket(burst), rate, burst, 0, 0, 0)
    OBVIOUS
  <2>1. Seen(Bucket(burst), 0) \in Nat
    BY DEF Seen, Bucket
  <2>2. rate * Seen(Bucket(burst), 0) \in Nat
    BY <2>1
  <2> QED
    BY <2>2 DEF Within, Bucket
<1> QED
  BY <1>1 DEF PacingInit, Paced

LEMMA PacedSubmit ==
    ASSUME Paced, NEW size \in Sizes, NEW at \in now - MaxLag .. now, at >= 0,
           NEW own \in BOOLEAN, NEW valid \in BOOLEAN, Submit(size, at, own, valid)
    PROVE  Paced'
<1> DEFINE o == Refill(opBucket, RateOps, BurstOps, at)
           b == Refill(byteBucket, RateBytes, BurstBytes, at)
           rated == own /\ Has(o, 1)
           paid == rated /\ Has(b, size)
           from == window.from
<1> USE PacingAssumption
<1>1. at \in Nat /\ at <= now /\ size \in Nat /\ now \in Nat /\ from \in Nat /\ from <= now
  BY DEF Paced, Within
<1>2. at >= from - MaxLag
  BY <1>1
<1>3. /\ Within(o, RateOps, BurstOps, from, window.ops, now)
      /\ Within(b, RateBytes, BurstBytes, from, window.bytes, now)
      /\ o.last >= from - MaxLag /\ b.last >= from - MaxLag
  <2>1. Within(o, RateOps, BurstOps, from, window.ops, now) /\ o.last >= at
    BY <1>1, RefillWithin DEF Paced
  <2>2. Within(b, RateBytes, BurstBytes, from, window.bytes, now) /\ b.last >= at
    BY <1>1, RefillWithin DEF Paced
  <2>3. o.last \in Nat /\ b.last \in Nat
    BY <2>1, <2>2 DEF Within
  <2> QED
    BY <2>1, <2>2, <2>3, <1>1, <1>2
<1>4. /\ opBucket' = IF rated THEN Spend(o, 1) ELSE o
      /\ byteBucket' = IF paid THEN Spend(b, size) ELSE b
      /\ window' = IF paid /\ valid
                    THEN [window EXCEPT !.ops = @ + 1, !.bytes = @ + size]
                    ELSE window
      /\ now' = now
  BY DEF Submit
<1>5. rated => /\ Within(Spend(o, 1), RateOps, BurstOps, from, window.ops, now)
               /\ Within(Spend(o, 1), RateOps, BurstOps, from, window.ops + 1, now)
  BY <1>1, <1>3, SpendWithin
<1>6. paid => /\ Within(Spend(b, size), RateBytes, BurstBytes, from, window.bytes, now)
              /\ Within(Spend(b, size), RateBytes, BurstBytes, from, window.bytes + size, now)
  BY <1>1, <1>3, SpendWithin
<1>7. CASE paid /\ valid
  <2>1. window' = [from |-> from, ops |-> window.ops + 1, bytes |-> window.bytes + size]
    BY <1>4, <1>7 DEF Paced
  <2>2. opBucket' = Spend(o, 1) /\ byteBucket' = Spend(b, size)
    BY <1>4, <1>7
  <2> QED
    BY <2>1, <2>2, <1>1, <1>4, <1>5, <1>6, <1>7 DEF Paced
<1>8. CASE ~ (paid /\ valid)
  <2>1. window' = window
    BY <1>4, <1>8
  <2>2. Within(opBucket', RateOps, BurstOps, from, window.ops, now)
    BY <1>3, <1>4, <1>5
  <2>3. Within(byteBucket', RateBytes, BurstBytes, from, window.bytes, now)
    BY <1>3, <1>4, <1>6
  <2> QED
    BY <2>1, <2>2, <2>3, <1>1, <1>4 DEF Paced
<1> QED
  BY <1>7, <1>8

LEMMA PacedStep == Paced /\ [PacingNext]_pacingVars => Paced'
<1> SUFFICES ASSUME Paced, [PacingNext]_pacingVars PROVE Paced'
  OBVIOUS
<1> USE PacingAssumption
<1>1. CASE UNCHANGED <<now, bucketVars>>
  BY <1>1 DEF Paced, bucketVars
<1>2. CASE \E size \in Sizes, at \in now - MaxLag .. now, own, valid \in BOOLEAN :
                at >= 0 /\ Submit(size, at, own, valid)
  BY <1>2, PacedSubmit
<1>3. CASE Pass
  <2>1. now' = now + 1 /\ opBucket' = opBucket /\ byteBucket' = byteBucket /\ window' = window
    BY <1>3 DEF Pass, bucketVars
  <2>2. Within(opBucket, RateOps, BurstOps, window.from, window.ops, now + 1)
    BY DEF Paced, Within
  <2>3. Within(byteBucket, RateBytes, BurstBytes, window.from, window.bytes, now + 1)
    BY DEF Paced, Within
  <2> QED
    BY <2>1, <2>2, <2>3 DEF Paced
<1>4. CASE Watch
  <2>1. /\ now' = now /\ opBucket' = opBucket /\ byteBucket' = byteBucket
        /\ window' = [from |-> now, ops |-> 0, bytes |-> 0]
    BY <1>4 DEF Watch
  <2>2. /\ Within(opBucket, RateOps, BurstOps, now, 0, now)
        /\ Within(byteBucket, RateBytes, BurstBytes, now, 0, now)
    BY WatchWithin DEF Paced
  <2> QED
    BY <2>1, <2>2 DEF Paced
<1>5. CASE FirstHello \/ RetryHello \/ HelloAck \/ InSync \/ Lose \/ HardReset
  BY <1>1, <1>5 DEF FirstHello, RetryHello, SayHello, HelloAck, InSync, Lose, HardReset
<1> QED
  BY <1>1, <1>2, <1>3, <1>4, <1>5 DEF PacingNext, pacingVars

LEMMA PacedAlways == PacingSpec => []Paced
BY PacedInit, PacedStep, PTL DEF PacingSpec

\* In any stretch of time, with submissions timed in any way and their clock
\* readings up to MaxLag old, the relay admits no more ops of one actor than
\* its burst and its sustained rate allow (Bucket, submit).
THEOREM RateBounded == PacingSpec => []RateHeld
<1>1. Paced => RateHeld
  BY WithinHeld, PacingAssumption DEF Paced, RateHeld
<1> QED
  BY <1>1, PacedAlways, PTL

\* The same of bytes, although an op short of bytes has already cost an op.
THEOREM BytesBounded == PacingSpec => []BytesHeld
<1>1. Paced => BytesHeld
  BY WithinHeld, PacingAssumption DEF Paced, BytesHeld
<1> QED
  BY <1>1, PacedAlways, PTL

-----------------------------------------------------------------------------
(* The replica's delays.                                                   *)

\* A power of two is the number of subsets of a set.
LEMMA PowerPositive ==
    ASSUME NEW n \in Nat
    PROVE  2 ^ n \in Nat \ {0}
<1>1. IsFiniteSet(1..n) /\ Cardinality(1..n) = n
  BY FS_Interval
<1>2. IsFiniteSet(SUBSET (1..n)) /\ Cardinality(SUBSET (1..n)) = 2 ^ n
  BY <1>1, FS_SUBSET
<1>3. Cardinality(SUBSET (1..n)) \in Nat
  BY <1>2, FS_CardinalityType
<1>4. Cardinality(SUBSET (1..n)) # 0
  BY <1>2, FS_EmptySet
<1> QED
  BY <1>2, <1>3, <1>4

\* Doubling neither falls below the base nor rises above the cap.
LEMMA DoubledBounds ==
    ASSUME NEW n \in Nat
    PROVE  Doubled(n) \in BaseDelay .. CapDelay
<1> USE DelayAssumption
<1>1. PICK k \in Nat : k = Least(n, MaxShift)
  BY DEF Least
<1>2. PICK p \in Nat \ {0} : p = 2 ^ k
  BY PowerPositive
<1>3. BaseDelay * p \in Nat /\ BaseDelay * 1 <= BaseDelay * p
  BY ScaleMono
<1>4. Doubled(n) = Least(BaseDelay * p, CapDelay)
  BY <1>1, <1>2 DEF Doubled
<1> QED
  BY <1>3, <1>4 DEF Least

\* Jitter takes away a quarter at the most.
LEMMA DelayLong ==
    ASSUME NEW n \in Nat, NEW d \in Delays(n)
    PROVE  d \in Nat /\ 4 * d >= 3 * BaseDelay
<1> USE DelayAssumption
<1>1. PICK base \in BaseDelay .. CapDelay : base = Doubled(n)
  BY DoubledBounds
<1> DEFINE spread == base \div 2
           from   == base - spread \div 2
<1>2. base \in Nat /\ base >= BaseDelay
  BY <1>1
<1>3. spread \in Nat /\ 2 * spread <= base
  BY <1>2, FloorBelow
<1>4. spread \div 2 \in Nat /\ 2 * (spread \div 2) <= spread
  BY <1>3, FloorBelow
<1>5. from \in Nat /\ 4 * from >= 3 * base
  BY <1>2, <1>3, <1>4
<1>6. PICK e \in from .. from + (IF spread = 0 THEN 0 ELSE spread - 1) : d = Least(e, CapDelay)
  BY <1>1 DEF Delays
<1>7. e \in Nat /\ e >= from
  BY <1>3, <1>5, <1>6
<1> HIDE DEF spread, from
<1> QED
  BY <1>2, <1>5, <1>6, <1>7 DEF Least

\* Whatever timer is armed, when it has run down three quarters of the base will
\* have passed since the last HELLO.
Spaced ==
    /\ now \in Nat /\ attempt \in Nat
    /\ retry \in Nat \union {NoTimer}
    /\ hello \in Nat \union {Never} /\ hello <= now
    /\ link # "Disconnected" => hello # Never
    /\ retry # NoTimer => hello # Never /\ 4 * (now - hello + retry) >= 3 * BaseDelay

LEMMA SpacedInit == PacingInit => Spaced
  BY DEF PacingInit, Spaced, NoTimer, Never

LEMMA SpacedStep == Spaced /\ [PacingNext]_pacingVars => Spaced'
<1> SUFFICES ASSUME Spaced, [PacingNext]_pacingVars PROVE Spaced'
  OBVIOUS
<1> USE DelayAssumption DEF Spaced, NoTimer, Never
<1>1. CASE UNCHANGED <<now, paceVars>>
  BY <1>1 DEF paceVars
<1>2. ASSUME NEW size \in Sizes, NEW at \in now - MaxLag .. now, NEW own \in BOOLEAN,
             NEW valid \in BOOLEAN, Submit(size, at, own, valid)
      PROVE  Spaced'
  BY <1>1, <1>2 DEF Submit
<1>3. CASE FirstHello \/ RetryHello
  BY <1>3 DEF FirstHello, RetryHello, SayHello
<1>4. CASE HelloAck
  BY <1>4 DEF HelloAck
<1>5. CASE InSync
  BY <1>5 DEF InSync
<1>6. CASE Lose
  <2>1. retry' \in Nat /\ 4 * retry' >= 3 * BaseDelay
    BY <1>6, DelayLong DEF Lose
  <2>2. now' = now /\ hello' = hello /\ attempt' = attempt + 1 /\ hello # Never
    BY <1>6 DEF Lose
  <2>3. PICK d \in Nat : retry' = d /\ 4 * d >= 3 * BaseDelay
    BY <2>1
  <2>4. 4 * (now - hello + d) >= 3 * BaseDelay
    BY <2>2, <2>3
  <2> QED
    BY <2>2, <2>3, <2>4
<1>7. CASE HardReset
  <2>1. PICK s \in ResetSpread : retry' = ResetDelay + s
    BY <1>7 DEF HardReset
  <2>2. s \in Nat
    OBVIOUS
  <2> QED
    BY <1>7, <2>1, <2>2 DEF HardReset
<1>8. CASE Pass
  BY <1>8 DEF Pass
<1>9. CASE Watch
  BY <1>1, <1>9 DEF Watch
<1> QED
  BY <1>1, <1>2, <1>3, <1>4, <1>5, <1>6, <1>7, <1>8, <1>9 DEF PacingNext, pacingVars, bucketVars, paceVars

\* Three quarters of the base pass between two HELLOs, whichever of the two ways
\* back each loss takes and however the jitter falls (machine.rs enter_backoff,
\* replica.rs hard_reset).
THEOREM FlappingIsPaced == PacingSpec => HellosSpaced
<1>1. PacingSpec => []Spaced
  BY SpacedInit, SpacedStep, PTL DEF PacingSpec
<1>2. Spaced /\ [PacingNext]_pacingVars =>
          [hello # Never /\ link # "HelloSent" /\ link' = "HelloSent"
              => 4 * (now - hello) >= 3 * BaseDelay]_pacingVars
  <2> SUFFICES ASSUME Spaced, [PacingNext]_pacingVars, hello # Never, link # "HelloSent", link' = "HelloSent"
               PROVE  4 * (now - hello) >= 3 * BaseDelay
    OBVIOUS
  <2>1. retry = 0
    BY DEF PacingNext, Submit, FirstHello, RetryHello, SayHello, HelloAck, InSync, Lose, HardReset, Pass,
           Watch, pacingVars, paceVars
  <2> QED
    BY <2>1 DEF Spaced, NoTimer
<1> QED
  BY <1>1, <1>2, PTL DEF PacingSpec, HellosSpaced

\* The state keeps its type: a bucket never holds more than its burst nor a time
\* to come, and a timer is armed or not.
THEOREM PacingType == PacingSpec => []PacingTypeOK
<1>1. PacingSpec => []Spaced
  BY SpacedInit, SpacedStep, PTL DEF PacingSpec
<1>2. Paced /\ Spaced => PacingTypeOK
  BY PacingAssumption DEF Paced, Spaced, Within, PacingTypeOK, BucketOK
<1> QED
  BY <1>1, <1>2, PacedAlways, PTL
=============================================================================
