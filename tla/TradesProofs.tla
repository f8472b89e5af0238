----------------------------- MODULE TradesProofs -----------------------------
(***************************************************************************)
(* Theorems about Trades, for every pair of units, every limit of an       *)
(* answer and every bound.                                                 *)
(***************************************************************************)
EXTENDS Trades, SequenceTheorems, FiniteSetTheorems, TLAPS

(* Numbers *)

LEMMA SecondsGrow ==
    ASSUME NEW a \in Nat, NEW b \in Nat, a <= b
    PROVE  Seconds(a) \in Nat /\ Seconds(a) <= Seconds(b)
BY UnitsAssumption DEF Seconds

LEMMA MillisAreEarlier ==
    ASSUME NEW a \in Nat
    PROVE  /\ Millis(a) \in Nat /\ Millis(a) <= a
           /\ a % PerMs = 0 => Millis(a) = a
BY UnitsAssumption DEF Millis

\* A set of numbers from an interval has a greatest one.  Of the sets of what is
\* not less than a member, one is contained in no other.
LEMMA MaxIsGreatest ==
    ASSUME NEW N \in Nat, NEW S, S \subseteq 1 .. N, S # {}
    PROVE  Max(S) \in S /\ \A y \in S : Max(S) >= y
<1> DEFINE Aboves == {A \in SUBSET S : \E x \in S : \A y \in S : y \in A <=> y >= x}
<1>1. IsFiniteSet(S)
  <2>1. IsFiniteSet(1 .. N) /\ S \in SUBSET (1 .. N)
    BY FS_Interval
  <2> QED BY <2>1, FS_Subset
<1>2. IsWellFoundedOn(StrictSubsetOrdering(S), SUBSET S)
  BY <1>1, FS_StrictSubsetOrderingWellFounded, FS_FiniteSubsetsOfFinite
<1>3. Aboves \subseteq SUBSET S /\ Aboves # {}
  <2>1. PICK x \in S : TRUE
    OBVIOUS
  <2>2. {y \in S : y >= x} \in Aboves
    OBVIOUS
  <2> QED BY <2>2
<1>4. PICK A \in Aboves : \A B \in Aboves : <<B, A>> \notin StrictSubsetOrdering(S)
  <2> HIDE DEF Aboves
  <2> QED BY <1>2, <1>3, WFMin
<1>5. PICK x \in S : \A y \in S : y \in A <=> y >= x
  BY <1>4
<1>6. ASSUME NEW z \in S, ~(x >= z) PROVE FALSE
  <2> DEFINE B == {y \in S : y >= z}
  <2>1. x \in Int /\ z \in Int /\ \A y \in S : y \in Int
    OBVIOUS
  <2>2. B \in Aboves /\ A \in SUBSET S
    BY <1>4
  <2>3. x \in A
    BY <1>5, <2>1
  <2>5. x \notin B
    BY <1>6
  <2>6. \A y \in S : y >= z => y >= x
    BY <1>6, <2>1
  <2>7. B \subseteq A
    BY <1>5, <2>6
  <2>4. <<B, A>> \in StrictSubsetOrdering(S)
    BY <2>2, <2>3, <2>5, <2>7 DEF StrictSubsetOrdering
  <2> QED BY <1>4, <2>2, <2>4
<1>7. \A z \in S : x >= z
  BY <1>6
<1> QED BY <1>7 DEF Max

------------------------------------------------------------------------------
(* The inductive invariant *)

\* Trades take place in time order, and none in the future.
Ordered ==
    /\ \A i, j \in DOMAIN trades : i <= j => trades[i] <= trades[j]
    /\ \A i \in DOMAIN trades : trades[i] <= now

\* A trade earlier than second s is in the table, was left out, or is in ns.
Settled(s, ns) == \A n \in DOMAIN trades :
                    Seconds(trades[n]) < s => Stored(n) \/ n \in cut \/ n \in ns

\* What a poll in progress owes the checkpoint it is about to write.
PollOwes ==
    /\ poll.pc = "request" => poll.minTs = IF lastTs = NoTs THEN 0 ELSE Seconds(lastTs)
    /\ poll.pc \in {"insert", "checkpoint"} =>
         /\ poll.newest \in Times /\ lastTs <= poll.newest
         /\ \E n \in DOMAIN trades : trades[n] = poll.newest
         /\ Settled(Seconds(poll.newest), poll.left)

\* The checkpoint is the time of a trade.
LastTsTraded == lastTs # NoTs => \E n \in DOMAIN trades : trades[n] = lastTs

\* The handler reaches the checkpoint with its trade in the table.
StreamOwes == stream.pc = "checkpoint" => Stored(stream.n)

\* A row bears the time of its trade, whole from polling, in milliseconds from the stream.
RowsDated == \A r \in rows : r.ts = trades[r.id] \/ r.ts = Millis(trades[r.id])

TradesInv ==
    /\ TypeOK /\ Ordered
    /\ PollComplete /\ PollOwes /\ LastTsTraded
    /\ LastSeqCovered /\ StreamOwes
    /\ RowsDated

------------------------------------------------------------------------------
(* What the steps that leave the exchange alone keep *)

LEMMA TimesAreNumbers ==
    /\ MaxTrades \in Nat /\ MaxTime \in Nat /\ MaxFaults \in Nat
    /\ Times \subseteq Nat /\ 0 \in Times /\ NoTs \notin Times
BY TradesBounds DEF Times, NoTs

LEMMA IdleStreamTyped ==
    /\ IdleStream \in [pc : {"idle", "insert", "checkpoint"}, n : Nat, seq : BOOLEAN]
    /\ IdleStream.pc = "idle"
BY DEF IdleStream

LEMMA InitHolds == Init => TradesInv
<1> SUFFICES ASSUME Init PROVE TradesInv
  OBVIOUS
<1>1. TypeOK
  <2>1. trades \in Seq(Times) /\ chan \in Seq(DOMAIN trades) /\ Len(trades) = 0
    BY EmptySeq DEF Init
  <2>2. /\ stream \in [pc : {"idle", "insert", "checkpoint"}, n : Nat, seq : BOOLEAN]
        /\ stream.pc = "idle"
    BY DEF Init, IdleStream
  <2>3. /\ poll \in [pc : {"idle", "request", "insert", "checkpoint"}, minTs : Nat,
                      left : SUBSET DOMAIN trades, newest : Times \cup {NoTs}]
        /\ poll.pc = "idle" /\ poll.left = {}
    BY DEF Init, IdlePoll
  <2>4. now \in Times /\ faults \in 0 .. MaxFaults
    BY TimesAreNumbers DEF Init
  <2>5. feeding \in BOOLEAN /\ polling \in BOOLEAN
    BY DEF Init
  <2>6. rows = {} /\ cut = {} /\ lastSeq = 0 /\ lastTs = NoTs
    BY DEF Init
  <2> QED BY <2>1, <2>2, <2>3, <2>4, <2>5, <2>6 DEF TypeOK
<1>2. Ordered /\ PollComplete /\ PollOwes /\ LastTsTraded
  BY DEF Init, Ordered, PollComplete, PollOwes, LastTsTraded, IdlePoll
<1>3. LastSeqCovered /\ StreamOwes /\ RowsDated
  BY DEF Init, LastSeqCovered, StreamOwes, RowsDated, IdleStream
<1> QED BY <1>1, <1>2, <1>3 DEF TradesInv

\* Nothing the invariant says of a variable depends on what the others do, but for
\* the rows, which only grow.
LEMMA KeptWhileRowsGrow ==
    ASSUME TradesInv, UNCHANGED <<exchange, cut>>, rows \subseteq rows'
    PROVE  /\ Ordered'
           /\ UNCHANGED lastTs => PollComplete' /\ LastTsTraded'
           /\ UNCHANGED lastSeq => LastSeqCovered'
           /\ UNCHANGED <<poll, lastTs>> \/ poll' = IdlePoll => PollOwes'
           /\ UNCHANGED stream \/ stream' = IdleStream => StreamOwes'
           /\ UNCHANGED rows => RowsDated'
<1>1. UNCHANGED <<trades, now, cut>>
  BY DEF exchange
<1>2. \A n : Stored(n) => Stored(n)'
  BY DEF Stored
<1>3. Ordered'
  BY <1>1 DEF TradesInv, Ordered
<1>4. ASSUME UNCHANGED lastTs PROVE PollComplete' /\ LastTsTraded'
  BY <1>1, <1>2, <1>4 DEF TradesInv, PollComplete, LastTsTraded, Seconds
<1>5. ASSUME UNCHANGED lastSeq PROVE LastSeqCovered'
  BY <1>2, <1>5 DEF TradesInv, LastSeqCovered
<1>6. ASSUME UNCHANGED <<poll, lastTs>> PROVE PollOwes'
  BY <1>1, <1>2, <1>6 DEF TradesInv, PollOwes, Settled, Seconds
<1>7. ASSUME poll' = IdlePoll PROVE PollOwes'
  BY <1>7 DEF PollOwes, IdlePoll
<1>8. ASSUME UNCHANGED stream \/ stream' = IdleStream PROVE StreamOwes'
  BY <1>2, <1>8 DEF TradesInv, StreamOwes, IdleStream
<1>9. ASSUME UNCHANGED rows PROVE RowsDated'
  BY <1>1, <1>9 DEF TradesInv, RowsDated, Millis
<1> QED BY <1>3, <1>4, <1>5, <1>6, <1>7, <1>8, <1>9

\* The wire, the faults and the idling of the two paths touch nothing else.
LEMMA WireStepKeeps ==
    ASSUME TradesInv, Feed \/ Disconnect \/ Crash \/ Receive \/ Discard
    PROVE  TradesInv'
<1>1. UNCHANGED <<exchange, cut, tables>> /\ UNCHANGED <<trades, now, rows, lastSeq, lastTs>>
  BY DEF Feed, Disconnect, Crash, Receive, Discard, exchange, tables
<1>2. chan' \in Seq(DOMAIN trades)
  <2>1. chan \in Seq(DOMAIN trades)
    BY DEF TradesInv, TypeOK
  <2>2. CASE \E k \in 0 .. Len(chan) : chan' = SubSeq(chan, 1, k)
    BY <2>1, <2>2, SubSeqProperties
  <2>3. CASE chan' = Tail(chan) /\ chan # <<>>
    BY <2>1, <2>3, HeadTailProperties
  <2>4. CASE chan' = <<>>
    BY <2>4, EmptySeq
  <2>5. CASE chan' = chan
    BY <2>1, <2>5
  <2> QED BY <2>2, <2>3, <2>4, <2>5 DEF Feed, Disconnect, Crash, Receive, Discard
<1>3. feeding' \in BOOLEAN /\ polling' \in BOOLEAN /\ faults' \in 0 .. MaxFaults
  <2>1. feeding' \in BOOLEAN /\ polling' \in BOOLEAN
    BY DEF TradesInv, TypeOK, Feed, Disconnect, Crash, Receive, Discard
  <2>2. UNCHANGED faults \/ Fault
    BY DEF Feed, Disconnect, Crash, Receive, Discard
  <2>3. faults' \in 0 .. MaxFaults
    BY <2>2, TimesAreNumbers DEF TradesInv, TypeOK, Fault
  <2> QED BY <2>1, <2>3
<1>4. /\ stream' \in [pc : {"idle", "insert", "checkpoint"}, n : Nat, seq : BOOLEAN]
      /\ stream'.pc # "idle" => stream'.n \in DOMAIN trades
      /\ StreamOwes'
  <2>1. CASE Receive
    <3>1. Head(chan) \in DOMAIN trades /\ DOMAIN trades \subseteq Nat
      BY <2>1, HeadTailProperties DEF TradesInv, TypeOK, Receive
    <3> QED BY <2>1, <3>1 DEF Receive, StreamOwes
  <2>2. CASE UNCHANGED stream
    BY <1>1, <2>2, KeptWhileRowsGrow DEF TradesInv, TypeOK
  <2>3. CASE stream' = IdleStream
    BY <1>1, <2>3, KeptWhileRowsGrow DEF IdleStream
  <2> QED BY <2>1, <2>2, <2>3 DEF Feed, Disconnect, Crash, Discard
<1>5. UNCHANGED poll \/ poll' = IdlePoll
  BY DEF Feed, Disconnect, Crash, Receive, Discard
<1>6. /\ poll' \in [pc : {"idle", "request", "insert", "checkpoint"}, minTs : Nat,
                    left : SUBSET DOMAIN trades, newest : Times \cup {NoTs}]
      /\ poll'.pc = "insert" <=> poll'.left # {}
  BY <1>5 DEF TradesInv, TypeOK, IdlePoll
<1>7. TypeOK'
  BY <1>1, <1>2, <1>3, <1>4, <1>6 DEF TradesInv, TypeOK
<1> QED BY <1>1, <1>4, <1>5, <1>7, KeptWhileRowsGrow DEF TradesInv

------------------------------------------------------------------------------
(* Inserts, checkpoints and what ends a path before its time *)

\* A row added for a trade: the trade is stored, and the rows have their types.
LEMMA AppendTradeStores ==
    ASSUME TradesInv, NEW n \in DOMAIN trades, NEW ts,
           ts = trades[n] \/ ts = Millis(trades[n]),
           AppendTrade(n, ts), UNCHANGED exchange
    PROVE  /\ rows \subseteq rows'
           /\ rows' \subseteq [id : DOMAIN trades, ts : Times]
           /\ Stored(n)' /\ \A k : Stored(k) => Stored(k)'
           /\ RowsDated'
<1>1. UNCHANGED trades
  BY DEF exchange
<1>2. trades[n] \in Times
  BY DEF TradesInv, TypeOK
<1>3. ts \in Times
  <2>1. CASE ts = trades[n]
    BY <1>2, <2>1
  <2>2. CASE ts = Millis(trades[n])
    <3> DEFINE t == trades[n]
    <3>1. t \in Nat /\ t <= MaxTime
      BY <1>2, TimesAreNumbers DEF Times
    <3>2. Millis(t) \in Nat /\ Millis(t) <= t
      BY <3>1, MillisAreEarlier
    <3> QED BY <2>2, <3>1, <3>2, TimesAreNumbers DEF Times
  <2> QED BY <2>1, <2>2
<1>4. rows' = rows \cup {[id |-> n, ts |-> ts]}
  BY DEF AppendTrade
<1>5. rows' \subseteq [id : DOMAIN trades, ts : Times]
  BY <1>3, <1>4 DEF TradesInv, TypeOK
<1>6. Stored(n)' /\ \A k : Stored(k) => Stored(k)'
  <2>1. [id |-> n, ts |-> ts] \in rows' /\ rows \subseteq rows'
    BY <1>4
  <2>2. Stored(n)'
    BY <2>1 DEF Stored
  <2> QED BY <2>1, <2>2 DEF Stored
<1>7. RowsDated'
  <2> SUFFICES ASSUME NEW r \in rows' PROVE r.ts = trades[r.id] \/ r.ts = Millis(trades[r.id])
    BY <1>1 DEF RowsDated, Millis
  <2> QED BY <1>4 DEF TradesInv, RowsDated
<1> QED BY <1>4, <1>5, <1>6, <1>7

\* The handler stores its trade before its checkpoint names it.
LEMMA StreamInsertKeeps == TradesInv /\ StreamInsert => TradesInv'
<1> SUFFICES ASSUME TradesInv, StreamInsert PROVE TradesInv'
  OBVIOUS
<1>1. UNCHANGED <<exchange, trades, now, wire, chan, feeding, polling, poll, lastSeq, lastTs,
                  cut, faults>>
  BY DEF StreamInsert, exchange, wire
<1>2. PICK n \in DOMAIN trades : n = stream.n
  BY DEF TradesInv, TypeOK, StreamInsert
<1>3. AppendTrade(n, Millis(trades[n]))
  BY <1>2 DEF StreamInsert
<1>4. /\ rows \subseteq rows' /\ rows' \subseteq [id : DOMAIN trades, ts : Times]
      /\ Stored(n)' /\ RowsDated'
  BY <1>1, <1>3, AppendTradeStores
<1>5. stream \in [pc : {"idle", "insert", "checkpoint"}, n : Nat, seq : BOOLEAN]
  BY DEF TradesInv, TypeOK
<1>6. /\ stream' \in [pc : {"idle", "insert", "checkpoint"}, n : Nat, seq : BOOLEAN]
      /\ stream'.pc # "idle" => stream'.n = n
  <2>1. CASE stream.seq
    BY <1>2, <1>5, <2>1 DEF StreamInsert
  <2>2. CASE ~stream.seq
    BY <2>2, IdleStreamTyped DEF StreamInsert
  <2> QED BY <2>1, <2>2
<1>7. StreamOwes'
  BY <1>4, <1>6 DEF StreamOwes, Stored
<1>8. TypeOK'
  BY <1>1, <1>2, <1>4, <1>6 DEF TradesInv, TypeOK
<1> QED BY <1>1, <1>4, <1>7, <1>8, KeptWhileRowsGrow DEF TradesInv

\* The checkpoint names a stored trade.
LEMMA StreamCheckpointKeeps == TradesInv /\ StreamCheckpoint => TradesInv'
<1> SUFFICES ASSUME TradesInv, StreamCheckpoint PROVE TradesInv'
  OBVIOUS
<1>1. UNCHANGED <<exchange, trades, now, wire, chan, feeding, polling, poll, rows, lastTs, cut,
                  faults>>
  BY DEF StreamCheckpoint, exchange, wire
<1>2. stream.n \in DOMAIN trades /\ lastSeq' = stream.n /\ stream' = IdleStream /\ Stored(stream.n)
  BY DEF TradesInv, TypeOK, StreamOwes, StreamCheckpoint
<1>3. lastSeq' \in 0 .. Len(trades) /\ LastSeqCovered'
  BY <1>1, <1>2 DEF TradesInv, TypeOK, LastSeqCovered, Stored
<1>4. TypeOK'
  BY <1>1, <1>2, <1>3 DEF TradesInv, TypeOK, IdleStream
<1> QED BY <1>1, <1>2, <1>3, <1>4, KeptWhileRowsGrow DEF TradesInv

\* A path that gives up, and the read of the checkpoint.
LEMMA GivingUpKeeps ==
    ASSUME TradesInv, StreamError \/ PollFail \/ PollError \/ PollRead
    PROVE  TradesInv'
<1>1. UNCHANGED <<exchange, trades, now, wire, chan, feeding, polling, tables, rows, lastSeq,
                  lastTs, cut>>
  BY DEF StreamError, PollFail, PollError, PollRead, exchange, wire, tables
<1>2. UNCHANGED faults \/ Fault
  BY DEF StreamError, PollFail, PollError, PollRead
<1>3. faults' \in 0 .. MaxFaults
  BY <1>2, TimesAreNumbers DEF TradesInv, TypeOK, Fault
<1>4. UNCHANGED stream \/ stream' = IdleStream
  BY DEF StreamError, PollFail, PollError, PollRead
<1>5. /\ stream' \in [pc : {"idle", "insert", "checkpoint"}, n : Nat, seq : BOOLEAN]
      /\ stream'.pc # "idle" => stream'.n \in DOMAIN trades
  BY <1>1, <1>4, IdleStreamTyped DEF TradesInv, TypeOK
<1>6. /\ poll' \in [pc : {"idle", "request", "insert", "checkpoint"}, minTs : Nat,
                    left : SUBSET DOMAIN trades, newest : Times \cup {NoTs}]
      /\ poll'.pc = "insert" <=> poll'.left # {}
      /\ PollOwes'
  <2>1. CASE PollRead
    <3> DEFINE m == IF lastTs = NoTs THEN 0 ELSE Seconds(lastTs)
    <3>1. poll' = [pc |-> "request", minTs |-> m, left |-> {}, newest |-> NoTs]
      BY <2>1 DEF PollRead, IdlePoll
    <3>2. m \in Nat
      BY TimesAreNumbers, SecondsGrow DEF TradesInv, TypeOK
    <3>3. m' = m
      BY <1>1 DEF Seconds
    <3> QED BY <3>1, <3>2, <3>3 DEF PollOwes
  <2>2. CASE UNCHANGED poll \/ poll' = IdlePoll
    BY <1>1, <2>2, KeptWhileRowsGrow DEF TradesInv, TypeOK, IdlePoll
  <2> QED BY <2>1, <2>2 DEF StreamError, PollFail, PollError
<1>7. TypeOK'
  BY <1>1, <1>3, <1>5, <1>6 DEF TradesInv, TypeOK
<1> QED BY <1>1, <1>4, <1>6, <1>7, KeptWhileRowsGrow DEF TradesInv

------------------------------------------------------------------------------
(* The steps of a poll *)

\* Nothing is owed for the loop being started.
LEMMA StartPollingKeeps == TradesInv /\ StartPolling => TradesInv'
<1> SUFFICES ASSUME TradesInv, StartPolling PROVE TradesInv'
  OBVIOUS
<1>1. UNCHANGED <<exchange, wire, trades, now, chan, feeding, stream, poll, rows, lastSeq,
                  lastTs, cut,
                  faults>> /\ polling' \in BOOLEAN
  BY DEF StartPolling, exchange, wire, tables
<1>2. TypeOK'
  BY <1>1 DEF TradesInv, TypeOK
<1> QED BY <1>1, <1>2, KeptWhileRowsGrow DEF TradesInv

LEMMA TradesAreNumbers ==
    ASSUME TradesInv
    PROVE  /\ Len(trades) \in Nat /\ DOMAIN trades = 1 .. Len(trades)
           /\ \A n \in DOMAIN trades : /\ trades[n] \in Times /\ trades[n] \in Nat
                                       /\ Seconds(trades[n]) \in Nat
<1>1. Len(trades) \in Nat /\ DOMAIN trades = 1 .. Len(trades)
  BY LenProperties DEF TradesInv, TypeOK
<1>2. ASSUME NEW n \in DOMAIN trades
      PROVE  trades[n] \in Times /\ trades[n] \in Nat /\ Seconds(trades[n]) \in Nat
  <2>1. trades[n] \in Times
    BY DEF TradesInv, TypeOK
  <2>2. trades[n] \in Nat
    BY <2>1, TimesAreNumbers
  <2> QED BY <2>1, <2>2, SecondsGrow
<1> QED BY <1>1, <1>2

\* A page holds the last trade that was asked for, and its newest time is that trade's.
LEMMA PageHoldsTheLast ==
    ASSUME TradesInv, NEW ns, ns \subseteq DOMAIN trades, ns # {}
    PROVE  \E p \in Page(ns) : /\ NewestTs(Page(ns)) = trades[p]
                               /\ \A n \in ns : trades[n] <= trades[p]
<1> DEFINE p == Max(ns)
           T == {trades[n] : n \in Page(ns)}
<1>1. Len(trades) \in Nat /\ DOMAIN trades = 1 .. Len(trades)
  BY TradesAreNumbers
<1>2. p \in ns /\ \A n \in ns : p >= n
  <2> HIDE DEF p
  <2>1. Max(ns) \in ns /\ \A n \in ns : Max(ns) >= n
    BY <1>1, MaxIsGreatest
  <2> QED BY <2>1 DEF p
<1> HIDE DEF p
<1>3. {k \in ns : k > p} = {}
  BY <1>1, <1>2
<1>4. p \in Page(ns)
  <2>1. Cardinality({k \in ns : k > p}) = 0
    BY <1>3, FS_EmptySet
  <2> QED BY <1>2, <2>1, UnitsAssumption DEF Page
<1>5. \A n \in ns : trades[n] <= trades[p]
  BY <1>1, <1>2 DEF TradesInv, Ordered
<1>6. T \subseteq Nat /\ trades[p] \in T /\ \A t \in T : trades[p] >= t
  <2>1. \A n \in DOMAIN trades : trades[n] \in Nat
    BY TradesAreNumbers
  <2>2. Page(ns) \subseteq ns
    BY DEF Page
  <2> QED BY <1>4, <1>5, <2>1, <2>2
<1>7. NewestTs(Page(ns)) = trades[p]
  <2> HIDE DEF T
  <2>1. Max(T) \in T /\ \A t \in T : Max(T) >= t
    BY <1>6 DEF Max
  <2>2. PICK m \in T : m = Max(T)
    BY <2>1
  <2>3. m \in Nat /\ trades[p] \in Nat /\ m >= trades[p] /\ trades[p] >= m
    BY <1>6, <2>1, <2>2
  <2> QED BY <2>2, <2>3 DEF NewestTs, T
<1> QED BY <1>4, <1>5, <1>7

\* The answer: whatever is earlier than its newest trade is in it, was left out for
\* the limit, or is earlier than min_ts, where the last checkpoint answers for it.
LEMMA PollAnswerKeeps == TradesInv /\ PollAnswer => TradesInv'
<1> SUFFICES ASSUME TradesInv, PollAnswer PROVE TradesInv'
  OBVIOUS
<1> DEFINE asked == Asked(poll.minTs)
           page == Page(asked)
<1>1. /\ UNCHANGED <<exchange, trades, now, wire, chan, feeding, stream, polling>>
      /\ UNCHANGED <<tables, rows, lastSeq, lastTs, faults>>
  BY DEF PollAnswer, exchange, wire, tables
<1>2. /\ cut' = cut \cup (asked \ page)
      /\ poll' = IF page = {} THEN IdlePoll
                 ELSE [poll EXCEPT !.pc = "insert", !.left = page, !.newest = NewestTs(page)]
  BY DEF PollAnswer
<1>3. page \subseteq asked /\ asked \subseteq DOMAIN trades
  BY DEF Asked, Page
<1>4. \A n : Stored(n) => Stored(n)'
  BY <1>1 DEF Stored
<1>5. PollComplete' /\ LastTsTraded' /\ LastSeqCovered' /\ StreamOwes' /\ RowsDated' /\ Ordered'
  <2>1. PollComplete'
    BY <1>1, <1>2, <1>4 DEF TradesInv, PollComplete, Seconds
  <2>2. LastTsTraded' /\ Ordered'
    BY <1>1 DEF TradesInv, LastTsTraded, Ordered
  <2>3. LastSeqCovered' /\ StreamOwes'
    BY <1>1, <1>4 DEF TradesInv, LastSeqCovered, StreamOwes
  <2>4. RowsDated'
    BY <1>1 DEF TradesInv, RowsDated, Millis
  <2> QED BY <2>1, <2>2, <2>3, <2>4
<1>6. CASE page = {}
  <2>1. poll' = IdlePoll /\ poll'.pc = "idle" /\ poll'.left = {}
    BY <1>2, <1>6 DEF IdlePoll
  <2>2. TypeOK'
    BY <1>1, <1>2, <1>3, <2>1 DEF TradesInv, TypeOK, IdlePoll
  <2> QED BY <1>5, <2>1, <2>2 DEF TradesInv, PollOwes
<1>7. CASE page # {}
  <2> HIDE DEF asked, page
  <2>1. PICK p \in DOMAIN trades : p \in page /\ NewestTs(page) = trades[p]
                                   /\ \A n \in asked : trades[n] <= trades[p]
    BY <1>3, <1>7, PageHoldsTheLast DEF page
  <2>2. /\ poll'.pc = "insert" /\ poll'.left = page /\ poll'.newest = trades[p]
        /\ poll' \in [pc : {"idle", "request", "insert", "checkpoint"}, minTs : Nat,
                      left : SUBSET DOMAIN trades, newest : Times \cup {NoTs}]
    <3>1. trades[p] \in Times
      BY DEF TradesInv, TypeOK
    <3> QED BY <1>2, <1>3, <1>7, <2>1, <3>1 DEF TradesInv, TypeOK
  <2>3. TypeOK'
    BY <1>1, <1>2, <1>3, <1>7, <2>2 DEF TradesInv, TypeOK
  <2>4. \A n \in DOMAIN trades : n \in asked <=> ~(Seconds(trades[n]) < poll.minTs)
    <3>1. poll.minTs \in Nat
      BY DEF TradesInv, TypeOK
    <3> QED BY <3>1, TradesAreNumbers DEF asked, Asked
  <2>5. poll.minTs = IF lastTs = NoTs THEN 0 ELSE Seconds(lastTs)
    BY DEF TradesInv, PollOwes, PollAnswer
  <2>6. lastTs <= trades[p]
    <3>1. trades[p] \in Nat
      BY TradesAreNumbers
    <3>2. CASE lastTs = NoTs
      BY <3>1, <3>2 DEF NoTs
    <3>3. CASE lastTs # NoTs
      <4>1. PICK n \in DOMAIN trades : trades[n] = lastTs
        BY <3>3 DEF TradesInv, LastTsTraded
      <4>2. Seconds(trades[n]) \in Nat /\ Seconds(trades[n]) = poll.minTs
        BY <2>5, <3>3, <4>1, SecondsGrow, TimesAreNumbers DEF TradesInv, TypeOK
      <4> QED BY <2>1, <2>4, <4>1, <4>2
    <3> QED BY <3>2, <3>3
  <2>7. ASSUME NEW n \in DOMAIN trades, n \notin page
        PROVE  Stored(n)' \/ n \in cut'
    <3>1. CASE n \in asked
      BY <1>2, <2>7, <3>1
    <3>2. CASE n \notin asked
      <4>1. Seconds(trades[n]) \in Nat /\ Seconds(trades[n]) < poll.minTs
        BY <2>4, <3>2, TradesAreNumbers
      <4>2. lastTs # NoTs /\ Seconds(trades[n]) < Seconds(lastTs)
        BY <2>5, <4>1
      <4> QED BY <1>2, <1>4, <4>2 DEF TradesInv, PollComplete
    <3> QED BY <3>1, <3>2
  <2>8. PollOwes'
    <3>1. trades[p] \in Times /\ \A n \in DOMAIN trades' : Stored(n)' \/ n \in cut' \/ n \in page
      BY <1>1, <2>7 DEF TradesInv, TypeOK
    <3> QED BY <1>1, <2>2, <2>6, <3>1 DEF PollOwes, Settled
  <2> QED BY <1>5, <2>3, <2>8 DEF TradesInv
<1> QED BY <1>6, <1>7

\* A trade leaves the answer's rest when it is in the table.
LEMMA PollInsertKeeps == TradesInv /\ PollInsert => TradesInv'
<1> SUFFICES ASSUME TradesInv, PollInsert PROVE TradesInv'
  OBVIOUS
<1>1. UNCHANGED <<exchange, trades, now, wire, chan, feeding, stream, polling, lastSeq, lastTs,
                  cut, faults>>
  BY DEF PollInsert, exchange, wire
<1>2. PICK n \in poll.left : n = Max(poll.left) /\ n \in DOMAIN trades
  <2>1. poll.left \subseteq DOMAIN trades /\ poll.left # {}
    BY DEF TradesInv, TypeOK, PollInsert
  <2>2. Max(poll.left) \in poll.left
    BY <2>1, TradesAreNumbers, MaxIsGreatest
  <2> QED BY <2>1, <2>2
<1>3. PICK left : left = poll.left
  OBVIOUS
<1>4. /\ AppendTrade(n, trades[n])
      /\ poll' = [poll EXCEPT !.left = left \ {n},
                              !.pc = IF left = {n} THEN "checkpoint" ELSE "insert"]
  BY <1>2, <1>3 DEF PollInsert
<1>5. /\ rows \subseteq rows' /\ rows' \subseteq [id : DOMAIN trades, ts : Times]
      /\ Stored(n)' /\ \A k : Stored(k) => Stored(k)'
      /\ RowsDated'
  BY <1>1, <1>2, <1>4, AppendTradeStores
<1>6. /\ poll' \in [pc : {"idle", "request", "insert", "checkpoint"}, minTs : Nat,
                    left : SUBSET DOMAIN trades, newest : Times \cup {NoTs}]
      /\ poll'.pc = "insert" <=> poll'.left # {}
      /\ poll'.pc \in {"insert", "checkpoint"}
      /\ poll'.left = left \ {n} /\ poll'.newest = poll.newest
  <2>1. /\ poll \in [pc : {"idle", "request", "insert", "checkpoint"}, minTs : Nat,
                      left : SUBSET DOMAIN trades, newest : Times \cup {NoTs}]
        /\ left \subseteq DOMAIN trades
    BY <1>3 DEF TradesInv, TypeOK
  <2>2. /\ poll'.pc = IF left = {n} THEN "checkpoint" ELSE "insert"
        /\ poll'.left = left \ {n} /\ poll'.newest = poll.newest
    BY <1>4, <2>1
  <2>3. poll'.pc = "insert" <=> poll'.left # {}
    BY <1>2, <1>3, <2>2
  <2> QED BY <1>4, <2>1, <2>2, <2>3
<1>7. TypeOK'
  BY <1>1, <1>5, <1>6 DEF TradesInv, TypeOK
<1>8. PollOwes'
  <2>1. /\ poll.newest \in Times /\ lastTs <= poll.newest
        /\ \E k \in DOMAIN trades : trades[k] = poll.newest
        /\ Settled(Seconds(poll.newest), left)
    BY <1>3 DEF TradesInv, PollOwes, PollInsert
  <2>2. \A k : k \in left => Stored(k)' \/ k \in left \ {n}
    BY <1>5
  <2>3. Settled(Seconds(poll.newest), left \ {n})'
    BY <1>1, <1>5, <1>6, <2>1, <2>2 DEF Settled, Seconds
  <2>4. poll'.newest \in Times /\ lastTs' <= poll'.newest
    BY <1>1, <1>6, <2>1
  <2>5. \E k \in DOMAIN trades' : trades'[k] = poll'.newest
    BY <1>1, <1>6, <2>1
  <2>6. Settled(Seconds(poll.newest), poll.left)'
    BY <1>6, <2>3 DEF Settled
  <2> QED BY <1>6, <2>4, <2>5, <2>6 DEF PollOwes
<1> QED BY <1>1, <1>5, <1>7, <1>8, KeptWhileRowsGrow DEF TradesInv

\* The checkpoint comes after every trade of the answer, and does not go back.
LEMMA PollCheckpointKeeps == TradesInv /\ PollCheckpoint => TradesInv' /\ lastTs' >= lastTs
<1> SUFFICES ASSUME TradesInv, PollCheckpoint PROVE TradesInv' /\ lastTs' >= lastTs
  OBVIOUS
<1>1. UNCHANGED <<exchange, trades, now, wire, chan, feeding, stream, polling, rows, lastSeq,
                  cut, faults>>
  BY DEF PollCheckpoint, exchange, wire
<1>2. /\ poll.newest \in Times /\ lastTs <= poll.newest
      /\ \E k \in DOMAIN trades : trades[k] = poll.newest
      /\ Settled(Seconds(poll.newest), {})
  BY DEF TradesInv, TypeOK, PollOwes, PollCheckpoint
<1>3. lastTs' = poll.newest /\ poll' = IdlePoll
  BY DEF PollCheckpoint
<1>4. poll' \in [pc : {"idle", "request", "insert", "checkpoint"}, minTs : Nat,
                 left : SUBSET DOMAIN trades, newest : Times \cup {NoTs}]
  BY <1>3 DEF IdlePoll
<1>5. TypeOK'
  BY <1>1, <1>2, <1>3, <1>4 DEF TradesInv, TypeOK, IdlePoll
<1>6. PollComplete' /\ LastTsTraded'
  BY <1>1, <1>2, <1>3 DEF PollComplete, LastTsTraded, Settled, Seconds, Stored
<1>7. lastTs' >= lastTs
  BY <1>2, <1>3, TimesAreNumbers DEF TradesInv, TypeOK, NoTs
<1> QED BY <1>1, <1>3, <1>5, <1>6, <1>7, KeptWhileRowsGrow DEF TradesInv

------------------------------------------------------------------------------
(* A trade takes place *)

\* It is not earlier than any other, so nothing that is settled has to answer for it.
LEMMA TradeKeeps == TradesInv /\ Trade => TradesInv'
<1> SUFFICES ASSUME TradesInv, Trade PROVE TradesInv'
  OBVIOUS
<1> DEFINE N == Len(trades) + 1
<1>1. /\ UNCHANGED <<feeding, stream, polling, poll, tables, rows, lastSeq, lastTs, cut, faults>>
      /\ trades' = Append(trades, now') /\ now' \in now .. MaxTime
  BY DEF Trade, tables
<1>2. now' \in Times /\ now' \in Nat /\ now <= now' /\ trades \in Seq(Times)
  <2>1. now \in Nat /\ trades \in Seq(Times)
    BY TimesAreNumbers DEF TradesInv, TypeOK
  <2> QED BY <1>1, <2>1, TimesAreNumbers DEF Times
<1>3. /\ trades' \in Seq(Times) /\ Len(trades') = N /\ DOMAIN trades' = DOMAIN trades \cup {N}
      /\ trades'[N] = now' /\ \A n \in DOMAIN trades : trades'[n] = trades[n]
      /\ N \in Nat /\ N \notin DOMAIN trades
  <2>1. trades' \in Seq(Times) /\ Len(trades') = N
    BY <1>1, <1>2, AppendProperties
  <2>2. trades'[N] = now' /\ \A n \in DOMAIN trades : trades'[n] = trades[n]
    BY <1>1, <1>2, TradesAreNumbers, AppendProperties
  <2>3. DOMAIN trades' = DOMAIN trades \cup {N} /\ N \notin DOMAIN trades /\ N \in Nat
    BY <2>1, TradesAreNumbers, LenProperties
  <2> QED BY <2>1, <2>2, <2>3
<1> HIDE DEF N
<1>4. \A n \in DOMAIN trades : /\ trades[n] \in Nat /\ trades[n] <= now'
                               /\ Seconds(trades[n]) \in Nat
                               /\ Seconds(trades[n]) <= Seconds(now')
                               /\ Seconds(now') \in Nat
  <2> SUFFICES ASSUME NEW n \in DOMAIN trades
               PROVE  /\ trades[n] \in Nat /\ trades[n] <= now'
                      /\ Seconds(trades[n]) \in Nat
                      /\ Seconds(trades[n]) <= Seconds(now') /\ Seconds(now') \in Nat
    OBVIOUS
  <2>1. trades[n] \in Nat /\ trades[n] <= now /\ now \in Nat
    BY TradesAreNumbers, TimesAreNumbers DEF TradesInv, TypeOK, Ordered
  <2>2. trades[n] <= now'
    BY <1>2, <2>1
  <2> QED BY <1>2, <2>1, <2>2, SecondsGrow
<1>5. \A n : Stored(n) <=> Stored(n)'
  BY <1>1 DEF Stored
<1>6. chan' \in Seq(DOMAIN trades')
  <2>1. chan \in Seq(DOMAIN trades') /\ N \in DOMAIN trades'
    BY <1>3, SeqMonotonic DEF TradesInv, TypeOK
  <2>2. chan' = chan \/ chan' = Append(chan, N)
    BY DEF Trade, N
  <2> QED BY <2>1, <2>2, AppendProperties
<1>7. TypeOK'
  <2>1. /\ stream' \in [pc : {"idle", "insert", "checkpoint"}, n : Nat, seq : BOOLEAN]
        /\ stream'.pc # "idle" => stream'.n \in DOMAIN trades'
    BY <1>1, <1>3 DEF TradesInv, TypeOK
  <2>2. /\ poll' \in [pc : {"idle", "request", "insert", "checkpoint"}, minTs : Nat,
                      left : SUBSET DOMAIN trades', newest : Times \cup {NoTs}]
        /\ poll'.pc = "insert" <=> poll'.left # {}
    BY <1>1, <1>3 DEF TradesInv, TypeOK
  <2>3. rows' \subseteq [id : DOMAIN trades', ts : Times] /\ cut' \subseteq DOMAIN trades'
    BY <1>1, <1>3 DEF TradesInv, TypeOK
  <2>4. lastSeq' \in 0 .. Len(trades')
    BY <1>1, <1>3, TradesAreNumbers DEF TradesInv, TypeOK, N
  <2> QED BY <1>1, <1>2, <1>3, <1>6, <2>1, <2>2, <2>3, <2>4 DEF TradesInv, TypeOK
<1>8. Ordered'
  <2>1. ASSUME NEW i \in DOMAIN trades', NEW j \in DOMAIN trades', i <= j
        PROVE  trades'[i] <= trades'[j]
    <3>1. DOMAIN trades = 1 .. Len(trades) /\ Len(trades) \in Nat
      BY TradesAreNumbers
    <3>2. CASE j \in DOMAIN trades
      <4>1. i \in DOMAIN trades
        BY <1>3, <2>1, <3>1, <3>2 DEF N
      <4> QED BY <1>3, <2>1, <3>2, <4>1 DEF TradesInv, Ordered
    <3>3. CASE j = N
      BY <1>2, <1>3, <1>4, <3>3
    <3> QED BY <1>3, <3>2, <3>3
  <2>2. \A i \in DOMAIN trades' : trades'[i] <= now'
    BY <1>2, <1>3, <1>4
  <2> QED BY <2>1, <2>2 DEF Ordered
<1>9. ASSUME NEW s, NEW ns, Settled(s, ns), NEW k \in DOMAIN trades, s = Seconds(trades[k])
      PROVE  \A n \in DOMAIN trades' :
               Seconds(trades'[n]) < s => Stored(n) \/ n \in cut \/ n \in ns
  <2>1. ~(Seconds(trades'[N]) < s)
    BY <1>3, <1>4, <1>9
  <2> QED BY <1>3, <1>9, <2>1 DEF Settled
<1>10. PollComplete' /\ LastTsTraded'
  <2>1. CASE lastTs = NoTs
    BY <1>1, <2>1 DEF PollComplete, LastTsTraded
  <2>2. CASE lastTs # NoTs
    <3>1. PICK k \in DOMAIN trades : trades[k] = lastTs
      BY <2>2 DEF TradesInv, LastTsTraded
    <3>2. Settled(Seconds(lastTs), {})
      BY <2>2 DEF TradesInv, PollComplete, Settled
    <3>3. \A n \in DOMAIN trades' :
             Seconds(trades'[n]) < Seconds(lastTs) => Stored(n) \/ n \in cut
      BY <1>9, <3>1, <3>2
    <3>4. PollComplete'
      BY <1>1, <1>5, <3>3 DEF PollComplete, Seconds
    <3>5. LastTsTraded'
      BY <1>1, <1>3, <3>1 DEF LastTsTraded
    <3> QED BY <3>4, <3>5
  <2> QED BY <2>1, <2>2
<1>11. PollOwes'
  <2>1. CASE poll.pc \in {"insert", "checkpoint"}
    <3>1. /\ poll.newest \in Times /\ lastTs <= poll.newest
          /\ Settled(Seconds(poll.newest), poll.left)
      BY <2>1 DEF TradesInv, PollOwes
    <3>2. PICK k \in DOMAIN trades : trades[k] = poll.newest
      BY <2>1 DEF TradesInv, PollOwes
    <3>3. \A n \in DOMAIN trades' : Seconds(trades'[n]) < Seconds(poll.newest)
                                      => Stored(n) \/ n \in cut \/ n \in poll.left
      BY <1>9, <3>1, <3>2
    <3>4. Settled(Seconds(poll.newest), poll.left)'
      BY <1>1, <1>5, <3>3 DEF Settled, Seconds
    <3>5. \E n \in DOMAIN trades' : trades'[n] = poll'.newest
      BY <1>1, <1>3, <3>2
    <3> QED BY <1>1, <2>1, <3>1, <3>4, <3>5 DEF PollOwes
  <2>2. CASE poll.pc \notin {"insert", "checkpoint"}
    BY <1>1, <2>2 DEF TradesInv, PollOwes, Seconds
  <2> QED BY <2>1, <2>2
<1>12. LastSeqCovered' /\ StreamOwes'
  BY <1>1, <1>5 DEF TradesInv, LastSeqCovered, StreamOwes
<1>13. RowsDated'
  <2> SUFFICES ASSUME NEW r \in rows PROVE r.ts = trades'[r.id] \/ r.ts = Millis(trades'[r.id])
    BY <1>1 DEF RowsDated, Millis
  <2>1. r.id \in DOMAIN trades
    BY DEF TradesInv, TypeOK
  <2> QED BY <1>3, <2>1 DEF TradesInv, RowsDated
<1> QED BY <1>7, <1>8, <1>10, <1>11, <1>12, <1>13 DEF TradesInv

------------------------------------------------------------------------------
(* Theorems *)

LEMMA NextKeeps == TradesInv /\ [Next]_vars => TradesInv'
<1> SUFFICES ASSUME TradesInv, [Next]_vars PROVE TradesInv'
  OBVIOUS
<1>1. CASE Trade
  BY <1>1, TradeKeeps
<1>2. CASE Feed \/ Disconnect \/ Crash \/ Receive \/ Discard
  BY <1>2, WireStepKeeps
<1>3. CASE StreamInsert
  BY <1>3, StreamInsertKeeps
<1>4. CASE StreamCheckpoint
  BY <1>4, StreamCheckpointKeeps
<1>5. CASE StreamError \/ PollFail \/ PollError \/ PollRead
  BY <1>5, GivingUpKeeps
<1>6. CASE PollAnswer
  BY <1>6, PollAnswerKeeps
<1>7. CASE PollInsert
  BY <1>7, PollInsertKeeps
<1>8. CASE PollCheckpoint
  BY <1>8, PollCheckpointKeeps
<1>9. CASE StartPolling
  BY <1>9, StartPollingKeeps
<1>10. CASE UNCHANGED vars
  <2>1. UNCHANGED <<exchange, wire, trades, now, chan, feeding, stream, polling, poll, rows,
                    lastSeq,
                    lastTs, cut, faults>>
    BY <1>10 DEF vars, exchange, wire, tables
  <2>2. TypeOK'
    BY <2>1 DEF TradesInv, TypeOK
  <2> QED BY <2>1, <2>2, KeptWhileRowsGrow DEF TradesInv
<1> QED BY <1>1, <1>2, <1>3, <1>4, <1>5, <1>6, <1>7, <1>8, <1>9, <1>10
        DEF Next, StreamStep, PollStep

\* The inductive invariant holds in every state that is reached.
THEOREM Invariant == Spec => []TradesInv
<1>1. Init => TradesInv
  BY InitHolds
<1>2. TradesInv /\ [Next]_vars => TradesInv'
  BY NextKeeps
<1> QED BY <1>1, <1>2, PTL DEF Spec

\* Every variable has its type, and what is being stored is a trade.
THEOREM TypeCorrect == Spec => []TypeOK
<1>1. TradesInv => TypeOK
  BY DEF TradesInv
<1> QED BY <1>1, Invariant, PTL

\* Whatever fails and wherever poll_once stops, the checkpoint it leaves behind passes
\* over no trade: those before the second it will ask for are stored, or some answer
\* was full.
THEOREM PollingIsComplete == Spec => []PollComplete
<1>1. TradesInv => PollComplete
  BY DEF TradesInv
<1> QED BY <1>1, Invariant, PTL

\* The sequence number the handler leaves behind is that of a stored trade.
THEOREM SeqCheckpointIsCovered == Spec => []LastSeqCovered
<1>1. TradesInv => LastSeqCovered
  BY DEF TradesInv
<1> QED BY <1>1, Invariant, PTL

\* The table holds a trade twice at most, and once when both paths date it the same.
THEOREM NoTradeThrice == Spec => []StoredAtMostTwice
<1>1. ASSUME TradesInv PROVE StoredAtMostTwice
  <2> SUFFICES ASSUME NEW n \in DOMAIN trades
               PROVE  LET copies == Cardinality({r \in rows : r.id = n})
                      IN  copies <= 2 /\ (trades[n] % PerMs = 0 => copies <= 1)
    BY DEF StoredAtMostTwice
  <2> DEFINE R == {r \in rows : r.id = n}
             whole == [id |-> n, ts |-> trades[n]]
             cropped == [id |-> n, ts |-> Millis(trades[n])]
  <2>1. R \subseteq {whole, cropped}
    BY <1>1 DEF TradesInv, TypeOK, RowsDated
  <2>2. IsFiniteSet({whole}) /\ Cardinality({whole}) = 1
    BY FS_Singleton
  <2>3. IsFiniteSet({whole, cropped}) /\ Cardinality({whole, cropped}) <= 2
    <3>1. {whole, cropped} = {whole} \cup {cropped}
      OBVIOUS
    <3> HIDE DEF whole, cropped
    <3> QED BY <2>2, <3>1, FS_AddElement
  <2>4. Cardinality(R) <= 2
    <3> HIDE DEF R, whole, cropped
    <3> QED BY <2>1, <2>3, FS_Subset, FS_CardinalityType
  <2>5. ASSUME trades[n] % PerMs = 0 PROVE Cardinality(R) <= 1
    <3>1. whole = cropped
      BY <1>1, <2>5, TradesAreNumbers, MillisAreEarlier
    <3> HIDE DEF R, whole, cropped
    <3>2. R \subseteq {whole}
      BY <2>1, <3>1
    <3> QED BY <2>2, <3>2, FS_Subset, FS_CardinalityType
  <2> QED BY <2>4, <2>5
<1> QED BY <1>1, Invariant, PTL

\* Polling never goes back in time, whatever fails in between.
THEOREM CheckpointNeverBack == Spec => CheckpointMonotone
<1>1. ASSUME TradesInv, [Next]_vars PROVE [lastTs' >= lastTs]_vars
  <2>1. CASE PollCheckpoint
    BY <1>1, <2>1, PollCheckpointKeeps
  <2>2. CASE UNCHANGED lastTs
    <3>1. lastTs \in Int
      BY <1>1, TimesAreNumbers DEF TradesInv, TypeOK, NoTs
    <3> QED BY <2>2, <3>1
  <2>3. CASE UNCHANGED vars
    BY <2>3
  <2> QED BY <1>1, <2>1, <2>2, <2>3
          DEF Next, StreamStep, PollStep, Trade, Feed, Disconnect, Crash, Receive, Discard,
              StreamInsert, StreamCheckpoint, StreamError, StartPolling, PollRead, PollAnswer,
              PollInsert, PollFail, PollError, tables
<1> QED BY <1>1, Invariant, PTL DEF Spec, CheckpointMonotone
=============================================================================
