-------------------------------- MODULE Trades --------------------------------
(***************************************************************************)
(* The trades of one market, from the exchange to the table:               *)
(* collectors/trades.py (WebSocket handler and REST poll), TradeModel,     *)
(* append_trade and the two checkpoints.  Markets share nothing here but   *)
(* the connection pool.  A step ends where the code awaits.                *)
(*                                                                         *)
(* External: trades, when each trade took place (trade n, in the order     *)
(* they happen), in units finer than a millisecond; PerMs units make the   *)
(* millisecond WebSocket frames are stamped in, PerSec the second min_ts   *)
(* counts.                                                                 *)
(*                                                                         *)
(* Program state:                                                          *)
(*   chan, feeding   the trade frames in flight; the channel is subscribed *)
(*   stream      the WebSocket handler: the await it is at, its trade, and *)
(*               whether the frame had a seq                               *)
(*   polling     this process has called run_polling (_running)            *)
(*   poll        poll_once: the await it is at, min_ts, the trades still   *)
(*               to append, and the newest timestamp of the answer         *)
(*   rows        table trades, by its unique key (trade_id, kalshi_ts)     *)
(*   lastSeq, lastTs   table checkpoints, channels trade and poll_trades   *)
(*                                                                         *)
(* Auxiliary: cut, the trades some answer left out for its limit; faults. *)
(***************************************************************************)
EXTENDS Integers, Sequences, FiniteSets, FiniteSetsExt

CONSTANTS PerMs, PerSec,
          Limit,         \* trades an answer holds ("limit": 1000)
          MaxTrades, MaxTime, MaxFaults   \* bounds

ASSUME UnitsAssumption == PerMs \in Nat \ {0} /\ PerSec \in Nat \ {0} /\ Limit \in Nat \ {0}
ASSUME TradesBounds == {MaxTrades, MaxTime, MaxFaults} \subseteq Nat

VARIABLES trades, now, chan, feeding, stream, polling, poll, rows, lastSeq, lastTs, cut, faults

exchange == <<trades, now>>
wire == <<chan, feeding>>
tables == <<rows, lastSeq, lastTs>>
vars == <<exchange, wire, stream, polling, poll, tables, cut, faults>>

NoTs == -1

\* ts_ms of a frame, in fine units, and int(last_ts.timestamp()).
Millis(ts) == ts - (ts % PerMs)
Seconds(ts) == ts \div PerSec

IdleStream == [pc |-> "idle", n |-> 0, seq |-> FALSE]
IdlePoll == [pc |-> "idle", minTs |-> 0, left |-> {}, newest |-> NoTs]

\* A connection, process, request, statement or frame fails.
Fault == faults < MaxFaults /\ faults' = faults + 1

Init ==
    /\ trades = <<>> /\ now = 0
    /\ chan = <<>> /\ feeding = FALSE
    /\ stream = IdleStream /\ polling = FALSE /\ poll = IdlePoll
    /\ rows = {} /\ lastSeq = 0 /\ lastTs = NoTs
    /\ cut = {}
    /\ faults = 0

------------------------------------------------------------------------------
(* The exchange and the connection *)

\* Time passes, and a trade takes place.
Trade ==
    /\ Len(trades) < MaxTrades
    /\ now' \in now .. MaxTime
    /\ trades' = Append(trades, now')
    /\ chan' = IF feeding THEN Append(chan, Len(trades) + 1) ELSE chan
    /\ UNCHANGED <<feeding, stream, poll, tables, cut, faults, polling>>

Feed ==
    /\ ~feeding /\ chan = <<>>
    /\ feeding' = TRUE
    /\ UNCHANGED <<exchange, chan, stream, poll, tables, cut, faults, polling>>

\* The connection is lost with the frames that have not arrived.
Disconnect ==
    /\ feeding
    /\ Fault
    /\ feeding' = FALSE
    /\ \E k \in 0 .. Len(chan) : chan' = SubSeq(chan, 1, k)
    /\ UNCHANGED <<exchange, stream, poll, tables, cut, polling>>

\* The process stops at any await and is started again.
Crash ==
    /\ Fault
    /\ chan' = <<>> /\ feeding' = FALSE
    /\ stream' = IdleStream /\ polling' = FALSE /\ poll' = IdlePoll
    /\ UNCHANGED <<exchange, tables, cut>>

------------------------------------------------------------------------------
(* handle_ws_message *)

Receive ==
    /\ chan # <<>> /\ stream.pc = "idle"
    /\ \E seq \in BOOLEAN : stream' = [pc |-> "insert", n |-> Head(chan), seq |-> seq]
    /\ chan' = Tail(chan)
    /\ UNCHANGED <<exchange, feeding, poll, tables, cut, faults, polling>>

\* A frame that does not parse, or has no ts_ms (kalshi_ts raises ValueError).
Discard ==
    /\ chan # <<>> /\ stream.pc = "idle"
    /\ Fault
    /\ chan' = Tail(chan)
    /\ UNCHANGED <<exchange, feeding, stream, poll, tables, cut, polling>>

\* append_trade: ON CONFLICT (trade_id, kalshi_ts) DO NOTHING.
AppendTrade(n, ts) == rows' = rows \cup {[id |-> n, ts |-> ts]}

StreamInsert ==
    /\ stream.pc = "insert"
    /\ AppendTrade(stream.n, Millis(trades[stream.n]))
    /\ stream' = IF stream.seq THEN [stream EXCEPT !.pc = "checkpoint"] ELSE IdleStream
    /\ UNCHANGED <<exchange, wire, poll, lastSeq, lastTs, cut, faults, polling>>

\* Slip: both checkpoints share a row, of which the upsert overwrites both columns.
StreamCheckpointSharing ==
    /\ stream.pc = "checkpoint"
    /\ lastSeq' = stream.n /\ lastTs' = NoTs
    /\ stream' = IdleStream
    /\ UNCHANGED <<exchange, wire, poll, rows, cut, faults, polling>>

\* write_checkpoint, of channel trade.
StreamCheckpoint ==
    /\ stream.pc = "checkpoint"
    /\ lastSeq' = stream.n
    /\ stream' = IdleStream
    /\ UNCHANGED <<exchange, wire, poll, rows, lastTs, cut, faults, polling>>

\* Slip: append_trade swallows the exception, and the handler goes on.
StreamErrorSwallowed ==
    /\ stream.pc = "insert"
    /\ Fault
    /\ stream' = IF stream.seq THEN [stream EXCEPT !.pc = "checkpoint"] ELSE IdleStream
    /\ UNCHANGED <<exchange, wire, poll, tables, cut, polling>>

\* A statement fails: the exception ends the handler, the receive loop logs it, and
\* the trade is not tried again.
StreamError ==
    /\ stream.pc # "idle"
    /\ Fault
    /\ stream' = IdleStream
    /\ UNCHANGED <<exchange, wire, poll, tables, cut, polling>>

------------------------------------------------------------------------------
(* run_polling and poll_once *)

\* run_polling is called: the polling fallback.  No code in src/ calls it.  It runs to
\* the end of the process, as stop() is only called there.
StartPolling ==
    /\ ~polling
    /\ polling' = TRUE
    /\ UNCHANGED <<exchange, wire, stream, poll, tables, cut, faults>>

\* Slip: the second of the checkpoint counts as done.
PollReadAfter ==
    /\ polling /\ poll.pc = "idle"
    /\ poll' = [IdlePoll EXCEPT !.pc = "request",
                                !.minTs = IF lastTs = NoTs THEN 0 ELSE Seconds(lastTs) + 1]
    /\ UNCHANGED <<exchange, wire, stream, tables, cut, faults, polling>>

\* A round begins: read_checkpoint.
PollRead ==
    /\ polling /\ poll.pc = "idle"
    /\ poll' = [IdlePoll EXCEPT !.pc = "request",
                                !.minTs = IF lastTs = NoTs THEN 0 ELSE Seconds(lastTs)]
    /\ UNCHANGED <<exchange, wire, stream, tables, cut, faults, polling>>

\* The trades from second minTs on.
Asked(minTs) == {n \in DOMAIN trades : Seconds(trades[n]) >= minTs}

\* The newest of them, as many as the limit allows.
Page(ns) == {n \in ns : Cardinality({k \in ns : k > n}) < Limit}

NewestTs(ns) == Max({trades[n] : n \in ns})

\* Slip: an empty answer is processed like any other.
PollAnswerUnchecked ==
    /\ poll.pc = "request"
    /\ LET page == Page(Asked(poll.minTs)) IN
         poll' = [poll EXCEPT !.pc = "insert", !.left = page,
                              !.newest = IF page = {} THEN NoTs ELSE NewestTs(page)]
    /\ UNCHANGED <<exchange, wire, stream, tables, cut, faults, polling>>

\* The exchange answers, newest first; without trades poll_once returns.
PollAnswer ==
    /\ poll.pc = "request"
    /\ LET asked == Asked(poll.minTs)
           page == Page(asked)
       IN  /\ cut' = cut \cup (asked \ page)
           /\ poll' = IF page = {} THEN IdlePoll
                      ELSE [poll EXCEPT !.pc = "insert", !.left = page, !.newest = NewestTs(page)]
    /\ UNCHANGED <<exchange, wire, stream, tables, faults, polling>>

\* The request or the parsing of its answer fails.
PollFail ==
    /\ poll.pc = "request"
    /\ Fault
    /\ poll' = IdlePoll
    /\ UNCHANGED <<exchange, wire, stream, tables, cut, polling>>

\* Slip: the time of the poll stands in for created_time, as for a frame without ts.
PollInsertStamped ==
    /\ poll.pc = "insert"
    /\ LET n == Max(poll.left) IN
         /\ AppendTrade(n, now)
         /\ poll' = [poll EXCEPT !.left = @ \ {n},
                                 !.pc = IF poll.left = {n} THEN "checkpoint" ELSE "insert"]
    /\ UNCHANGED <<exchange, wire, stream, lastSeq, lastTs, cut, faults, polling>>

\* append_trade of the next trade of the answer, stamped with created_time.
PollInsert ==
    /\ poll.pc = "insert"
    /\ LET n == Max(poll.left) IN
         /\ AppendTrade(n, trades[n])
         /\ poll' = [poll EXCEPT !.left = @ \ {n},
                                 !.pc = IF poll.left = {n} THEN "checkpoint" ELSE "insert"]
    /\ UNCHANGED <<exchange, wire, stream, lastSeq, lastTs, cut, faults, polling>>

\* write_checkpoint, of channel poll_trades.
PollCheckpoint ==
    /\ poll.pc = "checkpoint"
    /\ lastTs' = poll.newest
    /\ poll' = IdlePoll
    /\ UNCHANGED <<exchange, wire, stream, rows, lastSeq, cut, faults, polling>>

\* Slip: a failed append is skipped and the rest of the answer goes on.
PollErrorSkipped ==
    /\ poll.pc = "insert"
    /\ Fault
    /\ LET n == Max(poll.left) IN
         poll' = [poll EXCEPT !.left = @ \ {n},
                              !.pc = IF poll.left = {n} THEN "checkpoint" ELSE "insert"]
    /\ UNCHANGED <<exchange, wire, stream, tables, cut, polling>>

\* A statement fails: poll_once ends, and gather returns the exception unseen.
PollError ==
    /\ poll.pc \in {"insert", "checkpoint"} \/ (poll.pc = "idle" /\ polling)
    /\ Fault
    /\ poll' = IdlePoll
    /\ UNCHANGED <<exchange, wire, stream, tables, cut, polling>>

------------------------------------------------------------------------------
StreamStep == Receive \/ Discard \/ StreamInsert \/ StreamCheckpoint \/ StreamError
PollStep == PollRead \/ PollAnswer \/ PollInsert \/ PollCheckpoint

Next == Trade \/ Feed \/ Disconnect \/ Crash \/ StreamStep
        \/ StartPolling \/ PollStep \/ PollFail \/ PollError

Spec == Init /\ [][Next]_vars

\* The loop of run_polling goes on where it runs, the exchange answers and PostgreSQL
\* does.  Nothing is assumed about whether it runs.
FairSpec == Spec /\ WF_vars(PollStep)

\* The program as it is: run_collector makes four tasks and none of them is
\* run_polling.  The connection comes back, and the receive loop runs on.
CollectorSpec ==
    /\ Init /\ [][Next /\ ~polling']_vars
    /\ WF_vars(Feed) /\ WF_vars(Receive \/ StreamInsert \/ StreamCheckpoint)

------------------------------------------------------------------------------
(* Properties *)

Ids == 1 .. MaxTrades
Times == 0 .. MaxTime

\* Every variable has its type, and what is being stored is a trade.
TypeOK ==
    /\ trades \in Seq(Times) /\ now \in Times
    /\ chan \in Seq(DOMAIN trades) /\ feeding \in BOOLEAN
    /\ stream \in [pc : {"idle", "insert", "checkpoint"}, n : Nat, seq : BOOLEAN]
    /\ stream.pc # "idle" => stream.n \in DOMAIN trades
    /\ polling \in BOOLEAN
    /\ poll \in [pc : {"idle", "request", "insert", "checkpoint"}, minTs : Nat,
                left : SUBSET DOMAIN trades, newest : Times \cup {NoTs}]
    /\ poll.pc = "insert" <=> poll.left # {}
    /\ rows \subseteq [id : DOMAIN trades, ts : Times]
    /\ lastSeq \in 0 .. Len(trades) /\ lastTs \in Times \cup {NoTs}
    /\ cut \subseteq DOMAIN trades
    /\ faults \in 0 .. MaxFaults

Stored(n) == \E r \in rows : r.id = n

\* A trade that polls will not ask for again is in the table, unless an answer was
\* full: min_ts is a whole second and includes it, and the checkpoint comes after
\* every trade of its answer, so a failure or a crash in between repeats the answer.
PollComplete ==
    lastTs # NoTs => \A n \in DOMAIN trades :
                       Seconds(trades[n]) < Seconds(lastTs) => Stored(n) \/ n \in cut

\* The seq in the trade checkpoint is that of a stored trade.
LastSeqCovered == lastSeq # 0 => Stored(lastSeq)

\* Polling never goes back in time, not after a crash, and not for what the stream
\* writes: write_checkpoint overwrites last_ts even when it is given none, so this
\* rests on the two channels having a row each.
CheckpointMonotone == [][lastTs' >= lastTs]_vars

\* While run_polling runs, it brings in every trade in the end, also those the
\* WebSocket lost, and those of before it was started, unless an answer was full.
Collected ==
    \A n \in Ids :
        (polling /\ n \in DOMAIN trades) ~> (Stored(n) \/ n \in cut \/ ~polling)

\* docs/schema.md line 14 ("Every observed trade"), of the trades that are sent to an open
\* connection.  CollectorSpec violates it with one fault: a trade whose frame is lost or
\* whose insert fails is never asked for again.
EveryTradeStored == \A n \in Ids : (\E i \in DOMAIN chan : chan[i] = n) ~> Stored(n)

\* However often a trade is sent and asked for again, across reconnections, full
\* answers, repeated polls and restarts, the table holds it once from the stream
\* and once from polling at most, and once in all when the exchange dates it to a
\* whole millisecond: what is repeated is what the paths read off the trade.
StoredAtMostTwice ==
    \A n \in DOMAIN trades :
        LET copies == Cardinality({r \in rows : r.id = n})
        IN  copies <= 2 /\ (trades[n] % PerMs = 0 => copies <= 1)

\* trades.py lines 7-8 ("ON CONFLICT DO NOTHING handles any overlap").
OverlapHandled == \A r, s \in rows : r.id = s.id => r = s
=============================================================================
