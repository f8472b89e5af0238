-------------------------- MODULE OrderbookPipeline --------------------------
(***************************************************************************)
(* The path of an orderbook from the exchange to the database:             *)
(* ws_client.py (receive loop, reconnection), collectors/orderbook.py      *)
(* (snapshot, delta and poll handlers), models.py (OrderbookState),        *)
(* storage/writers.py (maybe_append_orderbook) and storage/checkpoints.py. *)
(*                                                                         *)
(* A step ends where the code awaits: a handler changes memory up to its   *)
(* first await in one step, then each database statement is a step.        *)
(*                                                                         *)
(* External: the exchange.  history[m] lists the books market m has had    *)
(* there; its last one is the current book.                                *)
(*                                                                         *)
(* Program state:                                                          *)
(*   states      OrderbookCollector._states, the book held in memory       *)
(*   task        the handler each worker runs and the await it is at: the  *)
(*               one WebSocket receive loop (Stream), and one poll_once    *)
(*               per polled market                                         *)
(*   chan        frames of the current connection not yet received         *)
(*   connected, subscribed   the socket, and the markets the exchange has  *)
(*               acted on the re-sent subscription for                     *)
(*   rows        table orderbook_snapshots, rows[m] in insertion order     *)
(*   checkpoint  table checkpoints, channel orderbook_delta: the message   *)
(*               last_seq names, by its position in history[m], and the    *)
(*               book that message left in memory                          *)
(*   clock       the time both the exchange and the collector stamp with   *)
(*   used        how much of each bounded environment event has happened   *)
(*                                                                         *)
(* Auxiliary: the positions n in messages, tasks and rows, pos[m] (the     *)
(* position memory reflects, 0 when nothing was loaded) and missed[m] (a   *)
(* frame of m was discarded since the last snapshot).  No guard reads them.*)
(***************************************************************************)
EXTENDS Integers, Sequences

CONSTANTS
    Markets,      \* tickers of market_id_map
    Stream,       \* the WebSocket receive loop, a worker
    None,         \* no market
    Levels,       \* (side, price) pairs of a book
    MaxQty,       \* largest quantity resting at a level; 0 is no level
    Pollers,      \* tickers given to run_polling
    WsAvailable,  \* the exchange serves these markets over WebSocket
    Prompt,       \* TRUE: a market changes only after its last change is handled
    Incremental,  \* TRUE: delta_fp is the change of a quantity; FALSE: the quantity
    MaxChanges, MaxOutages, MaxDbErrors, MaxBad, MaxRounds   \* bounds

ASSUME NamesAssumption == Stream \notin Markets /\ None \notin Markets
ASSUME BoundsAssumption == {MaxQty, MaxChanges, MaxOutages, MaxDbErrors,
                            MaxBad, MaxRounds} \subseteq Nat
ASSUME ModesAssumption == {WsAvailable, Prompt, Incremental} \subseteq BOOLEAN
\* orderbook.py line 4: polling is the fallback "when WS is unavailable".
ASSUME FallbackOnly == Pollers \subseteq Markets /\ (WsAvailable => Pollers = {})

VARIABLES history, states, pos, missed, task, chan, connected, subscribed,
          rows, checkpoint, clock, used

memory == <<states, pos, missed>>
database == <<rows, checkpoint>>
wire == <<chan, connected, subscribed>>
vars == <<history, memory, task, wire, database, clock, used>>

------------------------------------------------------------------------------
Workers == {Stream} \cup Pollers
Books == [Levels -> 0 .. MaxQty]
HeldBooks == [Levels -> -MaxQty .. MaxQty]   \* what a delta can leave in memory
Empty == [l \in Levels |-> 0]
Exchange(m) == history[m][Len(history[m])]

NoTs == 0   \* a delta without ts_ms

Idle == [pc |-> "idle", m |-> None, ts |-> 0, levels |-> Empty, n |-> 0, seq |-> FALSE]

Snapshot(m) == [type |-> "snapshot", m |-> m, book |-> Exchange(m),
                n |-> Len(history[m])]
Delta(m, l, fp, ts, n) == [type |-> "delta", m |-> m, level |-> l, fp |-> fp,
                           ts |-> ts, n |-> n]

NoCheckpoint == [n |-> 0, book |-> Empty]

\* Market m has no frame in flight and no handler under way.
Quiet(m) == /\ \A i \in DOMAIN chan : chan[i].m # m
            /\ \A t \in Workers : task[t].m # m

Events == {"changes", "outages", "dbErrors", "bad", "rounds"}
Spend(event, bound) == /\ used[event] < bound
                       /\ used' = [used EXCEPT ![event] = @ + 1]

Init ==
    /\ history \in [Markets -> {<<b>> : b \in Books}]
    /\ states = [m \in Markets |-> Empty]
    /\ pos = [m \in Markets |-> 0]
    /\ missed = [m \in Markets |-> FALSE]
    /\ task = [t \in Workers |-> Idle]
    /\ chan = <<>> /\ connected = FALSE /\ subscribed = {}
    /\ rows = [m \in Markets |-> <<>>]
    /\ checkpoint = [m \in Markets |-> NoCheckpoint]
    /\ clock = 1
    /\ used = [e \in Events |-> 0]

------------------------------------------------------------------------------
(* The exchange and the connection *)

\* The quantity q comes to rest at level l of market m; a subscriber is told.
ExchangeChange(m, l, q) ==
    /\ Spend("changes", MaxChanges)
    /\ Exchange(m)[l] # q
    /\ Prompt => Quiet(m)
    /\ clock' \in IF Prompt THEN {clock + 1} ELSE {clock, clock + 1}
    /\ history' = [history EXCEPT ![m] = Append(@, [Exchange(m) EXCEPT ![l] = q])]
    /\ IF m \in subscribed
       THEN \E ts \in {NoTs, clock'} :
              LET fp == IF Incremental THEN q - Exchange(m)[l] ELSE q
              IN  chan' = Append(chan, Delta(m, l, fp, ts, Len(history[m]) + 1))
       ELSE UNCHANGED chan
    /\ UNCHANGED <<memory, task, connected, subscribed, database>>

\* Slip: the loop ends with the first connection that is lost.
ConnectOnce ==
    /\ WsAvailable /\ ~connected /\ used["outages"] = 0
    /\ chan = <<>> /\ task[Stream].pc = "idle"
    /\ connected' = TRUE
    /\ UNCHANGED <<history, memory, task, chan, subscribed, database, clock, used>>

\* KalshiWsClient.start: connect once the frames of the last connection are
\* consumed, and re-send every recorded subscription.
Connect ==
    /\ WsAvailable /\ ~connected
    /\ chan = <<>> /\ task[Stream].pc = "idle"
    /\ connected' = TRUE
    /\ UNCHANGED <<history, memory, task, chan, subscribed, database, clock, used>>

\* The exchange acts on the subscription: a snapshot, and deltas from then on.
Subscribe(m) ==
    /\ connected /\ m \notin subscribed
    /\ subscribed' = subscribed \cup {m}
    /\ chan' = Append(chan, Snapshot(m))
    /\ UNCHANGED <<history, memory, task, connected, database, clock, used>>

\* The connection drops; frames not yet arrived (any suffix) are lost.
Disconnect ==
    /\ connected
    /\ Spend("outages", MaxOutages)
    /\ connected' = FALSE /\ subscribed' = {}
    /\ \E k \in 0 .. Len(chan) : chan' = SubSeq(chan, 1, k)
    /\ UNCHANGED <<history, memory, task, database, clock>>

------------------------------------------------------------------------------
(* The handlers, up to their first await *)

\* Slip: delta_fp is added to the quantity at its level.
ApplyAsIncrement(book, msg) == [book EXCEPT ![msg.level] = @ + msg.fp]

\* OrderbookState.apply_delta: delta_fp becomes the level's quantity, and a
\* quantity of 0 removes the level.
ApplyDelta(book, msg) == [book EXCEPT ![msg.level] = msg.fp]

\* Slips: a snapshot is merged into the levels already held, or not taken at all
\* by a market that is already loaded.
AppliedMerging(msg) ==
    IF msg.type = "snapshot"
    THEN [l \in Levels |-> IF msg.book[l] = 0 THEN states[msg.m][l] ELSE msg.book[l]]
    ELSE ApplyDelta(states[msg.m], msg)
AppliedOnce(msg) ==
    IF msg.type = "delta" THEN ApplyDelta(states[msg.m], msg)
    ELSE IF pos[msg.m] = 0 THEN msg.book ELSE states[msg.m]

\* The book _handle_snapshot and _handle_delta leave in memory.
Applied(msg) == IF msg.type = "snapshot" THEN msg.book
                ELSE ApplyDelta(states[msg.m], msg)

\* The timestamp a handler persists with: a delta's own, else local now.
HasOwnTs(msg) == msg.type = "delta" /\ msg.ts # NoTs
Stamp(msg) == IF HasOwnTs(msg) THEN msg.ts ELSE clock + 1

\* _handle_snapshot, _handle_delta: a frame parses, memory takes it, and the
\* handler awaits a connection in _persist.  The frame may carry no seq.
Receive ==
    /\ chan # <<>> /\ task[Stream].pc = "idle"
    /\ LET msg == Head(chan) IN
         /\ states' = [states EXCEPT ![msg.m] = Applied(msg)]
         /\ pos' = [pos EXCEPT ![msg.m] = msg.n]
         /\ missed' = [missed EXCEPT ![msg.m] = @ /\ msg.type = "delta"]
         /\ clock' = IF HasOwnTs(msg) THEN clock ELSE clock + 1
         /\ \E seq \in BOOLEAN :
              task' = [task EXCEPT ![Stream] = [Idle EXCEPT
                         !.pc = "select", !.m = msg.m, !.ts = Stamp(msg), !.seq = seq]]
    /\ chan' = Tail(chan)
    /\ UNCHANGED <<history, connected, subscribed, database, used>>

\* A frame that fails to parse is logged and dropped; the loop goes on.
Discard ==
    /\ chan # <<>> /\ task[Stream].pc = "idle"
    /\ Spend("bad", MaxBad)
    /\ missed' = [missed EXCEPT ![Head(chan).m] = TRUE]
    /\ chan' = Tail(chan)
    /\ UNCHANGED <<history, states, pos, task, connected, subscribed, database, clock>>

\* run_polling: one round starts a poll_once for every ticker, and the next
\* waits for all of them (asyncio.gather).
PollRound ==
    /\ Pollers # {}
    /\ \A t \in Pollers : task[t].pc = "idle"
    /\ Spend("rounds", MaxRounds)
    /\ task' = [t \in Workers |-> IF t \in Pollers
                                  THEN [Idle EXCEPT !.pc = "request", !.m = t]
                                  ELSE task[t]]
    /\ UNCHANGED <<history, memory, wire, database, clock>>

\* The exchange answers a poll with the book it has then.
PollAnswer(m) ==
    /\ task[m].pc = "request"
    /\ task' = [task EXCEPT ![m].pc = "answered", ![m].levels = Exchange(m),
                            ![m].n = Len(history[m])]
    /\ UNCHANGED <<history, memory, wire, database, clock, used>>

\* The request or its parsing fails: poll_once returns.
PollFail(m) ==
    /\ task[m].pc = "request"
    /\ task' = [task EXCEPT ![m] = Idle]
    /\ UNCHANGED <<history, memory, wire, database, clock, used>>

\* poll_once resumes with the answer and replaces the book in memory.
PollApply(m) ==
    /\ task[m].pc = "answered"
    /\ states' = [states EXCEPT ![m] = task[m].levels]
    /\ pos' = [pos EXCEPT ![m] = task[m].n]
    /\ clock' = clock + 1
    /\ task' = [task EXCEPT ![m] = [Idle EXCEPT !.pc = "select", !.m = m, !.ts = clock + 1]]
    /\ UNCHANGED <<history, missed, wire, database, used>>

------------------------------------------------------------------------------
(* _persist: maybe_append_orderbook, then the checkpoint *)

\* Slip: ORDER BY kalshi_ts without DESC.
OldestRows(m) ==
    {rows[m][i] : i \in {i \in DOMAIN rows[m] :
                            \A j \in DOMAIN rows[m] : rows[m][j].ts >= rows[m][i].ts}}

\* What ORDER BY kalshi_ts DESC LIMIT 1 may return: ties are the server's choice.
LatestRows(m) ==
    {rows[m][i] : i \in {i \in DOMAIN rows[m] :
                            \A j \in DOMAIN rows[m] : rows[m][j].ts <= rows[m][i].ts}}

\* Once the book is persisted: write_checkpoint when the frame carried a seq.
AfterPersist(t) == IF task[t].seq THEN [task[t] EXCEPT !.pc = "checkpoint"] ELSE Idle

\* Slip: the checksum is looked up among all the rows of the market.
SelectAnyRow(t) ==
    /\ task[t].pc = "select"
    /\ LET m == task[t].m IN
         IF \E i \in DOMAIN rows[m] : rows[m][i].book = states[m]
         THEN task' = [task EXCEPT ![t] = AfterPersist(t)]
         ELSE task' = [task EXCEPT ![t].pc = "insert", ![t].levels = states[m],
                                   ![t].n = pos[m]]
    /\ UNCHANGED <<history, memory, wire, database, clock, used>>

\* SELECT the latest checksum and compare it with the book in memory.
Select(t) ==
    /\ task[t].pc = "select"
    /\ LET m == task[t].m IN
         \/ /\ \E r \in LatestRows(m) : r.book = states[m]
            /\ task' = [task EXCEPT ![t] = AfterPersist(t)]
         \/ /\ rows[m] = <<>> \/ \E r \in LatestRows(m) : r.book # states[m]
            /\ task' = [task EXCEPT ![t].pc = "insert", ![t].levels = states[m],
                                    ![t].n = pos[m]]
    /\ UNCHANGED <<history, memory, wire, database, clock, used>>

Insert(t) ==
    /\ task[t].pc = "insert"
    /\ rows' = [rows EXCEPT ![task[t].m] =
                  Append(@, [ts |-> task[t].ts, book |-> task[t].levels, n |-> task[t].n])]
    /\ task' = [task EXCEPT ![t] = AfterPersist(t)]
    /\ UNCHANGED <<history, memory, wire, checkpoint, clock, used>>

Checkpoint(t) ==
    /\ task[t].pc = "checkpoint"
    /\ LET m == task[t].m
       IN  checkpoint' = [checkpoint EXCEPT ![m] = [n |-> pos[m], book |-> states[m]]]
    /\ task' = [task EXCEPT ![t] = Idle]
    /\ UNCHANGED <<history, memory, wire, rows, clock, used>>

\* Slip: _persist swallows the exception, and the handler goes on.
DbErrorSwallowed(t) ==
    /\ task[t].pc \in {"select", "insert"}
    /\ Spend("dbErrors", MaxDbErrors)
    /\ task' = [task EXCEPT ![t] = AfterPersist(t)]
    /\ UNCHANGED <<history, memory, wire, database, clock>>

\* A statement or the pool fails: the exception ends the handler and is logged
\* by the receive loop (or by gather); memory keeps what the handler applied.
DbError(t) ==
    /\ task[t].pc \in {"select", "insert", "checkpoint"}
    /\ Spend("dbErrors", MaxDbErrors)
    /\ task' = [task EXCEPT ![t] = Idle]
    /\ UNCHANGED <<history, memory, wire, database, clock>>

\* The process stops at any await and starts again: only the tables are left.
Crash ==
    /\ Spend("outages", MaxOutages)
    /\ states' = [m \in Markets |-> Empty]
    /\ pos' = [m \in Markets |-> 0]
    /\ missed' = [m \in Markets |-> FALSE]
    /\ task' = [t \in Workers |-> Idle]
    /\ chan' = <<>> /\ connected' = FALSE /\ subscribed' = {}
    /\ UNCHANGED <<history, database, clock>>

------------------------------------------------------------------------------
Statement(t) == Select(t) \/ Insert(t) \/ Checkpoint(t)
Poll(m) == PollAnswer(m) \/ PollFail(m) \/ PollApply(m)
Exchanging == \E m \in Markets, l \in Levels, q \in 0 .. MaxQty : ExchangeChange(m, l, q)

Next ==
    \/ Exchanging
    \/ Connect \/ Disconnect \/ (\E m \in Markets : Subscribe(m))
    \/ Receive \/ Discard
    \/ PollRound \/ (\E m \in Pollers : Poll(m))
    \/ \E t \in Workers : Statement(t) \/ DbError(t)
    \/ Crash

Spec == Init /\ [][Next]_vars

\* The receive loop always gets to run, the reconnect backoff is finite, the
\* exchange answers a subscription, and PostgreSQL answers a statement.
Fairness ==
    /\ WF_vars(Connect) /\ WF_vars(Receive)
    /\ \A m \in Markets : WF_vars(Subscribe(m))
    /\ \A t \in Workers : WF_vars(Statement(t))

FairSpec == Spec /\ Fairness

------------------------------------------------------------------------------
(* Properties *)

Messages ==
    [type : {"snapshot"}, m : Markets, book : Books, n : Nat]
      \cup [type : {"delta"}, m : Markets, level : Levels, fp : -MaxQty .. MaxQty,
            ts : Nat, n : Nat]

Pcs == {"idle", "request", "answered", "select", "insert", "checkpoint"}

Tasks == [pc : Pcs, m : Markets \cup {None}, ts : Nat, levels : HeldBooks, n : Nat,
          seq : BOOLEAN]

Rows == [ts : Nat, book : HeldBooks, n : Nat]

\* Every variable has its type, an idle worker serves no market, and only the
\* stream writes checkpoints.
TypeOK ==
    /\ history \in [Markets -> Seq(Books)] /\ \A m \in Markets : history[m] # <<>>
    /\ states \in [Markets -> HeldBooks]
    /\ pos \in [Markets -> Nat]
    /\ missed \in [Markets -> BOOLEAN]
    /\ task \in [Workers -> Tasks]
    /\ \A t \in Workers : task[t].pc # "idle" => task[t].m \in Markets
    /\ chan \in Seq(Messages)
    /\ connected \in BOOLEAN
    /\ subscribed \subseteq Markets
    /\ rows \in [Markets -> Seq(Rows)]
    /\ checkpoint \in [Markets -> [n : Nat, book : HeldBooks]]
    /\ clock \in Nat
    /\ used \in [Events -> Nat]

\* The collector's book is the exchange's book once every frame sent for the
\* market has been handled, whatever was lost at earlier disconnections, unless a
\* frame was discarded since the last snapshot (docs: "maintain a local in-memory
\* orderbook per market, apply deltas").
CaughtUp ==
    \A m \in subscribed :
        (~missed[m] /\ \A i \in DOMAIN chan : chan[i].m # m) => states[m] = Exchange(m)

Stored(m, book) == \E i \in DOMAIN rows[m] : rows[m][i].book = book

\* A checkpoint never acknowledges a message whose book is not in the table: the
\* handler persists before it writes last_seq, and a database error or a crash in
\* between leaves the earlier checkpoint.
CheckpointCovered ==
    \A m \in Markets : checkpoint[m].n # 0 => Stored(m, checkpoint[m].book)

\* Reconnections, crashes, failed statements and bursts never make the table hold
\* a book the exchange did not have, nor append an older book after a newer one.
OrderedHistory ==
    used["bad"] = 0 =>
        \A m \in Markets : \A i \in DOMAIN rows[m] :
            /\ rows[m][i].n \in DOMAIN history[m]
            /\ rows[m][i].book = history[m][rows[m][i].n]
            /\ \A j \in DOMAIN rows[m] : i < j => rows[m][i].n <= rows[m][j].n

\* Two consecutive rows of a market differ (docs/schema.md: "a row is only written
\* when the book differs from the previous snapshot").
ChangeOnly ==
    \A m \in Markets : \A i \in DOMAIN rows[m] :
        i + 1 \in DOMAIN rows[m] => rows[m][i].book # rows[m][i + 1].book

\* A handler that ends without an error leaves its book as the one the documented
\* query returns (ORDER BY kalshi_ts DESC LIMIT 1), also when statements of earlier
\* handlers had failed, a connection was lost, or the collector had been restarted.
HandlerStores ==
    [][\A t \in Workers, m \in Markets :
         (/\ task[t].m = m /\ task[t].pc \in {"select", "insert"}
          /\ task'[t].pc \notin {"select", "insert"}
          /\ used' = used)
            => rows'[m] # <<>> /\ \A r \in LatestRows(m)' : r.book = states'[m]]_vars

\* The table implements the change log: see ChangeLog.
Log == INSTANCE ChangeLog WITH
         log <- [m \in Markets |-> [i \in DOMAIN rows[m] |->
                                      [n |-> rows[m][i].n, book |-> rows[m][i].book]]]

ImplementsChangeLog == Log!Spec

\* When changes and outages end, and unless a statement fails, the newest row becomes
\* and stays the exchange's book: a reconnection or a restart catches up by itself.
EventuallyStored ==
    \A m \in Markets :
        <>[](used["dbErrors"] = 0
                => rows[m] # <<>> /\ \A r \in LatestRows(m) : r.book = Exchange(m))

------------------------------------------------------------------------------
(* What the proof of CheckpointCovered adds to it (OrderbookPipelineProofs) *)

\* A market has one writer: its poll, or the stream when the WebSocket is available.
OneWriter ==
    /\ \A p \in Pollers : /\ task[p].pc # "idle" => task[p].m = p
                          /\ ~task[p].seq /\ task[p].pc # "checkpoint"
    /\ ~WsAvailable => /\ ~connected /\ subscribed = {} /\ chan = <<>>
                       /\ task[Stream].pc = "idle"

\* Between its statements a handler's book is still the one in memory, and before
\* its checkpoint that book is in the table.
HandlersHold ==
    \A t \in Workers :
        /\ task[t].pc = "insert" => task[t].levels = states[task[t].m]
        /\ task[t].pc = "checkpoint" => Stored(task[t].m, states[task[t].m])

CoverInv == TypeOK /\ OneWriter /\ HandlersHold /\ CheckpointCovered
=============================================================================
