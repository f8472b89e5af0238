----------------------- MODULE OrderbookHistoryProofs -----------------------
(***************************************************************************)
(* What the rows of orderbook_snapshots say of the exchange: theorems      *)
(* about OrderbookPipeline, for every set of markets and levels and every  *)
(* bound.  Where a theorem depends on how the exchange behaves, that is    *)
(* its hypothesis: ~Incremental (delta_fp is the new quantity) or InTurn   *)
(* (a market's changes are handled one at a time).                         *)
(***************************************************************************)
EXTENDS OrderbookPipelineProofs

------------------------------------------------------------------------------
(* The inductive invariant of CaughtUp and OrderedHistory.  A frame is an    *)
(* instruction to memory and its meaning depends on the frames before it:    *)
(* the invariant follows a position of history through the channel, memory,  *)
(* the running handlers and the table.                                       *)

FramesOf(m) == {i \in DOMAIN chan : chan[i].m = m}

\* A frame says what the exchange's history says at its position.
FramesTrue ==
    \A i \in DOMAIN chan :
        /\ chan[i].n \in DOMAIN history[chan[i].m]
        /\ chan[i].type = "snapshot" => chan[i].book = history[chan[i].m][chan[i].n]
        /\ chan[i].type = "delta" =>
             /\ chan[i].n - 1 \in DOMAIN history[chan[i].m]
             /\ ~Incremental =>
                  history[chan[i].m][chan[i].n] =
                    [history[chan[i].m][chan[i].n - 1] EXCEPT ![chan[i].level] = chan[i].fp]

\* Frames of a market arrive oldest first, and only of subscribed markets.
FramesOrdered ==
    /\ \A i, j \in DOMAIN chan :
          i < j /\ chan[i].m = chan[j].m => chan[i].n < chan[j].n
    /\ connected => \A i \in DOMAIN chan : chan[i].m \in subscribed
    /\ ~connected => subscribed = {}

\* A delta follows the frame before it, or the book in memory.
DeltasFollow ==
    \A i \in DOMAIN chan :
        chan[i].type = "delta" =>
            \/ \E j \in DOMAIN chan :
                  j < i /\ chan[j].m = chan[i].m /\ chan[j].n = chan[i].n - 1
            \/ /\ \A j \in DOMAIN chan : j < i => chan[j].m # chan[i].m
               /\ missed[chan[i].m] \/ pos[chan[i].m] = chan[i].n - 1

\* The newest book of a subscribed market is in flight, or memory reflects it.
NewestSent ==
    \A m \in subscribed :
        \/ \E i \in FramesOf(m) : chan[i].n = Len(history[m])
        \/ FramesOf(m) = {} /\ (missed[m] \/ pos[m] = Len(history[m]))

\* Memory is a book of the history, not newer than any frame in flight.
MemoryTrue ==
    \A m \in Markets :
        /\ pos[m] <= Len(history[m])
        /\ \A i \in FramesOf(m) : pos[m] <= chan[i].n
        /\ ~Incremental /\ ~missed[m] /\ pos[m] # 0 => states[m] = history[m][pos[m]]
        /\ used["bad"] = 0 => ~missed[m]

\* A handler persists the book in memory; a poll's answer is newer than memory.
TasksTrue ==
    \A t \in Workers :
        /\ task[t].pc \in {"select", "insert"} => pos[task[t].m] # 0
        /\ task[t].pc = "insert" => task[t].n = pos[task[t].m]
        /\ task[t].pc = "answered" =>
             /\ task[t].n \in DOMAIN history[task[t].m]
             /\ task[t].levels = history[task[t].m][task[t].n]
             /\ pos[task[t].m] <= task[t].n
             /\ \A i \in DOMAIN rows[task[t].m] : rows[task[t].m][i].n <= task[t].n

\* The rows are a path through the history that memory and frames are ahead of.
RowsTrue ==
    \A m \in Markets : \A i \in DOMAIN rows[m] :
        /\ rows[m][i].n \in DOMAIN history[m]
        /\ pos[m] # 0 => rows[m][i].n <= pos[m]
        /\ \A k \in FramesOf(m) : rows[m][i].n <= chan[k].n
        /\ \A j \in DOMAIN rows[m] : i < j => rows[m][i].n <= rows[m][j].n
        /\ ~Incremental /\ used["bad"] = 0 => rows[m][i].book = history[m][rows[m][i].n]

HistoryInv ==
    /\ CoverInv
    /\ FramesTrue /\ FramesOrdered /\ DeltasFollow /\ NewestSent
    /\ MemoryTrue /\ TasksTrue /\ RowsTrue

------------------------------------------------------------------------------
(* The inductive invariant of ChangeOnly and HandlerStores *)

\* No two changes of a market are under way at once: the exchange waits for the
\* collector, or the market is polled (one poll_once per market at a time).
InTurn == Prompt \/ ~WsAvailable

\* A frame is alone: no other frame and no handler of its market, and a delta's own
\* timestamp is newer than the market's rows.
FramesAlone ==
    /\ \A i \in DOMAIN chan :
          /\ \A j \in DOMAIN chan : j # i => chan[j].m # chan[i].m
          /\ task[Stream].m # chan[i].m
          /\ HasOwnTs(chan[i]) =>
               /\ chan[i].ts <= clock
               /\ \A k \in DOMAIN rows[chan[i].m] : rows[chan[i].m][k].ts < chan[i].ts
    /\ connected => task[Stream].m \in subscribed \cup {None}
    /\ \A t \in Workers : task[t].pc = "idle" => task[t].m = None

\* What a handler stores is newer than the market's rows, and differs from the last.
TasksNewer ==
    \A t \in Workers :
        /\ task[t].pc \in {"select", "insert"} =>
             /\ task[t].ts <= clock
             /\ \A i \in DOMAIN rows[task[t].m] : rows[task[t].m][i].ts < task[t].ts
        /\ task[t].pc = "insert" =>
             \A i \in DOMAIN rows[task[t].m] :
                i = Len(rows[task[t].m]) => rows[task[t].m][i].book # task[t].levels

\* The rows of a market were stamped in the order they were inserted.
RowsStamped ==
    \A m \in Markets : \A i \in DOMAIN rows[m] :
        /\ rows[m][i].ts <= clock
        /\ \A j \in DOMAIN rows[m] : i < j => rows[m][i].ts < rows[m][j].ts

TurnInv == HistoryInv /\ FramesAlone /\ TasksNewer /\ RowsStamped /\ ChangeOnly

------------------------------------------------------------------------------
(* What a step does to the channel, the history and the rows *)

LEMMA FrameTyped ==
    ASSUME TypeOK, NEW i \in DOMAIN chan
    PROVE  /\ chan[i] \in Messages /\ chan[i].m \in Markets /\ chan[i].n \in Nat
           /\ chan[i].type \in {"snapshot", "delta"}
           /\ i \in Nat /\ i \in 1 .. Len(chan) /\ Len(chan) \in Nat
<1>1. chan \in Seq(Messages)
  BY DEF TypeOK
<1>2. chan[i] \in Messages /\ i \in 1 .. Len(chan) /\ Len(chan) \in Nat
  BY <1>1, ElementOfSeq, LenProperties
<1>3. \A msg \in Messages : msg.m \in Markets /\ msg.n \in Nat
                            /\ msg.type \in {"snapshot", "delta"}
  BY DEF Messages
<1> QED BY <1>2, <1>3

LEMMA FrameSent ==
    ASSUME TypeOK, NEW f \in Messages, chan' = Append(chan, f)
    PROVE  /\ Len(chan) \in Nat /\ DOMAIN chan = 1 .. Len(chan)
           /\ DOMAIN chan' = 1 .. Len(chan) + 1
           /\ \A i \in DOMAIN chan : chan'[i] = chan[i]
           /\ chan'[Len(chan) + 1] = f
<1>1. chan \in Seq(Messages)
  BY DEF TypeOK
<1> QED BY <1>1, AppendProperties, LenProperties

LEMMA FrameTaken ==
    ASSUME TypeOK, chan # <<>>, chan' = Tail(chan)
    PROVE  /\ Len(chan) \in Nat /\ DOMAIN chan = 1 .. Len(chan) /\ 1 \in DOMAIN chan
           /\ DOMAIN chan' = 1 .. Len(chan) - 1
           /\ \A i \in DOMAIN chan' : i + 1 \in DOMAIN chan /\ chan'[i] = chan[i + 1]
           /\ Head(chan) = chan[1]
<1>1. chan \in Seq(Messages)
  BY DEF TypeOK
<1>2. Len(chan) \in Nat /\ DOMAIN chan = 1 .. Len(chan)
  BY <1>1, LenProperties
<1>3. Len(chan) # 0
  BY <1>1, EmptySeq
<1>4. Tail(chan) \in Seq(Messages) /\ Len(Tail(chan)) = Len(chan) - 1
      /\ \A i \in 1 .. Len(Tail(chan)) : Tail(chan)[i] = chan[i + 1]
  BY <1>1, HeadTailProperties
<1>5. DOMAIN Tail(chan) = 1 .. Len(chan) - 1
  BY <1>4, LenProperties
<1>6. Head(chan) = chan[1]
  BY <1>1
<1> QED BY <1>2, <1>3, <1>4, <1>5, <1>6

LEMMA FramesLost ==
    ASSUME TypeOK, Disconnect
    PROVE  \A i \in DOMAIN chan' : i \in DOMAIN chan /\ chan'[i] = chan[i]
                                   /\ \A j \in DOMAIN chan : j < i => j \in DOMAIN chan'
<1>1. chan \in Seq(Messages) /\ Len(chan) \in Nat /\ DOMAIN chan = 1 .. Len(chan)
  BY LenProperties DEF TypeOK
<1>2. PICK k \in 0 .. Len(chan) : chan' = SubSeq(chan, 1, k)
  BY DEF Disconnect
<1>3. \A i \in 1 .. k : chan[i] \in Messages
  BY <1>1, ElementOfSeq
<1>4. chan' \in Seq(Messages) /\ Len(chan') = k /\ \A i \in 1 .. k : chan'[i] = chan[i]
  BY <1>1, <1>2, <1>3, SubSeqProperties
<1>5. DOMAIN chan' = 1 .. k
  BY <1>4, LenProperties
<1> QED BY <1>1, <1>4, <1>5

LEMMA HistoryTyped ==
    ASSUME TypeOK, NEW m \in Markets
    PROVE  /\ history[m] \in Seq(Books) /\ Len(history[m]) \in Nat
           /\ DOMAIN history[m] = 1 .. Len(history[m]) /\ Len(history[m]) \in DOMAIN history[m]
           /\ \A n \in DOMAIN history[m] : n \in Nat /\ n # 0 /\ n <= Len(history[m])
<1>1. history[m] \in Seq(Books) /\ history[m] # <<>>
  BY DEF TypeOK
<1>2. Len(history[m]) \in Nat /\ DOMAIN history[m] = 1 .. Len(history[m])
  BY <1>1, LenProperties
<1>3. Len(history[m]) # 0
  BY <1>1, EmptySeq
<1> QED BY <1>1, <1>2, <1>3

LEMMA HistoryGrows ==
    ASSUME TypeOK, NEW m \in Markets, NEW l \in Levels, NEW q \in 0 .. MaxQty,
           ExchangeChange(m, l, q)
    PROVE  /\ \A k \in Markets : k # m => history'[k] = history[k]
           /\ Len(history'[m]) = Len(history[m]) + 1
           /\ DOMAIN history'[m] = 1 .. Len(history[m]) + 1
           /\ \A n \in DOMAIN history[m] : history'[m][n] = history[m][n]
           /\ history'[m][Len(history[m]) + 1] = [Exchange(m) EXCEPT ![l] = q]
<1>1. history[m] \in Seq(Books) /\ Exchange(m) \in Books
  BY ExchangeIsABook DEF TypeOK
<1>2. [Exchange(m) EXCEPT ![l] = q] \in Books
  BY <1>1 DEF Books
<1>3. history' = [history EXCEPT ![m] = Append(history[m], [Exchange(m) EXCEPT ![l] = q])]
  BY DEF ExchangeChange
<1>4. history'[m] = Append(history[m], [Exchange(m) EXCEPT ![l] = q])
  BY <1>3 DEF TypeOK
<1>5. history'[m] \in Seq(Books) /\ Len(history'[m]) = Len(history[m]) + 1
      /\ \A n \in 1 .. Len(history[m]) : history'[m][n] = history[m][n]
      /\ history'[m][Len(history[m]) + 1] = [Exchange(m) EXCEPT ![l] = q]
  BY <1>1, <1>2, <1>4, AppendProperties
<1> QED BY <1>1, <1>3, <1>5, LenProperties DEF TypeOK

\* The delta the exchange sends of a change.
LEMMA ChangeIsSent ==
    ASSUME TypeOK, NEW m \in Markets, NEW l \in Levels, NEW q \in 0 .. MaxQty,
           ExchangeChange(m, l, q), m \in subscribed
    PROVE  \E f \in Messages :
             /\ chan' = Append(chan, f)
             /\ f.type = "delta" /\ f.m = m /\ f.level = l /\ f.n = Len(history[m]) + 1
             /\ f.ts \in {NoTs, clock'}
             /\ ~Incremental => f.fp = q
<1>1. Exchange(m) \in Books /\ Len(history[m]) \in Nat /\ clock' \in Nat
  BY SMTT(30), ExchangeIsABook DEF TypeOK, ExchangeChange
<1>2. (IF Incremental THEN q - Exchange(m)[l] ELSE q) \in -MaxQty .. MaxQty
  BY <1>1, BoundsAssumption DEF Books
<1>3. PICK ts \in {NoTs, clock'} :
         chan' = Append(chan, Delta(m, l, IF Incremental THEN q - Exchange(m)[l] ELSE q,
                                    ts, Len(history[m]) + 1))
  BY DEF ExchangeChange
<1> DEFINE f == Delta(m, l, IF Incremental THEN q - Exchange(m)[l] ELSE q,
                      ts, Len(history[m]) + 1)
<1>4. f \in Messages
  BY <1>1, <1>2, <1>3 DEF Delta, Messages, NoTs
<1>5. /\ f.type = "delta" /\ f.m = m /\ f.level = l /\ f.n = Len(history[m]) + 1
      /\ f.ts \in {NoTs, clock'}
      /\ ~Incremental => f.fp = q
  BY DEF Delta
<1> HIDE DEF f
<1>6. chan' = Append(chan, f)
  BY <1>3 DEF f
<1> QED BY <1>4, <1>5, <1>6

LEMMA RowsTyped ==
    ASSUME TypeOK, NEW m \in Markets
    PROVE  /\ rows[m] \in Seq(Rows) /\ Len(rows[m]) \in Nat
           /\ DOMAIN rows[m] = 1 .. Len(rows[m])
           /\ \A i \in DOMAIN rows[m] : rows[m][i] \in Rows /\ rows[m][i].n \in Nat
                                        /\ rows[m][i].ts \in Nat
<1>1. rows[m] \in Seq(Rows)
  BY DEF TypeOK
<1>2. \A r \in Rows : r.n \in Nat /\ r.ts \in Nat
  BY DEF Rows
<1>3. \A i \in 1 .. Len(rows[m]) : rows[m][i] \in Rows
  BY <1>1, ElementOfSeq
<1>4. Len(rows[m]) \in Nat /\ DOMAIN rows[m] = 1 .. Len(rows[m])
  BY <1>1, LenProperties
<1> QED BY <1>1, <1>2, <1>3, <1>4

LEMMA RowInserted ==
    ASSUME TypeOK, NEW t \in Workers, Insert(t), NEW m, m = task[t].m
    PROVE  /\ m \in Markets
           /\ \A k \in Markets : k # m => rows'[k] = rows[k]
           /\ Len(rows'[m]) = Len(rows[m]) + 1
           /\ DOMAIN rows'[m] = 1 .. Len(rows[m]) + 1
           /\ \A i \in DOMAIN rows[m] : rows'[m][i] = rows[m][i]
           /\ rows'[m][Len(rows[m]) + 1] =
                [ts |-> task[t].ts, book |-> task[t].levels, n |-> task[t].n]
<1> DEFINE r == [ts |-> task[t].ts, book |-> task[t].levels, n |-> task[t].n]
<1>1. m \in Markets /\ r \in Rows
  BY DEF TypeOK, Insert, Tasks, Rows
<1>2. rows' = [rows EXCEPT ![m] = Append(rows[m], r)]
  BY DEF Insert
<1> HIDE DEF r
<1>3. rows'[m] = Append(rows[m], r) /\ rows[m] \in Seq(Rows)
  BY <1>1, <1>2 DEF TypeOK
<1>4. rows'[m] \in Seq(Rows) /\ Len(rows'[m]) = Len(rows[m]) + 1
      /\ (\A i \in 1 .. Len(rows[m]) : rows'[m][i] = rows[m][i])
      /\ rows'[m][Len(rows[m]) + 1] = r
  BY <1>1, <1>3, AppendProperties
<1>5. DOMAIN rows[m] = 1 .. Len(rows[m]) /\ DOMAIN rows'[m] = 1 .. Len(rows[m]) + 1
  BY <1>3, <1>4, LenProperties
<1>6. \A k \in Markets : k # m => rows'[k] = rows[k]
  BY <1>2 DEF TypeOK
<1> QED BY <1>1, <1>4, <1>5, <1>6 DEF r

------------------------------------------------------------------------------
(* HistoryInv is inductive *)

HistoryKept == (FramesTrue /\ FramesOrdered /\ DeltasFollow /\ NewestSent
                  /\ MemoryTrue /\ TasksTrue /\ RowsTrue)'

LEMMA InitHistory == Init => HistoryInv
<1> SUFFICES ASSUME Init PROVE HistoryInv
  OBVIOUS
<1>1. CoverInv /\ TypeOK
  BY InitCovered DEF CoverInv
<1>2. DOMAIN chan = {} /\ \A m \in Markets : DOMAIN rows[m] = {}
  BY DEF Init
<1>3. FramesTrue /\ FramesOrdered /\ DeltasFollow /\ NewestSent /\ RowsTrue
  BY <1>2 DEF Init, FramesTrue, FramesOrdered, DeltasFollow, NewestSent, RowsTrue
<1>4. MemoryTrue
  <2>1. \A m \in Markets : Len(history[m]) \in Nat
    BY <1>1, HistoryTyped
  <2>2. \A m \in Markets : pos[m] = 0 /\ FramesOf(m) = {} /\ ~missed[m]
    BY <1>2 DEF Init, FramesOf
  <2>3. pos = [m \in Markets |-> 0]
    BY DEF Init
  <2>4. ASSUME NEW m \in Markets PROVE pos[m] <= Len(history[m])
    <3>1. pos[m] = 0 /\ Len(history[m]) \in Nat
      BY <2>1, <2>3
    <3> QED BY <3>1
  <2> QED BY <2>2, <2>4 DEF MemoryTrue
<1>5. TasksTrue
  BY DEF Init, TasksTrue, Idle
<1> QED BY <1>1, <1>3, <1>4, <1>5 DEF HistoryInv

LEMMA ExchangeKeepsHistory ==
    ASSUME HistoryInv, NEW m \in Markets, NEW l \in Levels, NEW q \in 0 .. MaxQty,
           ExchangeChange(m, l, q)
    PROVE  HistoryKept
<1> DEFINE new == Len(history[m]) + 1
<1>1. TypeOK /\ TypeOK' /\ Exchange(m) = history[m][Len(history[m])]
  BY ExchangingTyped DEF HistoryInv, CoverInv, Exchange
<1>2. UNCHANGED <<states, pos, missed, task, rows, connected, subscribed>>
      /\ used'["bad"] = used["bad"]
  BY <1>1 DEF ExchangeChange, Spend, memory, database, TypeOK, Events
<1>3. \A i \in DOMAIN chan : i \in DOMAIN chan' /\ chan'[i] = chan[i]
      /\ i \in Nat /\ i <= Len(chan) /\ Len(chan) \in Nat
  <2>1. \A i \in DOMAIN chan : i \in Nat /\ i <= Len(chan) /\ Len(chan) \in Nat
    BY <1>1, FrameTyped
  <2>2. CASE m \notin subscribed
    BY <2>1, <2>2 DEF ExchangeChange
  <2>3. CASE m \in subscribed
    <3>1. PICK f \in Messages : chan' = Append(chan, f)
      BY <1>1, <2>3, ChangeIsSent
    <3> QED BY <1>1, <2>1, <3>1, FrameSent
  <2> QED BY <2>2, <2>3
<1>4. ASSUME NEW i \in DOMAIN chan', i \notin DOMAIN chan
      PROVE  /\ i = Len(chan) + 1 /\ m \in subscribed
             /\ chan'[i].m = m /\ chan'[i].type = "delta" /\ chan'[i].n = new
             /\ chan'[i].level = l
             /\ ~Incremental => chan'[i].fp = q
  <2>1. m \in subscribed
    BY <1>4 DEF ExchangeChange
  <2>2. PICK f \in Messages : /\ chan' = Append(chan, f)
                              /\ f.type = "delta" /\ f.m = m /\ f.level = l /\ f.n = new
                              /\ ~Incremental => f.fp = q
    BY <1>1, <2>1, ChangeIsSent
  <2>3. chan'[Len(chan) + 1] = f /\ i = Len(chan) + 1
    BY <1>1, <1>4, <2>2, FrameSent
  <2> QED BY <2>1, <2>2, <2>3
<1>5. /\ \A k \in Markets : k # m => history'[k] = history[k]
      /\ Len(history'[m]) = new /\ DOMAIN history'[m] = 1 .. new
      /\ \A n \in DOMAIN history[m] : history'[m][n] = history[m][n]
      /\ history'[m][new] = [history[m][new - 1] EXCEPT ![l] = q]
      /\ DOMAIN history[m] = 1 .. new - 1 /\ new - 1 \in Nat /\ new - 1 # 0
      /\ new \in Nat
  BY <1>1, HistoryGrows, HistoryTyped
<1> HIDE DEF new
<1>6. \A k \in Markets : /\ \A n \in DOMAIN history[k] : /\ n \in DOMAIN history'[k]
                                                         /\ history'[k][n] = history[k][n]
                         /\ Len(history[k]) \in Nat /\ Len(history[k]) <= Len(history'[k])
                         /\ Len(history'[k]) \in Nat
  <2>1. ASSUME NEW k \in Markets
        PROVE  /\ Len(history[k]) \in Nat /\ Len(history'[k]) \in Nat
               /\ Len(history[k]) <= Len(history'[k])
    BY <1>1, <1>5, HistoryTyped DEF new
  <2>2. ASSUME NEW k \in Markets, NEW n \in DOMAIN history[k]
        PROVE  n \in DOMAIN history'[k] /\ history'[k][n] = history[k][n]
    BY <1>5
  <2> QED BY <2>1, <2>2
<1>7. FramesTrue'
  <2> SUFFICES ASSUME NEW i \in DOMAIN chan'
               PROVE  /\ chan'[i].n \in DOMAIN history'[chan'[i].m]
                      /\ chan'[i].type = "snapshot" =>
                            chan'[i].book = history'[chan'[i].m][chan'[i].n]
                      /\ chan'[i].type = "delta" =>
                           /\ chan'[i].n - 1 \in DOMAIN history'[chan'[i].m]
                           /\ ~Incremental => history'[chan'[i].m][chan'[i].n] =
                                [history'[chan'[i].m][chan'[i].n - 1]
                                   EXCEPT ![chan'[i].level] = chan'[i].fp]
    BY DEF FramesTrue
  <2>1. CASE i \in DOMAIN chan
    <3>1. chan'[i] = chan[i] /\ chan[i].m \in Markets
      BY <1>1, <1>3, <2>1, FrameTyped
    <3>2. /\ chan[i].n \in DOMAIN history[chan[i].m]
          /\ chan[i].type = "snapshot" => chan[i].book = history[chan[i].m][chan[i].n]
          /\ chan[i].type = "delta" =>
               /\ chan[i].n - 1 \in DOMAIN history[chan[i].m]
               /\ ~Incremental =>
                  history[chan[i].m][chan[i].n] =
                    [history[chan[i].m][chan[i].n - 1] EXCEPT ![chan[i].level] = chan[i].fp]
      BY <2>1 DEF FramesTrue, HistoryInv
    <3>3. \A n \in DOMAIN history[chan[i].m] : n \in DOMAIN history'[chan[i].m]
                                /\ history'[chan[i].m][n] = history[chan[i].m][n]
      BY <1>6, <3>1
    <3>4. CASE chan[i].type = "delta"
      <4>1. chan[i].n - 1 \in DOMAIN history'[chan[i].m]
            /\ history'[chan[i].m][chan[i].n - 1] = history[chan[i].m][chan[i].n - 1]
            /\ chan[i].n \in DOMAIN history'[chan[i].m]
            /\ history'[chan[i].m][chan[i].n] = history[chan[i].m][chan[i].n]
        BY <3>2, <3>3, <3>4
      <4> QED BY <3>1, <3>2, <3>4, <4>1
    <3> QED BY <3>1, <3>2, <3>3, <3>4
  <2>2. CASE i \notin DOMAIN chan
    <3>1. chan'[i].n - 1 = new - 1 /\ new \in DOMAIN history'[m] /\ new - 1 \in DOMAIN history'[m]
          /\ history'[m][new - 1] = history[m][new - 1]
      BY <1>4, <1>5, <2>2
    <3>2. ~Incremental => history'[m][new] = [history'[m][new - 1] EXCEPT ![l] = chan'[i].fp]
      BY <1>4, <1>5, <2>2, <3>1
    <3> QED BY <1>4, <2>2, <3>1, <3>2
  <2> QED BY <2>1, <2>2
<1>8. \A i \in DOMAIN chan : chan[i].m = m => chan[i].n < new
  <2>1. \A n \in DOMAIN history[m] : n < new
    BY <1>5
  <2>2. \A i \in DOMAIN chan : chan[i].n \in DOMAIN history[chan[i].m]
    BY DEF FramesTrue, HistoryInv
  <2> QED BY <2>1, <2>2
<1>9. FramesOrdered'
  BY <1>1, <1>2, <1>3, <1>4, <1>8, FrameTyped DEF FramesOrdered, HistoryInv
<1>10. DeltasFollow'
  <2> SUFFICES ASSUME NEW i \in DOMAIN chan', chan'[i].type = "delta"
               PROVE  \/ \E j \in DOMAIN chan' :
                           j < i /\ chan'[j].m = chan'[i].m /\ chan'[j].n = chan'[i].n - 1
                      \/ /\ \A j \in DOMAIN chan' : j < i => chan'[j].m # chan'[i].m
                         /\ missed'[chan'[i].m] \/ pos'[chan'[i].m] = chan'[i].n - 1
    BY DEF DeltasFollow
  <2>1. CASE i \in DOMAIN chan
    BY <1>1, <1>2, <1>3, <1>4, <2>1, FrameTyped DEF DeltasFollow, HistoryInv
  <2>2. CASE i \notin DOMAIN chan
    <3>1. \A j \in DOMAIN chan' : j < i => j \in DOMAIN chan
      BY <1>4, <2>2
    <3>2. \/ \E j \in FramesOf(m) : chan[j].n = Len(history[m])
          \/ FramesOf(m) = {} /\ (missed[m] \/ pos[m] = Len(history[m]))
      BY <1>4, <2>2 DEF NewestSent, HistoryInv
    <3> QED BY SMTT(30), <1>2, <1>3, <1>4, <2>2, <3>1, <3>2 DEF FramesOf, new
  <2> QED BY <2>1, <2>2
<1>11. NewestSent'
  <2> SUFFICES ASSUME NEW k \in subscribed
               PROVE  \/ \E i \in DOMAIN chan' : chan'[i].m = k
                                                 /\ chan'[i].n = Len(history'[k])
                      \/ /\ \A i \in DOMAIN chan' : chan'[i].m # k
                         /\ missed'[k] \/ pos'[k] = Len(history'[k])
    BY <1>2 DEF NewestSent, FramesOf
  <2>1. CASE k = m
    <3>1. PICK f : f \in Messages /\ chan' = Append(chan, f)
      BY <1>1, <2>1, ChangeIsSent
    <3>2. Len(chan) + 1 \in DOMAIN chan' /\ Len(chan) + 1 \notin DOMAIN chan
      BY <1>1, <3>1, FrameSent
    <3> QED BY <1>4, <1>5, <2>1, <3>2
  <2>2. CASE k # m
    <3>1. k \in Markets /\ history'[k] = history[k]
      BY <1>1, <1>5, <2>2 DEF TypeOK
    <3> QED BY <1>2, <1>3, <1>4, <2>2, <3>1 DEF NewestSent, FramesOf, HistoryInv
  <2> QED BY <2>1, <2>2
<1>12. MemoryTrue'
  <2>0. \A k \in Markets : pos[k] \in Nat
    BY <1>1 DEF TypeOK
  <2> SUFFICES ASSUME NEW k \in Markets
               PROVE  /\ pos[k] <= Len(history'[k])
                      /\ \A i \in DOMAIN chan' : chan'[i].m = k => pos[k] <= chan'[i].n
                      /\ ~Incremental /\ ~missed[k] /\ pos[k] # 0 =>
                            states[k] = history'[k][pos[k]]
                      /\ used["bad"] = 0 => ~missed[k]
    BY <1>2 DEF MemoryTrue, FramesOf
  <2>1. pos[k] <= Len(history[k]) /\ pos[k] <= Len(history'[k])
    BY <1>6, <2>0 DEF MemoryTrue, HistoryInv
  <2>2. pos[k] # 0 => pos[k] \in DOMAIN history[k]
    BY <1>1, <2>0, <2>1, HistoryTyped
  <2>3. ASSUME NEW i \in DOMAIN chan', chan'[i].m = k PROVE pos[k] <= chan'[i].n
    <3>1. CASE i \in DOMAIN chan
      BY <1>3, <2>3, <3>1 DEF MemoryTrue, FramesOf, HistoryInv
    <3>2. CASE i \notin DOMAIN chan
      BY <1>4, <1>5, <2>1, <2>3, <3>2
    <3> QED BY <3>1, <3>2
  <2>4. ~Incremental /\ ~missed[k] /\ pos[k] # 0 => states[k] = history'[k][pos[k]]
    BY <1>6, <2>2 DEF MemoryTrue, HistoryInv
  <2> QED BY <2>1, <2>3, <2>4 DEF MemoryTrue, HistoryInv
<1>13. TasksTrue'
  <2>1. \A t \in Workers : task[t].pc # "idle" => task[t].m \in Markets
    BY <1>1 DEF TypeOK
  <2> QED BY <1>2, <1>6, <2>1 DEF TasksTrue, HistoryInv
<1>14. RowsTrue'
  <2> SUFFICES ASSUME NEW k \in Markets, NEW i \in DOMAIN rows[k]
               PROVE  /\ rows[k][i].n \in DOMAIN history'[k]
                      /\ pos[k] # 0 => rows[k][i].n <= pos[k]
                      /\ \A j \in DOMAIN chan' : chan'[j].m = k => rows[k][i].n <= chan'[j].n
                      /\ \A j \in DOMAIN rows[k] : i < j => rows[k][i].n <= rows[k][j].n
                      /\ ~Incremental /\ used["bad"] = 0 =>
                            rows[k][i].book = history'[k][rows[k][i].n]
    BY <1>2 DEF RowsTrue, FramesOf
  <2>1. rows[k][i].n \in DOMAIN history[k] /\ rows[k][i].n <= Len(history[k])
        /\ rows[k][i].n \in Nat
    BY <1>1, HistoryTyped DEF RowsTrue, HistoryInv
  <2>2. ASSUME NEW j \in DOMAIN chan', chan'[j].m = k PROVE rows[k][i].n <= chan'[j].n
    <3>1. CASE j \in DOMAIN chan
      BY <1>3, <2>2, <3>1 DEF RowsTrue, FramesOf, HistoryInv
    <3>2. CASE j \notin DOMAIN chan
      BY <1>4, <1>5, <2>1, <2>2, <3>2
    <3> QED BY <3>1, <3>2
  <2> QED BY <1>6, <2>1, <2>2 DEF RowsTrue, HistoryInv
<1> QED BY <1>7, <1>9, <1>10, <1>11, <1>12, <1>13, <1>14 DEF HistoryKept

LEMMA ConnectionKeepsHistory ==
    ASSUME HistoryInv, Connect \/ Disconnect \/ Crash
    PROVE  HistoryKept
<1>1. TypeOK /\ TypeOK'
  BY ConnectionTyped DEF HistoryInv, CoverInv
<1> USE DEF HistoryInv
<1>2. CASE Connect
  <2>1. DOMAIN chan' = {} /\ UNCHANGED <<history, memory, task, subscribed, database, used>>
        /\ DOMAIN chan = {}
    BY <1>2 DEF Connect
  <2>2. UNCHANGED <<states, pos, missed, rows>>
    BY <2>1 DEF memory, database
  <2>3. FramesTrue' /\ FramesOrdered' /\ DeltasFollow'
    BY <1>2, <2>1 DEF FramesTrue, FramesOrdered, DeltasFollow, Connect
  <2>4. NewestSent' /\ MemoryTrue' /\ TasksTrue' /\ RowsTrue'
    BY <2>1, <2>2 DEF NewestSent, MemoryTrue, TasksTrue, RowsTrue, FramesOf
  <2> QED BY <2>3, <2>4 DEF HistoryKept
<1>3. CASE Disconnect
  <2>1. \A i \in DOMAIN chan' : i \in DOMAIN chan /\ chan'[i] = chan[i]
                                /\ \A j \in DOMAIN chan : j < i => j \in DOMAIN chan'
    BY <1>1, <1>3, FramesLost
  <2>2. /\ UNCHANGED <<history, states, pos, missed, task, rows>>
        /\ ~connected' /\ subscribed' = {}
    BY <1>3 DEF Disconnect, memory, database
  <2>3. used'["bad"] = used["bad"]
    BY <1>1, <1>3 DEF Disconnect, Spend, TypeOK, Events
  <2>4. FramesTrue' /\ FramesOrdered' /\ NewestSent'
    BY <2>1, <2>2 DEF FramesTrue, FramesOrdered, NewestSent
  <2>5. DeltasFollow'
    BY <2>1, <2>2 DEF DeltasFollow
  <2>6. MemoryTrue' /\ TasksTrue' /\ RowsTrue'
    BY <2>1, <2>2, <2>3 DEF MemoryTrue, TasksTrue, RowsTrue, FramesOf
  <2> QED BY <2>4, <2>5, <2>6 DEF HistoryKept
<1>4. CASE Crash
  <2>1. /\ DOMAIN chan' = {} /\ ~connected' /\ subscribed' = {}
        /\ task' = [t \in Workers |-> Idle] /\ UNCHANGED <<history, rows>>
        /\ pos' = [m \in Markets |-> 0] /\ missed' = [m \in Markets |-> FALSE]
    BY <1>4 DEF Crash, database
  <2>2. used'["bad"] = used["bad"]
    BY <1>1, <1>4 DEF Crash, Spend, TypeOK, Events
  <2>3. FramesTrue' /\ FramesOrdered' /\ NewestSent' /\ DeltasFollow'
    BY <2>1 DEF FramesTrue, FramesOrdered, NewestSent, DeltasFollow
  <2>4. MemoryTrue'
    <3>1. \A m \in Markets : Len(history[m]) \in Nat
      BY <1>1, HistoryTyped
    <3>2. \A m \in Markets : pos'[m] <= Len(history'[m])
      BY <2>1, <3>1
    <3>3. \A m \in Markets : pos'[m] = 0 /\ FramesOf(m)' = {} /\ ~missed'[m]
      BY <2>1 DEF FramesOf
    <3> QED BY <3>2, <3>3 DEF MemoryTrue
  <2>5. TasksTrue'
    BY <2>1 DEF TasksTrue, Idle
  <2>6. RowsTrue'
    <3>1. \A m \in Markets : pos'[m] = 0 /\ FramesOf(m)' = {}
      BY <2>1 DEF FramesOf
    <3> QED BY <2>1, <2>2, <3>1 DEF RowsTrue
  <2> QED BY <2>3, <2>4, <2>5, <2>6 DEF HistoryKept
<1> QED BY <1>2, <1>3, <1>4

LEMMA SubscribeKeepsHistory ==
    ASSUME HistoryInv, NEW m \in Markets, Subscribe(m)
    PROVE  HistoryKept
<1> USE DEF HistoryInv
<1> DEFINE f == Snapshot(m)
           new == Len(chan) + 1
<1>1. TypeOK /\ TypeOK'
  BY ConnectionTyped DEF CoverInv
<1>2. f \in Messages /\ f.m = m /\ f.type = "snapshot" /\ f.n = Len(history[m])
      /\ f.book = history[m][f.n]
  BY <1>1, ExchangeIsABook DEF Snapshot, Messages, Exchange
<1>3. chan' = Append(chan, f)
  BY DEF Subscribe
<1> HIDE DEF f
<1>4. /\ Len(chan) \in Nat /\ DOMAIN chan = 1 .. Len(chan)
      /\ DOMAIN chan' = 1 .. new
      /\ \A i \in DOMAIN chan : i \in DOMAIN chan' /\ chan'[i] = chan[i]
      /\ chan'[new] = f /\ new \in DOMAIN chan' /\ new \notin DOMAIN chan
      /\ \A i \in DOMAIN chan' : i = new \/ i \in DOMAIN chan
      /\ \A i \in DOMAIN chan : i < new
  <2>1. /\ Len(chan) \in Nat /\ DOMAIN chan = 1 .. Len(chan)
        /\ DOMAIN chan' = 1 .. new
        /\ \A i \in DOMAIN chan : chan'[i] = chan[i]
        /\ chan'[new] = f
    BY <1>1, <1>2, <1>3, FrameSent
  <2> QED BY <2>1
<1> HIDE DEF new
<1>5. /\ UNCHANGED <<history, states, pos, missed, task, rows, connected, used>>
      /\ connected /\ m \notin subscribed /\ subscribed' = subscribed \cup {m}
  BY DEF Subscribe, memory, database
<1>6. \A i \in DOMAIN chan : chan[i].m # m /\ chan[i].m \in subscribed
  BY <1>5 DEF FramesOrdered
<1>7. f.n \in DOMAIN history[m] /\ \A n \in DOMAIN history[m] : n <= f.n
  BY <1>1, <1>2, HistoryTyped
<1>8. FramesTrue'
  <2> SUFFICES ASSUME NEW i \in DOMAIN chan'
               PROVE  /\ chan'[i].n \in DOMAIN history[chan'[i].m]
                      /\ chan'[i].type = "snapshot" =>
                            chan'[i].book = history[chan'[i].m][chan'[i].n]
                      /\ chan'[i].type = "delta" =>
                           /\ chan'[i].n - 1 \in DOMAIN history[chan'[i].m]
                           /\ ~Incremental => history[chan'[i].m][chan'[i].n] =
                                [history[chan'[i].m][chan'[i].n - 1]
                                   EXCEPT ![chan'[i].level] = chan'[i].fp]
    BY <1>5 DEF FramesTrue
  <2>1. CASE i = new
    BY <1>2, <1>4, <1>7, <2>1
  <2>2. CASE i \in DOMAIN chan
    <3>1. chan'[i] = chan[i]
      BY <1>4, <2>2
    <3>2. FramesTrue
      OBVIOUS
    <3> QED BY <2>2, <3>1, <3>2 DEF FramesTrue
  <2> QED BY <1>4, <2>1, <2>2
<1>9. FramesOrdered' /\ DeltasFollow'
  <2>1. connected' /\ \A i \in DOMAIN chan' : chan'[i].m \in subscribed'
    BY <1>2, <1>4, <1>5, <1>6
  <2>2. \A i, j \in DOMAIN chan' :
          i < j /\ chan'[i].m = chan'[j].m => chan'[i].n < chan'[j].n
    BY <1>2, <1>4, <1>6 DEF FramesOrdered
  <2>3. ASSUME NEW i \in DOMAIN chan', chan'[i].type = "delta"
        PROVE  i \in DOMAIN chan /\ \A j \in DOMAIN chan' : j < i => j \in DOMAIN chan
    BY <1>2, <1>4, <2>3
  <2>4. DeltasFollow'
    BY <1>4, <1>5, <2>3 DEF DeltasFollow
  <2> QED BY <2>1, <2>2, <2>4 DEF FramesOrdered
<1>10. NewestSent'
  BY <1>2, <1>4, <1>5 DEF NewestSent, FramesOf
<1>11. \A k \in Markets : \A i \in FramesOf(k)' :
          \/ i \in FramesOf(k) /\ chan'[i] = chan[i]
          \/ k = m /\ chan'[i] = f
  BY <1>2, <1>4 DEF FramesOf
<1>12. \A k \in Markets : pos[k] \in Nat
  BY <1>1 DEF TypeOK
<1>13. MemoryTrue'
  <2>1. pos[m] <= f.n
    BY <1>2 DEF MemoryTrue
  <2> QED BY <1>5, <1>11, <2>1 DEF MemoryTrue
<1>14. TasksTrue'
  BY <1>5 DEF TasksTrue
<1>15. RowsTrue'
  BY <1>5, <1>7, <1>11 DEF RowsTrue
<1> QED BY <1>8, <1>9, <1>10, <1>13, <1>14, <1>15 DEF HistoryKept

\* Taking the head frame, applied or discarded: the other frames still follow it.
LEMMA HeadIsTaken ==
    ASSUME HistoryInv, chan # <<>>, chan' = Tail(chan), NEW msg, msg = Head(chan),
           UNCHANGED <<history, connected, subscribed, rows>>,
           \A k \in Markets : k # msg.m => pos'[k] = pos[k] /\ missed'[k] = missed[k],
           missed'[msg.m] \/ pos'[msg.m] = msg.n
    PROVE  /\ FramesTrue' /\ FramesOrdered' /\ DeltasFollow' /\ NewestSent'
           /\ 1 \in DOMAIN chan /\ msg = chan[1]
           /\ \A i \in DOMAIN chan' :
                /\ i + 1 \in DOMAIN chan /\ chan'[i] = chan[i + 1]
                /\ chan'[i].m = msg.m => msg.n < chan'[i].n
<1> USE DEF HistoryInv
<1>1. TypeOK
  BY DEF CoverInv
<1>2. /\ 1 \in DOMAIN chan /\ msg = chan[1] /\ Len(chan) \in Nat
      /\ DOMAIN chan' = 1 .. Len(chan) - 1 /\ DOMAIN chan = 1 .. Len(chan)
      /\ \A i \in DOMAIN chan' : i + 1 \in DOMAIN chan /\ chan'[i] = chan[i + 1]
  BY <1>1, FrameTaken
<1>3. \A i \in DOMAIN chan' : chan'[i].m = msg.m => msg.n < chan'[i].n
  <2> SUFFICES ASSUME NEW i \in DOMAIN chan', chan'[i].m = msg.m PROVE msg.n < chan'[i].n
    OBVIOUS
  <2>1. i \in Nat /\ 1 < i + 1 /\ chan'[i] = chan[i + 1] /\ i + 1 \in DOMAIN chan
    BY <1>2
  <2>2. FramesOrdered
    OBVIOUS
  <2> QED BY <1>2, <2>1, <2>2 DEF FramesOrdered
<1>4. FramesTrue'
  <2> SUFFICES ASSUME NEW i \in DOMAIN chan'
               PROVE  /\ chan'[i].n \in DOMAIN history[chan'[i].m]
                      /\ chan'[i].type = "snapshot" =>
                            chan'[i].book = history[chan'[i].m][chan'[i].n]
                      /\ chan'[i].type = "delta" =>
                           /\ chan'[i].n - 1 \in DOMAIN history[chan'[i].m]
                           /\ ~Incremental => history[chan'[i].m][chan'[i].n] =
                                [history[chan'[i].m][chan'[i].n - 1]
                                   EXCEPT ![chan'[i].level] = chan'[i].fp]
    BY DEF FramesTrue
  <2>1. i + 1 \in DOMAIN chan /\ chan'[i] = chan[i + 1]
    BY <1>2
  <2>2. /\ chan[i + 1].n \in DOMAIN history[chan[i + 1].m]
        /\ chan[i + 1].type = "snapshot" =>
              chan[i + 1].book = history[chan[i + 1].m][chan[i + 1].n]
        /\ chan[i + 1].type = "delta" =>
             /\ chan[i + 1].n - 1 \in DOMAIN history[chan[i + 1].m]
             /\ ~Incremental => history[chan[i + 1].m][chan[i + 1].n] =
                  [history[chan[i + 1].m][chan[i + 1].n - 1]
                     EXCEPT ![chan[i + 1].level] = chan[i + 1].fp]
    BY <2>1 DEF FramesTrue
  <2> QED BY <2>1, <2>2
<1>5. FramesOrdered'
  <2>1. \A i, j \in DOMAIN chan' :
          i < j /\ chan'[i].m = chan'[j].m => chan'[i].n < chan'[j].n
    <3> SUFFICES ASSUME NEW i \in DOMAIN chan', NEW j \in DOMAIN chan', i < j,
                        chan'[i].m = chan'[j].m
                 PROVE  chan'[i].n < chan'[j].n
      OBVIOUS
    <3>1. i + 1 < j + 1 /\ i + 1 \in DOMAIN chan /\ j + 1 \in DOMAIN chan
          /\ chan'[i] = chan[i + 1] /\ chan'[j] = chan[j + 1]
      BY <1>2
    <3> QED BY <3>1 DEF FramesOrdered
  <2> QED BY <1>2, <2>1 DEF FramesOrdered
<1>6. DeltasFollow'
  <2> SUFFICES ASSUME NEW i \in DOMAIN chan', chan'[i].type = "delta"
               PROVE  \/ \E j \in DOMAIN chan' :
                           j < i /\ chan'[j].m = chan'[i].m /\ chan'[j].n = chan'[i].n - 1
                      \/ /\ \A j \in DOMAIN chan' : j < i => chan'[j].m # chan'[i].m
                         /\ missed'[chan'[i].m] \/ pos'[chan'[i].m] = chan'[i].n - 1
    BY DEF DeltasFollow
  <2>1. i + 1 \in DOMAIN chan /\ chan'[i] = chan[i + 1] /\ i \in Nat /\ 1 < i + 1
        /\ chan[i + 1].m \in Markets /\ chan[i + 1].n \in Nat
    BY <1>1, <1>2, FrameTyped
  <2>2. CASE \E j \in DOMAIN chan : j < i + 1 /\ chan[j].m = chan[i + 1].m
                                    /\ chan[j].n = chan[i + 1].n - 1
    <3>1. PICK j \in DOMAIN chan : j < i + 1 /\ chan[j].m = chan[i + 1].m
                                   /\ chan[j].n = chan[i + 1].n - 1
      BY <2>2
    <3>2. CASE j # 1
      <4>1. j - 1 \in DOMAIN chan' /\ j - 1 < i /\ (j - 1) + 1 = j
        BY <1>2, <2>1, <3>1, <3>2
      <4>2. chan'[j - 1] = chan[j]
        BY <1>2, <4>1
      <4> QED BY <2>1, <3>1, <4>1, <4>2
    <3>3. CASE j = 1
      <4>1. msg.m = chan'[i].m /\ msg.n = chan'[i].n - 1
        BY <1>2, <2>1, <3>1, <3>3
      <4>2. ASSUME NEW k \in DOMAIN chan', k < i, chan'[k].m = chan'[i].m PROVE FALSE
        <5>1. chan'[k].n < chan'[i].n
          BY <1>5, <4>2 DEF FramesOrdered
        <5>2. msg.n < chan'[k].n
          BY <1>3, <4>1, <4>2
        <5>3. chan'[k].n \in Nat /\ chan'[i].n \in Nat
          BY <1>1, <1>2, <2>1, FrameTyped
        <5> QED BY <4>1, <5>1, <5>2, <5>3
      <4> QED BY <4>1, <4>2
    <3> QED BY <3>2, <3>3
  <2>3. CASE /\ \A j \in DOMAIN chan : j < i + 1 => chan[j].m # chan[i + 1].m
             /\ missed[chan[i + 1].m] \/ pos[chan[i + 1].m] = chan[i + 1].n - 1
    <3>1. chan[i + 1].m # msg.m
      BY <1>2, <2>1, <2>3
    <3>2. \A j \in DOMAIN chan' : j < i => chan'[j].m # chan'[i].m
      <4> SUFFICES ASSUME NEW j \in DOMAIN chan', j < i PROVE chan'[j].m # chan'[i].m
        OBVIOUS
      <4>1. j + 1 \in DOMAIN chan /\ j + 1 < i + 1 /\ chan'[j] = chan[j + 1]
        BY <1>2
      <4> QED BY <2>1, <2>3, <4>1
    <3>3. pos'[chan[i + 1].m] = pos[chan[i + 1].m]
          /\ missed'[chan[i + 1].m] = missed[chan[i + 1].m]
      BY <2>1, <3>1
    <3> QED BY <2>1, <2>3, <3>2, <3>3
  <2> QED BY <2>1, <2>2, <2>3 DEF DeltasFollow
<1>7. NewestSent'
  <2> SUFFICES ASSUME NEW k \in subscribed
               PROVE  \/ \E i \in DOMAIN chan' : chan'[i].m = k
                                                 /\ chan'[i].n = Len(history[k])
                      \/ /\ \A i \in DOMAIN chan' : chan'[i].m # k
                         /\ missed'[k] \/ pos'[k] = Len(history[k])
    BY DEF NewestSent, FramesOf
  <2>1. k \in Markets
    BY <1>1 DEF TypeOK
  <2>2. ASSUME NEW i \in DOMAIN chan, chan[i].m = k, chan[i].n = Len(history[k]), i # 1
        PROVE  \E j \in DOMAIN chan' : chan'[j].m = k /\ chan'[j].n = Len(history[k])
    <3>1. i - 1 \in DOMAIN chan' /\ (i - 1) + 1 = i
      BY <1>2, <2>2
    <3>2. chan'[i - 1] = chan[i]
      BY <1>2, <3>1
    <3> QED BY <2>2, <3>1, <3>2
  <2>3. ASSUME msg.m = k, msg.n = Len(history[k])
        PROVE  \A i \in DOMAIN chan' : chan'[i].m # k
    <3> SUFFICES ASSUME NEW i \in DOMAIN chan', chan'[i].m = k PROVE FALSE
      OBVIOUS
    <3>1. chan'[i].n \in DOMAIN history[k]
      BY <1>4 DEF FramesTrue
    <3>2. chan'[i].n <= Len(history[k]) /\ chan'[i].n \in Nat /\ Len(history[k]) \in Nat
      BY <1>1, <2>1, <3>1, HistoryTyped
    <3> QED BY <1>3, <2>3, <3>2
  <2>4. ASSUME FramesOf(k) = {}
        PROVE  k # msg.m /\ \A i \in DOMAIN chan' : chan'[i].m # k
    BY <1>2, <2>4 DEF FramesOf
  <2>5. \/ \E i \in DOMAIN chan : chan[i].m = k /\ chan[i].n = Len(history[k])
        \/ FramesOf(k) = {} /\ (missed[k] \/ pos[k] = Len(history[k]))
    BY DEF NewestSent, FramesOf
  <2>6. CASE \E i \in DOMAIN chan : chan[i].m = k /\ chan[i].n = Len(history[k])
    <3>1. CASE msg.m = k /\ msg.n = Len(history[k])
      BY <2>3, <3>1
    <3>2. CASE ~(msg.m = k /\ msg.n = Len(history[k]))
      BY <1>2, <2>2, <2>6, <3>2
    <3> QED BY <3>1, <3>2
  <2>7. CASE FramesOf(k) = {} /\ (missed[k] \/ pos[k] = Len(history[k]))
    BY <2>1, <2>4, <2>7
  <2> QED BY <2>5, <2>6, <2>7
<1> QED BY <1>2, <1>3, <1>4, <1>5, <1>6, <1>7

LEMMA DiscardKeepsHistory == ASSUME HistoryInv, Discard PROVE HistoryKept
<1> USE DEF HistoryInv
<1>1. TypeOK /\ TypeOK'
  BY DiscardTyped DEF CoverInv
<1>2. PICK msg : msg = Head(chan)
  OBVIOUS
<1>3. /\ chan # <<>> /\ chan' = Tail(chan)
      /\ UNCHANGED <<history, states, pos, connected, subscribed, rows, task>>
      /\ missed' = [missed EXCEPT ![msg.m] = TRUE]
  BY <1>2 DEF Discard, database
<1>4. msg.m \in Markets
  BY <1>1, <1>2, <1>3, FrameTaken, FrameTyped
<1>5. /\ \A k \in Markets : k # msg.m => missed'[k] = missed[k]
      /\ missed'[msg.m]
  BY <1>1, <1>3, <1>4 DEF TypeOK
<1>6. /\ FramesTrue' /\ FramesOrdered' /\ DeltasFollow' /\ NewestSent'
      /\ \A i \in DOMAIN chan' : i + 1 \in DOMAIN chan /\ chan'[i] = chan[i + 1]
  <2>1. /\ UNCHANGED <<history, connected, subscribed, rows>>
        /\ \A k \in Markets : k # msg.m => pos'[k] = pos[k] /\ missed'[k] = missed[k]
        /\ missed'[msg.m] \/ pos'[msg.m] = msg.n
    BY <1>3, <1>5
  <2>2. /\ FramesTrue' /\ FramesOrdered' /\ DeltasFollow' /\ NewestSent'
        /\ 1 \in DOMAIN chan /\ msg = chan[1]
        /\ \A i \in DOMAIN chan' :
             /\ i + 1 \in DOMAIN chan /\ chan'[i] = chan[i + 1]
             /\ chan'[i].m = msg.m => msg.n < chan'[i].n
    BY ZenonT(60), <1>2, <1>3, <2>1, HeadIsTaken
  <2> QED BY <2>2
<1>7. used["bad"] \in Nat /\ used'["bad"] = used["bad"] + 1 /\ used'["bad"] # 0
  BY <1>1 DEF Discard, Spend, TypeOK, Events
<1>8. \A k \in Markets : \A i \in FramesOf(k)' : i + 1 \in FramesOf(k) /\ chan'[i] = chan[i + 1]
  BY <1>6 DEF FramesOf
<1>9. \A k \in Markets : missed[k] => missed'[k]
  BY <1>5
<1>10. MemoryTrue'
  BY <1>3, <1>7, <1>8, <1>9 DEF MemoryTrue
<1>11. TasksTrue'
  BY <1>3 DEF TasksTrue
<1>12. RowsTrue'
  BY <1>3, <1>7, <1>8 DEF RowsTrue
<1> QED BY <1>6, <1>10, <1>11, <1>12 DEF HistoryKept

LEMMA ReceiveKeepsHistory == ASSUME HistoryInv, Receive PROVE HistoryKept
<1> USE DEF HistoryInv
<1>1. TypeOK /\ TypeOK' /\ Workers = {Stream}
  BY ReceiveTyped, FallbackOnly DEF CoverInv, OneWriter, Receive, Workers
<1>2. PICK msg : msg = Head(chan)
  OBVIOUS
<1>3. /\ chan # <<>> /\ chan' = Tail(chan)
      /\ UNCHANGED <<history, connected, subscribed, rows, used>>
      /\ states' = [states EXCEPT ![msg.m] = Applied(msg)]
      /\ pos' = [pos EXCEPT ![msg.m] = msg.n]
      /\ missed' = [missed EXCEPT ![msg.m] = @ /\ msg.type = "delta"]
  BY <1>2 DEF Receive, database
<1>4. /\ 1 \in DOMAIN chan /\ msg = chan[1] /\ msg.m \in Markets /\ msg.n \in Nat
      /\ msg.type \in {"snapshot", "delta"}
  BY <1>1, <1>2, <1>3, FrameTaken, FrameTyped
<1>5. /\ \A k \in Markets : k # msg.m => /\ pos'[k] = pos[k] /\ missed'[k] = missed[k]
                                         /\ states'[k] = states[k]
      /\ pos'[msg.m] = msg.n
      /\ missed'[msg.m] <=> missed[msg.m] /\ msg.type = "delta"
      /\ states'[msg.m] = Applied(msg)
  BY <1>1, <1>3, <1>4 DEF TypeOK
<1>6. /\ FramesTrue' /\ FramesOrdered' /\ DeltasFollow' /\ NewestSent'
      /\ \A i \in DOMAIN chan' : /\ i + 1 \in DOMAIN chan /\ chan'[i] = chan[i + 1]
                                 /\ chan'[i].m = msg.m => msg.n < chan'[i].n
  BY <1>2, <1>3, <1>5, HeadIsTaken
<1>7. \A k \in Markets : \A i \in FramesOf(k)' :
        /\ i + 1 \in FramesOf(k) /\ chan'[i] = chan[i + 1]
        /\ k = msg.m => msg.n < chan'[i].n
        /\ chan'[i].n \in Nat
  BY <1>1, <1>6, FrameTyped DEF FramesOf
<1>8. msg.n \in DOMAIN history[msg.m] /\ msg.n <= Len(history[msg.m]) /\ msg.n # 0
  BY <1>1, <1>4, HistoryTyped DEF FramesTrue
<1>9. ~Incremental /\ ~missed'[msg.m] => states'[msg.m] = history[msg.m][msg.n]
  <2>1. CASE msg.type = "snapshot"
    BY <1>4, <1>5, <2>1 DEF FramesTrue, Applied
  <2>2. CASE msg.type = "delta"
    <3> SUFFICES ASSUME ~Incremental, ~missed[msg.m]
                 PROVE  states'[msg.m] = history[msg.m][msg.n]
      BY <1>5, <2>2
    <3>1. ~\E j \in DOMAIN chan : j < 1
      BY <1>1, FrameTyped
    <3>2. pos[msg.m] = msg.n - 1
      BY <1>4, <2>2, <3>1 DEF DeltasFollow
    <3>3. /\ msg.n - 1 \in DOMAIN history[msg.m]
          /\ history[msg.m][msg.n] = [history[msg.m][msg.n - 1] EXCEPT ![msg.level] = msg.fp]
      BY <1>4, <2>2 DEF FramesTrue
    <3>4. pos[msg.m] # 0
      BY <1>1, <1>4, <3>2, <3>3, HistoryTyped
    <3>5. states[msg.m] = history[msg.m][msg.n - 1]
      BY <1>4, <3>2, <3>4 DEF MemoryTrue
    <3>6. Applied(msg) = [states[msg.m] EXCEPT ![msg.level] = msg.fp]
      BY <2>2 DEF Applied, ApplyDelta
    <3> QED BY <1>5, <3>3, <3>5, <3>6
  <2> QED BY <1>4, <2>1, <2>2
<1>10. MemoryTrue'
  <2> SUFFICES ASSUME NEW k \in Markets
               PROVE  /\ pos'[k] <= Len(history[k])
                      /\ \A i \in FramesOf(k)' : pos'[k] <= chan'[i].n
                      /\ ~Incremental /\ ~missed'[k] /\ pos'[k] # 0 =>
                            states'[k] = history[k][pos'[k]]
                      /\ used["bad"] = 0 => ~missed'[k]
    BY <1>3 DEF MemoryTrue
  <2>1. CASE k = msg.m
    <3>1. used["bad"] = 0 => ~missed'[k]
      BY <1>5, <2>1 DEF MemoryTrue
    <3>2. pos'[k] <= Len(history[k]) /\ \A i \in FramesOf(k)' : pos'[k] <= chan'[i].n
      BY <1>4, <1>5, <1>7, <1>8, <2>1
    <3> QED BY <1>5, <1>9, <2>1, <3>1, <3>2
  <2>2. CASE k # msg.m
    <3>1. /\ pos'[k] = pos[k] /\ (missed'[k] <=> missed[k]) /\ states'[k] = states[k]
          /\ \A i \in FramesOf(k)' : \E j \in FramesOf(k) : chan'[i] = chan[j]
      BY <1>5, <1>7, <2>2
    <3> QED BY <3>1 DEF MemoryTrue
  <2> QED BY <2>1, <2>2
<1>11. TasksTrue'
  <2>1. PICK seq \in BOOLEAN : task' = [task EXCEPT ![Stream] =
          [Idle EXCEPT !.pc = "select", !.m = msg.m, !.ts = Stamp(msg), !.seq = seq]]
    BY <1>2 DEF Receive
  <2>2. task'[Stream].pc = "select" /\ task'[Stream].m = msg.m
    BY <1>1, <2>1 DEF TypeOK, Idle
  <2> QED BY <1>1, <1>5, <1>8, <2>2 DEF TasksTrue
<1>12. RowsTrue'
  <2> SUFFICES ASSUME NEW k \in Markets, NEW i \in DOMAIN rows[k]
               PROVE  /\ rows[k][i].n \in DOMAIN history[k]
                      /\ pos'[k] # 0 => rows[k][i].n <= pos'[k]
                      /\ \A j \in FramesOf(k)' : rows[k][i].n <= chan'[j].n
                      /\ \A j \in DOMAIN rows[k] : i < j => rows[k][i].n <= rows[k][j].n
                      /\ ~Incremental /\ used["bad"] = 0 =>
                            rows[k][i].book = history[k][rows[k][i].n]
    BY <1>3 DEF RowsTrue
  <2>1. CASE k = msg.m
    <3>1. rows[k][i].n <= msg.n
      BY <1>4, <2>1 DEF RowsTrue, FramesOf
    <3>2. pos'[k] # 0 => rows[k][i].n <= pos'[k]
      BY <1>5, <2>1, <3>1
    <3>3. \A j \in FramesOf(k)' : rows[k][i].n <= chan'[j].n
      BY <1>7 DEF RowsTrue
    <3> QED BY <3>2, <3>3 DEF RowsTrue
  <2>2. CASE k # msg.m
    BY <1>5, <1>7, <2>2 DEF RowsTrue
  <2> QED BY <2>1, <2>2
<1> QED BY <1>6, <1>10, <1>11, <1>12 DEF HistoryKept

\* A step that changes tasks only keeps all but TasksTrue.
LEMMA OnlyTasks ==
    ASSUME HistoryInv, UNCHANGED <<history, memory, wire, rows>>, used'["bad"] = used["bad"],
           TasksTrue'
    PROVE  HistoryKept
<1>1. UNCHANGED <<states, pos, missed, chan, connected, subscribed>>
  BY DEF memory, wire
<1>2. FramesTrue' /\ FramesOrdered' /\ DeltasFollow' /\ NewestSent'
  BY SMTT(30), <1>1 DEF HistoryInv, FramesTrue, FramesOrdered, DeltasFollow, NewestSent, FramesOf
<1>3. MemoryTrue' /\ RowsTrue'
  BY <1>1 DEF HistoryInv, MemoryTrue, RowsTrue, FramesOf
<1> QED BY <1>2, <1>3 DEF HistoryKept

LEMMA PollingKeepsHistory ==
    ASSUME HistoryInv, PollRound \/ \E m \in Pollers : Poll(m)
    PROVE  HistoryKept
<1> USE DEF HistoryInv
<1>1. TypeOK /\ OneWriter
  BY DEF CoverInv
<1>2. CASE PollRound
  <2>1. \A t \in Workers : task'[t] = IF t \in Pollers
                                       THEN [Idle EXCEPT !.pc = "request", !.m = t]
                                       ELSE task[t]
    BY <1>2 DEF PollRound
  <2>2. UNCHANGED <<history, memory, wire, rows, pos>> /\ used'["bad"] = used["bad"]
    BY <1>1, <1>2 DEF PollRound, Spend, TypeOK, Events, memory, database
  <2>3. TasksTrue'
    <3> SUFFICES ASSUME NEW t \in Workers,
                        task'[t].pc \in {"select", "insert", "answered"}
                 PROVE  task'[t] = task[t]
      BY <2>2 DEF TasksTrue
    <3> QED BY <2>1 DEF Idle
  <2> QED BY <2>2, <2>3, OnlyTasks
<1>3. ASSUME NEW m \in Pollers, PollAnswer(m) \/ PollFail(m) PROVE HistoryKept
  <2>1. m \in Workers /\ m \in Markets /\ task[m].m = m /\ task[m] \in Tasks
    BY <1>1, <1>3, WorkersAreNamed DEF OneWriter, PollAnswer, PollFail, TypeOK
  <2>2. UNCHANGED <<history, memory, wire, rows, pos, used>>
    BY <1>3 DEF PollAnswer, PollFail, memory, database
  <2>3. \A t \in Workers : t # m => task'[t] = task[t]
    BY <1>1, <1>3 DEF PollAnswer, PollFail, TypeOK
  <2>4. \/ task'[m].pc = "idle"
        \/ /\ task'[m].pc = "answered" /\ task'[m].m = m /\ task'[m].n = Len(history[m])
           /\ task'[m].levels = Exchange(m)
    BY <1>1, <1>3, <2>1 DEF PollAnswer, PollFail, TypeOK, Idle, Tasks
  <2>5. TasksTrue'
    <3>1. ASSUME task'[m].pc = "answered"
          PROVE  /\ task'[m].n \in DOMAIN history[m]
                 /\ task'[m].levels = history[m][task'[m].n]
                 /\ pos[m] <= task'[m].n
                 /\ \A i \in DOMAIN rows[m] : rows[m][i].n <= task'[m].n
      <4>1. Len(history[m]) \in DOMAIN history[m]
            /\ \A n \in DOMAIN history[m] : n <= Len(history[m])
        BY <1>1, <2>1, HistoryTyped
      <4>2. pos[m] <= Len(history[m])
        BY <2>1 DEF MemoryTrue
      <4>3. \A i \in DOMAIN rows[m] : rows[m][i].n <= Len(history[m])
        BY <2>1, <4>1 DEF RowsTrue
      <4> QED BY <2>4, <3>1, <4>1, <4>2, <4>3 DEF Exchange
    <3> QED BY SMTT(30), <2>2, <2>3, <2>4, <3>1 DEF TasksTrue
  <2> QED BY <2>2, <2>5, OnlyTasks
<1>4. ASSUME NEW m \in Pollers, PollApply(m) PROVE HistoryKept
  <2>1. /\ m \in Workers /\ m \in Markets /\ task[m].m = m /\ task[m] \in Tasks
        /\ task[m].pc = "answered" /\ chan = <<>>
    BY <1>1, <1>4, WorkersAreNamed, FallbackOnly DEF OneWriter, PollApply, TypeOK
  <2>2. /\ UNCHANGED <<history, missed, chan, connected, subscribed, rows, used>>
        /\ states' = [states EXCEPT ![m] = task[m].levels]
        /\ pos' = [pos EXCEPT ![m] = task[m].n]
        /\ task'[m].pc = "select" /\ task'[m].m = m
        /\ \A t \in Workers : t # m => task'[t] = task[t]
    BY <1>1, <1>4, <2>1 DEF PollApply, wire, database, TypeOK, Idle
  <2>3. DOMAIN chan = {} /\ \A k \in Markets : FramesOf(k) = {} /\ FramesOf(k)' = {}
    BY <2>1, <2>2 DEF FramesOf
  <2>4. FramesTrue' /\ FramesOrdered' /\ DeltasFollow'
    BY <2>2, <2>3 DEF FramesTrue, FramesOrdered, DeltasFollow
  <2>5. NewestSent'
    BY <1>1, <1>4, <2>2, FallbackOnly DEF OneWriter, NewestSent
  <2>6. /\ task[m].n \in DOMAIN history[m] /\ task[m].levels = history[m][task[m].n]
        /\ task[m].n \in Nat /\ task[m].n # 0 /\ task[m].n <= Len(history[m])
        /\ \A i \in DOMAIN rows[m] : rows[m][i].n <= task[m].n
    BY <1>1, <2>1, HistoryTyped DEF TasksTrue
  <2>7. /\ pos'[m] = task[m].n /\ states'[m] = task[m].levels
        /\ \A k \in Markets : k # m => pos'[k] = pos[k] /\ states'[k] = states[k]
    BY <1>1, <2>1, <2>2 DEF TypeOK
  <2>8. MemoryTrue'
    BY <2>2, <2>3, <2>6, <2>7 DEF MemoryTrue
  <2>9. RowsTrue'
    BY <2>2, <2>3, <2>6, <2>7 DEF RowsTrue
  <2>10. TasksTrue'
    <3>1. ASSUME NEW t \in Workers, t # m, task[t].pc # "idle"
          PROVE  task[t].m # m /\ task[t].m \in Markets
      BY <1>1, <2>1, <3>1, OneWorkerPerMarket DEF TypeOK
    <3>2. ASSUME NEW t \in Workers, t # m, task[t].pc # "idle"
          PROVE  task'[t] = task[t] /\ pos'[task[t].m] = pos[task[t].m]
      BY <2>2, <2>7, <3>1, <3>2
    <3> QED BY SMTT(30), <2>2, <2>6, <2>7, <3>2 DEF TasksTrue
  <2> QED BY <2>4, <2>5, <2>8, <2>9, <2>10 DEF HistoryKept
<1> QED BY <1>2, <1>3, <1>4 DEF Poll

LEMMA InsertKeepsHistory ==
    ASSUME HistoryInv, NEW t \in Workers, Insert(t)
    PROVE  HistoryKept
<1> USE DEF HistoryInv
<1>1. TypeOK /\ OneWriter /\ task[t] \in Tasks
  BY DEF CoverInv, TypeOK
<1>2. PICK m : m = task[t].m
  OBVIOUS
<1>3. /\ UNCHANGED <<history, states, pos, missed, chan, connected, subscribed, used>>
      /\ task' = [task EXCEPT ![t] = AfterPersist(t)] /\ task[t].pc = "insert"
  BY DEF Insert, memory, wire
<1>4. /\ m \in Markets
      /\ \A k \in Markets : k # m => rows'[k] = rows[k]
      /\ DOMAIN rows'[m] = 1 .. Len(rows[m]) + 1
      /\ \A i \in DOMAIN rows[m] : rows'[m][i] = rows[m][i]
      /\ rows'[m][Len(rows[m]) + 1] =
                [ts |-> task[t].ts, book |-> task[t].levels, n |-> task[t].n]
  BY SMTT(60), <1>1, <1>2, RowInserted
<1>5. /\ Len(rows[m]) \in Nat /\ DOMAIN rows[m] = 1 .. Len(rows[m])
      /\ \A i \in DOMAIN rows[m] : rows[m][i].n \in Nat
  BY <1>1, <1>4, RowsTyped
<1>6. /\ task[t].n = pos[m] /\ pos[m] # 0 /\ pos[m] \in Nat /\ pos[m] \in DOMAIN history[m]
      /\ task[t].levels = states[m]
  <2>1. task[t].n = pos[m] /\ pos[m] # 0 /\ pos[m] \in Nat /\ pos[m] <= Len(history[m])
    BY <1>1, <1>2, <1>3, <1>4 DEF TasksTrue, MemoryTrue, TypeOK
  <2>2. task[t].levels = states[m]
    BY <1>2, <1>3 DEF CoverInv, HandlersHold
  <2> QED BY <1>1, <1>4, <2>1, <2>2, HistoryTyped
<1>7. FramesTrue' /\ FramesOrdered' /\ DeltasFollow' /\ NewestSent' /\ MemoryTrue'
  <2>1. FramesTrue' /\ FramesOrdered' /\ DeltasFollow'
    BY <1>3 DEF FramesTrue, FramesOrdered, DeltasFollow
  <2>2. NewestSent' /\ MemoryTrue'
    BY <1>3 DEF NewestSent, MemoryTrue, FramesOf
  <2> QED BY <2>1, <2>2
<1>8. TasksTrue'
  <2>1. task'[t].pc \notin {"select", "insert", "answered"}
    BY <1>1, <1>3 DEF TypeOK, AfterPersist, Tasks, Idle
  <2>2. ASSUME NEW u \in Workers, u # t, task[u].pc # "idle"
        PROVE  task'[u] = task[u] /\ rows'[task[u].m] = rows[task[u].m]
    <3>1. task[u].m # m /\ task[u].m \in Markets
      BY <1>1, <1>2, <1>3, <2>2, OneWorkerPerMarket DEF TypeOK
    <3> QED BY <1>1, <1>3, <1>4, <2>2, <3>1 DEF TypeOK
  <2>3. \A u \in Workers : u # t => task'[u] = task[u]
    BY <1>1, <1>3 DEF TypeOK
  <2> QED BY <1>3, <2>1, <2>2, <2>3 DEF TasksTrue
<1>9. RowsTrue'
  <2> SUFFICES ASSUME NEW k \in Markets, NEW i \in DOMAIN rows'[k]
               PROVE  /\ rows'[k][i].n \in DOMAIN history[k]
                      /\ pos[k] # 0 => rows'[k][i].n <= pos[k]
                      /\ \A j \in FramesOf(k) : rows'[k][i].n <= chan[j].n
                      /\ \A j \in DOMAIN rows'[k] : i < j => rows'[k][i].n <= rows'[k][j].n
                      /\ ~Incremental /\ used["bad"] = 0 =>
                            rows'[k][i].book = history[k][rows'[k][i].n]
    BY <1>3 DEF RowsTrue, FramesOf
  <2>1. CASE k # m
    BY <1>4, <2>1 DEF RowsTrue
  <2>2. CASE k = m /\ i \in DOMAIN rows[m]
    <3>1. rows'[k][i] = rows[m][i]
      BY <1>4, <2>2
    <3>2. ASSUME NEW j \in DOMAIN rows'[k], i < j PROVE rows'[k][i].n <= rows'[k][j].n
      <4>1. CASE j \in DOMAIN rows[m]
        BY <1>4, <2>2, <3>1, <3>2, <4>1 DEF RowsTrue
      <4>2. CASE j \notin DOMAIN rows[m]
        <5>1. j = Len(rows[m]) + 1
          BY <1>4, <1>5, <2>2, <4>2
        <5>2. rows'[k][j].n = pos[m]
          BY <1>4, <1>6, <2>2, <5>1
        <5> QED BY <1>4, <1>6, <2>2, <3>1, <5>2 DEF RowsTrue
      <4> QED BY <4>1, <4>2
    <3> QED BY <1>4, <2>2, <3>1, <3>2 DEF RowsTrue
  <2>3. CASE k = m /\ i \notin DOMAIN rows[m]
    <3>1. i = Len(rows[m]) + 1 /\ \A j \in DOMAIN rows'[k] : ~(i < j)
      BY <1>4, <1>5, <2>3
    <3>2. rows'[k][i].n = pos[m] /\ rows'[k][i].book = states[m]
      BY <1>4, <1>6, <2>3, <3>1
    <3>3. \A j \in FramesOf(m) : pos[m] <= chan[j].n
      BY <1>4 DEF MemoryTrue
    <3>4. ~Incremental /\ used["bad"] = 0 => states[m] = history[m][pos[m]]
      BY <1>4, <1>6 DEF MemoryTrue
    <3>5. pos[m] <= pos[m]
      BY <1>6
    <3> QED BY <1>6, <2>3, <3>1, <3>2, <3>3, <3>4, <3>5
  <2> QED BY <2>1, <2>2, <2>3
<1> QED BY <1>7, <1>8, <1>9 DEF HistoryKept

LEMMA StatementsKeepHistory ==
    ASSUME HistoryInv, NEW t \in Workers, Statement(t) \/ DbError(t)
    PROVE  HistoryKept
<1>1. TypeOK /\ task[t] \in Tasks
  BY DEF HistoryInv, CoverInv, TypeOK
<1>2. CASE Insert(t)
  BY <1>2, InsertKeepsHistory
<1>3. CASE Select(t)
  <2>1. UNCHANGED <<history, memory, wire, rows, pos, used>>
    BY <1>3 DEF Select, memory, database
  <2>2. /\ \A u \in Workers : u # t => task'[u] = task[u]
        /\ \/ task'[t].pc \in {"idle", "checkpoint"}
           \/ task'[t].pc = "insert" /\ task'[t].m = task[t].m /\ task'[t].n = pos[task[t].m]
    BY <1>1, <1>3 DEF Select, TypeOK, AfterPersist, Idle, Tasks
  <2>3. pos[task[t].m] # 0
    BY <1>3 DEF Select, TasksTrue, HistoryInv
  <2>4. TasksTrue'
    BY <2>1, <2>2, <2>3 DEF TasksTrue, HistoryInv
  <2> QED BY <2>1, <2>4, OnlyTasks
<1>4. CASE Checkpoint(t) \/ DbError(t)
  <2>1. UNCHANGED <<history, memory, wire, rows, pos>> /\ used'["bad"] = used["bad"]
    BY <1>1, <1>4 DEF Checkpoint, DbError, memory, database, Spend, TypeOK, Events
  <2>2. /\ \A u \in Workers : u # t => task'[u] = task[u]
        /\ task'[t].pc = "idle"
    BY <1>1, <1>4 DEF Checkpoint, DbError, TypeOK, Idle
  <2>3. TasksTrue'
    BY <2>1, <2>2 DEF TasksTrue, HistoryInv
  <2> QED BY <2>1, <2>3, OnlyTasks
<1> QED BY <1>2, <1>3, <1>4 DEF Statement

LEMMA NextHistory == HistoryInv /\ [Next]_vars => HistoryInv'
<1> SUFFICES ASSUME HistoryInv, [Next]_vars PROVE HistoryInv'
  OBVIOUS
<1>1. CoverInv'
  BY NextCovered DEF HistoryInv
<1>2. CASE Exchanging
  BY <1>1, <1>2, ExchangeKeepsHistory DEF Exchanging, HistoryKept, HistoryInv
<1>3. CASE Connect \/ Disconnect \/ (\E m \in Markets : Subscribe(m)) \/ Crash
  BY <1>1, <1>3, ConnectionKeepsHistory, SubscribeKeepsHistory DEF HistoryKept, HistoryInv
<1>4. CASE Receive \/ Discard
  BY <1>1, <1>4, ReceiveKeepsHistory, DiscardKeepsHistory DEF HistoryKept, HistoryInv
<1>5. CASE PollRound \/ \E m \in Pollers : Poll(m)
  BY <1>1, <1>5, PollingKeepsHistory DEF HistoryKept, HistoryInv
<1>6. CASE \E t \in Workers : Statement(t) \/ DbError(t)
  BY <1>1, <1>6, StatementsKeepHistory DEF HistoryKept, HistoryInv
<1>7. CASE UNCHANGED vars
  <2>1. UNCHANGED <<history, memory, wire, rows, task, pos, used>>
    BY <1>7 DEF vars, memory, database
  <2>2. TasksTrue'
    BY <2>1 DEF TasksTrue, HistoryInv
  <2>3. HistoryKept
    BY <2>1, <2>2, OnlyTasks
  <2> QED BY <1>1, <2>3 DEF HistoryKept, HistoryInv
<1> QED BY <1>2, <1>3, <1>4, <1>5, <1>6, <1>7 DEF Next

\* Frames, memory, handlers and rows are positions of one history, each behind the
\* one it is fed from: the invariant CaughtUp and OrderedHistory follow from.
THEOREM Positions == Spec => []HistoryInv
<1>1. Init => HistoryInv
  BY InitHistory
<1>2. HistoryInv /\ [Next]_vars => HistoryInv'
  BY NextHistory
<1> QED BY <1>1, <1>2, PTL DEF Spec

\* Where delta_fp is the new quantity, losing, cutting off and resuming the stream of a
\* market never leaves memory with a book other than the exchange's once the frames
\* in flight are handled, unless a frame was discarded since the last snapshot.
THEOREM MemoryCatchesUp == ASSUME ~Incremental PROVE Spec => []CaughtUp
<1>1. HistoryInv => CaughtUp
  <2> SUFFICES ASSUME HistoryInv, NEW m \in subscribed, ~missed[m],
                      \A i \in DOMAIN chan : chan[i].m # m
               PROVE  states[m] = Exchange(m)
    BY DEF CaughtUp
  <2>1. m \in Markets /\ TypeOK
    BY DEF HistoryInv, CoverInv, TypeOK
  <2>2. FramesOf(m) = {}
    BY DEF FramesOf
  <2>3. pos[m] = Len(history[m])
    BY <2>2 DEF HistoryInv, NewestSent
  <2>4. Len(history[m]) # 0
    BY <2>1, HistoryTyped
  <2> QED BY <2>1, <2>3, <2>4 DEF HistoryInv, MemoryTrue, Exchange
<1> QED BY <1>1, Positions, PTL

\* Where delta_fp is the new quantity, the rows of a market are books it had, in the
\* order it had them, whatever was lost, failed or restarted in between.
THEOREM RowsFollowHistory == ASSUME ~Incremental PROVE Spec => []OrderedHistory
<1>1. HistoryInv => OrderedHistory
  BY DEF HistoryInv, RowsTrue, OrderedHistory
<1> QED BY <1>1, Positions, PTL

------------------------------------------------------------------------------
(* TurnInv is inductive where changes come in turn *)

TurnKept == (FramesAlone /\ TasksNewer /\ RowsStamped /\ ChangeOnly)'

\* Of rows in strictly ascending order of time, the latest is the last.
LEMMA LatestIsLast ==
    ASSUME NEW s \in Seq(Rows), \A i, j \in DOMAIN s : i < j => s[i].ts < s[j].ts
    PROVE  \A i \in DOMAIN s : (\A j \in DOMAIN s : s[j].ts <= s[i].ts) <=> i = Len(s)
<1>1. DOMAIN s = 1 .. Len(s) /\ Len(s) \in Nat
  BY LenProperties
<1>2. \A i \in DOMAIN s : s[i].ts \in Nat
  <2>1. \A i \in 1 .. Len(s) : s[i] \in Rows
    BY ElementOfSeq
  <2> QED BY <1>1, <2>1 DEF Rows
<1> SUFFICES ASSUME NEW i \in DOMAIN s
             PROVE  (\A j \in DOMAIN s : s[j].ts <= s[i].ts) <=> i = Len(s)
  OBVIOUS
<1>3. ASSUME i # Len(s) PROVE ~(\A j \in DOMAIN s : s[j].ts <= s[i].ts)
  <2>1. Len(s) \in DOMAIN s /\ i < Len(s)
    BY <1>1, <1>3
  <2>2. s[i].ts < s[Len(s)].ts
    BY <2>1
  <2> QED BY <1>2, <2>1, <2>2
<1>4. ASSUME i = Len(s) PROVE \A j \in DOMAIN s : s[j].ts <= s[i].ts
  <2> SUFFICES ASSUME NEW j \in DOMAIN s PROVE s[j].ts <= s[i].ts
    OBVIOUS
  <2>1. CASE j = i
    BY <1>2, <2>1
  <2>2. CASE j < i
    BY <1>2, <2>2
  <2> QED BY <1>1, <1>4, <2>1, <2>2
<1> QED BY <1>3, <1>4

\* The two ways changes come in turn.
LEMMA Modes ==
    ASSUME InTurn, TypeOK, OneWriter
    PROVE  \/ WsAvailable /\ Prompt /\ Workers = {Stream} /\ Pollers = {}
           \/ /\ ~WsAvailable /\ DOMAIN chan = {} /\ ~connected /\ subscribed = {}
              /\ task[Stream].pc = "idle"
BY FallbackOnly DEF InTurn, OneWriter, Workers

LEMMA InitTurn == Init => TurnInv
<1> SUFFICES ASSUME Init PROVE TurnInv
  OBVIOUS
<1>1. DOMAIN chan = {} /\ \A m \in Markets : DOMAIN rows[m] = {}
  BY DEF Init
<1>2. task = [t \in Workers |-> Idle] /\ ~connected
  BY DEF Init
<1>3. FramesAlone /\ TasksNewer /\ RowsStamped /\ ChangeOnly
  BY <1>1, <1>2 DEF FramesAlone, TasksNewer, RowsStamped, ChangeOnly, Idle
<1> QED BY <1>3, InitHistory DEF TurnInv

\* A step that moves one task on, and no new SELECT, keeps the frames alone.
LEMMA TaskMoves ==
    ASSUME TurnInv, NEW t \in Workers, NEW a, task' = [task EXCEPT ![t] = a],
           UNCHANGED <<wire, rows, clock>>,
           a.m \in {task[t].m, None}, a.pc = "idle" => a.m = None,
           a.pc \in {"select", "insert"} =>
             /\ task[t].pc \in {"select", "insert"}
             /\ a.m = task[t].m /\ a.ts = task[t].ts,
           a.pc = "insert" =>
             \A i \in DOMAIN rows[task[t].m] :
                i = Len(rows[task[t].m]) => rows[task[t].m][i].book # a.levels
    PROVE  TurnKept
<1> USE DEF TurnInv
<1>1. TypeOK
  BY DEF HistoryInv, CoverInv
<1>2. task'[t] = a /\ \A u \in Workers : u # t => task'[u] = task[u]
  BY <1>1 DEF TypeOK
<1>3. UNCHANGED <<chan, connected, subscribed, rows, clock>>
  BY DEF wire
<1>4. \A i \in DOMAIN chan : chan[i].m # None
  BY <1>1, FrameTyped, NamesAssumption
<1>5. Stream \in Workers
  BY DEF Workers
<1>6. FramesAlone'
  <2>1. task'[Stream].m \in {task[Stream].m, None}
    BY <1>2, <1>5
  <2>2. \A u \in Workers : task'[u].pc = "idle" => task'[u].m = None
    BY <1>2 DEF FramesAlone
  <2>3. \A i \in DOMAIN chan : task'[Stream].m # chan[i].m
    BY <1>4, <2>1 DEF FramesAlone
  <2>4. connected => task'[Stream].m \in subscribed \cup {None}
    BY <2>1 DEF FramesAlone
  <2> QED BY <1>3, <2>2, <2>3, <2>4 DEF FramesAlone, HasOwnTs
<1>7. TasksNewer'
  BY <1>2, <1>3 DEF TasksNewer
<1>8. RowsStamped' /\ ChangeOnly'
  BY <1>3 DEF RowsStamped, ChangeOnly
<1> QED BY <1>6, <1>7, <1>8 DEF TurnKept

LEMMA ExchangeInTurn ==
    ASSUME InTurn, TurnInv, NEW m \in Markets, NEW l \in Levels, NEW q \in 0 .. MaxQty,
           ExchangeChange(m, l, q)
    PROVE  TurnKept
<1> USE DEF TurnInv
<1>1. TypeOK /\ OneWriter
  BY DEF HistoryInv, CoverInv
<1>2. /\ UNCHANGED <<task, connected, subscribed, rows>>
      /\ clock \in Nat /\ clock' \in Nat /\ clock <= clock'
  BY <1>1 DEF ExchangeChange, memory, database, TypeOK
<1>3. \A k \in Markets : \A i \in DOMAIN rows[k] : rows[k][i].ts \in Nat
  BY <1>1, RowsTyped
<1>4. RowsStamped' /\ ChangeOnly'
  BY <1>2, <1>3 DEF RowsStamped, ChangeOnly
<1>5. TasksNewer'
  <2>1. \A t \in Workers : task[t].ts \in Nat
    BY <1>1 DEF TypeOK, Tasks
  <2>2. \A t \in Workers : task[t].pc \in {"select", "insert"} => task[t].ts <= clock'
    BY <1>2, <2>1 DEF TasksNewer
  <2> QED BY <1>2, <2>2 DEF TasksNewer
<1>6. ASSUME NEW i \in DOMAIN chan
      PROVE  HasOwnTs(chan[i]) => chan[i].ts \in Nat /\ chan[i].ts <= clock'
  <2>1. chan[i] \in Messages
    BY <1>1, FrameTyped
  <2>2. HasOwnTs(chan[i]) => chan[i].ts \in Nat /\ chan[i].ts <= clock
    BY <2>1 DEF HasOwnTs, Messages, FramesAlone
  <2> QED BY <1>2, <2>2
<1>7. FramesAlone'
  <2>1. CASE m \notin subscribed
    <3>1. chan' = chan
      BY <2>1 DEF ExchangeChange
    <3> QED BY <1>2, <1>6, <3>1 DEF FramesAlone, HasOwnTs
  <2>2. CASE m \in subscribed
    <3>1. WsAvailable /\ Prompt
      BY <1>1, <2>2, Modes
    <3>2. /\ \A i \in DOMAIN chan : chan[i].m # m
          /\ task[Stream].m # m /\ clock' = clock + 1
      BY <3>1 DEF ExchangeChange, Quiet, Workers
    <3>3. PICK f \in Messages : /\ chan' = Append(chan, f)
                                /\ f.type = "delta" /\ f.m = m /\ f.ts \in {NoTs, clock'}
      BY <1>1, <2>2, ChangeIsSent
    <3> DEFINE new == Len(chan) + 1
    <3>4. /\ \A i \in DOMAIN chan : i # new /\ chan'[i] = chan[i]
          /\ chan'[new] = f
          /\ \A i \in DOMAIN chan' : i = new \/ i \in DOMAIN chan
      BY <1>1, <3>3, FrameSent
    <3> HIDE DEF new
    <3>5. HasOwnTs(f) => /\ f.ts <= clock'
                         /\ \A k \in DOMAIN rows[m] : rows[m][k].ts < f.ts
      <4>1. \A k \in DOMAIN rows[m] : rows[m][k].ts < clock'
        BY <1>2, <1>3, <3>2 DEF RowsStamped
      <4> QED BY <1>2, <3>3, <4>1 DEF HasOwnTs
    <3>6. ASSUME NEW i \in DOMAIN chan'
          PROVE  /\ \A j \in DOMAIN chan' : j # i => chan'[j].m # chan'[i].m
                 /\ task[Stream].m # chan'[i].m
                 /\ HasOwnTs(chan'[i]) =>
                      /\ chan'[i].ts <= clock'
                      /\ \A k \in DOMAIN rows[chan'[i].m] :
                            rows[chan'[i].m][k].ts < chan'[i].ts
      <4>1. CASE i = new
        BY <3>2, <3>3, <3>4, <3>5, <4>1
      <4>2. CASE i \in DOMAIN chan
        <5>1. chan'[i] = chan[i] /\ i # new /\ chan[i].m # m
          BY <3>2, <3>4, <4>2
        <5>2. /\ \A j \in DOMAIN chan : j # i => chan[j].m # chan[i].m
              /\ task[Stream].m # chan[i].m
              /\ HasOwnTs(chan[i]) =>
                   \A k \in DOMAIN rows[chan[i].m] : rows[chan[i].m][k].ts < chan[i].ts
          BY <4>2 DEF FramesAlone
        <5>3. \A j \in DOMAIN chan' : j # i => chan'[j].m # chan'[i].m
          BY <3>3, <3>4, <5>1, <5>2
        <5>4. HasOwnTs(chan[i]) => chan[i].ts <= clock'
          BY <1>6, <4>2
        <5> QED BY <5>1, <5>2, <5>3, <5>4
      <4> QED BY <3>4, <4>1, <4>2
    <3> QED BY <1>2, <3>6 DEF FramesAlone, HasOwnTs
  <2> QED BY <2>1, <2>2
<1> QED BY <1>4, <1>5, <1>7 DEF TurnKept

LEMMA ConnectionInTurn ==
    ASSUME InTurn, TurnInv,
           Connect \/ Disconnect \/ Discard \/ Crash \/ UNCHANGED vars
    PROVE  TurnKept
<1> USE DEF TurnInv
<1>1. TypeOK
  BY DEF HistoryInv, CoverInv
<1>2. Stream \in Workers
  BY DEF Workers
<1>3. ASSUME UNCHANGED <<task, rows, clock, subscribed>>, connected' => connected,
             \A i \in DOMAIN chan' : \E j \in DOMAIN chan : chan'[i] = chan[j],
             \A i, j \in DOMAIN chan' : i # j => chan'[i].m # chan'[j].m
      PROVE  FramesAlone'
  BY <1>3 DEF FramesAlone, HasOwnTs
<1>4. CASE Connect
  <2>1. UNCHANGED <<task, rows, clock, subscribed>> /\ DOMAIN chan' = {}
    BY <1>4 DEF Connect, database
  <2>2. task[Stream].m = None
    BY <1>2, <1>4 DEF Connect, FramesAlone
  <2>3. FramesAlone'
    BY <2>1, <2>2 DEF FramesAlone
  <2> QED BY <2>1, <2>3 DEF TurnKept, TasksNewer, RowsStamped, ChangeOnly
<1>5. CASE Disconnect
  <2>1. UNCHANGED <<task, rows, clock>> /\ ~connected'
    BY <1>5 DEF Disconnect, database
  <2>2. \A i \in DOMAIN chan' : i \in DOMAIN chan /\ chan'[i] = chan[i]
    BY <1>1, <1>5, FramesLost
  <2>3. FramesAlone'
    BY <2>1, <2>2 DEF FramesAlone, HasOwnTs
  <2> QED BY <2>1, <2>3 DEF TurnKept, TasksNewer, RowsStamped, ChangeOnly
<1>6. CASE Discard
  <2>1. UNCHANGED <<task, rows, clock, connected, subscribed>>
    BY <1>6 DEF Discard, database
  <2>2. \A i \in DOMAIN chan' : i + 1 \in DOMAIN chan /\ chan'[i] = chan[i + 1] /\ i \in Nat
    BY <1>1, <1>6, FrameTaken DEF Discard
  <2>3. \A i, j \in DOMAIN chan' : i # j => chan'[i].m # chan'[j].m
    <3> SUFFICES ASSUME NEW i \in DOMAIN chan', NEW j \in DOMAIN chan', i # j
                 PROVE  chan'[i].m # chan'[j].m
      OBVIOUS
    <3>1. i + 1 # j + 1
      BY <2>2
    <3> QED BY <2>2, <3>1 DEF FramesAlone
  <2>4. FramesAlone'
    BY <2>1, <2>2, <2>3 DEF FramesAlone, HasOwnTs
  <2> QED BY <2>1, <2>4 DEF TurnKept, TasksNewer, RowsStamped, ChangeOnly
<1>7. CASE Crash
  <2>1. UNCHANGED <<rows, clock>> /\ ~connected' /\ DOMAIN chan' = {}
        /\ task' = [t \in Workers |-> Idle]
    BY <1>7 DEF Crash, database
  <2>2. FramesAlone' /\ TasksNewer'
    BY <2>1 DEF FramesAlone, TasksNewer, Idle
  <2> QED BY <2>1, <2>2 DEF TurnKept, RowsStamped, ChangeOnly
<1>8. CASE UNCHANGED vars
  BY <1>8 DEF vars, wire, database, TurnKept, FramesAlone, TasksNewer, RowsStamped,
              ChangeOnly, HasOwnTs
<1> QED BY <1>4, <1>5, <1>6, <1>7, <1>8

LEMMA SubscribeInTurn ==
    ASSUME InTurn, TurnInv, NEW m \in Markets, Subscribe(m)
    PROVE  TurnKept
<1> USE DEF TurnInv
<1>1. TypeOK
  BY DEF HistoryInv, CoverInv
<1>2. /\ UNCHANGED <<task, rows, clock, connected>> /\ connected
      /\ m \notin subscribed /\ subscribed' = subscribed \cup {m}
  BY DEF Subscribe, database
<1> DEFINE f == Snapshot(m)
           new == Len(chan) + 1
<1>3. f \in Messages /\ f.m = m /\ f.type = "snapshot" /\ chan' = Append(chan, f)
  BY <1>1, ExchangeIsABook DEF Snapshot, Messages, Exchange, Subscribe
<1> HIDE DEF f
<1>4. /\ \A i \in DOMAIN chan : i # new /\ chan'[i] = chan[i]
      /\ chan'[new] = f
      /\ \A i \in DOMAIN chan' : i = new \/ i \in DOMAIN chan
  BY <1>1, <1>3, FrameSent
<1> HIDE DEF new
<1>5. \A i \in DOMAIN chan : chan[i].m # m
  BY <1>2 DEF HistoryInv, FramesOrdered
<1>6. task[Stream].m # m
  BY <1>2, NamesAssumption DEF FramesAlone
<1>7. ASSUME NEW i \in DOMAIN chan'
      PROVE  /\ \A j \in DOMAIN chan' : j # i => chan'[j].m # chan'[i].m
             /\ task[Stream].m # chan'[i].m
             /\ HasOwnTs(chan'[i]) =>
                  /\ chan'[i].ts <= clock
                  /\ \A k \in DOMAIN rows[chan'[i].m] : rows[chan'[i].m][k].ts < chan'[i].ts
  <2>1. CASE i = new
    BY <1>3, <1>4, <1>5, <1>6, <2>1 DEF HasOwnTs
  <2>2. CASE i \in DOMAIN chan
    BY SMTT(30), <1>3, <1>4, <1>5, <2>2 DEF FramesAlone
  <2> QED BY <1>4, <2>1, <2>2
<1>8. FramesAlone'
  BY <1>2, <1>7 DEF FramesAlone, HasOwnTs
<1> QED BY <1>2, <1>8 DEF TurnKept, TasksNewer, RowsStamped, ChangeOnly

LEMMA ReceiveInTurn == ASSUME InTurn, TurnInv, Receive PROVE TurnKept
<1> USE DEF TurnInv
<1>1. TypeOK /\ Workers = {Stream}
  BY FallbackOnly DEF HistoryInv, CoverInv, OneWriter, Receive, Workers
<1>2. PICK msg : msg = Head(chan)
  OBVIOUS
<1>3. /\ UNCHANGED <<rows, connected, subscribed>>
      /\ clock' = IF HasOwnTs(msg) THEN clock ELSE clock + 1
      /\ chan # <<>> /\ chan' = Tail(chan)
  BY <1>2 DEF Receive, database
<1>4. /\ 1 \in DOMAIN chan /\ msg = chan[1]
      /\ \A i \in DOMAIN chan' : /\ i + 1 \in DOMAIN chan /\ chan'[i] = chan[i + 1]
                                 /\ i \in Nat /\ i # 0
  BY <1>1, <1>2, <1>3, FrameTaken
<1>5. msg \in Messages /\ msg.m \in Markets
  BY <1>1, <1>4, FrameTyped
<1>6. PICK seq \in BOOLEAN : task' = [task EXCEPT ![Stream] =
          [Idle EXCEPT !.pc = "select", !.m = msg.m, !.ts = Stamp(msg), !.seq = seq]]
  BY <1>2 DEF Receive
<1>7. task'[Stream].pc = "select" /\ task'[Stream].m = msg.m /\ task'[Stream].ts = Stamp(msg)
  BY <1>1, <1>6 DEF TypeOK, Idle
<1>8. /\ clock \in Nat /\ clock' \in Nat /\ clock <= clock'
      /\ Stamp(msg) \in Nat /\ Stamp(msg) <= clock'
      /\ \A k \in DOMAIN rows[msg.m] : rows[msg.m][k].ts < Stamp(msg)
  <2>1. \A k \in DOMAIN rows[msg.m] : rows[msg.m][k].ts \in Nat /\ rows[msg.m][k].ts <= clock
    BY <1>1, <1>5, RowsTyped DEF RowsStamped
  <2>2. CASE HasOwnTs(msg)
    BY <1>1, <1>3, <1>4, <1>5, <2>2 DEF Stamp, HasOwnTs, Messages, TypeOK, FramesAlone
  <2>3. CASE ~HasOwnTs(msg)
    BY <1>1, <1>3, <2>1, <2>3 DEF Stamp, TypeOK
  <2> QED BY <2>2, <2>3
<1>9. TasksNewer'
  BY <1>1, <1>3, <1>7, <1>8 DEF TasksNewer
<1>10. RowsStamped' /\ ChangeOnly'
  <2>1. \A k \in Markets : \A i \in DOMAIN rows[k] : rows[k][i].ts \in Nat
    BY <1>1, RowsTyped
  <2> QED BY <1>3, <1>8, <2>1 DEF RowsStamped, ChangeOnly
<1>11. ASSUME NEW i \in DOMAIN chan'
       PROVE  /\ \A j \in DOMAIN chan' : j # i => chan'[j].m # chan'[i].m
              /\ msg.m # chan'[i].m
              /\ HasOwnTs(chan'[i]) =>
                   /\ chan'[i].ts <= clock'
                   /\ \A k \in DOMAIN rows[chan'[i].m] : rows[chan'[i].m][k].ts < chan'[i].ts
  <2>1. chan'[i] = chan[i + 1] /\ i + 1 \in DOMAIN chan /\ i + 1 # 1
    BY <1>4
  <2>2. \A j \in DOMAIN chan' : j # i => j + 1 # i + 1 /\ j + 1 \in DOMAIN chan
                                          /\ chan'[j] = chan[j + 1]
    BY <1>4
  <2>3. chan[i + 1] \in Messages
    BY <1>1, <2>1, FrameTyped
  <2>4. HasOwnTs(chan[i + 1]) => chan[i + 1].ts <= clock'
    BY <1>8, <2>1, <2>3 DEF FramesAlone, HasOwnTs, Messages
  <2>5. FramesAlone
    OBVIOUS
  <2> QED BY <1>4, <2>1, <2>2, <2>4, <2>5 DEF FramesAlone
<1>12. FramesAlone'
  <2>1. connected' => task'[Stream].m \in subscribed' \cup {None}
    BY <1>3, <1>4, <1>7 DEF HistoryInv, FramesOrdered
  <2>2. \A t \in Workers : task'[t].pc = "idle" => task'[t].m = None
    BY <1>1, <1>7
  <2> QED BY <1>3, <1>7, <1>11, <2>1, <2>2 DEF FramesAlone, HasOwnTs
<1> QED BY <1>9, <1>10, <1>12 DEF TurnKept

LEMMA PollingInTurn ==
    ASSUME InTurn, TurnInv, PollRound \/ \E m \in Pollers : Poll(m)
    PROVE  TurnKept
<1> USE DEF TurnInv
<1>1. TypeOK /\ OneWriter
  BY DEF HistoryInv, CoverInv
<1>2. \A m \in Pollers : m \in Workers /\ m # Stream /\ m \in Markets /\ m # None
  BY WorkersAreNamed, NamesAssumption
<1>3. Pollers # {} => DOMAIN chan = {} /\ ~connected
  BY <1>1, FallbackOnly DEF OneWriter
<1>4. CASE PollRound
  <2>1. UNCHANGED <<chan, connected, subscribed, rows, clock>> /\ DOMAIN chan = {} /\ ~connected
    BY <1>3, <1>4 DEF PollRound, wire, database
  <2>2. \A t \in Workers : task'[t] = IF t \in Pollers
                                       THEN [Idle EXCEPT !.pc = "request", !.m = t]
                                       ELSE task[t]
    BY <1>4 DEF PollRound
  <2>3. \A t \in Workers : task'[t].pc = "request" \/ task'[t] = task[t]
    BY <2>2 DEF Idle
  <2>4. FramesAlone'
    BY <2>1, <2>2, <2>3 DEF FramesAlone
  <2>5. TasksNewer'
    BY <2>1, <2>3 DEF TasksNewer
  <2>6. RowsStamped' /\ ChangeOnly'
    BY <2>1 DEF RowsStamped, ChangeOnly
  <2> QED BY <2>4, <2>5, <2>6 DEF TurnKept
<1>5. ASSUME NEW m \in Pollers, PollAnswer(m) PROVE TurnKept
  <2> DEFINE a == [task[m] EXCEPT !.pc = "answered", !.levels = Exchange(m),
                                  !.n = Len(history[m])]
  <2>1. task' = [task EXCEPT ![m] = a] /\ UNCHANGED <<wire, rows, clock>>
    BY <1>1, <1>2, <1>5 DEF PollAnswer, database, TypeOK
  <2>2. a.m = task[m].m /\ a.pc = "answered"
    BY <1>1, <1>2 DEF TypeOK, Tasks
  <2> HIDE DEF a
  <2> QED BY <1>2, <2>1, <2>2, TaskMoves
<1>6. ASSUME NEW m \in Pollers, PollFail(m) PROVE TurnKept
  <2>1. task' = [task EXCEPT ![m] = Idle] /\ UNCHANGED <<wire, rows, clock>>
        /\ Idle.m = None /\ Idle.pc = "idle"
    BY <1>6 DEF PollFail, database, Idle
  <2> QED BY <1>2, <2>1, TaskMoves
<1>7. ASSUME NEW m \in Pollers, PollApply(m) PROVE TurnKept
  <2>1. /\ UNCHANGED <<chan, connected, subscribed, rows>> /\ DOMAIN chan = {} /\ ~connected
        /\ clock \in Nat /\ clock' = clock + 1
        /\ task' = [task EXCEPT ![m] = [Idle EXCEPT !.pc = "select", !.m = m, !.ts = clock + 1]]
    BY <1>1, <1>3, <1>7 DEF PollApply, wire, database, TypeOK
  <2>2. /\ task'[m].pc = "select" /\ task'[m].m = m /\ task'[m].ts = clock + 1
        /\ \A t \in Workers : t # m => task'[t] = task[t]
    BY <1>1, <1>2, <2>1 DEF TypeOK, Idle
  <2>3. \A k \in Markets : \A i \in DOMAIN rows[k] : rows[k][i].ts \in Nat
    BY <1>1, RowsTyped
  <2>4. FramesAlone'
    BY <2>1, <2>2 DEF FramesAlone
  <2>5. RowsStamped' /\ ChangeOnly'
    BY <2>1, <2>3 DEF RowsStamped, ChangeOnly
  <2>6. TasksNewer'
    <3>1. \A t \in Workers : task[t].ts \in Nat
      BY <1>1 DEF TypeOK, Tasks
    <3>2. \A t \in Workers : task[t].pc \in {"select", "insert"} => task[t].ts <= clock'
      BY <2>1, <3>1 DEF TasksNewer
    <3>3. clock + 1 <= clock' /\ \A i \in DOMAIN rows[m] : rows[m][i].ts < clock + 1
      BY <1>2, <2>1, <2>3 DEF RowsStamped
    <3> SUFFICES ASSUME NEW t \in Workers
                 PROVE  /\ task'[t].pc \in {"select", "insert"} =>
                             /\ task'[t].ts <= clock'
                             /\ \A i \in DOMAIN rows[task'[t].m] :
                                   rows[task'[t].m][i].ts < task'[t].ts
                        /\ task'[t].pc = "insert" =>
                             \A i \in DOMAIN rows[task'[t].m] :
                                i = Len(rows[task'[t].m]) =>
                                  rows[task'[t].m][i].book # task'[t].levels
      BY <2>1 DEF TasksNewer
    <3>4. CASE t = m
      BY <2>2, <3>3, <3>4
    <3>5. CASE t # m
      BY <2>2, <3>2, <3>5 DEF TasksNewer
    <3> QED BY <3>4, <3>5
  <2> QED BY <2>4, <2>5, <2>6 DEF TurnKept
<1> QED BY <1>4, <1>5, <1>6, <1>7 DEF Poll

\* SELECT finds the last row of the market, and nothing when it has none.
LEMMA LastIsFound ==
    ASSUME TypeOK, RowsStamped, NEW m \in Markets
    PROVE  /\ \A r \in LatestRows(m) : Len(rows[m]) \in DOMAIN rows[m]
                                       /\ r = rows[m][Len(rows[m])]
           /\ DOMAIN rows[m] # {} => rows[m][Len(rows[m])] \in LatestRows(m)
<1>1. PICK s : s = rows[m]
  OBVIOUS
<1>2. s \in Seq(Rows) /\ \A i, j \in DOMAIN s : i < j => s[i].ts < s[j].ts
  BY <1>1 DEF TypeOK, RowsStamped
<1>3. \A i \in DOMAIN s : (\A j \in DOMAIN s : s[j].ts <= s[i].ts) <=> i = Len(s)
  BY <1>2, LatestIsLast
<1>4. DOMAIN s # {} => Len(s) \in DOMAIN s
  BY <1>2, LenProperties
<1> QED BY <1>1, <1>3, <1>4 DEF LatestRows

LEMMA InsertInTurn ==
    ASSUME InTurn, TurnInv, NEW t \in Workers, Insert(t)
    PROVE  TurnKept
<1> USE DEF TurnInv
<1>1. TypeOK /\ OneWriter /\ task[t] \in Tasks
  BY DEF HistoryInv, CoverInv, TypeOK
<1>2. PICK m : m = task[t].m
  OBVIOUS
<1>3. /\ UNCHANGED <<chan, connected, subscribed, clock>>
      /\ task' = [task EXCEPT ![t] = AfterPersist(t)] /\ task[t].pc = "insert"
  BY DEF Insert, wire
<1>4. /\ m \in Markets
      /\ \A k \in Markets : k # m => rows'[k] = rows[k]
      /\ DOMAIN rows'[m] = 1 .. Len(rows[m]) + 1
      /\ \A i \in DOMAIN rows[m] : rows'[m][i] = rows[m][i]
      /\ rows'[m][Len(rows[m]) + 1] =
                [ts |-> task[t].ts, book |-> task[t].levels, n |-> task[t].n]
  BY SMTT(60), <1>1, <1>2, RowInserted
<1>5. Len(rows[m]) \in Nat /\ DOMAIN rows[m] = 1 .. Len(rows[m])
  BY <1>1, <1>4, RowsTyped
<1>6. /\ task'[t].m \in {m, None} /\ task'[t].pc \in {"idle", "checkpoint"}
      /\ task'[t].pc = "idle" => task'[t].m = None
      /\ \A u \in Workers : u # t => task'[u] = task[u]
  BY <1>1, <1>2, <1>3 DEF TypeOK, AfterPersist, Tasks, Idle
<1>7. \A u \in Workers : u # t /\ task[u].pc # "idle" => task[u].m # m /\ task[u].m \in Markets
  BY <1>1, <1>2, <1>3, OneWorkerPerMarket DEF TypeOK
<1>8. TasksNewer'
  <2>1. \A u \in Workers : u # t /\ task[u].pc # "idle" =>
           task'[u] = task[u] /\ rows'[task[u].m] = rows[task[u].m]
    BY <1>4, <1>6, <1>7
  <2> QED BY SMTT(30), <1>3, <1>6, <2>1 DEF TasksNewer
<1>9. ASSUME NEW i \in DOMAIN chan
      PROVE  chan[i].m # m /\ chan[i].m \in Markets /\ chan[i].m # None
  <2>1. t = Stream
    BY <1>1, <1>9, Modes DEF Workers
  <2> QED BY <1>1, <1>2, <2>1, FrameTyped, NamesAssumption DEF FramesAlone
<1>10. FramesAlone'
  <2>1. Stream \in Workers
    BY DEF Workers
  <2>2. task'[Stream].m \in {task[Stream].m, None}
    BY <1>2, <1>6, <2>1
  <2>3. connected => task'[Stream].m \in subscribed \cup {None}
    BY <2>2 DEF FramesAlone
  <2>4. \A u \in Workers : task'[u].pc = "idle" => task'[u].m = None
    BY <1>6 DEF FramesAlone
  <2>5. \A i \in DOMAIN chan : /\ rows'[chan[i].m] = rows[chan[i].m]
                               /\ task'[Stream].m # chan[i].m
    BY <1>4, <1>9, <2>2 DEF FramesAlone
  <2> QED BY <1>3, <2>3, <2>4, <2>5 DEF FramesAlone, HasOwnTs
<1>11. /\ task[t].ts <= clock
       /\ \A i \in DOMAIN rows[m] : rows[m][i].ts < task[t].ts
       /\ \A i \in DOMAIN rows[m] : i = Len(rows[m]) => rows[m][i].book # task[t].levels
  BY <1>2, <1>3 DEF TasksNewer
<1>12. RowsStamped'
  <2> SUFFICES ASSUME NEW k \in Markets, NEW i \in DOMAIN rows'[k]
               PROVE  /\ rows'[k][i].ts <= clock
                      /\ \A j \in DOMAIN rows'[k] : i < j => rows'[k][i].ts < rows'[k][j].ts
    BY <1>3 DEF RowsStamped
  <2>1. CASE k # m
    BY <1>4, <2>1 DEF RowsStamped
  <2>2. CASE k = m /\ i \in DOMAIN rows[m]
    <3>1. rows'[k][i] = rows[m][i] /\ rows[m][i].ts <= clock
      BY <1>4, <2>2 DEF RowsStamped
    <3>2. ASSUME NEW j \in DOMAIN rows'[k], i < j PROVE rows'[k][i].ts < rows'[k][j].ts
      <4>1. CASE j \in DOMAIN rows[m]
        BY <1>4, <2>2, <3>1, <3>2, <4>1 DEF RowsStamped
      <4>2. CASE j \notin DOMAIN rows[m]
        <5>1. j = Len(rows[m]) + 1
          BY <1>4, <1>5, <2>2, <4>2
        <5> QED BY <1>4, <1>11, <2>2, <3>1, <5>1
      <4> QED BY <4>1, <4>2
    <3> QED BY <3>1, <3>2
  <2>3. CASE k = m /\ i \notin DOMAIN rows[m]
    <3>1. i = Len(rows[m]) + 1 /\ \A j \in DOMAIN rows'[k] : ~(i < j)
      BY <1>4, <1>5, <2>3
    <3> QED BY <1>4, <1>11, <2>3, <3>1
  <2> QED BY <2>1, <2>2, <2>3
<1>13. ChangeOnly'
  <2> SUFFICES ASSUME NEW k \in Markets, NEW i \in DOMAIN rows'[k], i + 1 \in DOMAIN rows'[k]
               PROVE  rows'[k][i].book # rows'[k][i + 1].book
    BY DEF ChangeOnly
  <2>1. CASE k # m
    BY <1>4, <2>1 DEF ChangeOnly
  <2>2. CASE k = m /\ i + 1 \in DOMAIN rows[m]
    <3>1. i \in DOMAIN rows[m] /\ rows[m][i].book # rows[m][i + 1].book
      BY <1>4, <1>5, <2>2 DEF ChangeOnly
    <3> QED BY <1>4, <2>2, <3>1
  <2>3. CASE k = m /\ i + 1 \notin DOMAIN rows[m]
    <3>1. i = Len(rows[m]) /\ i \in DOMAIN rows[m]
      BY <1>4, <1>5, <2>3
    <3> QED BY <1>4, <1>11, <2>3, <3>1
  <2> QED BY <2>1, <2>2, <2>3
<1> QED BY <1>8, <1>10, <1>12, <1>13 DEF TurnKept

LEMMA StatementsInTurn ==
    ASSUME InTurn, TurnInv, NEW t \in Workers, Statement(t) \/ DbError(t)
    PROVE  TurnKept
<1> USE DEF TurnInv
<1>1. TypeOK /\ task[t] \in Tasks /\ Idle.m = None /\ Idle.pc = "idle"
  BY DEF HistoryInv, CoverInv, TypeOK, Idle
<1>2. CASE Insert(t)
  BY <1>2, InsertInTurn
<1>3. CASE Select(t)
  <2> DEFINE m == task[t].m
             a == [task[t] EXCEPT !.pc = "insert", !.levels = states[m], !.n = pos[m]]
             c == AfterPersist(t)
  <2>1. UNCHANGED <<wire, rows, clock>> /\ task[t].pc = "select" /\ m \in Markets
    BY <1>1, <1>3 DEF Select, database, TypeOK
  <2>2. CASE task' = [task EXCEPT ![t] = c]
    <3>1. c.m \in {m, None} /\ (c.pc = "idle" => c.m = None) /\ c.pc \in {"idle", "checkpoint"}
      BY <1>1 DEF AfterPersist, Tasks
    <3> HIDE DEF c
    <3> QED BY <2>1, <2>2, <3>1, TaskMoves
  <2>3. CASE /\ task' = [task EXCEPT ![t] = a]
             /\ rows[m] = <<>> \/ \E r \in LatestRows(m) : r.book # states[m]
    <3>1. a.m = m /\ a.ts = task[t].ts /\ a.pc = "insert" /\ a.levels = states[m]
      BY <1>1 DEF Tasks
    <3>2. \A i \in DOMAIN rows[m] : i = Len(rows[m]) => rows[m][i].book # states[m]
      BY <1>1, <2>1, <2>3, LastIsFound
    <3> HIDE DEF a
    <3> QED BY <2>1, <2>3, <3>1, <3>2, TaskMoves
  <2>4. \/ task' = [task EXCEPT ![t] = c]
        \/ /\ task' = [task EXCEPT ![t] = a]
           /\ rows[m] = <<>> \/ \E r \in LatestRows(m) : r.book # states[m]
    BY <1>1, <1>3 DEF Select, TypeOK
  <2> QED BY <2>2, <2>3, <2>4
<1>4. CASE Checkpoint(t) \/ DbError(t)
  <2>1. task' = [task EXCEPT ![t] = Idle] /\ UNCHANGED <<wire, rows, clock>>
    BY <1>4 DEF Checkpoint, DbError, database
  <2> QED BY <1>1, <2>1, TaskMoves
<1> QED BY <1>2, <1>3, <1>4 DEF Statement

LEMMA NextTurn == ASSUME InTurn, TurnInv, [Next]_vars PROVE TurnInv'
<1>1. HistoryInv'
  BY NextHistory DEF TurnInv
<1>2. TurnKept
  <2>1. CASE Exchanging
    BY <2>1, ExchangeInTurn DEF Exchanging
  <2>2. CASE Connect \/ Disconnect \/ Discard \/ Crash \/ UNCHANGED vars
    BY <2>2, ConnectionInTurn
  <2>3. CASE \E m \in Markets : Subscribe(m)
    BY <2>3, SubscribeInTurn
  <2>4. CASE Receive
    BY <2>4, ReceiveInTurn
  <2>5. CASE PollRound \/ \E m \in Pollers : Poll(m)
    BY <2>5, PollingInTurn
  <2>6. CASE \E t \in Workers : Statement(t) \/ DbError(t)
    BY <2>6, StatementsInTurn
  <2> QED BY <2>1, <2>2, <2>3, <2>4, <2>5, <2>6 DEF Next
<1> QED BY <1>1, <1>2 DEF TurnInv, TurnKept

\* Where changes come in turn, stamps ascend in insertion order and a handler holds
\* something newer than, and different from, the last row.
LEMMA TurnsKept == ASSUME InTurn PROVE Spec => []TurnInv
<1>1. Init => TurnInv
  BY InitTurn
<1>2. TurnInv /\ [Next]_vars => TurnInv'
  BY NextTurn
<1> QED BY <1>1, <1>2, PTL DEF Spec

\* Where changes come in turn, no two consecutive rows of a market hold the same book,
\* whatever connection, statement or process is lost (schema.md: "a row is only written
\* when the book differs").  ob_repeated_row shows the hypothesis is needed.
THEOREM NoRepeatedRow == ASSUME InTurn PROVE Spec => []ChangeOnly
<1>1. TurnInv => ChangeOnly
  BY DEF TurnInv
<1> QED BY <1>1, TurnsKept, PTL

\* Where changes come in turn, a handler that ends without an error leaves its book as
\* what ORDER BY kalshi_ts DESC LIMIT 1 returns, also after failed statements of earlier
\* handlers, lost connections and restarts.
THEOREM HandlersStore == ASSUME InTurn PROVE Spec => HandlerStores
<1>1. ASSUME TurnInv, TurnInv', [Next]_vars, NEW t \in Workers, NEW m \in Markets,
             task[t].m = m, task[t].pc \in {"select", "insert"},
             task'[t].pc \notin {"select", "insert"}, used' = used
      PROVE  rows'[m] # <<>> /\ \A r \in LatestRows(m)' : r.book = states'[m]
  <2>1. TypeOK /\ TypeOK' /\ OneWriter /\ RowsStamped /\ RowsStamped'
    BY <1>1 DEF TurnInv, HistoryInv, CoverInv
  <2>2. ASSUME NEW e \in Events, NEW b, Spend(e, b) PROVE FALSE
    BY <1>1, <2>1, <2>2 DEF Spend, TypeOK
  <2>3. Select(t) \/ Insert(t)
    <3>1. \A u \in Workers : Select(u) \/ Insert(u) \/ Checkpoint(u) =>
             \A w \in Workers : w # u => task'[w] = task[w]
      BY <2>1 DEF Select, Insert, Checkpoint, TypeOK
    <3>2. ASSUME NEW u \in Workers, Statement(u) PROVE Select(t) \/ Insert(t)
      <4>1. u = t
        BY <1>1, <3>1, <3>2 DEF Statement
      <4> QED BY <1>1, <3>2, <4>1 DEF Statement, Checkpoint
    <3>3. ASSUME \E u \in Workers : DbError(u) PROVE FALSE
      BY <2>2, <3>3 DEF DbError, Events
    <3>4. ASSUME Exchanging \/ Disconnect \/ Discard \/ PollRound \/ Crash PROVE FALSE
      BY <2>2, <3>4 DEF Exchanging, ExchangeChange, Disconnect, Discard, PollRound, Crash, Events
    <3>5. ASSUME Connect \/ (\E k \in Markets : Subscribe(k)) \/ UNCHANGED vars PROVE FALSE
      BY <1>1, <3>5 DEF Connect, Subscribe, vars
    <3>6. ASSUME Receive PROVE FALSE
      <4>1. Workers = {Stream} /\ task[Stream].pc = "idle"
        BY <2>1, <3>6, FallbackOnly DEF OneWriter, Receive, Workers
      <4> QED BY <1>1, <4>1
    <3>7. ASSUME NEW k \in Pollers, Poll(k) PROVE FALSE
      <4>1. task[k].pc \in {"request", "answered"} /\ k \in Workers
            /\ \A w \in Workers : w # k => task'[w] = task[w]
        BY <2>1, <3>7, WorkersAreNamed DEF Poll, PollAnswer, PollFail, PollApply, TypeOK
      <4> QED BY <1>1, <4>1
    <3> QED BY <1>1, <3>2, <3>3, <3>4, <3>5, <3>6, <3>7 DEF Next
  <2>4. PICK s : s = rows'[m]
    OBVIOUS
  <2>5. s \in Seq(Rows) /\ \A i, j \in DOMAIN s : i < j => s[i].ts < s[j].ts
    BY <2>1, <2>4 DEF TypeOK, RowsStamped
  <2>6. \A i \in DOMAIN s : (\A j \in DOMAIN s : s[j].ts <= s[i].ts) <=> i = Len(s)
    BY <2>5, LatestIsLast
  <2>7. SUFFICES Len(s) \in DOMAIN s /\ s[Len(s)].book = states'[m]
    <3>1. s # <<>>
      BY <2>7
    <3> QED BY <2>4, <2>6, <2>7, <3>1 DEF LatestRows
  <2>8. CASE Insert(t)
    <3>1. Len(rows[m]) \in Nat /\ DOMAIN rows[m] = 1 .. Len(rows[m])
      BY <2>1, RowsTyped
    <3>2. /\ Len(s) = Len(rows[m]) + 1 /\ DOMAIN s = 1 .. Len(rows[m]) + 1
          /\ s[Len(rows[m]) + 1].book = task[t].levels
      <4>1. PICK k : k = task[t].m
        OBVIOUS
      <4>2. /\ DOMAIN rows'[k] = 1 .. Len(rows[k]) + 1
            /\ rows'[k][Len(rows[k]) + 1] =
                 [ts |-> task[t].ts, book |-> task[t].levels, n |-> task[t].n]
        BY <2>1, <2>8, <4>1, RowInserted
      <4>3. k = m /\ Len(s) \in Nat /\ DOMAIN s = 1 .. Len(s)
        BY <1>1, <2>5, <4>1, LenProperties
      <4> QED BY <2>4, <3>1, <4>2, <4>3
    <3>3. task[t].levels = states[m] /\ states' = states
      BY <1>1, <2>8 DEF TurnInv, HistoryInv, CoverInv, HandlersHold, Insert, memory
    <3> QED BY <3>1, <3>2, <3>3
  <2>9. CASE Select(t)
    <3>1. rows' = rows /\ states' = states
      BY <2>9 DEF Select, memory, database
    <3>2. \E r \in LatestRows(m) : r.book = states[m]
      <4> DEFINE a == [task[t] EXCEPT !.pc = "insert", !.levels = states[m], !.n = pos[m]]
      <4>1. task' # [task EXCEPT ![t] = a]
        <5>1. task[t] \in Tasks /\ t \in DOMAIN task
          BY <2>1 DEF TypeOK
        <5>2. a.pc = "insert"
          BY <5>1 DEF Tasks
        <5> QED BY <1>1, <5>1, <5>2
      <4>2. \/ \E r \in LatestRows(m) : r.book = states[m]
            \/ task' = [task EXCEPT ![t] = a]
        BY <1>1, <2>1, <2>9 DEF Select, TypeOK
      <4> QED BY <4>1, <4>2
    <3> QED BY <2>1, <2>4, <3>1, <3>2, LastIsFound
  <2> QED BY <2>3, <2>8, <2>9
<1>2. TurnInv /\ TurnInv' /\ [Next]_vars
        => [\A t \in Workers, m \in Markets :
              (/\ task[t].m = m /\ task[t].pc \in {"select", "insert"}
               /\ task'[t].pc \notin {"select", "insert"}
               /\ used' = used)
                => rows'[m] # <<>> /\ \A r \in LatestRows(m)' : r.book = states'[m]]_vars
  BY <1>1
<1> QED BY <1>2, TurnsKept, PTL DEF Spec, HandlerStores

------------------------------------------------------------------------------
(* The table implements the change log *)

\* The log of a sequence of rows, and what ChangeLog's variable log is read as.
EntriesOf(s) == [i \in DOMAIN s |-> [n |-> s[i].n, book |-> s[i].book]]
Entries == [n : Nat, book : HeldBooks]
LogOf == [m \in Markets |-> EntriesOf(rows[m])]

LEMMA RowsAreEntries ==
    ASSUME NEW s \in Seq(Rows)
    PROVE  EntriesOf(s) \in Seq(Entries) /\ Len(EntriesOf(s)) = Len(s)
<1>1. Len(s) \in Nat /\ DOMAIN s = 1 .. Len(s) /\ \A i \in 1 .. Len(s) : s[i] \in Rows
  BY LenProperties, ElementOfSeq
<1>2. \A i \in DOMAIN s : [n |-> s[i].n, book |-> s[i].book] \in Entries
  BY <1>1 DEF Rows, Entries
<1>3. EntriesOf(s) \in [1 .. Len(s) -> Entries]
  BY <1>1, <1>2 DEF EntriesOf
<1>4. EntriesOf(s) \in Seq(Entries)
  BY <1>1, <1>3, SeqDef
<1>5. DOMAIN EntriesOf(s) = 1 .. Len(EntriesOf(s)) /\ Len(EntriesOf(s)) \in Nat
  BY <1>4, LenProperties
<1>6. Len(EntriesOf(s)) = Len(s)
  BY <1>1, <1>3, <1>5
<1> QED BY <1>4, <1>6

\* A row appended is its entry appended.
LEMMA RowAppended ==
    ASSUME NEW s \in Seq(Rows), NEW r \in Rows
    PROVE  EntriesOf(Append(s, r)) = Append(EntriesOf(s), [n |-> r.n, book |-> r.book])
<1> DEFINE t == Append(s, r)
           ls == EntriesOf(s)
           lt == EntriesOf(t)
           e == [n |-> r.n, book |-> r.book]
<1>1. t \in Seq(Rows) /\ Len(t) = Len(s) + 1 /\ Len(s) \in Nat
      /\ (\A i \in 1 .. Len(s) : t[i] = s[i]) /\ t[Len(s) + 1] = r
      /\ DOMAIN s = 1 .. Len(s) /\ DOMAIN t = 1 .. Len(s) + 1
  BY AppendProperties, LenProperties
<1> HIDE DEF t
<1>2. ls \in Seq(Entries) /\ Len(ls) = Len(s) /\ lt \in Seq(Entries) /\ Len(lt) = Len(t)
  BY <1>1, RowsAreEntries
<1>3. e \in Entries
  BY DEF Rows, Entries
<1>4. /\ \A i \in 1 .. Len(s) : lt[i] = ls[i]
      /\ lt[Len(s) + 1] = e
  BY <1>1 DEF EntriesOf
<1> HIDE DEF ls, lt, e
<1>5. /\ Append(ls, e) \in Seq(Entries) /\ Len(Append(ls, e)) = Len(s) + 1
      /\ (\A i \in 1 .. Len(s) : Append(ls, e)[i] = ls[i]) /\ Append(ls, e)[Len(s) + 1] = e
  BY <1>2, <1>3, AppendProperties
<1>6. \A i \in 1 .. Len(s) + 1 : lt[i] = Append(ls, e)[i]
  BY <1>1, <1>4, <1>5
<1>7. lt = Append(ls, e)
  BY <1>1, <1>2, <1>5, <1>6, SeqEqual
<1> QED BY <1>7 DEF ls, lt, e, t

LEMMA LogInit == Init => Log!Init
<1> SUFFICES ASSUME Init PROVE Log!Init
  OBVIOUS
<1>1. \A m \in Markets : rows[m] = <<>>
  BY DEF Init
<1>2. EntriesOf(<<>>) = <<>>
  <2>1. <<>> \in Seq(Rows) /\ Len(<<>>) = 0
    BY EmptySeq
  <2>2. EntriesOf(<<>>) \in Seq(Entries) /\ Len(EntriesOf(<<>>)) = 0
    BY <2>1, RowsAreEntries
  <2> QED BY <2>2, EmptySeq
<1>3. LogOf = [m \in Markets |-> <<>>]
  BY <1>1, <1>2 DEF LogOf
<1> QED BY <1>3 DEF Init, Log!Init, LogOf, EntriesOf

LEMMA LogStep ==
    ASSUME TurnInv, ~Incremental, used["bad"] = 0, [Next]_vars
    PROVE  [Log!Next]_(Log!vars)
<1>1. TypeOK /\ RowsTrue /\ RowsStamped /\ MemoryTrue /\ TasksTrue /\ HandlersHold
      /\ TasksNewer
  BY DEF TurnInv, HistoryInv, CoverInv
<1>2. ASSUME NEW t \in Workers, Insert(t) PROVE Log!Next
  <2>1. PICK m : m = task[t].m
    OBVIOUS
  <2> DEFINE r == [ts |-> task[t].ts, book |-> task[t].levels, n |-> task[t].n]
  <2>2. m \in Markets /\ rows[m] \in Seq(Rows) /\ r \in Rows /\ task[t].pc = "insert"
        /\ history' = history
    BY <1>1, <1>2, <2>1 DEF TypeOK, Insert, Tasks, Rows
  <2>3. rows' = [rows EXCEPT ![m] = Append(rows[m], r)]
    BY <1>2, <2>1 DEF Insert
  <2>4. /\ pos[m] \in DOMAIN history[m] /\ task[t].n = pos[m]
        /\ task[t].levels = history[m][pos[m]]
        /\ \A i \in DOMAIN rows[m] : rows[m][i].n <= pos[m]
    <3>1. /\ task[t].n = pos[m] /\ pos[m] # 0 /\ pos[m] \in Nat /\ pos[m] <= Len(history[m])
          /\ states[m] = history[m][pos[m]]
      BY <1>1, <2>1, <2>2 DEF TasksTrue, MemoryTrue, TypeOK
    <3>2. task[t].levels = states[m] /\ \A i \in DOMAIN rows[m] : rows[m][i].n <= pos[m]
      BY <1>1, <2>1, <2>2, <3>1 DEF HandlersHold, RowsTrue
    <3>3. pos[m] \in DOMAIN history[m]
      BY <1>1, <2>2, <3>1, HistoryTyped
    <3> QED BY <3>1, <3>2, <3>3
  <2>5. \A i \in DOMAIN rows[m] : i = Len(rows[m]) => rows[m][i].book # history[m][pos[m]]
    BY <1>1, <2>1, <2>2, <2>4 DEF TasksNewer
  <2>6. LogOf[m] \in Seq(Entries) /\ Len(LogOf[m]) = Len(rows[m])
    BY <2>2, RowsAreEntries DEF LogOf
  <2>7. LogOf[m] # <<>> => /\ LogOf[m][Len(LogOf[m])].n <= pos[m]
                           /\ LogOf[m][Len(LogOf[m])].book # history[m][pos[m]]
    <3>1. LogOf[m] # <<>> => Len(rows[m]) \in DOMAIN rows[m]
      BY <2>2, <2>6, LenProperties, EmptySeq
    <3>2. \A i \in DOMAIN rows[m] : LogOf[m][i].n = rows[m][i].n
                                    /\ LogOf[m][i].book = rows[m][i].book
      BY <2>2 DEF LogOf, EntriesOf
    <3> QED BY <2>4, <2>5, <2>6, <3>1, <3>2
  <2>8. LogOf' = [LogOf EXCEPT ![m] = Append(@, [n |-> pos[m], book |-> history[m][pos[m]]])]
    <3>1. LogOf'[m] = Append(LogOf[m], [n |-> pos[m], book |-> history[m][pos[m]]])
      <4>1. rows'[m] = Append(rows[m], r) /\ r.n = pos[m] /\ r.book = history[m][pos[m]]
        BY <1>1, <2>2, <2>3, <2>4 DEF TypeOK
      <4> HIDE DEF r
      <4>2. EntriesOf(Append(rows[m], r)) =
              Append(EntriesOf(rows[m]), [n |-> r.n, book |-> r.book])
        BY <2>2, RowAppended
      <4> QED BY <2>2, <4>1, <4>2 DEF LogOf
    <3>2. \A k \in Markets : k # m => LogOf'[k] = LogOf[k]
      BY <2>3 DEF LogOf, TypeOK
    <3>3. LogOf' \in [Markets -> {LogOf'[k] : k \in Markets}] /\ DOMAIN LogOf = Markets
      BY DEF LogOf
    <3> HIDE DEF r
    <3> QED BY <2>2, <3>1, <3>2, <3>3
  <2>9. Log!Record(m)
    <3>1. Log!MayFollow(m, pos[m])
      BY <2>7 DEF Log!MayFollow, LogOf, EntriesOf
    <3> QED BY <2>2, <2>4, <2>8, <3>1 DEF Log!Record, LogOf, EntriesOf
  <2> QED BY <2>2, <2>9 DEF Log!Next
<1>3. ASSUME NEW m \in Markets, NEW l \in Levels, NEW q \in 0 .. MaxQty, ExchangeChange(m, l, q)
      PROVE  Log!Next
  <2>1. Exchange(m) \in Books
    BY <1>1, ExchangeIsABook
  <2>2. PICK b : b = [Exchange(m) EXCEPT ![l] = q]
    OBVIOUS
  <2>3. b \in Books /\ b # history[m][Len(history[m])]
    BY <1>3, <2>1, <2>2 DEF Books, ExchangeChange, Exchange
  <2>4. history' = [history EXCEPT ![m] = Append(@, b)] /\ UNCHANGED rows
    BY <1>3, <2>2 DEF ExchangeChange, database
  <2>5. Log!Change(m)
    BY <2>3, <2>4 DEF Log!Change
  <2> QED BY <2>5 DEF Log!Next
<1>4. ASSUME UNCHANGED <<history, rows>> PROVE UNCHANGED Log!vars
  BY <1>4 DEF Log!vars
<1>5. CASE Connect \/ Disconnect \/ (\E m \in Markets : Subscribe(m)) \/ Receive \/ Discard
           \/ PollRound \/ Crash \/ UNCHANGED vars
  BY <1>4, <1>5 DEF Connect, Disconnect, Subscribe, Receive, Discard, PollRound, Crash, vars,
                    database
<1>6. CASE \E m \in Pollers : Poll(m)
  BY <1>4, <1>6 DEF Poll, PollAnswer, PollFail, PollApply, database
<1>7. CASE \E t \in Workers : Select(t) \/ Checkpoint(t) \/ DbError(t)
  BY <1>4, <1>7 DEF Select, Checkpoint, DbError, database
<1> QED BY <1>2, <1>3, <1>5, <1>6, <1>7 DEF Next, Statement, Exchanging

\* The table refines ChangeLog where the exchange behaves as the code takes it to: a
\* delta_fp is the new quantity, a market's changes come in turn, and every frame
\* parses.  Disconnections, failed statements and crashes are all allowed.
THEOREM TableIsAChangeLog ==
    ASSUME InTurn, ~Incremental, MaxBad = 0
    PROVE  Spec => ImplementsChangeLog
<1> DEFINE NoneBad == used["bad"] = 0
<1>1. Init => NoneBad
  BY DEF Init, Events
<1>2. TypeOK /\ NoneBad /\ [Next]_vars => NoneBad'
  <2> SUFFICES ASSUME TypeOK, NoneBad, [Next]_vars PROVE NoneBad'
    OBVIOUS
  <2>1. ASSUME NEW e \in Events, NEW b, e # "bad", Spend(e, b) PROVE NoneBad'
    BY <2>1 DEF Spend, TypeOK, Events
  <2>2. ~Discard
    BY DEF Discard, Spend
  <2>3. CASE Exchanging \/ Disconnect \/ PollRound \/ Crash \/ \E t \in Workers : DbError(t)
    BY <2>1, <2>3 DEF Exchanging, ExchangeChange, Disconnect, PollRound, Crash, DbError, Events
  <2>4. CASE Connect \/ (\E m \in Markets : Subscribe(m)) \/ Receive \/ UNCHANGED vars
    BY <2>4 DEF Connect, Subscribe, Receive, vars
  <2>5. CASE \E m \in Pollers : Poll(m)
    BY <2>5 DEF Poll, PollAnswer, PollFail, PollApply
  <2>6. CASE \E t \in Workers : Statement(t)
    BY <2>6 DEF Statement, Select, Insert, Checkpoint
  <2> QED BY <2>2, <2>3, <2>4, <2>5, <2>6 DEF Next
<1>3. TurnInv /\ NoneBad /\ [Next]_vars => [Log!Next]_(Log!vars)
  BY LogStep
<1>4. TurnInv => TypeOK
  BY DEF TurnInv, HistoryInv, CoverInv
<1>5. Init => Log!Init
  BY LogInit
<1> HIDE DEF NoneBad
<1> QED BY <1>1, <1>2, <1>3, <1>4, <1>5, TurnsKept, PTL DEF Spec, ImplementsChangeLog, Log!Spec

=============================================================================
