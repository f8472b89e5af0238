----------------------- MODULE OrderbookPipelineProofs -----------------------
(***************************************************************************)
(* Theorems about OrderbookPipeline, for every set of markets and levels,  *)
(* every bound and both values of Prompt and Incremental.                  *)
(***************************************************************************)
EXTENDS OrderbookPipeline, SequenceTheorems, TLAPS

(* Books *)

LEMMA EmptyIsABook == Empty \in Books /\ Empty \in HeldBooks
BY BoundsAssumption DEF Empty, Books, HeldBooks

LEMMA BooksAreHeld == Books \subseteq HeldBooks
BY BoundsAssumption DEF Books, HeldBooks

LEMMA IdleIsATask == Idle \in Tasks
BY EmptyIsABook DEF Idle, Tasks, Pcs

LEMMA ExchangeIsABook ==
    ASSUME TypeOK, NEW m \in Markets
    PROVE  Exchange(m) \in Books /\ Len(history[m]) \in Nat
<1>1. history[m] \in Seq(Books) /\ history[m] # <<>>
  BY DEF TypeOK
<1>2. Len(history[m]) \in 1 .. Len(history[m])
  BY <1>1
<1> QED BY <1>1, <1>2 DEF Exchange

LEMMA WorkersAreNamed == ASSUME NEW t \in Pollers PROVE t \in Markets /\ t \in Workers
BY FallbackOnly DEF Workers

\* What a well-typed frame leaves in memory is a held book.
LEMMA AppliedIsHeld ==
    ASSUME TypeOK, NEW msg \in Messages
    PROVE  msg.m \in Markets /\ msg.n \in Nat /\ Applied(msg) \in HeldBooks
           /\ Stamp(msg) \in Nat
<1>1. CASE msg.type = "snapshot"
  BY <1>1, BooksAreHeld DEF Messages, Applied, Stamp, HasOwnTs, TypeOK
<1>2. CASE msg.type # "snapshot"
  <2>1. msg.m \in Markets /\ msg.level \in Levels /\ msg.fp \in -MaxQty .. MaxQty
        /\ msg.ts \in Nat /\ msg.n \in Nat
    BY <1>2 DEF Messages
  <2>2. states[msg.m] \in HeldBooks
    BY <2>1 DEF TypeOK
  <2>3. [states[msg.m] EXCEPT ![msg.level] = msg.fp] \in HeldBooks
    BY <2>1, <2>2 DEF HeldBooks
  <2> QED BY <1>2, <2>1, <2>3 DEF Applied, ApplyDelta, Stamp, HasOwnTs, TypeOK
<1> QED BY <1>1, <1>2

------------------------------------------------------------------------------
(* Type correctness *)

LEMMA InitTypeOK == Init => TypeOK
<1> SUFFICES ASSUME Init PROVE TypeOK
  OBVIOUS
<1>1. history \in [Markets -> Seq(Books)] /\ \A m \in Markets : history[m] # <<>>
  <2>1. history \in [Markets -> {<<b>> : b \in Books}]
    BY DEF Init
  <2>2. \A b \in Books : <<b>> \in Seq(Books) /\ <<b>> # <<>>
    OBVIOUS
  <2> QED BY <2>1, <2>2
<1>2. states \in [Markets -> HeldBooks]
  BY EmptyIsABook DEF Init
<1>4. checkpoint \in [Markets -> [n : Nat, book : HeldBooks]]
  BY EmptyIsABook DEF Init, NoCheckpoint
<1>3. task \in [Workers -> Tasks] /\ \A t \in Workers : task[t].pc # "idle" => task[t].m \in Markets
  BY IdleIsATask DEF Init, Idle
<1>5. rows \in [Markets -> Seq(Rows)] /\ chan \in Seq(Messages)
  BY DEF Init
<1> QED BY <1>1, <1>2, <1>3, <1>4, <1>5 DEF Init, TypeOK

\* Spending a bounded event keeps the counters natural numbers.
LEMMA SpendIsTyped ==
    ASSUME TypeOK, NEW e \in Events, NEW b, Spend(e, b)
    PROVE  used' \in [Events -> Nat]
BY DEF TypeOK, Spend

LEMMA ExchangingTyped ==
    ASSUME TypeOK, NEW m \in Markets, NEW l \in Levels, NEW q \in 0 .. MaxQty,
           ExchangeChange(m, l, q)
    PROVE  TypeOK'
<1>1. used' \in [Events -> Nat]
  BY SpendIsTyped DEF ExchangeChange, Events
<1>2. Exchange(m) \in Books /\ Len(history[m]) \in Nat
  BY ExchangeIsABook
<1>3. [Exchange(m) EXCEPT ![l] = q] \in Books
  BY <1>2 DEF Books
<1>4. history' \in [Markets -> Seq(Books)] /\ \A k \in Markets : history'[k] # <<>>
  <2>1. Append(history[m], [Exchange(m) EXCEPT ![l] = q]) \in Seq(Books)
        /\ Append(history[m], [Exchange(m) EXCEPT ![l] = q]) # <<>>
    <3>1. history[m] \in Seq(Books)
      BY DEF TypeOK
    <3> QED BY <1>3, <3>1, AppendProperties
  <2>2. history' = [history EXCEPT ![m] = Append(history[m], [Exchange(m) EXCEPT ![l] = q])]
    BY DEF ExchangeChange
  <2> QED BY <2>1, <2>2 DEF TypeOK
<1>5. clock' \in Nat
  BY DEF TypeOK, ExchangeChange
<1>6. \A ts \in {NoTs, clock'} : \A fp \in -MaxQty .. MaxQty :
         Delta(m, l, fp, ts, Len(history[m]) + 1) \in Messages
  BY <1>2, <1>5 DEF Delta, Messages, NoTs
<1>7. (IF Incremental THEN q - Exchange(m)[l] ELSE q) \in -MaxQty .. MaxQty
  BY <1>2, BoundsAssumption DEF Books
<1>8. chan' \in Seq(Messages)
  <2>1. CASE m \in subscribed
    <3>1. PICK ts \in {NoTs, clock'} :
             chan' = Append(chan, Delta(m, l, IF Incremental THEN q - Exchange(m)[l] ELSE q,
                                        ts, Len(history[m]) + 1))
      BY <2>1 DEF ExchangeChange
    <3> QED BY <1>6, <1>7, <3>1 DEF TypeOK
  <2>2. CASE m \notin subscribed
    BY <2>2 DEF TypeOK, ExchangeChange
  <2> QED BY <2>1, <2>2
<1> QED BY <1>1, <1>4, <1>5, <1>8 DEF TypeOK, ExchangeChange, memory, database

\* A task that a handler moves to its next await stays a task.
LEMMA TaskStepIsTyped ==
    ASSUME TypeOK, NEW t \in Workers, NEW a \in Tasks, a.pc # "idle" => a.m \in Markets,
           task' = [task EXCEPT ![t] = a]
    PROVE  task' \in [Workers -> Tasks]
           /\ \A u \in Workers : task'[u].pc # "idle" => task'[u].m \in Markets
BY DEF TypeOK

LEMMA ReceiveTyped == ASSUME TypeOK, Receive PROVE TypeOK'
<1> DEFINE msg == Head(chan)
<1>1. msg \in Messages /\ chan' \in Seq(Messages)
  BY HeadTailProperties DEF TypeOK, Receive
<1>2. msg.m \in Markets /\ msg.n \in Nat /\ Applied(msg) \in HeldBooks /\ Stamp(msg) \in Nat
  BY <1>1, AppliedIsHeld
<1>3. PICK seq \in BOOLEAN : task' = [task EXCEPT ![Stream] =
          [Idle EXCEPT !.pc = "select", !.m = msg.m, !.ts = Stamp(msg), !.seq = seq]]
  BY DEF Receive
<1>4. [Idle EXCEPT !.pc = "select", !.m = msg.m, !.ts = Stamp(msg), !.seq = seq] \in Tasks
  BY <1>2, EmptyIsABook DEF Idle, Tasks, Pcs
<1>5. task' \in [Workers -> Tasks]
      /\ \A u \in Workers : task'[u].pc # "idle" => task'[u].m \in Markets
  <2>1. [Idle EXCEPT !.pc = "select", !.m = msg.m, !.ts = Stamp(msg), !.seq = seq].m = msg.m
    BY DEF Idle
  <2> QED BY <1>2, <1>3, <1>4, <2>1, TaskStepIsTyped DEF Workers
<1>6. states' \in [Markets -> HeldBooks] /\ pos' \in [Markets -> Nat]
      /\ missed' \in [Markets -> BOOLEAN] /\ clock' \in Nat
  BY <1>2 DEF TypeOK, Receive
<1> QED BY <1>1, <1>5, <1>6 DEF TypeOK, Receive, database

LEMMA DiscardTyped == ASSUME TypeOK, Discard PROVE TypeOK'
<1>1. chan' \in Seq(Messages)
  BY HeadTailProperties DEF TypeOK, Discard
<1>2. used' \in [Events -> Nat]
  BY SpendIsTyped DEF Discard, Events
<1>3. missed' \in [Markets -> BOOLEAN]
  BY DEF TypeOK, Discard
<1> QED BY <1>1, <1>2, <1>3 DEF TypeOK, Discard, database

LEMMA ConnectionTyped ==
    ASSUME TypeOK,
           Connect \/ Disconnect \/ (\E m \in Markets : Subscribe(m)) \/ Crash
    PROVE  TypeOK'
<1>1. CASE Connect
  BY <1>1 DEF TypeOK, Connect, memory, database
<1>2. CASE Disconnect
  <2>1. PICK k \in 0 .. Len(chan) : chan' = SubSeq(chan, 1, k)
    BY <1>2 DEF Disconnect
  <2>2. chan' \in Seq(Messages)
    BY <2>1, SubSeqProperties, ElementOfSeq DEF TypeOK
  <2>3. used' \in [Events -> Nat]
    BY <1>2, SpendIsTyped DEF Disconnect, Events
  <2> QED BY <1>2, <2>2, <2>3 DEF TypeOK, Disconnect, memory, database
<1>3. CASE \E m \in Markets : Subscribe(m)
  <2>1. PICK m \in Markets : Subscribe(m)
    BY <1>3
  <2>2. Snapshot(m) \in Messages
    BY ExchangeIsABook DEF Snapshot, Messages
  <2>3. chan' \in Seq(Messages)
    BY <2>1, <2>2 DEF Subscribe, TypeOK
  <2> QED BY <2>1, <2>3 DEF TypeOK, Subscribe, memory, database
<1>4. CASE Crash
  <2>1. used' \in [Events -> Nat]
    BY <1>4, SpendIsTyped DEF Crash, Events
  <2>2. states' \in [Markets -> HeldBooks]
    BY <1>4, EmptyIsABook DEF Crash
  <2>3. task' \in [Workers -> Tasks]
        /\ \A u \in Workers : task'[u].pc # "idle" => task'[u].m \in Markets
    <3>1. task' = [t \in Workers |-> Idle] /\ Idle.pc = "idle"
      BY <1>4 DEF Crash, Idle
    <3> QED BY <3>1, IdleIsATask
  <2>4. chan' \in Seq(Messages) /\ connected' \in BOOLEAN /\ subscribed' \subseteq Markets
    <3>1. chan' = <<>> /\ connected' = FALSE /\ subscribed' = {}
      BY <1>4 DEF Crash
    <3> QED BY <3>1, EmptySeq
  <2>5. pos' \in [Markets -> Nat] /\ missed' \in [Markets -> BOOLEAN]
    BY <1>4 DEF Crash
  <2>6. UNCHANGED <<history, rows, checkpoint, clock>>
    BY <1>4 DEF Crash, database
  <2> QED BY <2>1, <2>2, <2>3, <2>4, <2>5, <2>6 DEF TypeOK
<1> QED BY <1>1, <1>2, <1>3, <1>4

LEMMA PollingTyped ==
    ASSUME TypeOK, PollRound \/ (\E m \in Pollers : Poll(m))
    PROVE  TypeOK'
<1>1. CASE PollRound
  <2>1. used' \in [Events -> Nat]
    BY <1>1, SpendIsTyped DEF PollRound, Events
  <2>2. \A t \in Pollers : [Idle EXCEPT !.pc = "request", !.m = t] \in Tasks
                           /\ [Idle EXCEPT !.pc = "request", !.m = t].m = t
    BY WorkersAreNamed, EmptyIsABook DEF Idle, Tasks, Pcs
  <2>3. task' \in [Workers -> Tasks]
        /\ \A u \in Workers : task'[u].pc # "idle" => task'[u].m \in Markets
    BY <1>1, <2>2, WorkersAreNamed DEF PollRound, TypeOK
  <2> QED BY <1>1, <2>1, <2>3 DEF TypeOK, PollRound, memory, wire, database
<1>2. ASSUME NEW m \in Pollers, PollAnswer(m) PROVE TypeOK'
  <2>1. m \in Markets /\ m \in Workers
    BY WorkersAreNamed
  <2>2. Exchange(m) \in HeldBooks /\ Len(history[m]) \in Nat
    BY <2>1, ExchangeIsABook, BooksAreHeld
  <2>3. task' \in [Workers -> Tasks]
        /\ \A u \in Workers : task'[u].pc # "idle" => task'[u].m \in Markets
    <3> DEFINE a == [task[m] EXCEPT !.pc = "answered", !.levels = Exchange(m),
                                    !.n = Len(history[m])]
    <3>1. a \in Tasks /\ a.m = task[m].m
      <4>1. task[m] \in Tasks
        BY <2>1 DEF TypeOK
      <4> QED BY <2>2, <4>1 DEF Tasks, Pcs
    <3>2. task[m].m \in Markets
      BY <1>2, <2>1 DEF TypeOK, PollAnswer
    <3>3. task' = [task EXCEPT ![m] = a]
      BY <1>2, <2>1 DEF PollAnswer, TypeOK
    <3> QED BY <2>1, <3>1, <3>2, <3>3, TaskStepIsTyped
  <2> QED BY <1>2, <2>3 DEF TypeOK, PollAnswer, memory, wire, database
<1>3. ASSUME NEW m \in Pollers, PollFail(m) PROVE TypeOK'
  <2>1. task' \in [Workers -> Tasks]
        /\ \A u \in Workers : task'[u].pc # "idle" => task'[u].m \in Markets
    BY <1>3, WorkersAreNamed, IdleIsATask DEF PollFail, TypeOK, Idle
  <2> QED BY <1>3, <2>1 DEF TypeOK, PollFail, memory, wire, database
<1>4. ASSUME NEW m \in Pollers, PollApply(m) PROVE TypeOK'
  <2>1. m \in Markets /\ m \in Workers
    BY WorkersAreNamed
  <2>2. task[m].levels \in HeldBooks /\ task[m].n \in Nat
    BY <2>1 DEF TypeOK, Tasks
  <2>0. clock + 1 \in Nat
    BY DEF TypeOK
  <2>3. [Idle EXCEPT !.pc = "select", !.m = m, !.ts = clock + 1] \in Tasks
        /\ [Idle EXCEPT !.pc = "select", !.m = m, !.ts = clock + 1].m = m
    BY <2>0, <2>1, EmptyIsABook DEF Idle, Tasks, Pcs
  <2>4. task' \in [Workers -> Tasks]
        /\ \A u \in Workers : task'[u].pc # "idle" => task'[u].m \in Markets
    BY <1>4, <2>1, <2>3, TaskStepIsTyped DEF PollApply
  <2>5. states' \in [Markets -> HeldBooks] /\ pos' \in [Markets -> Nat] /\ clock' \in Nat
    BY <1>4, <2>1, <2>2 DEF TypeOK, PollApply
  <2> QED BY <1>4, <2>4, <2>5 DEF TypeOK, PollApply, wire, database
<1> QED BY <1>1, <1>2, <1>3, <1>4 DEF Poll

LEMMA AfterPersistIsTyped ==
    ASSUME TypeOK, NEW t \in Workers, task[t].pc # "idle"
    PROVE  /\ AfterPersist(t) \in Tasks
           /\ AfterPersist(t).pc # "idle" => AfterPersist(t).m \in Markets
<1>1. task[t] \in Tasks /\ task[t].m \in Markets
  BY DEF TypeOK
<1>2. [task[t] EXCEPT !.pc = "checkpoint"] \in Tasks
      /\ [task[t] EXCEPT !.pc = "checkpoint"].m \in Markets
  BY <1>1 DEF Tasks, Pcs
<1> QED BY <1>2, IdleIsATask DEF AfterPersist, Idle

LEMMA StatementsTyped ==
    ASSUME TypeOK, NEW t \in Workers, Statement(t) \/ DbError(t)
    PROVE  TypeOK'
<1>1. CASE Select(t)
  <2> DEFINE m == task[t].m
             a == [task[t] EXCEPT !.pc = "insert", !.levels = states[m], !.n = pos[m]]
  <2>1. m \in Markets
    BY <1>1 DEF TypeOK, Select
  <2>2. a \in Tasks /\ a.m = m
    <3>1. task[t] \in Tasks /\ states[m] \in HeldBooks /\ pos[m] \in Nat
      BY <2>1 DEF TypeOK
    <3> QED BY <2>1, <3>1 DEF Tasks, Pcs
  <2>3. task' = [task EXCEPT ![t] = AfterPersist(t)] \/ task' = [task EXCEPT ![t] = a]
    BY <1>1 DEF Select, TypeOK
  <2>4. task' \in [Workers -> Tasks]
        /\ \A u \in Workers : task'[u].pc # "idle" => task'[u].m \in Markets
    <3>1. CASE task' = [task EXCEPT ![t] = a]
      BY <2>1, <2>2, <3>1, TaskStepIsTyped
    <3>2. CASE task' = [task EXCEPT ![t] = AfterPersist(t)]
      BY <1>1, <3>2, AfterPersistIsTyped, TaskStepIsTyped DEF Select
    <3> QED BY <2>3, <3>1, <3>2
  <2> QED BY <1>1, <2>4 DEF TypeOK, Select, memory, wire, database
<1>2. CASE Insert(t)
  <2>1. task' \in [Workers -> Tasks]
        /\ \A u \in Workers : task'[u].pc # "idle" => task'[u].m \in Markets
    BY <1>2, AfterPersistIsTyped, TaskStepIsTyped DEF Insert
  <2>2. [ts |-> task[t].ts, book |-> task[t].levels, n |-> task[t].n] \in Rows
    BY DEF TypeOK, Tasks, Rows
  <2>3. task[t].m \in Markets
    BY <1>2 DEF TypeOK, Insert
  <2>4. rows' \in [Markets -> Seq(Rows)]
    BY <1>2, <2>2, <2>3 DEF TypeOK, Insert
  <2> QED BY <1>2, <2>1, <2>4 DEF TypeOK, Insert, memory, wire
<1>3. CASE Checkpoint(t)
  <2>1. task' \in [Workers -> Tasks]
        /\ \A u \in Workers : task'[u].pc # "idle" => task'[u].m \in Markets
    BY <1>3, IdleIsATask DEF Checkpoint, TypeOK, Idle
  <2>2. task[t].m \in Markets
    BY <1>3 DEF TypeOK, Checkpoint
  <2>3. checkpoint' \in [Markets -> [n : Nat, book : HeldBooks]]
    BY <1>3, <2>2 DEF TypeOK, Checkpoint
  <2> QED BY <1>3, <2>1, <2>3 DEF TypeOK, Checkpoint, memory, wire
<1>4. CASE DbError(t)
  <2>1. task' \in [Workers -> Tasks]
        /\ \A u \in Workers : task'[u].pc # "idle" => task'[u].m \in Markets
    BY <1>4, IdleIsATask DEF DbError, TypeOK, Idle
  <2>2. used' \in [Events -> Nat]
    BY <1>4, SpendIsTyped DEF DbError, Events
  <2> QED BY <1>4, <2>1, <2>2 DEF TypeOK, DbError, memory, wire, database
<1> QED BY <1>1, <1>2, <1>3, <1>4 DEF Statement

LEMMA NextTypeOK == TypeOK /\ [Next]_vars => TypeOK'
<1> SUFFICES ASSUME TypeOK, [Next]_vars PROVE TypeOK'
  OBVIOUS
<1>1. CASE Exchanging
  BY <1>1, ExchangingTyped DEF Exchanging
<1>2. CASE Connect \/ Disconnect \/ (\E m \in Markets : Subscribe(m)) \/ Crash
  BY <1>2, ConnectionTyped
<1>3. CASE Receive \/ Discard
  BY <1>3, ReceiveTyped, DiscardTyped
<1>4. CASE PollRound \/ \E m \in Pollers : Poll(m)
  BY <1>4, PollingTyped
<1>5. CASE \E t \in Workers : Statement(t) \/ DbError(t)
  BY <1>5, StatementsTyped
<1>6. CASE UNCHANGED vars
  BY <1>6 DEF TypeOK, vars, memory, wire, database
<1> QED BY <1>1, <1>2, <1>3, <1>4, <1>5, <1>6 DEF Next

\* Every variable keeps its type: no handler stores a book, a task or a row that the
\* code of another handler cannot take.
THEOREM TypeCorrect == Spec => []TypeOK
<1>1. Init => TypeOK
  BY InitTypeOK
<1>2. TypeOK /\ [Next]_vars => TypeOK'
  BY NextTypeOK
<1> QED BY <1>1, <1>2, PTL DEF Spec

------------------------------------------------------------------------------
(* Checkpoints acknowledge stored books.  A handler changes memory in one    *)
(* step and the table in later ones, so CheckpointCovered alone is not       *)
(* inductive: HandlersHold carries the book from the SELECT to the           *)
(* checkpoint, and OneWriter says why nobody changes the memory in between.  *)

\* Appending a row keeps every stored book stored.
LEMMA InsertKeepsStored ==
    ASSUME TypeOK, NEW t \in Workers, Insert(t),
           NEW k \in Markets, k = task[t].m, NEW book, book = task[t].levels,
           NEW m \in Markets, NEW b
    PROVE  /\ Stored(m, b) => Stored(m, b)'
           /\ Stored(k, book)'
<1> DEFINE r == [ts |-> task[t].ts, book |-> book, n |-> task[t].n]
<1>1. r \in Rows /\ rows[k] \in Seq(Rows) /\ rows[m] \in Seq(Rows)
  BY DEF TypeOK, Tasks, Rows
<1>2. rows' = [rows EXCEPT ![k] = Append(rows[k], r)] /\ rows \in [Markets -> Seq(Rows)]
  BY DEF Insert, TypeOK
<1>3. DOMAIN rows[k] = 1 .. Len(rows[k]) /\ Len(rows[k]) \in Nat
  BY <1>1, LenProperties
<1>4. /\ DOMAIN Append(rows[k], r) = 1 .. Len(rows[k]) + 1
      /\ \A i \in DOMAIN rows[k] : Append(rows[k], r)[i] = rows[k][i]
      /\ Append(rows[k], r)[Len(rows[k]) + 1] = r
  <2>1. Append(rows[k], r) \in Seq(Rows) /\ Len(Append(rows[k], r)) = Len(rows[k]) + 1
    BY <1>1, AppendProperties
  <2>2. DOMAIN Append(rows[k], r) = 1 .. Len(rows[k]) + 1
    BY <2>1, LenProperties
  <2> QED BY <1>1, <1>3, <2>2, AppendProperties
<1>5. rows'[k] = Append(rows[k], r)
  BY <1>2
<1>6. Stored(m, b) => Stored(m, b)'
  <2>1. CASE m = k
    BY SMTT(30), <1>3, <1>4, <1>5, <2>1 DEF Stored
  <2>2. CASE m # k
    BY <1>2, <2>2 DEF Stored
  <2> QED BY <2>1, <2>2
<1>7. Stored(k, book)'
  <2>1. Len(rows[k]) + 1 \in DOMAIN rows'[k] /\ rows'[k][Len(rows[k]) + 1].book = book
    BY <1>3, <1>4, <1>5
  <2> QED BY <2>1 DEF Stored
<1> QED BY <1>6, <1>7

\* Two workers busy at the same time serve different markets.
LEMMA OneWorkerPerMarket ==
    ASSUME TypeOK, OneWriter, NEW t \in Workers, NEW u \in Workers, t # u,
           task[t].pc # "idle", task[u].pc # "idle"
    PROVE  task[t].m # task[u].m
<1>1. CASE WsAvailable
  BY <1>1, FallbackOnly DEF Workers
<1>2. CASE ~WsAvailable
  BY <1>2 DEF OneWriter, Workers
<1> QED BY <1>1, <1>2

\* A step that leaves memory and tables alone and starts no statement after the
\* SELECT keeps what handlers hold and what checkpoints cover.
LEMMA NothingStored ==
    ASSUME CoverInv, UNCHANGED <<states, rows, checkpoint>>,
           \A t \in Workers : \/ task'[t] = task[t]
                              \/ task'[t].pc \notin {"insert", "checkpoint"}
    PROVE  HandlersHold' /\ CheckpointCovered'
<1>1. \A m, b : Stored(m, b)' <=> Stored(m, b)
  BY DEF Stored
<1>2. CheckpointCovered'
  BY <1>1 DEF CoverInv, CheckpointCovered
<1>3. ASSUME NEW t \in Workers
      PROVE  /\ task'[t].pc = "insert" => task'[t].levels = states'[task'[t].m]
             /\ task'[t].pc = "checkpoint" => Stored(task[t].m, states[task[t].m])
                                              /\ task'[t] = task[t]
  BY DEF CoverInv, HandlersHold
<1>4. HandlersHold'
  BY <1>3 DEF HandlersHold, Stored
<1> QED BY <1>2, <1>4

\* A step that only assigns an idle or polling task to one worker keeps OneWriter.
LEMMA OneWriterKept ==
    ASSUME OneWriter, UNCHANGED wire, NEW t \in Workers, NEW a,
           task \in [Workers -> Tasks], task' = [task EXCEPT ![t] = a],
           t = Stream => (a.pc # "idle" => task[t].pc # "idle"),
           t \in Pollers => /\ a.pc # "idle" => a.m = t
                            /\ ~a.seq /\ a.pc # "checkpoint"
    PROVE  OneWriter'
BY WorkersAreNamed, NamesAssumption DEF OneWriter, Workers, wire

LEMMA InitCovered == Init => CoverInv
<1> SUFFICES ASSUME Init PROVE CoverInv
  OBVIOUS
<1>1. TypeOK
  BY InitTypeOK
<1>2. OneWriter /\ HandlersHold /\ CheckpointCovered
  BY WorkersAreNamed DEF Init, Idle, Workers, NoCheckpoint, OneWriter, HandlersHold,
                         CheckpointCovered
<1> QED BY <1>1, <1>2 DEF CoverInv

LEMMA EnvironmentCovered ==
    ASSUME CoverInv,
           Exchanging \/ Connect \/ Disconnect \/ Discard
             \/ (\E m \in Markets : Subscribe(m)) \/ UNCHANGED vars
    PROVE  OneWriter' /\ HandlersHold' /\ CheckpointCovered'
<1>1. UNCHANGED <<states, rows, checkpoint, task>>
  BY DEF Exchanging, ExchangeChange, Connect, Disconnect, Discard, Subscribe, vars, memory,
         database
<1>2. ~WsAvailable => ~connected' /\ subscribed' = {} /\ chan' = <<>>
  <2> SUFFICES ASSUME ~WsAvailable PROVE ~connected' /\ subscribed' = {} /\ chan' = <<>>
    OBVIOUS
  <2>1. ~connected /\ subscribed = {} /\ chan = <<>>
    BY DEF CoverInv, OneWriter
  <2>2. CASE Exchanging
    BY <2>1, <2>2 DEF Exchanging, ExchangeChange
  <2>3. CASE Discard \/ UNCHANGED vars
    BY <2>1, <2>3 DEF Discard, vars, wire
  <2>4. CASE Connect \/ Disconnect \/ \E m \in Markets : Subscribe(m)
    BY <2>1, <2>4 DEF Connect, Disconnect, Subscribe
  <2> QED BY <2>2, <2>3, <2>4
<1>3. OneWriter'
  BY <1>1, <1>2 DEF CoverInv, OneWriter
<1> QED BY <1>1, <1>3, NothingStored

LEMMA ReceiveCovered ==
    ASSUME CoverInv, Receive
    PROVE  OneWriter' /\ HandlersHold' /\ CheckpointCovered'
<1>1. WsAvailable /\ Workers = {Stream} /\ Pollers = {}
  BY FallbackOnly DEF CoverInv, OneWriter, Receive, Workers
<1>2. task'[Stream].pc = "select"
  BY <1>1 DEF CoverInv, TypeOK, Receive, Idle
<1>3. OneWriter' /\ HandlersHold'
  BY <1>1, <1>2 DEF OneWriter, HandlersHold
<1>4. CheckpointCovered'
  BY DEF CoverInv, CheckpointCovered, Stored, Receive, database
<1> QED BY <1>3, <1>4

LEMMA PollingCovered ==
    ASSUME CoverInv, PollRound \/ \E m \in Pollers : Poll(m)
    PROVE  OneWriter' /\ HandlersHold' /\ CheckpointCovered'
<1> USE DEF CoverInv
<1>1. CASE PollRound
  <2>1. \A t \in Workers : task'[t] = IF t \in Pollers
                                       THEN [Idle EXCEPT !.pc = "request", !.m = t]
                                       ELSE task[t]
    BY <1>1 DEF PollRound
  <2>2. OneWriter'
    BY <1>1, <2>1, WorkersAreNamed, NamesAssumption
    DEF PollRound, OneWriter, Workers, wire, Idle
  <2>3. HandlersHold' /\ CheckpointCovered'
    BY <1>1, <2>1, NothingStored DEF PollRound, memory, database, Idle
  <2> QED BY <2>2, <2>3
<1>2. ASSUME NEW m \in Pollers, PollAnswer(m) \/ PollFail(m)
      PROVE  OneWriter' /\ HandlersHold' /\ CheckpointCovered'
  <2>1. m \in Workers /\ m # Stream
    BY WorkersAreNamed, NamesAssumption
  <2>2. PICK a : /\ task' = [task EXCEPT ![m] = a]
                 /\ a = Idle \/ a = [task[m] EXCEPT !.pc = "answered", !.levels = Exchange(m),
                                                    !.n = Len(history[m])]
    BY <1>2, <2>1 DEF PollAnswer, PollFail, TypeOK
  <2>3. a.pc \notin {"insert", "checkpoint"} /\ ~a.seq /\ (a.pc # "idle" => a.m = m)
    <3>1. task[m] \in Tasks /\ ~task[m].seq /\ task[m].m = m
      BY <1>2, <2>1 DEF OneWriter, TypeOK, PollAnswer, PollFail
    <3>2. CASE a = Idle
      BY <3>2 DEF Idle
    <3>3. CASE a = [task[m] EXCEPT !.pc = "answered", !.levels = Exchange(m),
                                   !.n = Len(history[m])]
      BY <3>1, <3>3 DEF Tasks
    <3> QED BY <2>2, <3>2, <3>3
  <2>4. OneWriter'
    BY <1>2, <2>1, <2>2, <2>3, OneWriterKept DEF PollAnswer, PollFail, TypeOK
  <2>5. HandlersHold' /\ CheckpointCovered'
    BY <1>2, <2>1, <2>2, <2>3, NothingStored
    DEF PollAnswer, PollFail, TypeOK, memory, database
  <2> QED BY <2>4, <2>5
<1>3. ASSUME NEW m \in Pollers, PollApply(m)
      PROVE  OneWriter' /\ HandlersHold' /\ CheckpointCovered'
  <2>1. m \in Workers /\ m # Stream /\ task[m].pc = "answered"
    BY <1>3, WorkersAreNamed, NamesAssumption DEF PollApply
  <2> DEFINE a == [Idle EXCEPT !.pc = "select", !.m = m, !.ts = clock + 1]
  <2>2. task' = [task EXCEPT ![m] = a] /\ a.pc = "select" /\ ~a.seq /\ a.m = m
    BY <1>3 DEF PollApply, Idle
  <2>3. OneWriter'
    BY <1>3, <2>1, <2>2, OneWriterKept DEF PollApply, TypeOK
  <2>4. ASSUME NEW t \in Workers, t # m, task[t].pc # "idle"
        PROVE  task'[t] = task[t] /\ states'[task[t].m] = states[task[t].m]
    <3>1. task[t].m # m /\ task[t].m \in Markets
      BY <2>1, <2>4, OneWorkerPerMarket DEF OneWriter, TypeOK
    <3> QED BY <1>3, <2>2, <2>4, <3>1 DEF PollApply, TypeOK
  <2>5. \A k, b : Stored(k, b)' <=> Stored(k, b)
    BY <1>3 DEF PollApply, Stored, database
  <2>6. HandlersHold'
    <3> SUFFICES ASSUME NEW t \in Workers
                 PROVE  /\ task'[t].pc = "insert" => task'[t].levels = states'[task'[t].m]
                        /\ task'[t].pc = "checkpoint" => Stored(task[t].m, states[task[t].m])'
      BY DEF HandlersHold, Stored
    <3>1. CASE t = m
      BY <2>1, <2>2, <3>1 DEF TypeOK
    <3>2. CASE t # m /\ task[t].pc # "idle"
      <4>1. task'[t] = task[t] /\ states'[task[t].m] = states[task[t].m] /\ rows' = rows
        BY <1>3, <2>4, <3>2 DEF PollApply, database
      <4> QED BY <4>1 DEF HandlersHold, Stored
    <3>3. CASE t # m /\ task[t].pc = "idle"
      BY <2>2, <3>3 DEF TypeOK
    <3> QED BY <3>1, <3>2, <3>3
  <2>7. CheckpointCovered'
    BY <1>3, <2>5 DEF PollApply, CheckpointCovered, database
  <2> QED BY <2>3, <2>6, <2>7
<1> QED BY <1>1, <1>2, <1>3 DEF Poll

LEMMA CrashCovered ==
    ASSUME CoverInv, Crash
    PROVE  OneWriter' /\ HandlersHold' /\ CheckpointCovered'
<1>1. task' = [t \in Workers |-> Idle]
  BY DEF Crash
<1>2. OneWriter' /\ HandlersHold'
  BY <1>1, WorkersAreNamed DEF Crash, OneWriter, HandlersHold, Idle, Workers
<1>3. CheckpointCovered'
  BY DEF CoverInv, CheckpointCovered, Stored, Crash, database
<1> QED BY <1>2, <1>3

\* A statement moves one task on, leaving memory alone; every stored book stays so.
LEMMA StatementCovered ==
    ASSUME CoverInv, NEW t \in Workers, task[t].pc # "idle", NEW a \in Tasks,
           task' = [task EXCEPT ![t] = a],
           UNCHANGED <<states, wire>>,
           \A k \in Markets : \A b : Stored(k, b) => Stored(k, b)',
           a.pc # "idle" => a.m = task[t].m,
           a.pc = "insert" => a.levels = states[task[t].m],
           ~task[t].seq => ~a.seq /\ a.pc # "checkpoint",
           \A k \in Markets : k = task[t].m => (a.pc = "checkpoint" => Stored(k, states[k])')
    PROVE  OneWriter' /\ HandlersHold'
<1> USE DEF CoverInv
<1>1. OneWriter'
  <2>1. t \in Pollers => task[t].m = t /\ ~task[t].seq
    BY DEF OneWriter
  <2> QED BY <2>1, OneWriterKept DEF TypeOK
<1>2. ASSUME NEW u \in Workers
      PROVE  /\ task'[u].pc = "insert" => task'[u].levels = states'[task'[u].m]
             /\ task'[u].pc = "checkpoint" => Stored(task[u].m, states[task[u].m])'
  <2>1. CASE u = t
    <3>1. task'[u] = a /\ task[t].m \in Markets
      BY <2>1 DEF TypeOK
    <3>2. a.pc = "checkpoint" => \E i \in DOMAIN rows'[task[t].m] :
                                    rows'[task[t].m][i].book = states'[task[t].m]
      BY <3>1 DEF Stored
    <3> QED BY <3>1, <3>2 DEF Stored
  <2>2. CASE u # t /\ task[u].pc # "idle"
    <3>1. task'[u] = task[u] /\ task[u].m \in Markets
      BY <2>2 DEF TypeOK
    <3>2. ASSUME NEW k \in Markets, k = task[u].m, task[u].pc = "checkpoint"
          PROVE  Stored(k, states[k])'
      <4>1. Stored(k, states[k])
        BY <3>2 DEF HandlersHold
      <4>2. PICK b : b = states[k]
        OBVIOUS
      <4>3. Stored(k, b)'
        BY <4>1, <4>2
      <4> QED BY <4>2, <4>3 DEF Stored
    <3>3. task[u].pc = "checkpoint" => \E i \in DOMAIN rows'[task[u].m] :
                                          rows'[task[u].m][i].book = states'[task[u].m]
      BY <3>1, <3>2 DEF Stored
    <3> QED BY SMTT(30), <3>1, <3>3 DEF HandlersHold, Stored
  <2>3. CASE u # t /\ task[u].pc = "idle"
    BY <2>3 DEF TypeOK
  <2> QED BY <2>1, <2>2, <2>3
<1>3. HandlersHold'
  BY <1>2 DEF HandlersHold
<1> QED BY <1>1, <1>3

LEMMA StatementsCovered ==
    ASSUME CoverInv, NEW t \in Workers, Statement(t) \/ DbError(t)
    PROVE  OneWriter' /\ HandlersHold' /\ CheckpointCovered'
<1> USE DEF CoverInv
<1>1. task[t].pc # "idle" /\ task[t].m \in Markets /\ task[t] \in Tasks
  BY DEF Statement, Select, Insert, Checkpoint, DbError, TypeOK
<1> DEFINE k == task[t].m
<1>2. /\ AfterPersist(t) \in Tasks
      /\ AfterPersist(t).pc # "idle" => AfterPersist(t).m = k
      /\ AfterPersist(t).pc # "insert"
      /\ ~task[t].seq => ~AfterPersist(t).seq /\ AfterPersist(t).pc # "checkpoint"
  BY <1>1, AfterPersistIsTyped DEF AfterPersist, Idle, Tasks
<1>3. CASE Select(t)
  <2> DEFINE a == [task[t] EXCEPT !.pc = "insert", !.levels = states[k], !.n = pos[k]]
  <2>1. \A m, b : Stored(m, b)' <=> Stored(m, b)
    BY <1>3 DEF Select, Stored, database
  <2>2. CheckpointCovered'
    BY <1>3, <2>1 DEF Select, CheckpointCovered, database
  <2>3. CASE /\ \E r \in LatestRows(k) : r.book = states[k]
             /\ task' = [task EXCEPT ![t] = AfterPersist(t)]
    <3>1. Stored(k, states[k])
      BY <2>3 DEF LatestRows, Stored
    <3>2. \A m \in Markets : m = task[t].m => Stored(m, states[m])'
      BY <1>3, <3>1 DEF Select, Stored, database, memory
    <3>3. OneWriter' /\ HandlersHold'
      BY <1>1, <1>2, <1>3, <2>1, <2>3, <3>2, StatementCovered DEF Select, memory
    <3> QED BY <2>2, <3>3
  <2>4. CASE task' = [task EXCEPT ![t] = a]
    <3>1. a \in Tasks /\ a.m = k /\ a.pc = "insert" /\ a.levels = states[k]
          /\ a.seq = task[t].seq
      BY <1>1 DEF TypeOK, Tasks, Pcs
    <3>2. OneWriter' /\ HandlersHold'
      BY <1>1, <1>3, <2>1, <2>4, <3>1, StatementCovered DEF Select, memory
    <3> QED BY <2>2, <3>2
  <2>5. task' = [task EXCEPT ![t] = a] \/ /\ \E r \in LatestRows(k) : r.book = states[k]
                                          /\ task' = [task EXCEPT ![t] = AfterPersist(t)]
    BY <1>3 DEF Select, TypeOK
  <2> QED BY <2>3, <2>4, <2>5
<1>4. CASE Insert(t)
  <2>1. task[t].levels = states[k]
    BY <1>4 DEF HandlersHold, Insert
  <2>2. \A m \in Markets : \A b : Stored(m, b) => Stored(m, b)'
    BY <1>1, <1>4, InsertKeepsStored
  <2>3. \A m \in Markets : m = task[t].m => Stored(m, states[m])'
    <3>1. ASSUME NEW m \in Markets, m = task[t].m PROVE Stored(m, states[m])'
      <4>1. PICK b : b = task[t].levels
        OBVIOUS
      <4>2. Stored(m, b)'
        BY <1>4, <3>1, <4>1, InsertKeepsStored
      <4>3. states'[m] = b
        BY <1>4, <2>1, <3>1, <4>1 DEF Insert, memory
      <4> QED BY <4>2, <4>3 DEF Stored
    <3> QED BY <3>1
  <2>4. OneWriter' /\ HandlersHold'
    BY <1>1, <1>2, <1>4, <2>2, <2>3, StatementCovered DEF Insert, memory
  <2>5. CheckpointCovered'
    <3> SUFFICES ASSUME NEW m \in Markets, checkpoint[m].n # 0
                 PROVE  Stored(m, checkpoint[m].book)'
      BY <1>4 DEF CheckpointCovered, Insert
    <3>1. PICK b : b = checkpoint[m].book
      OBVIOUS
    <3>2. Stored(m, b)'
      BY <2>2, <3>1 DEF CheckpointCovered
    <3>3. checkpoint' = checkpoint
      BY <1>4 DEF Insert
    <3> QED BY <3>1, <3>2, <3>3 DEF Stored
  <2> QED BY <2>4, <2>5
<1>5. CASE Checkpoint(t)
  <2>1. \A m, b : Stored(m, b)' <=> Stored(m, b)
    BY <1>5 DEF Checkpoint, Stored
  <2>2. OneWriter' /\ HandlersHold'
    BY <1>1, <1>5, <2>1, IdleIsATask, StatementCovered DEF Checkpoint, memory, Idle
  <2>3. Stored(k, states[k])
    BY <1>5 DEF HandlersHold, Checkpoint
  <2>4. checkpoint' = [checkpoint EXCEPT ![k] = [n |-> pos[k], book |-> states[k]]]
        /\ rows' = rows
    BY <1>5 DEF Checkpoint
  <2>5. CheckpointCovered'
    BY <1>1, <2>3, <2>4 DEF CheckpointCovered, Stored, TypeOK
  <2> QED BY <2>2, <2>5
<1>6. CASE DbError(t)
  <2>1. \A m, b : Stored(m, b)' <=> Stored(m, b)
    BY <1>6 DEF DbError, Stored, database
  <2>2. OneWriter' /\ HandlersHold'
    BY <1>1, <1>6, <2>1, IdleIsATask, StatementCovered DEF DbError, memory, Idle
  <2>3. CheckpointCovered'
    BY <1>6, <2>1 DEF DbError, CheckpointCovered, database
  <2> QED BY <2>2, <2>3
<1> QED BY <1>3, <1>4, <1>5, <1>6 DEF Statement

LEMMA NextCovered == CoverInv /\ [Next]_vars => CoverInv'
<1> SUFFICES ASSUME CoverInv, [Next]_vars PROVE CoverInv'
  OBVIOUS
<1>1. TypeOK'
  BY NextTypeOK DEF CoverInv
<1>2. OneWriter' /\ HandlersHold' /\ CheckpointCovered'
  BY EnvironmentCovered, ReceiveCovered, PollingCovered, CrashCovered, StatementsCovered
  DEF Next
<1> QED BY <1>1, <1>2 DEF CoverInv

\* Memory, the running handlers, the table and the checkpoints agree on the book of
\* every market: the invariant the theorems below and OrderbookHistoryProofs rest on.
THEOREM Invariant == Spec => []CoverInv
<1>1. Init => CoverInv
  BY InitCovered
<1>2. CoverInv /\ [Next]_vars => CoverInv'
  BY NextCovered
<1> QED BY <1>1, <1>2, PTL DEF Spec

\* No failed statement, lost frame, burst, malformed frame or crash makes a checkpoint
\* acknowledge a message whose book is not in orderbook_snapshots.
THEOREM CheckpointsAreCovered == Spec => []CheckpointCovered
<1>1. CoverInv => CheckpointCovered
  BY DEF CoverInv
<1> QED BY <1>1, Invariant, PTL
=============================================================================
