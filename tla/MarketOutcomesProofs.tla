------------------------- MODULE MarketOutcomesProofs -------------------------
(***************************************************************************)
(* Theorems about MarketOutcomes, for every set of markets, every number   *)
(* of faults and both values of CarrySeries.                               *)
(***************************************************************************)
EXTENDS MarketOutcomes, SequenceTheorems, TLAPS

(* The inductive invariant *)

\* Without a process there is no subscription, and no event is handled.
ConnectedWhenUp == proc # "up" => fed = {} /\ chan = <<>> /\ stream = NoEvent

\* A task that is not storing an answer has nothing left to store.
NothingLeft ==
    /\ settler.pc # "upsert" => settler.left = {}
    /\ discovery.pc # "upsert" => discovery.left = {}
    /\ metadata.pc \notin {"upsert", "append"} => metadata.left = {}

\* Neither the startup list, nor what is on its way to the tables, nor the tables run
\* ahead of the exchange.
NothingAhead ==
    /\ \A m \in tickers : status[m] # "unlisted"
    /\ \A i \in DOMAIN chan : status[chan[i].m] = "settled"
    /\ stream.pc = "upsert" => status[stream.m] = "settled"
    /\ \A m \in settler.left : status[m] = "settled"
    /\ \A p \in metadata.left : p[2] = "settled" => status[p[1]] = "settled"
    /\ metadata.pc = "append" /\ metadata.at[2] = "settled" => status[metadata.at[1]] = "settled"
    /\ \A m \in Markets : /\ row[m] = "settled" => status[m] = "settled"
                          /\ lastUpdate[m] = "settled" => status[m] = "settled"
                          /\ settlement[m] # "none" => status[m] = "settled"

\* An answer of the metadata task names a market once.
AnsweredOnce ==
    /\ \A p, q \in metadata.left : p[1] = q[1] => p = q
    /\ metadata.pc = "append" => \A p \in metadata.left : p[1] # metadata.at[1]

\* What the metadata task is about to append is not older than what it appended.
AppendsForward ==
    \A m \in Markets : lastUpdate[m] = "settled" =>
        /\ <<m, "open">> \notin metadata.left
        /\ metadata.pc = "append" => metadata.at # <<m, "open">>

OutcomesInv ==
    /\ TypeOK
    /\ ConnectedWhenUp /\ NothingLeft
    /\ NothingAhead
    /\ AnsweredOnce /\ AppendsForward

------------------------------------------------------------------------------
(* The exchange *)

LEMMA IdleTasksTyped ==
    /\ \A t \in {Idle, Dead, NoTask} :
         \A S : t \in [pc : {"none", "dead", "idle", "upsert"}, left : SUBSET S]
    /\ \A t \in {IdleMetadata, DeadMetadata, NoMetadata} :
         t \in [pc : {"none", "dead", "idle", "upsert", "append"}, left : SUBSET Pairs,
                at : Pairs \cup {<<>>}]
    /\ Idle.pc = "idle" /\ Dead.pc = "dead" /\ NoTask.pc = "none"
    /\ IdleMetadata.pc = "idle" /\ DeadMetadata.pc = "dead" /\ NoMetadata.pc = "none"
    /\ \A t \in {Idle, Dead, NoTask, IdleMetadata, DeadMetadata, NoMetadata} : t.left = {}
    /\ NoEvent \in [pc : {"idle", "upsert"}, m : Markets \cup {None}, result : BOOLEAN]
    /\ NoEvent.pc = "idle"
<1>1. \A t \in {Idle, Dead, NoTask} :
        \A S : t \in [pc : {"none", "dead", "idle", "upsert"}, left : SUBSET S]
  BY DEF Idle, Dead, NoTask
<1>2. \A t \in {IdleMetadata, DeadMetadata, NoMetadata} :
        t \in [pc : {"none", "dead", "idle", "upsert", "append"}, left : SUBSET Pairs,
               at : Pairs \cup {<<>>}]
  BY DEF IdleMetadata, DeadMetadata, NoMetadata
<1>3. NoEvent \in [pc : {"idle", "upsert"}, m : Markets \cup {None}, result : BOOLEAN]
  BY DEF NoEvent
<1> QED BY <1>1, <1>2, <1>3 DEF Idle, Dead, NoTask, IdleMetadata, DeadMetadata, NoMetadata, NoEvent

LEMMA EventsTyped ==
    ASSUME TypeOK
    PROVE  /\ chan \in Seq([m : Markets, result : BOOLEAN]) /\ Len(chan) \in Nat
           /\ \A i \in DOMAIN chan : /\ chan[i] \in [m : Markets, result : BOOLEAN]
                                     /\ chan[i].m \in Markets
<1> DEFINE Events == [m : Markets, result : BOOLEAN]
<1>1. chan \in Seq(Events)
  BY DEF TypeOK
<1>2. \A e \in Events : e.m \in Markets
  OBVIOUS
<1> HIDE DEF Events
<1>3. Len(chan) \in Nat /\ DOMAIN chan = 1 .. Len(chan)
  BY <1>1, LenProperties
<1>4. \A i \in DOMAIN chan : chan[i] \in Events
  BY <1>1, <1>3, ElementOfSeq
<1> QED BY <1>1, <1>2, <1>3, <1>4 DEF Events

LEMMA FaultTyped == ASSUME TypeOK, UNCHANGED faults \/ Fault PROVE faults' \in 0 .. MaxFaults
BY OutcomeAssumption DEF TypeOK, Fault

\* A market that is settled stays settled, and one that is listed stays listed.
LEMMA ExchangeKeeps ==
    ASSUME OutcomesInv, NEW m \in Markets, List(m) \/ Settle(m)
    PROVE  OutcomesInv'
<1>1. /\ UNCHANGED <<proc, tickers, fed, stream, settler, metadata, discovery, row, lastUpdate,
                     settlement, faults>>
      /\ status' \in [Markets -> {"unlisted", "open", "settled"}]
      /\ \A k \in Markets : /\ status[k] = "settled" => status'[k] = "settled"
                            /\ status[k] # "unlisted" => status'[k] # "unlisted"
  BY DEF List, Settle, wire, tables, OutcomesInv, TypeOK
<1>2. /\ chan' \in Seq([m : Markets, result : BOOLEAN])
      /\ \A i \in DOMAIN chan' : status'[chan'[i].m] = "settled"
      /\ chan' = chan \/ fed # {}
  <2>1. chan \in Seq([m : Markets, result : BOOLEAN]) /\ Len(chan) \in Nat
    BY EventsTyped DEF OutcomesInv
  <2>2. \A i \in DOMAIN chan : chan[i].m \in Markets
    BY EventsTyped DEF OutcomesInv
  <2>3. CASE chan' = chan
    BY <1>1, <2>1, <2>2, <2>3 DEF OutcomesInv, NothingAhead
  <2>4. CASE Settle(m) /\ m \in fed
    <3>1. PICK e \in [m : Markets, result : BOOLEAN] : e.m = m /\ chan' = Append(chan, e)
      BY <2>4 DEF Settle
    <3>2. /\ chan' \in Seq([m : Markets, result : BOOLEAN]) /\ DOMAIN chan' = 1 .. Len(chan) + 1
          /\ chan'[Len(chan) + 1] = e
          /\ \A i \in 1 .. Len(chan) : chan'[i] = chan[i] /\ i \in DOMAIN chan
      BY <2>1, <3>1, AppendProperties
    <3>3. status'[m] = "settled"
      BY <2>4 DEF Settle, OutcomesInv, TypeOK
    <3> QED BY <1>1, <2>2, <2>4, <3>1, <3>2, <3>3 DEF OutcomesInv, NothingAhead
  <2> QED BY <2>3, <2>4 DEF List, Settle, wire
<1>3. TypeOK'
  BY <1>1, <1>2 DEF OutcomesInv, TypeOK
<1>4. ConnectedWhenUp' /\ NothingLeft' /\ AnsweredOnce' /\ AppendsForward'
  BY <1>1, <1>2 DEF OutcomesInv, ConnectedWhenUp, NothingLeft, AnsweredOnce, AppendsForward
<1>5. NothingAhead'
  <2>1. /\ tickers \subseteq Markets /\ settler.left \subseteq tickers
        /\ stream.pc = "upsert" => stream.m \in Markets
        /\ \A p \in metadata.left : p[1] \in Markets
        /\ metadata.pc = "append" => metadata.at[1] \in Markets
    BY DEF OutcomesInv, TypeOK, Pairs
  <2> QED BY <1>1, <1>2, <2>1 DEF OutcomesInv, NothingAhead
<1> QED BY <1>3, <1>4, <1>5 DEF OutcomesInv

------------------------------------------------------------------------------
(* The process and its connection *)

\* Before a process has its tasks nothing is on its way to the tables.
LEMMA BeginKeeps == OutcomesInv /\ Begin => OutcomesInv'
<1> SUFFICES ASSUME OutcomesInv, Begin PROVE OutcomesInv'
  OBVIOUS
<1>1. /\ proc = "down" /\ proc' = "starting"
      /\ UNCHANGED <<status, fed, chan, stream, settler, metadata, discovery, row, lastUpdate,
                     settlement, faults>>
  BY DEF Begin, wire, tables
<1>2. tickers' \subseteq Markets /\ \A m \in tickers' : status[m] = "open"
  BY DEF Begin
<1>3. /\ fed = {} /\ chan = <<>> /\ stream = NoEvent
      /\ settler.pc = "none" /\ metadata.pc = "none" /\ discovery.pc = "none"
      /\ settler.left = {} /\ metadata.left = {} /\ discovery.left = {}
  BY <1>1 DEF OutcomesInv, TypeOK, ConnectedWhenUp, NothingLeft
<1>4. settler \in [pc : {"none", "dead", "idle", "upsert"}, left : SUBSET tickers']
  BY <1>3 DEF OutcomesInv, TypeOK
<1>5. TypeOK'
  BY <1>1, <1>2, <1>3, <1>4 DEF OutcomesInv, TypeOK
<1>6. ConnectedWhenUp' /\ NothingLeft' /\ AnsweredOnce' /\ AppendsForward'
  BY <1>1, <1>3 DEF OutcomesInv, ConnectedWhenUp, NothingLeft, AnsweredOnce, AppendsForward
<1>7. NothingAhead'
  BY <1>1, <1>2, <1>3 DEF OutcomesInv, NothingAhead
<1> QED BY <1>5, <1>6, <1>7 DEF OutcomesInv

LEMMA RunKeeps == OutcomesInv /\ Run => OutcomesInv'
<1> SUFFICES ASSUME OutcomesInv, Run PROVE OutcomesInv'
  OBVIOUS
<1>1. /\ proc = "starting" /\ proc' = "up"
      /\ row' = [m \in Markets |-> IF m \in tickers THEN "open" ELSE row[m]]
      /\ settler' = Idle /\ metadata' = IdleMetadata /\ discovery' = Idle
      /\ UNCHANGED <<status, tickers, fed, chan, stream, lastUpdate, settlement, faults>>
  BY DEF Run, wire
<1>2. row' \in [Markets -> Statuses]
  BY <1>1 DEF OutcomesInv, TypeOK, Statuses
<1>3. TypeOK'
  BY <1>1, <1>2, IdleTasksTyped DEF OutcomesInv, TypeOK
<1>4. ConnectedWhenUp' /\ NothingLeft' /\ AnsweredOnce' /\ AppendsForward'
  BY <1>1, IdleTasksTyped
  DEF OutcomesInv, ConnectedWhenUp, NothingLeft, AnsweredOnce, AppendsForward
<1>5. NothingAhead'
  BY <1>1, IdleTasksTyped DEF OutcomesInv, NothingAhead
<1> QED BY <1>3, <1>4, <1>5 DEF OutcomesInv

LEMMA CrashKeeps == OutcomesInv /\ Crash => OutcomesInv'
<1> SUFFICES ASSUME OutcomesInv, Crash PROVE OutcomesInv'
  OBVIOUS
<1>1. /\ proc' = "down" /\ tickers' = {} /\ fed' = {} /\ chan' = <<>> /\ stream' = NoEvent
      /\ settler' = NoTask /\ metadata' = NoMetadata /\ discovery' = NoTask
      /\ UNCHANGED <<status, row, lastUpdate, settlement>>
  BY DEF Crash, tables
<1>2. chan' \in Seq([m : Markets, result : BOOLEAN]) /\ DOMAIN chan' = {}
  BY <1>1, EmptySeq
<1>3. faults' \in 0 .. MaxFaults
  BY FaultTyped DEF Crash, OutcomesInv
<1>4. TypeOK'
  BY <1>1, <1>2, <1>3, IdleTasksTyped DEF OutcomesInv, TypeOK
<1>5. ConnectedWhenUp' /\ NothingLeft' /\ AnsweredOnce' /\ AppendsForward'
  BY <1>1, IdleTasksTyped
  DEF OutcomesInv, ConnectedWhenUp, NothingLeft, AnsweredOnce, AppendsForward
<1>6. NothingAhead'
  BY <1>1, <1>2, IdleTasksTyped DEF OutcomesInv, NothingAhead
<1> QED BY <1>4, <1>5, <1>6 DEF OutcomesInv

\* What arrives of the events in flight is what was in flight.
LEMMA WireKeeps ==
    ASSUME OutcomesInv, Feed \/ Disconnect \/ Receive \/ StreamError
    PROVE  OutcomesInv'
<1>1. UNCHANGED <<status, proc, tickers, settler, metadata, discovery, row, lastUpdate, settlement>>
  BY DEF Feed, Disconnect, Receive, StreamError, tables
<1>2. proc = "up" /\ fed' \subseteq tickers
  BY IdleTasksTyped
  DEF Feed, Disconnect, Receive, StreamError, OutcomesInv, TypeOK, ConnectedWhenUp
<1>3. faults' \in 0 .. MaxFaults
  BY FaultTyped DEF Feed, Disconnect, Receive, StreamError, OutcomesInv
<1>4. /\ chan \in Seq([m : Markets, result : BOOLEAN]) /\ Len(chan) \in Nat
      /\ \A i \in DOMAIN chan : chan[i] \in [m : Markets, result : BOOLEAN]
      /\ \A i \in DOMAIN chan : chan[i].m \in Markets
  BY EventsTyped DEF OutcomesInv
<1>5. /\ chan' \in Seq([m : Markets, result : BOOLEAN])
      /\ \A i \in DOMAIN chan' : \E j \in DOMAIN chan : chan'[i] = chan[j]
  <2>1. CASE chan' = chan
    BY <1>4, <2>1
  <2>2. CASE chan # <<>> /\ chan' = Tail(chan)
    <3>1. /\ chan' \in Seq([m : Markets, result : BOOLEAN])
          /\ \A i \in DOMAIN chan' : i + 1 \in DOMAIN chan /\ chan'[i] = chan[i + 1]
      BY <1>4, <2>2, HeadTailProperties, LenProperties
    <3> QED BY <3>1
  <2>3. CASE \E k \in 0 .. Len(chan) : chan' = SubSeq(chan, 1, k)
    <3>1. PICK k \in 0 .. Len(chan) : chan' = SubSeq(chan, 1, k)
      BY <2>3
    <3>2. /\ chan' \in Seq([m : Markets, result : BOOLEAN])
          /\ \A i \in DOMAIN chan' : i \in DOMAIN chan /\ chan'[i] = chan[i]
      BY <1>4, <3>1, SubSeqProperties, LenProperties
    <3> QED BY <3>2
  <2> QED BY <2>1, <2>2, <2>3 DEF Feed, Disconnect, Receive, StreamError
<1>6. /\ stream' \in [pc : {"idle", "upsert"}, m : Markets \cup {None}, result : BOOLEAN]
      /\ stream'.pc = "upsert" => stream'.m \in Markets /\ status[stream'.m] = "settled"
  <2>1. CASE Receive
    <3>1. Head(chan) = chan[1] /\ 1 \in DOMAIN chan
      BY <1>4, <2>1, HeadTailProperties, LenProperties DEF Receive
    <3>2. PICK e \in [m : Markets, result : BOOLEAN] : e = Head(chan)
      BY <1>4, <3>1
    <3>3. stream' = [pc |-> "upsert", m |-> e.m, result |-> e.result] /\ status[e.m] = "settled"
      BY <2>1, <3>1, <3>2 DEF Receive, OutcomesInv, NothingAhead
    <3> QED BY <3>2, <3>3
  <2>2. CASE UNCHANGED stream
    BY <2>2 DEF OutcomesInv, TypeOK, NothingAhead
  <2>3. CASE stream' = NoEvent
    BY <2>3, IdleTasksTyped
  <2> QED BY <2>1, <2>2, <2>3 DEF Feed, Disconnect, StreamError
<1>7. TypeOK'
  BY <1>1, <1>2, <1>3, <1>5, <1>6 DEF OutcomesInv, TypeOK
<1>8. ConnectedWhenUp' /\ NothingLeft' /\ AnsweredOnce' /\ AppendsForward'
  BY <1>1, <1>2 DEF OutcomesInv, ConnectedWhenUp, NothingLeft, AnsweredOnce, AppendsForward
<1>9. \A i \in DOMAIN chan' : status'[chan'[i].m] = "settled"
  BY <1>1, <1>5 DEF OutcomesInv, NothingAhead
<1>10. NothingAhead'
  BY <1>1, <1>6, <1>9 DEF OutcomesInv, NothingAhead
<1> QED BY <1>7, <1>8, <1>10 DEF OutcomesInv

------------------------------------------------------------------------------
(* Settlements *)

\* A settlement is only stored for a market that is settled.
LEMMA UpsertSettlementTyped ==
    ASSUME OutcomesInv, NEW m \in Markets, NEW result, UpsertSettlement(m, result),
           status[m] = "settled"
    PROVE  /\ settlement' \in [Markets -> {"none", "unknown", "final"}]
           /\ \A k \in Markets : settlement'[k] # "none" => status[k] = "settled"
<1>1. settlement \in [Markets -> {"none", "unknown", "final"}]
  BY DEF OutcomesInv, TypeOK
<1>2. \E r \in {"unknown", "final"} : settlement' = [settlement EXCEPT ![m] = r]
  BY DEF UpsertSettlement
<1> QED BY <1>1, <1>2 DEF OutcomesInv, NothingAhead

LEMMA StreamUpsertKeeps == OutcomesInv /\ StreamUpsert => OutcomesInv'
<1> SUFFICES ASSUME OutcomesInv, StreamUpsert PROVE OutcomesInv'
  OBVIOUS
<1>1. /\ UNCHANGED <<status, proc, tickers, fed, chan, settler, metadata, discovery, row,
                     lastUpdate, faults>>
      /\ stream' = NoEvent
  BY DEF StreamUpsert, wire
<1>2. stream.m \in Markets /\ status[stream.m] = "settled"
      /\ UpsertSettlement(stream.m, stream.result)
  BY DEF StreamUpsert, OutcomesInv, TypeOK, NothingAhead
<1>3. /\ settlement' \in [Markets -> {"none", "unknown", "final"}]
      /\ \A k \in Markets : settlement'[k] # "none" => status[k] = "settled"
  BY <1>2, UpsertSettlementTyped
<1>4. TypeOK'
  BY <1>1, <1>3, IdleTasksTyped DEF OutcomesInv, TypeOK
<1>5. ConnectedWhenUp' /\ NothingLeft' /\ AnsweredOnce' /\ AppendsForward'
  BY <1>1 DEF OutcomesInv, ConnectedWhenUp, NothingLeft, AnsweredOnce, AppendsForward
<1>6. NothingAhead'
  BY <1>1, <1>3, IdleTasksTyped DEF OutcomesInv, NothingAhead
<1> QED BY <1>4, <1>5, <1>6 DEF OutcomesInv

LEMMA SettlerKeeps ==
    ASSUME OutcomesInv, SettlerStep \/ SettlerError
    PROVE  OutcomesInv'
<1>1. UNCHANGED <<status, proc, tickers, fed, chan, stream, metadata, discovery, row, lastUpdate>>
  BY DEF SettlerStep, SettlerAnswer, SettlerUpsert, SettlerError, wire, tables
<1>2. faults' \in 0 .. MaxFaults
  BY FaultTyped DEF SettlerStep, SettlerAnswer, SettlerUpsert, SettlerError, OutcomesInv
<1>3. settler \in [pc : {"none", "dead", "idle", "upsert"}, left : SUBSET tickers]
      /\ tickers \subseteq Markets /\ settler.pc # "none"
  BY DEF SettlerStep, SettlerAnswer, SettlerUpsert, SettlerError, OutcomesInv, TypeOK
<1>4. /\ settler' \in [pc : {"dead", "idle", "upsert"}, left : SUBSET tickers]
      /\ settler'.pc # "upsert" => settler'.left = {}
      /\ \A m \in settler'.left : status[m] = "settled"
  <2>1. CASE SettlerAnswer
    <3> DEFINE finalized == {m \in tickers : status[m] = "settled"}
    <3>1. settler' = Idle \/ settler' = [pc |-> "upsert", left |-> finalized]
      BY <2>1 DEF SettlerAnswer
    <3> QED BY <3>1 DEF Idle
  <2>2. CASE \E m \in Markets : SettlerUpsert(m)
    <3>1. PICK m \in Markets : SettlerUpsert(m)
      BY <2>2
    <3>2. settler' = Idle \/ settler' = [settler EXCEPT !.left = @ \ {m}]
      BY <3>1 DEF SettlerUpsert
    <3>3. settler.pc = "upsert" /\ \A k \in settler.left : status[k] = "settled"
      BY <3>1 DEF SettlerUpsert, OutcomesInv, NothingAhead
    <3> QED BY <1>3, <3>2, <3>3 DEF Idle
  <2>3. CASE SettlerError
    BY <2>3 DEF SettlerError, Dead
  <2> QED BY <2>1, <2>2, <2>3 DEF SettlerStep
<1>5. /\ settlement' \in [Markets -> {"none", "unknown", "final"}]
      /\ \A k \in Markets : settlement'[k] # "none" => status[k] = "settled"
  <2>1. CASE UNCHANGED settlement
    BY <2>1 DEF OutcomesInv, TypeOK, NothingAhead
  <2>2. CASE \E m \in Markets : SettlerUpsert(m)
    <3>1. PICK m \in Markets : SettlerUpsert(m)
      BY <2>2
    <3>2. UpsertSettlement(m, TRUE) /\ status[m] = "settled"
      BY <3>1 DEF SettlerUpsert, OutcomesInv, NothingAhead
    <3> QED BY <3>2, UpsertSettlementTyped
  <2> QED BY <2>1, <2>2 DEF SettlerStep, SettlerAnswer, SettlerError, tables
<1>6. TypeOK'
  BY <1>1, <1>2, <1>3, <1>4, <1>5 DEF OutcomesInv, TypeOK
<1>7. ConnectedWhenUp' /\ NothingLeft' /\ AnsweredOnce' /\ AppendsForward'
  BY <1>1, <1>4 DEF OutcomesInv, ConnectedWhenUp, NothingLeft, AnsweredOnce, AppendsForward
<1>8. NothingAhead'
  BY <1>1, <1>4, <1>5 DEF OutcomesInv, NothingAhead
<1> QED BY <1>6, <1>7, <1>8 DEF OutcomesInv

------------------------------------------------------------------------------
(* Discovery *)

LEMMA DiscoveryKeeps ==
    ASSUME OutcomesInv, DiscoveryStep \/ DiscoveryError
    PROVE  OutcomesInv'
<1>1. UNCHANGED <<status, proc, tickers, fed, chan, stream, settler, metadata, lastUpdate,
                  settlement>>
  BY DEF DiscoveryStep, DiscoveryAnswer, DiscoveryUpsert, DiscoveryError, wire, tables
<1>2. faults' \in 0 .. MaxFaults
  BY FaultTyped DEF DiscoveryStep, DiscoveryAnswer, DiscoveryUpsert, DiscoveryError, OutcomesInv
<1>3. /\ discovery' \in [pc : {"dead", "idle", "upsert"}, left : SUBSET Markets]
      /\ discovery'.pc # "upsert" => discovery'.left = {}
  BY DEF DiscoveryStep, DiscoveryAnswer, DiscoveryUpsert, DiscoveryError, Idle, Dead
<1>4. discovery.pc # "none"
  BY DEF DiscoveryStep, DiscoveryAnswer, DiscoveryUpsert, DiscoveryError
<1>5. /\ row' \in [Markets -> Statuses]
      /\ \A k \in Markets : row'[k] = "settled" => status[k] = "settled"
  <2>1. row' = row \/ \E m \in Markets : row' = [row EXCEPT ![m] = "open"]
    BY DEF DiscoveryStep, DiscoveryAnswer, DiscoveryUpsert, DiscoveryError, tables
  <2> QED BY <2>1 DEF OutcomesInv, TypeOK, NothingAhead, Statuses
<1>6. TypeOK'
  BY <1>1, <1>2, <1>3, <1>4, <1>5 DEF OutcomesInv, TypeOK
<1>7. ConnectedWhenUp' /\ NothingLeft' /\ AnsweredOnce' /\ AppendsForward'
  BY <1>1, <1>3 DEF OutcomesInv, ConnectedWhenUp, NothingLeft, AnsweredOnce, AppendsForward
<1>8. NothingAhead'
  BY <1>1, <1>5 DEF OutcomesInv, NothingAhead
<1> QED BY <1>6, <1>7, <1>8 DEF OutcomesInv

------------------------------------------------------------------------------
(* Metadata *)

LEMMA PairsSplit == \A p \in Pairs : /\ p[1] \in Markets /\ p[2] \in {"open", "settled"}
                                     /\ p = <<p[1], p[2]>>
BY DEF Pairs

\* The answer has each market as it is now, so nothing that was appended is newer.
LEMMA MetadataAnswerKeeps == OutcomesInv /\ MetadataAnswer => OutcomesInv'
<1> SUFFICES ASSUME OutcomesInv, MetadataAnswer PROVE OutcomesInv'
  OBVIOUS
<1> DEFINE answer == {<<m, status[m]>> : m \in tickers}
<1>1. /\ metadata.pc = "idle"
      /\ metadata' = [metadata EXCEPT !.pc = "upsert", !.left = answer]
      /\ UNCHANGED <<status, proc, tickers, fed, chan, stream, settler, discovery, row, lastUpdate,
                     settlement, faults>>
  BY DEF MetadataAnswer, wire, tables
<1>2. answer \subseteq Pairs /\ \A p \in answer : p[2] = status[p[1]]
  <2>1. \A m \in tickers : m \in Markets /\ status[m] \in {"open", "settled"}
    BY DEF OutcomesInv, TypeOK, NothingAhead
  <2> QED BY <2>1 DEF Pairs
<1>3. \A p, q \in answer : p[1] = q[1] => p = q
  BY <1>2, PairsSplit
<1> HIDE DEF answer
<1>4. /\ metadata' \in [pc : {"none", "dead", "idle", "upsert", "append"}, left : SUBSET Pairs,
                        at : Pairs \cup {<<>>}]
      /\ metadata'.pc = "upsert" /\ metadata'.left = answer
  BY <1>1, <1>2 DEF OutcomesInv, TypeOK
<1>5. TypeOK'
  BY <1>1, <1>4 DEF OutcomesInv, TypeOK
<1>6. ConnectedWhenUp' /\ NothingLeft' /\ AnsweredOnce'
  BY <1>1, <1>3, <1>4 DEF OutcomesInv, ConnectedWhenUp, NothingLeft, AnsweredOnce
<1>7. NothingAhead'
  BY <1>1, <1>2, <1>4 DEF OutcomesInv, NothingAhead
<1>8. AppendsForward'
  <2>1. \A m \in Markets : <<m, "open">> \in answer => status[m] = "open"
    BY <1>2
  <2> QED BY <1>1, <1>4, <2>1 DEF OutcomesInv, AppendsForward, NothingAhead
<1> QED BY <1>5, <1>6, <1>7, <1>8 DEF OutcomesInv

LEMMA MetadataUpsertKeeps ==
    ASSUME OutcomesInv, NEW m \in Markets, NEW s \in {"open", "settled"}, MetadataUpsert(m, s)
    PROVE  OutcomesInv'
<1> DEFINE rest == metadata.left \ {<<m, s>>}
<1>1. /\ metadata.pc = "upsert" /\ <<m, s>> \in metadata.left
      /\ \/ /\ row' = [row EXCEPT ![m] = s]
            /\ metadata' = [pc |-> "append", left |-> rest, at |-> <<m, s>>]
         \/ row' = row /\ metadata' = DeadMetadata
      /\ UNCHANGED <<status, proc, tickers, fed, chan, stream, settler, discovery, lastUpdate,
                     settlement, faults>>
  BY DEF MetadataUpsert, wire
<1>2. <<m, s>> \in Pairs /\ metadata.left \subseteq Pairs /\ (s = "settled" => status[m] = "settled")
  BY <1>1 DEF OutcomesInv, TypeOK, NothingAhead, Pairs
<1>3. row' \in [Markets -> Statuses] /\ \A k \in Markets : row'[k] = "settled" => status[k] = "settled"
  BY <1>1, <1>2 DEF OutcomesInv, TypeOK, NothingAhead, Statuses
<1>4. CASE metadata' = DeadMetadata
  <2>1. TypeOK'
    BY <1>1, <1>3, <1>4, IdleTasksTyped DEF OutcomesInv, TypeOK
  <2>2. ConnectedWhenUp' /\ NothingLeft' /\ AnsweredOnce' /\ AppendsForward'
    BY <1>1, <1>4, IdleTasksTyped
    DEF OutcomesInv, ConnectedWhenUp, NothingLeft, AnsweredOnce, AppendsForward
  <2>3. NothingAhead'
    BY <1>1, <1>3, <1>4, IdleTasksTyped DEF OutcomesInv, NothingAhead
  <2> QED BY <2>1, <2>2, <2>3 DEF OutcomesInv
<1>5. CASE metadata' = [pc |-> "append", left |-> rest, at |-> <<m, s>>]
  <2>1. /\ metadata'.pc = "append" /\ metadata'.left = rest /\ metadata'.at = <<m, s>>
        /\ metadata'.at[1] = m /\ metadata'.at[2] = s
    BY <1>5
  <2>2. metadata' \in [pc : {"none", "dead", "idle", "upsert", "append"}, left : SUBSET Pairs,
                       at : Pairs \cup {<<>>}]
    BY <1>2, <1>5
  <2>3. TypeOK'
    BY <1>1, <1>3, <2>1, <2>2 DEF OutcomesInv, TypeOK
  <2>4. ConnectedWhenUp' /\ NothingLeft'
    BY <1>1, <2>1 DEF OutcomesInv, ConnectedWhenUp, NothingLeft
  <2>5. AnsweredOnce'
    BY <1>1, <2>1 DEF OutcomesInv, AnsweredOnce
  <2>6. AppendsForward'
    BY <1>1, <2>1 DEF OutcomesInv, AppendsForward
  <2>7. NothingAhead'
    BY <1>1, <1>2, <1>3, <2>1 DEF OutcomesInv, NothingAhead
  <2> QED BY <2>3, <2>4, <2>5, <2>6, <2>7 DEF OutcomesInv
<1> QED BY <1>1, <1>4, <1>5

\* The update appended is the one the invariant looks after; nothing else of its answer
\* is about its market.
LEMMA MetadataAppendKeeps ==
    ASSUME OutcomesInv, MetadataAppend
    PROVE  /\ OutcomesInv'
           /\ \A m \in Markets : lastUpdate[m] = "settled" => lastUpdate'[m] = "settled"
<1>1. PICK p \in Pairs : p = metadata.at
  BY DEF OutcomesInv, TypeOK, MetadataAppend
<1>2. /\ metadata.pc = "append"
      /\ lastUpdate' = [lastUpdate EXCEPT ![p[1]] = p[2]]
      /\ metadata' = IF metadata.left = {} THEN IdleMetadata ELSE [metadata EXCEPT !.pc = "upsert"]
      /\ UNCHANGED <<status, proc, tickers, fed, chan, stream, settler, discovery, row, settlement,
                     faults>>
  BY <1>1 DEF MetadataAppend, wire
<1>3. /\ p[1] \in Markets /\ p[2] \in {"open", "settled"} /\ p = <<p[1], p[2]>>
      /\ p[2] = "settled" => status[p[1]] = "settled"
      /\ lastUpdate[p[1]] = "settled" => p[2] = "settled"
      /\ \A q \in metadata.left : q[1] # p[1]
  BY <1>1, <1>2, PairsSplit DEF OutcomesInv, NothingAhead, AppendsForward, AnsweredOnce
<1>4. /\ lastUpdate' \in [Markets -> Statuses]
      /\ \A k \in Markets : lastUpdate'[k] = IF k = p[1] THEN p[2] ELSE lastUpdate[k]
  BY <1>2, <1>3 DEF OutcomesInv, TypeOK, Statuses
<1>5. /\ metadata' \in [pc : {"none", "dead", "idle", "upsert", "append"}, left : SUBSET Pairs,
                        at : Pairs \cup {<<>>}]
      /\ metadata'.pc \in {"idle", "upsert"} /\ metadata'.left = metadata.left
      /\ metadata'.pc = "idle" => metadata'.left = {}
  <2>1. CASE metadata.left = {}
    BY <1>2, <2>1, IdleTasksTyped
  <2>2. CASE metadata.left # {}
    BY <1>2, <2>2 DEF OutcomesInv, TypeOK
  <2> QED BY <2>1, <2>2
<1>6. TypeOK'
  BY <1>2, <1>4, <1>5 DEF OutcomesInv, TypeOK
<1>7. ConnectedWhenUp' /\ NothingLeft' /\ AnsweredOnce'
  BY <1>2, <1>5 DEF OutcomesInv, ConnectedWhenUp, NothingLeft, AnsweredOnce
<1>8. NothingAhead'
  BY <1>2, <1>3, <1>4, <1>5 DEF OutcomesInv, NothingAhead
<1>9. AppendsForward'
  <2> SUFFICES ASSUME NEW m \in Markets, lastUpdate'[m] = "settled"
               PROVE  <<m, "open">> \notin metadata.left
    BY <1>5 DEF AppendsForward
  <2>1. CASE m = p[1]
    BY <1>3, <2>1
  <2>2. CASE m # p[1]
    BY <1>4, <2>2 DEF OutcomesInv, AppendsForward
  <2> QED BY <2>1, <2>2
<1> QED BY <1>3, <1>4, <1>6, <1>7, <1>8, <1>9 DEF OutcomesInv

LEMMA MetadataErrorKeeps == OutcomesInv /\ MetadataError => OutcomesInv'
<1> SUFFICES ASSUME OutcomesInv, MetadataError PROVE OutcomesInv'
  OBVIOUS
<1>1. /\ metadata' = DeadMetadata /\ metadata.pc # "none"
      /\ UNCHANGED <<status, proc, tickers, fed, chan, stream, settler, discovery, row, lastUpdate,
                     settlement>>
  BY DEF MetadataError, wire, tables
<1>2. faults' \in 0 .. MaxFaults
  BY FaultTyped DEF MetadataError, OutcomesInv
<1>3. TypeOK'
  BY <1>1, <1>2, IdleTasksTyped DEF OutcomesInv, TypeOK
<1>4. ConnectedWhenUp' /\ NothingLeft' /\ AnsweredOnce' /\ AppendsForward'
  BY <1>1, IdleTasksTyped
  DEF OutcomesInv, ConnectedWhenUp, NothingLeft, AnsweredOnce, AppendsForward
<1>5. NothingAhead'
  BY <1>1, IdleTasksTyped DEF OutcomesInv, NothingAhead
<1> QED BY <1>3, <1>4, <1>5 DEF OutcomesInv

------------------------------------------------------------------------------
(* Theorems *)

LEMMA InitHolds == Init => OutcomesInv
<1> SUFFICES ASSUME Init PROVE OutcomesInv
  OBVIOUS
<1>1. chan \in Seq([m : Markets, result : BOOLEAN]) /\ DOMAIN chan = {}
  BY EmptySeq DEF Init
<1>2. faults \in 0 .. MaxFaults
  BY OutcomeAssumption DEF Init
<1>3. TypeOK
  BY <1>1, <1>2, IdleTasksTyped DEF Init, TypeOK, Statuses
<1>4. ConnectedWhenUp /\ NothingLeft /\ AnsweredOnce /\ AppendsForward
  BY IdleTasksTyped DEF Init, ConnectedWhenUp, NothingLeft, AnsweredOnce, AppendsForward
<1>5. NothingAhead
  BY <1>1, IdleTasksTyped DEF Init, NothingAhead
<1> QED BY <1>3, <1>4, <1>5 DEF OutcomesInv

LEMMA NextKeeps == OutcomesInv /\ [Next]_vars => OutcomesInv'
<1> SUFFICES ASSUME OutcomesInv, [Next]_vars PROVE OutcomesInv'
  OBVIOUS
<1>1. CASE \E m \in Markets : List(m) \/ Settle(m)
  BY <1>1, ExchangeKeeps
<1>2. CASE Begin \/ Run \/ Crash
  BY <1>2, BeginKeeps, RunKeeps, CrashKeeps
<1>3. CASE Feed \/ Disconnect \/ Receive \/ StreamError
  BY <1>3, WireKeeps
<1>4. CASE StreamUpsert
  BY <1>4, StreamUpsertKeeps
<1>5. CASE SettlerStep \/ SettlerError
  BY <1>5, SettlerKeeps
<1>6. CASE MetadataStep \/ MetadataError
  BY <1>6, MetadataAnswerKeeps, MetadataUpsertKeeps, MetadataAppendKeeps, MetadataErrorKeeps
  DEF MetadataStep
<1>7. CASE DiscoveryStep \/ DiscoveryError
  BY <1>7, DiscoveryKeeps
<1>8. CASE UNCHANGED vars
  BY <1>8 DEF vars, wire, tables, OutcomesInv, TypeOK, ConnectedWhenUp, NothingLeft, NothingAhead,
              AnsweredOnce, AppendsForward
<1> QED BY <1>1, <1>2, <1>3, <1>4, <1>5, <1>6, <1>7, <1>8 DEF Next

\* The inductive invariant holds in every state that is reached.
THEOREM Invariant == Spec => []OutcomesInv
<1>1. Init => OutcomesInv
  BY InitHolds
<1>2. OutcomesInv /\ [Next]_vars => OutcomesInv'
  BY NextKeeps
<1> QED BY <1>1, <1>2, PTL DEF Spec

\* Every variable has its type, and tasks only run in a process that is up.
THEOREM TypeCorrect == Spec => []TypeOK
<1>1. OutcomesInv => TypeOK
  BY DEF OutcomesInv
<1> QED BY <1>1, Invariant, PTL

\* No event, answer or row says that a market is settled before the exchange does, and
\* no settlement is stored for a market that is not: whatever is late or repeated.
THEOREM TablesNeverAhead == Spec => []NothingAhead
<1>1. OutcomesInv => NothingAhead
  BY DEF OutcomesInv
<1> QED BY <1>1, Invariant, PTL

\* market_updates never goes back on a settled market, over every restart of its writer.
THEOREM UpdatesNeverBack == Spec => UpdatesForward
<1>1. ASSUME OutcomesInv, [Next]_vars
      PROVE  [\A m \in Markets : lastUpdate[m] = "settled" => lastUpdate'[m] = "settled"]_vars
  <2>1. CASE MetadataAppend
    BY <1>1, <2>1, MetadataAppendKeeps
  <2>2. CASE UNCHANGED lastUpdate
    BY <2>2
  <2>3. CASE UNCHANGED vars
    BY <2>3
  <2> QED BY <1>1, <2>1, <2>2, <2>3
          DEF Next, List, Settle, Begin, Run, Crash, Feed, Disconnect, Receive, StreamUpsert,
              StreamError, SettlerStep, SettlerAnswer, SettlerUpsert, SettlerError, MetadataStep,
              MetadataAnswer, MetadataUpsert, MetadataError, DiscoveryStep, DiscoveryAnswer,
              DiscoveryUpsert, DiscoveryError, tables
<1> QED BY <1>1, Invariant, PTL DEF Spec, UpdatesForward
=============================================================================
