---------------------------- MODULE MarketOutcomes ----------------------------
(***************************************************************************)
(* How the end of a market reaches the tables: the settlement task         *)
(* (collectors/settlements.py), the metadata task and the lifecycle events *)
(* (collectors/metadata.py), and discovery, which all write about the same *)
(* markets through storage/writers.py.  A step ends where the code awaits. *)
(*                                                                         *)
(* External: status[m], where market m is at the exchange: unlisted, open  *)
(* or settled (finalized, with a result).                                  *)
(*                                                                         *)
(* Program state:                                                          *)
(*   proc        the process: down, starting (the initial discovery has    *)
(*               its answer), up                                           *)
(*   tickers     the list the two polling tasks are given, at startup      *)
(*   fed, chan   markets streamed on market_lifecycle_v2; settled events   *)
(*               in flight                                                 *)
(*   stream      the lifecycle handler; settler, metadata, discovery: the  *)
(*               tasks, each at the await it is at, with the part of the   *)
(*               answer still to store; dead when an exception ended it    *)
(*   row         table markets, column status                              *)
(*   lastUpdate  the newest row of table market_updates                    *)
(*   settlement  table settlements, column result: final, or unknown       *)
(* faults counts what went wrong.                                          *)
(***************************************************************************)
EXTENDS Integers, Sequences

CONSTANTS Markets, None,
          CarrySeries,   \* answers of GET /markets carry series_ticker
          MaxFaults      \* bound on faults

ASSUME OutcomeAssumption == None \notin Markets /\ CarrySeries \in BOOLEAN /\ MaxFaults \in Nat

VARIABLES status, proc, tickers, fed, chan, stream, settler, metadata, discovery,
          row, lastUpdate, settlement, faults

wire == <<fed, chan>>
tables == <<row, lastUpdate, settlement>>
vars == <<status, proc, tickers, wire, stream, settler, metadata, discovery, tables, faults>>

Idle == [pc |-> "idle", left |-> {}]
Dead == [pc |-> "dead", left |-> {}]
NoTask == [pc |-> "none", left |-> {}]
IdleMetadata == [pc |-> "idle", left |-> {}, at |-> <<>>]
DeadMetadata == [IdleMetadata EXCEPT !.pc = "dead"]
NoMetadata == [IdleMetadata EXCEPT !.pc = "none"]
NoEvent == [pc |-> "idle", m |-> None, result |-> FALSE]

\* A connection, process, request, statement or frame fails.
Fault == faults < MaxFaults /\ faults' = faults + 1

Init ==
    /\ status \in [Markets -> {"unlisted", "open"}]
    /\ proc = "down" /\ tickers = {}
    /\ fed = {} /\ chan = <<>> /\ stream = NoEvent
    /\ settler = NoTask /\ metadata = NoMetadata /\ discovery = NoTask
    /\ row = [m \in Markets |-> "none"]
    /\ lastUpdate = [m \in Markets |-> "none"]
    /\ settlement = [m \in Markets |-> "none"]
    /\ faults = 0

------------------------------------------------------------------------------
(* The exchange *)

List(m) ==
    /\ status[m] = "unlisted"
    /\ status' = [status EXCEPT ![m] = "open"]
    /\ UNCHANGED <<proc, tickers, wire, stream, settler, metadata, discovery, tables, faults>>

\* A market is settled; the event may leave the result out.
Settle(m) ==
    /\ status[m] = "open"
    /\ status' = [status EXCEPT ![m] = "settled"]
    /\ IF m \in fed
       THEN \E result \in BOOLEAN : chan' = Append(chan, [m |-> m, result |-> result])
       ELSE UNCHANGED chan
    /\ UNCHANGED <<proc, tickers, fed, stream, settler, metadata, discovery, tables, faults>>

------------------------------------------------------------------------------
(* The process and its connection *)

\* The initial discovery gets its answer: open markets, as far as requests succeed.
Begin ==
    /\ proc = "down"
    /\ proc' = "starting"
    /\ \E found \in SUBSET {m \in Markets : status[m] = "open"} : tickers' = found
    /\ UNCHANGED <<status, wire, stream, settler, metadata, discovery, tables, faults>>

\* It stores them, and the tasks start.
Run ==
    /\ proc = "starting"
    /\ proc' = "up"
    /\ row' = [m \in Markets |-> IF m \in tickers THEN "open" ELSE row[m]]
    /\ settler' = Idle /\ metadata' = IdleMetadata /\ discovery' = Idle
    /\ UNCHANGED <<status, tickers, wire, stream, lastUpdate, settlement, faults>>

\* The subscription of the startup markets is in force.
Feed ==
    /\ proc = "up" /\ fed = {} /\ chan = <<>>
    /\ fed' = tickers
    /\ UNCHANGED <<status, proc, tickers, chan, stream, settler, metadata, discovery,
                   tables, faults>>

\* The connection is lost with the events that have not arrived.
Disconnect ==
    /\ fed # {}
    /\ Fault
    /\ fed' = {}
    /\ \E k \in 0 .. Len(chan) : chan' = SubSeq(chan, 1, k)
    /\ UNCHANGED <<status, proc, tickers, stream, settler, metadata, discovery, tables>>

\* Slip: the subscription is taken to outlive the process.
CrashKeepingSubscription ==
    /\ proc # "down"
    /\ Fault
    /\ proc' = "down" /\ tickers' = {} /\ chan' = <<>> /\ stream' = NoEvent
    /\ settler' = NoTask /\ metadata' = NoMetadata /\ discovery' = NoTask
    /\ UNCHANGED <<status, fed, tables>>

\* The process ends, at any await.
Crash ==
    /\ proc # "down"
    /\ Fault
    /\ proc' = "down" /\ tickers' = {}
    /\ fed' = {} /\ chan' = <<>> /\ stream' = NoEvent
    /\ settler' = NoTask /\ metadata' = NoMetadata /\ discovery' = NoTask
    /\ UNCHANGED <<status, tables>>

------------------------------------------------------------------------------
(* MetadataCollector.handle_lifecycle_event *)

Receive ==
    /\ chan # <<>> /\ stream.pc = "idle"
    /\ stream' = [pc |-> "upsert", m |-> Head(chan).m, result |-> Head(chan).result]
    /\ chan' = Tail(chan)
    /\ UNCHANGED <<status, proc, tickers, fed, settler, metadata, discovery, tables, faults>>

\* upsert_settlement: the last writer wins, and a missing result is "unknown".
UpsertSettlement(m, result) ==
    settlement' = [settlement EXCEPT ![m] = IF result THEN "final" ELSE "unknown"]

StreamUpsert ==
    /\ stream.pc = "upsert"
    /\ UpsertSettlement(stream.m, stream.result)
    /\ stream' = NoEvent
    /\ UNCHANGED <<status, proc, tickers, wire, settler, metadata, discovery, row,
                   lastUpdate, faults>>

\* A frame that does not parse, or a statement that fails: the event is lost.
StreamError ==
    /\ \/ /\ stream.pc = "upsert"
          /\ stream' = NoEvent /\ UNCHANGED chan
       \/ /\ stream.pc = "idle" /\ chan # <<>>
          /\ chan' = Tail(chan) /\ UNCHANGED stream
    /\ Fault
    /\ UNCHANGED <<status, proc, tickers, fed, settler, metadata, discovery, tables>>

------------------------------------------------------------------------------
(* SettlementsCollector.poll_once *)

\* Slip: only markets whose settlement is not stored yet are asked for.
SettlerAnswerOnce ==
    /\ settler.pc = "idle"
    /\ LET finalized == {m \in tickers : status[m] = "settled" /\ settlement[m] = "none"} IN
         settler' = IF finalized = {} THEN Idle ELSE [pc |-> "upsert", left |-> finalized]
    /\ UNCHANGED <<status, proc, tickers, wire, stream, metadata, discovery, tables, faults>>

\* The finalized ones among the tickers, with their results, stored or not.
SettlerAnswer ==
    /\ settler.pc = "idle"
    /\ LET finalized == {m \in tickers : status[m] = "settled"} IN
         settler' = IF finalized = {} THEN Idle ELSE [pc |-> "upsert", left |-> finalized]
    /\ UNCHANGED <<status, proc, tickers, wire, stream, metadata, discovery, tables, faults>>

SettlerUpsert(m) ==
    /\ settler.pc = "upsert" /\ m \in settler.left
    /\ UpsertSettlement(m, TRUE)
    /\ settler' = IF settler.left = {m} THEN Idle ELSE [settler EXCEPT !.left = @ \ {m}]
    /\ UNCHANGED <<status, proc, tickers, wire, stream, metadata, discovery, row,
                   lastUpdate, faults>>

\* A statement or the parsing of a market fails: run() has no handler, and the task
\* is over.
SettlerError ==
    /\ settler.pc \in {"idle", "upsert"}
    /\ Fault
    /\ settler' = Dead
    /\ UNCHANGED <<status, proc, tickers, wire, stream, metadata, discovery, tables>>

------------------------------------------------------------------------------
(* MetadataCollector.poll_once *)

\* The answer: the tickers with the status they have now.
MetadataAnswer ==
    /\ metadata.pc = "idle" /\ tickers # {}
    /\ metadata' = [metadata EXCEPT !.pc = "upsert", !.left = {<<m, status[m]>> : m \in tickers}]
    /\ UNCHANGED <<status, proc, tickers, wire, stream, settler, discovery, tables, faults>>

\* Slip: ON CONFLICT DO NOTHING.
MetadataInsert(m, s) ==
    /\ metadata.pc = "upsert" /\ <<m, s>> \in metadata.left
    /\ row' = [row EXCEPT ![m] = IF @ = "none" THEN s ELSE @]
    /\ metadata' = [pc |-> "append", left |-> metadata.left \ {<<m, s>>}, at |-> <<m, s>>]
    /\ UNCHANGED <<status, proc, tickers, wire, stream, settler, discovery, lastUpdate,
                   settlement, faults>>

\* upsert_market, which needs the series: without one the foreign key fails, and the
\* exception ends the task.
MetadataUpsert(m, s) ==
    /\ metadata.pc = "upsert" /\ <<m, s>> \in metadata.left
    /\ IF CarrySeries
       THEN /\ row' = [row EXCEPT ![m] = s]
            /\ metadata' = [pc |-> "append", left |-> metadata.left \ {<<m, s>>}, at |-> <<m, s>>]
       ELSE UNCHANGED row /\ metadata' = DeadMetadata
    /\ UNCHANGED <<status, proc, tickers, wire, stream, settler, discovery, lastUpdate,
                   settlement, faults>>

\* append_market_update, of the market just upserted.
MetadataAppend ==
    /\ metadata.pc = "append"
    /\ lastUpdate' = [lastUpdate EXCEPT ![metadata.at[1]] = metadata.at[2]]
    /\ metadata' = IF metadata.left = {} THEN IdleMetadata ELSE [metadata EXCEPT !.pc = "upsert"]
    /\ UNCHANGED <<status, proc, tickers, wire, stream, settler, discovery, row,
                   settlement, faults>>

\* A statement or the parsing of a market fails: nothing catches the exception.
MetadataError ==
    /\ metadata.pc \in {"idle", "upsert", "append"}
    /\ Fault
    /\ metadata' = DeadMetadata
    /\ UNCHANGED <<status, proc, tickers, wire, stream, settler, discovery, tables>>

------------------------------------------------------------------------------
(* DiscoveryLoop.run_once, after startup *)

\* A pass gets the markets of an event, one here: an open one, known or new.
DiscoveryAnswer(m) ==
    /\ discovery.pc = "idle" /\ status[m] = "open"
    /\ discovery' = [pc |-> "upsert", left |-> {m}]
    /\ UNCHANGED <<status, proc, tickers, wire, stream, settler, metadata, tables, faults>>

\* Slip: discovery logs an update too.
DiscoveryUpsertLogged(m) ==
    /\ discovery.pc = "upsert" /\ m \in discovery.left
    /\ row' = [row EXCEPT ![m] = "open"]
    /\ lastUpdate' = [lastUpdate EXCEPT ![m] = "open"]
    /\ discovery' = Idle
    /\ UNCHANGED <<status, proc, tickers, wire, stream, settler, metadata, settlement, faults>>

\* upsert_market.  main.py stores a new market once more, with the same status: nobody
\* else writes the row of a market outside the startup list.
DiscoveryUpsert(m) ==
    /\ discovery.pc = "upsert" /\ m \in discovery.left
    /\ row' = [row EXCEPT ![m] = "open"]
    /\ discovery' = Idle
    /\ UNCHANGED <<status, proc, tickers, wire, stream, settler, metadata, lastUpdate,
                   settlement, faults>>

DiscoveryError ==
    /\ discovery.pc \in {"idle", "upsert"}
    /\ Fault
    /\ discovery' = Dead
    /\ UNCHANGED <<status, proc, tickers, wire, stream, settler, metadata, tables>>
------------------------------------------------------------------------------
SettlerStep == SettlerAnswer \/ (\E m \in Markets : SettlerUpsert(m))
MetadataStep ==
    \/ MetadataAnswer \/ MetadataAppend
    \/ \E m \in Markets, s \in {"open", "settled"} : MetadataUpsert(m, s)
DiscoveryStep == \E m \in Markets : DiscoveryAnswer(m) \/ DiscoveryUpsert(m)

Next ==
    \/ \E m \in Markets : List(m) \/ Settle(m)
    \/ Begin \/ Run \/ Crash \/ Feed \/ Disconnect
    \/ Receive \/ StreamUpsert \/ StreamError
    \/ SettlerStep \/ SettlerError
    \/ MetadataStep \/ MetadataError
    \/ DiscoveryStep \/ DiscoveryError

Spec == Init /\ [][Next]_vars

\* The process is restarted, its tasks run on, and the exchange and PostgreSQL answer.
\* A discovery pass ends; that it finds anything is not assumed.
Fairness ==
    /\ WF_vars(Begin) /\ WF_vars(Run)
    /\ WF_vars(Receive) /\ WF_vars(StreamUpsert)
    /\ WF_vars(SettlerStep) /\ WF_vars(MetadataStep)
    /\ WF_vars(\E m \in Markets : DiscoveryUpsert(m))

FairSpec == Spec /\ Fairness

------------------------------------------------------------------------------
(* Properties *)

Pairs == Markets \X {"open", "settled"}
Statuses == {"none", "open", "settled"}

\* Every variable has its type, and tasks only run in a process that is up.
TypeOK ==
    /\ status \in [Markets -> {"unlisted", "open", "settled"}]
    /\ proc \in {"down", "starting", "up"}
    /\ tickers \subseteq Markets /\ fed \subseteq tickers
    /\ chan \in Seq([m : Markets, result : BOOLEAN])
    /\ stream \in [pc : {"idle", "upsert"}, m : Markets \cup {None}, result : BOOLEAN]
    /\ stream.pc = "upsert" => stream.m \in Markets
    /\ settler \in [pc : {"none", "dead", "idle", "upsert"}, left : SUBSET tickers]
    /\ discovery \in [pc : {"none", "dead", "idle", "upsert"}, left : SUBSET Markets]
    /\ metadata \in [pc : {"none", "dead", "idle", "upsert", "append"}, left : SUBSET Pairs,
                     at : Pairs \cup {<<>>}]
    /\ metadata.pc = "append" => metadata.at # <<>>
    /\ row \in [Markets -> Statuses] /\ lastUpdate \in [Markets -> Statuses]
    /\ settlement \in [Markets -> {"none", "unknown", "final"}]
    /\ \A t \in {settler.pc, metadata.pc, discovery.pc} : proc = "up" <=> t # "none"
    /\ faults \in 0 .. MaxFaults

\* market_updates never goes back on a settled market: its one writer appends answers
\* in the order it got them, although markets.status has two writers and may.
UpdatesForward ==
    [][\A m \in Markets : lastUpdate[m] = "settled" => lastUpdate'[m] = "settled"]_vars

\* A settled market of the startup list ends with its final result, as long as the
\* settlement task lives: whatever events were lost, and although an event without a
\* result overwrites a stored result with "unknown".
OutcomeRecorded ==
    \A m \in Markets :
        <>[](m \in tickers /\ status[m] = "settled" /\ settler.pc \notin {"none", "dead"}
               => settlement[m] = "final")

\* Likewise markets.status, as long as the metadata task lives: a discovery pass may
\* write back the older status of its answer, but not for good.
StatusRecorded ==
    \A m \in Markets :
        <>[](m \in tickers /\ status[m] = "settled" /\ metadata.pc \notin {"none", "dead"}
               => row[m] = "settled")

\* settlements.py line 6: the periodic check, on "all known markets", "writes settlements
\* that may have been missed (e.g. during collector downtime)".
OutcomesNotMissed ==
    \A m \in Markets :
        <>[](row[m] # "none" /\ status[m] = "settled" /\ settler.pc \notin {"none", "dead"}
               => settlement[m] = "final")
=============================================================================
