------------------------------ MODULE Catalog ------------------------------
(***************************************************************************)
(* How series, events and markets get into the database: the passes of the *)
(* collector's discovery task (discovery.py and discovery_loop of main.py) *)
(* and scripts/backfill_settlements.py, a process of its own that stores   *)
(* markets that are already settled.  Both walk the same three levels with *)
(* a request for each part, write through the same upserts, and run at the *)
(* same time.  An event's row needs its series', a market's row its        *)
(* event's.                                                                *)
(*                                                                         *)
(* External: listing[m], where the exchange has market m: not yet listed,  *)
(* open, settled (GET /markets with status finalized has it), or archived  *)
(* (past the cutoff, only GET /historical/markets has it).                 *)
(***************************************************************************)
EXTENDS Integers, FiniteSets

CONSTANTS
    Series, Events, Markets,
    SeriesOf,      \* the series of each event
    EventOf,       \* the event of each market
    None,
    MaxFaults      \* bound: requests and statements that fail

ASSUME ParentsAssumption == SeriesOf \in [Events -> Series] /\ EventOf \in [Markets -> Events]
ASSUME CatalogFaults == MaxFaults \in Nat

VARIABLES
    listing,
    seriesRows, eventRows,   \* the keys of the tables series and events
    row,                     \* table markets: none, open, or settled
    settlements,             \* the markets with a row in table settlements
    pass,                    \* the discovery pass: what is left to do on each level,
                             \* the new markets it has met, whether the task lives
    known,                   \* _known_tickers
    registered,              \* market_id_map
    back,                    \* the backfill: its place, the series and markets left
    due, failed, crossed,    \* of the backfill, auxiliary: the markets it owes, the
                             \* series it had a failure in, the ones archived between
                             \* the two answers for their series
    faults

tables == <<seriesRows, eventRows, row, settlements>>
discovery == <<pass, known, registered>>
debts == <<due, failed, crossed>>
vars == <<listing, tables, discovery, back, debts, faults>>

SeriesOfMarket(m) == SeriesOf[EventOf[m]]

\* The answers to discovery: the open markets of an event, the open events of a series.
Open(e) == {m \in Markets : EventOf[m] = e /\ listing[m] = "open"}
OpenEvents(s) == {e \in Events : SeriesOf[e] = s /\ Open(e) # {}}

Settled == {m \in Markets : listing[m] \in {"settled", "archived"}}
Fault == faults < MaxFaults /\ faults' = faults + 1

Idle == [series |-> {}, events |-> {}, markets |-> {}, new |-> {}, alive |-> TRUE]
NoBackfill == [pc |-> "none", series |-> {}, at |-> None, found |-> {}, market |-> None]

Init ==
    /\ listing \in [Markets -> {"unlisted", "open", "settled", "archived"}]
    /\ seriesRows = {} /\ eventRows = {} /\ settlements = {}
    /\ row = [m \in Markets |-> "none"]
    /\ pass = Idle /\ known = {} /\ registered = {}
    /\ back = NoBackfill /\ due = {} /\ failed = {} /\ crossed = {}
    /\ faults = 0

-----------------------------------------------------------------------------
(* The exchange *)

Move(m) ==
    /\ listing' = [listing EXCEPT ![m] = CASE @ = "unlisted" -> "open"
                                           [] @ = "open"     -> "settled"
                                           [] OTHER          -> "archived"]
    /\ listing' # listing
    /\ crossed' = IF back.pc = "live" /\ back.at = SeriesOfMarket(m) /\ listing[m] = "settled"
                    THEN crossed \union {m} ELSE crossed
    /\ UNCHANGED <<tables, discovery, back, due, failed, faults>>

-----------------------------------------------------------------------------
(* The upserts (storage/writers.py), with the foreign keys they need *)

UpsertSeries(ss) == seriesRows' = seriesRows \union ss

UpsertEvent(e) == SeriesOf[e] \in seriesRows /\ eventRows' = eventRows \union {e}

UpsertMarket(m, status) == EventOf[m] \in eventRows /\ row' = [row EXCEPT ![m] = status]

UpsertSettlement(m) == row[m] # "none" /\ settlements' = settlements \union {m}

-----------------------------------------------------------------------------
(* DiscoveryLoop.run_once and the loop around it in main.py *)

\* Slip: each pass begins with no market known.
FetchSeriesAfresh ==
    /\ pass = Idle
    /\ pass' = [pass EXCEPT !.series = Series]
    /\ known' = {}
    /\ UNCHANGED <<listing, tables, registered, back, debts, faults>>

\* A pass begins with the list of series; if the request fails it is over.
FetchSeries ==
    /\ pass = Idle
    /\ pass' = [pass EXCEPT !.series = Series]
    /\ UNCHANGED <<listing, tables, known, registered, back, debts, faults>>

\* A series is stored, and its open events are asked for.
FetchEvents(s) ==
    /\ pass.alive /\ pass.markets = {} /\ pass.events = {} /\ s \in pass.series
    /\ UpsertSeries({s})
    /\ pass' = [pass EXCEPT !.series = @ \ {s}, !.events = OpenEvents(s)]
    /\ UNCHANGED <<listing, eventRows, row, settlements, known, registered, back,
                   debts, faults>>

\* Slip: the markets of an answer are known before they are stored.
FetchKnownMarkets(e) ==
    /\ pass.alive /\ pass.markets = {} /\ e \in pass.events
    /\ UpsertEvent(e)
    /\ pass' = [pass EXCEPT !.events = @ \ {e}, !.markets = Open(e)]
    /\ known' = known \union Open(e)
    /\ UNCHANGED <<listing, seriesRows, row, settlements, registered, back, debts, faults>>

\* An event is stored, and its open markets are asked for.
FetchMarkets(e) ==
    /\ pass.alive /\ pass.markets = {} /\ e \in pass.events
    /\ UpsertEvent(e)
    /\ pass' = [pass EXCEPT !.events = @ \ {e}, !.markets = Open(e)]
    /\ UNCHANGED <<listing, seriesRows, row, settlements, known, registered, back,
                   debts, faults>>

\* The request for the events, or for the markets, fails after the row is stored:
\* the pass goes on with the next series, or event.
FetchFails ==
    /\ pass.alive /\ pass.markets = {}
    /\ Fault
    /\ \/ \E e \in pass.events :
            /\ UpsertEvent(e)
            /\ pass' = [pass EXCEPT !.events = @ \ {e}]
            /\ UNCHANGED seriesRows
       \/ \E s \in pass.series :
            /\ pass.events = {}
            /\ UpsertSeries({s})
            /\ pass' = [pass EXCEPT !.series = @ \ {s}]
            /\ UNCHANGED eventRows
    /\ UNCHANGED <<listing, row, settlements, known, registered, back, debts>>

\* A market is stored as it was answered: open.
StoreMarket(m) ==
    /\ pass.alive /\ m \in pass.markets
    /\ UpsertMarket(m, "open")
    /\ known' = known \union {m}
    /\ pass' = [pass EXCEPT !.markets = @ \ {m},
                            !.new = IF m \in known THEN @ ELSE @ \union {m}]
    /\ UNCHANGED <<listing, seriesRows, eventRows, settlements, registered, back,
                   debts, faults>>

\* The pass is over: main.py stores each new market once more, as it was
\* answered then, and registers it.
Register(m) ==
    /\ pass.alive /\ pass.series = {} /\ pass.events = {} /\ pass.markets = {}
    /\ m \in pass.new
    /\ UpsertMarket(m, "open")
    /\ registered' = registered \union {m}
    /\ pass' = [pass EXCEPT !.new = @ \ {m}]
    /\ UNCHANGED <<listing, seriesRows, eventRows, settlements, known, back, debts,
                   faults>>

\* A statement fails outside every handler: the task is over.
DiscoveryError ==
    /\ pass # Idle /\ pass.alive
    /\ Fault
    /\ pass' = [Idle EXCEPT !.alive = FALSE]
    /\ UNCHANGED <<listing, tables, known, registered, back, debts>>

DiscoveryStep ==
    \/ FetchSeries
    \/ \E s \in Series : FetchEvents(s)
    \/ \E e \in Events : FetchMarkets(e)
    \/ \E m \in Markets : StoreMarket(m) \/ Register(m)

-----------------------------------------------------------------------------
(* backfill_settlements.py *)

\* A run begins: without --series it fetches and stores the series itself, with
\* --series it takes their rows for granted.
Begin(given) ==
    /\ back.pc = "none"
    /\ IF given THEN UNCHANGED seriesRows ELSE UpsertSeries(Series)
    /\ back' = [back EXCEPT !.pc = "historical", !.series = Series]
    /\ due' = {m \in Settled : SeriesOfMarket(m) \in seriesRows'}
    /\ failed' = {} /\ crossed' = {}
    /\ UNCHANGED <<listing, eventRows, row, settlements, discovery, faults>>

\* Slip: the exception of a series is not caught.
OnwardToEnd == NoBackfill

\* The series at hand is left, done or not: the next one, or the end of the run.
Onward == IF back.series = {back.at} THEN NoBackfill
          ELSE [NoBackfill EXCEPT !.pc = "historical", !.series = back.series \ {back.at}]

\* With the markets left of the series at hand.
Remaining(left) == IF left = {} THEN Onward ELSE [back EXCEPT !.pc = "event", !.found = left]

FetchHistorical(s) ==
    /\ back.pc = "historical" /\ s \in back.series
    /\ back' = [back EXCEPT !.pc = "live", !.at = s,
          !.found = {m \in Markets : SeriesOfMarket(m) = s /\ listing[m] = "archived"}]
    /\ UNCHANGED <<listing, tables, discovery, debts, faults>>

FetchLive ==
    /\ back.pc = "live"
    /\ back' = Remaining(back.found \union
          {m \in Markets : SeriesOfMarket(m) = back.at /\ listing[m] = "settled"})
    /\ UNCHANGED <<listing, tables, discovery, debts, faults>>

\* The event of the next market is fetched and stored; whatever goes wrong, the
\* missing row of its series included, is logged and passed over.
StoreEvent(m) ==
    /\ back.pc = "event" /\ m \in back.found
    /\ \/ /\ IF back.at \in seriesRows THEN UpsertEvent(EventOf[m]) ELSE UNCHANGED eventRows
          /\ UNCHANGED <<failed, faults>>
       \/ Fault /\ failed' = failed \union {back.at} /\ UNCHANGED eventRows
    /\ back' = [back EXCEPT !.pc = "market", !.market = m]
    /\ UNCHANGED <<listing, seriesRows, row, settlements, discovery, due, crossed>>

\* upsert_market: without the row of its event it raises, and the rest of the
\* series is given up.
StoreOutcome ==
    /\ back.pc = "market"
    /\ IF EventOf[back.market] \in eventRows
         THEN /\ UpsertMarket(back.market, "settled")
              /\ back' = [back EXCEPT !.pc = "settlement"]
         ELSE /\ UNCHANGED row
              /\ back' = Onward
    /\ UNCHANGED <<listing, seriesRows, eventRows, settlements, discovery, debts, faults>>

\* upsert_settlement.
StoreSettlement ==
    /\ back.pc = "settlement"
    /\ UpsertSettlement(back.market)
    /\ back' = Remaining(back.found \ {back.market})
    /\ UNCHANGED <<listing, seriesRows, eventRows, row, discovery, debts, faults>>

\* A request or a statement fails in the series at hand: the exception is logged
\* in run_backfill, which goes on with the next series.
SeriesFails ==
    /\ back.pc \in {"live", "market", "settlement"}
    /\ Fault
    /\ failed' = failed \union {back.at}
    /\ back' = Onward
    /\ UNCHANGED <<listing, tables, discovery, due, crossed>>

BackfillStep ==
    \/ \E s \in Series : FetchHistorical(s)
    \/ FetchLive
    \/ \E m \in Markets : StoreEvent(m)
    \/ StoreOutcome \/ StoreSettlement \/ SeriesFails

-----------------------------------------------------------------------------
Next ==
    \/ \E m \in Markets : Move(m)
    \/ DiscoveryStep \/ FetchFails \/ DiscoveryError
    \/ \E given \in BOOLEAN : Begin(given)
    \/ BackfillStep

\* The discovery task runs on while it lives.
Spec == Init /\ [][Next]_vars /\ WF_vars(DiscoveryStep)

-----------------------------------------------------------------------------
\* Every variable has its type, and what market_id_map holds is known to discovery,
\* which would otherwise announce it as new again.
TypeOK ==
    /\ listing \in [Markets -> {"unlisted", "open", "settled", "archived"}]
    /\ seriesRows \subseteq Series /\ eventRows \subseteq Events
    /\ row \in [Markets -> {"none", "open", "settled"}] /\ settlements \subseteq Markets
    /\ pass \in [series : SUBSET Series, events : SUBSET Events,
                 markets : SUBSET Markets, new : SUBSET Markets, alive : BOOLEAN]
    /\ known \subseteq Markets /\ registered \subseteq known
    /\ back \in [pc : {"none", "historical", "live", "event", "market", "settlement"},
                 series : SUBSET Series, at : Series \union {None},
                 found : SUBSET Markets, market : Markets \union {None}]
    /\ due \subseteq Markets /\ failed \subseteq Series /\ crossed \subseteq Markets
    /\ faults \in 0..MaxFaults

\* When the backfill has ended, every market that was settled when it began has
\* its settlement stored, but for the series something failed in and for the
\* markets that crossed the cutoff between the two answers: a failure in one series takes
\* nothing from another, and discovery, which writes the same rows, takes none.
BackfillComplete ==
    back.pc = "none" =>
        \A m \in due : SeriesOfMarket(m) \in failed \/ m \in crossed \/ m \in settlements

\* A market that stays open is registered in the end, whatever requests fail on
\* the way, unless a failed statement has ended the task.
Discovered ==
    \A m \in Markets :
        <>[](listing[m] = "open") => <>(m \in registered \/ ~pass.alive)
=============================================================================
