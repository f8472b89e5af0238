---------------------------- MODULE CatalogProofs ----------------------------
(***************************************************************************)
(* Theorems about Catalog, for every catalogue of series, events and       *)
(* markets and every number of failed requests and statements.             *)
(***************************************************************************)
EXTENDS Catalog, TLAPS

(* The inductive invariant *)

\* Discovery knows the markets it has yet to announce.
NewAreKnown == pass.new \subseteq known

\* What is allowed to keep a market's settlement from the table, and the table.
Excused(m) == SeriesOfMarket(m) \in failed \/ m \in crossed \/ m \in settlements

\* The backfill is in the middle of a series.
AtHand == back.pc \in {"live", "event", "market", "settlement"}

\* What it has found belongs to that series, and it stores what it has found.
Placed ==
    /\ back.pc = "none" => back.series = {}
    /\ AtHand => back.at \in back.series /\ \A m \in back.found : SeriesOfMarket(m) = back.at
    /\ back.pc \in {"market", "settlement"} => back.market \in back.found

\* A market that is owed was settled when the run began, and its series had its row.
DueSettled == \A m \in due : listing[m] \in {"settled", "archived"} /\ SeriesOfMarket(m) \in seriesRows

\* Until it is excused, its series is still to come or at hand; once the historical
\* answer is in, the market is in that answer or still in the live one.
DueAhead ==
    \A m \in due :
        \/ Excused(m)
        \/ /\ SeriesOfMarket(m) \in back.series
           /\ AtHand /\ SeriesOfMarket(m) = back.at =>
                m \in back.found \/ (back.pc = "live" /\ listing[m] = "settled")

\* The event of the market about to be stored has its row, unless nothing is owed or
\* something failed in the series.
EventPresent ==
    back.pc = "market" => \/ EventOf[back.market] \in eventRows
                          \/ back.at \in failed
                          \/ \A m \in due : SeriesOfMarket(m) # back.at

CatalogInv ==
    /\ TypeOK
    /\ NewAreKnown
    /\ Placed /\ DueSettled /\ DueAhead /\ EventPresent

-----------------------------------------------------------------------------
(* Discovery and the exchange *)

LEMMA ParentsTyped ==
    /\ \A m \in Markets : EventOf[m] \in Events /\ SeriesOfMarket(m) \in Series
    /\ \A e \in Events : SeriesOf[e] \in Series
BY ParentsAssumption DEF SeriesOfMarket

LEMMA FaultTyped == ASSUME TypeOK, UNCHANGED faults \/ Fault PROVE faults' \in 0 .. MaxFaults
BY CatalogFaults DEF TypeOK, Fault

LEMMA UpsertMarketTyped ==
    ASSUME TypeOK, NEW m \in Markets, NEW status \in {"open", "settled"}, UpsertMarket(m, status)
    PROVE  row' \in [Markets -> {"none", "open", "settled"}]
BY DEF TypeOK, UpsertMarket

\* Discovery adds rows; what the backfill owes does not depend on them.
DiscoveryWorks == DiscoveryStep \/ FetchFails \/ DiscoveryError

LEMMA PassTyped ==
    ASSUME CatalogInv, DiscoveryWorks
    PROVE  /\ pass' \in [series : SUBSET Series, events : SUBSET Events,
                         markets : SUBSET Markets, new : SUBSET Markets, alive : BOOLEAN]
           /\ known' \subseteq Markets /\ registered' \subseteq known' /\ NewAreKnown'
<1>1. /\ pass \in [series : SUBSET Series, events : SUBSET Events,
                   markets : SUBSET Markets, new : SUBSET Markets, alive : BOOLEAN]
      /\ known \subseteq Markets /\ registered \subseteq known /\ pass.new \subseteq known
  BY DEF CatalogInv, TypeOK, NewAreKnown
<1>2. CASE FetchSeries
  BY <1>1, <1>2 DEF FetchSeries, NewAreKnown
<1>3. CASE \E s \in Series : FetchEvents(s)
  <2>1. PICK s \in Series : FetchEvents(s)
    BY <1>3
  <2>2. OpenEvents(s) \subseteq Events
    BY DEF OpenEvents
  <2> QED BY <1>1, <2>1, <2>2 DEF FetchEvents, NewAreKnown
<1>4. CASE \E e \in Events : FetchMarkets(e)
  <2>1. PICK e \in Events : FetchMarkets(e)
    BY <1>4
  <2>2. Open(e) \subseteq Markets
    BY DEF Open
  <2> QED BY <1>1, <2>1, <2>2 DEF FetchMarkets, NewAreKnown
<1>5. CASE FetchFails
  BY <1>1, <1>5 DEF FetchFails, NewAreKnown
<1>6. CASE \E m \in Markets : StoreMarket(m)
  <2>1. PICK m \in Markets : StoreMarket(m)
    BY <1>6
  <2>2. /\ known' = known \cup {m} /\ registered' = registered
        /\ \E new \in {pass.new, pass.new \cup {m}} :
             pass' = [pass EXCEPT !.markets = @ \ {m}, !.new = new]
    BY <2>1 DEF StoreMarket
  <2>3. PICK new \in {pass.new, pass.new \cup {m}} :
           pass' = [pass EXCEPT !.markets = @ \ {m}, !.new = new]
    BY <2>2
  <2>4. /\ new \subseteq Markets /\ new \subseteq known'
        /\ known' \subseteq Markets /\ registered' \subseteq known'
    BY <1>1, <2>2
  <2>5. /\ pass' \in [series : SUBSET Series, events : SUBSET Events,
                      markets : SUBSET Markets, new : SUBSET Markets, alive : BOOLEAN]
        /\ pass'.new = new
    BY <1>1, <2>3, <2>4
  <2> QED BY <2>4, <2>5 DEF NewAreKnown
<1>7. CASE \E m \in Markets : Register(m)
  BY <1>1, <1>7 DEF Register, NewAreKnown
<1>8. CASE DiscoveryError
  BY <1>1, <1>8 DEF DiscoveryError, Idle, NewAreKnown
<1> QED BY <1>2, <1>3, <1>4, <1>5, <1>6, <1>7, <1>8 DEF DiscoveryWorks, DiscoveryStep

LEMMA DiscoveryKeeps ==
    ASSUME CatalogInv, DiscoveryWorks
    PROVE  CatalogInv'
<1>1. /\ UNCHANGED <<listing, settlements, back, due, failed, crossed>>
      /\ \/ seriesRows' = seriesRows
         \/ \E s \in Series : seriesRows' = seriesRows \cup {s}
      /\ \/ eventRows' = eventRows
         \/ \E e \in Events : eventRows' = eventRows \cup {e}
      /\ UNCHANGED faults \/ Fault
  BY DEF DiscoveryWorks, DiscoveryStep, FetchSeries, FetchEvents, FetchMarkets, FetchFails,
         StoreMarket, Register, DiscoveryError, UpsertSeries, UpsertEvent, tables, debts, CatalogInv,
         TypeOK
<1>2. row' \in [Markets -> {"none", "open", "settled"}]
  <2>1. row' = row \/ \E m \in Markets : UpsertMarket(m, "open")
    BY DEF DiscoveryWorks, DiscoveryStep, FetchSeries, FetchEvents, FetchMarkets, FetchFails,
           StoreMarket, Register, DiscoveryError, tables
  <2> QED BY <2>1, UpsertMarketTyped DEF CatalogInv, TypeOK
<1>3. seriesRows \subseteq seriesRows' /\ eventRows \subseteq eventRows'
      /\ seriesRows' \subseteq Series /\ eventRows' \subseteq Events
  BY <1>1 DEF CatalogInv, TypeOK
<1>4. TypeOK'
  BY <1>1, <1>2, <1>3, FaultTyped, PassTyped DEF CatalogInv, TypeOK
<1>5. Placed' /\ DueSettled' /\ DueAhead'
  BY <1>1, <1>3
  DEF CatalogInv, Placed, DueSettled, DueAhead, AtHand, Excused, SeriesOfMarket
<1>6. EventPresent'
  BY <1>1, <1>3 DEF CatalogInv, EventPresent, SeriesOfMarket
<1> QED BY <1>4, <1>5, <1>6, PassTyped DEF CatalogInv

\* A settled market may cross the cutoff between the two answers: then it is excused.
LEMMA MoveKeeps ==
    ASSUME CatalogInv, NEW m \in Markets, Move(m)
    PROVE  CatalogInv'
<1>1. /\ UNCHANGED <<seriesRows, eventRows, row, settlements, pass, known, registered, back, due,
                     failed, faults>>
      /\ crossed' = IF back.pc = "live" /\ back.at = SeriesOfMarket(m) /\ listing[m] = "settled"
                      THEN crossed \cup {m} ELSE crossed
  BY DEF Move, tables, discovery
<1>2. /\ listing' \in [Markets -> {"unlisted", "open", "settled", "archived"}]
      /\ \A k \in Markets : k # m => listing'[k] = listing[k]
      /\ listing[m] \in {"settled", "archived"} => listing'[m] \in {"settled", "archived"}
  <2>1. listing \in [Markets -> {"unlisted", "open", "settled", "archived"}]
    BY DEF CatalogInv, TypeOK
  <2>2. \E l \in {"open", "settled", "archived"} :
           /\ listing' = [listing EXCEPT ![m] = l]
           /\ listing[m] \in {"settled", "archived"} => l = "archived"
    BY <2>1 DEF Move
  <2> QED BY <2>1, <2>2
<1>3. TypeOK'
  BY <1>1, <1>2 DEF CatalogInv, TypeOK
<1>4. Placed' /\ NewAreKnown'
  BY <1>1 DEF CatalogInv, Placed, AtHand, NewAreKnown, SeriesOfMarket
<1>5. due \subseteq Markets
  BY DEF CatalogInv, TypeOK
<1>6. DueSettled'
  BY <1>1, <1>2, <1>5 DEF CatalogInv, DueSettled, SeriesOfMarket
<1>7. DueAhead'
  <2> SUFFICES ASSUME NEW k \in due
               PROVE  \/ Excused(k)'
                      \/ /\ SeriesOfMarket(k) \in back.series
                         /\ AtHand /\ SeriesOfMarket(k) = back.at =>
                              k \in back.found \/ (back.pc = "live" /\ listing'[k] = "settled")
    BY <1>1 DEF DueAhead, AtHand, SeriesOfMarket
  <2>1. Excused(k) => Excused(k)'
    BY <1>1 DEF Excused, SeriesOfMarket
  <2>2. CASE k # m
    BY <1>2, <1>5, <2>1, <2>2 DEF CatalogInv, DueAhead
  <2>3. CASE k = m
    <3>1. back.pc = "live" /\ back.at = SeriesOfMarket(m) /\ listing[m] = "settled" => Excused(m)'
      BY <1>1 DEF Excused
    <3> QED BY <2>1, <2>3, <3>1 DEF CatalogInv, DueAhead
  <2> QED BY <2>2, <2>3
<1>8. EventPresent'
  BY <1>1 DEF CatalogInv, EventPresent, SeriesOfMarket
<1> QED BY <1>3, <1>4, <1>6, <1>7, <1>8 DEF CatalogInv

-----------------------------------------------------------------------------
(* The backfill *)

BackTypes == [pc : {"none", "historical", "live", "event", "market", "settlement"},
              series : SUBSET Series, at : Series \union {None},
              found : SUBSET Markets, market : Markets \union {None}]

\* What a step of the backfill leaves alone, and what it adds to.
BackfillFrame ==
    /\ UNCHANGED <<listing, seriesRows, pass, known, registered, due, crossed>>
    /\ failed \subseteq failed' /\ settlements \subseteq settlements'

LEMMA ExcusesStay ==
    ASSUME BackfillFrame
    PROVE  /\ \A m : Excused(m) => Excused(m)'
           /\ DueSettled => DueSettled'
           /\ NewAreKnown => NewAreKnown'
<1>1. \A m : Excused(m) => Excused(m)'
  BY DEF BackfillFrame, Excused, SeriesOfMarket
<1>2. DueSettled => DueSettled'
  BY DEF BackfillFrame, DueSettled, SeriesOfMarket
<1> QED BY <1>1, <1>2 DEF BackfillFrame, NewAreKnown

\* A series may be left behind once all that is owed in it is excused.
LEMMA OnwardKeeps ==
    ASSUME CatalogInv, AtHand, BackfillFrame, back' = Onward,
           \A m \in due : SeriesOfMarket(m) = back.at => Excused(m)'
    PROVE  back' \in BackTypes /\ Placed' /\ DueAhead' /\ EventPresent'
<1>1. PICK s \in Series : s = back.at /\ s \in back.series
  BY DEF CatalogInv, TypeOK, Placed
<1>2. back.series \subseteq Series
  BY DEF CatalogInv, TypeOK
<1>3. /\ back' \in BackTypes /\ back'.pc \in {"none", "historical"}
      /\ back'.series = back.series \ {s}
      /\ back'.pc = "none" => back'.series = {}
  BY <1>1, <1>2 DEF Onward, NoBackfill, BackTypes
<1>4. Placed' /\ EventPresent'
  BY <1>3 DEF Placed, AtHand, EventPresent
<1>5. DueAhead'
  <2> SUFFICES ASSUME NEW m \in due, ~Excused(m)'
               PROVE  SeriesOfMarket(m) \in back'.series /\ ~AtHand'
    BY DEF DueAhead, BackfillFrame, SeriesOfMarket
  <2>1. ~Excused(m) /\ SeriesOfMarket(m) # s
    BY <1>1, ExcusesStay
  <2>2. SeriesOfMarket(m) \in back.series
    BY <2>1 DEF CatalogInv, DueAhead
  <2> QED BY <1>3, <2>1, <2>2 DEF AtHand
<1> QED BY <1>3, <1>4, <1>5

\* With markets left to store, what is owed in the series is among them.
LEMMA RemainingKeeps ==
    ASSUME CatalogInv, AtHand, BackfillFrame, NEW left \in SUBSET Markets, back' = Remaining(left),
           \A m \in left : SeriesOfMarket(m) = back.at,
           \A m \in due : SeriesOfMarket(m) = back.at => Excused(m)' \/ m \in left
    PROVE  back' \in BackTypes /\ Placed' /\ DueAhead' /\ EventPresent'
<1>1. CASE left = {}
  BY <1>1, OnwardKeeps DEF Remaining
<1>2. CASE left # {}
  <2>1. back \in BackTypes
    BY DEF CatalogInv, TypeOK, BackTypes
  <2>2. /\ back' \in BackTypes /\ back'.pc = "event" /\ back'.found = left
        /\ back'.series = back.series /\ back'.at = back.at
    BY <1>2, <2>1 DEF Remaining, BackTypes
  <2>3. Placed' /\ EventPresent'
    BY <2>2 DEF Placed, AtHand, EventPresent, CatalogInv, SeriesOfMarket
  <2>4. DueAhead'
    <3> SUFFICES ASSUME NEW m \in due, ~Excused(m)'
                 PROVE  /\ SeriesOfMarket(m) \in back'.series
                        /\ SeriesOfMarket(m) = back'.at => m \in back'.found
      BY DEF DueAhead, BackfillFrame, SeriesOfMarket
    <3>1. ~Excused(m)
      BY ExcusesStay
    <3> QED BY <2>2, <3>1 DEF CatalogInv, DueAhead
  <2> QED BY <2>2, <2>3, <2>4
<1> QED BY <1>1, <1>2

\* A run begins with everything it owes ahead of it.
LEMMA BeginKeeps ==
    ASSUME CatalogInv, NEW given \in BOOLEAN, Begin(given)
    PROVE  CatalogInv'
<1>1. /\ back.pc = "none"
      /\ seriesRows' = seriesRows \/ seriesRows' = seriesRows \cup Series
      /\ back' = [back EXCEPT !.pc = "historical", !.series = Series]
      /\ due' = {m \in Settled : SeriesOfMarket(m) \in seriesRows'}
      /\ failed' = {} /\ crossed' = {}
      /\ UNCHANGED <<listing, eventRows, row, settlements, pass, known, registered, faults>>
  BY DEF Begin, UpsertSeries, discovery
<1>2. /\ back' \in BackTypes /\ back'.pc = "historical" /\ back'.series = Series
  BY <1>1 DEF CatalogInv, TypeOK, BackTypes
<1>3. due' \subseteq Markets /\ \A m \in due' : listing[m] \in {"settled", "archived"}
  BY <1>1 DEF Settled
<1>4. TypeOK'
  BY <1>1, <1>2, <1>3 DEF CatalogInv, TypeOK, BackTypes
<1>5. NewAreKnown' /\ Placed' /\ EventPresent'
  BY <1>1, <1>2 DEF CatalogInv, NewAreKnown, Placed, AtHand, EventPresent
<1>6. DueSettled'
  BY <1>1, <1>3 DEF DueSettled, SeriesOfMarket
<1>7. DueAhead'
  BY <1>2, <1>3, ParentsTyped DEF DueAhead, AtHand, SeriesOfMarket
<1> QED BY <1>4, <1>5, <1>6, <1>7 DEF CatalogInv

\* What is owed in a series is archived, and in the first answer, or still settled.
LEMMA FetchHistoricalKeeps ==
    ASSUME CatalogInv, NEW s \in Series, FetchHistorical(s)
    PROVE  CatalogInv'
<1> DEFINE archived == {m \in Markets : SeriesOfMarket(m) = s /\ listing[m] = "archived"}
<1>1. /\ back.pc = "historical" /\ s \in back.series
      /\ back' = [back EXCEPT !.pc = "live", !.at = s, !.found = archived]
      /\ UNCHANGED <<listing, seriesRows, eventRows, row, settlements, pass, known, registered, due,
                     failed, crossed, faults>>
  BY DEF FetchHistorical, tables, discovery, debts
<1>2. /\ back' \in BackTypes /\ back'.pc = "live" /\ back'.at = s /\ back'.found = archived
      /\ back'.series = back.series
  BY <1>1 DEF CatalogInv, TypeOK, BackTypes
<1>3. TypeOK'
  BY <1>1, <1>2 DEF CatalogInv, TypeOK, BackTypes
<1>4. NewAreKnown' /\ Placed' /\ EventPresent' /\ DueSettled'
  BY <1>1, <1>2
  DEF CatalogInv, NewAreKnown, Placed, AtHand, EventPresent, DueSettled, SeriesOfMarket
<1>5. DueAhead'
  <2> SUFFICES ASSUME NEW m \in due, ~Excused(m)
               PROVE  /\ SeriesOfMarket(m) \in back'.series
                      /\ SeriesOfMarket(m) = s => m \in archived \/ listing[m] = "settled"
    BY <1>1, <1>2 DEF DueAhead, Excused, SeriesOfMarket
  <2>1. m \in Markets
    BY DEF CatalogInv, TypeOK
  <2> QED BY <1>2, <2>1 DEF CatalogInv, DueAhead, DueSettled
<1> QED BY <1>3, <1>4, <1>5 DEF CatalogInv

\* The second answer has what the first had not.
LEMMA FetchLiveKeeps == CatalogInv /\ FetchLive => CatalogInv'
<1> SUFFICES ASSUME CatalogInv, FetchLive PROVE CatalogInv'
  OBVIOUS
<1> DEFINE settledNow == {m \in Markets : SeriesOfMarket(m) = back.at /\ listing[m] = "settled"}
           left == back.found \union settledNow
<1>1. /\ back.pc = "live" /\ back' = Remaining(left)
      /\ UNCHANGED <<listing, seriesRows, eventRows, row, settlements, pass, known, registered, due,
                     failed, crossed, faults>>
  BY DEF FetchLive, tables, discovery, debts
<1>2. AtHand /\ BackfillFrame
  BY <1>1 DEF AtHand, BackfillFrame
<1>3. left \in SUBSET Markets /\ \A m \in left : SeriesOfMarket(m) = back.at
  BY <1>2 DEF CatalogInv, TypeOK, Placed
<1>4. \A m \in due : SeriesOfMarket(m) = back.at => Excused(m)' \/ m \in left
  <2> SUFFICES ASSUME NEW m \in due, SeriesOfMarket(m) = back.at, ~Excused(m)' PROVE m \in left
    OBVIOUS
  <2>1. ~Excused(m) /\ m \in Markets
    BY <1>2, ExcusesStay DEF CatalogInv, TypeOK
  <2> QED BY <1>2, <2>1 DEF CatalogInv, DueAhead
<1> HIDE DEF left
<1>5. back' \in BackTypes /\ Placed' /\ DueAhead' /\ EventPresent'
  BY <1>1, <1>2, <1>3, <1>4, RemainingKeeps
<1>6. TypeOK'
  BY <1>1, <1>5 DEF CatalogInv, TypeOK, BackTypes
<1>7. NewAreKnown' /\ DueSettled'
  BY <1>2, ExcusesStay DEF CatalogInv
<1> QED BY <1>5, <1>6, <1>7 DEF CatalogInv

\* An event is passed over for a failure, or because its series has no row: then the
\* series is owed nothing.
LEMMA StoreEventKeeps ==
    ASSUME CatalogInv, NEW m \in Markets, StoreEvent(m)
    PROVE  CatalogInv'
<1>1. /\ back.pc = "event" /\ m \in back.found
      /\ back' = [back EXCEPT !.pc = "market", !.market = m]
      /\ UNCHANGED <<listing, seriesRows, row, settlements, pass, known, registered, due, crossed>>
      /\ UNCHANGED faults \/ Fault
      /\ \/ eventRows' = eventRows /\ failed' = failed /\ back.at \notin seriesRows
         \/ eventRows' = eventRows \cup {EventOf[m]} /\ failed' = failed
         \/ eventRows' = eventRows /\ failed' = failed \cup {back.at}
  BY DEF StoreEvent, UpsertEvent, discovery
<1>2. AtHand /\ back.at \in Series /\ SeriesOfMarket(m) = back.at /\ back.at \in back.series
  BY <1>1 DEF CatalogInv, TypeOK, Placed, AtHand
<1>3. /\ back' \in BackTypes /\ back'.pc = "market" /\ back'.market = m
      /\ back'.found = back.found /\ back'.series = back.series /\ back'.at = back.at
  BY <1>1 DEF CatalogInv, TypeOK, BackTypes
<1>4. eventRows' \subseteq Events /\ failed' \subseteq Series /\ failed \subseteq failed'
  BY <1>1, <1>2, ParentsTyped DEF CatalogInv, TypeOK
<1>5. BackfillFrame
  BY <1>1, <1>4 DEF BackfillFrame
<1>6. TypeOK'
  BY <1>1, <1>3, <1>4, FaultTyped DEF CatalogInv, TypeOK, BackTypes
<1>7. NewAreKnown' /\ DueSettled'
  BY <1>5, ExcusesStay DEF CatalogInv
<1>8. Placed'
  BY <1>1, <1>2, <1>3 DEF CatalogInv, Placed, AtHand, SeriesOfMarket
<1>9. DueAhead'
  <2> SUFFICES ASSUME NEW k \in due, ~Excused(k)'
               PROVE  /\ SeriesOfMarket(k) \in back'.series
                      /\ SeriesOfMarket(k) = back'.at => k \in back'.found
    BY <1>1 DEF DueAhead, SeriesOfMarket
  <2>1. ~Excused(k)
    BY <1>5, ExcusesStay
  <2> QED BY <1>1, <1>2, <1>3, <2>1 DEF CatalogInv, DueAhead
<1>10. EventPresent'
  <2>1. CASE back.at \notin seriesRows
    <3>1. \A k \in due : SeriesOfMarket(k) # back.at
      BY <2>1 DEF CatalogInv, DueSettled
    <3> QED BY <1>1, <1>3, <3>1 DEF EventPresent, SeriesOfMarket
  <2>2. CASE EventOf[m] \in eventRows' \/ back.at \in failed'
    BY <1>3, <2>2 DEF EventPresent
  <2> QED BY <1>1, <2>1, <2>2
<1> QED BY <1>6, <1>7, <1>8, <1>9, <1>10 DEF CatalogInv

\* Without its event a market cannot be stored, and the series is given up: it failed
\* before, or it is owed nothing.
LEMMA StoreOutcomeKeeps == CatalogInv /\ StoreOutcome => CatalogInv'
<1> SUFFICES ASSUME CatalogInv, StoreOutcome PROVE CatalogInv'
  OBVIOUS
<1>1. /\ back.pc = "market"
      /\ UNCHANGED <<listing, seriesRows, eventRows, settlements, pass, known, registered, due,
                     failed, crossed, faults>>
  BY DEF StoreOutcome, discovery, debts
<1>2. AtHand /\ BackfillFrame /\ back.market \in Markets
  BY <1>1 DEF AtHand, BackfillFrame, CatalogInv, TypeOK, Placed
<1>3. NewAreKnown' /\ DueSettled'
  BY <1>2, ExcusesStay DEF CatalogInv
<1>4. CASE EventOf[back.market] \in eventRows
  <2>1. UpsertMarket(back.market, "settled") /\ back' = [back EXCEPT !.pc = "settlement"]
    BY <1>4 DEF StoreOutcome
  <2>2. row' \in [Markets -> {"none", "open", "settled"}]
    BY <1>2, <2>1, UpsertMarketTyped DEF CatalogInv
  <2>3. /\ back' \in BackTypes /\ back'.pc = "settlement" /\ back'.market = back.market
        /\ back'.found = back.found /\ back'.series = back.series /\ back'.at = back.at
    BY <2>1 DEF CatalogInv, TypeOK, BackTypes
  <2>4. TypeOK'
    BY <1>1, <2>2, <2>3 DEF CatalogInv, TypeOK, BackTypes
  <2>5. Placed' /\ EventPresent'
    BY <1>1, <2>3 DEF CatalogInv, Placed, AtHand, EventPresent, SeriesOfMarket
  <2>6. DueAhead'
    <3> SUFFICES ASSUME NEW k \in due, ~Excused(k)'
                 PROVE  /\ SeriesOfMarket(k) \in back'.series
                        /\ SeriesOfMarket(k) = back'.at => k \in back'.found
      BY <1>1 DEF DueAhead, SeriesOfMarket
    <3>1. ~Excused(k)
      BY <1>2, ExcusesStay
    <3> QED BY <1>1, <1>2, <2>3, <3>1 DEF CatalogInv, DueAhead
  <2> QED BY <1>3, <2>4, <2>5, <2>6 DEF CatalogInv
<1>5. CASE EventOf[back.market] \notin eventRows
  <2>1. back' = Onward /\ row' = row
    BY <1>5 DEF StoreOutcome
  <2>2. \A m \in due : SeriesOfMarket(m) = back.at => Excused(m)
    BY <1>1, <1>5 DEF CatalogInv, EventPresent, Excused
  <2>3. back' \in BackTypes /\ Placed' /\ DueAhead' /\ EventPresent'
    BY <1>2, <2>1, <2>2, ExcusesStay, OnwardKeeps
  <2>4. TypeOK'
    BY <1>1, <2>1, <2>3 DEF CatalogInv, TypeOK, BackTypes
  <2> QED BY <1>3, <2>3, <2>4 DEF CatalogInv
<1> QED BY <1>4, <1>5

\* What leaves the list has its settlement.
LEMMA StoreSettlementKeeps == CatalogInv /\ StoreSettlement => CatalogInv'
<1> SUFFICES ASSUME CatalogInv, StoreSettlement PROVE CatalogInv'
  OBVIOUS
<1>1. /\ back.pc = "settlement"
      /\ settlements' = settlements \cup {back.market}
      /\ back' = Remaining(back.found \ {back.market})
      /\ UNCHANGED <<listing, seriesRows, eventRows, row, pass, known, registered, due, failed,
                     crossed, faults>>
  BY DEF StoreSettlement, UpsertSettlement, discovery, debts
<1>2. AtHand /\ BackfillFrame /\ back.market \in Markets
  BY <1>1 DEF AtHand, BackfillFrame, CatalogInv, TypeOK, Placed
<1>3. NewAreKnown' /\ DueSettled'
  BY <1>2, ExcusesStay DEF CatalogInv
<1>4. PICK left \in SUBSET Markets : left = back.found \ {back.market}
  BY DEF CatalogInv, TypeOK
<1>5. \A m \in left : SeriesOfMarket(m) = back.at
  BY <1>2, <1>4 DEF CatalogInv, Placed
<1>6. \A m \in due : SeriesOfMarket(m) = back.at => Excused(m)' \/ m \in left
  <2> SUFFICES ASSUME NEW m \in due, SeriesOfMarket(m) = back.at, ~Excused(m)' PROVE m \in left
    OBVIOUS
  <2>1. ~Excused(m) /\ m # back.market
    BY <1>1, <1>2, ExcusesStay DEF Excused
  <2> QED BY <1>1, <1>2, <1>4, <2>1 DEF CatalogInv, DueAhead
<1>7. back' \in BackTypes /\ Placed' /\ DueAhead' /\ EventPresent'
  BY <1>1, <1>2, <1>4, <1>5, <1>6, RemainingKeeps
<1>8. TypeOK'
  BY <1>1, <1>2, <1>7 DEF CatalogInv, TypeOK, BackTypes
<1> QED BY <1>3, <1>7, <1>8 DEF CatalogInv

\* A failure excuses its series and no other.
LEMMA SeriesFailsKeeps == CatalogInv /\ SeriesFails => CatalogInv'
<1> SUFFICES ASSUME CatalogInv, SeriesFails PROVE CatalogInv'
  OBVIOUS
<1>1. /\ back.pc \in {"live", "market", "settlement"}
      /\ failed' = failed \cup {back.at} /\ back' = Onward
      /\ UNCHANGED <<listing, seriesRows, eventRows, row, settlements, pass, known, registered, due,
                     crossed>>
      /\ Fault
  BY DEF SeriesFails, tables, discovery
<1>2. AtHand /\ BackfillFrame /\ back.at \in Series
  BY <1>1 DEF AtHand, BackfillFrame, CatalogInv, TypeOK, Placed
<1>3. NewAreKnown' /\ DueSettled'
  BY <1>2, ExcusesStay DEF CatalogInv
<1>4. \A m \in due : SeriesOfMarket(m) = back.at => Excused(m)'
  BY <1>1 DEF Excused, SeriesOfMarket
<1>5. back' \in BackTypes /\ Placed' /\ DueAhead' /\ EventPresent'
  BY <1>1, <1>2, <1>4, OnwardKeeps
<1>6. TypeOK'
  BY <1>1, <1>2, <1>5, FaultTyped DEF CatalogInv, TypeOK, BackTypes
<1> QED BY <1>3, <1>5, <1>6 DEF CatalogInv

-----------------------------------------------------------------------------
(* Theorems *)

LEMMA InitHolds == Init => CatalogInv
<1> SUFFICES ASSUME Init PROVE CatalogInv
  OBVIOUS
<1>1. TypeOK
  BY CatalogFaults DEF Init, TypeOK, Idle, NoBackfill
<1>2. NewAreKnown /\ Placed /\ DueSettled /\ DueAhead /\ EventPresent
  BY DEF Init, Idle, NoBackfill, NewAreKnown, Placed, AtHand, DueSettled, DueAhead, EventPresent
<1> QED BY <1>1, <1>2 DEF CatalogInv

LEMMA NextKeeps == CatalogInv /\ [Next]_vars => CatalogInv'
<1> SUFFICES ASSUME CatalogInv, [Next]_vars PROVE CatalogInv'
  OBVIOUS
<1>1. CASE \E m \in Markets : Move(m)
  BY <1>1, MoveKeeps
<1>2. CASE DiscoveryWorks
  BY <1>2, DiscoveryKeeps
<1>3. CASE \E given \in BOOLEAN : Begin(given)
  BY <1>3, BeginKeeps
<1>4. CASE BackfillStep
  BY <1>4, FetchHistoricalKeeps, FetchLiveKeeps, StoreEventKeeps, StoreOutcomeKeeps,
     StoreSettlementKeeps, SeriesFailsKeeps DEF BackfillStep
<1>5. CASE UNCHANGED vars
  BY <1>5 DEF vars, tables, discovery, debts, CatalogInv, TypeOK, NewAreKnown, Placed, AtHand,
              DueSettled, DueAhead, Excused, EventPresent, SeriesOfMarket
<1> QED BY <1>1, <1>2, <1>3, <1>4, <1>5 DEF Next, DiscoveryWorks

\* The inductive invariant holds in every state that is reached.
THEOREM Invariant == Spec => []CatalogInv
<1>1. Init => CatalogInv
  BY InitHolds
<1>2. CatalogInv /\ [Next]_vars => CatalogInv'
  BY NextKeeps
<1> QED BY <1>1, <1>2, PTL DEF Spec

\* Every variable has its type, and what is registered is known to discovery.
THEOREM TypeCorrect == Spec => []TypeOK
<1>1. CatalogInv => TypeOK
  BY DEF CatalogInv
<1> QED BY <1>1, Invariant, PTL

\* A run of the backfill leaves no settled market out, but for those its own failures and
\* the cutoff excuse: whatever discovery stores, and the exchange moves, meanwhile.
THEOREM BackfillLeavesNoneOut == Spec => []BackfillComplete
<1>1. CatalogInv => BackfillComplete
  BY DEF CatalogInv, Placed, DueAhead, Excused, BackfillComplete
<1> QED BY <1>1, Invariant, PTL
=============================================================================
