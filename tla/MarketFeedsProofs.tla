-------------------------- MODULE MarketFeedsProofs --------------------------
(***************************************************************************)
(* Theorems about MarketFeeds, for every set of markets, every number of   *)
(* runs of the process and every number of failures.                       *)
(***************************************************************************)
EXTENDS MarketFeeds, SequenceTheorems, TLAPS

(* The inductive invariant *)

\* market_id_map is filled before a command leaves.
CommandsRegistered ==
    /\ tickers \subseteq marketIdMap
    /\ \A i \in DOMAIN recorded : recorded[i].markets \subseteq marketIdMap
    /\ \A i \in DOMAIN wire : wire[i].markets \subseteq marketIdMap

\* subscribe() is called once in a process, and a connection sends what is recorded.
RecordedOnce == Len(recorded) <= 1 /\ sent <= Len(recorded)

\* What run_once has returned is registered, or waits to be.
NewAreKnown ==
    /\ discovery.pc # "none" => known = marketIdMap \cup discovery.new
    /\ discovery.pc # "registering" => discovery.new = {}

\* The exchange streams nothing, and no command in flight can change that.
Unsubscribed ==
    /\ recorded = <<>> /\ feed = NoFeed
    /\ \A i \in DOMAIN wire : wire[i].cmd # "subscribe"

\* run_collector creates the tasks after startup and gathers them before it closes.
TasksInRun ==
    /\ phase \notin {"running", "stopping"} => discovery.pc = "none" /\ starter = "none"
    /\ phase = "discovering" => stream = "none" /\ recorded = <<>>

\* Until start_ws wakes up nothing is subscribed; a stream that is still there after
\* the tasks are cancelled is one whose start_ws never woke up.
AsleepUnsubscribed == starter = "asleep" => Unsubscribed
LeftUnsubscribed == phase \in {"closing", "closed"} => stream = "none" \/ Unsubscribed

FeedsInv ==
    /\ TypeOK
    /\ CommandsRegistered /\ FedAreRegistered
    /\ RecordedOnce
    /\ NewAreKnown
    /\ TasksInRun /\ AsleepUnsubscribed /\ LeftUnsubscribed

------------------------------------------------------------------------------
(* What the steps that end something keep *)

LEMMA NoFeedTyped == NoFeed \in [Channels -> SUBSET Markets] /\ \A c \in Channels : NoFeed[c] = {}
BY DEF NoFeed

LEMMA SpendTyped ==
    ASSUME TypeOK, NEW e \in {"fails", "dbErrors"}, NEW b, Spend(e, b)
    PROVE  used' \in [{"fails", "dbErrors"} -> Nat]
BY DEF TypeOK, Spend

\* A connection that is kept or lost, while nothing is recorded or registered.
LEMMA ConnectionKeptOrLost ==
    ASSUME FeedsInv, UNCHANGED <<market, recorded>>, UNCHANGED connection \/ NoConnection
    PROVE  /\ wire' \in Seq(Commands) /\ sent' \in Nat /\ feed' \in [Channels -> SUBSET Markets]
           /\ CommandsRegistered' /\ FedAreRegistered' /\ RecordedOnce'
           /\ Unsubscribed => Unsubscribed'
           /\ wire' = wire \/ wire' = <<>>
           /\ feed' = feed \/ feed' = NoFeed
<1>1. UNCHANGED <<tickers, known, marketIdMap, recorded>>
  BY DEF market
<1>2. CASE UNCHANGED connection
  <2>1. UNCHANGED <<wire, sent, feed>>
    BY <1>2 DEF connection
  <2> QED BY <1>1, <2>1 DEF FeedsInv, TypeOK, CommandsRegistered, FedAreRegistered, RecordedOnce,
                              Unsubscribed
<1>3. CASE NoConnection
  <2>1. wire' = <<>> /\ sent' = 0 /\ feed' = NoFeed /\ DOMAIN wire' = {}
    BY <1>3 DEF NoConnection
  <2>2. wire' \in Seq(Commands)
    BY <2>1, EmptySeq
  <2>3. CommandsRegistered'
    BY <1>1, <2>1 DEF FeedsInv, CommandsRegistered
  <2>4. FedAreRegistered'
    BY <2>1, NoFeedTyped DEF FedAreRegistered
  <2>5. RecordedOnce'
    BY <1>1, <2>1, LenProperties DEF FeedsInv, TypeOK, RecordedOnce
  <2> QED BY <1>1, <2>1, <2>2, <2>3, <2>4, <2>5, NoFeedTyped DEF Unsubscribed
<1> QED BY <1>2, <1>3

\* Failures of the connection and of statements, signals, and the way to the exit.
LeavingStep == LoseConnection \/ TryAgain \/ DiscoveryError \/ Signal \/ Ending
               \/ FatalDbError \/ Kill

LEMMA LeavingKeeps ==
    ASSUME FeedsInv, LeavingStep
    PROVE  FeedsInv'
<1>1. /\ UNCHANGED <<market, tickers, known, marketIdMap, recorded, run>>
      /\ UNCHANGED connection \/ NoConnection
  BY DEF LeavingStep, Ending, LoseConnection, TryAgain, DiscoveryError, Signal, FatalDbError, Kill,
         Stop, Cancel, CloseRun, Exit, market, process
<1>2. /\ wire' \in Seq(Commands) /\ sent' \in Nat /\ feed' \in [Channels -> SUBSET Markets]
      /\ CommandsRegistered' /\ FedAreRegistered' /\ RecordedOnce'
      /\ Unsubscribed => Unsubscribed'
  BY <1>1, ConnectionKeptOrLost
<1>3. discovery' = discovery \/ discovery' = [pc |-> "none", new |-> {}]
  BY DEF LeavingStep, Ending, LoseConnection, TryAgain, DiscoveryError, Signal, FatalDbError, Kill,
         Stop, Cancel, CloseRun, Exit
<1>4. discovery' \in [pc : {"none", "asleep", "registering"}, new : SUBSET Markets] /\ NewAreKnown'
  BY <1>1, <1>3 DEF FeedsInv, TypeOK, NewAreKnown
<1>5. starter' = starter \/ starter' = "none"
  BY DEF LeavingStep, Ending, LoseConnection, TryAgain, DiscoveryError, Signal, FatalDbError, Kill,
         Stop, Cancel, CloseRun, Exit
<1>6. used' \in [{"fails", "dbErrors"} -> Nat]
  <2>1. UNCHANGED used \/ Spend("fails", MaxFails) \/ Spend("dbErrors", MaxDbErrors)
    BY DEF LeavingStep, Ending, LoseConnection, TryAgain, DiscoveryError, Signal, FatalDbError, Kill,
           Stop, Cancel, CloseRun, Exit
  <2> QED BY <2>1, SpendTyped DEF FeedsInv, TypeOK
<1>7. shutdown' \in BOOLEAN /\ running' \in BOOLEAN
  BY DEF LeavingStep, Ending, LoseConnection, TryAgain, DiscoveryError, Signal, FatalDbError, Kill,
         Stop, Cancel, CloseRun, Exit, process, FeedsInv, TypeOK
<1>8. /\ phase' \in {"discovering", "running", "stopping", "closing", "closed", "exited"}
      /\ stream' \in {"none", "connecting", "open", "waiting"}
      /\ ended' \subseteq 1 .. run' /\ signalled' \subseteq 1 .. run'
  <2>1. /\ phase' \in {"discovering", "running", "stopping", "closing", "closed", "exited"}
        /\ stream' \in {"none", "connecting", "open", "waiting"}
    BY DEF LeavingStep, Ending, LoseConnection, TryAgain, DiscoveryError, Signal,
           FatalDbError, Kill, Stop, Cancel, CloseRun, Exit, process, FeedsInv, TypeOK
  <2>2. run \in 1 .. MaxRuns /\ ended \subseteq 1 .. run /\ signalled \subseteq 1 .. run
    BY DEF FeedsInv, TypeOK
  <2>3. ended' = ended \/ ended' = ended \cup {run}
    BY DEF LeavingStep, Ending, LoseConnection, TryAgain, DiscoveryError, Signal,
           FatalDbError, Kill, Stop, Cancel, CloseRun, Exit, process
  <2>4. signalled' \in {signalled, signalled \cup {run}, signalled \ {run}}
    BY DEF LeavingStep, Ending, LoseConnection, TryAgain, DiscoveryError, Signal,
           FatalDbError, Kill, Stop, Cancel, CloseRun, Exit, process
  <2>5. run \in 1 .. run
    BY <2>2, FeedBounds
  <2> QED BY <1>1, <2>1, <2>2, <2>3, <2>4, <2>5
<1>9. stream' # "open" => wire' = <<>> /\ feed' = NoFeed
  BY DEF LeavingStep, Ending, LoseConnection, TryAgain, DiscoveryError, Signal, FatalDbError, Kill,
         Stop, Cancel, CloseRun, Exit, connection, NoConnection, FeedsInv, TypeOK
<1>10. TypeOK'
  BY <1>1, <1>2, <1>4, <1>5, <1>6, <1>7, <1>8, <1>9 DEF FeedsInv, TypeOK
<1>11. TasksInRun'
  BY <1>1 DEF LeavingStep, Ending, LoseConnection, TryAgain, DiscoveryError, Signal, FatalDbError,
              Kill, Stop, Cancel, CloseRun, Exit, process, FeedsInv, TasksInRun
<1>12. AsleepUnsubscribed'
  BY <1>2, <1>5 DEF FeedsInv, AsleepUnsubscribed
<1>13. LeftUnsubscribed'
  BY <1>2 DEF LeavingStep, Ending, LoseConnection, TryAgain, DiscoveryError, Signal, FatalDbError,
              Kill, Stop, Cancel, CloseRun, Exit, process, FeedsInv, TasksInRun, AsleepUnsubscribed,
              LeftUnsubscribed
<1> QED BY <1>2, <1>4, <1>10, <1>11, <1>12, <1>13 DEF FeedsInv

------------------------------------------------------------------------------
(* What the other steps keep *)

\* No market is known, recorded or streamed in a new process.
LEMMA FreshHolds ==
    ASSUME FreshProcess, UNCHANGED used, UNCHANGED <<ended, signalled>>,
           FeedsInv, run' \in 1 .. MaxRuns, run' = run + 1
    PROVE  FeedsInv'
<1>1. /\ phase' = "discovering" /\ shutdown' = FALSE
      /\ tickers' = {} /\ known' = {} /\ marketIdMap' = {}
      /\ discovery' = [pc |-> "none", new |-> {}] /\ starter' = "none"
      /\ running' = FALSE /\ recorded' = <<>> /\ stream' = "none"
      /\ wire' = <<>> /\ sent' = 0 /\ feed' = NoFeed
  BY DEF FreshProcess
<1>2. recorded' \in Seq(Commands) /\ wire' \in Seq(Commands) /\ Len(recorded') = 0
      /\ DOMAIN recorded' = {} /\ DOMAIN wire' = {}
  BY <1>1, EmptySeq
<1>3. shutdown' \in BOOLEAN /\ running' \in BOOLEAN
  BY <1>1
<1>4. ended' \subseteq 1 .. run' /\ signalled' \subseteq 1 .. run'
  BY FeedBounds DEF FeedsInv, TypeOK
<1>5. TypeOK'
  BY <1>1, <1>2, <1>3, <1>4, NoFeedTyped DEF FeedsInv, TypeOK
<1>6. CommandsRegistered' /\ FedAreRegistered' /\ RecordedOnce'
  BY <1>1, <1>2, NoFeedTyped DEF CommandsRegistered, FedAreRegistered, RecordedOnce
<1>7. NewAreKnown' /\ TasksInRun' /\ AsleepUnsubscribed' /\ LeftUnsubscribed'
  BY <1>1 DEF NewAreKnown, TasksInRun, AsleepUnsubscribed, LeftUnsubscribed
<1> QED BY <1>5, <1>6, <1>7 DEF FeedsInv

\* The tasks begin with nothing subscribed, and with every known market registered.
LEMMA StartupKeeps ==
    ASSUME FeedsInv, NEW found \in SUBSET Markets, Startup(found)
    PROVE  FeedsInv'
<1>1. /\ phase = "discovering" /\ phase' = "running"
      /\ known' = found /\ marketIdMap' = found /\ tickers' = found
      /\ discovery' = [discovery EXCEPT !.pc = "asleep"]
      /\ starter' = "asleep" /\ running' = TRUE /\ stream' = "connecting"
      /\ UNCHANGED <<shutdown, run, ended, signalled, recorded, wire, sent, feed, used>>
  BY DEF Startup, connection
<1>2. /\ stream = "none" /\ recorded = <<>> /\ wire = <<>> /\ feed = NoFeed
      /\ discovery.pc = "none" /\ discovery.new = {}
  BY <1>1 DEF FeedsInv, TypeOK, TasksInRun, NewAreKnown
<1>3. discovery' = [pc |-> "asleep", new |-> {}]
  BY <1>1, <1>2 DEF FeedsInv, TypeOK
<1>4. TypeOK'
  BY <1>1, <1>2, <1>3 DEF FeedsInv, TypeOK
<1>5. DOMAIN recorded = {} /\ DOMAIN wire = {}
  BY <1>2
<1>6. CommandsRegistered' /\ FedAreRegistered' /\ RecordedOnce'
  BY <1>1, <1>2, <1>5, NoFeedTyped
  DEF FeedsInv, CommandsRegistered, FedAreRegistered, RecordedOnce
<1>7. NewAreKnown' /\ TasksInRun' /\ AsleepUnsubscribed' /\ LeftUnsubscribed'
  BY <1>1, <1>2, <1>3, <1>5
  DEF NewAreKnown, TasksInRun, AsleepUnsubscribed, LeftUnsubscribed, Unsubscribed
<1> QED BY <1>4, <1>6, <1>7 DEF FeedsInv

\* start_ws has recorded nothing before it wakes up, so it sends the first command.
LEMMA SubscribeKeeps == FeedsInv /\ Subscribe => FeedsInv'
<1> SUFFICES ASSUME FeedsInv, Subscribe PROVE FeedsInv'
  OBVIOUS
<1> DEFINE cmd == [cmd |-> "subscribe", markets |-> tickers]
<1>1. /\ starter = "asleep" /\ starter' = "subscribed"
      /\ UNCHANGED <<process, phase, shutdown, run, ended, signalled, market, tickers, known,
                     marketIdMap, discovery, running, stream, feed, used>>
  BY DEF Subscribe, process, market
<1>2. /\ recorded' = recorded \/ recorded' = Append(recorded, cmd)
      /\ \/ wire' = wire /\ sent' = sent
         \/ /\ stream = "open" /\ recorded' = Append(recorded, cmd)
            /\ wire' = Append(wire, cmd) /\ sent' = sent + 1
  BY DEF Subscribe
<1>3. cmd \in Commands /\ cmd.markets \subseteq marketIdMap
  BY DEF FeedsInv, TypeOK, CommandsRegistered, Commands
<1>4. recorded \in Seq(Commands) /\ wire \in Seq(Commands) /\ recorded = <<>> /\ Len(recorded) = 0
      /\ sent = 0
  BY <1>1 DEF FeedsInv, TypeOK, AsleepUnsubscribed, Unsubscribed, RecordedOnce
<1> HIDE DEF cmd
<1>5. /\ recorded' \in Seq(Commands) /\ Len(recorded') <= 1
      /\ recorded' = Append(recorded, cmd) => Len(recorded') = 1
      /\ \A i \in DOMAIN recorded' : recorded'[i].markets \subseteq marketIdMap
  <2>1. CASE recorded' = recorded
    BY <1>4, <2>1, AppendProperties, <1>3
  <2>2. CASE recorded' = Append(recorded, cmd)
    <3>1. recorded' \in Seq(Commands) /\ Len(recorded') = 1 /\ DOMAIN recorded' = 1 .. 1
          /\ recorded'[1] = cmd
      BY <1>3, <1>4, <2>2, AppendProperties
    <3> QED BY <1>3, <3>1
  <2> QED BY <1>2, <2>1, <2>2
<1>6. /\ wire' \in Seq(Commands)
      /\ \A i \in DOMAIN wire' : wire'[i].markets \subseteq marketIdMap
  <2>1. CASE wire' = wire
    BY <1>4, <2>1 DEF FeedsInv, CommandsRegistered
  <2>2. CASE wire' = Append(wire, cmd)
    <3>1. wire' \in Seq(Commands) /\ DOMAIN wire' = 1 .. Len(wire) + 1 /\ Len(wire) \in Nat
          /\ wire'[Len(wire) + 1] = cmd
          /\ \A i \in 1 .. Len(wire) : wire'[i] = wire[i] /\ i \in DOMAIN wire
      BY <1>3, <1>4, <2>2, AppendProperties
    <3> QED BY <1>3, <3>1 DEF FeedsInv, CommandsRegistered
  <2> QED BY <1>2, <2>1, <2>2
<1>7. sent' \in Nat /\ sent' <= Len(recorded') /\ (stream # "open" => wire' = wire)
  BY <1>2, <1>4, <1>5, LenProperties
<1>8. TypeOK'
  BY <1>1, <1>5, <1>6, <1>7 DEF FeedsInv, TypeOK
<1>9. CommandsRegistered' /\ FedAreRegistered' /\ RecordedOnce'
  BY <1>1, <1>5, <1>6, <1>7
  DEF FeedsInv, CommandsRegistered, FedAreRegistered, RecordedOnce
<1>10. NewAreKnown' /\ TasksInRun' /\ AsleepUnsubscribed' /\ LeftUnsubscribed'
  BY <1>1 DEF FeedsInv, NewAreKnown, TasksInRun, AsleepUnsubscribed, LeftUnsubscribed
<1> QED BY <1>8, <1>9, <1>10 DEF FeedsInv

\* A new connection gets what is recorded: nothing, or the one subscription.
LEMMA ConnectKeeps == FeedsInv /\ Connect => FeedsInv'
<1> SUFFICES ASSUME FeedsInv, Connect PROVE FeedsInv'
  OBVIOUS
<1>1. /\ stream = "connecting" /\ stream' = "open" /\ wire' = recorded /\ sent' = Len(recorded)
      /\ UNCHANGED <<process, phase, shutdown, run, ended, signalled, market, tickers, known,
                     marketIdMap, discovery, starter, running, recorded, feed, used>>
  BY DEF Connect, process, market
<1>2. Len(recorded) \in Nat
  BY LenProperties DEF FeedsInv, TypeOK
<1>3. TypeOK'
  BY <1>1, <1>2 DEF FeedsInv, TypeOK
<1>4. CommandsRegistered' /\ FedAreRegistered' /\ RecordedOnce'
  BY <1>1, <1>2 DEF FeedsInv, CommandsRegistered, FedAreRegistered, RecordedOnce
<1>5. Unsubscribed => Unsubscribed'
  <2> SUFFICES ASSUME Unsubscribed PROVE Unsubscribed'
    OBVIOUS
  <2>1. DOMAIN recorded = {} /\ recorded = <<>> /\ feed = NoFeed
    BY DEF Unsubscribed
  <2> QED BY <1>1, <2>1 DEF Unsubscribed
<1>6. NewAreKnown' /\ TasksInRun' /\ AsleepUnsubscribed' /\ LeftUnsubscribed'
  BY <1>1, <1>5 DEF FeedsInv, NewAreKnown, TasksInRun, AsleepUnsubscribed, LeftUnsubscribed
<1> QED BY <1>3, <1>4, <1>6 DEF FeedsInv

\* The exchange streams what a command names, and for add_markets only on top of a
\* subscription.
LEMMA ServeKeeps == FeedsInv /\ Serve => FeedsInv'
<1> SUFFICES ASSUME FeedsInv, Serve PROVE FeedsInv'
  OBVIOUS
<1> DEFINE cmd == Head(wire)
<1>1. /\ wire # <<>> /\ wire' = Tail(wire)
      /\ UNCHANGED <<process, phase, shutdown, run, ended, signalled, market, tickers, known,
                     marketIdMap, discovery, starter, running, recorded, stream, sent, used>>
  BY DEF Serve, process, market
<1>2. feed' = IF cmd.cmd = "subscribe"
              THEN [c \in Channels |-> feed[c] \cup cmd.markets]
              ELSE IF feed[Sid1] = {} THEN feed
                   ELSE [feed EXCEPT ![Sid1] = @ \cup cmd.markets]
  BY DEF Serve
<1>3. /\ wire \in Seq(Commands) /\ wire' \in Seq(Commands) /\ cmd \in Commands /\ cmd = wire[1]
      /\ 1 \in DOMAIN wire
      /\ \A i \in DOMAIN wire' : i + 1 \in DOMAIN wire /\ wire'[i] = wire[i + 1]
  <2>1. wire \in Seq(Commands)
    BY DEF FeedsInv, TypeOK
  <2> QED BY <1>1, <2>1, HeadTailProperties, LenProperties
<1>4. cmd.markets \subseteq marketIdMap /\ cmd.markets \subseteq Markets
  BY <1>3 DEF FeedsInv, CommandsRegistered, Commands
<1> HIDE DEF cmd
<1>5. feed \in [Channels -> SUBSET Markets] /\ Sid1 \in Channels
  BY DEF FeedsInv, TypeOK, Channels, Sid1
<1>6. feed' \in [Channels -> SUBSET Markets] /\ FedAreRegistered'
  <2>1. feed' \in [Channels -> SUBSET Markets]
    BY <1>2, <1>4, <1>5
  <2>2. \A c \in Channels : feed'[c] = feed[c] \/ feed'[c] = feed[c] \cup cmd.markets
    BY <1>2, <1>5
  <2> QED BY <1>1, <1>4, <2>1, <2>2 DEF FeedsInv, FedAreRegistered
<1>7. stream = "open"
  BY <1>1 DEF FeedsInv, TypeOK
<1>8. TypeOK'
  BY <1>1, <1>3, <1>6, <1>7 DEF FeedsInv, TypeOK
<1>9. CommandsRegistered' /\ RecordedOnce'
  BY <1>1, <1>3 DEF FeedsInv, CommandsRegistered, RecordedOnce
<1>10. Unsubscribed => Unsubscribed'
  BY <1>1, <1>2, <1>3, <1>5, NoFeedTyped DEF Unsubscribed
<1>11. NewAreKnown' /\ TasksInRun' /\ AsleepUnsubscribed' /\ LeftUnsubscribed'
  BY <1>1, <1>10 DEF FeedsInv, NewAreKnown, TasksInRun, AsleepUnsubscribed, LeftUnsubscribed
<1> QED BY <1>6, <1>8, <1>9, <1>11 DEF FeedsInv

\* What is left to register is what separates the known markets from the registered.
LEMMA RemainingTyped ==
    ASSUME NEW left \in SUBSET Markets
    PROVE  /\ Remaining(left) \in [pc : {"none", "asleep", "registering"}, new : SUBSET Markets]
           /\ Remaining(left).new = left
           /\ Remaining(left).pc = "registering" <=> left # {}
BY DEF Remaining

LEMMA DiscoverKeeps ==
    ASSUME FeedsInv, NEW found \in SUBSET Markets, Discover(found)
    PROVE  FeedsInv'
<1>1. /\ discovery.pc = "asleep" /\ known' = known \cup found /\ discovery' = Remaining(found)
      /\ UNCHANGED <<process, phase, shutdown, run, ended, signalled, tickers, marketIdMap,
                     starter, running, recorded, stream, connection, wire, sent, feed, used>>
  BY DEF Discover, process, connection
<1>2. known = marketIdMap /\ phase \in {"running", "stopping"}
  BY <1>1 DEF FeedsInv, TypeOK, NewAreKnown, TasksInRun
<1>3. TypeOK'
  BY <1>1, RemainingTyped DEF FeedsInv, TypeOK
<1>4. CommandsRegistered' /\ FedAreRegistered' /\ RecordedOnce'
  BY <1>1 DEF FeedsInv, CommandsRegistered, FedAreRegistered, RecordedOnce
<1>5. NewAreKnown'
  BY <1>1, <1>2, RemainingTyped DEF NewAreKnown
<1>6. TasksInRun' /\ AsleepUnsubscribed' /\ LeftUnsubscribed'
  BY <1>1, <1>2 DEF FeedsInv, TasksInRun, AsleepUnsubscribed, LeftUnsubscribed, Unsubscribed
<1> QED BY <1>3, <1>4, <1>5, <1>6 DEF FeedsInv

\* The market is in market_id_map by the time the command for it is in flight.
LEMMA RegisterKeeps ==
    ASSUME FeedsInv, NEW m \in Markets, Register(m)
    PROVE  FeedsInv'
<1> DEFINE cmd == [cmd |-> "add_markets", markets |-> {m}]
<1>1. /\ discovery.pc = "registering" /\ m \in discovery.new
      /\ marketIdMap' = marketIdMap \cup {m}
      /\ discovery' = Remaining(discovery.new \ {m})
      /\ wire' = IF stream = "open" THEN Append(wire, cmd) ELSE wire
      /\ UNCHANGED <<process, phase, shutdown, run, ended, signalled, tickers, known, starter,
                     running, recorded, stream, sent, feed, used>>
  BY DEF Register, process
<1>2. known = marketIdMap \cup discovery.new /\ phase \in {"running", "stopping"}
  BY <1>1 DEF FeedsInv, TypeOK, NewAreKnown, TasksInRun
<1>3. cmd \in Commands /\ cmd.markets = {m} /\ cmd.cmd = "add_markets"
  BY DEF Commands
<1> HIDE DEF cmd
<1>4. /\ wire' \in Seq(Commands)
      /\ \A i \in DOMAIN wire' : (i \in DOMAIN wire /\ wire'[i] = wire[i]) \/ wire'[i] = cmd
  <2>1. wire \in Seq(Commands) /\ Len(wire) \in Nat
    BY LenProperties DEF FeedsInv, TypeOK
  <2>2. CASE wire' = wire
    BY <2>1, <2>2
  <2>3. CASE wire' = Append(wire, cmd)
    <3>1. wire' \in Seq(Commands) /\ DOMAIN wire' = 1 .. Len(wire) + 1
          /\ wire'[Len(wire) + 1] = cmd
          /\ \A i \in 1 .. Len(wire) : wire'[i] = wire[i] /\ i \in DOMAIN wire
      BY <1>3, <2>1, <2>3, AppendProperties
    <3> QED BY <2>1, <3>1
  <2> QED BY <1>1, <2>2, <2>3
<1>5. discovery' \in [pc : {"none", "asleep", "registering"}, new : SUBSET Markets] /\ NewAreKnown'
  <2>1. discovery.new \ {m} \in SUBSET Markets
    BY DEF FeedsInv, TypeOK
  <2> QED BY <1>1, <1>2, <2>1, RemainingTyped DEF NewAreKnown
<1>6. TypeOK'
  BY <1>1, <1>4, <1>5 DEF FeedsInv, TypeOK
<1>7. CommandsRegistered' /\ FedAreRegistered' /\ RecordedOnce'
  BY <1>1, <1>3, <1>4 DEF FeedsInv, CommandsRegistered, FedAreRegistered, RecordedOnce
<1>8. Unsubscribed => Unsubscribed'
  BY <1>1, <1>3, <1>4 DEF Unsubscribed
<1>9. TasksInRun' /\ AsleepUnsubscribed' /\ LeftUnsubscribed'
  BY <1>1, <1>2, <1>8 DEF FeedsInv, TasksInRun, AsleepUnsubscribed, LeftUnsubscribed
<1> QED BY <1>5, <1>6, <1>7, <1>9 DEF FeedsInv

------------------------------------------------------------------------------
(* Theorems *)

LEMMA InitHolds == Init => FeedsInv
<1> SUFFICES ASSUME Init PROVE FeedsInv
  OBVIOUS
<1>1. recorded \in Seq(Commands) /\ wire \in Seq(Commands) /\ Len(recorded) = 0
      /\ DOMAIN recorded = {} /\ DOMAIN wire = {}
  BY EmptySeq DEF Init
<1>2. shutdown \in BOOLEAN /\ running \in BOOLEAN
  BY DEF Init
<1>3. run \in 1 .. MaxRuns /\ ended = {} /\ signalled = {} /\ feed = NoFeed
      /\ used \in [{"fails", "dbErrors"} -> Nat]
  BY FeedBounds DEF Init
<1>4. TypeOK
  BY <1>1, <1>2, <1>3, NoFeedTyped DEF Init, TypeOK
<1>5. CommandsRegistered /\ FedAreRegistered /\ RecordedOnce
  BY <1>1, NoFeedTyped DEF Init, CommandsRegistered, FedAreRegistered, RecordedOnce
<1>6. NewAreKnown /\ TasksInRun /\ AsleepUnsubscribed /\ LeftUnsubscribed
  BY DEF Init, NewAreKnown, TasksInRun, AsleepUnsubscribed, LeftUnsubscribed
<1> QED BY <1>4, <1>5, <1>6 DEF FeedsInv

LEMMA NextKeeps == FeedsInv /\ [Next]_vars => FeedsInv'
<1> SUFFICES ASSUME FeedsInv, [Next]_vars PROVE FeedsInv'
  OBVIOUS
<1>1. CASE \E found \in SUBSET Markets : Startup(found)
  BY <1>1, StartupKeeps
<1>2. CASE Subscribe \/ Connect \/ Serve
  BY <1>2, SubscribeKeeps, ConnectKeeps, ServeKeeps
<1>3. CASE Discovering
  BY <1>3, DiscoverKeeps DEF Discovering
<1>4. CASE Registering
  BY <1>4, RegisterKeeps DEF Registering
<1>5. CASE LeavingStep
  BY <1>5, LeavingKeeps
<1>6. CASE Restart
  <2>1. run' = run + 1 /\ run' \in 1 .. MaxRuns /\ FreshProcess /\ UNCHANGED <<ended, signalled, used>>
    BY <1>6, FeedBounds DEF Restart, FeedsInv, TypeOK
  <2> QED BY <2>1, FreshHolds
<1>7. CASE UNCHANGED vars
  BY <1>7 DEF vars, process, market, connection, FeedsInv, TypeOK, CommandsRegistered,
              FedAreRegistered, RecordedOnce, NewAreKnown, TasksInRun, AsleepUnsubscribed,
              LeftUnsubscribed, Unsubscribed
<1> QED BY <1>1, <1>2, <1>3, <1>4, <1>5, <1>6, <1>7 DEF Next, LeavingStep

\* The inductive invariant holds in every state that is reached.
THEOREM Invariant == Spec => []FeedsInv
<1>1. Init => FeedsInv
  BY InitHolds
<1>2. FeedsInv /\ [Next]_vars => FeedsInv'
  BY NextKeeps
<1> QED BY <1>1, <1>2, PTL DEF Spec

\* Every variable has its type, and only a live process has tasks or a connection.
THEOREM TypeCorrect == Spec => []TypeOK
<1>1. FeedsInv => TypeOK
  BY DEF FeedsInv
<1> QED BY <1>1, Invariant, PTL

\* No handler drops a frame because discovery, a reconnection or a restart let the
\* exchange stream a market before market_id_map had it.
THEOREM StreamedAreRegistered == Spec => []FedAreRegistered
<1>1. FeedsInv => FedAreRegistered
  BY DEF FeedsInv
<1> QED BY <1>1, Invariant, PTL

\* No connection carries the subscription twice: start_ws subscribes once, and a
\* connection that is open by then has been sent nothing.
THEOREM OneSubscription == Spec => []SubscribedOnce
<1>1. FeedsInv => SubscribedOnce
  BY LenProperties DEF FeedsInv, TypeOK, RecordedOnce, SubscribedOnce
<1> QED BY <1>1, Invariant, PTL

\* Between two passes no market is known that is not registered.
THEOREM KnownMarketsAreRegistered == Spec => []KnownAreRegistered
<1>1. FeedsInv => KnownAreRegistered
  BY DEF FeedsInv, NewAreKnown, KnownAreRegistered
<1> QED BY <1>1, Invariant, PTL

\* No frame arrives once the tasks are gathered: a stream that survives them belongs to
\* a start_ws that had subscribed to nothing.
THEOREM QuietOnceGathered == Spec => []QuietAfterCancel
<1>1. ASSUME FeedsInv PROVE QuietAfterCancel
  <2> SUFFICES ASSUME phase \in {"closing", "closed"}
               PROVE  feed = NoFeed /\ \A i \in DOMAIN wire : wire[i].cmd # "subscribe"
    BY DEF QuietAfterCancel
  <2>1. CASE stream = "none"
    <3>1. wire = <<>> /\ feed = NoFeed
      BY <1>1, <2>1 DEF FeedsInv, TypeOK
    <3>2. DOMAIN wire = {}
      BY <3>1
    <3> QED BY <3>1, <3>2
  <2>2. CASE Unsubscribed
    BY <2>2 DEF Unsubscribed
  <2> QED BY <1>1, <2>1, <2>2 DEF FeedsInv, LeftUnsubscribed
<1> QED BY <1>1, Invariant, PTL
=============================================================================
