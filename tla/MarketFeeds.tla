----------------------------- MODULE MarketFeeds -----------------------------
(***************************************************************************)
(* Which markets the exchange streams to the collector: run_collector in   *)
(* main.py (startup, the discovery task, shutdown), ws_client.py (the      *)
(* recorded subscriptions, reconnection, stop) and DiscoveryLoop.run_once. *)
(* A step ends where the code awaits.                                      *)
(*                                                                         *)
(* Program state:                                                          *)
(*   phase       where run_collector is: discovering (startup), running    *)
(*               (at shutdown.wait()), stopping (after ws_client.stop()),  *)
(*               closing (tasks gone, the run row and the pool still       *)
(*               open), closed (back in asyncio.run), exited               *)
(*   shutdown    the asyncio.Event the signal handler sets                 *)
(*   tickers     the list run_collector computes once, at startup          *)
(*   known, marketIdMap     _known_tickers of DiscoveryLoop; market_id_map *)
(*   discovery   the discovery task: pc, and the new markets run_once      *)
(*               returned that are not yet registered                      *)
(*   starter     start_ws: asleep (2 s), or past its subscribe()           *)
(*   running, recorded      KalshiWsClient._running, _subscriptions        *)
(*   stream      the task of KalshiWsClient.start                          *)
(*   run, ended  the current row of ingestion_runs; rows with an end_ts    *)
(*                                                                         *)
(* External, of the current connection: wire, the commands not yet read by *)
(* the exchange; sent, how many subscribe commands were sent; feed, the    *)
(* markets it streams on each channel.  signalled holds the runs that got  *)
(* a signal and met no failure since (auxiliary).                          *)
(***************************************************************************)
EXTENDS Integers, Sequences

CONSTANTS Markets,
          MaxFails,      \* bound on lost connections and failed attempts
          MaxDbErrors,   \* bound on failed statements
          MaxRuns        \* bound on starts of the process

ASSUME FeedBounds == MaxFails \in Nat /\ MaxDbErrors \in Nat /\ MaxRuns \in Nat \ {0}

VARIABLES phase, shutdown, tickers, known, marketIdMap, discovery, starter,
          running, recorded, stream, run, ended, wire, sent, feed, signalled, used

market == <<tickers, known, marketIdMap>>
connection == <<wire, sent, feed>>
process == <<phase, shutdown, run, ended, signalled>>
vars == <<process, market, discovery, starter, running, recorded, stream,
          connection, used>>

Channels == {"orderbook_delta", "trade", "market_lifecycle_v2"}
NoFeed == [c \in Channels |-> {}]

\* sid 1, the first subscription of a connection.
Sid1 == "orderbook_delta"

Spend(event, bound) == /\ used[event] < bound
                       /\ used' = [used EXCEPT ![event] = @ + 1]

\* A new process: everything in memory is as the constructors leave it.
FreshProcess ==
    /\ phase' = "discovering" /\ shutdown' = FALSE
    /\ tickers' = {} /\ known' = {} /\ marketIdMap' = {}
    /\ discovery' = [pc |-> "none", new |-> {}] /\ starter' = "none"
    /\ running' = FALSE /\ recorded' = <<>> /\ stream' = "none"
    /\ wire' = <<>> /\ sent' = 0 /\ feed' = NoFeed

Init ==
    /\ phase = "discovering" /\ shutdown = FALSE
    /\ tickers = {} /\ known = {} /\ marketIdMap = {}
    /\ discovery = [pc |-> "none", new |-> {}] /\ starter = "none"
    /\ running = FALSE /\ recorded = <<>> /\ stream = "none"
    /\ wire = <<>> /\ sent = 0 /\ feed = NoFeed
    /\ run = 1 /\ ended = {} /\ signalled = {}
    /\ used = [fails |-> 0, dbErrors |-> 0]

NoConnection == wire' = <<>> /\ sent' = 0 /\ feed' = NoFeed

------------------------------------------------------------------------------
(* run_collector: startup *)

\* The initial discovery pass returns the markets it could fetch, they are
\* registered, and the tasks are created.
Startup(found) ==
    /\ phase = "discovering"
    /\ phase' = "running"
    /\ known' = found /\ marketIdMap' = found /\ tickers' = found
    /\ discovery' = [discovery EXCEPT !.pc = "asleep"]
    /\ starter' = "asleep"
    /\ running' = TRUE /\ stream' = "connecting"
    /\ UNCHANGED <<shutdown, run, ended, signalled, recorded, connection, used>>

\* A statement fails during startup or in _close_run: the exception ends the process.
FatalDbError ==
    /\ phase \in {"discovering", "closing"}
    /\ Spend("dbErrors", MaxDbErrors)
    /\ phase' = "exited" /\ signalled' = signalled \ {run}
    /\ stream' = "none" /\ NoConnection
    /\ UNCHANGED <<shutdown, run, ended, market, discovery, starter, running, recorded>>

------------------------------------------------------------------------------
(* KalshiWsClient *)

\* Slip: start_ws goes back to sleep after it has subscribed.
SubscribeRepeatedly ==
    /\ starter = "asleep"
    /\ UNCHANGED starter
    /\ LET cmd == [cmd |-> "subscribe", markets |-> tickers] IN
         IF tickers # {} /\ stream = "open" /\ Len(wire) < 2
         THEN recorded' = Append(recorded, cmd) /\ wire' = Append(wire, cmd) /\ sent' = sent + 1
         ELSE UNCHANGED <<recorded, wire, sent>>
    /\ UNCHANGED <<process, market, discovery, running, stream, feed, used>>

\* start_ws wakes up: subscribe() records the command and sends it if it can.
Subscribe ==
    /\ starter = "asleep"
    /\ starter' = "subscribed"
    /\ LET cmd == [cmd |-> "subscribe", markets |-> tickers] IN
         /\ recorded' = IF tickers # {} THEN Append(recorded, cmd) ELSE recorded
         /\ IF tickers # {} /\ stream = "open"
            THEN wire' = Append(wire, cmd) /\ sent' = sent + 1
            ELSE UNCHANGED <<wire, sent>>
    /\ UNCHANGED <<process, market, discovery, running, stream, feed, used>>

\* Slip: the recorded commands are only sent on the first connection.
ConnectWithoutResend ==
    /\ stream = "connecting"
    /\ stream' = "open"
    /\ wire' = IF used["fails"] = 0 THEN recorded ELSE <<>>
    /\ sent' = Len(wire')
    /\ UNCHANGED <<process, market, discovery, starter, running, recorded, feed, used>>

\* The connection is established and the recorded commands are sent again.
Connect ==
    /\ stream = "connecting"
    /\ stream' = "open"
    /\ wire' = recorded
    /\ sent' = Len(recorded)
    /\ UNCHANGED <<process, market, discovery, starter, running, recorded, feed, used>>

\* Slip: what the exchange streamed is remembered as if it still did.
LoseConnectionOnly ==
    /\ stream \in {"connecting", "open"}
    /\ Spend("fails", MaxFails)
    /\ stream' = "waiting"
    /\ UNCHANGED <<process, market, discovery, starter, running, recorded, connection>>

\* An attempt fails, or the connection is lost: everything in flight with it.
LoseConnection ==
    /\ stream \in {"connecting", "open"}
    /\ Spend("fails", MaxFails)
    /\ stream' = "waiting"
    /\ NoConnection
    /\ UNCHANGED <<process, market, discovery, starter, running, recorded>>

\* The backoff ends, or the loop finds _running reset.
TryAgain ==
    /\ stream = "waiting"
    /\ stream' = IF running THEN "connecting" ELSE "none"
    /\ UNCHANGED <<process, market, discovery, starter, running, recorded, connection, used>>

\* The exchange reads a command.  Adding markets to sid 1 fails when there is none.
Serve ==
    /\ wire # <<>>
    /\ LET cmd == Head(wire) IN
         feed' = IF cmd.cmd = "subscribe"
                 THEN [c \in Channels |-> feed[c] \cup cmd.markets]
                 ELSE IF feed[Sid1] = {} THEN feed
                      ELSE [feed EXCEPT ![Sid1] = @ \cup cmd.markets]
    /\ wire' = Tail(wire)
    /\ UNCHANGED <<process, market, discovery, starter, running, recorded, stream, sent, used>>

------------------------------------------------------------------------------
(* The discovery task *)

\* With the markets left still to register, or back at the head of the loop.
Remaining(left) ==
    [pc |-> IF left # {} THEN "registering" ELSE IF shutdown THEN "none" ELSE "asleep",
     new |-> left]

\* After a sleep, run_once returns markets it has not returned before, as far as the
\* requests for them succeed.
Discover(found) ==
    /\ discovery.pc = "asleep"
    /\ found \cap known = {}
    /\ known' = known \cup found
    /\ discovery' = Remaining(found)
    /\ UNCHANGED <<process, tickers, marketIdMap, starter, running, recorded, stream,
                   connection, used>>

\* Slip: add_markets is sent for the whole pass with its first market.
RegisterSendingAll(m) ==
    /\ discovery.pc = "registering" /\ m \in discovery.new
    /\ marketIdMap' = marketIdMap \cup {m}
    /\ discovery' = Remaining(discovery.new \ {m})
    /\ wire' = IF stream = "open"
               THEN Append(wire, [cmd |-> "add_markets", markets |-> discovery.new])
               ELSE wire
    /\ UNCHANGED <<process, tickers, known, starter, running, recorded, stream,
                   sent, feed, used>>

\* One new market is stored, entered in market_id_map, and sent with add_markets,
\* which records nothing; without a connection nothing is sent.
Register(m) ==
    /\ discovery.pc = "registering" /\ m \in discovery.new
    /\ marketIdMap' = marketIdMap \cup {m}
    /\ discovery' = Remaining(discovery.new \ {m})
    /\ wire' = IF stream = "open"
               THEN Append(wire, [cmd |-> "add_markets", markets |-> {m}])
               ELSE wire
    /\ UNCHANGED <<process, tickers, known, starter, running, recorded, stream,
                   sent, feed, used>>

\* Slip: the loop logs the exception and goes on.
DiscoveryErrorSwallowed ==
    /\ discovery.pc # "none"
    /\ Spend("dbErrors", MaxDbErrors)
    /\ discovery' = [pc |-> "asleep", new |-> {}]
    /\ UNCHANGED <<process, market, starter, running, recorded, stream, connection>>

\* A statement of run_once or of the loop fails: nothing catches the exception, and
\* the task is over.
DiscoveryError ==
    /\ discovery.pc # "none"
    /\ Spend("dbErrors", MaxDbErrors)
    /\ discovery' = [pc |-> "none", new |-> {}]
    /\ UNCHANGED <<process, market, starter, running, recorded, stream, connection>>

------------------------------------------------------------------------------
(* run_collector: shutdown *)

\* SIGTERM or SIGINT.
Signal ==
    /\ phase \in {"discovering", "running"} /\ ~shutdown
    /\ shutdown' = TRUE
    /\ signalled' = signalled \cup {run}
    /\ UNCHANGED <<phase, run, ended, market, discovery, starter, running, recorded,
                   stream, connection, used>>

\* ws_client.stop(): no further attempt, and an open connection is closed.
Stop ==
    /\ phase = "running" /\ shutdown
    /\ phase' = "stopping"
    /\ running' = FALSE
    /\ IF stream = "open"
       THEN stream' = "waiting" /\ NoConnection
       ELSE UNCHANGED <<stream, connection>>
    /\ UNCHANGED <<shutdown, run, ended, signalled, market, discovery, starter, recorded, used>>

\* Slips: the stream is not cancelled, or the tasks are waited for instead.
CancelExceptStream ==
    /\ phase = "stopping"
    /\ phase' = "closing"
    /\ discovery' = [pc |-> "none", new |-> {}] /\ starter' = "none"
    /\ UNCHANGED <<shutdown, run, ended, signalled, market, running, recorded, stream,
                   connection, used>>
CancelByWaiting ==
    /\ phase = "stopping"
    /\ stream = "none"
    /\ phase' = "closing"
    /\ discovery' = [pc |-> "none", new |-> {}] /\ starter' = "none"
    /\ UNCHANGED <<shutdown, run, ended, signalled, market, running, recorded, stream,
                   connection, used>>

\* Every task is cancelled and awaited.  start_ws passes the cancellation on to the
\* stream unless it is still asleep: then the stream is on its own.
Cancel ==
    /\ phase = "stopping"
    /\ phase' = "closing"
    /\ discovery' = [pc |-> "none", new |-> {}] /\ starter' = "none"
    /\ IF starter = "asleep"
       THEN UNCHANGED <<stream, connection>>
       ELSE stream' = "none" /\ NoConnection
    /\ UNCHANGED <<shutdown, run, ended, signalled, market, running, recorded, used>>

\* _close_run, then pool.close().
CloseRun ==
    /\ phase = "closing"
    /\ phase' = "closed"
    /\ ended' = ended \cup {run}
    /\ UNCHANGED <<shutdown, run, signalled, market, discovery, starter, running, recorded,
                   stream, connection, used>>

\* asyncio.run cancels what is left and the process ends.
Exit ==
    /\ phase = "closed"
    /\ phase' = "exited"
    /\ stream' = "none" /\ NoConnection
    /\ UNCHANGED <<shutdown, run, ended, signalled, market, discovery, starter, running,
                   recorded, used>>

\* The process is killed.
Kill ==
    /\ phase # "exited"
    /\ Spend("fails", MaxFails)
    /\ phase' = "exited" /\ signalled' = signalled \ {run}
    /\ discovery' = [pc |-> "none", new |-> {}] /\ starter' = "none"
    /\ stream' = "none" /\ NoConnection
    /\ UNCHANGED <<shutdown, run, ended, market, running, recorded>>

\* It is started again (docker compose, restart: unless-stopped).
Restart ==
    /\ phase = "exited" /\ run < MaxRuns
    /\ run' = run + 1
    /\ FreshProcess
    /\ UNCHANGED <<ended, signalled, used>>

------------------------------------------------------------------------------
Discovering == \E found \in SUBSET Markets : Discover(found)
Registering == \E m \in Markets : Register(m)
Ending == Stop \/ Cancel \/ CloseRun \/ Exit

Next ==
    \/ \E found \in SUBSET Markets : Startup(found)
    \/ Subscribe \/ Connect \/ LoseConnection \/ TryAgain \/ Serve
    \/ Discovering \/ Registering \/ DiscoveryError
    \/ Signal \/ Ending \/ FatalDbError \/ Kill \/ Restart

Spec == Init /\ [][Next]_vars

\* Sleeps end, attempts to connect end (MaxFails of them in failure), the exchange
\* reads its commands, and run_collector gets to run.
Fairness ==
    /\ WF_vars(\E found \in SUBSET Markets : Startup(found))
    /\ WF_vars(Subscribe) /\ WF_vars(Connect) /\ WF_vars(TryAgain) /\ WF_vars(Serve)
    /\ WF_vars(Registering) /\ WF_vars(Ending)

FairSpec == Spec /\ Fairness

------------------------------------------------------------------------------
(* Properties *)

Commands == [cmd : {"subscribe", "add_markets"}, markets : SUBSET Markets]

\* Every variable has its type, and only a live process has tasks or a connection.
TypeOK ==
    /\ phase \in {"discovering", "running", "stopping", "closing", "closed", "exited"}
    /\ shutdown \in BOOLEAN /\ running \in BOOLEAN
    /\ tickers \subseteq Markets /\ known \subseteq Markets /\ marketIdMap \subseteq Markets
    /\ discovery \in [pc : {"none", "asleep", "registering"}, new : SUBSET Markets]
    /\ starter \in {"none", "asleep", "subscribed"}
    /\ recorded \in Seq(Commands) /\ wire \in Seq(Commands)
    /\ stream \in {"none", "connecting", "open", "waiting"}
    /\ sent \in Nat
    /\ feed \in [Channels -> SUBSET Markets]
    /\ run \in 1 .. MaxRuns /\ ended \subseteq 1 .. run /\ signalled \subseteq 1 .. run
    /\ used \in [{"fails", "dbErrors"} -> Nat]
    /\ stream # "open" => wire = <<>> /\ feed = NoFeed

\* The exchange only streams markets that market_id_map already holds, so that no
\* handler drops a frame for an unknown ticker (orderbook.py and trades.py return
\* silently): the map is filled before the command leaves.
FedAreRegistered == \A c \in Channels : feed[c] \subseteq marketIdMap

\* No connection carries the startup subscription twice, whether start_ws finds the
\* connection open, not yet open, or lost (a second one would double every frame).
SubscribedOnce == sent <= 1

\* Between two passes every market run_once has returned is registered: none is
\* remembered as known, hence never returned again, without being collected.
KnownAreRegistered == discovery.pc = "asleep" => known = marketIdMap

\* Once main has gathered its tasks no frame arrives that would need the pool, not
\* even when the stream outlives start_ws.
QuietAfterCancel ==
    phase \in {"closing", "closed"} =>
        feed = NoFeed /\ \A i \in DOMAIN wire : wire[i].cmd # "subscribe"

\* The markets of the startup pass are streamed on every channel, however often the
\* connection is lost and the process restarted.
StartupFed ==
    \A m \in Markets, c \in Channels :
        <>[](phase = "running" /\ ~shutdown /\ m \in tickers => m \in feed[c])

\* A signal ends the process, and its row in ingestion_runs gets its end_ts unless
\* the process is killed or a statement fails (docs/schema.md: "end_ts is NULL until
\* graceful shutdown").
ShutdownEnds ==
    /\ \A r \in 1 .. MaxRuns : r \in signalled ~> (r \in ended \/ r \notin signalled)
    /\ shutdown ~> phase = "exited"

\* What ws_client.py line 79 says ("Re-subscribe to all channels after reconnect"): a
\* market once streamed is streamed again after a reconnection.
FeedsSurvive ==
    \A m \in Markets :
        <>(m \in feed[Sid1]) => <>[](m \in feed[Sid1] \/ phase # "running" \/ shutdown)
=============================================================================
