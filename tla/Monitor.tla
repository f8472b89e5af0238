------------------------------ MODULE Monitor ------------------------------
(***************************************************************************)
(* The monitor process (monitor/__init__.py, checks.py, discord.py) over   *)
(* the database that the collector fills.  A round of the monitor runs its *)
(* checks one after another on one connection, then sends the alerts they  *)
(* gave in the order of the checks, then sleeps.  An exception of a check  *)
(* drops the results of the round; an exception of a send that is not an   *)
(* aiohttp.ClientError ends the task, and the process lives on without it. *)
(*                                                                         *)
(* Three of the six checks can speak: stale markets, ingestion lag and     *)
(* missing partitions.  The other three read api_requests and              *)
(* data_quality_events, which nothing writes, and take part only as        *)
(* queries that may fail.                                                  *)
(*                                                                         *)
(* The age of a market's newest snapshot is counted in the thresholds of   *)
(* the checks, and a snapshot needs a partition of the current week.       *)
(***************************************************************************)
EXTENDS Partitions

CONSTANTS
    Restarted,    \* the processes under the restart policy: not the scripts
    Markets,      \* the tickers
    Snapshots,    \* the number of orderbook_snapshots in the list of tables
    LagAfter,     \* ages of a snapshot: older than 5 minutes, the first alert
    LagError,     \* of check_ingestion_lag; older than 15, its level error;
    StaleAfter,   \* older than stale_market_threshold_sec
    MaxFaults     \* bound: the rounds that raise and the sends that fail

ASSUME RestartedAssumption == Restarted \subseteq Processes
ASSUME SnapshotsAssumption == Snapshots \in 1..Tables
ASSUME AgesAssumption == /\ LagAfter \in Nat \ {0}
                         /\ LagError \in Nat /\ LagAfter < LagError
                         /\ StaleAfter \in Nat \ {0}
ASSUME FaultsAssumption == MaxFaults \in Nat

\* The age of a snapshot that does not exist, and the greatest told apart.
Never  == -1
OldAge == IF LagError > StaleAfter THEN LagError ELSE StaleAfter

VARIABLES
    phase,      \* what the monitor task is doing
    pending,    \* the alerts of the round that are still to be sent
    alerted,    \* this week's missing partitions were reported to the operator
    window,     \* the markets that are listed and between their times
    age,        \* the age of each market's newest snapshot
    faults      \* how many of MaxFaults have happened

monitorVars == <<phase, pending, alerted, faults>>
marketVars == <<window, age>>
vars == <<migrationVars, partitionVars, monitorVars, marketVars>>

Checks == {"stale", "lag", "partitions"}
Alert(check, subject, level) == [check |-> check, subject |-> subject, level |-> level]
Upcoming == "upcoming week"

Init ==
    /\ MigrationsInit
    /\ PartitionsInit
    /\ phase = "asleep"
    /\ pending = {}
    /\ alerted = FALSE
    /\ window = {}
    /\ age = [m \in Markets |-> Never]
    /\ faults = 0

-----------------------------------------------------------------------------
(* The monitor's round.                                                    *)

\* Slip: HAVING leaves the null out.
StaleOnly == {m \in window : age[m] >= StaleAfter}

\* check_stale_markets: LEFT JOIN, so a market without a snapshot counts.
Stale == {m \in window : age[m] = Never \/ age[m] >= StaleAfter}

\* check_ingestion_lag: JOIN, so it does not.
Lagging == {m \in window : age[m] >= LagAfter}

\* Slip: a level nobody else knows.
LagCritical(m) == IF age[m] >= LagError THEN "critical" ELSE "warning"

LagLevel(m) == IF age[m] >= LagError THEN "error" ELSE "warning"

\* run_all_checks.  The queries count as one step: no alert depends on two of
\* them.  Until 001 has made the tables the first query raises and a round
\* comes to nothing.
RunAllChecks ==
    /\ phase = "asleep"
    /\ 1 \in effects
    /\ CheckMissing
    /\ pending' = {Alert("stale", m, "warning") : m \in Stale}
             \union {Alert("lag", m, LagLevel(m)) : m \in Lagging}
             \union (IF verdict' = "missing"
                       THEN {Alert("partitions", Upcoming, "error")} ELSE {})
    /\ phase' = "sending"
    /\ UNCHANGED <<alerted, faults, marketVars, migrationVars>>

\* A query raises: what the round has found so far is dropped.
CheckRaises ==
    /\ phase = "asleep"
    /\ faults < MaxFaults
    /\ faults' = faults + 1
    /\ UNCHANGED <<phase, pending, alerted, marketVars, migrationVars, partitionVars>>

\* The alerts go out in the order of the checks, the rows of one check in any.
Rank(a) == CASE a.check = "stale" -> 1 [] a.check = "lag" -> 2 [] OTHER -> 3
NextAlerts == {a \in pending : \A b \in pending : Rank(a) <= Rank(b)}

Send(a) ==
    /\ phase = "sending"
    /\ a \in NextAlerts
    /\ pending' = pending \ {a}
    /\ alerted' = (alerted \/ a.check = "partitions")
    /\ UNCHANGED <<phase, faults, marketVars, migrationVars, partitionVars>>

\* The webhook answers with an error or aiohttp raises a ClientError: the
\* alert is logged and the loop goes on with the next.
SendFails(a) ==
    /\ phase = "sending"
    /\ a \in NextAlerts
    /\ faults < MaxFaults
    /\ faults' = faults + 1
    /\ pending' = pending \ {a}
    /\ UNCHANGED <<phase, alerted, marketVars, migrationVars, partitionVars>>

\* The webhook gives no answer: the total timeout is a TimeoutError, which
\* send does not catch and run does not either.
SendTimesOut(a) ==
    /\ phase = "sending"
    /\ a \in NextAlerts
    /\ faults < MaxFaults
    /\ faults' = faults + 1
    /\ phase' = "dead"
    /\ pending' = {}
    /\ UNCHANGED <<alerted, marketVars, migrationVars, partitionVars>>

Sleep ==
    /\ phase = "sending"
    /\ pending = {}
    /\ phase' = "asleep"
    /\ UNCHANGED <<pending, alerted, faults, marketVars, migrationVars, partitionVars>>

MonitorStep ==
    \/ RunAllChecks \/ CheckRaises \/ Sleep
    \/ \E a \in pending : Send(a) \/ SendFails(a) \/ SendTimesOut(a)

-----------------------------------------------------------------------------
(* What happens around it.                                                 *)

\* The collector has been through run_migrations.
Collecting == \E p \in Restarted : stage[p] = "ready"

\* The collector finds the market listed; its close_time passes.
List(m) ==
    /\ m \notin window
    /\ Collecting
    /\ window' = window \union {m}
    /\ UNCHANGED <<age, monitorVars, migrationVars, partitionVars>>

Close(m) ==
    /\ m \in window
    /\ window' = window \ {m}
    /\ UNCHANGED <<age, monitorVars, migrationVars, partitionVars>>

\* A snapshot is inserted: only into a partition.
Store(m) ==
    /\ m \in window
    /\ Collecting
    /\ Covered(Snapshots, week)
    /\ age' = [age EXCEPT ![m] = 0]
    /\ UNCHANGED <<window, monitorVars, migrationVars, partitionVars>>

Older(a) == IF a \in 0..(OldAge - 1) THEN a + 1 ELSE a

\* Minutes pass.
Elapse ==
    /\ age' = [m \in Markets |-> Older(age[m])]
    /\ age' # age
    /\ UNCHANGED <<window, monitorVars, migrationVars, partitionVars>>

\* The runbook: on the alert the operator runs the repair script, once a week.
Repair ==
    /\ alerted
    /\ ~Repaired
    /\ VerifyStart
    /\ UNCHANGED <<monitorVars, marketVars, migrationVars>>

VerifyWorks == VerifyStep /\ UNCHANGED <<monitorVars, marketVars, migrationVars>>

\* A week has room for many rounds and for the operator's answer: it ends
\* after the monitor found the next one ready or its alert was attended to,
\* unless the monitor is gone.
Attended == \/ verdict = "ready"
            \/ verdict = "missing" /\ alerted /\ Repaired

Monday ==
    /\ phase = "dead" \/ Attended
    /\ NextWeek
    /\ alerted' = FALSE
    /\ UNCHANGED <<phase, pending, faults, marketVars, migrationVars>>

Migrate(p) == MigrationStep(p) /\ UNCHANGED <<monitorVars, marketVars>>

Next ==
    \/ MonitorStep
    \/ \E p \in Processes : Migrate(p)
    \/ \E m \in Markets : List(m) \/ Close(m) \/ Store(m)
    \/ Elapse
    \/ Repair \/ VerifyWorks
    \/ Monday

\* What runs goes on: the monitor's loop, the collector under its restart
\* policy, the operator and the repair script, and time.
Fairness ==
    /\ WF_vars(MonitorStep)
    /\ \A p \in Restarted : WF_vars(Migrate(p))
    /\ WF_vars(Repair)
    /\ WF_vars(VerifyWorks)
    /\ WF_vars(Elapse)

Spec == Init /\ [][Next]_vars /\ Fairness

-----------------------------------------------------------------------------
\* Every variable has its type; in particular an alert has a level that
\* DiscordAlerter knows a colour for.
TypeOK ==
    /\ MigrationsTypeOK
    /\ PartitionsTypeOK
    /\ phase \in {"asleep", "sending", "dead"}
    /\ pending \subseteq [check : Checks, subject : Markets \union {Upcoming},
                          level : {"info", "warning", "error"}]
    /\ alerted \in BOOLEAN
    /\ window \subseteq Markets
    /\ age \in [Markets -> Never..OldAge]
    /\ faults \in 0..MaxFaults

\* Once the database is set up, a row of the current week can be stored in
\* every table, as long as there is a monitor: the migration prepares five
\* weeks, and from then on it takes the check, the alert that gets through,
\* the operator and the repair script to have the next ones ready in time.  At a
\* TurnOfYear this fails: the repair script and the check go by different names.
RowsFindAPartition == phase # "dead" => RowsHaveAHome

\* A market in its window that stays without a snapshot, or without a recent
\* one, is reported as stale again and again, and if it ever had one also as
\* lagging at level error, whatever rounds and sends fail on the way; only a
\* monitor task that has ended stays quiet.
Silent(m) == m \in window /\ age[m] \in {Never, OldAge}

SilenceIsReported ==
    \A m \in Markets :
        <>[]Silent(m) =>
            \/ <>(phase = "dead")
            \/ /\ []<><<Send(Alert("stale", m, "warning"))>>_vars
               /\ <>[](age[m] = OldAge) => []<><<Send(Alert("lag", m, "error"))>>_vars

\* A process under the restart policy gets through run_migrations in the end,
\* although another may be in it at the same time and either may be killed
\* between applying a script and recording it.
CollectorStarts == \A p \in Restarted : <>[](stage[p] = "ready")
=============================================================================
