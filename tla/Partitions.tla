---------------------------- MODULE Partitions ----------------------------
(***************************************************************************)
(* The weekly partitions of the three time-series tables: script 002 of    *)
(* the migrations makes five weeks of them, the monitor's check looks      *)
(* whether next week's exist, and scripts/verify_partitions.py, which the  *)
(* runbook has the operator run on the monitor's alert, makes this week's  *)
(* and the next four.  Nothing else makes any: pg_partman is installed but *)
(* never told about the tables, and no table has a default partition, so a *)
(* row of a week without partition cannot be stored.                       *)
(*                                                                         *)
(* The clock is the number of the week.  The rest of the monitor is in     *)
(* Monitor.tla, which joins its steps with the ones here.                  *)
(***************************************************************************)
EXTENDS Migrations, Calendar, FiniteSets

CONSTANTS
    Tables,          \* the partitioned tables, numbered in the order of the list
    FirstWeek,       \* the week in which the database is set up
    LastWeek,        \* bound: the last week of the calendar that is looked at
    WeeksAhead       \* the weeks after the current one that are prepared

ASSUME TablesAssumption == Tables \in Nat \ {0}
ASSUME WeeksAssumption == /\ FirstWeek \in Nat /\ LastWeek \in Nat /\ FirstWeek <= LastWeek
                          /\ WeeksAhead \in 1..52     \* less than a year: 4 in the code
                          /\ LastWeek + WeeksAhead \in Weeks

PartitionScript == 2     \* sql/002_partitions.sql

VARIABLES
    week,        \* the current week
    catalog,     \* the partitions in pg_class
    verify,      \* verify_partitions.py: its stage, its Monday, its place
    verdict      \* check_missing_partitions of this week: "none", "ready", "missing"

partitionVars == <<week, catalog, verify, verdict>>

Partition(t, label, w) == [table |-> t, label |-> label, week |-> w]
Named(t, label) == \E e \in catalog : e.table = t /\ e.label = label
Covered(t, w) == \E e \in catalog : e.table = t /\ e.week = w

\* CREATE TABLE IF NOT EXISTS ... PARTITION OF for each of rows: a name that
\* exists is skipped, whatever its range; a range that another partition has
\* is an error.
Fresh(rows) == {r \in rows : ~Named(r.table, r.label)}
Overlaps(rows) == \E r \in Fresh(rows) : Covered(r.table, r.week)

\* The rows of the loop of 002.
ScriptRows == {Partition(t, SqlLabel[w], w) :
                 t \in 1..Tables, w \in week..(week + WeeksAhead)}

PartitionsInit ==
    /\ week = FirstWeek
    /\ catalog = {}
    /\ verify = [stage |-> "idle", monday |-> FirstWeek, ahead |-> 0, table |-> 1]
    /\ verdict = "none"

\* A script is executed: 002 makes its partitions, or meets a range that is
\* taken and is rolled back whole.
ExecuteScript(p) ==
    /\ IF at[p] = PartitionScript
         THEN IF Overlaps(ScriptRows)
                THEN Raise(p) /\ UNCHANGED catalog
                ELSE Apply(p) /\ catalog' = catalog \union Fresh(ScriptRows)
         ELSE Apply(p) /\ UNCHANGED catalog
    /\ UNCHANGED <<week, verify, verdict>>

MigrationStep(p) ==
    \/ ExecuteScript(p)
    \/ /\ Start(p) \/ Look(p) \/ Record(p) \/ Crash(p)
       /\ UNCHANGED partitionVars

-----------------------------------------------------------------------------
\* Slip: one table that has its partition is enough.
NamedForOne(label) == \E t \in 1..Tables : Named(t, label)

NamedForAll(label) == \A t \in 1..Tables : Named(t, label)

\* check_missing_partitions: the names of next Monday.
CheckMissing ==
    /\ verdict' = IF NamedForAll(MonitorLabel[week + 1]) THEN "ready" ELSE "missing"
    /\ UNCHANGED <<week, catalog, verify>>

\* The operator starts verify_partitions.py, which reads the date once.
VerifyStart ==
    /\ verify.stage # "running"
    /\ verify' = [stage |-> "running", monday |-> week, ahead |-> 0, table |-> 1]
    /\ UNCHANGED <<week, catalog, verdict>>

\* Slip: the range of the loop ends a week early.
VerifyShort ==
    IF verify.table < Tables              THEN [verify EXCEPT !.table = @ + 1]
    ELSE IF verify.ahead + 1 < WeeksAhead THEN [verify EXCEPT !.ahead = @ + 1, !.table = 1]
    ELSE [verify EXCEPT !.stage = "done"]

\* The loop of ensure_partitions goes on with the next table or the next week.
VerifyAdvance ==
    IF verify.table < Tables          THEN [verify EXCEPT !.table = @ + 1]
    ELSE IF verify.ahead < WeeksAhead THEN [verify EXCEPT !.ahead = @ + 1, !.table = 1]
    ELSE [verify EXCEPT !.stage = "done"]

VerifyRow == LET w == verify.monday + verify.ahead
             IN  {Partition(verify.table, VerifyLabel[w], w)}

\* One table of one week: a name that exists is passed over, a missing one is
\* created; if its range is taken, the exception ends the script, whatever is
\* left to do.  The query and the statement may count as one step, since the
\* statement itself says IF NOT EXISTS.
VerifyStep ==
    /\ verify.stage = "running"
    /\ IF Overlaps(VerifyRow)
         THEN verify' = [verify EXCEPT !.stage = "failed"] /\ UNCHANGED catalog
         ELSE verify' = VerifyAdvance /\ catalog' = catalog \union Fresh(VerifyRow)
    /\ UNCHANGED <<week, verdict>>

\* Monday.  The verdict is last week's.  No run_migrations lasts for days.
NextWeek ==
    /\ week < LastWeek
    /\ \A p \in Processes : stage[p] \in {"down", "ready"}
    /\ week' = week + 1
    /\ verdict' = "none"
    /\ UNCHANGED <<catalog, verify>>

\* The script was run to its end in this week.
Repaired == verify.stage \in {"done", "failed"} /\ verify.monday = week

\* Every variable has its type.
PartitionsTypeOK ==
    /\ week \in FirstWeek..LastWeek
    /\ catalog \subseteq [table : 1..Tables, label : Int \X (1..53), week : Weeks]
    /\ verify \in [stage : {"idle", "running", "done", "failed"}, monday : Nat,
                   ahead : 0..WeeksAhead, table : 1..Tables]
    /\ verdict \in {"none", "ready", "missing"}

-----------------------------------------------------------------------------
\* Its Monday is in December and its ISO week is the first of the next year: only
\* then do the year of the Monday and the ISO year differ.
TurnOfYear(w) == YearOf(7 * w) # IsoYear(w)

\* While the monitor calls next week ready, every table has a partition for
\* next week's rows, although the check only compares names, which three places
\* write in two ways, and the partitions are made one by one.  Excepted is a
\* week at the turn of the year, for which the check may find the name of the
\* first week of the year that ends.
ReadyIsTrue ==
    verdict = "ready" /\ ~TurnOfYear(week + 1) => \A t \in 1..Tables : Covered(t, week + 1)

\* Once the database is set up, a row of the current week can be stored in
\* every table.
RowsHaveAHome ==
    PartitionScript \in effects => \A t \in 1..Tables : Covered(t, week)
=============================================================================
