------------------------- MODULE MonitorProofs -------------------------
(***************************************************************************)
(* NoScriptSkipped for any number of processes, scripts and crashes, and   *)
(* for the whole of Monitor.tla, whose steps are steps of run_migrations   *)
(* or leave its variables alone.                                           *)
(***************************************************************************)
EXTENDS Monitor, TLAPS

\* What a process knows between two of its statements: the script it is about to
\* apply was the first that it found unrecorded, and the one it is about to record
\* has been applied, by itself or by another.
AtFirstUnrecorded ==
    \A p \in Processes : stage[p] = "apply" => at[p] \in Scripts /\ 1..(at[p] - 1) \subseteq effects

AtApplied ==
    \A p \in Processes : stage[p] = "record" => at[p] \in effects

MigrationsInv ==
    /\ MigrationsTypeOK
    /\ NoScriptSkipped
    /\ AtFirstUnrecorded
    /\ AtApplied

-----------------------------------------------------------------------------
LEMMA MigrationsInitially == MigrationsInit => MigrationsInv
  BY ScriptsAssumption, CrashAssumption
  DEF MigrationsInit, MigrationsInv, MigrationsTypeOK, NoScriptSkipped, AtFirstUnrecorded,
      AtApplied, Stages, Scripts

\* The steps that leave the database alone: the next place of the process is all
\* that has to be justified.
LEMMA MovingKeepsInv ==
  ASSUME MigrationsInv, NEW p \in Processes, NEW next \in Stages, NEW n \in 0..LastScript,
         Go(p, next, n), UNCHANGED <<effects, recorded>>, crashes' \in 0..MaxCrashes,
         next = "apply" => n \in Scripts /\ 1..(n - 1) \subseteq effects,
         next = "record" => n \in effects,
         next = "ready" => effects = Scripts
  PROVE  MigrationsInv'
<1>1. MigrationsTypeOK'
  BY DEF MigrationsInv, MigrationsTypeOK, Go
<1>2. /\ \A q \in Processes : q # p => stage'[q] = stage[q] /\ at'[q] = at[q]
      /\ stage'[p] = next /\ at'[p] = n
  BY DEF MigrationsInv, MigrationsTypeOK, Go
<1>3. NoScriptSkipped'
  BY <1>2 DEF MigrationsInv, NoScriptSkipped, Scripts
<1>4. AtFirstUnrecorded' /\ AtApplied'
  BY <1>2 DEF MigrationsInv, AtFirstUnrecorded, AtApplied, Scripts
<1> QED
  BY <1>1, <1>3, <1>4 DEF MigrationsInv

LEMMA LookKeepsInv ==
  ASSUME MigrationsInv, NEW p \in Processes, Look(p)
  PROVE  MigrationsInv'
<1>1. recorded \subseteq effects /\ effects \subseteq Scripts /\ crashes \in 0..MaxCrashes
  BY DEF MigrationsInv, MigrationsTypeOK, NoScriptSkipped
<1>2. CASE Unrecorded = {} /\ Go(p, "ready", 0)
  <2>1. effects = Scripts
    BY <1>1, <1>2 DEF Unrecorded
  <2>2. 0 \in 0..LastScript /\ "ready" \in Stages
    BY ScriptsAssumption DEF Stages
  <2> QED
    BY <1>1, <1>2, <2>1, <2>2, MovingKeepsInv DEF Look
<1>3. ASSUME NEW n \in Unrecorded, \A k \in Unrecorded : n <= k, Go(p, "apply", n)
      PROVE  MigrationsInv'
  <2>1. n \in Scripts /\ n \in 0..LastScript /\ "apply" \in Stages
    BY ScriptsAssumption DEF Unrecorded, Scripts, Stages
  <2>2. 1..(n - 1) \subseteq effects
    <3>1. SUFFICES ASSUME NEW k \in 1..(n - 1) PROVE k \in recorded
      BY <1>1
    <3>2. k \in Scripts /\ ~(n <= k)
      BY <2>1, ScriptsAssumption DEF Scripts
    <3> QED
      BY <1>3, <3>2 DEF Unrecorded
  <2> QED
    BY <1>1, <1>3, <2>1, <2>2, MovingKeepsInv DEF Look
<1> QED
  BY <1>2, <1>3 DEF Look

LEMMA ApplyKeepsInv ==
  ASSUME MigrationsInv, NEW p \in Processes, Apply(p)
  PROVE  MigrationsInv'
<1>1. at[p] \in Scripts /\ 1..(at[p] - 1) \subseteq effects
  BY DEF MigrationsInv, AtFirstUnrecorded, Apply
<1>2. effects' = effects \union {at[p]} /\ recorded' = recorded /\ crashes' = crashes
  BY DEF Apply
<1>3. MigrationsTypeOK'
  BY <1>1, <1>2 DEF MigrationsInv, MigrationsTypeOK, Apply, Go, Stages, Scripts
<1>4. /\ \A q \in Processes : q # p => stage'[q] = stage[q] /\ at'[q] = at[q]
      /\ stage'[p] = "record" /\ at'[p] = at[p]
  BY DEF MigrationsInv, MigrationsTypeOK, Apply, Go
<1>5. NoScriptSkipped'
  <2>1. recorded' \subseteq effects'
    BY <1>2 DEF MigrationsInv, NoScriptSkipped
  <2>2. ASSUME NEW n \in effects' PROVE 1..n \subseteq effects'
    <3>1. CASE n \in effects
      BY <1>2, <3>1 DEF MigrationsInv, NoScriptSkipped
    <3>2. CASE n = at[p]
      <4>1. at[p] \in Nat \ {0}
        BY <1>1, ScriptsAssumption DEF Scripts
      <4>2. 1..n = 1..(at[p] - 1) \union {at[p]}
        BY <3>2, <4>1
      <4> QED
        BY <1>1, <1>2, <4>2
    <3> QED
      BY <1>2, <3>1, <3>2
  <2>3. ASSUME NEW q \in Processes, stage'[q] = "ready" PROVE effects' = Scripts
    <3>1. stage[q] = "ready"
      BY <1>4, <2>3
    <3> QED
      BY <1>1, <1>2, <3>1 DEF MigrationsInv, NoScriptSkipped
  <2>4. Scripts' = Scripts
    BY DEF Scripts
  <2> QED
    BY <2>1, <2>2, <2>3, <2>4 DEF NoScriptSkipped
<1>6. AtFirstUnrecorded' /\ AtApplied'
  BY <1>2, <1>4 DEF MigrationsInv, AtFirstUnrecorded, AtApplied, Scripts
<1> QED
  BY <1>3, <1>5, <1>6 DEF MigrationsInv

LEMMA RecordKeepsInv ==
  ASSUME MigrationsInv, NEW p \in Processes, Record(p)
  PROVE  MigrationsInv'
<1>1. at[p] \in effects
  BY DEF MigrationsInv, AtApplied, Record
<1>2. /\ recorded' = recorded \union {at[p]} /\ effects' = effects /\ crashes' = crashes
      /\ \E next \in {"down", "look"} : Go(p, next, 0)
  BY DEF Record
<1>3. /\ \A q \in Processes : q # p => stage'[q] = stage[q] /\ at'[q] = at[q]
      /\ stage'[p] \in {"down", "look"}
  BY <1>2 DEF MigrationsInv, MigrationsTypeOK, Go
<1>4. MigrationsTypeOK'
  <2>1. PICK next \in {"down", "look"} : Go(p, next, 0)
    BY <1>2
  <2>2. stage' \in [Processes -> Stages] /\ at' \in [Processes -> 0..LastScript]
    BY <2>1, ScriptsAssumption DEF MigrationsInv, MigrationsTypeOK, Go, Stages
  <2> QED
    BY <1>1, <1>2, <2>2 DEF MigrationsInv, MigrationsTypeOK
<1>5. NoScriptSkipped'
  BY <1>1, <1>2, <1>3 DEF MigrationsInv, NoScriptSkipped, Scripts
<1>6. AtFirstUnrecorded' /\ AtApplied'
  BY <1>2, <1>3 DEF MigrationsInv, AtFirstUnrecorded, AtApplied, Scripts
<1> QED
  BY <1>4, <1>5, <1>6 DEF MigrationsInv

LEMMA MigrationsKeepInv == MigrationsInv /\ [MigrationsNext]_migrationVars => MigrationsInv'
<1> SUFFICES ASSUME MigrationsInv, [MigrationsNext]_migrationVars PROVE MigrationsInv'
  OBVIOUS
<1>1. CASE UNCHANGED migrationVars
  BY <1>1 DEF migrationVars, MigrationsInv, MigrationsTypeOK, NoScriptSkipped,
              AtFirstUnrecorded, AtApplied, Stages, Scripts
<1>2. ASSUME NEW p \in Processes,
             Start(p) \/ Look(p) \/ Apply(p) \/ Raise(p) \/ Record(p) \/ Crash(p)
      PROVE  MigrationsInv'
  <2>1. /\ 0 \in 0..LastScript /\ {"down", "look"} \subseteq Stages
        /\ crashes \in 0..MaxCrashes
    BY ScriptsAssumption DEF Stages, MigrationsInv, MigrationsTypeOK
  <2>2. CASE Start(p)
    BY <2>1, <2>2, MovingKeepsInv DEF Start
  <2>3. CASE Look(p)
    BY <2>3, LookKeepsInv
  <2>4. CASE Apply(p)
    BY <2>4, ApplyKeepsInv
  <2>5. CASE Raise(p)
    BY <2>1, <2>5, MovingKeepsInv DEF Raise
  <2>6. CASE Record(p)
    BY <2>6, RecordKeepsInv
  <2>7. CASE Crash(p)
    <3>1. crashes' \in 0..MaxCrashes
      BY <2>1, <2>7, CrashAssumption DEF Crash
    <3> QED
      BY <2>1, <2>7, <3>1, MovingKeepsInv DEF Crash
  <2> QED
    BY <1>2, <2>2, <2>3, <2>4, <2>5, <2>6, <2>7
<1> QED
  BY <1>1, <1>2 DEF MigrationsNext

\* Any number of processes in run_migrations, killed at any statement, never make a
\* script count that was not run, nor run one before its predecessors.
THEOREM NothingSkipped == MigrationsSpec => []NoScriptSkipped
<1>1. MigrationsInv => NoScriptSkipped
  BY DEF MigrationsInv
<1> QED
  BY MigrationsInitially, MigrationsKeepInv, <1>1, PTL DEF MigrationsSpec

-----------------------------------------------------------------------------
\* A step of the system is a step of run_migrations or leaves its variables alone.
LEMMA StepMigrates == [Next]_vars => [MigrationsNext]_migrationVars
<1> SUFFICES ASSUME [Next]_vars PROVE [MigrationsNext]_migrationVars
  OBVIOUS
<1>1. CASE UNCHANGED vars
  BY <1>1 DEF vars
<1>2. CASE MonitorStep
  BY <1>2 DEF MonitorStep, RunAllChecks, CheckRaises, Sleep, Send, SendFails, SendTimesOut
<1>3. ASSUME NEW p \in Processes, Migrate(p) PROVE MigrationsNext
  BY <1>3 DEF Migrate, MigrationStep, ExecuteScript, MigrationsNext
<1>4. CASE \E m \in Markets : List(m) \/ Close(m) \/ Store(m)
  BY <1>4 DEF List, Close, Store
<1>5. CASE Elapse \/ Repair \/ VerifyWorks
  BY <1>5 DEF Elapse, Repair, VerifyWorks
<1>6. CASE Monday
  BY <1>6 DEF Monday
<1> QED
  BY <1>1, <1>2, <1>3, <1>4, <1>5, <1>6 DEF Next

\* The partitions, the monitor and the operator change nothing about it: the whole
\* system implements run_migrations.
THEOREM SystemMigrates == Spec => MigrationsSpec
<1>1. Init => MigrationsInit
  BY DEF Init
<1> QED
  BY <1>1, StepMigrates, PTL DEF Spec, MigrationsSpec

\* The same promise in the system with its partitions, monitor and operator.
THEOREM NothingSkippedInSystem == Spec => []NoScriptSkipped
  BY SystemMigrates, NothingSkipped, PTL

-----------------------------------------------------------------------------
(* The partitions *)

\* A partition was made for this week, one before or one that is prepared, and is
\* named in one of the two ways that write names.
PartitionsNamed ==
    \A e \in catalog :
        /\ e.week \in FirstWeek..(week + WeeksAhead)
        /\ e.label \in {SqlLabel[e.week], VerifyLabel[e.week]}

\* The repair script works from a Monday that was.
VerifyFromThePast == verify.monday \in FirstWeek..week

PartsInv == PartitionsTypeOK /\ PartitionsNamed /\ VerifyFromThePast /\ ReadyIsTrue

\* The types of the variables that Monitor adds.
Alerts == [check : Checks, subject : Markets \union {Upcoming},
           level : {"info", "warning", "error"}]

RoundsTypeOK ==
    /\ phase \in {"asleep", "sending", "dead"}
    /\ pending \subseteq Alerts
    /\ alerted \in BOOLEAN
    /\ window \subseteq Markets
    /\ age \in [Markets -> Never..OldAge]
    /\ faults \in 0..MaxFaults

UpkeepInv == MigrationsInv /\ PartsInv /\ RoundsTypeOK

\* No week that is looked at belongs to two years.
NoTurnOfYear == \A w \in FirstWeek..(LastWeek + WeeksAhead) : ~TurnOfYear(w)

\* Where the repair script has been: the rows it has passed have their partition,
\* and it has not met a range that is taken.
Passed(t, k) ==
    \/ verify.stage = "done"
    \/ verify.stage = "running" /\ (k < verify.ahead \/ (k = verify.ahead /\ t < verify.table))

VerifyPrepares ==
    /\ verify.stage # "failed"
    /\ \A t \in 1..Tables, k \in 0..WeeksAhead : Passed(t, k) => Covered(t, verify.monday + k)

InTimeInv ==
    /\ UpkeepInv
    /\ VerifyPrepares
    /\ RowsFindAPartition

-----------------------------------------------------------------------------
(* The calendar *)

\* The start of a year, and the next.
LEMMA YearLength ==
  ASSUME NEW y \in Int
  PROVE  /\ YearStart(y) \in Int
         /\ YearStart(y) + 365 <= YearStart(y + 1) /\ YearStart(y + 1) <= YearStart(y) + 366
  BY DEF YearStart

LEMMA YearsInOrder ==
  ASSUME NEW y \in Int, NEW z \in Int, y < z
  PROVE  YearStart(y + 1) <= YearStart(z)
  BY DEF YearStart

\* Every day that is looked at falls in a year.
LookedAt == 0..7010
InYear(d, y) == YearStart(y) <= d /\ d < YearStart(y + 1)

LEMMA DayHasYear ==
  ASSUME NEW d \in LookedAt
  PROVE  YearOf(d) \in 2024..2099 /\ InYear(d, YearOf(d))
<1> DEFINE n == (4 * d) \div 1461
<1>1. n \in 0..75 /\ 1461 * n <= 4 * d /\ 4 * d < 1461 * (n + 1) /\ d \in Nat
  BY DEF LookedAt
<1> HIDE DEF n
<1>2. 2024 + n \in 2024..2099
  BY <1>1
<1>3. InYear(d, 2024 + n)
  BY <1>1 DEF YearStart, InYear
<1>4. YearOf(d) = CHOOSE y \in 2024..2099 : InYear(d, y)
  BY DEF YearOf, InYear
<1> QED
  BY <1>2, <1>3, <1>4

\* Where the Monday and the Thursday of a week lie.
LEMMA WeekHasYears ==
  ASSUME NEW w \in Weeks
  PROVE  /\ w \in Nat
         /\ YearOf(7 * w) \in 2024..2099
         /\ YearStart(YearOf(7 * w)) <= 7 * w /\ 7 * w < YearStart(YearOf(7 * w) + 1)
         /\ IsoYear(w) \in 2024..2099
         /\ YearStart(IsoYear(w)) <= 7 * w + 3 /\ 7 * w + 3 < YearStart(IsoYear(w) + 1)
<1>1. w \in Nat /\ 7 * w \in LookedAt /\ 7 * w + 3 \in LookedAt
  BY DEF Weeks, LookedAt
<1>2. YearOf(7 * w) \in 2024..2099 /\ InYear(7 * w, YearOf(7 * w))
  BY <1>1, DayHasYear
<1>3. IsoYear(w) \in 2024..2099 /\ InYear(7 * w + 3, IsoYear(w))
  BY <1>1, DayHasYear DEF IsoYear
<1> QED
  BY <1>1, <1>2, <1>3 DEF InYear

\* The ISO week number places a week in its ISO year.
LEMMA WeekNumber ==
  ASSUME NEW w \in Weeks
  PROVE  /\ IsoWeek(w) \in 1..53
         /\ YearStart(IsoYear(w)) + 7 * (IsoWeek(w) - 1) <= 7 * w + 3
         /\ 7 * w + 3 < YearStart(IsoYear(w)) + 7 * IsoWeek(w)
<1> DEFINE s == YearStart(IsoYear(w))
<1>1. w \in Nat /\ s \in Int /\ s <= 7 * w + 3 /\ 7 * w + 3 < s + 366
  <2> DEFINE y == IsoYear(w)
  <2>1. /\ w \in Nat /\ y \in Int
        /\ YearStart(y) <= 7 * w + 3 /\ 7 * w + 3 < YearStart(y + 1)
    BY WeekHasYears
  <2> HIDE DEF y
  <2>2. /\ YearStart(y) \in Int /\ YearStart(y + 1) \in Int
        /\ YearStart(y + 1) <= YearStart(y) + 366
    <3>1. y + 1 \in Int
      BY <2>1
    <3> QED
      BY <2>1, <3>1, YearLength
  <2>3. YearStart(y) <= 7 * w + 3 /\ 7 * w + 3 < YearStart(y) + 366
    BY <2>1, <2>2
  <2> QED
    BY <2>1, <2>2, <2>3 DEF y
<1>2. IsoWeek(w) = (7 * w + 3 - s) \div 7 + 1
  BY DEF IsoWeek
<1> HIDE DEF s
<1>3. /\ (7 * w + 3 - s) \div 7 + 1 \in 1..53
      /\ s + 7 * ((7 * w + 3 - s) \div 7) <= 7 * w + 3
      /\ 7 * w + 3 < s + 7 * ((7 * w + 3 - s) \div 7 + 1)
  BY <1>1
<1>4. IsoWeek(w) \in 1..53 /\ s + 7 * (IsoWeek(w) - 1) <= 7 * w + 3
      /\ 7 * w + 3 < s + 7 * IsoWeek(w)
  BY <1>1, <1>2, <1>3
<1> QED
  BY <1>4 DEF s

\* The names of the repair script tell the weeks apart.
LEMMA OneVerifyLabel ==
  ASSUME NEW v \in Weeks, NEW w \in Weeks, VerifyLabel[v] = VerifyLabel[w]
  PROVE  v = w
<1>1. IsoYear(v) = IsoYear(w) /\ IsoWeek(v) = IsoWeek(w)
  BY DEF VerifyLabel
<1>2. v \in Nat /\ w \in Nat /\ IsoWeek(w) \in Int /\ YearStart(IsoYear(w)) \in Int
  <2>1. IsoYear(w) \in Int /\ v \in Nat /\ w \in Nat
    BY WeekHasYears
  <2>2. IsoWeek(w) \in Int
    BY WeekNumber
  <2> QED
    BY <2>1, <2>2, YearLength
<1>3. /\ YearStart(IsoYear(w)) + 7 * (IsoWeek(w) - 1) <= 7 * v + 3
      /\ 7 * v + 3 < YearStart(IsoYear(w)) + 7 * IsoWeek(w)
      /\ YearStart(IsoYear(w)) + 7 * (IsoWeek(w) - 1) <= 7 * w + 3
      /\ 7 * w + 3 < YearStart(IsoYear(w)) + 7 * IsoWeek(w)
  BY <1>1, WeekNumber
<1> QED
  BY <1>2, <1>3

\* A week of two years is the first ISO week of the second.
LEMMA TurnIsFirstWeek ==
  ASSUME NEW w \in Weeks, TurnOfYear(w)
  PROVE  IsoYear(w) = YearOf(7 * w) + 1 /\ IsoWeek(w) = 1
<1> DEFINE y == YearOf(7 * w)
           z == IsoYear(w)
<1>1. /\ w \in Nat /\ y \in Int /\ z \in Int /\ y # z
      /\ YearStart(y) <= 7 * w /\ 7 * w < YearStart(y + 1)
      /\ YearStart(z) <= 7 * w + 3 /\ 7 * w + 3 < YearStart(z + 1)
      /\ YearStart(z) + 7 * (IsoWeek(w) - 1) <= 7 * w + 3
      /\ 7 * w + 3 < YearStart(z) + 7 * IsoWeek(w)
      /\ IsoWeek(w) \in 1..53
  BY WeekHasYears, WeekNumber DEF TurnOfYear
<1> HIDE DEF y, z
<1>2. YearStart(y) \in Int /\ YearStart(z) \in Int /\ YearStart(y + 1) \in Int
      /\ YearStart(z + 1) \in Int /\ YearStart(y + 1) + 365 <= YearStart((y + 1) + 1)
  <2>1. y + 1 \in Int /\ z + 1 \in Int
    BY <1>1
  <2> QED
    BY <1>1, <2>1, YearLength
<1>3. ~(z < y)
  <2>1. SUFFICES ASSUME z < y PROVE FALSE
    OBVIOUS
  <2>2. YearStart(z + 1) <= YearStart(y)
    BY <1>1, <2>1, YearsInOrder
  <2> QED
    BY <1>1, <1>2, <2>2
<1>4. ~(y + 1 < z)
  <2>1. SUFFICES ASSUME y + 1 < z PROVE FALSE
    OBVIOUS
  <2>2. YearStart((y + 1) + 1) <= YearStart(z) /\ YearStart((y + 1) + 1) \in Int
    <3>1. y + 1 \in Int /\ (y + 1) + 1 \in Int
      BY <1>1
    <3> QED
      BY <1>1, <2>1, <3>1, YearsInOrder, YearLength
  <2> QED
    BY <1>1, <1>2, <2>2
<1>5. z = y + 1
  BY <1>1, <1>3, <1>4
<1>6. IsoWeek(w) = 1
  BY <1>1, <1>2, <1>5
<1> QED
  BY <1>5, <1>6 DEF y, z

\* What the check looks for names only the week it means, among partitions made less
\* than a year ahead of it: the name of the first week of a year, given to the first
\* of the next, would come 52 weeks later.
LEMMA OneMonitorLabel ==
  ASSUME NEW v \in Weeks, ~TurnOfYear(v), NEW w \in Weeks, w < v + 52,
         MonitorLabel[v] \in {SqlLabel[w], VerifyLabel[w]}
  PROVE  v = w
<1>1. MonitorLabel[v] = VerifyLabel[v]
  BY DEF MonitorLabel, VerifyLabel, TurnOfYear
<1>2. CASE VerifyLabel[v] = VerifyLabel[w]
  BY <1>2, OneVerifyLabel
<1>3. CASE TurnOfYear(w) /\ VerifyLabel[v] = SqlLabel[w]
  <2>1. IsoYear(v) = YearOf(7 * w) /\ IsoWeek(v) = IsoWeek(w)
    BY <1>3 DEF VerifyLabel, SqlLabel
  <2>2. IsoYear(w) = IsoYear(v) + 1 /\ IsoWeek(v) = 1 /\ IsoWeek(w) = 1
    BY <1>3, <2>1, TurnIsFirstWeek
  <2>3. /\ v \in Nat /\ w \in Nat /\ IsoYear(v) \in Int /\ YearStart(IsoYear(v)) \in Int
        /\ YearStart(IsoYear(v)) + 365 <= YearStart(IsoYear(w)) /\ YearStart(IsoYear(w)) \in Int
    <3>1. v \in Nat /\ w \in Nat /\ IsoYear(v) \in Int /\ IsoYear(v) + 1 \in Int
      BY WeekHasYears
    <3> QED
      BY <2>2, <3>1, YearLength
  <2>4. 7 * v + 3 < YearStart(IsoYear(v)) + 7 /\ YearStart(IsoYear(w)) <= 7 * w + 3
    <3>1. 7 * v + 3 < YearStart(IsoYear(v)) + 7 * 1
      BY <2>2, WeekNumber
    <3>2. YearStart(IsoYear(w)) <= 7 * w + 3
      BY WeekHasYears
    <3> QED
      BY <3>1, <3>2
  <2> QED
    BY <2>3, <2>4
<1>4. CASE ~TurnOfYear(w)
  BY <1>1, <1>4, <1>2 DEF SqlLabel, VerifyLabel, TurnOfYear
<1> QED
  BY <1>1, <1>2, <1>3, <1>4

LEMMA LabelsTyped ==
  ASSUME NEW w \in Weeks
  PROVE  SqlLabel[w] \in Int \X (1..53) /\ VerifyLabel[w] \in Int \X (1..53)
  BY WeekHasYears, WeekNumber DEF SqlLabel, VerifyLabel

-----------------------------------------------------------------------------
(* Partitions and verdicts, whatever the calendar *)

Rows == [table : 1..Tables, label : Int \X (1..53), week : Weeks]
Repairs == [stage : {"idle", "running", "done", "failed"}, monday : Nat,
            ahead : 0..WeeksAhead, table : 1..Tables]

PreparedRow(e) ==
    /\ e.week \in FirstWeek..(week + WeeksAhead)
    /\ e.label \in {SqlLabel[e.week], VerifyLabel[e.week]}

\* The weeks that a step can name.
LEMMA NamedWeeks ==
  ASSUME PartsInv
  PROVE  /\ week \in Nat /\ FirstWeek <= week /\ week <= LastWeek /\ week + 1 \in Weeks
         /\ \A m \in FirstWeek..week, k \in 0..WeeksAhead :
               m + k \in Weeks /\ m + k \in FirstWeek..(week + WeeksAhead)
         /\ verify \in Repairs /\ verify.monday \in FirstWeek..week
  BY WeeksAssumption
  DEF PartsInv, PartitionsTypeOK, VerifyFromThePast, Weeks, Repairs

LEMMA RowOfWeek ==
  ASSUME PartsInv, NEW t \in 1..Tables, NEW m \in FirstWeek..week, NEW k \in 0..WeeksAhead,
         NEW label \in {SqlLabel[m + k], VerifyLabel[m + k]}
  PROVE  /\ Partition(t, label, m + k) \in Rows
         /\ PreparedRow(Partition(t, label, m + k))
<1>1. m + k \in Weeks /\ m + k \in FirstWeek..(week + WeeksAhead)
  BY NamedWeeks
<1>2. label \in Int \X (1..53)
  BY <1>1, LabelsTyped
<1> QED
  BY <1>1, <1>2 DEF Partition, Rows, PreparedRow

\* Partitions are added, none is dropped.
LEMMA CatalogGrows ==
  ASSUME PartsInv, NEW rows \in SUBSET Rows, \A r \in rows : PreparedRow(r),
         catalog' \in {catalog, catalog \union Fresh(rows)},
         verify' \in Repairs, verify'.monday \in FirstWeek..week,
         UNCHANGED <<week, verdict>>
  PROVE  PartsInv'
<1>1. catalog \subseteq catalog' /\ catalog' \subseteq catalog \union rows
  BY DEF Fresh
<1>2. PartitionsTypeOK'
  BY <1>1 DEF PartsInv, PartitionsTypeOK, Rows, Repairs
<1>3. PartitionsNamed'
  <2> SUFFICES ASSUME NEW e \in catalog' PROVE PreparedRow(e)
    BY DEF PartitionsNamed, PreparedRow
  <2>1. CASE e \in rows
    BY <2>1
  <2>2. CASE e \in catalog
    BY <2>2 DEF PartsInv, PartitionsNamed, PreparedRow
  <2> QED
    BY <1>1, <2>1, <2>2
<1>4. ReadyIsTrue'
  BY <1>1 DEF PartsInv, ReadyIsTrue, Covered
<1>5. VerifyFromThePast'
  BY DEF VerifyFromThePast
<1> QED
  BY <1>2, <1>3, <1>4, <1>5 DEF PartsInv

LEMMA ScriptKeepsParts ==
  ASSUME PartsInv, NEW p \in Processes, ExecuteScript(p)
  PROVE  PartsInv'
<1>1. PICK rows : rows = ScriptRows
  OBVIOUS
<1>2. ASSUME NEW r \in rows PROVE r \in Rows /\ PreparedRow(r)
  <2>1. PICK t \in 1..Tables, w \in week..(week + WeeksAhead) : r = Partition(t, SqlLabel[w], w)
    BY <1>1, <1>2 DEF ScriptRows
  <2>2. PICK k \in 0..WeeksAhead : w = week + k
    <3>1. w - week \in 0..WeeksAhead /\ w = week + (w - week)
      BY <2>1, NamedWeeks, WeeksAssumption
    <3> QED
      BY <3>1
  <2>3. week \in FirstWeek..week
    BY NamedWeeks, WeeksAssumption
  <2> QED
    BY <2>1, <2>2, <2>3, RowOfWeek
<1>3. catalog' \in {catalog, catalog \union Fresh(rows)} /\ UNCHANGED <<week, verify, verdict>>
  BY <1>1 DEF ExecuteScript
<1> QED
  BY <1>2, <1>3, NamedWeeks, CatalogGrows

LEMMA AdvanceTyped ==
  ASSUME PartsInv
  PROVE  VerifyAdvance \in Repairs /\ VerifyAdvance.monday = verify.monday
<1>1. verify \in Repairs /\ WeeksAhead \in Nat /\ Tables \in Nat /\ 1 \in 1..Tables
  BY NamedWeeks, WeeksAssumption, TablesAssumption
<1>2. CASE verify.table < Tables
  <2>1. VerifyAdvance = [verify EXCEPT !.table = @ + 1]
    BY <1>2 DEF VerifyAdvance
  <2>2. verify.table + 1 \in 1..Tables
    BY <1>1, <1>2 DEF Repairs
  <2> QED
    BY <1>1, <2>1, <2>2 DEF Repairs
<1>3. CASE ~(verify.table < Tables) /\ verify.ahead < WeeksAhead
  <2>1. VerifyAdvance = [verify EXCEPT !.ahead = verify.ahead + 1, !.table = 1]
    BY <1>3 DEF VerifyAdvance
  <2>2. verify.ahead + 1 \in 0..WeeksAhead
    BY <1>1, <1>3 DEF Repairs
  <2> QED
    BY <1>1, <2>1, <2>2 DEF Repairs
<1>4. CASE ~(verify.table < Tables) /\ ~(verify.ahead < WeeksAhead)
  <2>1. VerifyAdvance = [verify EXCEPT !.stage = "done"]
    BY <1>4 DEF VerifyAdvance
  <2> QED
    BY <1>1, <2>1 DEF Repairs
<1> QED
  BY <1>2, <1>3, <1>4

LEMMA VerifyKeepsParts ==
  ASSUME PartsInv, VerifyStep
  PROVE  PartsInv'
<1>1. PICK rows : rows = VerifyRow
  OBVIOUS
<1>2. ASSUME NEW r \in rows PROVE r \in Rows /\ PreparedRow(r)
  <2>1. r = Partition(verify.table, VerifyLabel[verify.monday + verify.ahead],
                      verify.monday + verify.ahead)
    BY <1>1, <1>2 DEF VerifyRow
  <2>2. /\ verify.table \in 1..Tables /\ verify.ahead \in 0..WeeksAhead
        /\ verify.monday \in FirstWeek..week
    BY NamedWeeks DEF Repairs
  <2> QED
    BY <2>1, <2>2, RowOfWeek
<1>3. /\ catalog' \in {catalog, catalog \union Fresh(rows)} /\ UNCHANGED <<week, verdict>>
      /\ verify' \in {[verify EXCEPT !.stage = "failed"], VerifyAdvance}
  BY <1>1 DEF VerifyStep
<1>4. verify' \in Repairs /\ verify'.monday = verify.monday
  BY <1>3, NamedWeeks, AdvanceTyped DEF Repairs
<1> QED
  BY <1>2, <1>3, <1>4, NamedWeeks, CatalogGrows

\* A name that the check finds is that of the week it means.
LEMMA CheckKeepsParts ==
  ASSUME PartsInv, CheckMissing
  PROVE  PartsInv'
<1>1. UNCHANGED <<week, catalog, verify>> /\ verdict' \in {"ready", "missing"}
      /\ (verdict' = "ready" => NamedForAll(MonitorLabel[week + 1]))
  BY DEF CheckMissing
<1>2. PartitionsTypeOK' /\ PartitionsNamed' /\ VerifyFromThePast'
  BY <1>1 DEF PartsInv, PartitionsTypeOK, PartitionsNamed, VerifyFromThePast
<1>3. ReadyIsTrue'
  <2> SUFFICES ASSUME NamedForAll(MonitorLabel[week + 1]), ~TurnOfYear(week + 1),
                      NEW t \in 1..Tables
               PROVE  Covered(t, week + 1)
    BY <1>1 DEF ReadyIsTrue, Covered
  <2>1. PICK e \in catalog : e.table = t /\ e.label = MonitorLabel[week + 1]
    BY DEF NamedForAll, Named
  <2>2. /\ e.label \in {SqlLabel[e.week], VerifyLabel[e.week]} /\ e.week \in Weeks
        /\ e.week <= week + WeeksAhead
    BY <2>1, WeeksAssumption, NamedWeeks DEF PartsInv, PartitionsNamed, PartitionsTypeOK
  <2>3. PICK v \in Weeks : v = week + 1
    BY NamedWeeks
  <2>4. e.week < v + 52
    <3>1. WeeksAhead \in Nat /\ WeeksAhead <= 52 /\ week \in Nat /\ e.week \in Nat
      <4>1. e.week \in Nat
        BY SMTT(30), <2>2 DEF Weeks
      <4> QED
        BY <4>1, WeeksAssumption, NamedWeeks
    <3> QED
      BY <2>2, <2>3, <3>1
  <2>5. v = e.week
    BY <2>1, <2>2, <2>3, <2>4, OneMonitorLabel
  <2> QED
    BY <2>1, <2>3, <2>5 DEF Covered
<1> QED
  BY <1>2, <1>3 DEF PartsInv

LEMMA WeekKeepsParts ==
  ASSUME PartsInv, NextWeek
  PROVE  PartsInv'
<1>1. /\ week < LastWeek /\ week' = week + 1 /\ verdict' = "none" /\ UNCHANGED <<catalog, verify>>
      /\ week \in Nat /\ LastWeek \in Nat /\ WeeksAhead \in Nat /\ FirstWeek \in Nat
  BY WeeksAssumption, NamedWeeks DEF NextWeek
<1>2. week' \in FirstWeek..LastWeek
  BY <1>1, NamedWeeks
<1>3. PartitionsTypeOK'
  BY <1>1, <1>2 DEF PartsInv, PartitionsTypeOK
<1>4. PartitionsNamed'
  <2> SUFFICES ASSUME NEW e \in catalog
               PROVE  /\ e.week \in FirstWeek..(week' + WeeksAhead)
                      /\ e.label \in {SqlLabel[e.week], VerifyLabel[e.week]}
    BY <1>1 DEF PartitionsNamed
  <2>1. e.week \in FirstWeek..(week + WeeksAhead)
    BY DEF PartsInv, PartitionsNamed
  <2>2. e.week \in FirstWeek..(week' + WeeksAhead)
    BY <1>1, <2>1
  <2> QED
    BY <2>2 DEF PartsInv, PartitionsNamed
<1>5. VerifyFromThePast'
  BY <1>1, NamedWeeks DEF VerifyFromThePast
<1>6. ReadyIsTrue'
  BY <1>1 DEF ReadyIsTrue
<1> QED
  BY <1>3, <1>4, <1>5, <1>6 DEF PartsInv

LEMMA VerifyStartKeepsParts ==
  ASSUME PartsInv, VerifyStart
  PROVE  PartsInv'
<1>1. /\ verify' = [stage |-> "running", monday |-> week, ahead |-> 0, table |-> 1]
      /\ UNCHANGED <<week, catalog, verdict>>
  BY DEF VerifyStart
<1>2. verify' \in Repairs /\ verify'.monday \in FirstWeek..week
  BY <1>1, NamedWeeks, WeeksAssumption, TablesAssumption DEF Repairs
<1>3. {} \in SUBSET Rows /\ \A r \in {} : PreparedRow(r)
  OBVIOUS
<1> QED
  BY <1>1, <1>2, <1>3, CatalogGrows

\* What a step does to the partitions, and to what else counts for them.
LEMMA StepParts ==
  ASSUME [Next]_vars
  PROVE  \/ UNCHANGED partitionVars
         \/ \E p \in Processes : ExecuteScript(p)
         \/ CheckMissing \/ VerifyStart \/ VerifyStep \/ NextWeek
<1>1. CASE UNCHANGED vars
  BY <1>1 DEF vars
<1>2. CASE MonitorStep
  BY <1>2 DEF MonitorStep, RunAllChecks, CheckRaises, Sleep, Send, SendFails, SendTimesOut
<1>3. ASSUME NEW p \in Processes, Migrate(p) PROVE ExecuteScript(p) \/ UNCHANGED partitionVars
  BY <1>3 DEF Migrate, MigrationStep
<1>4. CASE \E m \in Markets : List(m) \/ Close(m) \/ Store(m)
  BY <1>4 DEF List, Close, Store
<1>5. CASE Elapse \/ Repair \/ VerifyWorks
  BY <1>5 DEF Elapse, Repair, VerifyWorks
<1>6. CASE Monday
  BY <1>6 DEF Monday
<1> QED
  BY <1>1, <1>2, <1>3, <1>4, <1>5, <1>6 DEF Next

LEMMA NextParts == PartsInv /\ [Next]_vars => PartsInv'
<1> SUFFICES ASSUME PartsInv, [Next]_vars PROVE PartsInv'
  OBVIOUS
<1>1. CASE UNCHANGED partitionVars
  BY <1>1 DEF partitionVars, PartsInv, PartitionsTypeOK, PartitionsNamed, VerifyFromThePast,
              ReadyIsTrue, Covered
<1> QED
  BY <1>1, StepParts, ScriptKeepsParts, CheckKeepsParts, VerifyStartKeepsParts,
     VerifyKeepsParts, WeekKeepsParts

LEMMA AlertTyped ==
  ASSUME NEW check \in Checks, NEW subject \in Markets \union {Upcoming},
         NEW level \in {"info", "warning", "error"}
  PROVE  Alert(check, subject, level) \in Alerts
  BY DEF Alert, Alerts

LEMMA NextRounds == RoundsTypeOK /\ [Next]_vars => RoundsTypeOK'
<1> SUFFICES ASSUME RoundsTypeOK, [Next]_vars PROVE RoundsTypeOK'
  OBVIOUS
<1>1. CASE UNCHANGED <<monitorVars, marketVars>>
  BY <1>1 DEF RoundsTypeOK, monitorVars, marketVars
<1>2. CASE UNCHANGED vars
  BY <1>1, <1>2 DEF vars
<1>3. CASE RunAllChecks
  <2>1. pending' \subseteq Alerts
    <3>1. "stale" \in Checks /\ "lag" \in Checks /\ "partitions" \in Checks
      BY DEF Checks
    <3>2. \A m \in Stale : Alert("stale", m, "warning") \in Alerts
      BY <3>1, AlertTyped DEF RoundsTypeOK, Stale
    <3>3. \A m \in Lagging : LagLevel(m) \in {"info", "warning", "error"} /\ m \in Markets
      BY DEF RoundsTypeOK, Lagging, LagLevel
    <3>4. \A m \in Lagging : Alert("lag", m, LagLevel(m)) \in Alerts
      BY <3>1, <3>3, AlertTyped
    <3>5. Alert("partitions", Upcoming, "error") \in Alerts
      BY <3>1, AlertTyped
    <3> HIDE DEF Alerts
    <3> QED
      BY <1>3, <3>2, <3>4, <3>5 DEF RunAllChecks
  <2>2. phase' = "sending" /\ UNCHANGED <<alerted, faults, window, age>>
    BY <1>3 DEF RunAllChecks, marketVars
  <2> QED
    BY <2>1, <2>2 DEF RoundsTypeOK
<1>4. CASE CheckRaises \/ Sleep
  BY <1>4, FaultsAssumption DEF CheckRaises, Sleep, RoundsTypeOK, marketVars
<1>5. ASSUME NEW a \in pending, Send(a) \/ SendFails(a) \/ SendTimesOut(a) PROVE RoundsTypeOK'
  <2>1. CASE Send(a)
    BY <2>1 DEF Send, RoundsTypeOK, marketVars
  <2>2. CASE SendFails(a)
    BY <2>2, FaultsAssumption DEF SendFails, RoundsTypeOK, marketVars
  <2>3. CASE SendTimesOut(a)
    BY <2>3, FaultsAssumption DEF SendTimesOut, RoundsTypeOK, marketVars
  <2> QED
    BY <1>5, <2>1, <2>2, <2>3
<1>6. ASSUME NEW m \in Markets, List(m) \/ Close(m) \/ Store(m) PROVE RoundsTypeOK'
  <2>1. 0 \in Never..OldAge
    BY AgesAssumption DEF Never, OldAge
  <2>2. CASE List(m) \/ Close(m)
    BY <2>2 DEF List, Close, RoundsTypeOK, monitorVars
  <2>3. CASE Store(m)
    BY <2>1, <2>3 DEF Store, RoundsTypeOK, monitorVars
  <2> QED
    BY <1>6, <2>2, <2>3
<1>7. CASE Elapse
  <2>1. ASSUME NEW m \in Markets PROVE Older(age[m]) \in Never..OldAge
    BY AgesAssumption DEF RoundsTypeOK, Older, Never, OldAge
  <2>2. age' \in [Markets -> Never..OldAge]
    BY <1>7, <2>1 DEF Elapse
  <2> QED
    BY <1>7, <2>2 DEF Elapse, RoundsTypeOK, monitorVars
<1>8. CASE Monday
  BY <1>8 DEF Monday, RoundsTypeOK, marketVars
<1>9. CASE Repair \/ VerifyWorks \/ \E p \in Processes : Migrate(p)
  BY <1>1, <1>9 DEF Repair, VerifyWorks, Migrate
<1> QED
  BY <1>2, <1>3, <1>4, <1>5, <1>6, <1>7, <1>8, <1>9 DEF Next, MonitorStep

LEMMA InitUpkeep == Init => UpkeepInv
<1> SUFFICES ASSUME Init PROVE UpkeepInv
  OBVIOUS
<1>1. MigrationsInv
  BY MigrationsInitially DEF Init
<1>2. PartsInv
  <2>1. FirstWeek \in FirstWeek..LastWeek /\ 0 \in 0..WeeksAhead /\ 1 \in 1..Tables
    BY WeeksAssumption, TablesAssumption
  <2>2. PartitionsTypeOK
    BY <2>1, WeeksAssumption DEF Init, PartitionsInit, PartitionsTypeOK
  <2> QED
    BY <2>1, <2>2 DEF Init, PartitionsInit, PartsInv, PartitionsNamed, VerifyFromThePast, ReadyIsTrue
<1>3. RoundsTypeOK
  <2>1. Never \in Never..OldAge /\ 0 \in 0..MaxFaults
    BY AgesAssumption, FaultsAssumption DEF Never, OldAge
  <2> QED
    BY <2>1 DEF Init, RoundsTypeOK
<1> QED
  BY <1>1, <1>2, <1>3 DEF UpkeepInv

LEMMA NextUpkeep == UpkeepInv /\ [Next]_vars => UpkeepInv'
  BY StepMigrates, MigrationsKeepInv, NextParts, NextRounds DEF UpkeepInv

THEOREM UpkeepInvariant == Spec => []UpkeepInv
  BY InitUpkeep, NextUpkeep, PTL DEF Spec

\* Every variable keeps its type: every partition has a label with a week of an ISO
\* year and a week that the calendar knows, every alert a level with a colour.
THEOREM MonitorTyped == Spec => []TypeOK
<1>1. UpkeepInv => TypeOK
  BY DEF UpkeepInv, MigrationsInv, PartsInv, RoundsTypeOK, TypeOK, Alerts
<1> QED
  BY UpkeepInvariant, <1>1, PTL

\* "Ready" is true of every week that does not belong to two years, although three
\* places write the names it is judged by.
THEOREM ReadyMeansCovered == Spec => []ReadyIsTrue
<1>1. UpkeepInv => ReadyIsTrue
  BY DEF UpkeepInv, PartsInv
<1> QED
  BY UpkeepInvariant, <1>1, PTL

-----------------------------------------------------------------------------
(* Partitions in time, away from the turns of the year *)

\* Then both ways of writing a name agree, so a partition has the name of its week.
LEMMA OneName ==
  ASSUME NoTurnOfYear, PartsInv, NEW e \in catalog
  PROVE  e.week \in Weeks /\ e.label = VerifyLabel[e.week]
<1>1. /\ e.week \in Weeks /\ e.week \in FirstWeek..(week + WeeksAhead)
      /\ e.label \in {SqlLabel[e.week], VerifyLabel[e.week]}
  BY DEF PartsInv, PartitionsNamed, PartitionsTypeOK
<1>2. PICK w \in FirstWeek..(LastWeek + WeeksAhead) : w = e.week
  <2>1. e.week \in FirstWeek..(LastWeek + WeeksAhead)
    <3>1. e.week \in Nat
      BY <1>1 DEF Weeks
    <3> QED
      BY <1>1, <3>1, NamedWeeks, WeeksAssumption
  <2> QED
    BY <2>1
<1>3. ~TurnOfYear(w)
  BY <1>2 DEF NoTurnOfYear
<1>4. SqlLabel[w] = VerifyLabel[w]
  BY <1>1, <1>2, <1>3 DEF TurnOfYear, SqlLabel, VerifyLabel
<1> QED
  BY <1>1, <1>2, <1>4

\* IF NOT EXISTS passes over no row whose range is free.
LEMMA RowIsMade ==
  ASSUME NoTurnOfYear, PartsInv, NEW rows, NEW r \in rows, r.week \in Weeks,
         r.label = VerifyLabel[r.week], catalog' = catalog \union Fresh(rows)
  PROVE  Covered(r.table, r.week)'
<1>1. CASE r \in Fresh(rows)
  BY <1>1 DEF Covered
<1>2. CASE r \notin Fresh(rows)
  <2>1. PICK e \in catalog : e.table = r.table /\ e.label = r.label
    BY <1>2 DEF Fresh, Named
  <2>2. e.week \in Weeks /\ VerifyLabel[e.week] = VerifyLabel[r.week]
    BY <2>1, OneName
  <2>3. e.week = r.week
    BY <2>2, OneVerifyLabel
  <2> QED
    BY <2>1, <2>3 DEF Covered
<1> QED
  BY <1>1, <1>2

\* The repair script never meets a range that another partition has.
LEMMA NothingOverlaps ==
  ASSUME NoTurnOfYear, PartsInv, NEW rows, \A r \in rows : r.label = VerifyLabel[r.week]
  PROVE  ~Overlaps(rows)
<1> SUFFICES ASSUME NEW r \in Fresh(rows), Covered(r.table, r.week) PROVE FALSE
  BY DEF Overlaps
<1>1. PICK e \in catalog : e.table = r.table /\ e.week = r.week
  BY DEF Covered
<1>2. e.label = r.label
  BY <1>1, OneName DEF Fresh
<1> QED
  BY <1>1, <1>2 DEF Fresh, Named

LEMMA CatalogStays ==
  ASSUME [Next]_vars
  PROVE  catalog \subseteq catalog' /\ (phase = "dead" => phase' = "dead")
<1>1. catalog \subseteq catalog'
  BY StepParts DEF partitionVars, ExecuteScript, CheckMissing, VerifyStart, VerifyStep, NextWeek
<1>2. phase = "dead" => phase' = "dead"
  <2>1. CASE UNCHANGED vars
    BY <2>1 DEF vars, monitorVars
  <2>2. CASE MonitorStep
    BY <2>2 DEF MonitorStep, RunAllChecks, CheckRaises, Sleep, Send, SendFails, SendTimesOut
  <2>3. CASE \E p \in Processes : Migrate(p)
    BY <2>3 DEF Migrate, monitorVars
  <2>4. CASE \E m \in Markets : List(m) \/ Close(m) \/ Store(m)
    BY <2>4 DEF List, Close, Store, monitorVars
  <2>5. CASE Elapse \/ Repair \/ VerifyWorks \/ Monday
    BY <2>5 DEF Elapse, Repair, VerifyWorks, Monday, monitorVars
  <2> QED
    BY <2>1, <2>2, <2>3, <2>4, <2>5 DEF Next
<1> QED
  BY <1>1, <1>2

\* The loop of the repair script leaves no row behind it without its partition.
LEMMA VerifyStepPrepares ==
  ASSUME NoTurnOfYear, PartsInv, VerifyPrepares, VerifyStep
  PROVE  VerifyPrepares'
<1>1. PICK rows : rows = VerifyRow
  OBVIOUS
<1>2. PICK w \in Weeks : w = verify.monday + verify.ahead
  BY NamedWeeks DEF Repairs
<1>3. PICK r : r = Partition(verify.table, VerifyLabel[w], w)
  OBVIOUS
<1>4. rows = {r} /\ r.label = VerifyLabel[r.week] /\ r.week = w /\ r.table = verify.table
  BY <1>1, <1>2, <1>3 DEF VerifyRow, Partition
<1>5. ~Overlaps(rows)
  BY <1>4, NothingOverlaps
<1>6. /\ verify.stage = "running" /\ verify' = VerifyAdvance
      /\ catalog' = catalog \union Fresh(rows)
  BY <1>1, <1>5 DEF VerifyStep
<1>7. \E e \in catalog' : e.table = verify.table /\ e.week = verify.monday + verify.ahead
  <2>1. Covered(r.table, r.week)'
    BY <1>2, <1>4, <1>6, RowIsMade
  <2> QED
    BY <1>2, <1>4, <2>1 DEF Covered
<1>8. /\ verify \in Repairs /\ Tables \in Nat \ {0} /\ WeeksAhead \in Nat
      /\ verify'.monday = verify.monday
  BY <1>6, NamedWeeks, AdvanceTyped, TablesAssumption, WeeksAssumption
<1>9. ASSUME NEW t \in 1..Tables, NEW k \in 0..WeeksAhead, Passed(t, k)'
      PROVE  Passed(t, k) \/ (t = verify.table /\ k = verify.ahead)
  <2>1. CASE verify.table < Tables
    <3>1. verify' = [verify EXCEPT !.table = @ + 1]
      BY <1>6, <2>1 DEF VerifyAdvance
    <3>2. verify'.stage = "running" /\ verify'.ahead = verify.ahead /\ verify'.table = verify.table + 1
      BY <1>6, <1>8, <3>1 DEF Repairs
    <3>3. k < verify.ahead \/ (k = verify.ahead /\ t < verify.table + 1)
      BY <1>9, <3>2 DEF Passed
    <3>4. verify.table \in Nat /\ t \in Nat
      BY <1>8 DEF Repairs
    <3> QED
      BY <1>6, <3>3, <3>4 DEF Passed
  <2>2. CASE ~(verify.table < Tables) /\ verify.ahead < WeeksAhead
    <3>1. verify' = [verify EXCEPT !.ahead = @ + 1, !.table = 1]
      BY <1>6, <2>2 DEF VerifyAdvance
    <3>2. verify'.stage = "running" /\ verify'.ahead = verify.ahead + 1 /\ verify'.table = 1
      BY <1>6, <1>8, <3>1 DEF Repairs
    <3>3. k < verify.ahead + 1 \/ (k = verify.ahead + 1 /\ t < 1)
      BY <1>9, <3>2 DEF Passed
    <3>4. verify.table = Tables /\ t \in Nat /\ t >= 1 /\ t <= Tables /\ verify.ahead \in Nat /\ k \in Nat
      BY <1>8, <2>2 DEF Repairs
    <3>5. k < verify.ahead \/ (k = verify.ahead /\ (t < verify.table \/ t = verify.table))
      BY <1>8, <3>3, <3>4
    <3> QED
      BY <1>6, <3>5 DEF Passed
  <2>3. CASE ~(verify.table < Tables) /\ ~(verify.ahead < WeeksAhead)
    <3>1. verify.table = Tables /\ verify.ahead = WeeksAhead
      BY <1>8, <2>3 DEF Repairs
    <3>2. k < verify.ahead \/ (k = verify.ahead /\ (t < verify.table \/ t = verify.table))
      BY <1>8, <3>1
    <3> QED
      BY <1>6, <3>2 DEF Passed
  <2> QED
    BY <2>1, <2>2, <2>3
<1>10. verify'.stage # "failed"
  BY <1>6, <1>8 DEF VerifyAdvance, Repairs
<1>11. ASSUME NEW t \in 1..Tables, NEW k \in 0..WeeksAhead, Passed(t, k)'
       PROVE  Covered(t, verify.monday + k)'
  <2>1. CASE Passed(t, k)
    <3>1. Covered(t, verify.monday + k)
      BY <2>1 DEF VerifyPrepares
    <3> QED
      BY <1>6, <1>8, <3>1 DEF Covered
  <2>2. CASE t = verify.table /\ k = verify.ahead
    BY <1>7, <1>8, <2>2 DEF Covered
  <2> QED
    BY <1>9, <1>11, <2>1, <2>2
<1> QED
  BY <1>10, <1>11 DEF VerifyPrepares

LEMMA NextPrepares ==
  ASSUME NoTurnOfYear, PartsInv, VerifyPrepares, [Next]_vars
  PROVE  VerifyPrepares'
<1>1. CASE VerifyStep
  BY <1>1, VerifyStepPrepares
<1>2. CASE VerifyStart
  <2>1. verify' = [stage |-> "running", monday |-> week, ahead |-> 0, table |-> 1]
    BY <1>2 DEF VerifyStart
  <2>2. \A t \in 1..Tables, k \in 0..WeeksAhead : ~Passed(t, k)'
    BY <2>1, TablesAssumption, WeeksAssumption DEF Passed
  <2> QED
    BY <2>1, <2>2 DEF VerifyPrepares
<1>3. CASE UNCHANGED verify
  BY <1>3, CatalogStays DEF VerifyPrepares, Passed, Covered
<1> QED
  BY <1>1, <1>2, <1>3, StepParts DEF partitionVars, ExecuteScript, CheckMissing, NextWeek

\* Script 002 makes the partitions of the current week.
LEMMA ScriptMakesThisWeek ==
  ASSUME NoTurnOfYear, PartsInv, NEW p \in Processes, ExecuteScript(p), RowsHaveAHome
  PROVE  RowsHaveAHome'
<1>1. UNCHANGED week /\ catalog \subseteq catalog'
  BY DEF ExecuteScript
<1>2. CASE PartitionScript \in effects
  BY <1>1, <1>2 DEF RowsHaveAHome, Covered
<1>3. CASE PartitionScript \notin effects /\ PartitionScript \in effects'
  <2>1. at[p] = PartitionScript /\ catalog' = catalog \union Fresh(ScriptRows)
    BY <1>3 DEF ExecuteScript, Apply, Raise
  <2>2. PICK rows : rows = ScriptRows
    OBVIOUS
  <2>3. PICK w \in Weeks : w = week
    <3>1. LastWeek + WeeksAhead \in Nat /\ LastWeek + WeeksAhead <= 1000
      BY WeeksAssumption DEF Weeks
    <3>2. /\ week \in Nat /\ week <= LastWeek /\ LastWeek \in Nat /\ WeeksAhead \in Nat
      BY NamedWeeks, WeeksAssumption
    <3>3. week \in Weeks
      BY <3>1, <3>2 DEF Weeks
    <3> QED
      BY <3>3
  <2>4. VerifyLabel[w] = SqlLabel[w]
    <3>1. w \in FirstWeek..(LastWeek + WeeksAhead)
      BY <2>3, NamedWeeks, WeeksAssumption
    <3>2. ~TurnOfYear(w)
      BY <3>1 DEF NoTurnOfYear
    <3> QED
      BY <2>3, <3>2 DEF TurnOfYear, SqlLabel, VerifyLabel
  <2>5. ASSUME NEW t \in 1..Tables PROVE Covered(t, w)'
    <3>1. PICK r : r = Partition(t, SqlLabel[w], w)
      OBVIOUS
    <3>2. r.table = t /\ r.week = w /\ r.label = VerifyLabel[w]
      BY <2>4, <3>1 DEF Partition
    <3>3. r \in rows
      <4>1. w \in week..(week + WeeksAhead)
        BY <2>3, NamedWeeks, WeeksAssumption
      <4> QED
        BY <2>2, <3>1, <4>1 DEF ScriptRows
    <3>4. Covered(r.table, r.week)'
      BY <2>1, <2>2, <2>3, <3>2, <3>3, RowIsMade
    <3> QED
      BY <3>2, <3>4
  <2> QED
    BY <1>1, <2>3, <2>5 DEF RowsHaveAHome, Covered
<1> QED
  BY <1>2, <1>3 DEF RowsHaveAHome

\* The week ends when the next one has its partitions: either the check found them,
\* or its alert was attended to and the repair script has been through.
LEMMA MondayIsPrepared ==
  ASSUME NoTurnOfYear, PartsInv, VerifyPrepares, Monday, phase # "dead"
  PROVE  RowsHaveAHome'
<1>1. Attended /\ week' = week + 1 /\ UNCHANGED catalog /\ week < LastWeek
  BY DEF Monday, NextWeek
<1>2. ASSUME NEW t \in 1..Tables PROVE Covered(t, week + 1)
  <2>1. CASE verdict = "ready"
    <3>1. PICK w \in FirstWeek..(LastWeek + WeeksAhead) : w = week + 1
      BY <1>1, NamedWeeks, WeeksAssumption
    <3>2. ~TurnOfYear(week + 1)
      BY <3>1 DEF NoTurnOfYear
    <3> QED
      BY <2>1, <3>2 DEF PartsInv, ReadyIsTrue
  <2>2. CASE Repaired
    <3>1. verify.stage = "done" /\ verify.monday = week
      BY <2>2 DEF Repaired, VerifyPrepares
    <3>2. 1 \in 0..WeeksAhead /\ Passed(t, 1)
      BY <3>1, WeeksAssumption DEF Passed
    <3>3. Covered(t, verify.monday + 1)
      BY <3>2 DEF VerifyPrepares
    <3> QED
      BY <3>1, <3>3
  <2> QED
    BY <1>1, <2>1, <2>2 DEF Attended
<1> QED
  BY <1>1, <1>2 DEF RowsHaveAHome, Covered

LEMMA NextInTime ==
  ASSUME NoTurnOfYear, InTimeInv, [Next]_vars
  PROVE  InTimeInv'
<1>1. PartsInv /\ VerifyPrepares /\ UpkeepInv'
  BY NextUpkeep DEF InTimeInv, UpkeepInv
<1>2. VerifyPrepares'
  BY <1>1, NextPrepares
<1>3. RowsFindAPartition'
  <2> SUFFICES ASSUME phase # "dead" PROVE RowsHaveAHome'
    BY CatalogStays DEF RowsFindAPartition
  <2>1. RowsHaveAHome
    BY DEF InTimeInv, RowsFindAPartition
  <2>2. CASE UNCHANGED <<week, effects>>
    BY <2>1, <2>2, CatalogStays DEF RowsHaveAHome, Covered
  <2>3. CASE UNCHANGED vars
    BY <2>2, <2>3 DEF vars, partitionVars, migrationVars
  <2>4. CASE MonitorStep
    BY <2>2, <2>4 DEF MonitorStep, RunAllChecks, CheckMissing, CheckRaises, Sleep, Send,
                      SendFails, SendTimesOut, partitionVars, migrationVars
  <2>5. ASSUME NEW p \in Processes, Migrate(p) PROVE RowsHaveAHome'
    <3>1. CASE ExecuteScript(p)
      BY <1>1, <2>1, <3>1, ScriptMakesThisWeek
    <3>2. CASE (Start(p) \/ Look(p) \/ Record(p) \/ Crash(p)) /\ UNCHANGED partitionVars
      BY <2>2, <3>2 DEF Start, Look, Record, Crash, partitionVars
    <3> QED
      BY <2>5, <3>1, <3>2 DEF Migrate, MigrationStep
  <2>6. CASE \E m \in Markets : List(m) \/ Close(m) \/ Store(m)
    BY <2>2, <2>6 DEF List, Close, Store, partitionVars, migrationVars
  <2>7. CASE Elapse \/ Repair \/ VerifyWorks
    BY <2>2, <2>7 DEF Elapse, Repair, VerifyStart, VerifyWorks, VerifyStep, partitionVars,
                      migrationVars
  <2>8. CASE Monday
    BY <1>1, <2>8, MondayIsPrepared
  <2> QED
    BY <2>3, <2>4, <2>5, <2>6, <2>7, <2>8 DEF Next
<1> QED
  BY <1>1, <1>2, <1>3 DEF InTimeInv

\* As long as there is a monitor, every week begins with the partitions its rows need,
\* over any stretch of the calendar without a turn of the year: the script's weeks,
\* the check, the alert that gets through, the operator and the repair script hand
\* on to one another, whatever processes crash and whatever rounds and sends fail.
THEOREM PartitionsInTime ==
  ASSUME NoTurnOfYear
  PROVE  Spec => []RowsFindAPartition
<1>1. Init => InTimeInv
  <2> SUFFICES ASSUME Init PROVE InTimeInv
    OBVIOUS
  <2>1. UpkeepInv
    BY InitUpkeep
  <2>2. verify.stage = "idle" /\ effects = {}
    BY DEF Init, PartitionsInit, MigrationsInit
  <2> QED
    BY <2>1, <2>2 DEF InTimeInv, VerifyPrepares, Passed, RowsFindAPartition, RowsHaveAHome
<1>2. InTimeInv /\ [Next]_vars => InTimeInv'
  BY NextInTime
<1>3. InTimeInv => RowsFindAPartition
  BY DEF InTimeInv
<1> QED
  BY <1>1, <1>2, <1>3, PTL DEF Spec
=============================================================================
