----------------------------- MODULE Calendar -----------------------------
(***************************************************************************)
(* The weeks of the partitioned tables and the three ways the code names   *)
(* them.  A week is a number: week w begins on the Monday 7 * w days after *)
(* Monday 1 January 2024 and ends where week w + 1 begins.  Years run to   *)
(* 2099, so every fourth year is a leap year.                              *)
(*                                                                         *)
(* A label is a year and a week number.  The migration and the monitor     *)
(* write the calendar year of the Monday beside the ISO week number; the   *)
(* repair script writes the ISO year.  They part on a Monday that belongs  *)
(* to the first ISO week of the next year.                                 *)
(***************************************************************************)
EXTENDS Integers

\* The days from 1 January 2024 to 1 January of year y.
YearStart(y) == 365 * (y - 2024) + (y - 2021) \div 4

\* The calendar year that day d falls in.
YearOf(d) == CHOOSE y \in 2024..2099 : YearStart(y) <= d /\ d < YearStart(y + 1)

\* isocalendar(): a week belongs to the year of its Thursday and is numbered
\* by the Thursdays of that year before it.
IsoYear(w) == YearOf(7 * w + 3)
IsoWeek(w) == (7 * w + 3 - YearStart(IsoYear(w))) \div 7 + 1

Weeks == 0..1000

\* to_char(week_start, 'YYYY') and to_char(week_start, '"W"IW'), folded to
\* lower case because the name is not quoted.
SqlLabel == [w \in Weeks |-> <<YearOf(7 * w), IsoWeek(w)>>]

\* _partition_name: both parts from isocalendar().
VerifyLabel == [w \in Weeks |-> <<IsoYear(w), IsoWeek(w)>>]

\* check_missing_partitions: next_monday.year and isocalendar()[1].
MonitorLabel == [w \in Weeks |-> <<YearOf(7 * w), IsoWeek(w)>>]
=============================================================================
