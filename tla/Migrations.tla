---------------------------- MODULE Migrations ----------------------------
(***************************************************************************)
(* run_migrations (storage/db.py).  The collector and every run of the     *)
(* backfill script call it first; nothing keeps two processes from being   *)
(* in it at once.  A process looks each script up in _migrations, applies  *)
(* the ones it does not find and records each of them with a statement of  *)
(* its own, so that a crash, or the other process, may come in between.    *)
(* Each script is executed as one transaction.                             *)
(*                                                                         *)
(* What a script does besides being applied is left to the module that     *)
(* extends this one: it joins Apply(p) with the effect.                    *)
(***************************************************************************)
EXTENDS Integers

CONSTANTS
    Processes,    \* the processes that call run_migrations
    LastScript,   \* the number of files in sql/, in the order of their names
    MaxCrashes    \* bound: how often a process fails or is killed on its way

ASSUME ScriptsAssumption == LastScript \in Nat \ {0}
ASSUME CrashAssumption == MaxCrashes \in Nat

VARIABLES
    stage,      \* where each process is in run_migrations
    at,         \* the script it is applying or recording, 0 elsewhere
    effects,    \* the scripts whose effects are in the database
    recorded,   \* the rows of _migrations
    crashes     \* how many of MaxCrashes have happened

migrationVars == <<stage, at, effects, recorded, crashes>>

Scripts == 1..LastScript
Stages == {"down", "look", "apply", "record", "ready"}

MigrationsInit ==
    /\ stage = [p \in Processes |-> "down"]
    /\ at = [p \in Processes |-> 0]
    /\ effects = {}
    /\ recorded = {}
    /\ crashes = 0

Go(p, next, script) ==
    /\ stage' = [stage EXCEPT ![p] = next]
    /\ at' = [at EXCEPT ![p] = script]

\* The process starts: the pool, CREATE TABLE IF NOT EXISTS _migrations, and the
\* first of the sorted files.
Start(p) ==
    /\ stage[p] = "down"
    /\ Go(p, "look", 0)
    /\ UNCHANGED <<effects, recorded, crashes>>

\* Slip: the rows of _migrations are not looked at.
AllScripts == Scripts

Unrecorded == Scripts \ recorded

\* SELECT 1 FROM _migrations, file by file.  A recorded script is passed over, and
\* since rows are never deleted, the files passed over count as one step with the
\* first that is not recorded.  When there is none run_migrations returns, and the
\* process begins its work.
Look(p) ==
    /\ stage[p] = "look"
    /\ \/ \E n \in Unrecorded :
            /\ \A k \in Unrecorded : n <= k
            /\ Go(p, "apply", n)
       \/ Unrecorded = {} /\ Go(p, "ready", 0)
    /\ UNCHANGED <<effects, recorded, crashes>>

\* conn.execute(sql) succeeds.  The scripts say IF NOT EXISTS throughout, so
\* applying one again undoes nothing.
Apply(p) ==
    /\ stage[p] = "apply"
    /\ effects' = effects \union {at[p]}
    /\ Go(p, "record", at[p])
    /\ UNCHANGED <<recorded, crashes>>

\* conn.execute(sql) raises: the script is rolled back and the exception ends the
\* process.
Raise(p) ==
    /\ stage[p] = "apply"
    /\ Go(p, "down", 0)
    /\ UNCHANGED <<effects, recorded, crashes>>

\* INSERT INTO _migrations: the file name is the primary key, so the process that
\* comes second fails, and the exception ends it.
Record(p) ==
    /\ stage[p] = "record"
    /\ recorded' = recorded \union {at[p]}
    /\ Go(p, IF at[p] \in recorded THEN "down" ELSE "look", 0)
    /\ UNCHANGED <<effects, crashes>>

\* Slip: a script that was cut short is recorded all the same.
CrashRecording(p) ==
    /\ stage[p] # "down"
    /\ crashes < MaxCrashes
    /\ crashes' = crashes + 1
    /\ Go(p, "down", 0)
    /\ recorded' = recorded \union ({at[p]} \ {0})
    /\ UNCHANGED effects

\* The process is killed, or one of its statements fails: an open transaction is
\* rolled back.
Crash(p) ==
    /\ stage[p] # "down"
    /\ crashes < MaxCrashes
    /\ crashes' = crashes + 1
    /\ Go(p, "down", 0)
    /\ UNCHANGED <<effects, recorded>>

MigrationsNext ==
    \E p \in Processes :
        \/ Start(p) \/ Look(p) \/ Apply(p)
        \/ Raise(p) \/ Record(p) \/ Crash(p)

MigrationsSpec == MigrationsInit /\ [][MigrationsNext]_migrationVars

\* Every variable has its type.
MigrationsTypeOK ==
    /\ stage \in [Processes -> Stages]
    /\ at \in [Processes -> 0..LastScript]
    /\ effects \subseteq Scripts
    /\ recorded \subseteq Scripts
    /\ crashes \in 0..MaxCrashes

-----------------------------------------------------------------------------
\* A row of _migrations is never ahead of the database, scripts are applied
\* in the order of their names whoever applies them, and a process that has
\* left run_migrations finds all of them in the database: neither a crash
\* between the two statements of a script nor a second process in
\* run_migrations makes a script count that was not run.
NoScriptSkipped ==
    /\ recorded \subseteq effects
    /\ \A n \in effects : 1..n \subseteq effects
    /\ \A p \in Processes : stage[p] = "ready" => effects = Scripts
=============================================================================
