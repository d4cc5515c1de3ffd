----------------------------- MODULE Migrations -----------------------------
(***************************************************************************)
(* scripts/db-migrate.sh: the migration files of db/migrations in order,   *)
(* each applied and then recorded in schema_migrations, unless it is       *)
(* recorded already.  Every psql call is a session of its own and the      *)
(* files have no transactions, so each statement commits by itself.        *)
(*                                                                         *)
(* Nothing keeps two deployments from running the script at once, and one  *)
(* that is killed leaves what it committed.  The first file creates tables *)
(* and fails where one exists; the others create or replace one function.  *)
(***************************************************************************)
EXTENDS Integers, FiniteSets

CONSTANTS
  Scripts,     \* deployments that may run the script
  Last,        \* number of migration files; 3 in the repository
  Size,        \* statements of the first one
  MaxRuns,     \* bound: how often the script is started
  MaxCrashes   \* bound: how often it is killed

ASSUME MigrationsAssumption ==
  /\ Last \in Nat /\ Last > 0
  /\ Size \in Nat /\ Size > 0
  /\ MaxRuns \in Nat /\ MaxCrashes \in Nat

Versions == 1 .. Last
Statements(m) == IF m = 1 THEN Size ELSE 1

VARIABLES
  objects,   \* how many statements of each migration the database has seen
  recorded,  \* schema_migrations
  script,    \* where each script is
  runs,      \* how often the script was started
  crashes    \* how often it was killed

schema == <<objects, recorded, script, runs, crashes>>

\* alone is not in the code: no other script has run since this one started.
Script ==
  [phase : {"idle", "check", "apply", "record", "done", "failed"},
   at : Versions, next : 1 .. Size + 1, alone : BOOLEAN]

SchemaInit ==
  /\ objects = [m \in Versions |-> 0]
  /\ recorded = {}
  /\ script = [s \in Scripts |->
                [phase |-> "idle", at |-> 1, next |-> 1, alone |-> TRUE]]
  /\ runs = 0 /\ crashes = 0

Complete(m) == objects[m] = Statements(m)
Active(s) == script[s].phase \in {"check", "apply", "record"}

-----------------------------------------------------------------------------

StartScript(s) ==
  /\ ~Active(s)
  /\ runs < MaxRuns
  /\ runs' = runs + 1
  /\ script' = [other \in Scripts |->
       IF other = s
       THEN [phase |-> "check", at |-> 1, next |-> 1,
             alone |-> \A o \in Scripts : ~Active(o)]
       ELSE [script[other] EXCEPT !.alone = FALSE]]
  /\ UNCHANGED <<objects, recorded, crashes>>

\* On to the next file, or the end of the loop.
Advanced(place) ==
  IF place.at < Last
  THEN [place EXCEPT !.phase = "check", !.at = @ + 1, !.next = 1]
  ELSE [place EXCEPT !.phase = "done"]
Go(s, place) == script' = [script EXCEPT ![s] = place]

\* Is the file recorded?
Check(s) ==
  /\ script[s].phase = "check"
  /\ Go(s, IF script[s].at \in recorded THEN Advanced(script[s])
           ELSE [script[s] EXCEPT !.phase = "apply"])
  /\ UNCHANGED <<objects, recorded, runs, crashes>>

\* the functions are created, but not replaced
FaultyRerunnable(m) == FALSE
Rerunnable(m) == m > 1

Exists(s) == script[s].next <= objects[script[s].at]

\* A statement is carried out.
Apply(s) ==
  LET m == script[s].at
      next == script[s].next
  IN  /\ script[s].phase = "apply"
      /\ Rerunnable(m) \/ ~Exists(s)
      /\ objects' = [objects EXCEPT ![m] = IF Exists(s) THEN @ ELSE @ + 1]
      /\ Go(s, IF next < Statements(m) THEN [script[s] EXCEPT !.next = @ + 1]
               ELSE [script[s] EXCEPT !.phase = "record"])
      /\ UNCHANGED <<recorded, runs, crashes>>

\* without set -e
FaultyAborted(place) == [place EXCEPT !.phase = "record"]
\* set -e and ON_ERROR_STOP
Aborted(place) == [place EXCEPT !.phase = "failed"]

\* A statement fails: the table exists, or another session is replacing the
\* function at this moment.
ApplyFails(s) ==
  LET m == script[s].at
  IN  /\ script[s].phase = "apply"
      /\ \/ ~Rerunnable(m) /\ Exists(s)
         \/ /\ Rerunnable(m)
            /\ \E other \in Scripts \ {s} :
                 script[other].phase = "apply" /\ script[other].at = m
      /\ Go(s, Aborted(script[s]))
      /\ UNCHANGED <<objects, recorded, runs, crashes>>

\* version is the primary key: the second to record a file fails.
Record(s) ==
  LET m == script[s].at
  IN  /\ script[s].phase = "record"
      /\ recorded' = recorded \cup {m}
      /\ Go(s, IF m \in recorded THEN Aborted(script[s]) ELSE Advanced(script[s]))
      /\ UNCHANGED <<objects, runs, crashes>>

\* The script is killed.
Crash(s) ==
  /\ Active(s)
  /\ crashes < MaxCrashes
  /\ crashes' = crashes + 1
  /\ Go(s, [script[s] EXCEPT !.phase = "idle"])
  /\ UNCHANGED <<objects, recorded, runs>>

Migrate ==
  \E s \in Scripts :
    \/ StartScript(s) \/ Check(s) \/ Apply(s) \/ ApplyFails(s)
    \/ Record(s) \/ Crash(s)

-----------------------------------------------------------------------------
(* Properties *)

SchemaTypeOK ==
  /\ objects \in [Versions -> 0 .. Size]
  /\ recorded \subseteq Versions
  /\ script \in [Scripts -> Script]
  /\ runs \in 0 .. MaxRuns /\ crashes \in 0 .. MaxCrashes

\* However scripts race and crash, what is recorded is there, completely, and
\* files are recorded in order.
RecordedComplete ==
  \A m \in recorded : \A earlier \in 1 .. m : earlier \in recorded /\ Complete(earlier)

\* Without a crash somebody finishes: when no script runs any more, the schema
\* is complete, whichever of them failed.  And a script that ran by itself only
\* fails in the first file, after a crash: the crash window between applying a
\* file and recording it (db-migrate.sh) is harmless for all others.
FailsForAReason ==
  /\ crashes = 0 /\ runs > 0 /\ (\A s \in Scripts : ~Active(s)) => recorded = Versions
  /\ \A s \in Scripts :
       script[s].phase = "failed" /\ script[s].alone
         => script[s].at = 1 /\ 1 \notin recorded /\ crashes > 0
=============================================================================
