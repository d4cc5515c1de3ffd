---------------------------- MODULE TenancyProofs ----------------------------
(***************************************************************************)
(* Proofs about Migrations, for every number of files, statements and      *)
(* scripts, and about Tenancy, for every set of tenants, keys and requests *)
(* and every configuration; all for every bound.                           *)
(***************************************************************************)
EXTENDS Tenancy, TLAPS

-----------------------------------------------------------------------------
(* Migrations: the inductive invariant *)

\* Files are applied in order, and what was applied stays.
AppliedInOrder ==
  \A m \in Versions :
    /\ objects[m] <= Statements(m)
    /\ objects[m] > 0 => \A earlier \in 1 .. m - 1 : earlier \in recorded

\* What a script has seen and done so far is in the database.
Placed(s) ==
  LET place == script[s] IN
  /\ \A earlier \in 1 .. place.at - 1 : earlier \in recorded
  /\ place.phase = "check" => place.next = 1
  /\ place.phase = "apply" =>
       place.next <= Statements(place.at) /\ place.next - 1 <= objects[place.at]
  /\ place.phase = "record" => Complete(place.at)

\* Nothing happens behind the back of a script that runs by itself.
Undisturbed(s) ==
  /\ \A other \in Scripts \ {s} : ~Active(other)
  /\ script[s].phase \in {"apply", "record"} => script[s].at \notin recorded

\* A script that can go on: nobody else has recorded its file, and the tables
\* of the first one that exist are its own.
Viable(s) ==
  LET place == script[s] IN
  /\ Active(s)
  /\ place.phase \in {"apply", "record"} => place.at \notin recorded
  /\ place.phase \in {"check", "apply"} /\ place.at = 1 /\ 1 \notin recorded
       => objects[1] = place.next - 1

\* Without a crash there is such a script, from the first start to the end.
SomebodyViable ==
  \/ crashes > 0 \/ recorded = Versions \/ \E s \in Scripts : Viable(s)
  \/ /\ runs = 0 /\ recorded = {} /\ objects[1] = 0
     /\ \A s \in Scripts : ~Active(s)

\* A lone script has failed in the first file, after a crash.
LoneFailure(s) == script[s].at = 1 /\ 1 \notin recorded /\ crashes > 0

SchemaInv ==
  /\ SchemaTypeOK /\ AppliedInOrder /\ RecordedComplete /\ SomebodyViable
  /\ \A s \in Scripts :
       /\ Active(s) => Placed(s)
       /\ script[s].alone => Undisturbed(s)
       /\ script[s].phase = "failed" /\ script[s].alone => LoneFailure(s)

-----------------------------------------------------------------------------
(* Places of scripts: the record forms are unfolded only here *)

ScriptPhases == {"idle", "check", "apply", "record", "done", "failed"}

LEMMA PlaceFacts ==
  ASSUME NEW p \in Script
  PROVE  /\ p.phase \in ScriptPhases /\ p.at \in Versions
         /\ p.next \in 1 .. Size + 1 /\ p.alone \in BOOLEAN
BY DEF Script, ScriptPhases

LEMMA PhaseFacts ==
  ASSUME NEW p \in Script, NEW phase \in ScriptPhases
  PROVE  LET q == [p EXCEPT !.phase = phase] IN
         /\ q \in Script /\ q.phase = phase
         /\ q.at = p.at /\ q.next = p.next /\ q.alone = p.alone
<1>1. PICK ph \in ScriptPhases, a \in Versions, n \in 1 .. Size + 1, al \in BOOLEAN :
        p = [phase |-> ph, at |-> a, next |-> n, alone |-> al]
  BY DEF Script, ScriptPhases
<1>2. [p EXCEPT !.phase = phase] = [phase |-> phase, at |-> a, next |-> n, alone |-> al]
  BY <1>1
<1>3. QED
  BY <1>1, <1>2 DEF Script, ScriptPhases

LEMMA NextStatementFacts ==
  ASSUME NEW p \in Script, p.next + 1 <= Size + 1
  PROVE  LET q == [p EXCEPT !.next = @ + 1] IN
         /\ q \in Script /\ q.phase = p.phase
         /\ q.at = p.at /\ q.next = p.next + 1 /\ q.alone = p.alone
<1>1. PICK ph \in ScriptPhases, a \in Versions, n \in 1 .. Size + 1, al \in BOOLEAN :
        p = [phase |-> ph, at |-> a, next |-> n, alone |-> al]
  BY DEF Script, ScriptPhases
<1>2. [p EXCEPT !.next = @ + 1] = [phase |-> ph, at |-> a, next |-> n + 1, alone |-> al]
  BY <1>1
<1>3. n + 1 \in 1 .. Size + 1
  BY <1>1, MigrationsAssumption
<1>4. QED
  BY <1>1, <1>2, <1>3 DEF Script, ScriptPhases

LEMMA AloneFacts ==
  ASSUME NEW p \in Script
  PROVE  LET q == [p EXCEPT !.alone = FALSE] IN
         /\ q \in Script /\ q.phase = p.phase
         /\ q.at = p.at /\ q.next = p.next /\ q.alone = FALSE
<1>1. PICK ph \in ScriptPhases, a \in Versions, n \in 1 .. Size + 1, al \in BOOLEAN :
        p = [phase |-> ph, at |-> a, next |-> n, alone |-> al]
  BY DEF Script, ScriptPhases
<1>2. ASSUME NEW b
      PROVE  [p EXCEPT !.alone = b] = [phase |-> ph, at |-> a, next |-> n, alone |-> b]
  BY <1>1
<1>3. QED
  BY <1>1, <1>2 DEF Script, ScriptPhases

LEMMA AdvancedFacts ==
  ASSUME NEW p \in Script
  PROVE  LET q == Advanced(p) IN
         /\ q \in Script /\ q.alone = p.alone
         /\ \/ p.at < Last /\ q.phase = "check" /\ q.at = p.at + 1 /\ q.next = 1
            \/ p.at = Last /\ q.phase = "done"
<1>1. PICK ph \in ScriptPhases, a \in Versions, n \in 1 .. Size + 1, al \in BOOLEAN :
        p = [phase |-> ph, at |-> a, next |-> n, alone |-> al]
  BY DEF Script, ScriptPhases
<1>2. CASE p.at < Last
  <2>1. Advanced(p) = [phase |-> "check", at |-> a + 1, next |-> 1, alone |-> al]
    BY <1>1, <1>2 DEF Advanced
  <2>2. a + 1 \in Versions /\ 1 \in 1 .. Size + 1
    BY <1>1, <1>2, MigrationsAssumption DEF Versions
  <2>3. QED
    BY <1>1, <1>2, <2>1, <2>2 DEF Script, ScriptPhases
<1>3. CASE ~(p.at < Last)
  <2>1. Advanced(p) = [phase |-> "done", at |-> a, next |-> n, alone |-> al]
    BY <1>1, <1>3 DEF Advanced
  <2>2. a = Last
    BY <1>1, <1>3, MigrationsAssumption DEF Versions
  <2>3. QED
    BY <1>1, <1>3, <2>1, <2>2 DEF Script, ScriptPhases
<1>4. QED
  BY <1>2, <1>3

LEMMA GoFacts ==
  ASSUME SchemaTypeOK, NEW s \in Scripts, NEW place \in Script, Go(s, place)
  PROVE  /\ script' \in [Scripts -> Script] /\ script'[s] = place
         /\ \A o \in Scripts \ {s} : script'[o] = script[o]
BY DEF SchemaTypeOK, Go

\* What a step of one script leaves of what is known of the others.
LEMMA OthersKept ==
  ASSUME SchemaInv, NEW s \in Scripts, Active(s),
         NEW o \in Scripts \ {s}, script'[o] = script[o],
         recorded \subseteq recorded',
         objects' \in [Versions -> Nat],
         \A m \in Versions : objects[m] <= objects'[m] /\ (Complete(m) => Complete(m)')
  PROVE  /\ ~script'[o].alone /\ (Active(o)' => Placed(o)') /\ (Active(o)' <=> Active(o))
<1>1. ~script[o].alone
  BY DEF SchemaInv, Undisturbed
<1>2. Active(o)' <=> Active(o)
  BY DEF Active
<1>3. ASSUME Active(o) PROVE Placed(o)'
  <2>1. Placed(o) /\ script[o] \in Script
    BY <1>3 DEF SchemaInv, SchemaTypeOK
  <2>2. script[o].at \in Versions /\ script[o].next \in Int
    BY <2>1, PlaceFacts
  <2>3. objects[script[o].at] \in Int /\ objects'[script[o].at] \in Int
    BY <2>2 DEF SchemaInv, SchemaTypeOK
  <2>4. QED
    BY <2>1, <2>2, <2>3 DEF Placed
<1>4. QED
  BY <1>1, <1>2, <1>3
\* What is left to show of a step of one script: its own place, and that
\* somebody can go on.
LEMMA OneScriptInv ==
  ASSUME SchemaInv, NEW s \in Scripts, Active(s),
         SchemaTypeOK', AppliedInOrder', RecordedComplete', SomebodyViable',
         \A o \in Scripts \ {s} : script'[o] = script[o],
         script'[s].alone = script[s].alone,
         recorded \subseteq recorded',
         \A m \in Versions : objects[m] <= objects'[m] /\ (Complete(m) => Complete(m)'),
         Active(s)' => Placed(s)',
         script'[s].alone /\ script'[s].phase \in {"apply", "record"}
           => script'[s].at \notin recorded',
         script'[s].phase = "failed" /\ script'[s].alone => LoneFailure(s)'
  PROVE  SchemaInv'
<1>1. objects' \in [Versions -> Nat]
  BY DEF SchemaTypeOK
<1>2. \A o \in Scripts \ {s} :
        ~script'[o].alone /\ (Active(o)' => Placed(o)') /\ (Active(o)' <=> Active(o))
  BY <1>1, OthersKept
<1>3. script'[s].alone => Undisturbed(s)'
  BY <1>2 DEF SchemaInv, Undisturbed
<1>4. QED
  BY <1>2, <1>3 DEF SchemaInv

-----------------------------------------------------------------------------
(* Migrations: the steps *)

LEMMA InitSchemaInv == SchemaInit => SchemaInv
<1>. SUFFICES ASSUME SchemaInit PROVE SchemaInv
  OBVIOUS
<1>1. 1 \in Versions /\ 1 \in 1 .. Size + 1 /\ Last \in Nat /\ Size \in Nat \ {0}
  BY MigrationsAssumption DEF Versions
<1>2. [phase |-> "idle", at |-> 1, next |-> 1, alone |-> TRUE] \in Script
  BY <1>1 DEF Script
<1>3. \A s \in Scripts : script[s] \in Script /\ script[s].phase = "idle"
  BY <1>2 DEF SchemaInit
<1>4. SchemaTypeOK
  BY <1>1, <1>3, MigrationsAssumption DEF SchemaInit, SchemaTypeOK
<1>5. AppliedInOrder /\ RecordedComplete /\ SomebodyViable
  BY <1>1, <1>3
  DEF SchemaInit, AppliedInOrder, RecordedComplete, SomebodyViable, Active, Statements
<1>6. \A s \in Scripts : ~Active(s) /\ Undisturbed(s)
  BY <1>3 DEF Active, Undisturbed
<1>7. QED
  BY <1>3, <1>4, <1>5, <1>6 DEF SchemaInv

LEMMA StutterSchemaInv == SchemaInv /\ UNCHANGED schema => SchemaInv'
BY DEF SchemaInv, schema, SchemaTypeOK, AppliedInOrder, RecordedComplete, Complete,
       SomebodyViable, Viable, Active, Placed, Undisturbed, LoneFailure

\* A new script starts at the first file; it can go on if it is the first one.
LEMMA StartInv ==
  ASSUME SchemaInv, NEW s \in Scripts, StartScript(s)
  PROVE  SchemaInv'
<1>. DEFINE quiet == \A o \in Scripts : ~Active(o)
<1>1. 1 \in Versions /\ 1 \in 1 .. Size + 1
  BY MigrationsAssumption DEF Versions
<1>2. /\ script'[s] \in Script /\ script'[s].phase = "check" /\ script'[s].at = 1
      /\ script'[s].next = 1 /\ (script'[s].alone <=> quiet)
  BY <1>1 DEF StartScript, Script
<1>3. /\ UNCHANGED <<objects, recorded, crashes>> /\ runs' = runs + 1 /\ runs < MaxRuns
      /\ ~Active(s)
  BY DEF StartScript
<1>4. \A o \in Scripts \ {s} :
        /\ script'[o] \in Script /\ script'[o].phase = script[o].phase
        /\ script'[o].at = script[o].at /\ script'[o].next = script[o].next
        /\ ~script'[o].alone
  <2>1. SUFFICES ASSUME NEW o \in Scripts \ {s}
                 PROVE  /\ script'[o] \in Script /\ script'[o].phase = script[o].phase
                        /\ script'[o].at = script[o].at /\ script'[o].next = script[o].next
                        /\ ~script'[o].alone
    OBVIOUS
  <2>. DEFINE q == [script[o] EXCEPT !.alone = FALSE]
  <2>2. script'[o] = q
    BY DEF StartScript
  <2>3. script[o] \in Script
    BY DEF SchemaInv, SchemaTypeOK
  <2>4. /\ q \in Script /\ q.phase = script[o].phase
        /\ q.at = script[o].at /\ q.next = script[o].next /\ q.alone = FALSE
    BY <2>3, AloneFacts
  <2>. HIDE DEF q
  <2>5. QED
    BY <2>2, <2>4
<1>5. SchemaTypeOK'
  <2>1. script' \in [Scripts -> Script]
    <3>1. \E f : script' = [o \in Scripts |-> f[o]]
      <4>1. script' = [o \in Scripts |-> script'[o]]
        BY DEF StartScript
      <4>2. QED
        BY <4>1
    <3>2. QED
      BY <1>2, <1>4, <3>1
  <2>2. QED
    BY <1>3, <2>1, MigrationsAssumption DEF SchemaInv, SchemaTypeOK
<1>6. \A o \in Scripts \ {s} :
        (Active(o)' <=> Active(o)) /\ (Placed(o)' <=> Placed(o)) /\ (Viable(o)' <=> Viable(o))
  BY <1>3, <1>4 DEF Active, Placed, Viable, Complete
<1>7. Active(s)' /\ Placed(s)'
  BY <1>2 DEF Active, Placed
<1>8. script'[s].alone => Undisturbed(s)'
  BY <1>2, <1>6 DEF Undisturbed
<1>9. AppliedInOrder' /\ RecordedComplete'
  BY <1>3 DEF SchemaInv, AppliedInOrder, RecordedComplete, Complete
<1>10. SomebodyViable'
  <2>1. CASE crashes > 0 \/ recorded = Versions
    BY <1>3, <2>1 DEF SomebodyViable
  <2>2. ASSUME NEW v \in Scripts, Viable(v)
        PROVE  SomebodyViable'
    BY <1>3, <1>6, <2>2 DEF Viable, SomebodyViable
  <2>3. CASE objects[1] = 0
    BY <1>2, <1>3, <1>7, <2>3 DEF Viable, SomebodyViable
  <2>4. QED
    BY <2>1, <2>2, <2>3 DEF SchemaInv, SomebodyViable
<1>11. QED
  BY <1>2, <1>4, <1>5, <1>6, <1>7, <1>8, <1>9, <1>10 DEF SchemaInv
\* A script goes on to the next file once this one is recorded: it can go on
\* there, or all files are recorded.
LEMMA AdvanceInv ==
  ASSUME SchemaInv, NEW s \in Scripts, Active(s), Go(s, Advanced(script[s])),
         script[s].at \in recorded', recorded' = recorded \cup {script[s].at},
         RecordedComplete', UNCHANGED <<objects, runs, crashes>>
  PROVE  SchemaInv'
<1>1. PICK m \in Versions : m = script[s].at
  BY PlaceFacts DEF SchemaInv, SchemaTypeOK
<1>2. /\ script' \in [Scripts -> Script] /\ script'[s].alone = script[s].alone
      /\ \A o \in Scripts \ {s} : script'[o] = script[o]
      /\ \/ m < Last /\ script'[s].phase = "check" /\ script'[s].at = m + 1
            /\ script'[s].next = 1
         \/ m = Last /\ script'[s].phase = "done"
  <2>. DEFINE place == Advanced(script[s])
  <2>1. script[s] \in Script
    BY DEF SchemaInv, SchemaTypeOK
  <2>2. /\ place \in Script /\ place.alone = script[s].alone
        /\ \/ m < Last /\ place.phase = "check" /\ place.at = m + 1 /\ place.next = 1
           \/ m = Last /\ place.phase = "done"
    BY <1>1, <2>1, AdvancedFacts
  <2>3. Go(s, place)
    OBVIOUS
  <2>. HIDE DEF place
  <2>4. QED
    BY <2>2, <2>3, GoFacts DEF SchemaInv
<1>3. \A earlier \in 1 .. m : earlier \in recorded'
  BY <1>1 DEF SchemaInv, Placed, Versions
<1>4. SchemaTypeOK'
  BY <1>1, <1>2 DEF SchemaInv, SchemaTypeOK
<1>5. AppliedInOrder'
  BY DEF SchemaInv, AppliedInOrder
<1>6. Active(s)' => Placed(s)'
  BY <1>1, <1>2, <1>3 DEF Active, Placed, Versions
<1>7. SomebodyViable'
  <2>1. CASE m < Last /\ script'[s].phase = "check" /\ script'[s].at = m + 1
    <3>1. script'[s].at # 1
      BY <1>1, <2>1 DEF Versions
    <3>2. Viable(s)'
      BY <2>1, <3>1 DEF Viable, Active
    <3>3. QED
      BY <3>2 DEF SomebodyViable
  <2>2. CASE m = Last
    BY <1>3, <1>4, <2>2 DEF SomebodyViable, SchemaTypeOK, Versions
  <2>3. QED
    BY <1>2, <2>1, <2>2
<1>8. \A v \in Versions : objects[v] <= objects'[v] /\ (Complete(v) => Complete(v)')
  BY DEF SchemaInv, SchemaTypeOK, Complete
<1>9. script'[s].phase \notin {"apply", "record", "failed"}
  BY <1>2
<1>10. QED
  BY <1>2, <1>4, <1>5, <1>6, <1>7, <1>8, <1>9, OneScriptInv

\* A script only changes its phase, and nothing else changes.
LEMMA PhaseChange ==
  ASSUME SchemaInv, NEW s \in Scripts, NEW phase \in ScriptPhases,
         Go(s, [script[s] EXCEPT !.phase = phase]), UNCHANGED <<objects, recorded>>
  PROVE  /\ script' \in [Scripts -> Script] /\ script'[s].phase = phase
         /\ script'[s].at = script[s].at /\ script'[s].next = script[s].next
         /\ script'[s].alone = script[s].alone
         /\ \A o \in Scripts \ {s} :
              script'[o] = script[o] /\ (Active(o)' <=> Active(o)) /\ (Viable(o)' <=> Viable(o))
         /\ AppliedInOrder' /\ RecordedComplete'
         /\ \A v \in Versions : objects[v] <= objects'[v] /\ (Complete(v) => Complete(v)')
<1>. DEFINE place == [script[s] EXCEPT !.phase = phase]
<1>1. script[s] \in Script
  BY DEF SchemaInv, SchemaTypeOK
<1>2. /\ place \in Script /\ place.phase = phase /\ place.at = script[s].at
      /\ place.next = script[s].next /\ place.alone = script[s].alone
  BY <1>1, PhaseFacts
<1>3. Go(s, place)
  OBVIOUS
<1>. HIDE DEF place
<1>4. /\ script' \in [Scripts -> Script] /\ script'[s] = place
      /\ \A o \in Scripts \ {s} : script'[o] = script[o]
  BY <1>2, <1>3, GoFacts DEF SchemaInv
<1>5. \A o \in Scripts \ {s} : (Active(o)' <=> Active(o)) /\ (Viable(o)' <=> Viable(o))
  BY <1>4 DEF Active, Viable
<1>6. /\ AppliedInOrder' /\ RecordedComplete'
      /\ \A v \in Versions : objects[v] <= objects'[v] /\ (Complete(v) => Complete(v)')
  BY DEF SchemaInv, SchemaTypeOK, AppliedInOrder, RecordedComplete, Complete
<1>7. QED
  BY <1>2, <1>4, <1>5, <1>6

LEMMA CheckInv ==
  ASSUME SchemaInv, NEW s \in Scripts, Check(s)
  PROVE  SchemaInv'
<1>1. Active(s) /\ Placed(s)
  BY DEF Check, Active, SchemaInv
<1>2. CASE script[s].at \in recorded
  <2>1. RecordedComplete'
    BY DEF Check, SchemaInv, RecordedComplete, Complete
  <2>2. QED
    BY <1>1, <1>2, <2>1, AdvanceInv DEF Check
<1>3. CASE script[s].at \notin recorded
  <2>1. "apply" \in ScriptPhases
    BY DEF ScriptPhases
  <2>2. /\ Go(s, [script[s] EXCEPT !.phase = "apply"])
        /\ UNCHANGED <<objects, recorded, runs, crashes>>
    BY <1>3 DEF Check
  <2>3. /\ script' \in [Scripts -> Script] /\ script'[s].phase = "apply"
        /\ script'[s].at = script[s].at /\ script'[s].next = script[s].next
        /\ script'[s].alone = script[s].alone
        /\ \A o \in Scripts \ {s} :
             script'[o] = script[o] /\ (Active(o)' <=> Active(o)) /\ (Viable(o)' <=> Viable(o))
        /\ AppliedInOrder' /\ RecordedComplete'
        /\ \A v \in Versions : objects[v] <= objects'[v] /\ (Complete(v) => Complete(v)')
    BY <2>1, <2>2, PhaseChange
  <2>4. SchemaTypeOK'
    BY <2>2, <2>3 DEF SchemaInv, SchemaTypeOK
  <2>5. script[s].next = 1 /\ script[s].at \in Versions
    BY <1>1, PlaceFacts DEF Check, Placed, SchemaInv, SchemaTypeOK
  <2>6. Placed(s)'
    <3>1. Statements(script[s].at) >= 1 /\ objects[script[s].at] >= 0
      BY <2>5, MigrationsAssumption DEF Statements, SchemaInv, SchemaTypeOK
    <3>2. QED
      BY <1>1, <2>2, <2>3, <2>5, <3>1 DEF Placed
  <2>7. Viable(s) => Viable(s)'
    BY <1>3, <2>2, <2>3 DEF Viable, Active, Check
  <2>8. SomebodyViable'
    BY <1>1, <2>2, <2>3, <2>7 DEF SchemaInv, SomebodyViable
  <2>9. QED
    BY <1>1, <1>3, <2>2, <2>3, <2>4, <2>6, <2>8, OneScriptInv
<1>4. QED
  BY <1>2, <1>3

\* Two scripts may try to replace a function at the same time, and a table may
\* exist: somebody else is then able to go on, or there was a crash.
LEMMA ApplyFailsInv ==
  ASSUME SchemaInv, NEW s \in Scripts, ApplyFails(s)
  PROVE  SchemaInv'
<1>1. Active(s) /\ Placed(s) /\ script[s].phase = "apply" /\ script[s].at \in Versions
  BY PlaceFacts DEF ApplyFails, Active, SchemaInv, SchemaTypeOK
<1>2. "failed" \in ScriptPhases
  BY DEF ScriptPhases
<1>3. /\ Go(s, [script[s] EXCEPT !.phase = "failed"])
      /\ UNCHANGED <<objects, recorded, runs, crashes>>
  BY DEF ApplyFails, Aborted
<1>4. /\ script' \in [Scripts -> Script] /\ script'[s].phase = "failed"
      /\ script'[s].at = script[s].at /\ script'[s].next = script[s].next
      /\ script'[s].alone = script[s].alone
      /\ \A o \in Scripts \ {s} :
           script'[o] = script[o] /\ (Active(o)' <=> Active(o)) /\ (Viable(o)' <=> Viable(o))
      /\ AppliedInOrder' /\ RecordedComplete'
      /\ \A v \in Versions : objects[v] <= objects'[v] /\ (Complete(v) => Complete(v)')
  BY <1>2, <1>3, PhaseChange
<1>5. SchemaTypeOK'
  BY <1>3, <1>4 DEF SchemaInv, SchemaTypeOK
<1>6. CASE script[s].at = 1 /\ Exists(s)
  <2>1. ~Viable(s)
    <3>1. objects[1] \in Int /\ script[s].next \in Int
      BY <1>1, <1>6, PlaceFacts DEF SchemaInv, SchemaTypeOK
    <3>2. QED
      BY <1>1, <1>6, <3>1 DEF Viable, Exists
  <2>2. SomebodyViable'
    BY <1>1, <1>3, <1>4, <2>1 DEF SchemaInv, SomebodyViable
  <2>3. ASSUME script[s].alone PROVE LoneFailure(s)
    <3>1. 1 \notin recorded /\ \A o \in Scripts \ {s} : ~Active(o)
      BY <1>1, <1>6, <2>3 DEF SchemaInv, Undisturbed
    <3>2. crashes > 0
      BY <1>1, <1>6, <2>1, <3>1 DEF SchemaInv, SomebodyViable, Viable
    <3>3. QED
      BY <1>6, <3>1, <3>2 DEF LoneFailure
  <2>4. script'[s].alone => LoneFailure(s)'
    BY <1>3, <1>4, <2>3 DEF LoneFailure
  <2>5. QED
    BY <1>1, <1>3, <1>4, <1>5, <2>2, <2>4, OneScriptInv DEF Active
<1>7. ASSUME NEW other \in Scripts \ {s}, script[s].at # 1,
             script[other].phase = "apply", script[other].at = script[s].at
      PROVE  SchemaInv'
  <2>1. ~script[s].alone
    BY <1>7 DEF SchemaInv, Undisturbed, Active
  <2>2. Viable(s) => Viable(other)
    BY <1>1, <1>7 DEF Viable, Active
  <2>3. SomebodyViable'
    BY <1>1, <1>3, <1>4, <2>2 DEF SchemaInv, SomebodyViable
  <2>4. QED
    BY <1>1, <1>3, <1>4, <1>5, <2>1, <2>3, OneScriptInv DEF Active
<1>8. QED
  <2>1. Rerunnable(script[s].at) <=> script[s].at # 1
    BY <1>1 DEF Rerunnable, Versions
  <2>2. QED
    BY <1>6, <1>7, <2>1 DEF ApplyFails
\* A statement of the first file only succeeds for the script that made all
\* tables so far, and that one goes on.
LEMMA ApplyInv ==
  ASSUME SchemaInv, NEW s \in Scripts, Apply(s)
  PROVE  SchemaInv'
<1>1. PICK m \in Versions : m = script[s].at
  BY PlaceFacts DEF SchemaInv, SchemaTypeOK
<1>2. PICK n \in 1 .. Size + 1 : n = script[s].next
  BY PlaceFacts DEF SchemaInv, SchemaTypeOK
<1>3. /\ Active(s) /\ script[s].phase = "apply" /\ UNCHANGED <<recorded, runs, crashes>>
      /\ n <= Statements(m) /\ n - 1 <= objects[m] /\ objects[m] \in 0 .. Size
      /\ objects[m] <= Statements(m)
      /\ \A earlier \in 1 .. m - 1 : earlier \in recorded
  BY <1>1, <1>2
  DEF Apply, Active, Placed, SchemaInv, SchemaTypeOK, AppliedInOrder
<1>4. m \in Nat \ {0} /\ Size \in Nat \ {0} /\ Statements(m) = IF m = 1 THEN Size ELSE 1
  BY MigrationsAssumption DEF Versions, Statements
<1>5. m > 1 \/ ~(n <= objects[m])
  BY <1>1, <1>2 DEF Apply, Rerunnable, Exists
<1>6. /\ objects' \in [Versions -> 0 .. Size] /\ objects'[m] = n
      /\ \A v \in Versions \ {m} : objects'[v] = objects[v]
  <2>1. objects' = [objects EXCEPT ![m] = IF n <= objects[m] THEN @ ELSE @ + 1]
    BY <1>1, <1>2 DEF Apply, Exists
  <2>2. IF n <= objects[m] THEN objects[m] = n ELSE objects[m] + 1 = n
    BY <1>3, <1>4, <1>5
  <2>3. n \in 0 .. Size
    BY <1>3, <1>4
  <2>4. QED
    BY <2>1, <2>2, <2>3 DEF SchemaInv, SchemaTypeOK
<1>7. /\ script' \in [Scripts -> Script] /\ script'[s].at = m
      /\ script'[s].alone = script[s].alone
      /\ \A o \in Scripts \ {s} : script'[o] = script[o]
      /\ \/ n < Statements(m) /\ script'[s].phase = "apply" /\ script'[s].next = n + 1
         \/ n = Statements(m) /\ script'[s].phase = "record"
  <2>1. script[s] \in Script
    BY DEF SchemaInv, SchemaTypeOK
  <2>2. CASE n < Statements(m)
    <3>. DEFINE place == [script[s] EXCEPT !.next = @ + 1]
    <3>1. n + 1 <= Size + 1
      BY <1>3, <1>4
    <3>2. /\ place \in Script /\ place.phase = "apply" /\ place.at = m /\ place.next = n + 1
          /\ place.alone = script[s].alone
      BY <1>1, <1>2, <1>3, <2>1, <3>1, NextStatementFacts
    <3>3. Go(s, place)
      BY <1>1, <1>2, <2>2 DEF Apply
    <3>. HIDE DEF place
    <3>4. QED
      BY <2>2, <3>2, <3>3, GoFacts DEF SchemaInv
  <2>3. CASE ~(n < Statements(m))
    <3>. DEFINE place == [script[s] EXCEPT !.phase = "record"]
    <3>1. n = Statements(m) /\ "record" \in ScriptPhases
      BY <1>3, <1>4, <2>3 DEF ScriptPhases
    <3>2. /\ place \in Script /\ place.phase = "record" /\ place.at = m
          /\ place.alone = script[s].alone
      BY <1>1, <2>1, <3>1, PhaseFacts
    <3>3. Go(s, place)
      BY <1>1, <1>2, <2>3 DEF Apply
    <3>. HIDE DEF place
    <3>4. QED
      BY <3>1, <3>2, <3>3, GoFacts DEF SchemaInv
  <2>4. QED
    BY <2>2, <2>3
<1>8. SchemaTypeOK'
  BY <1>3, <1>6, <1>7 DEF SchemaInv, SchemaTypeOK
<1>9. \A v \in Versions : objects[v] <= objects'[v] /\ (Complete(v) => Complete(v)')
  <2>1. objects[m] <= n
    BY <1>3, <1>4, <1>5
  <2>2. objects[m] <= objects'[m] /\ (Complete(m) => Complete(m)')
    BY <1>3, <1>4, <1>6, <2>1 DEF Complete
  <2>3. \A v \in Versions \ {m} :
          objects[v] <= objects'[v] /\ (Complete(v) => Complete(v)')
    BY <1>6 DEF SchemaInv, SchemaTypeOK, Complete
  <2>4. QED
    BY <2>2, <2>3
<1>10. AppliedInOrder' /\ RecordedComplete'
  <2>1. AppliedInOrder'
    BY <1>3, <1>6 DEF SchemaInv, AppliedInOrder
  <2>2. RecordedComplete'
    BY <1>3, <1>9 DEF SchemaInv, RecordedComplete, SchemaTypeOK, Versions
  <2>3. QED
    BY <2>1, <2>2
<1>11. Placed(s)'
  BY <1>3, <1>4, <1>6, <1>7 DEF Placed, Complete
<1>12. SomebodyViable'
  <2>1. CASE m = 1
    <3>1. objects[1] # Statements(1) /\ 1 \in Versions
      BY <1>3, <1>4, <1>5, <2>1
    <3>2. 1 \notin recorded
      BY <3>1 DEF SchemaInv, RecordedComplete, Complete
    <3>3. Viable(s)'
      BY <1>3, <1>6, <1>7, <2>1, <3>2 DEF Viable, Active
    <3>4. QED
      BY <3>3 DEF SomebodyViable
  <2>2. CASE m # 1
    <3>1. objects'[1] = objects[1]
      BY <1>4, <1>6, <2>2, MigrationsAssumption DEF Versions
    <3>2. \A o \in Scripts \ {s} : Viable(o) => Viable(o)'
      BY <1>3, <1>7, <3>1 DEF Viable, Active
    <3>3. Viable(s) => Viable(s)'
      BY <1>1, <1>3, <1>7, <2>2 DEF Viable, Active
    <3>4. QED
      BY <1>3, <3>2, <3>3 DEF SchemaInv, SomebodyViable
  <2>3. QED
    BY <2>1, <2>2
<1>13. script[s].alone => m \notin recorded
  BY <1>1, <1>3 DEF SchemaInv, Undisturbed
<1>14. script'[s].phase # "failed"
  BY <1>7
<1>15. QED
  BY <1>3, <1>7, <1>8, <1>9, <1>10, <1>11, <1>12, <1>13, <1>14, OneScriptInv

LEMMA RecordInv ==
  ASSUME SchemaInv, NEW s \in Scripts, Record(s)
  PROVE  SchemaInv'
<1>1. PICK m \in Versions : m = script[s].at
  BY PlaceFacts DEF SchemaInv, SchemaTypeOK
<1>2. /\ Active(s) /\ script[s].phase = "record" /\ Complete(m)
      /\ \A earlier \in 1 .. m - 1 : earlier \in recorded
      /\ recorded' = recorded \cup {m} /\ UNCHANGED <<objects, runs, crashes>>
  BY <1>1 DEF Record, Active, Placed, SchemaInv
<1>3. \A v \in Versions : objects[v] <= objects'[v] /\ (Complete(v) => Complete(v)')
  BY <1>2 DEF SchemaInv, SchemaTypeOK, Complete
<1>4. CASE m \in recorded
  <2>1. "failed" \in ScriptPhases
    BY DEF ScriptPhases
  <2>2. Go(s, [script[s] EXCEPT !.phase = "failed"]) /\ recorded' = recorded
    BY <1>1, <1>2, <1>4 DEF Record, Aborted
  <2>3. /\ script' \in [Scripts -> Script] /\ script'[s].phase = "failed"
        /\ script'[s].alone = script[s].alone
        /\ \A o \in Scripts \ {s} : script'[o] = script[o] /\ (Viable(o)' <=> Viable(o))
        /\ AppliedInOrder' /\ RecordedComplete'
    BY <1>2, <2>1, <2>2, PhaseChange
  <2>4. SchemaTypeOK'
    BY <1>2, <2>2, <2>3 DEF SchemaInv, SchemaTypeOK
  <2>5. ~Viable(s) /\ ~script[s].alone
    BY <1>1, <1>2, <1>4 DEF Viable, SchemaInv, Undisturbed
  <2>6. SomebodyViable'
    BY <1>2, <2>2, <2>3, <2>5 DEF SchemaInv, SomebodyViable
  <2>7. QED
    BY <1>2, <1>3, <2>3, <2>4, <2>5, <2>6, OneScriptInv DEF Active
<1>5. CASE m \notin recorded
  <2>1. RecordedComplete'
    <3>1. \A e \in 1 .. m - 1 : e \in recorded /\ Complete(e)
      BY <1>1, <1>2 DEF SchemaInv, RecordedComplete, SchemaTypeOK, Versions
    <3>2. \A e \in 1 .. m : e = m \/ e \in 1 .. m - 1
      BY DEF Versions
    <3>3. \A e \in 1 .. m : e \in recorded' /\ Complete(e)
      BY <1>2, <3>1, <3>2
    <3>4. \A v \in recorded' : \A e \in 1 .. v : e \in recorded' /\ Complete(e)
      BY <1>2, <3>3 DEF SchemaInv, RecordedComplete
    <3>5. QED
      BY <1>2, <3>4 DEF RecordedComplete, Complete
  <2>2. Go(s, Advanced(script[s]))
    BY <1>1, <1>5 DEF Record
  <2>3. QED
    BY <1>1, <1>2, <2>1, <2>2, AdvanceInv
<1>6. QED
  BY <1>4, <1>5

LEMMA CrashInv ==
  ASSUME SchemaInv, NEW s \in Scripts, Crash(s)
  PROVE  SchemaInv'
<1>1. "idle" \in ScriptPhases
  BY DEF ScriptPhases
<1>2. /\ Go(s, [script[s] EXCEPT !.phase = "idle"]) /\ Active(s)
      /\ UNCHANGED <<objects, recorded, runs>> /\ crashes' = crashes + 1
      /\ crashes < MaxCrashes
  BY DEF Crash
<1>3. /\ script' \in [Scripts -> Script] /\ script'[s].phase = "idle"
      /\ script'[s].alone = script[s].alone
      /\ \A o \in Scripts \ {s} : script'[o] = script[o]
      /\ AppliedInOrder' /\ RecordedComplete'
      /\ \A v \in Versions : objects[v] <= objects'[v] /\ (Complete(v) => Complete(v)')
  BY <1>1, <1>2, PhaseChange
<1>4. SchemaTypeOK' /\ SomebodyViable'
  BY <1>2, <1>3, MigrationsAssumption DEF SchemaInv, SchemaTypeOK, SomebodyViable
<1>5. QED
  BY <1>2, <1>3, <1>4, OneScriptInv DEF Active

\* What a file has made stays.
LEMMA CompleteStays ==
  ASSUME SchemaInv, Migrate \/ UNCHANGED schema, NEW v \in Versions, Complete(v)
  PROVE  Complete(v)'
<1>1. CASE UNCHANGED objects
  BY <1>1 DEF Complete
<1>2. ASSUME NEW s \in Scripts, Apply(s)
      PROVE  Complete(v)'
  <2>1. /\ script[s].at \in Versions /\ script[s].next <= Statements(script[s].at)
        /\ objects' = [objects EXCEPT ![script[s].at] = IF Exists(s) THEN @ ELSE @ + 1]
    BY <1>2, PlaceFacts DEF Apply, SchemaInv, SchemaTypeOK, Active, Placed
  <2>2. script[s].at = v => Exists(s)
    BY <2>1 DEF Complete, Exists
  <2>3. objects'[v] = objects[v]
    BY <2>1, <2>2 DEF SchemaInv, SchemaTypeOK
  <2>4. QED
    BY <2>3 DEF Complete
<1>3. QED
  BY <1>1, <1>2
  DEF Migrate, StartScript, Check, ApplyFails, Record, Crash, schema

LEMMA MigrateInv == SchemaInv /\ (Migrate \/ UNCHANGED schema) => SchemaInv'
BY StutterSchemaInv, StartInv, CheckInv, ApplyInv, ApplyFailsInv, RecordInv, CrashInv
DEF Migrate

\* However many scripts race: without a crash, when all have ended, the schema
\* is complete; and a script that ran by itself only fails in the first file,
\* after a crash (set -e and the primary key of schema_migrations).
THEOREM FailuresExplained == SchemaInv => RecordedComplete /\ FailsForAReason
<1>. SUFFICES ASSUME SchemaInv PROVE RecordedComplete /\ FailsForAReason
  OBVIOUS
<1>1. \A s \in Scripts : script[s].phase = "failed" /\ script[s].alone => LoneFailure(s)
  BY DEF SchemaInv
<1>2. crashes = 0 /\ runs > 0 /\ (\A s \in Scripts : ~Active(s)) => recorded = Versions
  BY DEF SchemaInv, SomebodyViable, Viable
<1>3. QED
  BY <1>1, <1>2 DEF SchemaInv, FailsForAReason, LoneFailure

-----------------------------------------------------------------------------
(* Tenancy: the inductive invariant *)

\* Only a serving engine has requests.
NoneWhileDown == engine # "serving" => \A q \in Requests : req[q].phase = "none"

\* The result of a lookup is one of the owners seen since the request came.
LookupSeen(q) ==
  /\ req[q].phase = "looking" => owner[req[q].key] \in seen[q]
  /\ req[q].phase = "found" => req[q].tenant \in seen[q]

\* What was loaded at the start is what every request has been given.
GivenLoaded(q) ==
  req[q].phase = "served" =>
    req[q].tenant \in Tenants /\ req[q].config = ConfigOf(req[q].tenant)

Fair(q) ==
  req[q].phase = "served" /\ seen[q] # {} =>
    \/ req[q].tenant \in seen[q]
    \/ req[q].tenant = FixtureOwner[req[q].key] /\ Nobody \in seen[q]

IInv ==
  /\ TypeOK /\ SchemaInv /\ NoneWhileDown
  /\ engine = "serving" /\ database => ListFunction
  /\ \A q \in Requests : LookupSeen(q) /\ GivenLoaded(q) /\ Fair(q)

-----------------------------------------------------------------------------
(* Requests: the record forms are unfolded only here *)

RequestPhases == {"none", "looking", "found", "refused", "failed", "served"}

LEMMA RequestFacts ==
  ASSUME TypeOK, NEW q \in Requests
  PROVE  /\ req[q] \in Request /\ req[q].phase \in RequestPhases /\ req[q].key \in Keys
         /\ req[q].tenant \in Tenants \cup {Nobody} /\ req[q].config \in Configs
BY DEF TypeOK, Request, RequestPhases

LEMMA NoRequestFacts ==
  NoRequest \in Request /\ NoRequest.phase = "none" /\ NoRequest.tenant = Nobody
<1>1. PICK k \in Keys : k = CHOOSE c \in Keys : TRUE
  BY TenancyAssumption
<1>2. NoRequest = [phase |-> "none", key |-> k, tenant |-> Nobody, config |-> DefaultConfig]
  BY <1>1 DEF NoRequest
<1>3. DefaultConfig \in Configs
  BY TenancyAssumption
<1>4. QED
  BY <1>2, <1>3 DEF Request, RequestPhases

LEMMA ChangedRequest ==
  ASSUME TypeOK, NEW q \in Requests, NEW r \in Request, req' = [req EXCEPT ![q] = r]
  PROVE  /\ req' \in [Requests -> Request] /\ req'[q] = r
         /\ \A o \in Requests \ {q} : req'[o] = req[o]
BY DEF TypeOK

LEMMA ConfigOfType ==
  ASSUME TypeOK, NEW t \in Tenants
  PROVE  ConfigOf(t) \in Configs
BY TenancyAssumption DEF TypeOK, ConfigOf

LEMMA ServedFacts ==
  ASSUME TypeOK, NEW q \in Requests, NEW t \in Tenants, Served(q, t)
  PROVE  /\ req' \in [Requests -> Request]
         /\ req'[q].phase = "served" /\ req'[q].key = req[q].key
         /\ req'[q].tenant = t /\ req'[q].config = ConfigOf(t)
         /\ \A o \in Requests \ {q} : req'[o] = req[o]
<1>1. PICK p \in Request, c \in Configs : p = req[q] /\ c = ConfigOf(t)
  BY RequestFacts, ConfigOfType
<1>. DEFINE r == [p EXCEPT !.phase = "served", !.tenant = t, !.config = c]
<1>2. /\ r \in Request /\ r.phase = "served" /\ r.key = p.key
      /\ r.tenant = t /\ r.config = c
  BY DEF Request
<1>3. req' = [req EXCEPT ![q] = r]
  BY <1>1, Zenon DEF Served, TypeOK
<1>. HIDE DEF r
<1>4. QED
  BY <1>1, <1>2, <1>3, ChangedRequest

LEMMA RequestPhaseFacts ==
  ASSUME TypeOK, NEW q \in Requests, NEW phase \in RequestPhases,
         req' = [req EXCEPT ![q].phase = phase]
  PROVE  /\ req' \in [Requests -> Request] /\ req'[q].phase = phase
         /\ \A o \in Requests \ {q} : req'[o] = req[o]
<1>1. PICK p \in Request : p = req[q]
  BY RequestFacts
<1>. DEFINE r == [p EXCEPT !.phase = phase]
<1>2. r \in Request /\ r.phase = phase
  BY DEF Request, RequestPhases
<1>3. req' = [req EXCEPT ![q] = r]
  BY <1>1
<1>. HIDE DEF r
<1>4. QED
  BY <1>2, <1>3, ChangedRequest

LEMMA FoundFacts ==
  ASSUME TypeOK, NEW q \in Requests, NEW t \in Tenants \cup {Nobody},
         req' = [req EXCEPT ![q].phase = "found", ![q].tenant = t]
  PROVE  /\ req' \in [Requests -> Request] /\ req'[q].phase = "found" /\ req'[q].tenant = t
         /\ \A o \in Requests \ {q} : req'[o] = req[o]
<1>1. PICK p \in Request : p = req[q]
  BY RequestFacts
<1>. DEFINE r == [p EXCEPT !.phase = "found", !.tenant = t]
<1>2. r \in Request /\ r.phase = "found" /\ r.tenant = t
  BY DEF Request
<1>3. req' = [req EXCEPT ![q] = r]
  BY <1>1, Zenon
<1>. HIDE DEF r
<1>4. QED
  BY <1>2, <1>3, ChangedRequest
-----------------------------------------------------------------------------
(* Tenancy: the steps *)

Settled(q) == LookupSeen(q) /\ GivenLoaded(q) /\ Fair(q)

LEMMA InitIInv == Init => IInv
<1>. SUFFICES ASSUME Init PROVE IInv
  OBVIOUS
<1>1. SchemaInv
  BY InitSchemaInv DEF Init
<1>2. \A q \in Requests : req[q] \in Request /\ req[q].phase = "none"
  BY NoRequestFacts DEF Init
<1>3. TypeOK
  <2>1. req \in [Requests -> Request] /\ seen \in [Requests -> SUBSET (Tenants \cup {Nobody})]
    BY <1>2 DEF Init
  <2>2. /\ config \in [DbTenants -> Configs \cup {Absent}]
        /\ owner \in [Keys -> DbTenants \cup {Nobody}]
        /\ loaded \in [Tenants -> Configs \cup {Absent}]
    BY DEF Init
  <2>3. /\ engine \in {"down", "starting", "serving"}
        /\ starts \in 0 .. MaxStarts /\ changes \in 0 .. MaxChanges
    BY TenancyAssumption DEF Init
  <2>4. database \in BOOLEAN
    BY Zenon DEF Init
  <2>5. QED
    BY <1>1, <2>1, <2>2, <2>3, <2>4 DEF TypeOK, SchemaInv
<1>4. \A q \in Requests : Settled(q)
  BY <1>2 DEF Settled, LookupSeen, GivenLoaded, Fair
<1>5. QED
  BY <1>1, <1>2, <1>3, <1>4 DEF Init, IInv, NoneWhileDown, Settled

\* A step that is none of the database's schema.
LEMMA SchemaKept ==
  ASSUME IInv, UNCHANGED schema
  PROVE  SchemaInv' /\ SchemaTypeOK' /\ (ListFunction => ListFunction')
BY StutterSchemaInv DEF IInv, SchemaInv, schema, ListFunction, Complete

\* A step of one request.
LEMMA OneRequestInv ==
  ASSUME IInv, NEW q \in Requests, UNCHANGED <<schema, rows, process>>,
         req' \in [Requests -> Request], seen' \in [Requests -> SUBSET (Tenants \cup {Nobody})],
         \A o \in Requests \ {q} : req'[o] = req[o] /\ seen'[o] = seen[o],
         engine = "serving", Settled(q)'
  PROVE  IInv'
<1>1. /\ UNCHANGED <<config, owner, changes, engine, database, loaded, starts>>
      /\ UNCHANGED schema
  BY DEF rows, process
<1>2. SchemaInv' /\ SchemaTypeOK' /\ (ListFunction => ListFunction')
  BY <1>1, SchemaKept
<1>3. TypeOK'
  BY <1>1, <1>2 DEF IInv, TypeOK
<1>4. \A t : ConfigOf(t)' = ConfigOf(t)
  BY <1>1 DEF ConfigOf
<1>5. \A o \in Requests \ {q} : Settled(o)'
  BY <1>1, <1>4 DEF IInv, Settled, LookupSeen, GivenLoaded, Fair
<1>6. QED
  BY <1>1, <1>2, <1>3, <1>5 DEF IInv, NoneWhileDown, Settled

\* A step that is none of the requests' and loads no configurations.
LEMMA QuietInv ==
  ASSUME IInv, UNCHANGED <<process, req>>, TypeOK', SchemaInv', ListFunction => ListFunction',
         \A q \in Requests :
           /\ req[q].phase = "looking" => owner'[req[q].key] \in seen'[q]
           /\ req[q].phase # "looking" => seen'[q] = seen[q]
  PROVE  IInv'
<1>1. UNCHANGED <<engine, database, loaded, starts, req>>
  BY DEF process
<1>2. \A t : ConfigOf(t)' = ConfigOf(t)
  BY <1>1 DEF ConfigOf
<1>3. \A q \in Requests : Settled(q)'
  BY <1>1, <1>2 DEF IInv, Settled, LookupSeen, GivenLoaded, Fair
<1>4. QED
  BY <1>1, <1>3 DEF IInv, NoneWhileDown, Settled

LEMMA StutterIInv == IInv /\ UNCHANGED vars => IInv'
<1>. SUFFICES ASSUME IInv, UNCHANGED vars PROVE IInv'
  OBVIOUS
<1>1. /\ UNCHANGED <<config, owner, changes, engine, database, loaded, starts, req, seen>>
      /\ UNCHANGED schema
  BY DEF vars, rows, process
<1>2. SchemaInv' /\ SchemaTypeOK' /\ (ListFunction => ListFunction')
  BY <1>1, SchemaKept
<1>3. TypeOK'
  BY <1>1, <1>2 DEF IInv, TypeOK
<1>4. QED
  BY <1>1, <1>2, <1>3, QuietInv DEF IInv, LookupSeen, process

LEMMA MigrateIInv ==
  ASSUME IInv, Migrate, UNCHANGED <<rows, process, req, seen>>
  PROVE  IInv'
<1>1. UNCHANGED <<config, owner, changes, engine, database, loaded, starts, req, seen>>
  BY DEF rows, process
<1>2. SchemaInv'
  BY MigrateInv DEF IInv
<1>3. TypeOK'
  BY <1>1, <1>2 DEF IInv, TypeOK, SchemaInv
<1>4. ListFunction => ListFunction'
  <2>1. 3 \in Versions
    BY TenancyAssumption, MigrationsAssumption DEF Versions
  <2>2. QED
    BY <2>1, CompleteStays DEF IInv, ListFunction
<1>5. QED
  BY <1>1, <1>2, <1>3, <1>4, QuietInv DEF IInv, LookupSeen

LEMMA SetConfigIInv ==
  ASSUME IInv, NEW t \in DbTenants, NEW c \in Configs, SetConfig(t, c)
  PROVE  IInv'
<1>1. /\ UNCHANGED <<schema, process, req, owner, seen>>
      /\ changes' = changes + 1 /\ changes < MaxChanges
      /\ config' = [config EXCEPT ![t] = c]
  BY DEF SetConfig, Change
<1>2. SchemaInv' /\ SchemaTypeOK' /\ (ListFunction => ListFunction')
  BY <1>1, SchemaKept
<1>3. TypeOK'
  BY <1>1, <1>2, TenancyAssumption DEF IInv, TypeOK, process
<1>4. QED
  BY <1>1, <1>2, <1>3, QuietInv DEF IInv, LookupSeen

\* Requests that are looking see the new owner.
LEMMA SetOwnerIInv ==
  ASSUME IInv, NEW k \in Keys, NEW t \in DbTenants \cup {Nobody}, SetOwner(k, t)
  PROVE  IInv'
<1>1. /\ UNCHANGED <<schema, process, req, config>>
      /\ changes' = changes + 1 /\ changes < MaxChanges
      /\ owner' = [owner EXCEPT ![k] = t]
      /\ seen' = [q \in Requests |-> IF req[q].phase = "looking" /\ req[q].key = k
                                     THEN seen[q] \cup {t} ELSE seen[q]]
  BY DEF SetOwner, Change
<1>2. SchemaInv' /\ SchemaTypeOK' /\ (ListFunction => ListFunction')
  BY <1>1, SchemaKept
<1>3. t \in Tenants \cup {Nobody}
  BY DEF Tenants
<1>4. seen' \in [Requests -> SUBSET (Tenants \cup {Nobody})]
  BY <1>1, <1>3 DEF IInv, TypeOK
<1>5. TypeOK'
  BY <1>1, <1>2, <1>4, TenancyAssumption DEF IInv, TypeOK, process
<1>6. \A q \in Requests : req[q].phase = "looking" => owner'[req[q].key] \in seen'[q]
  <2>1. SUFFICES ASSUME NEW q \in Requests, req[q].phase = "looking"
                 PROVE  owner'[req[q].key] \in seen'[q]
    OBVIOUS
  <2>2. req[q].key \in Keys /\ owner[req[q].key] \in seen[q]
    BY <2>1, RequestFacts DEF IInv, LookupSeen
  <2>3. QED
    BY <1>1, <2>1, <2>2 DEF IInv, TypeOK
<1>7. \A q \in Requests : req[q].phase # "looking" => seen'[q] = seen[q]
  BY <1>1
<1>8. QED
  BY <1>1, <1>2, <1>5, <1>6, <1>7, QuietInv

LEMMA StartEngineIInv ==
  ASSUME IInv, NEW withDatabase \in BOOLEAN, StartEngine(withDatabase)
  PROVE  IInv'
<1>1. /\ UNCHANGED schema /\ UNCHANGED <<config, owner, changes, req, seen>>
      /\ engine' \in {"starting", "serving"} /\ database' = withDatabase
      /\ (engine' = "serving" => ~withDatabase)
      /\ starts' = starts + 1 /\ starts < MaxStarts
  BY DEF StartEngine, rows
<1>2. SchemaInv' /\ SchemaTypeOK'
  BY <1>1, SchemaKept
<1>3. loaded' \in [Tenants -> Configs \cup {Absent}]
  BY TenancyAssumption DEF StartEngine, Tenants
<1>4. TypeOK'
  BY <1>1, <1>2, <1>3, TenancyAssumption DEF IInv, TypeOK
<1>5. \A q \in Requests : req'[q].phase = "none"
  BY <1>1 DEF IInv, NoneWhileDown, StartEngine
<1>6. QED
  BY <1>1, <1>2, <1>4, <1>5 DEF IInv, NoneWhileDown, LookupSeen, GivenLoaded, Fair

LEMMA LoadConfigsIInv == IInv /\ LoadConfigs => IInv'
<1>. SUFFICES ASSUME IInv, LoadConfigs PROVE IInv'
  OBVIOUS
<1>1. /\ UNCHANGED schema
      /\ UNCHANGED <<config, owner, changes, database, starts, req, seen>>
      /\ engine = "starting" /\ engine' = "serving" /\ ListFunction
  BY DEF LoadConfigs, rows
<1>2. SchemaInv' /\ SchemaTypeOK' /\ ListFunction'
  BY <1>1, SchemaKept
<1>3. loaded' \in [Tenants -> Configs \cup {Absent}]
  BY DEF LoadConfigs, Tenants, IInv, TypeOK
<1>4. TypeOK'
  BY <1>1, <1>2, <1>3 DEF IInv, TypeOK
<1>5. \A q \in Requests : req'[q].phase = "none"
  BY <1>1 DEF IInv, NoneWhileDown
<1>6. QED
  BY <1>1, <1>2, <1>4, <1>5 DEF IInv, NoneWhileDown, LookupSeen, GivenLoaded, Fair

LEMMA StopEngineIInv == IInv /\ StopEngine => IInv'
<1>. SUFFICES ASSUME IInv, StopEngine PROVE IInv'
  OBVIOUS
<1>1. /\ UNCHANGED schema
      /\ UNCHANGED <<config, owner, changes, database, loaded, starts>>
      /\ engine' = "down"
      /\ \A q \in Requests : req'[q] = NoRequest
      /\ req' = [q \in Requests |-> NoRequest] /\ seen' = [q \in Requests |-> {}]
  BY DEF StopEngine, rows
<1>2. SchemaInv' /\ SchemaTypeOK'
  BY <1>1, SchemaKept
<1>3. TypeOK'
  BY <1>1, <1>2, NoRequestFacts DEF IInv, TypeOK
<1>4. \A q \in Requests : req'[q].phase = "none"
  BY <1>1, NoRequestFacts
<1>5. QED
  BY <1>1, <1>2, <1>3, <1>4 DEF IInv, NoneWhileDown, LookupSeen, GivenLoaded, Fair
LEMMA ArriveWithTenantIInv ==
  ASSUME IInv, NEW q \in Requests, NEW t \in Tenants, ArriveWithTenant(q, t)
  PROVE  IInv'
<1>1. /\ UNCHANGED <<schema, rows, process>> /\ engine = "serving"
      /\ Served(q, t) /\ seen' = [seen EXCEPT ![q] = {}]
  BY DEF ArriveWithTenant, Free
<1>2. /\ req' \in [Requests -> Request] /\ req'[q].phase = "served"
      /\ req'[q].tenant = t /\ req'[q].config = ConfigOf(t)
      /\ \A o \in Requests \ {q} : req'[o] = req[o]
  BY <1>1, ServedFacts DEF IInv
<1>3. /\ seen' \in [Requests -> SUBSET (Tenants \cup {Nobody})] /\ seen'[q] = {}
      /\ \A o \in Requests \ {q} : seen'[o] = seen[o]
  BY <1>1 DEF IInv, TypeOK
<1>4. loaded' = loaded
  BY <1>1 DEF process
<1>5. Settled(q)'
  BY <1>2, <1>3, <1>4 DEF Settled, LookupSeen, GivenLoaded, Fair, ConfigOf
<1>6. QED
  BY <1>1, <1>2, <1>3, <1>5, OneRequestInv

LEMMA ArriveWithKeyIInv ==
  ASSUME IInv, NEW q \in Requests, NEW k \in Keys, ArriveWithKey(q, k)
  PROVE  IInv'
<1>1. PICK phase \in {"looking", "found"} :
        /\ phase = (IF database THEN "looking" ELSE "found")
        /\ req' = [req EXCEPT ![q] = [NoRequest EXCEPT !.phase = phase, !.key = k]]
  BY DEF ArriveWithKey
<1>2. /\ UNCHANGED <<schema, rows, process>> /\ engine = "serving"
      /\ seen' = [seen EXCEPT ![q] = IF database THEN {owner[k]} ELSE {Nobody}]
  BY DEF ArriveWithKey, Free
<1>3. /\ req' \in [Requests -> Request] /\ req'[q].phase = phase
      /\ req'[q].key = k /\ req'[q].tenant = Nobody
      /\ \A o \in Requests \ {q} : req'[o] = req[o]
  <2>1. PICK p \in Request : p = NoRequest /\ p.tenant = Nobody
    BY NoRequestFacts
  <2>. DEFINE r == [p EXCEPT !.phase = phase, !.key = k]
  <2>2. r \in Request /\ r.phase = phase /\ r.key = k /\ r.tenant = Nobody
    BY <2>1 DEF Request
  <2>3. req' = [req EXCEPT ![q] = r]
    BY <1>1, <2>1
  <2>. HIDE DEF r
  <2>4. QED
    BY <2>2, <2>3, ChangedRequest DEF IInv
<1>4. owner[k] \in Tenants \cup {Nobody}
  BY DEF IInv, TypeOK, Tenants
<1>5. /\ seen' \in [Requests -> SUBSET (Tenants \cup {Nobody})]
      /\ seen'[q] = IF database THEN {owner[k]} ELSE {Nobody}
      /\ \A o \in Requests \ {q} : seen'[o] = seen[o]
  BY <1>2, <1>4 DEF IInv, TypeOK
<1>6. owner' = owner
  BY <1>2 DEF rows
<1>7. Settled(q)'
  BY <1>1, <1>3, <1>5, <1>6 DEF Settled, LookupSeen, GivenLoaded, Fair
<1>8. QED
  BY <1>2, <1>3, <1>5, <1>7, OneRequestInv

LEMMA LookUpIInv ==
  ASSUME IInv, NEW q \in Requests, LookUp(q) \/ LookUpFails(q)
  PROVE  IInv'
<1>1. /\ UNCHANGED <<schema, rows, process, seen>> /\ req[q].phase = "looking"
  BY DEF LookUp, LookUpFails
<1>2. engine = "serving"
  BY <1>1 DEF IInv, NoneWhileDown
<1>3. seen' \in [Requests -> SUBSET (Tenants \cup {Nobody})]
  BY <1>1 DEF IInv, TypeOK
<1>4. CASE LookUp(q)
  <2>1. PICK t \in Tenants \cup {Nobody} : t = owner[req[q].key] /\ t \in seen[q]
    BY <1>1, RequestFacts DEF IInv, TypeOK, LookupSeen, Tenants
  <2>2. req' = [req EXCEPT ![q].phase = "found", ![q].tenant = t]
    BY <1>4, <2>1 DEF LookUp
  <2>3. /\ req' \in [Requests -> Request] /\ req'[q].phase = "found" /\ req'[q].tenant = t
        /\ \A o \in Requests \ {q} : req'[o] = req[o]
    BY <2>2, FoundFacts DEF IInv
  <2>4. Settled(q)'
    BY <1>1, <2>1, <2>3 DEF Settled, LookupSeen, GivenLoaded, Fair
  <2>5. QED
    BY <1>1, <1>2, <1>3, <2>3, <2>4, OneRequestInv
<1>5. CASE LookUpFails(q)
  <2>1. "failed" \in RequestPhases
    BY DEF RequestPhases
  <2>2. /\ req' \in [Requests -> Request] /\ req'[q].phase = "failed"
        /\ \A o \in Requests \ {q} : req'[o] = req[o]
    BY <1>5, <2>1, RequestPhaseFacts DEF IInv, LookUpFails
  <2>3. Settled(q)'
    BY <2>2 DEF Settled, LookupSeen, GivenLoaded, Fair
  <2>4. QED
    BY <1>1, <1>2, <1>3, <2>2, <2>3, OneRequestInv
<1>6. QED
  BY <1>4, <1>5

LEMMA ResumeIInv ==
  ASSUME IInv, NEW q \in Requests, Resume(q)
  PROVE  IInv'
<1>1. /\ UNCHANGED <<schema, rows, process, seen>> /\ req[q].phase = "found"
      /\ req[q].tenant \in seen[q]
  BY DEF Resume, IInv, LookupSeen
<1>2. engine = "serving"
  BY <1>1 DEF IInv, NoneWhileDown
<1>3. seen' \in [Requests -> SUBSET (Tenants \cup {Nobody})]
  BY <1>1 DEF IInv, TypeOK
<1>4. PICK t : t = Resolved(req[q].key, req[q].tenant)
  OBVIOUS
<1>5. t \in Tenants \cup {Nobody}
  BY <1>4, RequestFacts, TenancyAssumption DEF IInv, Resolved, Tenants
<1>6. CASE t = Nobody
  <2>1. "refused" \in RequestPhases
    BY DEF RequestPhases
  <2>2. /\ req' \in [Requests -> Request] /\ req'[q].phase = "refused"
        /\ \A o \in Requests \ {q} : req'[o] = req[o]
    BY <1>4, <1>6, <2>1, RequestPhaseFacts DEF IInv, Resume
  <2>3. Settled(q)'
    BY <2>2 DEF Settled, LookupSeen, GivenLoaded, Fair
  <2>4. QED
    BY <1>1, <1>2, <1>3, <2>2, <2>3, OneRequestInv
<1>7. CASE t # Nobody
  <2>1. t \in Tenants /\ Served(q, t)
    BY <1>4, <1>5, <1>7 DEF Resume
  <2>2. /\ req' \in [Requests -> Request] /\ req'[q].phase = "served"
        /\ req'[q].key = req[q].key
        /\ req'[q].tenant = t /\ req'[q].config = ConfigOf(t)
        /\ \A o \in Requests \ {q} : req'[o] = req[o]
    BY <2>1, ServedFacts DEF IInv
  <2>3. loaded' = loaded
    BY <1>1 DEF process
  <2>4. t \in seen[q] \/ (t = FixtureOwner[req[q].key] /\ Nobody \in seen[q])
    BY <1>1, <1>4 DEF Resolved
  <2>5. Settled(q)'
    BY <1>1, <2>1, <2>2, <2>3, <2>4 DEF Settled, LookupSeen, GivenLoaded, Fair, ConfigOf
  <2>6. QED
    BY <1>1, <1>2, <1>3, <2>2, <2>5, OneRequestInv
<1>8. QED
  BY <1>6, <1>7

LEMMA NextIInv == IInv /\ [Next]_vars => IInv'
<1>. SUFFICES ASSUME IInv, [Next]_vars PROVE IInv'
  OBVIOUS
<1>1. CASE UNCHANGED vars
  BY <1>1, StutterIInv
<1>2. CASE Migrate /\ UNCHANGED <<rows, process, req, seen>>
  BY <1>2, MigrateIInv
<1>3. ASSUME NEW t \in DbTenants, NEW c \in Configs, SetConfig(t, c)
      PROVE  IInv'
  BY <1>3, SetConfigIInv
<1>4. ASSUME NEW k \in Keys, NEW t \in DbTenants \cup {Nobody}, SetOwner(k, t)
      PROVE  IInv'
  BY <1>4, SetOwnerIInv
<1>5. ASSUME NEW withDatabase \in BOOLEAN, StartEngine(withDatabase)
      PROVE  IInv'
  BY <1>5, StartEngineIInv
<1>6. CASE LoadConfigs \/ StopEngine
  BY <1>6, LoadConfigsIInv, StopEngineIInv
<1>7. ASSUME NEW q \in Requests, NEW t \in Tenants, ArriveWithTenant(q, t)
      PROVE  IInv'
  BY <1>7, ArriveWithTenantIInv
<1>8. ASSUME NEW q \in Requests, NEW k \in Keys, ArriveWithKey(q, k)
      PROVE  IInv'
  BY <1>8, ArriveWithKeyIInv
<1>9. ASSUME NEW q \in Requests, LookUp(q) \/ LookUpFails(q) \/ Resume(q)
      PROVE  IInv'
  BY <1>9, LookUpIInv, ResumeIInv
<1>10. QED
  BY <1>1, <1>2, <1>3, <1>4, <1>5, <1>6, <1>7, <1>8, <1>9 DEF Next

-----------------------------------------------------------------------------
(* Tenancy: the theorems *)

THEOREM Invariance == Spec => []IInv
<1>1. Init => IInv
  BY InitIInv
<1>2. IInv /\ [Next]_vars => IInv'
  BY NextIInv
<1>3. QED
  BY <1>1, <1>2, PTL DEF Spec

\* The variables of the deployment keep their types.
THEOREM TypeCorrect == Spec => []TypeOK
<1>1. IInv => TypeOK
  BY DEF IInv
<1>2. QED
  BY <1>1, Invariance, PTL

\* For every number of racing and crashing scripts: what schema_migrations
\* records is complete, and an engine that serves from the database finds its
\* tables and the function that looks up API keys.
THEOREM SchemaIsReady == Spec => []SchemaServes
<1>1. IInv => SchemaServes
  <2>. SUFFICES ASSUME IInv PROVE SchemaServes
    OBVIOUS
  <2>1. RecordedComplete
    BY DEF IInv, SchemaInv
  <2>2. ASSUME ListFunction PROVE Tables /\ LookupFunction
    <3>1. 3 \in Versions /\ objects[3] > 0
      BY <2>2, TenancyAssumption, MigrationsAssumption
      DEF ListFunction, Complete, Statements, Versions
    <3>2. 1 \in recorded /\ 2 \in recorded
      BY <3>1 DEF IInv, SchemaInv, AppliedInOrder
    <3>3. QED
      BY <2>1, <3>2 DEF RecordedComplete, Tables, LookupFunction
  <2>3. QED
    BY <2>1, <2>2 DEF SchemaServes, IInv
<1>2. QED
  BY <1>1, Invariance, PTL

\* Without a crash the scripts complete the schema between them, and a script
\* that ran by itself fails only in the first file, after a crash.
THEOREM FailuresHaveReasons == Spec => []FailsForAReason
<1>1. IInv => FailsForAReason
  BY FailuresExplained DEF IInv
<1>2. QED
  BY <1>1, Invariance, PTL

\* A request with a key runs for a tenant that owned the key at some moment of
\* its lookup, or for that of the fixture if at such a moment nobody did.
THEOREM LookupsFair == Spec => []ServedFairly
<1>1. IInv => ServedFairly
  BY DEF IInv, ServedFairly, Fair
<1>2. QED
  BY <1>1, Invariance, PTL

\* All requests of a tenant that one engine process serves get the same
\* configuration.
THEOREM ConfigSteady == Spec => []SteadyConfig
<1>1. IInv => SteadyConfig
  BY DEF IInv, SteadyConfig, GivenLoaded
<1>2. QED
  BY <1>1, Invariance, PTL
==============================================================================
