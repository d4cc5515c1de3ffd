------------------------------ MODULE Tenancy ------------------------------
(***************************************************************************)
(* The engine and its tenants, next to the migrations it relies on.  At    *)
(* start-up the engine reads the configuration of all tenants once, from   *)
(* the database when DATABASE_URL is set and else from engine/tenants.json *)
(* (TenantConfigService).  Each request is then given its tenant by        *)
(* TenantContextMiddleware: by a header, or by its API key, which is       *)
(* looked up in the database while other requests run, and then in         *)
(* gateway/tenants.json.                                                   *)
(*                                                                         *)
(* The tenants of the files and those of the database have ids of their    *)
(* own: names there, UUIDs here.  Rows of the database are changed by      *)
(* administrators (no code of the repository does it, but for the seed).   *)
(***************************************************************************)
EXTENDS Migrations

CONSTANTS
  FileTenants,    \* tenants of engine/tenants.json
  DbTenants,      \* tenants the database may have
  Configs,        \* tenant configurations
  DefaultConfig,  \* DEFAULT_TENANT_CONFIG
  FileConfig,     \* the configuration of each tenant of the file
  Keys,           \* API keys
  FixtureOwner,   \* whose key it is in gateway/tenants.json, or Nobody
  Nobody, Absent,
  Requests,       \* bound: requests in progress at a time
  MaxStarts,      \* bound: how often the engine is started
  MaxChanges      \* bound: changes by administrators

Tenants == FileTenants \cup DbTenants

\* The engine relies on the first three migrations.
ASSUME TenancyAssumption ==
  /\ Last >= 3 /\ Keys # {}
  /\ FileTenants \cap DbTenants = {} /\ Nobody \notin Tenants
  /\ DefaultConfig \in Configs /\ Absent \notin Configs
  /\ FileConfig \in [FileTenants -> Configs]
  /\ FixtureOwner \in [Keys -> FileTenants \cup {Nobody}]
  /\ MaxStarts \in Nat /\ MaxChanges \in Nat

VARIABLES
  config,   \* the database: configuration of its tenants
  owner,    \* the database: who owns a key that is not revoked
  engine,   \* the engine process: down, starting or serving
  database, \* it was started with DATABASE_URL
  loaded,   \* TenantConfigService.tenantConfigs
  req,      \* the requests
  seen,     \* not in the code: who owned the key since the request came
  starts, changes

rows == <<config, owner, changes>>
process == <<engine, database, loaded, starts>>
vars == <<schema, rows, process, req, seen>>

\* "looking": the lookup is under way; "found": its result is on the way back;
\* "failed" is a lookup that threw; "served" has run its handler.
Request ==
  [phase : {"none", "looking", "found", "refused", "failed", "served"},
   key : Keys, tenant : Tenants \cup {Nobody}, config : Configs]
NoRequest ==
  [phase |-> "none", key |-> CHOOSE k \in Keys : TRUE, tenant |-> Nobody,
   config |-> DefaultConfig]

Init ==
  /\ SchemaInit
  /\ config = [t \in DbTenants |-> Absent]
  /\ owner = [k \in Keys |-> Nobody]
  /\ engine = "down" /\ database = FALSE
  /\ loaded = [t \in Tenants |-> Absent]
  /\ req = [q \in Requests |-> NoRequest]
  /\ seen = [q \in Requests |-> {}]
  /\ starts = 0 /\ changes = 0

-----------------------------------------------------------------------------
(* The database *)

Tables == Complete(1)
LookupFunction == Complete(2)
ListFunction == Complete(3)

Change ==
  /\ Tables
  /\ changes < MaxChanges
  /\ changes' = changes + 1
  /\ UNCHANGED <<schema, process, req>>

SetConfig(t, c) ==
  /\ Change
  /\ config[t] # c
  /\ config' = [config EXCEPT ![t] = c]
  /\ UNCHANGED <<owner, seen>>

\* A key is issued, or revoked.
SetOwner(k, t) ==
  /\ Change
  /\ IF t = Nobody THEN owner[k] # Nobody ELSE owner[k] = Nobody /\ config[t] # Absent
  /\ owner' = [owner EXCEPT ![k] = t]
  /\ seen' = [q \in Requests |->
               IF req[q].phase = "looking" /\ req[q].key = k
               THEN seen[q] \cup {t} ELSE seen[q]]
  /\ UNCHANGED config

-----------------------------------------------------------------------------
(* The engine process *)

\* bootstrap up to the services' constructors: without a database the
\* configurations are read there and then.
StartEngine(withDatabase) ==
  /\ engine = "down"
  /\ starts < MaxStarts
  /\ starts' = starts + 1
  /\ engine' = IF withDatabase THEN "starting" ELSE "serving"
  /\ database' = withDatabase
  /\ loaded' = [t \in Tenants |->
                 IF t \in FileTenants /\ ~withDatabase THEN FileConfig[t] ELSE Absent]
  /\ UNCHANGED <<schema, rows, req, seen>>

\* onModuleInit, before the engine listens.
LoadConfigs ==
  /\ engine = "starting" /\ ListFunction
  /\ loaded' = [t \in Tenants |-> IF t \in DbTenants THEN config[t] ELSE Absent]
  /\ engine' = "serving"
  /\ UNCHANGED <<schema, rows, database, starts, req, seen>>

\* The process ends, with all its requests: because it is killed, or because
\* the configurations cannot be read.
StopEngine ==
  /\ engine # "down"
  /\ engine' = "down"
  /\ req' = [q \in Requests |-> NoRequest]
  /\ seen' = [q \in Requests |-> {}]
  /\ UNCHANGED <<schema, rows, database, loaded, starts>>

-----------------------------------------------------------------------------
(* Requests *)

\* the database is asked again
FaultyConfigOf(t) ==
  IF t \in DbTenants /\ config[t] # Absent THEN config[t] ELSE DefaultConfig
\* there is no default
FaultyConfigOfUnknown(t) == loaded[t]
\* getTenantConfig
ConfigOf(t) == IF loaded[t] # Absent THEN loaded[t] ELSE DefaultConfig

Served(q, t) ==
  req' = [req EXCEPT ![q].phase = "served", ![q].tenant = t, ![q].config = ConfigOf(t)]

\* the fixture goes first
FaultyResolved(k, row) == IF FixtureOwner[k] # Nobody THEN FixtureOwner[k] ELSE row
\* lookupTenantByApiKey
Resolved(k, row) == IF row # Nobody THEN row ELSE FixtureOwner[k]

Free(q) == engine = "serving" /\ req[q].phase \notin {"looking", "found"}

\* A request with a tenant header, as the gateway sends it.
ArriveWithTenant(q, t) ==
  /\ Free(q)
  /\ Served(q, t)
  /\ seen' = [seen EXCEPT ![q] = {}]
  /\ UNCHANGED <<schema, rows, process>>

\* A request with an API key.
ArriveWithKey(q, k) ==
  /\ Free(q)
  /\ req' = [req EXCEPT ![q] = [NoRequest EXCEPT
       !.phase = IF database THEN "looking" ELSE "found", !.key = k]]
  /\ seen' = [seen EXCEPT ![q] = IF database THEN {owner[k]} ELSE {Nobody}]
  /\ UNCHANGED <<schema, rows, process>>

\* lookup_tenant_by_api_key
LookUp(q) ==
  /\ req[q].phase = "looking" /\ LookupFunction
  /\ req' = [req EXCEPT ![q].phase = "found", ![q].tenant = owner[req[q].key]]
  /\ UNCHANGED <<schema, rows, process, seen>>

\* The database cannot be reached, or has no such function.
LookUpFails(q) ==
  /\ req[q].phase = "looking"
  /\ req' = [req EXCEPT ![q].phase = "failed"]
  /\ UNCHANGED <<schema, rows, process, seen>>

\* The middleware goes on, and the handler with it.
Resume(q) ==
  LET t == Resolved(req[q].key, req[q].tenant)
  IN  /\ req[q].phase = "found"
      /\ IF t = Nobody THEN req' = [req EXCEPT ![q].phase = "refused"] ELSE Served(q, t)
      /\ UNCHANGED <<schema, rows, process, seen>>

Next ==
  \/ Migrate /\ UNCHANGED <<rows, process, req, seen>>
  \/ \E t \in DbTenants, c \in Configs : SetConfig(t, c)
  \/ \E k \in Keys, t \in DbTenants \cup {Nobody} : SetOwner(k, t)
  \/ \E withDatabase \in BOOLEAN : StartEngine(withDatabase)
  \/ LoadConfigs \/ StopEngine
  \/ \E q \in Requests :
       \/ \E t \in Tenants : ArriveWithTenant(q, t)
       \/ \E k \in Keys : ArriveWithKey(q, k)
       \/ LookUp(q) \/ LookUpFails(q) \/ Resume(q)

Spec == Init /\ [][Next]_vars

-----------------------------------------------------------------------------
(* Properties *)

TypeOK ==
  /\ SchemaTypeOK
  /\ config \in [DbTenants -> Configs \cup {Absent}]
  /\ owner \in [Keys -> DbTenants \cup {Nobody}]
  /\ engine \in {"down", "starting", "serving"} /\ database \in BOOLEAN
  /\ loaded \in [Tenants -> Configs \cup {Absent}]
  /\ req \in [Requests -> Request]
  /\ seen \in [Requests -> SUBSET (Tenants \cup {Nobody})]
  /\ starts \in 0 .. MaxStarts /\ changes \in 0 .. MaxChanges

\* However scripts race and crash, what is recorded is complete, in order; and
\* an engine that serves from the database finds there all it will ask for.
SchemaServes ==
  /\ RecordedComplete
  /\ engine = "serving" /\ database => Tables /\ LookupFunction

\* A request with a key runs for a tenant that owned the key at some moment
\* while it was being looked up (the lookup is awaited), and for the tenant of
\* the fixture only if at some such moment nobody did.
ServedFairly ==
  \A q \in Requests :
    req[q].phase = "served" /\ seen[q] # {} =>
      \/ req[q].tenant \in seen[q]
      \/ req[q].tenant = FixtureOwner[req[q].key] /\ Nobody \in seen[q]

\* One engine process gives all requests of a tenant the same configuration,
\* also while administrators change it: that of its start
\* (tenant-config.service.ts), or the default for tenants that came later.
SteadyConfig ==
  \A q, other \in Requests :
    req[q].phase = "served" /\ req[other].phase = "served"
      /\ req[q].tenant = req[other].tenant
        => req[q].config = req[other].config
=============================================================================
