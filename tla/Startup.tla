-------------------------------- MODULE Startup --------------------------------
(***************************************************************************)
(* How the API process comes up (services/api/src/main.rs, config.rs,      *)
(* startup.rs, state.rs): the settings are checked, the database is        *)
(* connected and migrated, the application state is built, and the         *)
(* listener is bound.  Any of these may end the process; the database may  *)
(* go and come back at any time.                                           *)
(***************************************************************************)

VARIABLES
  process,   \* the step of main the process has completed, or "down"
  config,    \* the part of AppConfig later steps look at
  pool,      \* TRUE if the process has a PgPool; otherwise its stores are in memory
  database   \* TRUE while PostgreSQL can be reached

startupVars == <<process, config, pool, database>>

-------------------------------------------------------------------------------
(***************************************************************************)
(* AppConfig::from_iter.  A setting is known by what its checks tell       *)
(* apart.  White space alone is "absent" for a host, a port, a secret, a   *)
(* mint URL and the database URL; for the environment and the provider     *)
(* mode it is "unknown", a problem like every other unexpected text.       *)
(***************************************************************************)
Settings ==
  [environment : {"absent", "unknown", "development", "test", "production"},
   host        : {"absent", "present"},
   port        : {"absent", "invalid", "present"},
   database_url : BOOLEAN,
   jwt_secret  : {"absent", "short", "development", "strong"},
   mint_url    : {"absent", "http", "https"},
   provider    : {"absent", "unknown", "mock", "production"},
   origins     : SUBSET {"wildcard", "http", "https", "invalid"}]

\* Mutant: production settings may leave the providers to their default.
AcceptedWithAnyProvider(s) ==
  /\ s.environment \notin {"absent", "unknown"}
  /\ s.port # "invalid" /\ s.provider # "unknown" /\ "invalid" \notin s.origins
  /\ s.environment = "production" =>
       /\ s.host = "present" /\ s.port = "present" /\ s.database_url
       /\ s.jwt_secret = "strong" /\ s.mint_url = "https" /\ s.origins = {"https"}

\* No problem is found.  Outside production a default stands in for what is
\* absent and the wildcard origin is accepted.
Accepted(s) ==
  /\ s.environment \notin {"absent", "unknown"}
  /\ s.port # "invalid" /\ s.provider # "unknown" /\ "invalid" \notin s.origins
  /\ s.environment = "production" =>
       /\ s.host = "present" /\ s.port = "present" /\ s.database_url
       /\ s.jwt_secret = "strong" /\ s.mint_url = "https" /\ s.origins = {"https"}
       /\ s.provider = "production"

ConfigOf(s) ==
  [environment |-> s.environment, database_url |-> s.database_url,
   provider_mode |-> IF s.provider = "production" THEN "production" ELSE "mock"]

AcceptedConfigs == {ConfigOf(s) : s \in {t \in Settings : Accepted(t)}}

Configs == [environment : {"development", "test", "production"}, database_url : BOOLEAN,
            provider_mode : {"mock", "production"}]

NoConfig == [environment |-> "development", database_url |-> FALSE, provider_mode |-> "mock"]

StartupInit ==
  /\ process = "down" /\ config = NoConfig /\ pool = FALSE
  /\ database \in BOOLEAN

IsProduction == config.environment = "production"

-------------------------------------------------------------------------------
\* main reads accepted settings; any other end the process here.
Configure(c) ==
  /\ process = "down"
  /\ process' = "configured" /\ config' = c
  /\ UNCHANGED <<pool, database>>

\* main gives up: an error is returned.
Exit ==
  /\ process' = "down" /\ config' = NoConfig /\ pool' = FALSE
  /\ UNCHANGED database

\* connect_database: without a URL there is no pool.
SkipDatabase ==
  /\ process = "configured" /\ ~config.database_url
  /\ process' = "connected"
  /\ UNCHANGED <<config, pool, database>>

\* The database is connected and the migrations are applied.
ConnectDatabase ==
  /\ process = "configured" /\ config.database_url /\ database
  /\ process' = "connected" /\ pool' = TRUE
  /\ UNCHANGED <<config, database>>

\* The connection or a migration fails, which a reachable database does not rule
\* out.  Production ends; any other environment goes on in memory.
FailDatabase ==
  /\ process = "configured" /\ config.database_url
  /\ IF IsProduction
     THEN Exit
     ELSE process' = "connected" /\ UNCHANGED <<config, pool, database>>

\* What AppState::try_new refuses.
StateRefused == (IsProduction /\ ~pool) \/ config.provider_mode = "production"

\* AppState::try_new.
BuildState ==
  /\ process = "connected"
  /\ IF StateRefused
     THEN Exit
     ELSE process' = "built" /\ UNCHANGED <<config, pool, database>>

\* TcpListener::bind, then axum::serve.
Listen ==
  /\ process = "built"
  /\ process' = "serving"
  /\ UNCHANGED <<config, pool, database>>

\* The address is taken, or the process is stopped or killed.
Stop == process # "down" /\ Exit

DatabaseChanges == database' = ~database /\ UNCHANGED <<process, config, pool>>

StartupNext ==
  \/ \E c \in AcceptedConfigs : Configure(c)
  \/ SkipDatabase \/ ConnectDatabase \/ FailDatabase \/ BuildState \/ Listen
  \/ DatabaseChanges

StartupTypeOK ==
  /\ process \in {"down", "configured", "connected", "built", "serving"}
  /\ config \in Configs
  /\ pool \in BOOLEAN /\ database \in BOOLEAN

-------------------------------------------------------------------------------
\* AppState::try_new: "The current provider adapters are deterministic mocks, so
\* they are deliberately unavailable to a production process".  The settings of
\* production demand production providers and the state refuses those, so no path
\* through the settings, the database and its failures leads to a production
\* process that serves mocks; and none falls back to memory.
NoMockServesProduction == process \in {"built", "serving"} => ~IsProduction

-------------------------------------------------------------------------------
(***************************************************************************)
(* The inductive invariant behind the safety property.                     *)
(***************************************************************************)

\* The settings of a production process demand the providers it cannot have.
StartupIInv ==
  /\ StartupTypeOK
  /\ IsProduction => config.provider_mode = "production"
  /\ NoMockServesProduction
==============================================================================
