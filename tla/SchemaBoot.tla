------------------------------ MODULE SchemaBoot ----------------------------
(* seedDefaults of lib/db.js: every boot of the panel, and the installer's   *)
(* bootstrap, bring the database to the present schema statement by          *)
(* statement.  The installer runs beside a panel that may be serving, booting *)
(* or crashing; systemd starts a panel that ended.                           *)
EXTENDS Integers, Sequences

CONSTANTS
  CustomerLines,   \* rows of `lines`
  SavedKeys        \* settings administrators save

VARIABLES
  relations, columns,   \* of the schema
  settings,          \* key -> value
  seeds,             \* table -> number of rows the seed has put there
  account,           \* line -> its password columns
  boots              \* process -> statement it is at and what it has read

sbVars == <<relations, columns, settings, seeds, account, boots>>

----------------------------------------------------------------------------
(* Statements, in the order of seedDefaults                                  *)

\* CREATE TABLE IF NOT EXISTS and the like; those in a row stand as one.
CreateTables(ts) == <<[do |-> "create", of |-> ts]>>
\* Look whether the column is there, then add it; on an error "Duplicate column"
\* skip `skip` more statements.
ColumnOr(c, skip) == <<[do |-> "look", of |-> {c}], [do |-> "alter", of |-> c, skip |-> skip]>>
AddColumn(c) == ColumnOr(c, 0)
Default(k) == <<[do |-> "find", of |-> k], [do |-> "insert", of |-> k]>>
SeedRows(t, unique) ==
  <<[do |-> "count", of |-> t], [do |-> "seed", of |-> t, nth |-> 1, unique |-> unique],
    [do |-> "seed", of |-> t, nth |-> 2, unique |-> unique]>>

EnsureUsersNotesColumn == AddColumn("users.notes")
EnsureUserGroupsManageExpiryMediaColumn == AddColumn("user_groups.manage_expiry_media")
EnsureImportProvidersTable == {"import_providers"}
EnsureAccessCodesTable == {"access_codes"}
\* One query for both columns, and nothing catches a duplicate.
EnsureLinePasswordSecurityColumns ==
  <<[do |-> "look", of |-> {"lines.password_hash", "lines.password_enc"}],
    [do |-> "alterOrFail", of |-> "lines.password_hash"],
    [do |-> "alterOrFail", of |-> "lines.password_enc"]>>
MigrateLegacyLinePasswords == <<[do |-> "readLines"], [do |-> "migrate"]>>
EnsurePackagesOptionsJsonColumn == AddColumn("packages.options_json")
\* One handler around the loop: a duplicate for movies leaves series out.
EnsureMoviesSeriesStreamServerIdColumns ==
  ColumnOr("movies.stream_server_id", 2) \o AddColumn("series.stream_server_id")
\* MODIFY: as often as one likes.
EnsureReleaseDateColumnsWide == {"movies.release_date", "series.release_date"}
\* Columns added by one loop stand as one.
StreamingServers == {"streaming_servers"}
EnsureStreamingServersTables ==
  AddColumn("streaming_servers.runtime_enabled")
  \o CreateTables({"streaming_server_domains"}) \o AddColumn("streaming_server_domains.ssl_port")
EnsureServerProvisioningJobsTable == {"server_provisioning_jobs"}
EnsureEpisodesStreamServerIdColumn == AddColumn("episodes.stream_server_id")
EnsureServerRelationshipsTable == {"server_relationships"}
StreamServerPlacement == {"stream_server_placement"}
EnsureStreamServerPlacementTable == AddColumn("stream_server_placement.runtime_mode")
EnsureLineRuntimeSessionsTable == {"line_runtime_sessions"}
EnsureServerCommandsTable == {"server_commands"}
EnsureServerAgentCredentialsTable == {"server_agent_credentials"}
EnsureDefaultStreamServerIdSetting == Default("default_stream_server_id")
\* Keys set by one loop stand as one.
EnsureStreamingPerformanceDefaults == Default("streaming_ingest_style")
EnsureRolesPermissionsTables == {"roles", "permissions", "role_permissions"}
EnsureAdminFeatureTables ==
  CreateTables({"backups", "blocked_asns", "login_events", "plex_servers"}
         \cup EnsureRolesPermissionsTables)
EnsureAdminFeatureSettingsDefaults == Default("enable_vpn_detection")
EnsureResellerPackageOverridesTable == {"reseller_package_overrides"}
EnsureResellerExpiryMediaTables ==
  {"reseller_expiry_media_services", "reseller_expiry_media_items"}
EnsureSettingsParityDefaults == Default("service_logo_url")
SeedTables ==
  SeedRows("user_groups", FALSE) \o SeedRows("output_formats", TRUE)
  \o SeedRows("stream_arguments", TRUE) \o <<[do |-> "seedSettings"]>>
  \o SeedRows("access_codes", TRUE)

Program ==
  EnsureUsersNotesColumn \o EnsureUserGroupsManageExpiryMediaColumn
  \o CreateTables(EnsureImportProvidersTable \cup EnsureAccessCodesTable)
  \o EnsureLinePasswordSecurityColumns \o MigrateLegacyLinePasswords
  \o EnsurePackagesOptionsJsonColumn \o EnsureMoviesSeriesStreamServerIdColumns
  \o CreateTables(EnsureReleaseDateColumnsWide \cup StreamingServers) \o EnsureStreamingServersTables
  \o CreateTables(EnsureServerProvisioningJobsTable) \o EnsureEpisodesStreamServerIdColumn
  \o CreateTables(EnsureServerRelationshipsTable \cup StreamServerPlacement)
  \o EnsureStreamServerPlacementTable
  \o CreateTables(EnsureLineRuntimeSessionsTable \cup EnsureServerCommandsTable
            \cup EnsureServerAgentCredentialsTable)
  \o EnsureDefaultStreamServerIdSetting \o EnsureStreamingPerformanceDefaults
  \o EnsureAdminFeatureTables \o EnsureAdminFeatureSettingsDefaults
  \o CreateTables(EnsureResellerPackageOverridesTable \cup EnsureResellerExpiryMediaTables)
  \o EnsureSettingsParityDefaults \o SeedTables

AllOf(kinds) == {Program[i].of : i \in {j \in DOMAIN Program : Program[j].do \in kinds}}
AllTables == UNION AllOf({"create"})
AllColumns == AllOf({"alter", "alterOrFail"})
AllKeys == AllOf({"insert"}) \cup {"server_name"}
SeedNames == AllOf({"count"})

----------------------------------------------------------------------------

Processes == {"panel", "installer"}
Passwords == {"p0", "p1", "p2"}
Absent == "none"
\* password, and what password_hash verifies and password_enc decrypts to.
AccountType == [plain : Passwords \cup {Absent}, hash : Passwords \cup {Absent},
                enc : Passwords \cup {Absent}]
\* pc 0: not running; saw: what the last query found; rows: lines to migrate.
Idle == [pc |-> 0, saw |-> {}, rows |-> {}]
Done == Len(Program) + 1
Serving == boots["panel"].pc = Done

SbTypeOK ==
  /\ relations \subseteq AllTables /\ columns \subseteq AllColumns
  /\ settings \in [AllKeys -> {Absent, "default", "saved"}]
  /\ seeds \in [SeedNames -> 0..4]
  /\ account \in [CustomerLines -> AccountType]
  /\ \A p \in Processes :
       /\ boots[p].pc \in 0..Done
       /\ boots[p].saw \subseteq AllTables \cup AllColumns \cup AllKeys
       /\ boots[p].rows \subseteq CustomerLines \X AccountType

\* A hash whose cipher text is gone, or cannot be decrypted with the present key.
UnrecoverableAccount == [plain |-> Absent, hash |-> "p2", enc |-> Absent]
\* Lines of an earlier version: not migrated yet, with a cipher text or a hash
\* only, or changed by it after a migration.
OldAccounts ==
  {[plain |-> "p0", hash |-> Absent, enc |-> Absent],
   UnrecoverableAccount,
   [plain |-> Absent, hash |-> Absent, enc |-> "p0"],
   [plain |-> "p0", hash |-> "p1", enc |-> "p1"]}
NewAccount == [plain |-> Absent, hash |-> "p0", enc |-> "p0"]

\* The database is the one of an earlier version, or comes from schema.sql.
SbInit ==
  /\ boots = [p \in Processes |-> Idle]
  /\ settings = [k \in AllKeys |-> Absent]
  /\ \/ /\ relations = {} /\ columns = {}
        /\ seeds = [t \in SeedNames |-> 2]
        /\ account \in [CustomerLines -> OldAccounts]
     \/ /\ relations = AllTables /\ columns = AllColumns
        /\ seeds = [t \in SeedNames |-> 0]
        /\ account = [l \in CustomerLines |-> NewAccount]

----------------------------------------------------------------------------
(* One statement of a boot *)

At(p, kind) == /\ boots[p].pc \in 1..Len(Program) /\ Program[boots[p].pc].do = kind
Subject(p) == Program[boots[p].pc].of
GoOn(p, steps, saw) ==
  boots' = [boots EXCEPT ![p].pc = @ + steps, ![p].saw = saw]
\* seedDefaults throws: the process exits.
BootFails(p) == boots' = [boots EXCEPT ![p] = Idle]
Continue(p) == GoOn(p, 1, {})

CreateTable(p) ==
  /\ At(p, "create")
  /\ relations' = relations \cup Subject(p)
  /\ Continue(p) /\ UNCHANGED <<columns, settings, seeds, account>>

Look(p) ==
  /\ At(p, "look")
  /\ GoOn(p, 1, Subject(p) \cap columns)
  /\ UNCHANGED <<relations, columns, settings, seeds, account>>

Alter(p) ==
  /\ At(p, "alter")
  /\ LET c == Subject(p)
         duplicate == c \notin boots[p].saw /\ c \in columns
     IN /\ columns' = columns \cup {c}
        /\ GoOn(p, IF duplicate THEN 1 + Program[boots[p].pc].skip ELSE 1, {})
  /\ UNCHANGED <<relations, settings, seeds, account>>

AlterOrFail(p) ==
  /\ At(p, "alterOrFail")
  /\ LET c == Subject(p)
     IN IF c \notin boots[p].saw /\ c \in columns THEN BootFails(p) /\ UNCHANGED columns
        ELSE GoOn(p, 1, boots[p].saw) /\ columns' = columns \cup {c}
  /\ UNCHANGED <<relations, settings, seeds, account>>

NeedsMigration(r) == r.plain # Absent \/ r.hash = Absent \/ r.enc = Absent
ReadLines(p) ==
  /\ At(p, "readLines")
  /\ boots' = [boots EXCEPT ![p] =
       [pc |-> @.pc + 1, saw |-> {},
        rows |-> {<<l, account[l]>> : l \in {k \in CustomerLines : NeedsMigration(account[k])}}]]
  /\ UNCHANGED <<relations, columns, settings, seeds, account>>

RecoveredPassword(r) == IF r.plain # Absent THEN r.plain ELSE r.enc
\* Faulty variant: a hash that is there is taken to be right.
MigratedTrusting(r) ==
  [plain |-> Absent, hash |-> IF r.hash # Absent THEN r.hash ELSE RecoveredPassword(r), enc |-> RecoveredPassword(r)]
Migrated(r) ==
  [plain |-> Absent, hash |-> RecoveredPassword(r), enc |-> RecoveredPassword(r)]

\* The UPDATE of one row, by what was read of it before the hash was computed,
\* unless no password was found; the query names no order of the rows.
Migrate(p) ==
  /\ At(p, "migrate")
  /\ \/ boots[p].rows = {} /\ Continue(p) /\ UNCHANGED account
     \/ \E row \in boots[p].rows :
          /\ account' = IF RecoveredPassword(row[2]) = Absent THEN account
                        ELSE [account EXCEPT ![row[1]] = Migrated(row[2])]
          /\ boots' = [boots EXCEPT ![p].rows = @ \ {row}]
  /\ UNCHANGED <<relations, columns, settings, seeds>>

FindSetting(p) ==
  /\ At(p, "find")
  /\ GoOn(p, 1, {k \in {Subject(p)} : settings[k] # Absent})
  /\ UNCHANGED <<relations, columns, settings, seeds, account>>

\* Faulty variant: the value is upserted, as setSetting does.
DefaultSettingUpsert(p) ==
  /\ At(p, "insert")
  /\ settings' = [settings EXCEPT ![Subject(p)] =
                    IF Subject(p) \in boots[p].saw THEN @ ELSE "default"]
  /\ Continue(p)
  /\ UNCHANGED <<relations, columns, seeds, account>>
\* A plain INSERT: a key that came up meanwhile is a duplicate.
DefaultSetting(p) ==
  /\ At(p, "insert")
  /\ IF Subject(p) \in boots[p].saw THEN Continue(p) /\ UNCHANGED settings
     ELSE IF settings[Subject(p)] # Absent THEN BootFails(p) /\ UNCHANGED settings
     ELSE Continue(p) /\ settings' = [settings EXCEPT ![Subject(p)] = "default"]
  /\ UNCHANGED <<relations, columns, seeds, account>>

CountRows(p) ==
  /\ At(p, "count")
  /\ GoOn(p, IF seeds[Subject(p)] > 0 THEN 3 ELSE 1, {})
  /\ UNCHANGED <<relations, columns, settings, seeds, account>>

SeedRow(p) ==
  /\ At(p, "seed")
  /\ LET s == Program[boots[p].pc]
     IN IF s.unique /\ seeds[s.of] >= s.nth THEN BootFails(p) /\ UNCHANGED seeds
        ELSE Continue(p) /\ seeds' = [seeds EXCEPT ![s.of] = @ + 1]
  /\ UNCHANGED <<relations, columns, settings, account>>

\* The other defaults of `settings`, for a table without rows.
SeedSettings(p) ==
  /\ At(p, "seedSettings")
  /\ settings' = IF \A k \in AllKeys : settings[k] = Absent
                 THEN [settings EXCEPT !["server_name"] = "default"] ELSE settings
  /\ Continue(p) /\ UNCHANGED <<relations, columns, seeds, account>>

----------------------------------------------------------------------------
(* Processes, and a panel that serves *)

BeginBoot(p) ==
  /\ boots[p].pc = 0
  /\ boots' = [boots EXCEPT ![p].pc = 1]
  /\ UNCHANGED <<relations, columns, settings, seeds, account>>
\* A crash or a stop, before or after the boot.
EndProcess(p) ==
  /\ boots[p].pc # 0
  /\ boots' = [boots EXCEPT ![p] = Idle]
  /\ UNCHANGED <<relations, columns, settings, seeds, account>>
\* The installer restarts the panel when it is through.
RestartPanel ==
  /\ boots["installer"].pc = Done
  /\ boots' = [p \in Processes |-> Idle]
  /\ UNCHANGED <<relations, columns, settings, seeds, account>>

SetSetting(k) ==
  /\ Serving
  /\ settings' = [settings EXCEPT ![k] = "saved"]
  /\ UNCHANGED <<relations, columns, seeds, account, boots>>
UpdateLinePassword(l) ==
  /\ Serving
  /\ account' = [account EXCEPT ![l] = [plain |-> Absent, hash |-> "p1", enc |-> "p1"]]
  /\ UNCHANGED <<relations, columns, settings, seeds, boots>>

BootStep(p) ==
  \/ CreateTable(p) \/ Look(p) \/ Alter(p) \/ AlterOrFail(p) \/ ReadLines(p) \/ Migrate(p)
  \/ FindSetting(p) \/ DefaultSetting(p) \/ CountRows(p) \/ SeedRow(p) \/ SeedSettings(p)

SbNext ==
  \/ \E p \in Processes : BootStep(p) \/ BeginBoot(p) \/ EndProcess(p)
  \/ RestartPanel
  \/ \E k \in SavedKeys : SetSetting(k)
  \/ \E l \in CustomerLines : UpdateLinePassword(l)

SbSpec == SbInit /\ [][SbNext]_sbVars

----------------------------------------------------------------------------
\* A panel that serves has every table and column and lines that can log in with
\* the password the panel shows for them, none of it in plain text, however often
\* boots of the panel and of the installer were interrupted or overlapped.  The
\* exceptions are the column the loop in ensureMoviesSeriesStreamServerIdColumns
\* gives up on when another boot adds that of movies first, and lines no password
\* can be recovered for, which stay as they were (db.js:535).
ServingIsReady ==
  Serving =>
    /\ relations = AllTables
    /\ AllColumns \ {"series.stream_server_id"} \subseteq columns
    /\ \A l \in CustomerLines :
         \/ /\ account[l].plain = Absent
            /\ account[l].hash = account[l].enc /\ account[l].hash # Absent
         \/ account[l] = UnrecoverableAccount

\* No boot takes a setting back that an administrator has saved, not even one that
\* looked for it before it was saved.
SettingsKept ==
  [][\A k \in AllKeys : settings[k] = "saved" => settings'[k] = "saved"]_sbVars
=============================================================================
