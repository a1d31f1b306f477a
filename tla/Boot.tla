-------------------------------- MODULE Boot --------------------------------
(***************************************************************************)
(* The start of the daemon (main.rs run): connect, apply the pending       *)
(* migrations one statement at a time, bootstrap the Master, open one      *)
(* stored secret as a canary for SYNC_ENCRYPTION_KEY, build the state, pin *)
(* the Master, load the schedules, bind.  Any error ends the process with  *)
(* exit(1), the process may be killed at any point, and the container      *)
(* starts it again, possibly with another environment.  While it serves,   *)
(* keys and vault endpoints come and go, their secrets sealed with the key *)
(* it runs with; between two starts the operator may remove the Master,    *)
(* which the next start makes anew.                                        *)
(*                                                                         *)
(* On PostgreSQL the migrator runs inside a transaction; on SQLite and     *)
(* MySQL every statement stands by itself, so a kill between two of them   *)
(* leaves a half-migrated database to the next start.                      *)
(***************************************************************************)
EXTENDS Integers, FiniteSets, Sequences

CONSTANTS
    Sources,      \* ids of external sources, and of the groups made of them
    Vaults,       \* ids of vault endpoints
    AuditRows,    \* ids of rows of audit_logs
    LogRows,      \* ids of rows of sync_logs
    Keys,         \* ids of API keys
    Ciphers,      \* well-formed values of SYNC_ENCRYPTION_KEY
    Environments, \* what the variables read at boot may be set to
    Installations,\* engine and content of the databases found by the first start
    None,         \* NULL, an unset variable, no snapshot
    MaxCrashes,   \* kills of the process
    MaxChanges    \* interventions: the environment changed, the Master removed

VARIABLES
    backend,      \* the database engine
    db,           \* what is committed: schema objects, rows, seaql_migrations
    saved,        \* the database a rollback returns to, None outside
    phase,        \* how far run() has come, "down" without a process
    at,           \* the next statement of the migration being applied
    env,          \* the environment the process was started with
    pinned,       \* MasterPin's cell
    given,        \* the database before the first start (history)
    torn,         \* a kill hit a migration outside a transaction (history)
    mixed,        \* a sealed Master stood beside secrets sealed otherwise (history)
    crashes, changes

bootVars == <<backend, db, saved, phase, at, env, pinned, given, torn, mixed, crashes, changes>>

Backend == {"sqlite", "postgres", "mysql"}
Column == {"api_key_name", "api_key_prefix", "client_ip"}
Attribution == {"recorded", "(unknown)", None}

Table == {"api_keys", "vault_endpoints", "external_sources",
          "external_source_vault_targets", "vault_sync_tasks",
          "vault_sync_task_targets", "api_key_sync_permissions", "sync_logs",
          "audit_logs", "audit_logs_rebuild", "destination_groups",
          "destination_group_vault_targets", "external_sources_rebuild"}

\* What an INSERT ... SELECT would duplicate: the primary key of a row.
PrimaryKey(t, row) ==
    IF t \in {"external_sources_rebuild", "audit_logs_rebuild"} THEN row.id ELSE row

Feed == [id : Sources, group : Sources \cup {None}]
Audit == [id : AuditRows, by : [Column -> Attribution]]
\* A signing secret is sealed with a key, or stored plain: None.
ApiKey == [id : Keys, is_master : BOOLEAN, sealed : Ciphers \cup {None}]
VaultEndpoint == [id : Vaults, sealed : Ciphers \cup {None}]

---------------------------------------------------------------------------
(* Statements.  The schema is a set of pairs <<table, object>>: the table   *)
(* itself is <<t, "table">>, the others are its indexes, and those columns  *)
(* and constraints that a migration adds or removes.                        *)

Statement(op, on, arg) == [op |-> op, on |-> on, arg |-> arg]
CreateTable(t) == Statement("create_table_if_not_exists", t, "table")
CreateIndex(t, name) == Statement("create_index", t, name)

Exists(d, t) == <<t, "table">> \in d.objects
Taken(d, name) == \E t \in Table : <<t, name>> \in d.objects

\* external_sources_definition and table_definition: the shape of a new table.
Shape(t) == {<<t, "table">>} \cup
    CASE t = "external_sources" -> {<<t, "cron_schedule">>}
      [] t = "external_sources_rebuild" -> {<<t, "destination_group_id">>}
      [] t = "audit_logs_rebuild" -> {<<t, "not_null">>}
      [] OTHER -> {}

\* The rows that the INSERT ... SELECT into t inserts.
Selected(d, t) ==
    CASE t = "destination_groups" -> {e.id : e \in d.rows["external_sources"]}
      [] t = "destination_group_vault_targets" -> d.rows["external_source_vault_targets"]
      [] t = "external_sources_rebuild" ->
            {[id |-> e.id, group |-> e.id] : e \in d.rows["external_sources"]}
      [] t = "audit_logs_rebuild" -> d.rows["audit_logs"]
      [] OTHER -> {}

Unattributed(d, col) == {r \in d.rows["audit_logs"] : r.by[col] = None}
Masters(d) == {k \in d.rows["api_keys"] : k.is_master}
Secrets(d) == {row.sealed : row \in d.rows["api_keys"] \cup d.rows["vault_endpoints"]}
\* A Master that is sealed has every other secret sealed with the same key.
SealedAlike(d) ==
    \A m \in Masters(d) : m.sealed # None => \A sealed \in Secrets(d) : sealed = m.sealed

\* Whether the engine accepts the statement.
Accepted(d, s) ==
    CASE s.op = "create_table_if_not_exists" -> TRUE
      [] s.op = "create_table" -> ~Exists(d, s.on)
      [] s.op = "create_index" -> Exists(d, s.on) /\ ~Taken(d, s.arg)
      [] s.op = "add_column" -> Exists(d, s.on) /\ <<s.on, s.arg>> \notin d.objects
      [] s.op = "drop_column" -> <<s.on, s.arg>> \in d.objects
      [] s.op = "drop_table" -> Exists(d, s.on)
      [] s.op = "rename_table" -> Exists(d, s.on) /\ ~Exists(d, s.arg)
      [] s.op = "insert_select" ->
            /\ Exists(d, s.on) /\ Exists(d, s.arg)
            /\ \A new \in Selected(d, s.on), old \in d.rows[s.on] :
                    PrimaryKey(s.on, new) # PrimaryKey(s.on, old)
            /\ s.on = "audit_logs_rebuild" => \A col \in Column : Unattributed(d, col) = {}
      [] s.op = "set_unknown" -> Exists(d, s.on)
      [] s.op = "set_group" -> <<s.on, "destination_group_id">> \in d.objects
      [] s.op = "set_not_null" ->
            /\ Exists(d, s.on)
            /\ s.on = "audit_logs" => Unattributed(d, s.arg) = {}
            /\ s.on = "external_sources" => \A e \in d.rows[s.on] : e.group # None
      [] s.op = "add_foreign_key" ->
            Exists(d, s.on) /\ {e.group : e \in d.rows[s.on]} \subseteq d.rows[s.arg]
      [] s.op = "at_most_one_master" -> Exists(d, s.on) /\ Cardinality(Masters(d)) <= 1

\* The schema after the statement.  Dropping a table, or the columns that
\* moved to the group, drops the indexes over them too.
MasterIndex == "idx-api_keys-master_marker"
OwnerIndex == "idx-external_sources-owner_key_id"
ObjectsAfter(d, s) ==
    CASE s.op \in {"create_table_if_not_exists", "create_table"} ->
            IF Exists(d, s.on) THEN d.objects ELSE d.objects \cup Shape(s.on)
      [] s.op \in {"create_index", "add_column"} -> d.objects \cup {<<s.on, s.arg>>}
      [] s.op = "drop_column" -> d.objects \ {<<s.on, s.arg>>, <<s.on, OwnerIndex>>}
      [] s.op = "drop_table" -> {o \in d.objects : o[1] # s.on}
      [] s.op = "rename_table" ->
            {IF o[1] = s.on THEN <<s.arg, o[2]>> ELSE o : o \in d.objects}
      [] s.op = "set_not_null" /\ s.arg = "client_ip" -> d.objects \cup {<<s.on, "not_null">>}
      [] OTHER -> d.objects

\* SQLite deletes the rows of a table it drops, with foreign_keys on: the old
\* targets go with their sources.
Cascade(t) == {t} \cup
    IF t = "external_sources" THEN {"external_source_vault_targets"} ELSE {}

\* The rows after the statement.
RowsAfter(d, s) ==
    CASE s.op = "insert_select" -> [d.rows EXCEPT ![s.on] = @ \cup Selected(d, s.on)]
      [] s.op = "drop_table" ->
            [t \in Table |-> IF t \in Cascade(s.on) THEN {} ELSE d.rows[t]]
      [] s.op = "rename_table" -> [d.rows EXCEPT ![s.arg] = d.rows[s.on], ![s.on] = {}]
      [] s.op = "set_unknown" ->
            [d.rows EXCEPT ![s.on] = {IF r.by[s.arg] = None
                                      THEN [r EXCEPT !.by[s.arg] = "(unknown)"]
                                      ELSE r : r \in @}]
      [] s.op = "set_group" ->
            [d.rows EXCEPT ![s.on] = {[id |-> e.id, group |-> e.id] : e \in @}]
      [] OTHER -> d.rows

Executed(d, s) == [d EXCEPT !.objects = ObjectsAfter(d, s), !.rows = RowsAfter(d, s)]

---------------------------------------------------------------------------
(* The migrations, in the order of Migrator::migrations().                  *)

KeyAndVaultTables ==
    << CreateTable("api_keys"),
       CreateIndex("api_keys", "idx-api_keys-prefix"),
       CreateIndex("api_keys", "idx-api_keys-parent_key_id"),
       CreateTable("vault_endpoints"),
       CreateIndex("vault_endpoints", "idx-vault_endpoints-owner_key_id") >>
SourceAndTaskTables ==
    << CreateTable("external_sources"),
       CreateIndex("external_sources", OwnerIndex),
       CreateTable("external_source_vault_targets"),
       CreateTable("vault_sync_tasks"),
       CreateIndex("vault_sync_tasks", "idx-vault_sync_tasks-owner_key_id"),
       CreateTable("vault_sync_task_targets") >>
PermissionAndLogTables ==
    << CreateTable("api_key_sync_permissions"),
       CreateIndex("api_key_sync_permissions", "idx-api_key_sync_permissions-unique"),
       CreateTable("sync_logs"),
       CreateIndex("sync_logs", "idx-sync_logs-job_type_job_id"),
       CreateIndex("sync_logs", "idx-sync_logs-timestamp"),
       CreateTable("audit_logs"),
       CreateIndex("audit_logs", "idx-audit_logs-action_timestamp") >>
InitialSchema == KeyAndVaultTables \o SourceAndTaskTables \o PermissionAndLogTables

(* Plausible defects of the definitions below, for mutation. *)
BadMigrateExistingRowsIntoGroups ==
    << Statement("insert_select", "destination_groups", "external_sources") >>

DeriveMasterMarker ==
    << Statement("at_most_one_master", "api_keys", "is_master"),
       Statement("add_column", "api_keys", "master_marker"),
       CreateIndex("api_keys", MasterIndex) >>

Backfill ==
    << Statement("set_unknown", "audit_logs", "api_key_name"),
       Statement("set_unknown", "audit_logs", "api_key_prefix"),
       Statement("set_unknown", "audit_logs", "client_ip") >>

(* Plausible defects of the definitions below, for mutation. *)
BadRebuild ==
    << Statement("create_table", "audit_logs_rebuild", "table"),
       Statement("drop_table", "audit_logs", "table"),
       Statement("insert_select", "audit_logs_rebuild", "audit_logs"),
       Statement("rename_table", "audit_logs_rebuild", "audit_logs"),
       CreateIndex("audit_logs", "idx-audit_logs-action_timestamp") >>

Rebuild ==
    << Statement("create_table", "audit_logs_rebuild", "table"),
       Statement("insert_select", "audit_logs_rebuild", "audit_logs"),
       Statement("drop_table", "audit_logs", "table"),
       Statement("rename_table", "audit_logs_rebuild", "audit_logs"),
       CreateIndex("audit_logs", "idx-audit_logs-action_timestamp") >>

AuditAttributionNotNull(b) == Backfill \o
    IF b = "sqlite" THEN Rebuild
    ELSE << Statement("set_not_null", "audit_logs", "api_key_name"),
            Statement("set_not_null", "audit_logs", "api_key_prefix"),
            Statement("set_not_null", "audit_logs", "client_ip") >>

CreateGroups ==
    << CreateTable("destination_groups"),
       CreateIndex("destination_groups", "idx-destination_groups-owner_key_id"),
       CreateTable("destination_group_vault_targets") >>

MigrateExistingRowsIntoGroups ==
    << Statement("insert_select", "destination_groups", "external_sources"),
       Statement("insert_select", "destination_group_vault_targets",
                 "external_source_vault_targets") >>

RebuildExternalSourcesSqlite ==
    << Statement("create_table", "external_sources_rebuild", "table"),
       Statement("insert_select", "external_sources_rebuild", "external_sources"),
       Statement("drop_table", "external_sources", "table"),
       Statement("rename_table", "external_sources_rebuild", "external_sources") >>

AlterExternalSourcesDirectly ==
    << Statement("add_column", "external_sources", "destination_group_id"),
       Statement("set_group", "external_sources", "destination_group_id"),
       Statement("set_not_null", "external_sources", "destination_group_id"),
       Statement("add_foreign_key", "external_sources", "destination_groups"),
       Statement("drop_column", "external_sources", "cron_schedule") >>

DestinationGroups(b) ==
    CreateGroups \o MigrateExistingRowsIntoGroups
    \o (IF b = "sqlite" THEN RebuildExternalSourcesSqlite
                        ELSE AlterExternalSourcesDirectly)
    \o << Statement("drop_table", "external_source_vault_targets", "table") >>

VaultSyncTaskBogonFiltering ==
    << Statement("add_column", "vault_sync_tasks", "skip_bogon_filtering") >>

Migrations(b) == << InitialSchema, DeriveMasterMarker, AuditAttributionNotNull(b),
                    DestinationGroups(b), VaultSyncTaskBogonFiltering >>
Latest == 5

---------------------------------------------------------------------------
(* run().                                                                   *)

Environment == [cipher : Ciphers \cup {None, "malformed"},
                initial_master_key_ok : BOOLEAN, trusted_proxies_ok : BOOLEAN]

\* SecretCipher::open: a plain envelope opens under every configuration, a
\* sealed one under the key it was sealed with.
Opens(cipher, sealed) == sealed \in {None, cipher}

\* What the rows say, in either shape: a source of the old schema is its own
\* group.
FeedsIn(rows) == {[id |-> e.id, group |-> IF e.group = None THEN e.id ELSE e.group] :
                  e \in rows}
Flat(d) == <<"external_sources", "cron_schedule">> \in d.objects
FeedsOf(d) == FeedsIn(d.rows["external_sources"])
GroupsOf(d) == IF Flat(d) THEN {e.id : e \in d.rows["external_sources"]}
               ELSE d.rows["destination_groups"]
TargetsOf(d) == d.rows["external_source_vault_targets"]
                \cup d.rows["destination_group_vault_targets"]
Content(d) == [feeds |-> FeedsOf(d), groups |-> GroupsOf(d), targets |-> TargetsOf(d),
               trail |-> d.rows["audit_logs"]]

CanBootstrap(e) == e.initial_master_key_ok /\ e.cipher # "malformed"
FreeKeys == {k \in Keys : \A row \in db.rows["api_keys"] : row.id # k}
BadMasterAccepted == FreeKeys # {}   \* the index created without UNIQUE, for mutation
MasterAccepted == ~Taken(db, MasterIndex) \/ Masters(db) = {}
FreeVaults == {v \in Vaults : \A row \in db.rows["vault_endpoints"] : row.id # v}
WithMaster(k, cipher) ==
    [db EXCEPT !.rows["api_keys"] = @ \cup
        {[id |-> k, is_master |-> TRUE, sealed |-> cipher]}]

RowOf(t) ==
    CASE t \in {"external_sources", "external_sources_rebuild"} -> Feed
      [] t = "destination_groups" -> Sources
      [] t \in {"external_source_vault_targets", "destination_group_vault_targets"} ->
            Sources \X Vaults
      [] t \in {"audit_logs", "audit_logs_rebuild"} -> Audit
      [] t = "sync_logs" -> LogRows
      [] t = "api_keys" -> ApiKey
      [] t = "vault_endpoints" -> VaultEndpoint
      [] OTHER -> {}
IsDatabase(d) ==
    /\ DOMAIN d = {"objects", "rows", "applied"} /\ DOMAIN d.rows = Table
    /\ \A o \in d.objects : o = <<o[1], o[2]>> /\ o[1] \in Table
    /\ \A t \in Table : d.rows[t] \subseteq RowOf(t)
    /\ d.applied \in 0..Latest

\* The databases an earlier version leaves, or none: between two migrations,
\* without rows before the first.  Two Masters are possible until the marker is
\* derived; there may be none beside the keys it made, and the secrets may be
\* sealed with any keys.
Installed(d) ==
    /\ IsFiniteSet(d.rows["api_keys"])
    /\ d.applied = 0 => \A t \in Table : d.rows[t] = {}
    /\ \A t \in {"external_sources_rebuild", "audit_logs_rebuild"} :
            d.rows[t] = {} /\ \A o \in d.objects : o[1] # t
    /\ \A t \in {"external_sources", "external_source_vault_targets"} :
            ~Exists(d, t) => d.rows[t] = {}
    /\ Flat(d) => Exists(d, "external_sources")
    /\ d.applied \in 1..3 => Flat(d)
    /\ d.applied <= 3 => /\ \A e \in d.rows["external_sources"] : e.group = None
                         /\ d.rows["destination_groups"] = {}
    /\ d.applied >= 4 => ~Flat(d) /\ ~Exists(d, "external_source_vault_targets")
    /\ d.applied >= 3 => \A r \in d.rows["audit_logs"] : \A col \in Column : r.by[col] # None
    /\ d.applied >= 2 => /\ <<"api_keys", MasterIndex>> \in d.objects
                         /\ Cardinality(Masters(d)) <= 1

ASSUME BootAssumption ==
    /\ \A i \in Installations :
          i.backend \in Backend /\ IsDatabase(i.db) /\ Installed(i.db)
    /\ Environments \subseteq Environment
    /\ None \notin {"recorded", "(unknown)"}

BootInit ==
    /\ \E i \in Installations : backend = i.backend /\ db = i.db
    /\ saved = None
    /\ phase = "down"
    /\ at = 1
    /\ env \in Environments
    /\ pinned = None
    /\ given = Content(db)
    /\ torn = FALSE
    /\ mixed = ~SealedAlike(db)
    /\ crashes = 0
    /\ changes = 0

(* Plausible defects of the definitions below, for mutation. *)
BadEnded ==
    /\ saved' = None
    /\ phase' = "down"
    /\ at' = 1
    /\ pinned' = None
    /\ UNCHANGED <<backend, db, env, given, mixed, changes>>

\* The process ends; an open transaction is rolled back.
Ended ==
    /\ db' = IF saved = None THEN db ELSE saved
    /\ saved' = None
    /\ phase' = "down"
    /\ at' = 1
    /\ pinned' = None
    /\ UNCHANGED <<backend, env, given, mixed, changes>>

\* An error of run(): main logs it and calls exit(1).
Exit == Ended /\ UNCHANGED <<torn, crashes>>

(* Plausible defects of the definitions below, for mutation. *)
BadRefused ==
    /\ phase = "migrate"
    /\ db.applied < Latest
    /\ at <= Len(Migrations(backend)[db.applied + 1])
    /\ ~Accepted(db, Migrations(backend)[db.applied + 1][at])
    /\ phase' = "bootstrap"
    /\ saved' = None
    /\ at' = 1
    /\ UNCHANGED <<backend, db, env, pinned, given, torn, mixed, crashes, changes>>
BadVerifyEncryptionKey ==
    /\ phase = "canary"
    /\ \/ /\ env.cipher # "malformed"
          /\ phase' = "state"
          /\ UNCHANGED <<backend, db, saved, at, env, pinned, given, torn, mixed, crashes, changes>>
       \/ env.cipher = "malformed" /\ Exit

\* The container starts the process, with the same or an edited environment.
Start ==
    /\ phase = "down"
    /\ \E e \in Environments :
          /\ e = env \/ changes < MaxChanges
          /\ env' = e
          /\ changes' = IF e = env THEN changes ELSE changes + 1
    /\ phase' = "migrate"
    /\ saved' = IF backend = "postgres" THEN db ELSE None
    /\ UNCHANGED <<backend, db, at, pinned, given, torn, mixed, crashes>>

Current == Migrations(backend)[db.applied + 1]

\* One statement of the migration that comes next.
Execute ==
    /\ phase = "migrate"
    /\ db.applied < Latest
    /\ at <= Len(Current)
    /\ Accepted(db, Current[at])
    /\ db' = Executed(db, Current[at])
    /\ at' = at + 1
    /\ UNCHANGED <<backend, saved, phase, env, pinned, given, torn, mixed, crashes, changes>>

Refused ==
    /\ phase = "migrate"
    /\ db.applied < Latest
    /\ at <= Len(Current)
    /\ ~Accepted(db, Current[at])
    /\ Exit

\* The migrator notes the migration in seaql_migrations.  Whether it commits
\* here or only after the last one is the library's choice.
Record ==
    /\ phase = "migrate"
    /\ db.applied < Latest
    /\ at = Len(Current) + 1
    /\ db' = [db EXCEPT !.applied = @ + 1]
    /\ at' = 1
    /\ saved' \in IF saved = None THEN {None} ELSE {saved, db'}
    /\ UNCHANGED <<backend, phase, env, pinned, given, torn, mixed, crashes, changes>>

Migrated ==
    /\ phase = "migrate"
    /\ db.applied = Latest
    /\ phase' = "bootstrap"
    /\ saved' = None
    /\ UNCHANGED <<backend, db, at, env, pinned, given, torn, mixed, crashes, changes>>

Proceed(next) ==
    /\ phase' = next
    /\ UNCHANGED <<backend, saved, at, env, given, torn, mixed, crashes, changes>>

\* bootstrap_master_key counts the Masters, prepares a credential when there
\* is none, and only then inserts it.
BootstrapMasterKey ==
    /\ phase = "bootstrap"
    /\ \/ Masters(db) # {} /\ Proceed("canary") /\ UNCHANGED <<db, pinned>>
       \/ Masters(db) = {} /\ CanBootstrap(env) /\ Proceed("insert") /\ UNCHANGED <<db, pinned>>
       \/ Masters(db) = {} /\ ~CanBootstrap(env) /\ Exit

InsertMaster ==
    /\ phase = "insert"
    /\ \/ /\ MasterAccepted
          /\ \E k \in FreeKeys : db' = WithMaster(k, env.cipher)
          /\ mixed' = (mixed \/ ~SealedAlike(db'))
          /\ phase' = "canary"
          /\ UNCHANGED <<backend, saved, at, env, pinned, given, torn, crashes, changes>>
       \/ ~MasterAccepted /\ Exit

\* Another daemon on the same, migrated database may insert its Master first.
OtherDaemonBootstraps ==
    /\ phase \in {"bootstrap", "insert"}
    /\ db.applied = Latest
    /\ Masters(db) = {}
    /\ \E k \in FreeKeys, e \in Environments :
          CanBootstrap(e) /\ db' = WithMaster(k, e.cipher)
    /\ mixed' = (mixed \/ ~SealedAlike(db'))
    /\ UNCHANGED <<backend, saved, phase, at, env, pinned, given, torn, crashes, changes>>

\* verify_encryption_key: one key of api_keys, whichever the engine returns
\* first.  Every key holds a secret and by now there is a Master, so the branch
\* without a sample is never taken.
VerifyEncryptionKey ==
    /\ phase = "canary"
    /\ \E sample \in db.rows["api_keys"] :
          \/ /\ env.cipher # "malformed" /\ Opens(env.cipher, sample.sealed)
             /\ Proceed("state") /\ UNCHANGED <<db, pinned>>
          \/ /\ env.cipher = "malformed" \/ ~Opens(env.cipher, sample.sealed)
             /\ Exit

\* setup_state: the second variable that is a security boundary.
SetupState ==
    /\ phase = "state"
    /\ \/ env.trusted_proxies_ok /\ Proceed("pin") /\ UNCHANGED <<db, pinned>>
       \/ ~env.trusted_proxies_ok /\ Exit

\* MasterPin::pin_at_boot.
PinAtBoot ==
    /\ phase = "pin"
    /\ LET unique == Taken(db, MasterIndex)
       IN \/ /\ unique
             /\ \E only \in Masters(db) :
                   Masters(db) = {only} /\ pinned' = only.id
             /\ Proceed("schedule") /\ UNCHANGED db
          \/ /\ ~unique \/ Cardinality(Masters(db)) # 1
             /\ Exit

\* scheduler.boot, and the retention worker is spawned.
BootScheduler ==
    /\ phase = "schedule"
    /\ Proceed("bind") /\ UNCHANGED <<db, pinned>>

\* TcpListener::bind.
Bind ==
    /\ phase = "bind"
    /\ Proceed("serving") /\ UNCHANGED <<db, pinned>>

\* A request of a serving process that changes rows of table t.
Writes(t, rows) ==
    /\ phase = "serving"
    /\ db' = [db EXCEPT !.rows[t] = rows]
    /\ UNCHANGED <<backend, saved, phase, at, env, pinned, given, torn, mixed, crashes, changes>>

\* Keys made, re-sealed and removed through the API; the Master is neither
\* rotated nor deleted.
CreateKey ==
    \E k \in FreeKeys :
        Writes("api_keys", db.rows["api_keys"]
                           \cup {[id |-> k, is_master |-> FALSE, sealed |-> env.cipher]})

RotateSecret ==
    \E row \in db.rows["api_keys"] \ Masters(db) :
        Writes("api_keys", (db.rows["api_keys"] \ {row})
                           \cup {[row EXCEPT !.sealed = env.cipher]})

DeleteKey ==
    \E row \in db.rows["api_keys"] \ Masters(db) :
        Writes("api_keys", db.rows["api_keys"] \ {row})

\* Vault endpoints: created, given a new secret, deleted with what names them.
CreateVault ==
    \E v \in FreeVaults :
        Writes("vault_endpoints", db.rows["vault_endpoints"]
                                  \cup {[id |-> v, sealed |-> env.cipher]})

UpdateVault ==
    \E row \in db.rows["vault_endpoints"] :
        Writes("vault_endpoints", (db.rows["vault_endpoints"] \ {row})
                                  \cup {[row EXCEPT !.sealed = env.cipher]})

NotTo(v, targets) == {x \in targets : x[2] # v}
DeleteVault ==
    /\ phase = "serving"
    /\ \E row \in db.rows["vault_endpoints"] :
          /\ db' = [db EXCEPT !.rows["vault_endpoints"] = @ \ {row},
                              !.rows["destination_group_vault_targets"] = NotTo(row.id, @)]
          /\ given' = [given EXCEPT !.targets = NotTo(row.id, @)]
    /\ UNCHANGED <<backend, saved, phase, at, env, pinned, torn, mixed, crashes, changes>>

\* Regeneration: the operator deletes the Master's row in the database while
\* the daemon is down; the next start makes another.
RemoveMaster ==
    /\ phase = "down"
    /\ changes < MaxChanges
    /\ \E m \in Masters(db) : db' = [db EXCEPT !.rows["api_keys"] = @ \ {m}]
    /\ changes' = changes + 1
    /\ UNCHANGED <<backend, saved, phase, at, env, pinned, given, torn, mixed, crashes>>

\* SIGTERM.
Stop == phase = "serving" /\ Exit

\* A kill, a lost connection, a port in use: at any point.
Crash ==
    /\ phase # "down"
    /\ crashes < MaxCrashes
    /\ crashes' = crashes + 1
    /\ torn' = (torn \/ (phase = "migrate" /\ saved = None /\ at > 1))
    /\ Ended

BootStep == \/ Start \/ Execute \/ Refused \/ Record \/ Migrated \/ BootstrapMasterKey
            \/ InsertMaster \/ VerifyEncryptionKey \/ SetupState \/ PinAtBoot
SecretStep == CreateKey \/ RotateSecret \/ DeleteKey \/ CreateVault \/ UpdateVault \/ DeleteVault
OutsideStep == OtherDaemonBootstraps \/ RemoveMaster
BootNext == \/ BootStep \/ BootScheduler \/ Bind \/ SecretStep \/ OutsideStep
            \/ Stop \/ Crash

BootSpec == BootInit /\ [][BootNext]_bootVars

---------------------------------------------------------------------------
(* Properties.                                                              *)

Phase == {"down", "migrate", "bootstrap", "insert", "canary", "state", "pin", "schedule",
          "bind", "serving"}
TypeOK ==
    /\ backend \in Backend
    /\ IsDatabase(db)
    /\ saved # None => IsDatabase(saved)
    /\ phase \in Phase
    /\ at \in 1..(IF db.applied < Latest THEN Len(Current) + 1 ELSE 1)
    /\ env \in Environments
    /\ pinned \in Keys \cup {None}
    /\ given \in [feeds : SUBSET Feed, groups : SUBSET Sources,
                  targets : SUBSET (Sources \X Vaults), trail : SUBSET Audit]
    /\ torn \in BOOLEAN
    /\ mixed \in BOOLEAN
    /\ crashes \in Nat
    /\ changes \in Nat

\* The tables hold every source's schedule, feed and targets there were.
ContentKept ==
    /\ given.feeds \subseteq FeedsIn(db.rows["external_sources"]
                                     \cup db.rows["external_sources_rebuild"])
    /\ given.groups \subseteq GroupsOf(db)
    /\ given.targets \subseteq TargetsOf(db)

\* An audit row keeps every value that was recorded; only a NULL may become
\* "(unknown)".
TrailKept ==
    \A r \in given.trail :
        \E kept \in db.rows["audit_logs"] \cup db.rows["audit_logs_rebuild"] :
            /\ kept.id = r.id
            /\ \A col \in Column : \/ kept.by[col] = r.by[col]
                                   \/ r.by[col] = None /\ kept.by[col] = "(unknown)"

\* Whatever statement the process is killed after, and however often it is
\* started again, the database still holds the sources, their schedules and
\* targets, and the audit trail that it had before the upgrade (a kill between
\* the copies, the drop, the rename and the second drop of m20260928_033617,
\* in the backfill or the rebuild of m20260818_010217, or in a transaction).
NothingLost == ContentKept /\ TrailKept

\* The process never goes on to the Master, the pin or the listener with a
\* half-migrated database: by then the rows are exactly the old content in the
\* new shape, nothing of the rebuilds is left over and no audit row lacks its
\* attribution, also when an earlier start was killed in a migration.
ServesMigrated ==
    phase \notin {"down", "migrate"} =>
        /\ Content(db).feeds = given.feeds
        /\ Content(db).groups = given.groups
        /\ Content(db).targets = given.targets
        /\ ~Flat(db)
        /\ \A t \in {"external_source_vault_targets", "external_sources_rebuild",
                     "audit_logs_rebuild"} : ~Exists(db, t)
        /\ \A col \in Column : Unattributed(db, col) = {}

\* From the migration that derives the marker on there is at most one Master:
\* a database that came with two is refused, two daemons that both find none
\* make one between them, and a serving process has pinned the Master there is,
\* whichever daemon made it and however often they are killed and started
\* (the migration's pre-flight; bootstrap_master_key counts and inserts in two
\* steps; pin_at_boot).
MasterSettled ==
    /\ db.applied >= 2 => Cardinality(Masters(db)) <= 1
    /\ phase = "serving" => \E m \in Masters(db) : pinned = m.id

\* A daemon never serves with a SYNC_ENCRYPTION_KEY that does not open all the
\* secrets at rest, of keys and of vault endpoints, whichever row the canary
\* samples and whatever the variable is changed to, also when the Master is
\* regenerated: provided that the Master is sealed at all, and that no Master
\* was made beside secrets sealed with another key.
SealedFromTheStart ==
    phase = "serving" /\ ~mixed /\ (\A m \in Masters(db) : m.sealed # None) =>
        \A sealed \in Secrets(db) : Opens(env.cipher, sealed)

\* What check_key_canary's and verify_encryption_key's comments promise: the
\* configured key is the one the data at rest was sealed under, whatever the
\* first start had and whenever the Master was made.
CanaryProves ==
    phase = "serving" => \A sealed \in Secrets(db) : Opens(env.cipher, sealed)

---------------------------------------------------------------------------
(* The inductive invariant.  What a database has to be like for the next    *)
(* start, however the last one ended: Sound.  What the statements executed  *)
(* since the start have added: Progress.                                    *)

Ids(feeds) == {e.id : e \in feeds}
Keeps(rows, trail) ==
    \A r \in trail : \E kept \in rows :
        /\ kept.id = r.id
        /\ \A col \in Column : \/ kept.by[col] = r.by[col]
                               \/ r.by[col] = None /\ kept.by[col] = "(unknown)"
Attributed(rows) == \A r \in rows : \A col \in Column : r.by[col] # None

\* A table that is not there has no rows; what each finished migration removed
\* is gone and what it added is there.
SchemaInv(b, d) ==
    /\ \A t \in {"external_sources", "external_source_vault_targets",
                 "external_sources_rebuild", "audit_logs_rebuild"} :
            ~Exists(d, t) => d.rows[t] = {}
    /\ Flat(d) => Exists(d, "external_sources")
    /\ <<"external_sources_rebuild", "cron_schedule">> \notin d.objects
    /\ b # "sqlite" \/ d.applied >= 3 => ~Exists(d, "audit_logs_rebuild")
    /\ b # "sqlite" \/ d.applied >= 4 => ~Exists(d, "external_sources_rebuild")
    /\ d.applied >= 4 => ~Exists(d, "external_source_vault_targets") /\ ~Flat(d)

\* Before the groups migration a source is its own group and a rebuild holds
\* sources only; after it the rows are the content itself.
ContentInv(d, g) ==
    /\ d.applied = 0 => g.groups = {} /\ g.targets = {} /\ g.trail = {}
    /\ d.rows["external_source_vault_targets"]
       \cup d.rows["destination_group_vault_targets"] = g.targets
    /\ d.applied <= 3 =>
          /\ g.feeds = {[id |-> s, group |-> s] : s \in g.groups}
          /\ \A e \in d.rows["external_sources"] \cup d.rows["external_sources_rebuild"] :
                e.id \in g.groups /\ e.group \in {None, e.id}
          /\ \A s \in g.groups :
                \E e \in d.rows["external_sources"] \cup d.rows["external_sources_rebuild"] :
                    e.id = s
          /\ d.rows["destination_groups"] \subseteq g.groups
          /\ IF Flat(d) THEN g.groups \subseteq Ids(d.rows["external_sources"])
                        ELSE g.groups \subseteq d.rows["destination_groups"]
    /\ d.applied >= 4 =>
          /\ FeedsOf(d) = g.feeds
          /\ d.rows["destination_groups"] = g.groups

AuditInv(d, g) ==
    /\ Keeps(d.rows["audit_logs"] \cup d.rows["audit_logs_rebuild"], g.trail)
    /\ Attributed(d.rows["audit_logs_rebuild"])
    /\ d.applied >= 3 => Attributed(d.rows["audit_logs"])

\* The marker keeps a second Master out.
KeyInv(d) ==
    /\ IsFiniteSet(d.rows["api_keys"])
    /\ d.applied >= 2 => /\ <<"api_keys", MasterIndex>> \in d.objects
                         /\ Cardinality(Masters(d)) <= 1

Sound(b, d, g) == SchemaInv(b, d) /\ ContentInv(d, g) /\ AuditInv(d, g) /\ KeyInv(d)

\* Before statement n of the migration that derives the marker.
MarkerProgress(d, n) ==
    /\ n > 1 => Cardinality(Masters(d)) <= 1
    /\ n > 3 => <<"api_keys", MasterIndex>> \in d.objects

\* Of the audit migration.
AuditProgress(b, d, n, g) ==
    /\ n > 1 => Unattributed(d, "api_key_name") = {}
    /\ n > 2 => Unattributed(d, "api_key_prefix") = {}
    /\ n > 3 => Unattributed(d, "client_ip") = {}
    /\ b = "sqlite" /\ n \in 6..7 => Keeps(d.rows["audit_logs_rebuild"], g.trail)
    /\ b = "sqlite" /\ n > 7 => ~Exists(d, "audit_logs_rebuild")

\* Of the groups migration.
GroupProgress(b, d, n, g) ==
    /\ n > 4 => g.groups \subseteq d.rows["destination_groups"]
    /\ n > 5 => d.rows["external_source_vault_targets"]
                \subseteq d.rows["destination_group_vault_targets"]
    /\ b = "sqlite" =>
          /\ n \in 8..9 => g.groups \subseteq Ids(d.rows["external_sources_rebuild"])
          /\ n > 8 => ~Flat(d)
          /\ n > 9 => ~Exists(d, "external_sources_rebuild")
          /\ n > 10 => ~Exists(d, "external_source_vault_targets")
    /\ b # "sqlite" =>
          /\ n > 10 => ~Flat(d)
          /\ n > 11 => ~Exists(d, "external_source_vault_targets")

Progress(b, d, n, g) ==
    /\ d.applied = 1 => MarkerProgress(d, n)
    /\ d.applied = 2 => AuditProgress(b, d, n, g)
    /\ d.applied = 3 => GroupProgress(b, d, n, g)

\* What run() has established on the way to the listener.
RunInv ==
    /\ phase # "migrate" => saved = None
    /\ phase = "down" => at = 1
    /\ phase \notin {"down", "migrate"} => db.applied = Latest
    /\ phase = "insert" => CanBootstrap(env)
    /\ phase \in {"canary", "state", "pin", "schedule", "bind", "serving"} => Masters(db) # {}
    /\ phase \in {"state", "pin", "schedule", "bind", "serving"} =>
          /\ env.cipher # "malformed"
          /\ ~mixed => \A m \in Masters(db) : m.sealed # None => env.cipher = m.sealed
    /\ phase \in {"schedule", "bind", "serving"} =>
          \E m \in Masters(db) : Masters(db) = {m} /\ pinned = m.id

\* As long as no Master was made beside secrets sealed otherwise, they are
\* sealed alike, in what is committed and in what a rollback returns to.
SealInv == ~mixed => SealedAlike(db) /\ (saved # None => SealedAlike(saved))

BootInv ==
    /\ TypeOK
    /\ Sound(backend, db, given)
    /\ Progress(backend, db, at, given)
    /\ saved # None => Sound(backend, saved, given)
    /\ SealInv
    /\ RunInv
=============================================================================
