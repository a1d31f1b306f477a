-------------------------- MODULE RetentionProofs --------------------------
(***************************************************************************)
(* Proofs about the start of the daemon and its retention worker, for any  *)
(* database an earlier version may have left, any environments and any     *)
(* number of kills.                                                        *)
(***************************************************************************)
EXTENDS Retention, FiniteSetTheorems, SequenceTheorems, TLAPS

---------------------------------------------------------------------------
(* The statements of the migrations, by position.                           *)

LEMMA StatementFields ==
    \A s, op, on, arg :
        s = Statement(op, on, arg) => s.op = op /\ s.on = on /\ s.arg = arg
  BY DEF Statement

LEMMA Tuple567 ==
    ASSUME NEW S, NEW a1 \in S, NEW a2 \in S, NEW a3 \in S, NEW a4 \in S, NEW a5 \in S,
           NEW b1 \in S, NEW b2 \in S, NEW b3 \in S, NEW b4 \in S, NEW b5 \in S, NEW b6 \in S,
           NEW c1 \in S, NEW c2 \in S, NEW c3 \in S, NEW c4 \in S, NEW c5 \in S, NEW c6 \in S,
           NEW c7 \in S
    PROVE  LET M == <<a1, a2, a3, a4, a5>> \o <<b1, b2, b3, b4, b5, b6>>
                    \o <<c1, c2, c3, c4, c5, c6, c7>>
           IN  Len(M) = 18 /\ \A n \in 1..18 : M[n] \in S
  <1> DEFINE A == <<a1, a2, a3, a4, a5>>
             B == <<b1, b2, b3, b4, b5, b6>>
             C == <<c1, c2, c3, c4, c5, c6, c7>>
  <1>1. A \in Seq(S) /\ Len(A) = 5
    OBVIOUS
  <1>2. B \in Seq(S) /\ Len(B) = 6
    OBVIOUS
  <1>3. C \in Seq(S) /\ Len(C) = 7
    OBVIOUS
  <1> HIDE DEF A, B, C
  <1>4. A \o B \in Seq(S) /\ Len(A \o B) = Len(A) + Len(B)
    BY <1>1, <1>2, ConcatProperties, Zenon
  <1>5. (A \o B) \o C \in Seq(S) /\ Len((A \o B) \o C) = Len(A \o B) + Len(C)
    BY <1>3, <1>4, ConcatProperties, Zenon
  <1>6. Len((A \o B) \o C) = 18
    BY <1>1, <1>2, <1>3, <1>4, <1>5
  <1>7. \A n \in 1..18 : ((A \o B) \o C)[n] \in S
    BY <1>5, <1>6, ElementOfSeq
  <1> QED
    BY <1>6, <1>7 DEF A, B, C

\* The first migration makes tables and indexes, none of them a rebuild.
MadeTables == {"api_keys", "vault_endpoints", "external_sources",
               "external_source_vault_targets", "vault_sync_tasks",
               "vault_sync_task_targets", "api_key_sync_permissions", "sync_logs",
               "audit_logs"}
MadeNames == {"table", "idx-api_keys-prefix", "idx-api_keys-parent_key_id",
              "idx-vault_endpoints-owner_key_id", OwnerIndex,
              "idx-vault_sync_tasks-owner_key_id", "idx-api_key_sync_permissions-unique",
              "idx-sync_logs-job_type_job_id", "idx-sync_logs-timestamp",
              "idx-audit_logs-action_timestamp"}
Making == [op : {"create_table_if_not_exists", "create_index"},
           on : MadeTables, arg : MadeNames]

LEMMA MakingStatements ==
    ASSUME NEW t \in MadeTables, NEW name \in MadeNames
    PROVE  CreateTable(t) \in Making /\ CreateIndex(t, name) \in Making
  <1>1. "table" \in MadeNames
    BY DEF MadeNames
  <1> QED
    BY <1>1 DEF Making, CreateTable, CreateIndex, Statement

LEMMA InitialStatements ==
    /\ Len(InitialSchema) = 18
    /\ \A n \in 1..18 : InitialSchema[n] \in Making
  <1>1. /\ CreateTable("api_keys") \in Making
        /\ CreateIndex("api_keys", "idx-api_keys-prefix") \in Making
        /\ CreateIndex("api_keys", "idx-api_keys-parent_key_id") \in Making
        /\ CreateTable("vault_endpoints") \in Making
        /\ CreateIndex("vault_endpoints", "idx-vault_endpoints-owner_key_id") \in Making
    BY MakingStatements DEF MadeTables, MadeNames
  <1>2. /\ CreateTable("external_sources") \in Making
        /\ CreateIndex("external_sources", OwnerIndex) \in Making
        /\ CreateTable("external_source_vault_targets") \in Making
        /\ CreateTable("vault_sync_tasks") \in Making
        /\ CreateIndex("vault_sync_tasks", "idx-vault_sync_tasks-owner_key_id") \in Making
        /\ CreateTable("vault_sync_task_targets") \in Making
    BY MakingStatements DEF MadeTables, MadeNames
  <1>3. /\ CreateTable("api_key_sync_permissions") \in Making
        /\ CreateIndex("api_key_sync_permissions", "idx-api_key_sync_permissions-unique")
              \in Making
        /\ CreateTable("sync_logs") \in Making
        /\ CreateIndex("sync_logs", "idx-sync_logs-job_type_job_id") \in Making
        /\ CreateIndex("sync_logs", "idx-sync_logs-timestamp") \in Making
        /\ CreateTable("audit_logs") \in Making
        /\ CreateIndex("audit_logs", "idx-audit_logs-action_timestamp") \in Making
    BY MakingStatements DEF MadeTables, MadeNames
  <1> QED
    BY <1>1, <1>2, <1>3, Tuple567
       DEF InitialSchema, KeyAndVaultTables, SourceAndTaskTables, PermissionAndLogTables

LEMMA MarkerStatements ==
    /\ Len(DeriveMasterMarker) = 3
    /\ DeriveMasterMarker[1] = Statement("at_most_one_master", "api_keys", "is_master")
    /\ DeriveMasterMarker[2] = Statement("add_column", "api_keys", "master_marker")
    /\ DeriveMasterMarker[3] = CreateIndex("api_keys", MasterIndex)
  BY DEF DeriveMasterMarker

LEMMA AuditStatementsSqlite ==
    LET M == AuditAttributionNotNull("sqlite")
    IN  /\ Len(M) = 8
        /\ M[1] = Statement("set_unknown", "audit_logs", "api_key_name")
        /\ M[2] = Statement("set_unknown", "audit_logs", "api_key_prefix")
        /\ M[3] = Statement("set_unknown", "audit_logs", "client_ip")
        /\ M[4] = Statement("create_table", "audit_logs_rebuild", "table")
        /\ M[5] = Statement("insert_select", "audit_logs_rebuild", "audit_logs")
        /\ M[6] = Statement("drop_table", "audit_logs", "table")
        /\ M[7] = Statement("rename_table", "audit_logs_rebuild", "audit_logs")
        /\ M[8] = CreateIndex("audit_logs", "idx-audit_logs-action_timestamp")
  <1> DEFINE a1 == Statement("set_unknown", "audit_logs", "api_key_name")
             a2 == Statement("set_unknown", "audit_logs", "api_key_prefix")
             a3 == Statement("set_unknown", "audit_logs", "client_ip")
             b1 == Statement("create_table", "audit_logs_rebuild", "table")
             b2 == Statement("insert_select", "audit_logs_rebuild", "audit_logs")
             b3 == Statement("drop_table", "audit_logs", "table")
             b4 == Statement("rename_table", "audit_logs_rebuild", "audit_logs")
             b5 == CreateIndex("audit_logs", "idx-audit_logs-action_timestamp")
             M == AuditAttributionNotNull("sqlite")
  <1>1. M = <<a1, a2, a3>> \o <<b1, b2, b3, b4, b5>>
    BY DEF AuditAttributionNotNull, Backfill, Rebuild
  <1> HIDE DEF a1, a2, a3, b1, b2, b3, b4, b5, M
  <1>2. /\ Len(M) = 8
        /\ M[1] = a1 /\ M[2] = a2 /\ M[3] = a3 /\ M[4] = b1
        /\ M[5] = b2 /\ M[6] = b3 /\ M[7] = b4 /\ M[8] = b5
    BY <1>1
  <1> QED
    BY <1>2 DEF a1, a2, a3, b1, b2, b3, b4, b5, M

LEMMA AuditStatements ==
    ASSUME NEW b, b # "sqlite"
    PROVE  LET M == AuditAttributionNotNull(b)
           IN  /\ Len(M) = 6
               /\ M[1] = Statement("set_unknown", "audit_logs", "api_key_name")
               /\ M[2] = Statement("set_unknown", "audit_logs", "api_key_prefix")
               /\ M[3] = Statement("set_unknown", "audit_logs", "client_ip")
               /\ M[4] = Statement("set_not_null", "audit_logs", "api_key_name")
               /\ M[5] = Statement("set_not_null", "audit_logs", "api_key_prefix")
               /\ M[6] = Statement("set_not_null", "audit_logs", "client_ip")
  <1> DEFINE a1 == Statement("set_unknown", "audit_logs", "api_key_name")
             a2 == Statement("set_unknown", "audit_logs", "api_key_prefix")
             a3 == Statement("set_unknown", "audit_logs", "client_ip")
             b1 == Statement("set_not_null", "audit_logs", "api_key_name")
             b2 == Statement("set_not_null", "audit_logs", "api_key_prefix")
             b3 == Statement("set_not_null", "audit_logs", "client_ip")
             M == AuditAttributionNotNull(b)
  <1>1. M = <<a1, a2, a3>> \o <<b1, b2, b3>>
    BY DEF AuditAttributionNotNull, Backfill
  <1> HIDE DEF a1, a2, a3, b1, b2, b3, M
  <1>2. /\ Len(M) = 6
        /\ M[1] = a1 /\ M[2] = a2 /\ M[3] = a3 /\ M[4] = b1
        /\ M[5] = b2 /\ M[6] = b3
    BY <1>1
  <1> QED
    BY <1>2 DEF a1, a2, a3, b1, b2, b3, M

LEMMA GroupStatementsSqlite ==
    LET M == DestinationGroups("sqlite")
    IN  /\ Len(M) = 10
        /\ M[1] = CreateTable("destination_groups")
        /\ M[2] = CreateIndex("destination_groups", "idx-destination_groups-owner_key_id")
        /\ M[3] = CreateTable("destination_group_vault_targets")
        /\ M[4] = Statement("insert_select", "destination_groups", "external_sources")
        /\ M[5] = Statement("insert_select", "destination_group_vault_targets",
                            "external_source_vault_targets")
        /\ M[6] = Statement("create_table", "external_sources_rebuild", "table")
        /\ M[7] = Statement("insert_select", "external_sources_rebuild", "external_sources")
        /\ M[8] = Statement("drop_table", "external_sources", "table")
        /\ M[9] = Statement("rename_table", "external_sources_rebuild", "external_sources")
        /\ M[10] = Statement("drop_table", "external_source_vault_targets", "table")
  <1> DEFINE a1 == CreateTable("destination_groups")
             a2 == CreateIndex("destination_groups", "idx-destination_groups-owner_key_id")
             a3 == CreateTable("destination_group_vault_targets")
             b1 == Statement("insert_select", "destination_groups", "external_sources")
             b2 == Statement("insert_select", "destination_group_vault_targets", "external_source_vault_targets")
             c1 == Statement("create_table", "external_sources_rebuild", "table")
             c2 == Statement("insert_select", "external_sources_rebuild", "external_sources")
             c3 == Statement("drop_table", "external_sources", "table")
             c4 == Statement("rename_table", "external_sources_rebuild", "external_sources")
             d1 == Statement("drop_table", "external_source_vault_targets", "table")
             M == DestinationGroups("sqlite")
  <1>1. M = <<a1, a2, a3>> \o <<b1, b2>> \o <<c1, c2, c3, c4>> \o <<d1>>
    BY DEF DestinationGroups, CreateGroups, MigrateExistingRowsIntoGroups,
           RebuildExternalSourcesSqlite
  <1> HIDE DEF a1, a2, a3, b1, b2, c1, c2, c3, c4, d1, M
  <1>2. /\ Len(M) = 10
        /\ M[1] = a1 /\ M[2] = a2 /\ M[3] = a3 /\ M[4] = b1
        /\ M[5] = b2 /\ M[6] = c1 /\ M[7] = c2 /\ M[8] = c3
        /\ M[9] = c4 /\ M[10] = d1
    BY <1>1
  <1> QED
    BY <1>2 DEF a1, a2, a3, b1, b2, c1, c2, c3, c4, d1, M

LEMMA GroupStatements ==
    ASSUME NEW b, b # "sqlite"
    PROVE  LET M == DestinationGroups(b)
           IN  /\ Len(M) = 11
               /\ M[1] = CreateTable("destination_groups")
               /\ M[2] = CreateIndex("destination_groups",
                                     "idx-destination_groups-owner_key_id")
               /\ M[3] = CreateTable("destination_group_vault_targets")
               /\ M[4] = Statement("insert_select", "destination_groups", "external_sources")
               /\ M[5] = Statement("insert_select", "destination_group_vault_targets",
                                   "external_source_vault_targets")
               /\ M[6] = Statement("add_column", "external_sources", "destination_group_id")
               /\ M[7] = Statement("set_group", "external_sources", "destination_group_id")
               /\ M[8] = Statement("set_not_null", "external_sources", "destination_group_id")
               /\ M[9] = Statement("add_foreign_key", "external_sources",
                                   "destination_groups")
               /\ M[10] = Statement("drop_column", "external_sources", "cron_schedule")
               /\ M[11] = Statement("drop_table", "external_source_vault_targets", "table")
  <1> DEFINE a1 == CreateTable("destination_groups")
             a2 == CreateIndex("destination_groups", "idx-destination_groups-owner_key_id")
             a3 == CreateTable("destination_group_vault_targets")
             b1 == Statement("insert_select", "destination_groups", "external_sources")
             b2 == Statement("insert_select", "destination_group_vault_targets", "external_source_vault_targets")
             c1 == Statement("add_column", "external_sources", "destination_group_id")
             c2 == Statement("set_group", "external_sources", "destination_group_id")
             c3 == Statement("set_not_null", "external_sources", "destination_group_id")
             c4 == Statement("add_foreign_key", "external_sources", "destination_groups")
             c5 == Statement("drop_column", "external_sources", "cron_schedule")
             d1 == Statement("drop_table", "external_source_vault_targets", "table")
             M == DestinationGroups(b)
  <1>1. M = <<a1, a2, a3>> \o <<b1, b2>> \o <<c1, c2, c3, c4, c5>> \o <<d1>>
    BY DEF DestinationGroups, CreateGroups, MigrateExistingRowsIntoGroups,
           AlterExternalSourcesDirectly
  <1> HIDE DEF a1, a2, a3, b1, b2, c1, c2, c3, c4, c5, d1, M
  <1>2. /\ Len(M) = 11
        /\ M[1] = a1 /\ M[2] = a2 /\ M[3] = a3 /\ M[4] = b1
        /\ M[5] = b2 /\ M[6] = c1 /\ M[7] = c2 /\ M[8] = c3
        /\ M[9] = c4 /\ M[10] = c5 /\ M[11] = d1
    BY <1>1
  <1> QED
    BY <1>2 DEF a1, a2, a3, b1, b2, c1, c2, c3, c4, c5, d1, M

LEMMA FilterStatements ==
    /\ Len(VaultSyncTaskBogonFiltering) = 1
    /\ VaultSyncTaskBogonFiltering[1] =
           Statement("add_column", "vault_sync_tasks", "skip_bogon_filtering")
  BY DEF VaultSyncTaskBogonFiltering

LEMMA MigrationList ==
    ASSUME NEW b
    PROVE  /\ Migrations(b)[1] = InitialSchema
           /\ Migrations(b)[2] = DeriveMasterMarker
           /\ Migrations(b)[3] = AuditAttributionNotNull(b)
           /\ Migrations(b)[4] = DestinationGroups(b)
           /\ Migrations(b)[5] = VaultSyncTaskBogonFiltering
  BY DEF Migrations

---------------------------------------------------------------------------
(* What a statement does to a database.                                     *)

LEMMA Acceptance ==
    ASSUME NEW d, NEW s, Accepted(d, s)
    PROVE  /\ s.op = "create_table" => ~Exists(d, s.on)
           /\ s.op = "rename_table" => Exists(d, s.on) /\ ~Exists(d, s.arg)
           /\ s.op = "insert_select" =>
                 /\ Exists(d, s.on)
                 /\ s.on = "audit_logs_rebuild" => \A col \in Column : Unattributed(d, col) = {}
           /\ s.op = "at_most_one_master" => Cardinality(Masters(d)) <= 1
  <1>1. s.op = "create_table" => ~Exists(d, s.on)
    BY DEF Accepted
  <1>2. s.op = "rename_table" => Exists(d, s.on) /\ ~Exists(d, s.arg)
    BY DEF Accepted
  <1>3. s.op = "insert_select" =>
            /\ Exists(d, s.on)
            /\ s.on = "audit_logs_rebuild" => \A col \in Column : Unattributed(d, col) = {}
    BY DEF Accepted
  <1>4. s.op = "at_most_one_master" => Cardinality(Masters(d)) <= 1
    BY DEF Accepted
  <1> QED
    BY <1>1, <1>2, <1>3, <1>4

LEMMA ExecutedFields ==
    ASSUME NEW d, IsDatabase(d), NEW s
    PROVE  LET e == Executed(d, s)
           IN  /\ e.objects = ObjectsAfter(d, s) /\ e.rows = RowsAfter(d, s)
               /\ e.applied = d.applied
               /\ DOMAIN e = {"objects", "rows", "applied"}
  BY DEF Executed, IsDatabase

\* The statements that change no row and only add to the schema.
Adds(s) ==
    CASE s.op \in {"create_table_if_not_exists", "create_table"} -> Shape(s.on)
      [] s.op \in {"create_index", "add_column"} -> {<<s.on, s.arg>>}
      [] s.op \in {"set_not_null"} -> {<<s.on, "not_null">>}
      [] s.op \in {"at_most_one_master", "add_foreign_key"} -> {}
Adding == {"create_table_if_not_exists", "create_table", "create_index", "add_column",
           "set_not_null", "at_most_one_master", "add_foreign_key"}

LEMMA AddsPairs ==
    ASSUME NEW s, s.op \in Adding, s.on \in Table
    PROVE  \A o \in Adds(s) : o = <<o[1], o[2]>> /\ o[1] = s.on
  <1>1. \A o \in Shape(s.on) : o = <<o[1], o[2]>> /\ o[1] = s.on
    <2>1. \A o \in Shape(s.on) : \/ o = <<s.on, "table">>
                                 \/ o = <<s.on, "cron_schedule">>
                                 \/ o = <<s.on, "destination_group_id">>
                                 \/ o = <<s.on, "not_null">>
      BY DEF Shape
    <2>2. \A o, a, b : o = <<a, b>> => o = <<o[1], o[2]>> /\ o[1] = a
      OBVIOUS
    <2> QED
      BY <2>1, <2>2, Zenon
  <1> QED
    BY <1>1 DEF Adds, Adding

LEMMA Added ==
    ASSUME NEW d, IsDatabase(d), NEW s, s.op \in Adding, s.on \in Table
    PROVE  LET e == Executed(d, s)
           IN  /\ e.rows = d.rows /\ e.applied = d.applied
               /\ d.objects \subseteq e.objects
               /\ \A o \in e.objects : o \in d.objects \/ o \in Adds(s)
               /\ s.op \in {"create_index", "add_column"} => <<s.on, s.arg>> \in e.objects
               /\ s.op \in {"create_table_if_not_exists", "create_table"} => Exists(e, s.on)
               /\ \A t, name : t # s.on => (<<t, name>> \in e.objects <=> <<t, name>> \in d.objects)
               /\ IsDatabase(e)
  <1> DEFINE e == Executed(d, s)
  <1>1. /\ e.objects = ObjectsAfter(d, s) /\ e.rows = RowsAfter(d, s)
        /\ e.applied = d.applied /\ DOMAIN e = {"objects", "rows", "applied"}
    BY ExecutedFields
  <1>2. RowsAfter(d, s) = d.rows
    BY DEF RowsAfter, Adding
  <1>3. /\ d.objects \subseteq ObjectsAfter(d, s)
        /\ \A o \in ObjectsAfter(d, s) : o \in d.objects \/ o \in Adds(s)
        /\ s.op \in {"create_index", "add_column"} => <<s.on, s.arg>> \in ObjectsAfter(d, s)
    BY DEF ObjectsAfter, Adds, Adding
  <1>4. s.op \in {"create_table_if_not_exists", "create_table"} =>
            <<s.on, "table">> \in ObjectsAfter(d, s)
    BY DEF ObjectsAfter, Exists, Shape
  <1> HIDE DEF e
  <1>5. IsDatabase(e)
    BY <1>1, <1>2, <1>3, AddsPairs DEF IsDatabase
  <1>6. \A t, name : t # s.on => (<<t, name>> \in e.objects <=> <<t, name>> \in d.objects)
    <2>1. \A t, name : <<t, name>>[1] = t
      OBVIOUS
    <2> QED
      BY <1>1, <1>3, <2>1, AddsPairs
  <1> QED
    BY <1>1, <1>2, <1>3, <1>4, <1>5, <1>6 DEF e, Exists

LEMMA Pair == \A o, a, b : o = <<a, b>> => o = <<o[1], o[2]>> /\ o[1] = a /\ o[2] = b
  OBVIOUS

LEMMA Inserted ==
    ASSUME NEW d, IsDatabase(d), NEW t \in Table, NEW from,
           Selected(d, t) \subseteq RowOf(t)
    PROVE  LET e == Executed(d, Statement("insert_select", t, from))
           IN  /\ e.objects = d.objects /\ e.applied = d.applied
               /\ e.rows[t] = d.rows[t] \cup Selected(d, t)
               /\ \A u \in Table \ {t} : e.rows[u] = d.rows[u]
               /\ IsDatabase(e)
  <1> DEFINE s == Statement("insert_select", t, from)
             e == Executed(d, s)
  <1>1. s.op = "insert_select" /\ s.on = t
    BY StatementFields
  <1> HIDE DEF s
  <1>2. /\ e.objects = ObjectsAfter(d, s) /\ e.rows = RowsAfter(d, s)
        /\ e.applied = d.applied /\ DOMAIN e = {"objects", "rows", "applied"}
    BY ExecutedFields
  <1>3. ObjectsAfter(d, s) = d.objects
    BY <1>1 DEF ObjectsAfter
  <1>4. RowsAfter(d, s) = [d.rows EXCEPT ![t] = @ \cup Selected(d, t)]
    BY <1>1 DEF RowsAfter
  <1> HIDE DEF e
  <1>5. /\ e.rows[t] = d.rows[t] \cup Selected(d, t)
        /\ \A u \in Table \ {t} : e.rows[u] = d.rows[u]
        /\ DOMAIN e.rows = Table
    BY <1>2, <1>4 DEF IsDatabase
  <1>6. IsDatabase(e)
    BY <1>2, <1>3, <1>5 DEF IsDatabase
  <1> QED
    BY <1>2, <1>3, <1>5, <1>6 DEF e, s

LEMMA Dropped ==
    ASSUME NEW d, IsDatabase(d), NEW t \in Table, NEW arg
    PROVE  LET e == Executed(d, Statement("drop_table", t, arg))
           IN  /\ e.objects = {o \in d.objects : o[1] # t} /\ e.applied = d.applied
               /\ \A u \in Cascade(t) : e.rows[u] = {}
               /\ \A u \in Table \ Cascade(t) : e.rows[u] = d.rows[u]
               /\ IsDatabase(e)
  <1> DEFINE s == Statement("drop_table", t, arg)
             e == Executed(d, s)
  <1>1. s.op = "drop_table" /\ s.on = t
    BY StatementFields
  <1> HIDE DEF s
  <1>2. /\ e.objects = ObjectsAfter(d, s) /\ e.rows = RowsAfter(d, s)
        /\ e.applied = d.applied /\ DOMAIN e = {"objects", "rows", "applied"}
    BY ExecutedFields
  <1>3. ObjectsAfter(d, s) = {o \in d.objects : o[1] # t}
    BY <1>1 DEF ObjectsAfter
  <1>4. RowsAfter(d, s) = [u \in Table |-> IF u \in Cascade(t) THEN {} ELSE d.rows[u]]
    BY <1>1 DEF RowsAfter
  <1>5. Cascade(t) \subseteq Table
    BY DEF Cascade, Table
  <1> HIDE DEF e
  <1>6. /\ \A u \in Cascade(t) : e.rows[u] = {}
        /\ \A u \in Table \ Cascade(t) : e.rows[u] = d.rows[u]
        /\ DOMAIN e.rows = Table
    BY <1>2, <1>4, <1>5
  <1>7. IsDatabase(e)
    BY <1>2, <1>3, <1>6 DEF IsDatabase
  <1> QED
    BY <1>2, <1>3, <1>6, <1>7 DEF e, s

LEMMA Renamed ==
    ASSUME NEW d, IsDatabase(d), NEW t \in Table, NEW u \in Table, t # u,
           RowOf(t) = RowOf(u)
    PROVE  LET e == Executed(d, Statement("rename_table", t, u))
           IN  /\ \A v \in Table : \A name :
                    <<v, name>> \in e.objects <=>
                       \/ v # t /\ <<v, name>> \in d.objects
                       \/ v = u /\ <<t, name>> \in d.objects
               /\ e.applied = d.applied
               /\ e.rows[u] = d.rows[t] /\ e.rows[t] = {}
               /\ \A v \in Table \ {t, u} : e.rows[v] = d.rows[v]
               /\ IsDatabase(e)
  <1> DEFINE s == Statement("rename_table", t, u)
             e == Executed(d, s)
  <1>1. s.op = "rename_table" /\ s.on = t /\ s.arg = u
    BY StatementFields
  <1> HIDE DEF s
  <1>2. /\ e.objects = ObjectsAfter(d, s) /\ e.rows = RowsAfter(d, s)
        /\ e.applied = d.applied /\ DOMAIN e = {"objects", "rows", "applied"}
    BY ExecutedFields
  <1>3. ObjectsAfter(d, s) = {IF o[1] = t THEN <<u, o[2]>> ELSE o : o \in d.objects}
    BY <1>1 DEF ObjectsAfter
  <1>4. RowsAfter(d, s) = [d.rows EXCEPT ![u] = d.rows[t], ![t] = {}]
    BY <1>1 DEF RowsAfter
  <1> HIDE DEF e
  <1>5. /\ e.rows[u] = d.rows[t] /\ e.rows[t] = {}
        /\ \A v \in Table \ {t, u} : e.rows[v] = d.rows[v]
        /\ DOMAIN e.rows = Table
    BY <1>2, <1>4 DEF IsDatabase
  <1>6. \A o \in d.objects : o = <<o[1], o[2]>> /\ o[1] \in Table
    BY DEF IsDatabase
  <1>7. \A o \in e.objects : \/ o \in d.objects /\ o[1] # t
                             \/ \E x \in d.objects : x[1] = t /\ o = <<u, x[2]>>
    BY <1>2, <1>3
  <1>8. \A x \in d.objects : IF x[1] = t THEN <<u, x[2]>> \in e.objects ELSE x \in e.objects
    BY <1>2, <1>3
  <1>9. ASSUME NEW v \in Table, NEW name
        PROVE  <<v, name>> \in e.objects <=>
                   \/ v # t /\ <<v, name>> \in d.objects
                   \/ v = u /\ <<t, name>> \in d.objects
    <2>1. <<v, name>>[1] = v /\ <<v, name>>[2] = name
          /\ <<t, name>>[1] = t /\ <<t, name>>[2] = name
      OBVIOUS
    <2>2. ASSUME <<v, name>> \in e.objects
          PROVE  \/ v # t /\ <<v, name>> \in d.objects
                 \/ v = u /\ <<t, name>> \in d.objects
      <3>1. CASE <<v, name>> \in d.objects /\ <<v, name>>[1] # t
        BY <2>1, <3>1
      <3>2. ASSUME NEW x \in d.objects, x[1] = t, <<v, name>> = <<u, x[2]>>
            PROVE  v = u /\ <<t, name>> \in d.objects
        <4>1. v = u /\ name = x[2]
          BY <3>2
        <4> QED
          BY <1>6, <3>2, <4>1
      <3> QED
        BY <1>7, <2>2, <3>1, <3>2
    <2>3. ASSUME v # t, <<v, name>> \in d.objects PROVE <<v, name>> \in e.objects
      BY <1>8, <2>1, <2>3
    <2>4. ASSUME v = u, <<t, name>> \in d.objects PROVE <<v, name>> \in e.objects
      BY <1>8, <2>1, <2>4
    <2> QED
      BY <2>2, <2>3, <2>4
  <1>10. \A o \in e.objects : o = <<o[1], o[2]>> /\ o[1] \in Table
    BY <1>6, <1>7, Pair
  <1>11. IsDatabase(e)
    BY <1>2, <1>5, <1>10 DEF IsDatabase
  <1> QED
    BY <1>2, <1>5, <1>9, <1>11 DEF e, s

LEMMA Backfilled ==
    ASSUME NEW d, IsDatabase(d), NEW col \in Column
    PROVE  LET e == Executed(d, Statement("set_unknown", "audit_logs", col))
           IN  /\ e.objects = d.objects /\ e.applied = d.applied
               /\ \A u \in Table \ {"audit_logs"} : e.rows[u] = d.rows[u]
               /\ e.rows["audit_logs"] = {IF r.by[col] = None
                                          THEN [r EXCEPT !.by[col] = "(unknown)"]
                                          ELSE r : r \in d.rows["audit_logs"]}
               /\ IsDatabase(e)
  <1> DEFINE s == Statement("set_unknown", "audit_logs", col)
             e == Executed(d, s)
             filled == {IF r.by[col] = None THEN [r EXCEPT !.by[col] = "(unknown)"] ELSE r :
                        r \in d.rows["audit_logs"]}
  <1>1. s.op = "set_unknown" /\ s.on = "audit_logs" /\ s.arg = col
    BY StatementFields
  <1> HIDE DEF s
  <1>2. /\ e.objects = ObjectsAfter(d, s) /\ e.rows = RowsAfter(d, s)
        /\ e.applied = d.applied /\ DOMAIN e = {"objects", "rows", "applied"}
    BY ExecutedFields
  <1>3. ObjectsAfter(d, s) = d.objects
    BY <1>1 DEF ObjectsAfter
  <1>4. RowsAfter(d, s) = [d.rows EXCEPT !["audit_logs"] = filled]
    BY <1>1 DEF RowsAfter
  <1>5. "audit_logs" \in Table /\ RowOf("audit_logs") = Audit
    BY DEF Table, RowOf
  <1>6. filled \subseteq Audit
    <2>1. d.rows["audit_logs"] \subseteq Audit
      BY <1>5 DEF IsDatabase
    <2>2. \A r \in Audit : [r EXCEPT !.by[col] = "(unknown)"] \in Audit
      BY DEF Audit, Attribution
    <2> QED
      BY <2>1, <2>2
  <1> HIDE DEF e, filled
  <1>7. /\ e.rows["audit_logs"] = filled
        /\ \A u \in Table \ {"audit_logs"} : e.rows[u] = d.rows[u]
        /\ DOMAIN e.rows = Table
    BY <1>2, <1>4, <1>5 DEF IsDatabase
  <1>8. IsDatabase(e)
    BY <1>2, <1>3, <1>5, <1>6, <1>7 DEF IsDatabase
  <1> QED
    BY <1>2, <1>3, <1>7, <1>8 DEF e, s, filled

LEMMA Grouped ==
    ASSUME NEW d, IsDatabase(d)
    PROVE  LET e == Executed(d, Statement("set_group", "external_sources", "destination_group_id"))
           IN  /\ e.objects = d.objects /\ e.applied = d.applied
               /\ \A u \in Table \ {"external_sources"} : e.rows[u] = d.rows[u]
               /\ e.rows["external_sources"] =
                     {[id |-> x.id, group |-> x.id] : x \in d.rows["external_sources"]}
               /\ IsDatabase(e)
  <1> DEFINE s == Statement("set_group", "external_sources", "destination_group_id")
             e == Executed(d, s)
             grouped == {[id |-> x.id, group |-> x.id] : x \in d.rows["external_sources"]}
  <1>1. s.op = "set_group" /\ s.on = "external_sources"
    BY DEF Statement
  <1> HIDE DEF s
  <1>2. /\ e.objects = ObjectsAfter(d, s) /\ e.rows = RowsAfter(d, s)
        /\ e.applied = d.applied /\ DOMAIN e = {"objects", "rows", "applied"}
    BY ExecutedFields
  <1>3. ObjectsAfter(d, s) = d.objects
    BY <1>1 DEF ObjectsAfter
  <1>4. RowsAfter(d, s) = [d.rows EXCEPT !["external_sources"] = grouped]
    BY <1>1 DEF RowsAfter
  <1>5. "external_sources" \in Table /\ RowOf("external_sources") = Feed
    BY DEF Table, RowOf
  <1>6. grouped \subseteq Feed
    <2>1. d.rows["external_sources"] \subseteq Feed
      BY <1>5 DEF IsDatabase
    <2>2. \A x \in Feed : [id |-> x.id, group |-> x.id] \in Feed
      BY DEF Feed
    <2> QED
      BY <2>1, <2>2
  <1> HIDE DEF e, grouped
  <1>7. /\ e.rows["external_sources"] = grouped
        /\ \A u \in Table \ {"external_sources"} : e.rows[u] = d.rows[u]
        /\ DOMAIN e.rows = Table
    BY <1>2, <1>4, <1>5 DEF IsDatabase
  <1>8. IsDatabase(e)
    BY <1>2, <1>3, <1>5, <1>6, <1>7 DEF IsDatabase
  <1> QED
    BY <1>2, <1>3, <1>7, <1>8 DEF e, s, grouped

LEMMA ColumnDropped ==
    ASSUME NEW d, IsDatabase(d)
    PROVE  LET e == Executed(d, Statement("drop_column", "external_sources", "cron_schedule"))
           IN  /\ e.objects = d.objects \ {<<"external_sources", "cron_schedule">>,
                                           <<"external_sources", OwnerIndex>>}
               /\ e.rows = d.rows /\ e.applied = d.applied
               /\ IsDatabase(e)
  <1> DEFINE s == Statement("drop_column", "external_sources", "cron_schedule")
             e == Executed(d, s)
  <1>1. s.op = "drop_column" /\ s.on = "external_sources" /\ s.arg = "cron_schedule"
    BY StatementFields
  <1> HIDE DEF s
  <1>2. /\ e.objects = ObjectsAfter(d, s) /\ e.rows = RowsAfter(d, s)
        /\ e.applied = d.applied /\ DOMAIN e = {"objects", "rows", "applied"}
    BY ExecutedFields
  <1>3. ObjectsAfter(d, s) = d.objects \ {<<"external_sources", "cron_schedule">>,
                                          <<"external_sources", OwnerIndex>>}
    BY <1>1 DEF ObjectsAfter
  <1>4. RowsAfter(d, s) = d.rows
    BY <1>1 DEF RowsAfter
  <1> HIDE DEF e
  <1>5. IsDatabase(e)
    BY <1>2, <1>3, <1>4 DEF IsDatabase
  <1> QED
    BY <1>2, <1>3, <1>4, <1>5 DEF e, s

---------------------------------------------------------------------------
(* A statement leaves alone the parts of Sound that it does not touch.      *)

ContentTables == {"external_sources", "external_sources_rebuild",
             "external_source_vault_targets", "destination_groups",
             "destination_group_vault_targets"}
Audits == {"audit_logs", "audit_logs_rebuild"}

LEMMA ContentFrame ==
    ASSUME NEW d, NEW e, NEW g, ContentInv(d, g), e.applied = d.applied,
           d.applied \in 0..Latest,
           \A t \in ContentTables : e.rows[t] = d.rows[t],
           d.applied \in 1..3 => (Flat(e) <=> Flat(d))
    PROVE  ContentInv(e, g)
  <1>1. /\ e.rows["external_sources"] = d.rows["external_sources"]
        /\ e.rows["external_sources_rebuild"] = d.rows["external_sources_rebuild"]
        /\ e.rows["external_source_vault_targets"] = d.rows["external_source_vault_targets"]
        /\ e.rows["destination_groups"] = d.rows["destination_groups"]
        /\ e.rows["destination_group_vault_targets"] =
              d.rows["destination_group_vault_targets"]
    BY DEF ContentTables
  <1>2. CASE d.applied = 0
    BY <1>1, <1>2 DEF ContentInv
  <1>3. CASE d.applied # 0
    BY <1>1, <1>3 DEF ContentInv, FeedsOf, Latest
  <1> QED
    BY <1>2, <1>3

LEMMA AuditFrame ==
    ASSUME NEW d, NEW e, NEW g, AuditInv(d, g), e.applied = d.applied,
           \A t \in Audits : e.rows[t] = d.rows[t]
    PROVE  AuditInv(e, g)
  BY DEF AuditInv, Audits

LEMMA KeyFrame ==
    ASSUME NEW d, NEW e, KeyInv(d), e.applied = d.applied,
           e.rows["api_keys"] = d.rows["api_keys"],
           <<"api_keys", MasterIndex>> \in d.objects => <<"api_keys", MasterIndex>> \in e.objects
    PROVE  KeyInv(e)
  <1>1. Masters(e) = Masters(d)
    BY DEF Masters
  <1> QED
    BY <1>1 DEF KeyInv

\* A statement that only adds, and adds what may be there.
LEMMA SoundAdded ==
    ASSUME NEW b, NEW d, NEW e, NEW g, Sound(b, d, g), d.applied \in 0..Latest,
           e.rows = d.rows, e.applied = d.applied, d.objects \subseteq e.objects,
           <<"external_sources_rebuild", "cron_schedule">> \notin e.objects,
           Flat(e) => Exists(e, "external_sources"),
           d.applied # 0 => (Flat(e) <=> Flat(d)),
           b # "sqlite" \/ d.applied >= 3 => ~Exists(e, "audit_logs_rebuild"),
           b # "sqlite" \/ d.applied >= 4 => ~Exists(e, "external_sources_rebuild"),
           d.applied >= 4 => ~Exists(e, "external_source_vault_targets")
    PROVE  Sound(b, e, g)
  <1>1. ContentInv(e, g)
    BY ContentFrame DEF Sound
  <1>2. AuditInv(e, g)
    BY AuditFrame DEF Sound
  <1>3. KeyInv(e)
    BY KeyFrame DEF Sound
  <1>4. SchemaInv(b, e)
    <2>1. \A t : Exists(d, t) => Exists(e, t)
      BY DEF Exists
    <2>2. d.applied >= 4 => ~Flat(e)
      BY DEF Sound, SchemaInv, Latest
    <2> QED
      BY <2>1, <2>2 DEF Sound, SchemaInv
  <1> QED
    BY <1>1, <1>2, <1>3, <1>4 DEF Sound

---------------------------------------------------------------------------
(* The migrations, statement by statement.                                  *)

LEMMA InitialStep ==
    ASSUME NEW b, NEW d, NEW g, IsDatabase(d), Sound(b, d, g), d.applied = 0,
           NEW s \in Making
    PROVE  IsDatabase(Executed(d, s)) /\ Sound(b, Executed(d, s), g)
  <1> DEFINE e == Executed(d, s)
  <1>1. /\ s.op \in {"create_table_if_not_exists", "create_index"}
        /\ s.on \in MadeTables /\ s.arg \in MadeNames
    BY DEF Making
  <1>2. /\ s.op \in Adding /\ s.on \in Table
        /\ s.on \notin {"external_sources_rebuild", "audit_logs_rebuild"}
        /\ s.arg # "cron_schedule"
    BY <1>1 DEF Adding, MadeTables, MadeNames, Table, OwnerIndex
  <1>3. /\ e.rows = d.rows /\ e.applied = d.applied /\ d.objects \subseteq e.objects
        /\ \A o \in e.objects : o \in d.objects \/ o \in Adds(s)
        /\ s.op \in {"create_table_if_not_exists", "create_table"} => Exists(e, s.on)
        /\ \A t, name : t # s.on => (<<t, name>> \in e.objects <=> <<t, name>> \in d.objects)
        /\ IsDatabase(e)
    BY <1>2, Added
  <1> HIDE DEF e
  <1>4. /\ <<"external_sources_rebuild", "cron_schedule">> \notin e.objects
        /\ b # "sqlite" => ~Exists(e, "audit_logs_rebuild")
        /\ b # "sqlite" => ~Exists(e, "external_sources_rebuild")
    BY <1>2, <1>3 DEF Sound, SchemaInv, Exists
  <1>5. ASSUME Flat(e) PROVE Exists(e, "external_sources")
    <2>1. CASE Flat(d)
      BY <1>3, <2>1 DEF Sound, SchemaInv, Exists
    <2>2. CASE ~Flat(d)
      <3>1. <<"external_sources", "cron_schedule">> \in Adds(s) /\ s.on = "external_sources"
        BY <1>3, <1>5, <2>2 DEF Flat
      <3>2. s.op # "create_index"
        BY <1>2, <3>1 DEF Adds
      <3> QED
        BY <1>1, <1>3, <3>1, <3>2
    <2> QED
      BY <2>1, <2>2
  <1>6. Sound(b, e, g)
    BY <1>3, <1>4, <1>5, SoundAdded DEF Latest
  <1> QED
    BY <1>3, <1>6 DEF e


\* An addition that no part of Sound speaks of.
Plain(d, e) ==
    /\ e.rows = d.rows /\ e.applied = d.applied /\ d.objects \subseteq e.objects
    /\ Flat(e) <=> Flat(d)
    /\ \A t \in {"external_sources_rebuild", "audit_logs_rebuild",
                 "external_source_vault_targets"} : Exists(e, t) <=> Exists(d, t)

LEMMA PlainStep ==
    ASSUME NEW b, NEW d, NEW g, IsDatabase(d), Sound(b, d, g), NEW s,
           s.op \in Adding,
           s.on \in Table \ {"external_sources_rebuild", "audit_logs_rebuild",
                             "external_source_vault_targets"},
           s.on = "external_sources" =>
               /\ s.op \in {"add_column", "set_not_null", "add_foreign_key"}
               /\ s.arg # "cron_schedule"
    PROVE  /\ IsDatabase(Executed(d, s))
           /\ Sound(b, Executed(d, s), g)
           /\ Plain(d, Executed(d, s))
  <1> DEFINE e == Executed(d, s)
  <1>1. /\ e.rows = d.rows /\ e.applied = d.applied /\ d.objects \subseteq e.objects
        /\ \A o \in e.objects : o \in d.objects \/ o \in Adds(s)
        /\ \A t, name : t # s.on => (<<t, name>> \in e.objects <=> <<t, name>> \in d.objects)
        /\ IsDatabase(e)
    BY Added
  <1> HIDE DEF e
  <1>2. Flat(e) <=> Flat(d)
    <2>1. ASSUME s.on = "external_sources"
          PROVE  <<"external_sources", "cron_schedule">> \notin Adds(s)
      BY <2>1 DEF Adds
    <2> QED
      BY <1>1, <2>1 DEF Flat
  <1>3. /\ \A t \in {"external_sources_rebuild", "audit_logs_rebuild",
                     "external_source_vault_targets"} : Exists(e, t) <=> Exists(d, t)
        /\ <<"external_sources_rebuild", "cron_schedule">> \notin e.objects
        /\ Exists(d, "external_sources") => Exists(e, "external_sources")
    BY <1>1 DEF Exists, Sound, SchemaInv
  <1>4. d.applied \in 0..Latest
    BY DEF IsDatabase
  <1>5. Sound(b, e, g)
    <2>1. /\ Flat(e) => Exists(e, "external_sources")
          /\ b # "sqlite" \/ d.applied >= 3 => ~Exists(e, "audit_logs_rebuild")
          /\ b # "sqlite" \/ d.applied >= 4 => ~Exists(e, "external_sources_rebuild")
          /\ d.applied >= 4 => ~Exists(e, "external_source_vault_targets")
      BY <1>2, <1>3 DEF Sound, SchemaInv
    <2> QED
      BY <1>1, <1>2, <1>3, <1>4, <2>1, SoundAdded
  <1> QED
    BY <1>1, <1>2, <1>3, <1>5 DEF e, Plain

LEMMA MarkerStep ==
    ASSUME NEW b, NEW d, NEW g, IsDatabase(d), Sound(b, d, g), d.applied = 1,
           NEW n \in 1..3, MarkerProgress(d, n),
           NEW s, s = DeriveMasterMarker[n], Accepted(d, s)
    PROVE  /\ IsDatabase(Executed(d, s))
           /\ Sound(b, Executed(d, s), g)
           /\ MarkerProgress(Executed(d, s), n + 1)
  <1> DEFINE e == Executed(d, s)
  <1>1. n = 1 => s.op = "at_most_one_master" /\ s.on = "api_keys"
    <2>1. n = 1 => s = Statement("at_most_one_master", "api_keys", "is_master")
      BY MarkerStatements
    <2> QED
      BY <2>1, StatementFields
  <1>2. n = 2 => s.op = "add_column" /\ s.on = "api_keys"
    <2>1. n = 2 => s = Statement("add_column", "api_keys", "master_marker")
      BY MarkerStatements
    <2> QED
      BY <2>1, StatementFields
  <1>3. n = 3 => s.op = "create_index" /\ s.on = "api_keys" /\ s.arg = MasterIndex
    <2>1. n = 3 => s = Statement("create_index", "api_keys", MasterIndex)
      BY MarkerStatements DEF CreateIndex
    <2> QED
      BY <2>1, StatementFields
  <1>4. n = 1 \/ n = 2 \/ n = 3
    OBVIOUS
  <1>5. s.op \in Adding /\ s.on = "api_keys" /\ s.on \in Table
    BY <1>1, <1>2, <1>3, <1>4 DEF Adding, Table
  <1>6. IsDatabase(e) /\ Sound(b, e, g) /\ Plain(d, e)
    BY <1>5, PlainStep
  <1>7. n = 3 => <<"api_keys", MasterIndex>> \in e.objects
    BY <1>3, <1>5, Added
  <1>8. n = 1 => Cardinality(Masters(d)) <= 1
    BY <1>1, Acceptance
  <1> HIDE DEF e
  <1>9. Masters(e) = Masters(d)
    BY <1>6 DEF Masters, Plain
  <1>10. MarkerProgress(e, n + 1)
    BY <1>4, <1>7, <1>8, <1>9 DEF MarkerProgress
  <1> QED
    BY <1>6, <1>10 DEF e

LEMMA FilterStep ==
    ASSUME NEW b, NEW d, NEW g, IsDatabase(d), Sound(b, d, g)
    PROVE  /\ IsDatabase(Executed(d, VaultSyncTaskBogonFiltering[1]))
           /\ Sound(b, Executed(d, VaultSyncTaskBogonFiltering[1]), g)
  <1> DEFINE s == VaultSyncTaskBogonFiltering[1]
  <1>0. s = Statement("add_column", "vault_sync_tasks", "skip_bogon_filtering")
    BY FilterStatements
  <1> HIDE DEF s
  <1>1. s.op = "add_column" /\ s.on = "vault_sync_tasks"
    BY <1>0, StatementFields
  <1>2. s.op \in Adding /\ s.on \in Table
    BY <1>1 DEF Adding, Table
  <1> QED
    BY <1>1, <1>2, PlainStep DEF s

\* Unattributed spells out Attributed column by column.
LEMMA AttributedColumns ==
    ASSUME NEW d
    PROVE  /\ (\A col \in Column : Unattributed(d, col) = {}) <=> Attributed(d.rows["audit_logs"])
           /\ Column = {"api_key_name", "api_key_prefix", "client_ip"}
  BY DEF Unattributed, Attributed, Column

LEMMA BackfillStep ==
    ASSUME NEW b, NEW d, NEW g, IsDatabase(d), Sound(b, d, g), d.applied = 2,
           NEW col \in Column, NEW s, s = Statement("set_unknown", "audit_logs", col)
    PROVE  LET e == Executed(d, s)
           IN  /\ IsDatabase(e) /\ Sound(b, e, g)
               /\ e.objects = d.objects /\ e.applied = d.applied
               /\ Unattributed(e, col) = {}
               /\ \A c \in Column : Unattributed(d, c) = {} => Unattributed(e, c) = {}
  <1> DEFINE e == Executed(d, s)
             Filled(r) == IF r.by[col] = None THEN [r EXCEPT !.by[col] = "(unknown)"] ELSE r
  <1>1. /\ e.objects = d.objects /\ e.applied = d.applied
        /\ \A u \in Table \ {"audit_logs"} : e.rows[u] = d.rows[u]
        /\ e.rows["audit_logs"] = {Filled(r) : r \in d.rows["audit_logs"]}
        /\ IsDatabase(e)
    BY Backfilled
  <1>2. d.rows["audit_logs"] \subseteq Audit /\ "audit_logs" \in Table
    BY DEF IsDatabase, RowOf, Table
  <1>3. ASSUME NEW r \in Audit
        PROVE  /\ Filled(r).id = r.id
               /\ Filled(r).by[col] # None
               /\ \A c \in Column : \/ Filled(r).by[c] = r.by[c]
                                    \/ r.by[c] = None /\ Filled(r).by[c] = "(unknown)"
    BY BootAssumption DEF Audit
  <1> HIDE DEF e, Filled
  <1>4. /\ \A t \in ContentTables : e.rows[t] = d.rows[t]
        /\ e.rows["api_keys"] = d.rows["api_keys"]
        /\ e.rows["audit_logs_rebuild"] = d.rows["audit_logs_rebuild"]
    BY <1>1 DEF ContentTables, Table
  <1>5. Keeps(e.rows["audit_logs"] \cup e.rows["audit_logs_rebuild"], g.trail)
    <2> SUFFICES ASSUME NEW r \in g.trail
                 PROVE  \E kept \in e.rows["audit_logs"] \cup e.rows["audit_logs_rebuild"] :
                            /\ kept.id = r.id
                            /\ \A c \in Column :
                                  \/ kept.by[c] = r.by[c]
                                  \/ r.by[c] = None /\ kept.by[c] = "(unknown)"
      BY DEF Keeps
    <2>1. PICK kept \in d.rows["audit_logs"] \cup d.rows["audit_logs_rebuild"] :
              /\ kept.id = r.id
              /\ \A c \in Column : \/ kept.by[c] = r.by[c]
                                   \/ r.by[c] = None /\ kept.by[c] = "(unknown)"
      BY DEF Sound, AuditInv, Keeps
    <2>2. CASE kept \in d.rows["audit_logs_rebuild"]
      BY <1>4, <2>1, <2>2
    <2>3. CASE kept \in d.rows["audit_logs"]
      <3>1. Filled(kept) \in e.rows["audit_logs"]
        BY <1>1, <2>3
      <3>2. /\ Filled(kept).id = r.id
            /\ \A c \in Column : \/ Filled(kept).by[c] = r.by[c]
                                 \/ r.by[c] = None /\ Filled(kept).by[c] = "(unknown)"
        BY <1>2, <1>3, <2>1, <2>3, BootAssumption
      <3> QED
        BY <3>1, <3>2
    <2> QED
      BY <2>1, <2>2, <2>3
  <1>6. AuditInv(e, g)
    BY <1>1, <1>4, <1>5 DEF Sound, AuditInv
  <1>7. Unattributed(e, col) = {}
    BY <1>1, <1>2, <1>3 DEF Unattributed
  <1>8. ASSUME NEW c \in Column, Unattributed(d, c) = {} PROVE Unattributed(e, c) = {}
    BY <1>1, <1>2, <1>3, <1>8, BootAssumption DEF Unattributed
  <1>9. ContentInv(e, g)
    <2>1. d.applied \in 0..Latest /\ (Flat(e) <=> Flat(d))
      BY <1>1 DEF IsDatabase, Flat
    <2> QED
      BY <1>1, <1>4, <2>1, ContentFrame DEF Sound
  <1>10. KeyInv(e)
    BY <1>1, <1>4, KeyFrame DEF Sound
  <1>11. SchemaInv(b, e)
    BY <1>1, <1>4 DEF Sound, SchemaInv, Exists, Flat, ContentTables
  <1> QED
    BY <1>1, <1>6, <1>7, <1>8, <1>9, <1>10, <1>11 DEF e, Sound

LEMMA AuditMade ==
    ASSUME NEW d, NEW g, IsDatabase(d), Sound("sqlite", d, g), d.applied = 2,
           NEW s, s = Statement("create_table", "audit_logs_rebuild", "table")
    PROVE  LET e == Executed(d, s)
           IN  IsDatabase(e) /\ Sound("sqlite", e, g) /\ e.rows = d.rows /\ e.applied = d.applied
  <1> DEFINE e == Executed(d, s)
  <1>1. s.op = "create_table" /\ s.on = "audit_logs_rebuild"
    BY StatementFields
  <1>2. s.op \in Adding /\ s.on \in Table
    BY <1>1 DEF Adding, Table
  <1>3. /\ e.rows = d.rows /\ e.applied = d.applied /\ d.objects \subseteq e.objects
        /\ \A t, name : t # s.on => (<<t, name>> \in e.objects <=> <<t, name>> \in d.objects)
        /\ IsDatabase(e)
    BY <1>2, Added
  <1> HIDE DEF e
  <1>4. /\ Flat(e) <=> Flat(d)
        /\ <<"external_sources_rebuild", "cron_schedule">> \notin e.objects
        /\ Exists(d, "external_sources") => Exists(e, "external_sources")
        /\ Flat(d) => Exists(d, "external_sources")
    BY <1>1, <1>3 DEF Flat, Exists, Sound, SchemaInv
  <1>5. Sound("sqlite", e, g)
    BY <1>3, <1>4, SoundAdded DEF Latest
  <1> QED
    BY <1>3, <1>5 DEF e

LEMMA AuditCopied ==
    ASSUME NEW d, NEW g, IsDatabase(d), Sound("sqlite", d, g), d.applied = 2,
           NEW s, s = Statement("insert_select", "audit_logs_rebuild", "audit_logs"),
           Accepted(d, s)
    PROVE  LET e == Executed(d, s)
           IN  /\ IsDatabase(e) /\ Sound("sqlite", e, g) /\ e.applied = d.applied
               /\ e.rows["audit_logs"] = d.rows["audit_logs"]
               /\ Keeps(e.rows["audit_logs_rebuild"], g.trail)
  <1> DEFINE e == Executed(d, s)
  <1>1. s.op = "insert_select" /\ s.on = "audit_logs_rebuild"
    BY StatementFields
  <1>2. /\ Exists(d, "audit_logs_rebuild")
        /\ Attributed(d.rows["audit_logs"])
    BY <1>1, Acceptance, AttributedColumns
  <1>3. /\ Selected(d, "audit_logs_rebuild") = d.rows["audit_logs"]
        /\ d.rows["audit_logs"] \subseteq RowOf("audit_logs_rebuild")
        /\ "audit_logs_rebuild" \in Table
    BY DEF Selected, IsDatabase, RowOf, Table
  <1>4. /\ e.objects = d.objects /\ e.applied = d.applied
        /\ e.rows["audit_logs_rebuild"] =
              d.rows["audit_logs_rebuild"] \cup d.rows["audit_logs"]
        /\ \A u \in Table \ {"audit_logs_rebuild"} : e.rows[u] = d.rows[u]
        /\ IsDatabase(e)
    BY <1>3, Inserted
  <1> HIDE DEF e
  <1>5. /\ \A t \in ContentTables : e.rows[t] = d.rows[t]
        /\ e.rows["api_keys"] = d.rows["api_keys"]
        /\ e.rows["audit_logs"] = d.rows["audit_logs"]
    BY <1>4 DEF ContentTables, Table
  <1>6. Keeps(e.rows["audit_logs_rebuild"], g.trail)
    BY <1>4 DEF Sound, AuditInv, Keeps
  <1>7. AuditInv(e, g)
    <2>1. Keeps(e.rows["audit_logs"] \cup e.rows["audit_logs_rebuild"], g.trail)
      BY <1>6 DEF Keeps
    <2>2. Attributed(e.rows["audit_logs_rebuild"])
      BY <1>2, <1>4 DEF Attributed, Sound, AuditInv
    <2> QED
      BY <1>4, <2>1, <2>2 DEF AuditInv
  <1>8. ContentInv(e, g)
    <2>1. d.applied \in 0..Latest /\ (Flat(e) <=> Flat(d))
      BY <1>4 DEF IsDatabase, Flat
    <2> QED
      BY <1>4, <1>5, <2>1, ContentFrame DEF Sound
  <1>9. KeyInv(e)
    BY <1>4, <1>5, KeyFrame DEF Sound
  <1>10. SchemaInv("sqlite", e)
    BY <1>2, <1>4, <1>5 DEF Sound, SchemaInv, Exists, Flat, ContentTables
  <1> QED
    BY <1>4, <1>5, <1>6, <1>7, <1>8, <1>9, <1>10 DEF e, Sound

LEMMA AuditDropped ==
    ASSUME NEW d, NEW g, IsDatabase(d), Sound("sqlite", d, g), d.applied = 2,
           NEW s, s = Statement("drop_table", "audit_logs", "table"),
           Keeps(d.rows["audit_logs_rebuild"], g.trail)
    PROVE  LET e == Executed(d, s)
           IN  /\ IsDatabase(e) /\ Sound("sqlite", e, g) /\ e.applied = d.applied
               /\ e.rows["audit_logs"] = {}
               /\ e.rows["audit_logs_rebuild"] = d.rows["audit_logs_rebuild"]
  <1> DEFINE e == Executed(d, s)
  <1>1. Cascade("audit_logs") = {"audit_logs"} /\ "audit_logs" \in Table
    BY DEF Cascade, Table
  <1>2. /\ e.objects = {o \in d.objects : o[1] # "audit_logs"} /\ e.applied = d.applied
        /\ e.rows["audit_logs"] = {}
        /\ \A u \in Table \ {"audit_logs"} : e.rows[u] = d.rows[u]
        /\ IsDatabase(e)
    BY <1>1, Dropped
  <1> HIDE DEF e
  <1>3. /\ \A t \in ContentTables : e.rows[t] = d.rows[t]
        /\ e.rows["api_keys"] = d.rows["api_keys"]
        /\ e.rows["audit_logs_rebuild"] = d.rows["audit_logs_rebuild"]
    BY <1>2 DEF ContentTables, Table
  <1>4. \A t, name : t # "audit_logs" => (<<t, name>> \in e.objects <=> <<t, name>> \in d.objects)
    BY <1>2
  <1>5. AuditInv(e, g)
    BY <1>2, <1>3 DEF Sound, AuditInv, Keeps
  <1>6. ContentInv(e, g)
    <2>1. d.applied \in 0..Latest /\ (Flat(e) <=> Flat(d))
      BY <1>4 DEF IsDatabase, Flat
    <2> QED
      BY <1>2, <1>3, <2>1, ContentFrame DEF Sound
  <1>7. KeyInv(e)
    BY <1>2, <1>3, <1>4, KeyFrame DEF Sound
  <1>8. SchemaInv("sqlite", e)
    BY <1>2, <1>3, <1>4 DEF Sound, SchemaInv, Exists, Flat, ContentTables
  <1> QED
    BY <1>2, <1>3, <1>5, <1>6, <1>7, <1>8 DEF e, Sound

LEMMA AuditRenamed ==
    ASSUME NEW d, NEW g, IsDatabase(d), Sound("sqlite", d, g), d.applied = 2,
           NEW s, s = Statement("rename_table", "audit_logs_rebuild", "audit_logs"),
           Keeps(d.rows["audit_logs_rebuild"], g.trail)
    PROVE  LET e == Executed(d, s)
           IN  /\ IsDatabase(e) /\ Sound("sqlite", e, g) /\ e.applied = d.applied
               /\ Attributed(e.rows["audit_logs"])
               /\ ~Exists(e, "audit_logs_rebuild")
  <1> DEFINE e == Executed(d, s)
  <1>1. /\ "audit_logs" \in Table /\ "audit_logs_rebuild" \in Table
        /\ RowOf("audit_logs_rebuild") = RowOf("audit_logs")
    BY DEF RowOf, Table
  <1>2. /\ \A v \in Table : \A name :
              <<v, name>> \in e.objects <=>
                  \/ v # "audit_logs_rebuild" /\ <<v, name>> \in d.objects
                  \/ v = "audit_logs" /\ <<"audit_logs_rebuild", name>> \in d.objects
        /\ e.applied = d.applied
        /\ e.rows["audit_logs"] = d.rows["audit_logs_rebuild"]
        /\ e.rows["audit_logs_rebuild"] = {}
        /\ \A v \in Table \ {"audit_logs_rebuild", "audit_logs"} : e.rows[v] = d.rows[v]
        /\ IsDatabase(e)
    BY <1>1, Renamed
  <1> HIDE DEF e
  <1>3. /\ \A t \in ContentTables : e.rows[t] = d.rows[t]
        /\ e.rows["api_keys"] = d.rows["api_keys"]
    BY <1>2 DEF ContentTables, Table
  <1>4. /\ \A t \in ContentTables \cup {"api_keys"} : \A name :
              <<t, name>> \in e.objects <=> <<t, name>> \in d.objects
        /\ <<"audit_logs_rebuild", "table">> \notin e.objects
    BY <1>1, <1>2 DEF ContentTables, Table
  <1>5. AuditInv(e, g)
    BY <1>2 DEF Sound, AuditInv, Keeps, Attributed
  <1>6. ContentInv(e, g)
    <2>1. d.applied \in 0..Latest /\ (Flat(e) <=> Flat(d))
      BY <1>4 DEF IsDatabase, Flat, ContentTables
    <2> QED
      BY <1>2, <1>3, <2>1, ContentFrame DEF Sound
  <1>7. KeyInv(e)
    BY <1>2, <1>3, <1>4, KeyFrame DEF Sound
  <1>8. SchemaInv("sqlite", e)
    BY <1>2, <1>3, <1>4 DEF Sound, SchemaInv, Exists, Flat, ContentTables
  <1>9. Attributed(e.rows["audit_logs"])
    BY <1>2 DEF Sound, AuditInv
  <1> QED
    BY <1>2, <1>4, <1>5, <1>6, <1>7, <1>8, <1>9 DEF e, Sound, Exists

\* The three columns, and what an unchanged table says of them.
LEMMA UnattributedFrame ==
    ASSUME NEW d, NEW e, e.rows["audit_logs"] = d.rows["audit_logs"], NEW col
    PROVE  Unattributed(e, col) = Unattributed(d, col)
  BY DEF Unattributed

LEMMA BackfillProgress ==
    ASSUME NEW b, NEW d, NEW g, IsDatabase(d), Sound(b, d, g), d.applied = 2,
           NEW n \in 1..3, AuditProgress(b, d, n, g),
           NEW s, s = Statement("set_unknown", "audit_logs",
                                IF n = 1 THEN "api_key_name"
                                ELSE IF n = 2 THEN "api_key_prefix" ELSE "client_ip")
    PROVE  LET e == Executed(d, s)
           IN  /\ IsDatabase(e) /\ Sound(b, e, g) /\ e.applied = d.applied
               /\ AuditProgress(b, e, n + 1, g)
  <1> DEFINE e == Executed(d, s)
             col == IF n = 1 THEN "api_key_name"
                    ELSE IF n = 2 THEN "api_key_prefix" ELSE "client_ip"
  <1>1. col \in Column
    BY DEF Column
  <1>2. /\ IsDatabase(e) /\ Sound(b, e, g) /\ e.applied = d.applied
        /\ Unattributed(e, col) = {}
        /\ \A c \in Column : Unattributed(d, c) = {} => Unattributed(e, c) = {}
    BY <1>1, BackfillStep
  <1> HIDE DEF e
  <1>3. AuditProgress(b, e, n + 1, g)
    <2>1. CASE n = 1
      BY <1>2, <2>1 DEF AuditProgress, Column
    <2>2. CASE n = 2
      BY <1>2, <2>2 DEF AuditProgress, Column
    <2>3. CASE n = 3
      BY <1>2, <2>3 DEF AuditProgress, Column
    <2> QED
      BY <2>1, <2>2, <2>3
  <1> QED
    BY <1>2, <1>3 DEF e

LEMMA AuditStepSqlite ==
    ASSUME NEW d, NEW g, IsDatabase(d), Sound("sqlite", d, g), d.applied = 2,
           NEW n \in 1..8, AuditProgress("sqlite", d, n, g),
           NEW s, s = AuditAttributionNotNull("sqlite")[n], Accepted(d, s)
    PROVE  LET e == Executed(d, s)
           IN  /\ IsDatabase(e) /\ Sound("sqlite", e, g)
               /\ AuditProgress("sqlite", e, n + 1, g)
  <1> DEFINE e == Executed(d, s)
             Clean(x) == \A col \in Column : Unattributed(x, col) = {}
  <1>1. CASE n \in 1..3
    <2>1. n = 1 \/ n = 2 \/ n = 3
      BY <1>1
    <2>2. s = Statement("set_unknown", "audit_logs",
                        IF n = 1 THEN "api_key_name"
                        ELSE IF n = 2 THEN "api_key_prefix" ELSE "client_ip")
      BY <2>1, AuditStatementsSqlite
    <2> QED
      BY <1>1, <2>2, BackfillProgress
  <1>2. ASSUME n > 3 PROVE Clean(d)
    BY <1>2 DEF AuditProgress, Column
  <1>3. ASSUME n = 4
        PROVE  IsDatabase(e) /\ Sound("sqlite", e, g) /\ AuditProgress("sqlite", e, n + 1, g)
    <2>1. s = Statement("create_table", "audit_logs_rebuild", "table")
      BY <1>3, AuditStatementsSqlite
    <2>2. IsDatabase(e) /\ Sound("sqlite", e, g) /\ e.rows = d.rows /\ e.applied = d.applied
      BY <2>1, AuditMade
    <2> HIDE DEF e
    <2>3. Clean(e)
      BY <1>2, <1>3, <2>2, UnattributedFrame
    <2> QED
      BY <1>3, <2>2, <2>3 DEF AuditProgress, Column
  <1>4. ASSUME n = 5
        PROVE  IsDatabase(e) /\ Sound("sqlite", e, g) /\ AuditProgress("sqlite", e, n + 1, g)
    <2>1. s = Statement("insert_select", "audit_logs_rebuild", "audit_logs")
      BY <1>4, AuditStatementsSqlite
    <2>2. /\ IsDatabase(e) /\ Sound("sqlite", e, g) /\ e.applied = d.applied
          /\ e.rows["audit_logs"] = d.rows["audit_logs"]
          /\ Keeps(e.rows["audit_logs_rebuild"], g.trail)
      BY <2>1, AuditCopied
    <2> HIDE DEF e
    <2>3. Clean(e)
      BY <1>2, <1>4, <2>2, UnattributedFrame
    <2> QED
      BY <1>4, <2>2, <2>3 DEF AuditProgress, Column
  <1>5. ASSUME n = 6
        PROVE  IsDatabase(e) /\ Sound("sqlite", e, g) /\ AuditProgress("sqlite", e, n + 1, g)
    <2>1. s = Statement("drop_table", "audit_logs", "table")
      BY <1>5, AuditStatementsSqlite
    <2>2. Keeps(d.rows["audit_logs_rebuild"], g.trail)
      BY <1>5 DEF AuditProgress
    <2>3. /\ IsDatabase(e) /\ Sound("sqlite", e, g) /\ e.applied = d.applied
          /\ e.rows["audit_logs"] = {}
          /\ e.rows["audit_logs_rebuild"] = d.rows["audit_logs_rebuild"]
      BY <2>1, <2>2, AuditDropped
    <2> HIDE DEF e
    <2>4. Clean(e)
      BY <2>3 DEF Unattributed
    <2> QED
      BY <1>5, <2>2, <2>3, <2>4 DEF AuditProgress, Column
  <1>6. ASSUME n = 7
        PROVE  IsDatabase(e) /\ Sound("sqlite", e, g) /\ AuditProgress("sqlite", e, n + 1, g)
    <2>1. s = Statement("rename_table", "audit_logs_rebuild", "audit_logs")
      BY <1>6, AuditStatementsSqlite
    <2>2. Keeps(d.rows["audit_logs_rebuild"], g.trail)
      BY <1>6 DEF AuditProgress
    <2>3. /\ IsDatabase(e) /\ Sound("sqlite", e, g) /\ e.applied = d.applied
          /\ Attributed(e.rows["audit_logs"])
          /\ ~Exists(e, "audit_logs_rebuild")
      BY <2>1, <2>2, AuditRenamed
    <2> HIDE DEF e
    <2>4. Clean(e)
      BY <2>3, AttributedColumns
    <2> QED
      BY <1>6, <2>3, <2>4 DEF AuditProgress, Column
  <1>7. ASSUME n = 8
        PROVE  IsDatabase(e) /\ Sound("sqlite", e, g) /\ AuditProgress("sqlite", e, n + 1, g)
    <2>1. s.op = "create_index" /\ s.on = "audit_logs"
      <3>1. s = Statement("create_index", "audit_logs", "idx-audit_logs-action_timestamp")
        BY <1>7, AuditStatementsSqlite DEF CreateIndex
      <3> QED
        BY <3>1, StatementFields
    <2>2. s.op \in Adding /\ s.on \in Table
      BY <2>1 DEF Adding, Table
    <2>3. IsDatabase(e) /\ Sound("sqlite", e, g) /\ Plain(d, e)
      BY <2>1, <2>2, PlainStep
    <2> HIDE DEF e
    <2>4. Clean(e)
      BY <1>2, <1>7, <2>3, UnattributedFrame DEF Plain
    <2>5. ~Exists(e, "audit_logs_rebuild")
      BY <1>7, <2>3 DEF AuditProgress, Plain
    <2> QED
      BY <1>7, <2>3, <2>4, <2>5 DEF AuditProgress, Column
  <1>8. n \in 1..3 \/ n = 4 \/ n = 5 \/ n = 6 \/ n = 7 \/ n = 8
    OBVIOUS
  <1> QED
    BY <1>1, <1>3, <1>4, <1>5, <1>6, <1>7, <1>8

LEMMA AuditStep ==
    ASSUME NEW b, b # "sqlite", NEW d, NEW g, IsDatabase(d), Sound(b, d, g), d.applied = 2,
           NEW n \in 1..6, AuditProgress(b, d, n, g),
           NEW s, s = AuditAttributionNotNull(b)[n], Accepted(d, s)
    PROVE  LET e == Executed(d, s)
           IN  IsDatabase(e) /\ Sound(b, e, g) /\ AuditProgress(b, e, n + 1, g)
  <1> DEFINE e == Executed(d, s)
  <1>1. CASE n \in 1..3
    <2>1. n = 1 \/ n = 2 \/ n = 3
      BY <1>1
    <2>2. s = Statement("set_unknown", "audit_logs",
                        IF n = 1 THEN "api_key_name"
                        ELSE IF n = 2 THEN "api_key_prefix" ELSE "client_ip")
      BY <2>1, AuditStatements
    <2> QED
      BY <1>1, <2>2, BackfillProgress
  <1>2. CASE n \in 4..6
    <2>1. s.op = "set_not_null" /\ s.on = "audit_logs"
      <3>1. \E col : s = Statement("set_not_null", "audit_logs", col)
        <4>1. n = 4 \/ n = 5 \/ n = 6
          BY <1>2
        <4> QED
          BY <4>1, AuditStatements
      <3> QED
        BY <3>1, StatementFields
    <2>2. s.op \in Adding /\ s.on \in Table
      BY <2>1 DEF Adding, Table
    <2>3. IsDatabase(e) /\ Sound(b, e, g) /\ Plain(d, e)
      BY <2>1, <2>2, PlainStep
    <2> HIDE DEF e
    <2>4. \A col : Unattributed(e, col) = Unattributed(d, col)
      BY <2>3, UnattributedFrame DEF Plain
    <2>5. AuditProgress(b, e, n + 1, g)
      BY <1>2, <2>4 DEF AuditProgress
    <2> QED
      BY <2>3, <2>5 DEF e
  <1> QED
    BY <1>1, <1>2

---------------------------------------------------------------------------
(* The groups migration.                                                    *)

LEMMA TableNames ==
    /\ ContentTables \subseteq Table /\ Audits \subseteq Table /\ "api_keys" \in Table
    /\ RowOf("external_sources") = Feed /\ RowOf("external_sources_rebuild") = Feed
    /\ RowOf("destination_groups") = Sources
    /\ RowOf("external_source_vault_targets") = RowOf("destination_group_vault_targets")
  BY DEF ContentTables, Audits, Table, RowOf

LEMMA GroupsFilled ==
    ASSUME NEW b, NEW d, NEW g, IsDatabase(d), Sound(b, d, g), d.applied = 3,
           NEW s, s = Statement("insert_select", "destination_groups", "external_sources")
    PROVE  LET e == Executed(d, s)
           IN  /\ IsDatabase(e) /\ Sound(b, e, g) /\ e.applied = d.applied
               /\ g.groups \subseteq e.rows["destination_groups"]
  <1> DEFINE e == Executed(d, s)
             new == Ids(d.rows["external_sources"])
  <1>1. Selected(d, "destination_groups") = new
    BY DEF Selected, Ids
  <1>2. new \subseteq RowOf("destination_groups") /\ "destination_groups" \in Table
    <2>1. d.rows["external_sources"] \subseteq Feed
      BY TableNames DEF IsDatabase, ContentTables
    <2> QED
      BY <2>1, TableNames DEF Ids, Feed, ContentTables
  <1> HIDE DEF new
  <1>3. /\ e.objects = d.objects /\ e.applied = d.applied
        /\ e.rows["destination_groups"] = d.rows["destination_groups"] \cup new
        /\ \A u \in Table \ {"destination_groups"} : e.rows[u] = d.rows[u]
        /\ IsDatabase(e)
    BY <1>1, <1>2, Inserted
  <1> HIDE DEF e
  <1>4. /\ e.rows["external_sources"] = d.rows["external_sources"]
        /\ e.rows["external_sources_rebuild"] = d.rows["external_sources_rebuild"]
        /\ e.rows["external_source_vault_targets"] = d.rows["external_source_vault_targets"]
        /\ e.rows["destination_group_vault_targets"] =
              d.rows["destination_group_vault_targets"]
        /\ \A t \in Audits \cup {"api_keys"} : e.rows[t] = d.rows[t]
    BY <1>3, TableNames DEF ContentTables, Audits
  <1>5. Flat(e) <=> Flat(d)
    BY <1>3 DEF Flat
  <1>6. new \subseteq g.groups
    BY DEF new, Ids, Sound, ContentInv
  <1>7. g.groups \subseteq e.rows["destination_groups"]
    BY <1>3 DEF new, Sound, ContentInv
  <1>8. ContentInv(e, g)
    BY <1>3, <1>4, <1>5, <1>6, <1>7 DEF Sound, ContentInv
  <1>9. AuditInv(e, g) /\ KeyInv(e)
    BY <1>3, <1>4, AuditFrame, KeyFrame DEF Sound
  <1>10. SchemaInv(b, e)
    BY <1>3, <1>4 DEF Sound, SchemaInv, Exists, Flat, Audits
  <1> QED
    BY <1>3, <1>7, <1>8, <1>9, <1>10 DEF e, Sound

LEMMA TargetsCopied ==
    ASSUME NEW b, NEW d, NEW g, IsDatabase(d), Sound(b, d, g), d.applied = 3,
           NEW s, s = Statement("insert_select", "destination_group_vault_targets",
                                "external_source_vault_targets")
    PROVE  LET e == Executed(d, s)
           IN  /\ IsDatabase(e) /\ Sound(b, e, g) /\ e.applied = d.applied
               /\ e.rows["destination_groups"] = d.rows["destination_groups"]
               /\ e.rows["external_source_vault_targets"]
                  \subseteq e.rows["destination_group_vault_targets"]
  <1> DEFINE e == Executed(d, s)
             new == d.rows["external_source_vault_targets"]
  <1>1. Selected(d, "destination_group_vault_targets") = new
    BY DEF Selected
  <1>2. /\ new \subseteq RowOf("destination_group_vault_targets")
        /\ "destination_group_vault_targets" \in Table
    BY TableNames DEF IsDatabase, ContentTables
  <1>3. /\ e.objects = d.objects /\ e.applied = d.applied
        /\ e.rows["destination_group_vault_targets"] =
              d.rows["destination_group_vault_targets"] \cup new
        /\ \A u \in Table \ {"destination_group_vault_targets"} : e.rows[u] = d.rows[u]
        /\ IsDatabase(e)
    BY <1>1, <1>2, Inserted
  <1> HIDE DEF e
  <1>4. /\ e.rows["external_sources"] = d.rows["external_sources"]
        /\ e.rows["external_sources_rebuild"] = d.rows["external_sources_rebuild"]
        /\ e.rows["external_source_vault_targets"] = d.rows["external_source_vault_targets"]
        /\ e.rows["destination_groups"] = d.rows["destination_groups"]
        /\ \A t \in Audits \cup {"api_keys"} : e.rows[t] = d.rows[t]
    BY <1>3, TableNames DEF ContentTables, Audits
  <1>5. Flat(e) <=> Flat(d)
    BY <1>3 DEF Flat
  <1>6. ContentInv(e, g)
    BY <1>3, <1>4, <1>5 DEF Sound, ContentInv
  <1>7. AuditInv(e, g) /\ KeyInv(e)
    BY <1>3, <1>4, AuditFrame, KeyFrame DEF Sound
  <1>8. SchemaInv(b, e)
    BY <1>3, <1>4 DEF Sound, SchemaInv, Exists, Flat, Audits
  <1> QED
    BY <1>3, <1>4, <1>6, <1>7, <1>8 DEF e, Sound

\* What later statements rely on, of a database whose groups are filled.
GroupsHold(d, g) ==
    /\ g.groups \subseteq d.rows["destination_groups"]
    /\ d.rows["external_source_vault_targets"]
       \subseteq d.rows["destination_group_vault_targets"]

LEMMA SourcesMade ==
    ASSUME NEW d, NEW g, IsDatabase(d), Sound("sqlite", d, g), d.applied = 3,
           NEW s, s = Statement("create_table", "external_sources_rebuild", "table")
    PROVE  LET e == Executed(d, s)
           IN  IsDatabase(e) /\ Sound("sqlite", e, g) /\ e.rows = d.rows /\ e.applied = d.applied
  <1> DEFINE e == Executed(d, s)
  <1>1. s.op = "create_table" /\ s.on = "external_sources_rebuild"
    BY StatementFields
  <1>2. s.op \in Adding /\ s.on \in Table
    BY <1>1 DEF Adding, Table
  <1>3. /\ e.rows = d.rows /\ e.applied = d.applied /\ d.objects \subseteq e.objects
        /\ \A o \in e.objects : o \in d.objects \/ o \in Adds(s)
        /\ \A t, name : t # s.on => (<<t, name>> \in e.objects <=> <<t, name>> \in d.objects)
        /\ IsDatabase(e)
    BY <1>2, Added
  <1>4. <<"external_sources_rebuild", "cron_schedule">> \notin Adds(s)
    BY <1>1 DEF Adds, Shape
  <1> HIDE DEF e
  <1>5. /\ Flat(e) <=> Flat(d)
        /\ <<"external_sources_rebuild", "cron_schedule">> \notin e.objects
        /\ Exists(d, "external_sources") => Exists(e, "external_sources")
        /\ Flat(d) => Exists(d, "external_sources")
        /\ ~Exists(e, "audit_logs_rebuild")
    BY <1>1, <1>3, <1>4 DEF Flat, Exists, Sound, SchemaInv
  <1>6. Sound("sqlite", e, g)
    BY <1>3, <1>5, SoundAdded DEF Latest
  <1> QED
    BY <1>3, <1>6 DEF e

LEMMA SourcesCopied ==
    ASSUME NEW d, NEW g, IsDatabase(d), Sound("sqlite", d, g), d.applied = 3, GroupsHold(d, g),
           NEW s, s = Statement("insert_select", "external_sources_rebuild", "external_sources"),
           Accepted(d, s)
    PROVE  LET e == Executed(d, s)
           IN  /\ IsDatabase(e) /\ Sound("sqlite", e, g) /\ e.applied = d.applied
               /\ GroupsHold(e, g) /\ g.groups \subseteq Ids(e.rows["external_sources_rebuild"])
  <1> DEFINE e == Executed(d, s)
             new == {[id |-> x.id, group |-> x.id] : x \in d.rows["external_sources"]}
  <1>1. s.op = "insert_select" /\ s.on = "external_sources_rebuild"
    BY StatementFields
  <1>2. Exists(d, "external_sources_rebuild")
    BY <1>1, Acceptance
  <1>3. Selected(d, "external_sources_rebuild") = new
    BY DEF Selected
  <1>4. new \subseteq RowOf("external_sources_rebuild") /\ "external_sources_rebuild" \in Table
    <2>1. d.rows["external_sources"] \subseteq Feed
      BY TableNames DEF IsDatabase, ContentTables
    <2>2. \A x \in Feed : [id |-> x.id, group |-> x.id] \in Feed
      BY DEF Feed
    <2> QED
      BY <2>1, <2>2, TableNames DEF ContentTables
  <1>5. /\ \A x \in new : x.id \in g.groups /\ x.group = x.id
        /\ \A x \in d.rows["external_sources"] : \E y \in new : y.id = x.id
    <2>1. \A x \in d.rows["external_sources"] : x.id \in g.groups
      BY DEF Sound, ContentInv
    <2>2. \A x : [id |-> x.id, group |-> x.id].id = x.id /\ [id |-> x.id, group |-> x.id].group = x.id
      OBVIOUS
    <2> QED
      BY <2>1, <2>2
  <1> HIDE DEF new
  <1>6. /\ e.objects = d.objects /\ e.applied = d.applied
        /\ e.rows["external_sources_rebuild"] = d.rows["external_sources_rebuild"] \cup new
        /\ \A u \in Table \ {"external_sources_rebuild"} : e.rows[u] = d.rows[u]
        /\ IsDatabase(e)
    BY <1>3, <1>4, Inserted
  <1> HIDE DEF e
  <1>7. /\ e.rows["external_sources"] = d.rows["external_sources"]
        /\ e.rows["destination_groups"] = d.rows["destination_groups"]
        /\ e.rows["external_source_vault_targets"] = d.rows["external_source_vault_targets"]
        /\ e.rows["destination_group_vault_targets"] =
              d.rows["destination_group_vault_targets"]
        /\ \A t \in Audits \cup {"api_keys"} : e.rows[t] = d.rows[t]
    BY <1>6, TableNames DEF ContentTables, Audits
  <1>8. Flat(e) <=> Flat(d)
    BY <1>6 DEF Flat
  <1>9. g.groups \subseteq Ids(e.rows["external_sources_rebuild"])
    <2>1. \A x \in g.groups : \E y \in d.rows["external_sources"]
                                       \cup d.rows["external_sources_rebuild"] : y.id = x
      BY DEF Sound, ContentInv
    <2>2. \A x \in g.groups : \E y \in e.rows["external_sources_rebuild"] : y.id = x
      BY <1>5, <1>6, <2>1
    <2> QED
      BY <2>2 DEF Ids
  <1>10. ContentInv(e, g)
    BY <1>5, <1>6, <1>7, <1>8 DEF Sound, ContentInv
  <1>11. AuditInv(e, g) /\ KeyInv(e)
    BY <1>6, <1>7, AuditFrame, KeyFrame DEF Sound
  <1>12. SchemaInv("sqlite", e)
    BY <1>2, <1>6, <1>7 DEF Sound, SchemaInv, Exists, Flat, Audits
  <1>13. GroupsHold(e, g)
    BY <1>7 DEF GroupsHold
  <1> QED
    BY <1>6, <1>9, <1>10, <1>11, <1>12, <1>13 DEF e, Sound

LEMMA SourcesDropped ==
    ASSUME NEW d, NEW g, IsDatabase(d), Sound("sqlite", d, g), d.applied = 3, GroupsHold(d, g),
           g.groups \subseteq Ids(d.rows["external_sources_rebuild"]),
           NEW s, s = Statement("drop_table", "external_sources", "table")
    PROVE  LET e == Executed(d, s)
           IN  /\ IsDatabase(e) /\ Sound("sqlite", e, g) /\ e.applied = d.applied
               /\ GroupsHold(e, g) /\ ~Flat(e)
               /\ e.rows["external_sources_rebuild"] = d.rows["external_sources_rebuild"]
  <1> DEFINE e == Executed(d, s)
             gone == {"external_sources", "external_source_vault_targets"}
  <1>1. Cascade("external_sources") = gone /\ "external_sources" \in Table
    BY DEF Cascade, Table
  <1>2. /\ e.objects = {o \in d.objects : o[1] # "external_sources"} /\ e.applied = d.applied
        /\ \A u \in gone : e.rows[u] = {}
        /\ \A u \in Table \ gone : e.rows[u] = d.rows[u]
        /\ IsDatabase(e)
    BY <1>1, Dropped
  <1> HIDE DEF e
  <1>3. /\ e.rows["external_sources"] = {}
        /\ e.rows["external_source_vault_targets"] = {}
        /\ e.rows["external_sources_rebuild"] = d.rows["external_sources_rebuild"]
        /\ e.rows["destination_groups"] = d.rows["destination_groups"]
        /\ e.rows["destination_group_vault_targets"] =
              d.rows["destination_group_vault_targets"]
        /\ \A t \in Audits \cup {"api_keys"} : e.rows[t] = d.rows[t]
    BY <1>2, TableNames DEF ContentTables, Audits
  <1>4. /\ \A t, name : t # "external_sources" =>
              (<<t, name>> \in e.objects <=> <<t, name>> \in d.objects)
        /\ \A name : <<"external_sources", name>> \notin e.objects
    BY <1>2
  <1>5. ~Flat(e)
    BY <1>4 DEF Flat
  <1>6. ContentInv(e, g)
    <2>1. \A x \in g.groups : \E y \in e.rows["external_sources_rebuild"] : y.id = x
      BY <1>3 DEF Ids
    <2>2. e.rows["external_source_vault_targets"]
          \cup e.rows["destination_group_vault_targets"] = g.targets
      <3>1. d.rows["external_source_vault_targets"]
            \cup d.rows["destination_group_vault_targets"] = g.targets
        BY DEF Sound, ContentInv
      <3> QED
        BY <1>2, <1>3, <3>1 DEF GroupsHold
    <2> QED
      BY <1>2, <1>3, <1>5, <2>1, <2>2 DEF Sound, ContentInv, GroupsHold
  <1>7. AuditInv(e, g) /\ KeyInv(e)
    BY <1>2, <1>3, <1>4, AuditFrame, KeyFrame DEF Sound
  <1>8. SchemaInv("sqlite", e)
    BY <1>2, <1>3, <1>4, <1>5 DEF Sound, SchemaInv, Exists, Audits
  <1>9. GroupsHold(e, g)
    BY <1>3 DEF GroupsHold
  <1> QED
    BY <1>2, <1>3, <1>5, <1>6, <1>7, <1>8, <1>9 DEF e, Sound

LEMMA SourcesRenamed ==
    ASSUME NEW d, NEW g, IsDatabase(d), Sound("sqlite", d, g), d.applied = 3, GroupsHold(d, g),
           g.groups \subseteq Ids(d.rows["external_sources_rebuild"]), ~Flat(d),
           NEW s, s = Statement("rename_table", "external_sources_rebuild", "external_sources")
    PROVE  LET e == Executed(d, s)
           IN  /\ IsDatabase(e) /\ Sound("sqlite", e, g) /\ e.applied = d.applied
               /\ GroupsHold(e, g) /\ ~Flat(e) /\ ~Exists(e, "external_sources_rebuild")
  <1> DEFINE e == Executed(d, s)
  <1>1. "external_sources" \in Table /\ "external_sources_rebuild" \in Table
    BY DEF Table
  <1>2. /\ \A v \in Table : \A name :
              <<v, name>> \in e.objects <=>
                  \/ v # "external_sources_rebuild" /\ <<v, name>> \in d.objects
                  \/ v = "external_sources" /\ <<"external_sources_rebuild", name>> \in d.objects
        /\ e.applied = d.applied
        /\ e.rows["external_sources"] = d.rows["external_sources_rebuild"]
        /\ e.rows["external_sources_rebuild"] = {}
        /\ \A v \in Table \ {"external_sources_rebuild", "external_sources"} :
              e.rows[v] = d.rows[v]
        /\ IsDatabase(e)
    BY <1>1, TableNames, Renamed
  <1> HIDE DEF e
  <1>3. /\ e.rows["external_source_vault_targets"] = d.rows["external_source_vault_targets"]
        /\ e.rows["destination_groups"] = d.rows["destination_groups"]
        /\ e.rows["destination_group_vault_targets"] =
              d.rows["destination_group_vault_targets"]
        /\ \A t \in Audits \cup {"api_keys"} : e.rows[t] = d.rows[t]
    BY <1>2, TableNames DEF ContentTables, Audits
  <1>4. /\ \A t \in Audits \cup {"api_keys", "external_source_vault_targets"} : \A name :
              <<t, name>> \in e.objects <=> <<t, name>> \in d.objects
        /\ \A name : <<"external_sources_rebuild", name>> \notin e.objects
    BY <1>1, <1>2, TableNames DEF ContentTables, Audits
  <1>5. ~Flat(e) /\ (d.rows["external_sources_rebuild"] # {} => Exists(e, "external_sources"))
    BY <1>1, <1>2 DEF Flat, Sound, SchemaInv, Exists
  <1>6. ContentInv(e, g)
    <2>1. \A x \in g.groups : \E y \in e.rows["external_sources"] : y.id = x
      BY <1>2 DEF Ids
    <2> QED
      BY <1>2, <1>3, <1>5, <2>1 DEF Sound, ContentInv, GroupsHold
  <1>7. AuditInv(e, g) /\ KeyInv(e)
    BY <1>2, <1>3, <1>4, AuditFrame, KeyFrame DEF Sound
  <1>8. SchemaInv("sqlite", e)
    BY <1>2, <1>3, <1>4, <1>5 DEF Sound, SchemaInv, Exists, Audits
  <1>9. GroupsHold(e, g)
    BY <1>3 DEF GroupsHold
  <1> QED
    BY <1>2, <1>4, <1>5, <1>6, <1>7, <1>8, <1>9 DEF e, Sound, Exists

LEMMA TargetsDropped ==
    ASSUME NEW b, NEW d, NEW g, IsDatabase(d), Sound(b, d, g), d.applied = 3,
           GroupsHold(d, g), ~Flat(d),
           NEW s, s = Statement("drop_table", "external_source_vault_targets", "table")
    PROVE  LET e == Executed(d, s)
           IN  /\ IsDatabase(e) /\ Sound(b, e, g) /\ e.applied = d.applied
               /\ GroupsHold(e, g) /\ ~Flat(e)
               /\ ~Exists(e, "external_source_vault_targets")
               /\ Exists(e, "external_sources_rebuild") <=> Exists(d, "external_sources_rebuild")
  <1> DEFINE e == Executed(d, s)
             gone == "external_source_vault_targets"
  <1>1. Cascade(gone) = {gone} /\ gone \in Table
    BY DEF Cascade, Table
  <1>2. /\ e.objects = {o \in d.objects : o[1] # gone} /\ e.applied = d.applied
        /\ e.rows[gone] = {}
        /\ \A u \in Table \ {gone} : e.rows[u] = d.rows[u]
        /\ IsDatabase(e)
    BY <1>1, Dropped
  <1> HIDE DEF e
  <1>3. /\ e.rows["external_sources"] = d.rows["external_sources"]
        /\ e.rows["external_sources_rebuild"] = d.rows["external_sources_rebuild"]
        /\ e.rows["destination_groups"] = d.rows["destination_groups"]
        /\ e.rows["destination_group_vault_targets"] =
              d.rows["destination_group_vault_targets"]
        /\ \A t \in Audits \cup {"api_keys"} : e.rows[t] = d.rows[t]
    BY <1>2, TableNames DEF ContentTables, Audits
  <1>4. /\ \A t, name : t # gone => (<<t, name>> \in e.objects <=> <<t, name>> \in d.objects)
        /\ \A name : <<gone, name>> \notin e.objects
    BY <1>2
  <1>5. ~Flat(e) /\ ~Exists(e, gone)
    BY <1>4 DEF Flat, Exists
  <1>6. ContentInv(e, g)
    <2>2. e.rows["external_source_vault_targets"]
          \cup e.rows["destination_group_vault_targets"] = g.targets
      <3>1. d.rows["external_source_vault_targets"]
            \cup d.rows["destination_group_vault_targets"] = g.targets
        BY DEF Sound, ContentInv
      <3> QED
        BY <1>2, <1>3, <3>1 DEF GroupsHold
    <2> QED
      BY <1>2, <1>3, <1>5, <2>2 DEF Sound, ContentInv, GroupsHold
  <1>7. AuditInv(e, g) /\ KeyInv(e)
    BY <1>2, <1>3, <1>4, AuditFrame, KeyFrame DEF Sound
  <1>8. SchemaInv(b, e)
    BY <1>2, <1>3, <1>4, <1>5 DEF Sound, SchemaInv, Exists, Audits
  <1>9. GroupsHold(e, g)
    BY <1>2, <1>3 DEF GroupsHold
  <1>10. Exists(e, "external_sources_rebuild") <=> Exists(d, "external_sources_rebuild")
    BY <1>4 DEF Exists
  <1> QED
    BY <1>2, <1>5, <1>6, <1>7, <1>8, <1>9, <1>10 DEF e, Sound

LEMMA SourcesGrouped ==
    ASSUME NEW b, NEW d, NEW g, IsDatabase(d), Sound(b, d, g), d.applied = 3, GroupsHold(d, g),
           NEW s, s = Statement("set_group", "external_sources", "destination_group_id")
    PROVE  LET e == Executed(d, s)
           IN  IsDatabase(e) /\ Sound(b, e, g) /\ e.applied = d.applied /\ GroupsHold(e, g)
  <1> DEFINE e == Executed(d, s)
             new == {[id |-> x.id, group |-> x.id] : x \in d.rows["external_sources"]}
  <1>1. /\ e.objects = d.objects /\ e.applied = d.applied
        /\ \A u \in Table \ {"external_sources"} : e.rows[u] = d.rows[u]
        /\ e.rows["external_sources"] = new
        /\ IsDatabase(e)
    BY Grouped
  <1>2. /\ \A x \in new : x.id \in g.groups /\ x.group = x.id
        /\ \A x \in d.rows["external_sources"] : \E y \in new : y.id = x.id
        /\ d.rows["external_sources"] = {} => new = {}
    <2>1. \A x \in d.rows["external_sources"] : x.id \in g.groups
      BY DEF Sound, ContentInv
    <2>2. \A x : /\ [id |-> x.id, group |-> x.id].id = x.id
                 /\ [id |-> x.id, group |-> x.id].group = x.id
      OBVIOUS
    <2> QED
      BY <2>1, <2>2
  <1> HIDE DEF e, new
  <1>3. /\ e.rows["external_sources_rebuild"] = d.rows["external_sources_rebuild"]
        /\ e.rows["external_source_vault_targets"] = d.rows["external_source_vault_targets"]
        /\ e.rows["destination_groups"] = d.rows["destination_groups"]
        /\ e.rows["destination_group_vault_targets"] =
              d.rows["destination_group_vault_targets"]
        /\ \A t \in Audits \cup {"api_keys"} : e.rows[t] = d.rows[t]
    BY <1>1, TableNames DEF ContentTables, Audits
  <1>4. Flat(e) <=> Flat(d)
    BY <1>1 DEF Flat
  <1>5. ContentInv(e, g)
    <2>1. \A x \in Ids(d.rows["external_sources"]) : \E y \in e.rows["external_sources"] : y.id = x
      BY <1>1, <1>2 DEF Ids
    <2>2. Ids(d.rows["external_sources"]) \subseteq Ids(e.rows["external_sources"])
      BY <2>1 DEF Ids
    <2>3. \A x \in g.groups :
              \E y \in e.rows["external_sources"] \cup e.rows["external_sources_rebuild"] :
                  y.id = x
      BY <1>1, <1>2, <1>3 DEF Sound, ContentInv
    <2> QED
      BY <1>1, <1>2, <1>3, <1>4, <2>2, <2>3 DEF Sound, ContentInv
  <1>6. AuditInv(e, g) /\ KeyInv(e)
    BY <1>1, <1>3, AuditFrame, KeyFrame DEF Sound
  <1>7. SchemaInv(b, e)
    BY <1>1, <1>2, <1>3 DEF Sound, SchemaInv, Exists, Flat, Audits
  <1>8. GroupsHold(e, g)
    BY <1>3 DEF GroupsHold
  <1> QED
    BY <1>1, <1>5, <1>6, <1>7, <1>8 DEF e, Sound

LEMMA ScheduleDropped ==
    ASSUME NEW b, NEW d, NEW g, IsDatabase(d), Sound(b, d, g), d.applied = 3, GroupsHold(d, g),
           NEW s, s = Statement("drop_column", "external_sources", "cron_schedule")
    PROVE  LET e == Executed(d, s)
           IN  /\ IsDatabase(e) /\ Sound(b, e, g) /\ e.applied = d.applied
               /\ GroupsHold(e, g) /\ ~Flat(e)
  <1> DEFINE e == Executed(d, s)
  <1>1. /\ e.objects = d.objects \ {<<"external_sources", "cron_schedule">>,
                                    <<"external_sources", OwnerIndex>>}
        /\ e.rows = d.rows /\ e.applied = d.applied
        /\ IsDatabase(e)
    BY ColumnDropped
  <1> HIDE DEF e
  <1>2. ~Flat(e)
    BY <1>1 DEF Flat
  <1>3. \A t : Exists(e, t) <=> Exists(d, t)
    BY <1>1 DEF Exists, OwnerIndex
  <1>4. ContentInv(e, g)
    BY <1>1, <1>2 DEF Sound, ContentInv, GroupsHold
  <1>5. AuditInv(e, g) /\ KeyInv(e)
    BY <1>1, AuditFrame, KeyFrame DEF Sound
  <1>6. SchemaInv(b, e)
    BY <1>1, <1>2, <1>3 DEF Sound, SchemaInv
  <1>7. GroupsHold(e, g)
    BY <1>1 DEF GroupsHold
  <1> QED
    BY <1>1, <1>2, <1>4, <1>5, <1>6, <1>7 DEF e, Sound

\* The statements that both variants begin with.
LEMMA GroupBegins ==
    ASSUME NEW b, NEW d, NEW g, IsDatabase(d), Sound(b, d, g), d.applied = 3,
           NEW n \in 1..5, GroupProgress(b, d, n, g), NEW s,
           \/ n \in 1..3 /\ s.op \in Adding
              /\ s.on \in {"destination_groups", "destination_group_vault_targets"}
           \/ n = 4 /\ s = Statement("insert_select", "destination_groups", "external_sources")
           \/ n = 5 /\ s = Statement("insert_select", "destination_group_vault_targets",
                                     "external_source_vault_targets")
    PROVE  LET e == Executed(d, s)
           IN  IsDatabase(e) /\ Sound(b, e, g) /\ GroupProgress(b, e, n + 1, g)
  <1> DEFINE e == Executed(d, s)
  <1>1. CASE n \in 1..3
    <2>1. s.op \in Adding /\ s.on \in {"destination_groups", "destination_group_vault_targets"}
      BY <1>1
    <2>2. s.on \in Table
      BY <2>1 DEF Table
    <2>3. IsDatabase(e) /\ Sound(b, e, g)
      BY <2>1, <2>2, PlainStep
    <2> HIDE DEF e
    <2>4. GroupProgress(b, e, n + 1, g)
      BY <1>1 DEF GroupProgress
    <2> QED
      BY <2>3, <2>4 DEF e
  <1>2. CASE n = 4
    <2>1. s = Statement("insert_select", "destination_groups", "external_sources")
      BY <1>2
    <2>2. IsDatabase(e) /\ Sound(b, e, g) /\ g.groups \subseteq e.rows["destination_groups"]
      BY <2>1, GroupsFilled
    <2> HIDE DEF e
    <2>3. GroupProgress(b, e, n + 1, g)
      BY <1>2, <2>2 DEF GroupProgress
    <2> QED
      BY <2>2, <2>3 DEF e
  <1>3. CASE n = 5
    <2>1. s = Statement("insert_select", "destination_group_vault_targets",
                        "external_source_vault_targets")
      BY <1>3
    <2>2. /\ IsDatabase(e) /\ Sound(b, e, g)
          /\ e.rows["destination_groups"] = d.rows["destination_groups"]
          /\ e.rows["external_source_vault_targets"]
             \subseteq e.rows["destination_group_vault_targets"]
      BY <2>1, TargetsCopied
    <2> HIDE DEF e
    <2>3. GroupProgress(b, e, n + 1, g)
      BY <1>3, <2>2 DEF GroupProgress
    <2> QED
      BY <2>2, <2>3 DEF e
  <1> QED
    BY <1>1, <1>2, <1>3

LEMMA GroupCreation ==
    /\ CreateTable("destination_groups").op \in Adding
    /\ CreateTable("destination_groups").on = "destination_groups"
    /\ CreateIndex("destination_groups", "idx-destination_groups-owner_key_id").op \in Adding
    /\ CreateIndex("destination_groups", "idx-destination_groups-owner_key_id").on
          = "destination_groups"
    /\ CreateTable("destination_group_vault_targets").op \in Adding
    /\ CreateTable("destination_group_vault_targets").on = "destination_group_vault_targets"
  BY DEF CreateTable, CreateIndex, Statement, Adding

LEMMA GroupStepSqlite ==
    ASSUME NEW d, NEW g, IsDatabase(d), Sound("sqlite", d, g), d.applied = 3,
           NEW n \in 1..10, GroupProgress("sqlite", d, n, g),
           NEW s, s = DestinationGroups("sqlite")[n], Accepted(d, s)
    PROVE  LET e == Executed(d, s)
           IN  /\ IsDatabase(e) /\ Sound("sqlite", e, g)
               /\ GroupProgress("sqlite", e, n + 1, g)
  <1> DEFINE e == Executed(d, s)
  <1>1. CASE n \in 1..5
    <2>1. \/ n \in 1..3 /\ s.op \in Adding
             /\ s.on \in {"destination_groups", "destination_group_vault_targets"}
          \/ n = 4 /\ s = Statement("insert_select", "destination_groups", "external_sources")
          \/ n = 5 /\ s = Statement("insert_select", "destination_group_vault_targets",
                                    "external_source_vault_targets")
      <3>1. n = 1 \/ n = 2 \/ n = 3 \/ n = 4 \/ n = 5
        BY <1>1
      <3> QED
        BY <3>1, GroupStatementsSqlite, GroupCreation
    <2> QED
      BY <1>1, <2>1, GroupBegins
  <1>2. ASSUME n > 5 PROVE GroupsHold(d, g)
    BY <1>2 DEF GroupProgress, GroupsHold
  <1>3. ASSUME n = 6
        PROVE  IsDatabase(e) /\ Sound("sqlite", e, g) /\ GroupProgress("sqlite", e, n + 1, g)
    <2>1. s = Statement("create_table", "external_sources_rebuild", "table")
      BY <1>3, GroupStatementsSqlite
    <2>2. IsDatabase(e) /\ Sound("sqlite", e, g) /\ e.rows = d.rows
      BY <2>1, SourcesMade
    <2> HIDE DEF e
    <2> QED
      BY <1>2, <1>3, <2>2 DEF GroupProgress, GroupsHold
  <1>4. ASSUME n = 7
        PROVE  IsDatabase(e) /\ Sound("sqlite", e, g) /\ GroupProgress("sqlite", e, n + 1, g)
    <2>1. s = Statement("insert_select", "external_sources_rebuild", "external_sources")
      BY <1>4, GroupStatementsSqlite
    <2>2. /\ IsDatabase(e) /\ Sound("sqlite", e, g) /\ GroupsHold(e, g)
          /\ g.groups \subseteq Ids(e.rows["external_sources_rebuild"])
      BY <1>2, <1>4, <2>1, SourcesCopied
    <2> HIDE DEF e
    <2> QED
      BY <1>4, <2>2 DEF GroupProgress, GroupsHold
  <1>5. ASSUME n = 8
        PROVE  IsDatabase(e) /\ Sound("sqlite", e, g) /\ GroupProgress("sqlite", e, n + 1, g)
    <2>1. s = Statement("drop_table", "external_sources", "table")
      BY <1>5, GroupStatementsSqlite
    <2>2. g.groups \subseteq Ids(d.rows["external_sources_rebuild"])
      BY <1>5 DEF GroupProgress
    <2>3. /\ IsDatabase(e) /\ Sound("sqlite", e, g) /\ GroupsHold(e, g) /\ ~Flat(e)
          /\ e.rows["external_sources_rebuild"] = d.rows["external_sources_rebuild"]
      BY <1>2, <1>5, <2>1, <2>2, SourcesDropped
    <2> HIDE DEF e
    <2> QED
      BY <1>5, <2>2, <2>3 DEF GroupProgress, GroupsHold
  <1>6. ASSUME n = 9
        PROVE  IsDatabase(e) /\ Sound("sqlite", e, g) /\ GroupProgress("sqlite", e, n + 1, g)
    <2>1. s = Statement("rename_table", "external_sources_rebuild", "external_sources")
      BY <1>6, GroupStatementsSqlite
    <2>2. g.groups \subseteq Ids(d.rows["external_sources_rebuild"]) /\ ~Flat(d)
      BY <1>6 DEF GroupProgress
    <2>3. /\ IsDatabase(e) /\ Sound("sqlite", e, g) /\ GroupsHold(e, g) /\ ~Flat(e)
          /\ ~Exists(e, "external_sources_rebuild")
      BY <1>2, <1>6, <2>1, <2>2, SourcesRenamed
    <2> HIDE DEF e
    <2> QED
      BY <1>6, <2>3 DEF GroupProgress, GroupsHold
  <1>7. ASSUME n = 10
        PROVE  IsDatabase(e) /\ Sound("sqlite", e, g) /\ GroupProgress("sqlite", e, n + 1, g)
    <2>1. s = Statement("drop_table", "external_source_vault_targets", "table")
      BY <1>7, GroupStatementsSqlite
    <2>2. ~Flat(d) /\ ~Exists(d, "external_sources_rebuild")
      BY <1>7 DEF GroupProgress
    <2>3. /\ IsDatabase(e) /\ Sound("sqlite", e, g) /\ GroupsHold(e, g) /\ ~Flat(e)
          /\ ~Exists(e, "external_source_vault_targets")
          /\ ~Exists(e, "external_sources_rebuild")
      BY <1>2, <1>7, <2>1, <2>2, TargetsDropped
    <2> HIDE DEF e
    <2> QED
      BY <1>7, <2>3 DEF GroupProgress, GroupsHold
  <1>8. n \in 1..5 \/ n = 6 \/ n = 7 \/ n = 8 \/ n = 9 \/ n = 10
    OBVIOUS
  <1> QED
    BY <1>1, <1>3, <1>4, <1>5, <1>6, <1>7, <1>8

LEMMA GroupStep ==
    ASSUME NEW b, b # "sqlite", NEW d, NEW g, IsDatabase(d), Sound(b, d, g), d.applied = 3,
           NEW n \in 1..11, GroupProgress(b, d, n, g),
           NEW s, s = DestinationGroups(b)[n], Accepted(d, s)
    PROVE  LET e == Executed(d, s)
           IN  IsDatabase(e) /\ Sound(b, e, g) /\ GroupProgress(b, e, n + 1, g)
  <1> DEFINE e == Executed(d, s)
  <1>1. CASE n \in 1..5
    <2>1. \/ n \in 1..3 /\ s.op \in Adding
             /\ s.on \in {"destination_groups", "destination_group_vault_targets"}
          \/ n = 4 /\ s = Statement("insert_select", "destination_groups", "external_sources")
          \/ n = 5 /\ s = Statement("insert_select", "destination_group_vault_targets",
                                    "external_source_vault_targets")
      <3>1. n = 1 \/ n = 2 \/ n = 3 \/ n = 4 \/ n = 5
        BY <1>1
      <3> QED
        BY <3>1, GroupStatements, GroupCreation
    <2> QED
      BY <1>1, <2>1, GroupBegins
  <1>2. ASSUME n > 5 PROVE GroupsHold(d, g)
    BY <1>2 DEF GroupProgress, GroupsHold
  <1>3. ASSUME n \in {6, 8, 9}
        PROVE  IsDatabase(e) /\ Sound(b, e, g) /\ GroupProgress(b, e, n + 1, g)
    <2>1. /\ s.op \in {"add_column", "set_not_null", "add_foreign_key"}
          /\ s.on = "external_sources" /\ s.arg # "cron_schedule"
      <3>1. \/ s = Statement("add_column", "external_sources", "destination_group_id")
            \/ s = Statement("set_not_null", "external_sources", "destination_group_id")
            \/ s = Statement("add_foreign_key", "external_sources", "destination_groups")
        BY <1>3, GroupStatements
      <3>2. \/ s.op = "add_column" /\ s.on = "external_sources" /\ s.arg = "destination_group_id"
            \/ s.op = "set_not_null" /\ s.on = "external_sources"
               /\ s.arg = "destination_group_id"
            \/ s.op = "add_foreign_key" /\ s.on = "external_sources"
               /\ s.arg = "destination_groups"
        BY <3>1, StatementFields
      <3> QED
        BY <3>2
    <2>2. s.op \in Adding /\ s.on \in Table
      BY <2>1 DEF Adding, Table
    <2>3. IsDatabase(e) /\ Sound(b, e, g) /\ Plain(d, e)
      BY <2>1, <2>2, PlainStep
    <2> HIDE DEF e
    <2> QED
      BY <1>2, <1>3, <2>3 DEF GroupProgress, GroupsHold, Plain
  <1>4. ASSUME n = 7
        PROVE  IsDatabase(e) /\ Sound(b, e, g) /\ GroupProgress(b, e, n + 1, g)
    <2>1. s = Statement("set_group", "external_sources", "destination_group_id")
      BY <1>4, GroupStatements
    <2>2. IsDatabase(e) /\ Sound(b, e, g) /\ GroupsHold(e, g)
      BY <1>2, <1>4, <2>1, SourcesGrouped
    <2> HIDE DEF e
    <2> QED
      BY <1>4, <2>2 DEF GroupProgress, GroupsHold
  <1>5. ASSUME n = 10
        PROVE  IsDatabase(e) /\ Sound(b, e, g) /\ GroupProgress(b, e, n + 1, g)
    <2>1. s = Statement("drop_column", "external_sources", "cron_schedule")
      BY <1>5, GroupStatements
    <2>2. IsDatabase(e) /\ Sound(b, e, g) /\ GroupsHold(e, g) /\ ~Flat(e)
      BY <1>2, <1>5, <2>1, ScheduleDropped
    <2> HIDE DEF e
    <2> QED
      BY <1>5, <2>2 DEF GroupProgress, GroupsHold
  <1>6. ASSUME n = 11
        PROVE  IsDatabase(e) /\ Sound(b, e, g) /\ GroupProgress(b, e, n + 1, g)
    <2>1. s = Statement("drop_table", "external_source_vault_targets", "table")
      BY <1>6, GroupStatements
    <2>2. ~Flat(d)
      BY <1>6 DEF GroupProgress
    <2>3. /\ IsDatabase(e) /\ Sound(b, e, g) /\ GroupsHold(e, g) /\ ~Flat(e)
          /\ ~Exists(e, "external_source_vault_targets")
      BY <1>2, <1>6, <2>1, <2>2, TargetsDropped
    <2> HIDE DEF e
    <2> QED
      BY <1>6, <2>3 DEF GroupProgress, GroupsHold
  <1>7. n \in 1..5 \/ n \in {6, 8, 9} \/ n = 7 \/ n = 10 \/ n = 11
    OBVIOUS
  <1> QED
    BY <1>1, <1>3, <1>4, <1>5, <1>6, <1>7

---------------------------------------------------------------------------
(* Any statement of any migration, and the migration once it is through.    *)

\* The number of statements of the migration that follows the first n.
StatementsOf(b, n) ==
    CASE n = 0 -> 18
      [] n = 1 -> 3
      [] n = 2 -> IF b = "sqlite" THEN 8 ELSE 6
      [] n = 3 -> IF b = "sqlite" THEN 10 ELSE 11
      [] n = 4 -> 1

LEMMA MigrationLength ==
    ASSUME NEW b, NEW n \in 0..4
    PROVE  /\ Len(Migrations(b)[n + 1]) = StatementsOf(b, n)
           /\ StatementsOf(b, n) \in 1..18
  <1>1. n = 0 \/ n = 1 \/ n = 2 \/ n = 3 \/ n = 4
    OBVIOUS
  <1>2. CASE n = 0
    <2>1. Migrations(b)[n + 1] = InitialSchema
      BY <1>2, MigrationList
    <2> QED
      BY <1>2, <2>1, InitialStatements DEF StatementsOf
  <1>3. CASE n = 1
    <2>1. Migrations(b)[n + 1] = DeriveMasterMarker
      BY <1>3, MigrationList
    <2> QED
      BY <1>3, <2>1, MarkerStatements DEF StatementsOf
  <1>4. CASE n = 2
    <2>1. Migrations(b)[n + 1] = AuditAttributionNotNull(b)
      BY <1>4, MigrationList
    <2>2. Len(AuditAttributionNotNull(b)) = IF b = "sqlite" THEN 8 ELSE 6
      BY AuditStatementsSqlite, AuditStatements
    <2> QED
      BY <1>4, <2>1, <2>2 DEF StatementsOf
  <1>5. CASE n = 3
    <2>1. Migrations(b)[n + 1] = DestinationGroups(b)
      BY <1>5, MigrationList
    <2>2. Len(DestinationGroups(b)) = IF b = "sqlite" THEN 10 ELSE 11
      BY GroupStatementsSqlite, GroupStatements
    <2> QED
      BY <1>5, <2>1, <2>2 DEF StatementsOf
  <1>6. CASE n = 4
    <2>1. Migrations(b)[n + 1] = VaultSyncTaskBogonFiltering
      BY <1>6, MigrationList
    <2> QED
      BY <1>6, <2>1, FilterStatements DEF StatementsOf
  <1> QED
    BY <1>1, <1>2, <1>3, <1>4, <1>5, <1>6

\* An accepted statement, whichever it is, leaves a sound database and takes
\* the migration one statement further.
LEMMA StatementStep ==
    ASSUME NEW b \in Backend, NEW d, NEW g, IsDatabase(d), Sound(b, d, g), d.applied \in 0..4,
           NEW n \in 1..StatementsOf(b, d.applied), Progress(b, d, n, g),
           NEW s, s = Migrations(b)[d.applied + 1][n], Accepted(d, s)
    PROVE  LET e == Executed(d, s)
           IN  /\ IsDatabase(e) /\ Sound(b, e, g) /\ Progress(b, e, n + 1, g)
               /\ e.applied = d.applied
  <1> DEFINE e == Executed(d, s)
             Further(x) == IsDatabase(x) /\ Sound(b, x, g) /\ Progress(b, x, n + 1, g)
  <1>0. e.applied = d.applied
    BY ExecutedFields
  <1>1. d.applied = 0 \/ d.applied = 1 \/ d.applied = 2 \/ d.applied = 3 \/ d.applied = 4
    OBVIOUS
  <1>2. ASSUME d.applied = 0 PROVE Further(e)
    <2>1. Migrations(b)[d.applied + 1] = InitialSchema
      BY <1>2, MigrationList
    <2>2. n \in 1..18
      BY <1>2 DEF StatementsOf
    <2>3. s \in Making
      BY <2>1, <2>2, InitialStatements
    <2>4. IsDatabase(e) /\ Sound(b, e, g)
      BY <1>2, <2>3, InitialStep
    <2> HIDE DEF e
    <2> QED
      BY <1>0, <1>2, <2>4 DEF Progress
  <1>3. ASSUME d.applied = 1 PROVE Further(e)
    <2>1. Migrations(b)[d.applied + 1] = DeriveMasterMarker
      BY <1>3, MigrationList
    <2>2. n \in 1..3 /\ MarkerProgress(d, n)
      BY <1>3 DEF StatementsOf, Progress
    <2>3. IsDatabase(e) /\ Sound(b, e, g) /\ MarkerProgress(e, n + 1)
      BY <1>3, <2>1, <2>2, MarkerStep
    <2> HIDE DEF e
    <2> QED
      BY <1>0, <1>3, <2>3 DEF Progress
  <1>4. ASSUME d.applied = 2 PROVE Further(e)
    <2>1. Migrations(b)[d.applied + 1] = AuditAttributionNotNull(b)
      BY <1>4, MigrationList
    <2>2. n \in 1..(IF b = "sqlite" THEN 8 ELSE 6) /\ AuditProgress(b, d, n, g)
      BY <1>4 DEF StatementsOf, Progress
    <2>3. IsDatabase(e) /\ Sound(b, e, g) /\ AuditProgress(b, e, n + 1, g)
      <3>1. CASE b = "sqlite"
        BY <1>4, <2>1, <2>2, <3>1, AuditStepSqlite
      <3>2. CASE b # "sqlite"
        BY <1>4, <2>1, <2>2, <3>2, AuditStep
      <3> QED
        BY <3>1, <3>2
    <2> HIDE DEF e
    <2> QED
      BY <1>0, <1>4, <2>3 DEF Progress
  <1>5. ASSUME d.applied = 3 PROVE Further(e)
    <2>1. Migrations(b)[d.applied + 1] = DestinationGroups(b)
      BY <1>5, MigrationList
    <2>2. n \in 1..(IF b = "sqlite" THEN 10 ELSE 11) /\ GroupProgress(b, d, n, g)
      BY <1>5 DEF StatementsOf, Progress
    <2>3. IsDatabase(e) /\ Sound(b, e, g) /\ GroupProgress(b, e, n + 1, g)
      <3>1. CASE b = "sqlite"
        BY <1>5, <2>1, <2>2, <3>1, GroupStepSqlite
      <3>2. CASE b # "sqlite"
        BY <1>5, <2>1, <2>2, <3>2, GroupStep
      <3> QED
        BY <3>1, <3>2
    <2> HIDE DEF e
    <2> QED
      BY <1>0, <1>5, <2>3 DEF Progress
  <1>6. ASSUME d.applied = 4 PROVE Further(e)
    <2>1. Migrations(b)[d.applied + 1] = VaultSyncTaskBogonFiltering
      BY <1>6, MigrationList
    <2>2. n = 1
      BY <1>6 DEF StatementsOf
    <2>3. IsDatabase(e) /\ Sound(b, e, g)
      BY <2>1, <2>2, FilterStep
    <2> HIDE DEF e
    <2> QED
      BY <1>0, <1>6, <2>3 DEF Progress
  <1> QED
    BY <1>0, <1>1, <1>2, <1>3, <1>4, <1>5, <1>6

\* No statement of a migration writes to the tables that hold secrets.
SecretTable == {"api_keys", "vault_endpoints"}
Rewriting == {"insert_select", "drop_table", "rename_table", "set_unknown", "set_group"}
Elsewhere(s) == s.op \in Rewriting => s.on \notin SecretTable /\ s.arg \notin SecretTable

LEMMA ElsewhereStatement ==
    ASSUME NEW op, NEW on, NEW arg,
           op \notin Rewriting \/ (on \notin SecretTable /\ arg \notin SecretTable)
    PROVE  Elsewhere(Statement(op, on, arg))
  BY DEF Elsewhere, Statement

LEMMA MigrationsElsewhere ==
    ASSUME NEW b, NEW a \in 0..4, NEW n \in 1..StatementsOf(b, a)
    PROVE  Elsewhere(Migrations(b)[a + 1][n])
  <1> DEFINE s == Migrations(b)[a + 1][n]
  <1>1. a = 0 \/ a = 1 \/ a = 2 \/ a = 3 \/ a = 4
    OBVIOUS
  <1>2. CASE a = 0
    <2>1. s \in Making
      BY <1>2, MigrationList, InitialStatements DEF StatementsOf
    <2> HIDE DEF s
    <2>2. s.op \notin Rewriting
      BY <2>1 DEF Making, Rewriting
    <2>3. Elsewhere(s)
      BY <2>2 DEF Elsewhere
    <2> QED
      BY <2>3 DEF s
  <1>3. CASE a = 1
    <2>1. n = 1 \/ n = 2 \/ n = 3
      BY <1>3 DEF StatementsOf
    <2>2. \E op \in {"at_most_one_master", "add_column", "create_index"} : \E on, arg :
              s = Statement(op, on, arg)
      BY <1>3, <2>1, MigrationList, MarkerStatements DEF CreateIndex
    <2> HIDE DEF s
    <2>3. Elsewhere(s)
      BY <2>2, ElsewhereStatement DEF Rewriting
    <2> QED
      BY <2>3 DEF s
  <1>4. CASE a = 2 /\ b = "sqlite"
    <2>1. n \in 1..8 /\ s = AuditAttributionNotNull("sqlite")[n]
      BY <1>4, MigrationList DEF StatementsOf
    <2>2. \E op : \E on \in {"audit_logs", "audit_logs_rebuild"} :
          \E arg \in Column \cup {"table", "audit_logs", "idx-audit_logs-action_timestamp"} :
              s = Statement(op, on, arg)
      BY <2>1, AuditStatementsSqlite DEF CreateIndex, Column
    <2> HIDE DEF s
    <2>3. Elsewhere(s)
      BY <2>2, ElsewhereStatement DEF SecretTable, Column
    <2> QED
      BY <2>3 DEF s
  <1>5. CASE a = 2 /\ b # "sqlite"
    <2>1. n \in 1..6 /\ s = AuditAttributionNotNull(b)[n]
      BY <1>5, MigrationList DEF StatementsOf
    <2>2. \E op : \E arg \in Column : s = Statement(op, "audit_logs", arg)
      BY <1>5, <2>1, AuditStatements DEF Column
    <2> HIDE DEF s
    <2>3. Elsewhere(s)
      BY <2>2, ElsewhereStatement DEF SecretTable, Column
    <2> QED
      BY <2>3 DEF s
  <1> DEFINE Ons == {"destination_groups", "destination_group_vault_targets",
                     "external_sources_rebuild", "external_sources",
                     "external_source_vault_targets"}
             Args == Ons \cup {"table", "idx-destination_groups-owner_key_id",
                               "destination_group_id", "cron_schedule"}
  <1>6. CASE a = 3 /\ b = "sqlite"
    <2>1. n \in 1..10 /\ s = DestinationGroups("sqlite")[n]
      BY <1>6, MigrationList DEF StatementsOf
    <2>2. \E op : \E on \in Ons : \E arg \in Args : s = Statement(op, on, arg)
      BY <2>1, GroupStatementsSqlite DEF CreateIndex, CreateTable
    <2> HIDE DEF s
    <2>3. Elsewhere(s)
      BY <2>2, ElsewhereStatement DEF SecretTable
    <2> QED
      BY <2>3 DEF s
  <1>7. CASE a = 3 /\ b # "sqlite"
    <2>1. n \in 1..11 /\ s = DestinationGroups(b)[n]
      BY <1>7, MigrationList DEF StatementsOf
    <2>2. \E op : \E on \in Ons : \E arg \in Args : s = Statement(op, on, arg)
      BY <1>7, <2>1, GroupStatements DEF CreateIndex, CreateTable
    <2> HIDE DEF s
    <2>3. Elsewhere(s)
      BY <2>2, ElsewhereStatement DEF SecretTable
    <2> QED
      BY <2>3 DEF s
  <1>8. CASE a = 4
    <2>1. s = Statement("add_column", "vault_sync_tasks", "skip_bogon_filtering")
      BY <1>8, MigrationList, FilterStatements DEF StatementsOf
    <2> HIDE DEF s
    <2>2. Elsewhere(s)
      BY <2>1, ElsewhereStatement DEF Rewriting
    <2> QED
      BY <2>2 DEF s
  <1> QED
    BY <1>1, <1>2, <1>3, <1>4, <1>5, <1>6, <1>7, <1>8

LEMMA SecretsKept ==
    ASSUME NEW d, IsDatabase(d), NEW s, Elsewhere(s)
    PROVE  \A t \in SecretTable : Executed(d, s).rows[t] = d.rows[t]
  <1> SUFFICES ASSUME NEW t \in SecretTable PROVE Executed(d, s).rows[t] = d.rows[t]
    OBVIOUS
  <1>1. Executed(d, s).rows = RowsAfter(d, s)
    BY ExecutedFields
  <1>2. t \in Table /\ DOMAIN d.rows = Table
    BY DEF SecretTable, Table, IsDatabase
  <1>3. CASE s.op \notin Rewriting
    BY <1>1, <1>3 DEF RowsAfter, Rewriting
  <1>4. CASE s.op = "insert_select"
    BY <1>1, <1>2, <1>4 DEF RowsAfter, Elsewhere, Rewriting
  <1>5. CASE s.op = "drop_table"
    <2>1. t \notin Cascade(s.on)
      BY <1>5 DEF Cascade, Elsewhere, Rewriting, SecretTable
    <2> QED
      BY <1>1, <1>2, <1>5, <2>1 DEF RowsAfter
  <1>6. CASE s.op = "rename_table"
    BY <1>1, <1>2, <1>6 DEF RowsAfter, Elsewhere, Rewriting
  <1>7. CASE s.op = "set_unknown"
    BY <1>1, <1>2, <1>7 DEF RowsAfter, Elsewhere, Rewriting
  <1>8. CASE s.op = "set_group"
    BY <1>1, <1>2, <1>8 DEF RowsAfter, Elsewhere, Rewriting
  <1> QED
    BY <1>3, <1>4, <1>5, <1>6, <1>7, <1>8 DEF Rewriting

LEMMA SealFrame ==
    ASSUME NEW d, NEW e, \A t \in SecretTable : e.rows[t] = d.rows[t], SealedAlike(d)
    PROVE  SealedAlike(e)
  <1>1. Masters(e) = Masters(d) /\ Secrets(e) = Secrets(d)
    BY DEF SecretTable, Masters, Secrets
  <1> QED
    BY <1>1 DEF SealedAlike

\* A source whose group is unset, or itself, reads as its own group.
LEMMA FeedsOfGroups ==
    ASSUME NEW d, NEW g, IsDatabase(d), ContentInv(d, g), d.applied = 3,
           d.rows["external_sources_rebuild"] = {}
    PROVE  FeedsOf(d) = g.feeds
  <1> DEFINE R == d.rows["external_sources"]
             Read(x) == [id |-> x.id, group |-> IF x.group = None THEN x.id ELSE x.group]
  <1>1. /\ g.feeds = {[id |-> s, group |-> s] : s \in g.groups}
        /\ \A x \in R : x.id \in g.groups /\ x.group \in {None, x.id}
        /\ \A s \in g.groups : \E x \in R : x.id = s
    BY DEF ContentInv
  <1>2. \A x \in R : Read(x) = [id |-> x.id, group |-> x.id]
    BY <1>1
  <1>3. FeedsOf(d) = {Read(x) : x \in R}
    BY DEF FeedsOf, FeedsIn
  <1> HIDE DEF R
  <1> QED
    BY <1>1, <1>2, <1>3

\* A migration that ran to its end and is noted leaves a sound database.
LEMMA MigrationStep ==
    ASSUME NEW b \in Backend, NEW d, NEW g, IsDatabase(d), Sound(b, d, g), d.applied \in 0..4,
           NEW n, n = StatementsOf(b, d.applied) + 1, Progress(b, d, n, g)
    PROVE  LET e == [d EXCEPT !.applied = @ + 1]
           IN  IsDatabase(e) /\ Sound(b, e, g) /\ e.applied = d.applied + 1
  <1> DEFINE e == [d EXCEPT !.applied = @ + 1]
  <1>1. /\ e.objects = d.objects /\ e.rows = d.rows /\ e.applied = d.applied + 1
        /\ DOMAIN e = {"objects", "rows", "applied"}
    BY DEF IsDatabase
  <1> HIDE DEF e
  <1>2. IsDatabase(e)
    BY <1>1 DEF IsDatabase, Latest
  <1>3. /\ Masters(e) = Masters(d) /\ (Flat(e) <=> Flat(d)) /\ FeedsOf(e) = FeedsOf(d)
        /\ \A t : Exists(e, t) <=> Exists(d, t)
    BY <1>1 DEF Masters, Flat, FeedsOf, Exists
  <1>4. d.applied = 1 => <<"api_keys", MasterIndex>> \in d.objects /\ Cardinality(Masters(d)) <= 1
    BY DEF Progress, MarkerProgress, StatementsOf
  <1>5. d.applied = 2 => /\ ~Exists(d, "audit_logs_rebuild")
                         /\ \A col \in Column : Unattributed(d, col) = {}
    <2> SUFFICES ASSUME d.applied = 2
                 PROVE  /\ ~Exists(d, "audit_logs_rebuild")
                        /\ \A col \in Column : Unattributed(d, col) = {}
      OBVIOUS
    <2>1. n = (IF b = "sqlite" THEN 9 ELSE 7) /\ AuditProgress(b, d, n, g)
      BY DEF StatementsOf, Progress
    <2>2. ~Exists(d, "audit_logs_rebuild")
      BY <2>1 DEF AuditProgress, Sound, SchemaInv
    <2> QED
      BY <2>1, <2>2 DEF AuditProgress, Column
  <1>6. d.applied = 3 => /\ ~Exists(d, "external_sources_rebuild")
                         /\ ~Exists(d, "external_source_vault_targets")
                         /\ ~Flat(d)
    <2> SUFFICES ASSUME d.applied = 3
                 PROVE  /\ ~Exists(d, "external_sources_rebuild")
                        /\ ~Exists(d, "external_source_vault_targets")
                        /\ ~Flat(d)
      OBVIOUS
    <2>1. n = (IF b = "sqlite" THEN 11 ELSE 12) /\ GroupProgress(b, d, n, g)
      BY DEF StatementsOf, Progress
    <2> QED
      BY <2>1 DEF GroupProgress, Sound, SchemaInv
  <1>7. SchemaInv(b, e)
    BY <1>1, <1>3, <1>5, <1>6 DEF Sound, SchemaInv
  <1>8. ContentInv(e, g)
    <2>1. CASE d.applied \in 0..2
      BY <1>1, <1>3, <2>1 DEF Sound, ContentInv
    <2>2. CASE d.applied = 3
      <3>1. d.rows["external_sources_rebuild"] = {}
        BY <1>6, <2>2 DEF Sound, SchemaInv
      <3>2. FeedsOf(e) = g.feeds
        BY <1>3, <2>2, <3>1, FeedsOfGroups DEF Sound
      <3>3. d.rows["destination_groups"] = g.groups
        <4>1. d.rows["destination_groups"] \subseteq g.groups
          BY <2>2 DEF Sound, ContentInv
        <4>2. IF Flat(d) THEN g.groups \subseteq Ids(d.rows["external_sources"])
                         ELSE g.groups \subseteq d.rows["destination_groups"]
          BY <2>2 DEF Sound, ContentInv
        <4> QED
          BY <1>6, <2>2, <4>1, <4>2
      <3> QED
        BY <1>1, <2>2, <3>2, <3>3 DEF Sound, ContentInv
    <2>3. CASE d.applied = 4
      BY <1>1, <1>3, <2>3 DEF Sound, ContentInv
    <2> QED
      BY <2>1, <2>2, <2>3
  <1>9. AuditInv(e, g)
    BY <1>1, <1>5, AttributedColumns DEF Sound, AuditInv
  <1>10. KeyInv(e)
    BY <1>1, <1>3, <1>4 DEF Sound, KeyInv
  <1>11. Sound(b, e, g)
    BY <1>7, <1>8, <1>9, <1>10 DEF Sound
  <1> QED
    BY <1>1, <1>2, <1>11 DEF e

\* Before the first statement of any migration there is no progress to ask for.
LEMMA ProgressAtStart == ASSUME NEW b, NEW d, NEW g PROVE Progress(b, d, 1, g)
  BY DEF Progress, MarkerProgress, AuditProgress, GroupProgress

---------------------------------------------------------------------------
(* The databases of the first start.                                        *)

History == [feeds : SUBSET Feed, groups : SUBSET Sources,
            targets : SUBSET (Sources \X Vaults), trail : SUBSET Audit]

LEMMA RowTypes ==
    ASSUME NEW d, IsDatabase(d)
    PROVE  /\ d.rows["external_sources"] \subseteq Feed
           /\ d.rows["external_sources_rebuild"] \subseteq Feed
           /\ d.rows["destination_groups"] \subseteq Sources
           /\ d.rows["external_source_vault_targets"] \subseteq Sources \X Vaults
           /\ d.rows["destination_group_vault_targets"] \subseteq Sources \X Vaults
           /\ d.rows["audit_logs"] \subseteq Audit
           /\ d.rows["audit_logs_rebuild"] \subseteq Audit
           /\ d.rows["sync_logs"] \subseteq LogRows
           /\ d.rows["api_keys"] \subseteq ApiKey
           /\ d.rows["vault_endpoints"] \subseteq VaultEndpoint
  <1>1. /\ RowOf("external_sources") = Feed /\ RowOf("external_sources_rebuild") = Feed
        /\ RowOf("destination_groups") = Sources
        /\ RowOf("external_source_vault_targets") = Sources \X Vaults
        /\ RowOf("destination_group_vault_targets") = Sources \X Vaults
        /\ RowOf("audit_logs") = Audit /\ RowOf("audit_logs_rebuild") = Audit
        /\ RowOf("sync_logs") = LogRows /\ RowOf("api_keys") = ApiKey
        /\ RowOf("vault_endpoints") = VaultEndpoint
    BY DEF RowOf
  <1>2. \A t \in Table : d.rows[t] \subseteq RowOf(t)
    BY DEF IsDatabase
  <1> QED
    BY <1>1, <1>2 DEF Table

LEMMA ContentType ==
    ASSUME NEW d, IsDatabase(d)
    PROVE  Content(d) \in History
  <1>1. FeedsOf(d) \in SUBSET Feed
    <2>1. \A x \in Feed :
              [id |-> x.id, group |-> IF x.group = None THEN x.id ELSE x.group] \in Feed
      BY DEF Feed
    <2> QED
      BY <2>1, RowTypes DEF FeedsOf, FeedsIn
  <1>2. GroupsOf(d) \in SUBSET Sources
    BY RowTypes DEF GroupsOf, Feed
  <1>3. TargetsOf(d) \in SUBSET (Sources \X Vaults)
    BY RowTypes DEF TargetsOf
  <1>4. d.rows["audit_logs"] \in SUBSET Audit
    BY RowTypes
  <1> QED
    BY <1>1, <1>2, <1>3, <1>4 DEF Content, History

LEMMA ContentFields ==
    ASSUME NEW d
    PROVE  /\ Content(d).feeds = FeedsOf(d) /\ Content(d).groups = GroupsOf(d)
           /\ Content(d).targets = TargetsOf(d) /\ Content(d).trail = d.rows["audit_logs"]
  BY DEF Content

LEMMA InstalledSound ==
    ASSUME NEW b, NEW d, IsDatabase(d), Installed(d)
    PROVE  Sound(b, d, Content(d))
  <1> DEFINE g == Content(d)
  <1>1. /\ g.feeds = FeedsOf(d) /\ g.groups = GroupsOf(d)
        /\ g.targets = TargetsOf(d) /\ g.trail = d.rows["audit_logs"]
    BY ContentFields
  <1>2. d.applied \in 0..5
    BY DEF IsDatabase, Latest
  <1>3. /\ d.rows["external_sources_rebuild"] = {} /\ d.rows["audit_logs_rebuild"] = {}
        /\ ~Exists(d, "external_sources_rebuild") /\ ~Exists(d, "audit_logs_rebuild")
        /\ <<"external_sources_rebuild", "cron_schedule">> \notin d.objects
    BY DEF Installed, Exists
  <1> HIDE DEF g
  <1>4. SchemaInv(b, d)
    BY <1>2, <1>3 DEF SchemaInv, Installed
  <1>5. ContentInv(d, g)
    <2>1. d.applied = 0 => \A t \in Table : d.rows[t] = {}
      BY DEF Installed
    <2>2. d.applied = 0 => g.groups = {} /\ g.targets = {} /\ g.trail = {}
      BY <1>1, <2>1 DEF GroupsOf, TargetsOf, Table
    <2>3. d.rows["external_source_vault_targets"]
          \cup d.rows["destination_group_vault_targets"] = g.targets
      BY <1>1 DEF TargetsOf
    <2>4. ASSUME d.applied <= 3
          PROVE  /\ g.feeds = {[id |-> s, group |-> s] : s \in g.groups}
                 /\ \A e \in d.rows["external_sources"] : e.id \in g.groups /\ e.group = None
                 /\ \A s \in g.groups : \E e \in d.rows["external_sources"] : e.id = s
                 /\ d.rows["destination_groups"] = {}
      <3>1. /\ \A e \in d.rows["external_sources"] : e.group = None
            /\ d.rows["destination_groups"] = {}
        BY <2>4 DEF Installed
      <3>2. g.groups = {e.id : e \in d.rows["external_sources"]}
        <4>1. CASE Flat(d)
          BY <1>1, <4>1 DEF GroupsOf
        <4>2. CASE ~Flat(d)
          <5>1. d.applied = 0
            BY <1>2, <2>4, <4>2 DEF Installed
          <5> QED
            BY <2>1, <2>2, <5>1 DEF Table
        <4> QED
          BY <4>1, <4>2
      <3>3. g.feeds = {[id |-> e.id, group |-> e.id] : e \in d.rows["external_sources"]}
        BY <1>1, <3>1 DEF FeedsOf, FeedsIn
      <3> QED
        BY <3>1, <3>2, <3>3
    <2>5. d.applied <= 3 => IF Flat(d) THEN g.groups \subseteq Ids(d.rows["external_sources"])
                                       ELSE g.groups \subseteq d.rows["destination_groups"]
      <3>1. Flat(d) => g.groups = Ids(d.rows["external_sources"])
        BY <1>1 DEF GroupsOf, Ids
      <3>2. ~Flat(d) => g.groups = d.rows["destination_groups"]
        BY <1>1 DEF GroupsOf
      <3> QED
        BY <3>1, <3>2
    <2>6. d.applied >= 4 => /\ FeedsOf(d) = g.feeds
                            /\ d.rows["destination_groups"] = g.groups
      BY <1>1 DEF GroupsOf, Installed
    <2>7. d.applied <= 3 =>
            /\ g.feeds = {[id |-> s, group |-> s] : s \in g.groups}
            /\ \A e \in d.rows["external_sources"] \cup d.rows["external_sources_rebuild"] :
                  e.id \in g.groups /\ e.group \in {None, e.id}
            /\ \A s \in g.groups :
                  \E e \in d.rows["external_sources"] \cup d.rows["external_sources_rebuild"] :
                      e.id = s
            /\ d.rows["destination_groups"] \subseteq g.groups
      BY <1>3, <2>4
    <2> QED
      BY <2>2, <2>3, <2>5, <2>6, <2>7 DEF ContentInv
  <1>6. AuditInv(d, g)
    <2>1. Keeps(d.rows["audit_logs"] \cup d.rows["audit_logs_rebuild"], g.trail)
      BY <1>1 DEF Keeps
    <2> QED
      BY <1>3, <2>1 DEF AuditInv, Attributed, Installed
  <1>7. KeyInv(d)
    BY DEF KeyInv, Installed
  <1> QED
    BY <1>4, <1>5, <1>6, <1>7 DEF Sound, g

\* Before its first statement every migration is within its bounds.
LEMMA AtStart ==
    ASSUME NEW b, NEW d, IsDatabase(d)
    PROVE  1 \in 1..(IF d.applied < Latest THEN Len(Migrations(b)[d.applied + 1]) + 1 ELSE 1)
  <1>1. d.applied \in 0..5
    BY DEF IsDatabase, Latest
  <1>2. CASE d.applied < 5
    <2>1. d.applied \in 0..4
      BY <1>1, <1>2
    <2>2. /\ Len(Migrations(b)[d.applied + 1]) = StatementsOf(b, d.applied)
          /\ StatementsOf(b, d.applied) \in 1..18
      BY <2>1, MigrationLength
    <2> QED
      BY <1>2, <2>2 DEF Latest
  <1>3. CASE ~(d.applied < 5)
    BY <1>3 DEF Latest
  <1> QED
    BY <1>2, <1>3

LEMMA InitInvariant == Init => IInv
  <1> SUFFICES ASSUME Init PROVE IInv
    OBVIOUS
  <1>1. PICK i \in Installations : backend = i.backend /\ db = i.db
    BY DEF Init, BootInit
  <1>2. backend \in Backend /\ IsDatabase(db) /\ Installed(db)
    BY <1>1, BootAssumption
  <1>3. /\ saved = None /\ phase = "down" /\ at = 1 /\ env \in Environments /\ pinned = None
        /\ given = Content(db) /\ torn = FALSE /\ crashes = 0 /\ changes = 0
        /\ worker = "off" /\ mixed = ~SealedAlike(db)
    BY DEF Init, BootInit
  <1>4. Sound(backend, db, given)
    BY <1>2, <1>3, InstalledSound
  <1>5. given \in History
    BY <1>2, <1>3, ContentType
  <1>6. TypeOK
    <2>1. mixed \in BOOLEAN
      BY <1>3, Zenon
    <2> QED
      BY <1>2, <1>3, <1>5, <2>1, AtStart DEF TypeOK, Phase, Current, History
  <1>7. Progress(backend, db, at, given)
    BY <1>3, ProgressAtStart
  <1>8. RunInv
    BY <1>3 DEF RunInv
  <1>9. WorkerInv
    BY <1>3 DEF WorkerInv
  <1>10. SealInv
    BY <1>3 DEF SealInv
  <1> QED
    BY <1>3, <1>4, <1>6, <1>7, <1>8, <1>9, <1>10 DEF IInv, BootInv

---------------------------------------------------------------------------
(* The steps of run().                                                      *)

\* The process ends anywhere: the database, or what the rollback returns to,
\* is sound for the next start.
LEMMA EndedStep ==
    ASSUME BootInv, Ended, torn' \in BOOLEAN, crashes' \in Nat
    PROVE  BootInv'
  <1>1. /\ db' = (IF saved = None THEN db ELSE saved) /\ saved' = None /\ phase' = "down"
        /\ at' = 1 /\ pinned' = None /\ backend' = backend /\ env' = env /\ given' = given
        /\ mixed' = mixed /\ changes' = changes
    BY DEF Ended
  <1>2. IsDatabase(db') /\ Sound(backend, db', given)
    BY <1>1 DEF BootInv, TypeOK
  <1>3. TypeOK'
    BY <1>1, <1>2, AtStart DEF BootInv, TypeOK, Phase, Current
  <1>4. Progress(backend, db, at, given)'
    BY <1>1, ProgressAtStart
  <1>5. RunInv'
    BY <1>1 DEF RunInv
  <1>6. SealInv'
    BY <1>1 DEF SealInv, BootInv
  <1> QED
    BY <1>1, <1>2, <1>3, <1>4, <1>5, <1>6 DEF BootInv

LEMMA ExitStep ==
    ASSUME BootInv, Exit
    PROVE  BootInv'
  BY EndedStep DEF Exit, BootInv, TypeOK

LEMMA CrashStep ==
    ASSUME BootInv, Crash
    PROVE  BootInv'
  <1>1. torn' \in BOOLEAN
    BY Zenon DEF Crash, BootInv, TypeOK
  <1>2. crashes' \in Nat
    BY DEF Crash, BootInv, TypeOK
  <1> QED
    BY <1>1, <1>2, EndedStep DEF Crash

LEMMA StartStep ==
    ASSUME BootInv, Start
    PROVE  BootInv'
  <1>1. /\ phase' = "migrate" /\ saved' = (IF backend = "postgres" THEN db ELSE None)
        /\ backend' = backend /\ db' = db /\ at' = at /\ pinned' = pinned /\ given' = given
        /\ torn' = torn /\ mixed' = mixed /\ crashes' = crashes
        /\ env' \in Environments /\ changes' \in {changes, changes + 1}
    BY DEF Start
  <1>2. TypeOK'
    BY <1>1 DEF BootInv, TypeOK, Phase, Current
  <1>3. RunInv'
    BY <1>1 DEF RunInv
  <1>4. SealInv'
    BY <1>1 DEF SealInv, BootInv
  <1> QED
    BY <1>1, <1>2, <1>3, <1>4 DEF BootInv

LEMMA ExecuteStep ==
    ASSUME BootInv, Execute
    PROVE  BootInv'
  <1> DEFINE s == Current[at]
  <1>1. /\ phase = "migrate" /\ db.applied < Latest /\ at <= Len(Current)
        /\ Accepted(db, s) /\ db' = Executed(db, s) /\ at' = at + 1
        /\ backend' = backend /\ saved' = saved /\ phase' = phase /\ env' = env
        /\ pinned' = pinned /\ given' = given /\ torn' = torn /\ crashes' = crashes
        /\ mixed' = mixed /\ changes' = changes
    BY DEF Execute
  <1>2. /\ backend \in Backend /\ IsDatabase(db) /\ Sound(backend, db, given)
        /\ Progress(backend, db, at, given)
        /\ at \in 1..(Len(Current) + 1)
    BY <1>1 DEF BootInv, TypeOK
  <1>3. db.applied \in 0..4
    BY <1>1, <1>2 DEF IsDatabase, Latest
  <1>4. /\ Len(Current) = StatementsOf(backend, db.applied)
        /\ StatementsOf(backend, db.applied) \in 1..18
    BY <1>3, MigrationLength DEF Current
  <1>5. at \in 1..StatementsOf(backend, db.applied)
    BY <1>1, <1>2, <1>4
  <1>6. s = Migrations(backend)[db.applied + 1][at]
    BY DEF Current
  <1> HIDE DEF s
  <1>7. /\ IsDatabase(db') /\ Sound(backend, db', given)
        /\ Progress(backend, db', at + 1, given)
        /\ db'.applied = db.applied
    BY <1>1, <1>2, <1>3, <1>5, <1>6, StatementStep
  <1>8. Current' = Current
    BY <1>1, <1>7 DEF Current
  <1>9. TypeOK'
    BY <1>1, <1>2, <1>4, <1>5, <1>7, <1>8 DEF BootInv, TypeOK
  <1>10. RunInv'
    BY <1>1 DEF BootInv, RunInv
  <1>11. SealInv'
    <2>1. \A t \in SecretTable : db'.rows[t] = db.rows[t]
      BY <1>1, <1>2, <1>3, <1>5, <1>6, MigrationsElsewhere, SecretsKept
    <2>2. SealedAlike(db) => SealedAlike(db')
      BY <2>1, SealFrame
    <2> QED
      BY <1>1, <2>2 DEF SealInv, BootInv
  <1> QED
    BY <1>1, <1>7, <1>9, <1>10, <1>11 DEF BootInv

LEMMA RecordStep ==
    ASSUME BootInv, Record
    PROVE  BootInv'
  <1>1. /\ phase = "migrate" /\ db.applied < Latest /\ at = Len(Current) + 1
        /\ db' = [db EXCEPT !.applied = @ + 1] /\ at' = 1
        /\ saved' \in (IF saved = None THEN {None} ELSE {saved, db'})
        /\ backend' = backend /\ phase' = phase /\ env' = env
        /\ pinned' = pinned /\ given' = given /\ torn' = torn /\ crashes' = crashes
        /\ mixed' = mixed /\ changes' = changes
    BY DEF Record
  <1>2. /\ backend \in Backend /\ IsDatabase(db) /\ Sound(backend, db, given)
        /\ Progress(backend, db, at, given)
    BY DEF BootInv, TypeOK
  <1>3. db.applied \in 0..4
    BY <1>1, <1>2 DEF IsDatabase, Latest
  <1>4. at = StatementsOf(backend, db.applied) + 1
    BY <1>1, <1>3, MigrationLength DEF Current
  <1>5. IsDatabase(db') /\ Sound(backend, db', given)
    BY <1>1, <1>2, <1>3, <1>4, MigrationStep
  <1>6. saved' # None => IsDatabase(saved') /\ Sound(backend, saved', given)
    BY <1>1, <1>5 DEF BootInv, TypeOK
  <1>7. TypeOK'
    BY <1>1, <1>5, <1>6, AtStart DEF BootInv, TypeOK, Current
  <1>8. Progress(backend, db, at, given)'
    BY <1>1, ProgressAtStart
  <1>9. RunInv'
    BY <1>1 DEF RunInv
  <1>10. SealInv'
    <2>1. db'.rows = db.rows
      BY <1>1, <1>2 DEF IsDatabase
    <2>2. SealedAlike(db) => SealedAlike(db')
      BY <2>1, SealFrame
    <2> QED
      BY <1>1, <2>2 DEF SealInv, BootInv
  <1> QED
    BY <1>1, <1>5, <1>6, <1>7, <1>8, <1>9, <1>10 DEF BootInv

\* A step that only moves run() forward, once the migrations are through.
LEMMA ProceedStep ==
    ASSUME BootInv, phase' \in Phase, pinned' \in Keys \cup {None},
           saved' \in {saved, None},
           UNCHANGED <<backend, db, at, env, given, torn, mixed, crashes, changes>>, RunInv'
    PROVE  BootInv'
  <1>1. TypeOK'
    BY DEF BootInv, TypeOK, Current
  <1>2. SealInv'
    BY DEF BootInv, SealInv
  <1> QED
    BY <1>1, <1>2 DEF BootInv

LEMMA MigratedStep ==
    ASSUME BootInv, Migrated
    PROVE  BootInv'
  <1>1. RunInv'
    BY DEF Migrated, RunInv, BootInv
  <1> QED
    BY <1>1, ProceedStep DEF Migrated, Phase, BootInv, TypeOK

---------------------------------------------------------------------------
(* Rows written by a running process.                                       *)

\* e is d with the rows R in table t.
Replaced(d, e, t, R) ==
    /\ e.objects = d.objects /\ e.applied = d.applied
    /\ e.rows[t] = R
    /\ \A u \in Table \ {t} : e.rows[u] = d.rows[u]
    /\ IsDatabase(e)

LEMMA RowsReplaced ==
    ASSUME NEW d, IsDatabase(d), NEW t \in Table, NEW R, R \subseteq RowOf(t)
    PROVE  Replaced(d, [d EXCEPT !.rows[t] = R], t, R)
  <1> DEFINE e == [d EXCEPT !.rows[t] = R]
  <1>1. DOMAIN d = {"objects", "rows", "applied"} /\ DOMAIN d.rows = Table
    BY DEF IsDatabase
  <1>2. e = [d EXCEPT !.rows = [d.rows EXCEPT ![t] = R]]
    BY <1>1
  <1> HIDE DEF e
  <1>3. /\ e.objects = d.objects /\ e.applied = d.applied
        /\ e.rows = [d.rows EXCEPT ![t] = R] /\ DOMAIN e = {"objects", "rows", "applied"}
    BY <1>1, <1>2
  <1>4. /\ DOMAIN e.rows = Table /\ e.rows[t] = R
        /\ \A u \in Table \ {t} : e.rows[u] = d.rows[u]
    BY <1>1, <1>3
  <1>5. IsDatabase(e)
    BY <1>3, <1>4 DEF IsDatabase
  <1>6. Replaced(d, e, t, R)
    BY <1>3, <1>4, <1>5 DEF Replaced
  <1> QED
    BY <1>6 DEF e

LEMMA SchemaSame ==
    ASSUME NEW b, NEW d, NEW e, SchemaInv(b, d), e.applied = d.applied, e.objects = d.objects,
           \A u \in {"external_sources", "external_source_vault_targets",
                     "external_sources_rebuild", "audit_logs_rebuild"} : e.rows[u] = d.rows[u]
    PROVE  SchemaInv(b, e)
  BY DEF SchemaInv, Exists, Flat

LEMMA SecretsReplaced ==
    ASSUME NEW b, NEW d, NEW g, IsDatabase(d), Sound(b, d, g), NEW t \in SecretTable, NEW R,
           NEW e, Replaced(d, e, t, R), KeyInv(e)
    PROVE  IsDatabase(e) /\ Sound(b, e, g) /\ e.applied = d.applied
  <1>2. /\ e.objects = d.objects /\ e.applied = d.applied
        /\ \A u \in Table \ SecretTable : e.rows[u] = d.rows[u]
        /\ IsDatabase(e)
    BY DEF Replaced
  <1>3. SchemaInv(b, e)
    BY <1>2, SchemaSame DEF Sound, Table, SecretTable
  <1>4. ContentInv(e, g)
    <2>1. /\ \A u \in ContentTables : e.rows[u] = d.rows[u]
          /\ Flat(e) <=> Flat(d)
          /\ d.applied \in 0..Latest
      BY <1>2 DEF ContentTables, Table, SecretTable, Flat, IsDatabase
    <2> QED
      BY <1>2, <2>1, ContentFrame DEF Sound
  <1>5. AuditInv(e, g)
    <2>1. \A u \in Audits : e.rows[u] = d.rows[u]
      BY <1>2 DEF Audits, Table, SecretTable
    <2> QED
      BY <1>2, <2>1, AuditFrame DEF Sound
  <1> QED
    BY <1>2, <1>3, <1>4, <1>5 DEF Sound

\* A Master where there is none.
LEMMA MasterInserted ==
    ASSUME NEW b, NEW d, NEW g, IsDatabase(d), Sound(b, d, g), Masters(d) = {},
           NEW m \in ApiKey, m.is_master,
           NEW e, Replaced(d, e, "api_keys", d.rows["api_keys"] \cup {m})
    PROVE  IsDatabase(e) /\ Sound(b, e, g) /\ e.applied = d.applied /\ Masters(e) = {m}
  <1>1. /\ e.objects = d.objects /\ e.applied = d.applied
        /\ e.rows["api_keys"] = d.rows["api_keys"] \cup {m}
    BY DEF Replaced
  <1>2. Masters(e) = {m}
    BY <1>1 DEF Masters
  <1>3. Cardinality(Masters(e)) = 1
    BY <1>2, FS_Singleton
  <1>4. KeyInv(e)
    <2>1. IsFiniteSet(e.rows["api_keys"])
      BY <1>1, FS_AddElement DEF KeyInv, Sound
    <2> QED
      BY <1>1, <1>3, <2>1 DEF KeyInv, Sound
  <1> QED
    BY <1>2, <1>4, SecretsReplaced DEF SecretTable

LEMMA BootstrapStep ==
    ASSUME BootInv, BootstrapMasterKey
    PROVE  BootInv'
  <1>1. CASE /\ phase = "bootstrap"
             /\ \/ Masters(db) # {} /\ Proceed("canary") /\ UNCHANGED <<db, pinned>>
                \/ Masters(db) = {} /\ CanBootstrap(env) /\ Proceed("insert")
                   /\ UNCHANGED <<db, pinned>>
    <2>1. RunInv'
      BY <1>1 DEF Proceed, RunInv, BootInv
    <2> QED
      BY <1>1, <2>1, ProceedStep DEF Proceed, Phase, BootInv, TypeOK
  <1>2. CASE Exit
    BY <1>2, ExitStep
  <1> QED
    BY <1>1, <1>2 DEF BootstrapMasterKey

\* The marker's index is there and there is no Master: whatever the other
\* secrets are sealed with, mixed says so from here on.
LEMMA WithMasterStep ==
    ASSUME BootInv, phase \in {"bootstrap", "insert"}, Masters(db) = {},
           NEW k \in FreeKeys, NEW e \in Environments, CanBootstrap(e),
           db' = WithMaster(k, e.cipher), phase' \in {phase, "canary"},
           mixed' = (mixed \/ ~SealedAlike(db')),
           UNCHANGED <<backend, saved, at, env, pinned, given, torn, crashes, changes>>
    PROVE  BootInv'
  <1> DEFINE m == [id |-> k, is_master |-> TRUE, sealed |-> e.cipher]
             R == db.rows["api_keys"] \cup {m}
  <1>1. m \in ApiKey /\ m.is_master
    BY BootAssumption DEF FreeKeys, CanBootstrap, Environment, ApiKey
  <1>2. IsDatabase(db) /\ Sound(backend, db, given)
    BY DEF BootInv, TypeOK
  <1>3. /\ IsDatabase(db') /\ Sound(backend, db', given) /\ db'.applied = db.applied
        /\ Masters(db') = {m}
    <2>1. "api_keys" \in Table /\ R \subseteq RowOf("api_keys")
      BY <1>1, <1>2, RowTypes DEF Table, RowOf
    <2>2. db' = [db EXCEPT !.rows["api_keys"] = R]
      BY DEF WithMaster
    <2> HIDE DEF m
    <2>3. Replaced(db, [db EXCEPT !.rows["api_keys"] = R], "api_keys", R)
      BY <1>2, <2>1, RowsReplaced
    <2>4. Replaced(db, db', "api_keys", R)
      BY <2>2, <2>3, Zenon
    <2>5. \A d : \A x \in ApiKey : \A e1 :
              /\ IsDatabase(d) /\ Sound(backend, d, given) /\ Masters(d) = {} /\ x.is_master
              /\ Replaced(d, e1, "api_keys", d.rows["api_keys"] \cup {x})
              => /\ IsDatabase(e1) /\ Sound(backend, e1, given) /\ e1.applied = d.applied
                 /\ Masters(e1) = {x}
      BY MasterInserted
    <2> QED
      BY <1>1, <1>2, <2>4, <2>5
  <1>4. db.applied = Latest /\ saved = None
    BY DEF BootInv, RunInv
  <1>5. TypeOK'
    <2>1. mixed' \in BOOLEAN
      BY Zenon DEF BootInv, TypeOK
    <2> QED
      BY <1>3, <1>4, <2>1 DEF BootInv, TypeOK, Phase, Latest
  <1>6. Progress(backend, db, at, given)'
    BY <1>3, <1>4 DEF Progress, Latest
  <1>7. RunInv'
    <2>1. Masters(db)' # {}
      BY <1>3
    <2> QED
      BY <1>3, <1>4, <2>1 DEF BootInv, RunInv
  <1>8. SealInv'
    BY <1>4, Zenon DEF SealInv
  <1> QED
    BY <1>3, <1>4, <1>5, <1>6, <1>7, <1>8 DEF BootInv

LEMMA InsertStep ==
    ASSUME BootInv, InsertMaster
    PROVE  BootInv'
  <1>1. CASE /\ MasterAccepted
             /\ \E k \in FreeKeys : db' = WithMaster(k, env.cipher)
             /\ mixed' = (mixed \/ ~SealedAlike(db'))
             /\ phase' = "canary"
             /\ UNCHANGED <<backend, saved, at, env, pinned, given, torn, crashes, changes>>
    <2>1. phase = "insert" /\ db.applied = Latest /\ CanBootstrap(env) /\ env \in Environments
      BY DEF InsertMaster, BootInv, RunInv, TypeOK
    <2>2. <<"api_keys", MasterIndex>> \in db.objects
      BY <2>1 DEF BootInv, Sound, KeyInv, Latest
    <2>3. Masters(db) = {}
      BY <1>1, <2>2 DEF MasterAccepted, Taken, Table
    <2>4. PICK k \in FreeKeys : db' = WithMaster(k, env.cipher)
      BY <1>1
    <2> QED
      BY <1>1, <2>1, <2>3, <2>4, WithMasterStep
  <1>2. CASE Exit
    BY <1>2, ExitStep
  <1> QED
    BY <1>1, <1>2 DEF InsertMaster

LEMMA OtherDaemonStep ==
    ASSUME BootInv, OtherDaemonBootstraps
    PROVE  BootInv'
  <1>1. PICK k \in FreeKeys, e \in Environments :
            CanBootstrap(e) /\ db' = WithMaster(k, e.cipher)
    BY DEF OtherDaemonBootstraps
  <1> QED
    BY <1>1, WithMasterStep DEF OtherDaemonBootstraps

\* Unless secrets are mixed, the sampled row is sealed as the Master is, so
\* that a key that opens it is the Master's.
LEMMA VerifyStep ==
    ASSUME BootInv, VerifyEncryptionKey
    PROVE  BootInv'
  <1>1. phase = "canary"
    BY DEF VerifyEncryptionKey
  <1>2. PICK sample \in db.rows["api_keys"] :
          \/ /\ env.cipher # "malformed" /\ Opens(env.cipher, sample.sealed)
             /\ Proceed("state") /\ UNCHANGED <<db, pinned>>
          \/ Exit
    BY DEF VerifyEncryptionKey
  <1>3. CASE /\ env.cipher # "malformed" /\ Opens(env.cipher, sample.sealed)
             /\ Proceed("state") /\ UNCHANGED <<db, pinned>>
    <2>1. SealInv
      BY DEF BootInv
    <2>2. Masters(db) # {}
      BY <1>1 DEF BootInv, RunInv
    <2>3. ~mixed => \A m \in Masters(db) : m.sealed # None => env.cipher = m.sealed
      <3>1. sample.sealed \in Secrets(db)
        BY DEF Secrets
      <3> QED
        BY <1>3, <2>1, <3>1 DEF SealInv, SealedAlike, Opens
    <2>4. phase' = "state" /\ db' = db /\ env' = env /\ saved' = saved /\ mixed' = mixed
      BY <1>3 DEF Proceed
    <2>5. (Masters(db))' = Masters(db)
      BY <2>4
    <2>6. RunInv'
      BY <1>1, <1>3, <2>2, <2>3, <2>4, <2>5 DEF RunInv, BootInv
    <2> QED
      BY <1>3, <2>6, ProceedStep DEF Proceed, Phase, BootInv, TypeOK
  <1>4. CASE Exit
    BY <1>4, ExitStep
  <1> QED
    BY <1>2, <1>3, <1>4

LEMMA SetupStep ==
    ASSUME BootInv, SetupState
    PROVE  BootInv'
  <1>1. CASE /\ phase = "state"
             /\ env.trusted_proxies_ok /\ Proceed("pin") /\ UNCHANGED <<db, pinned>>
    <2>1. RunInv'
      BY <1>1 DEF Proceed, RunInv, BootInv, Masters
    <2> QED
      BY <1>1, <2>1, ProceedStep DEF Proceed, Phase, BootInv, TypeOK
  <1>2. CASE Exit
    BY <1>2, ExitStep
  <1> QED
    BY <1>1, <1>2 DEF SetupState

LEMMA PinStep ==
    ASSUME BootInv, PinAtBoot
    PROVE  BootInv'
  <1>1. CASE /\ phase = "pin"
             /\ \E only \in Masters(db) :
                   Masters(db) = {only} /\ pinned' = only.id
             /\ Proceed("schedule") /\ UNCHANGED db
    <2>1. PICK only \in Masters(db) : Masters(db) = {only} /\ pinned' = only.id
      BY <1>1
    <2>2. pinned' \in Keys
      BY <2>1, RowTypes DEF Masters, ApiKey, BootInv, TypeOK
    <2>3. (Masters(db))' = Masters(db)
      BY <1>1
    <2>4. phase' = "schedule" /\ db' = db /\ env' = env /\ saved' = saved /\ mixed' = mixed
      BY <1>1 DEF Proceed
    <2>5. RunInv'
      BY <1>1, <2>1, <2>3, <2>4 DEF RunInv, BootInv
    <2> QED
      BY <1>1, <2>2, <2>5, ProceedStep DEF Proceed, Phase
  <1>2. CASE Exit
    BY <1>2, ExitStep
  <1> QED
    BY <1>1, <1>2 DEF PinAtBoot

LEMMA ListenStep ==
    ASSUME BootInv, BootScheduler \/ Bind
    PROVE  BootInv'
  <1>1. /\ phase \in {"schedule", "bind"} /\ phase' \in {"bind", "serving"}
        /\ db' = db /\ env' = env /\ saved' = saved /\ mixed' = mixed /\ pinned' = pinned
        /\ UNCHANGED <<backend, at, given, torn, crashes, changes>>
    BY DEF BootScheduler, Bind, Proceed
  <1>2. (Masters(db))' = Masters(db)
    BY <1>1
  <1>3. RunInv'
    BY <1>1, <1>2 DEF RunInv, BootInv
  <1> QED
    BY <1>1, <1>3, ProceedStep DEF Phase, BootInv, TypeOK

\* Whatever a serving process writes is sealed with the cipher it runs with,
\* which is the Master's unless secrets are mixed.
LEMMA ServingSecrets ==
    ASSUME BootInv, NEW t \in SecretTable, NEW R, R \subseteq RowOf(t), Writes(t, R),
           t = "api_keys" =>
               IsFiniteSet(R) /\ \A row : row \in R /\ row.is_master <=> row \in Masters(db),
           \A row \in R : row \in db.rows[t] \/ row.sealed = env.cipher
    PROVE  BootInv'
  <1>0. /\ phase = "serving" /\ db' = [db EXCEPT !.rows[t] = R]
        /\ UNCHANGED <<backend, saved, phase, at, env, pinned, given, torn, mixed, crashes,
                       changes>>
    BY DEF Writes
  <1>1. t \in Table
    BY DEF Table, SecretTable
  <1>2. IsDatabase(db) /\ Sound(backend, db, given) /\ KeyInv(db)
    BY DEF BootInv, TypeOK, Sound
  <1>3. Replaced(db, [db EXCEPT !.rows[t] = R], t, R)
    BY <1>1, <1>2, RowsReplaced
  <1>4. Replaced(db, db', t, R)
    BY <1>0, <1>3, Zenon
  <1>5. /\ db'.objects = db.objects /\ db'.applied = db.applied /\ db'.rows[t] = R
        /\ \A u \in SecretTable \ {t} : db'.rows[u] = db.rows[u]
    BY <1>4 DEF Replaced, SecretTable, Table
  <1>6. Masters(db') = Masters(db)
    <2>1. CASE t = "api_keys"
      <3>1. Masters(db') = {row \in R : row.is_master}
        BY <1>5, <2>1 DEF Masters
      <3> QED
        BY <2>1, <3>1
    <2>2. CASE t # "api_keys"
      BY <1>5, <2>2 DEF Masters, SecretTable
    <2> QED
      BY <2>1, <2>2
  <1>7. ~mixed => \A m \in Masters(db) : m.sealed # None => env.cipher = m.sealed
    BY <1>0 DEF BootInv, RunInv
  <1>8. KeyInv(db')
    <2>1. IsFiniteSet(db'.rows["api_keys"])
      BY <1>2, <1>5 DEF KeyInv, SecretTable
    <2> QED
      BY <1>2, <1>5, <1>6, <2>1 DEF KeyInv
  <1>9. IsDatabase(db') /\ Sound(backend, db', given)
    BY <1>2, <1>4, <1>8, SecretsReplaced
  <1>10. db.applied = Latest /\ saved = None
    BY <1>0 DEF BootInv, RunInv
  <1>11. TypeOK'
    BY <1>0, <1>5, <1>9, <1>10 DEF BootInv, TypeOK, Latest
  <1>12. Progress(backend, db, at, given)'
    BY <1>0, <1>5, <1>10 DEF Progress, Latest
  <1>13. RunInv'
    BY <1>0, <1>5, <1>6, <1>10 DEF BootInv, RunInv
  <1>14. SealInv'
    <2> SUFFICES ASSUME ~mixed PROVE SealedAlike(db')
      BY <1>0, <1>10 DEF SealInv
    <2>1. SealedAlike(db)
      BY DEF BootInv, SealInv
    <2>2. \A sealed \in Secrets(db') : sealed \in Secrets(db) \/ sealed = env.cipher
      BY <1>5 DEF Secrets, SecretTable
    <2> QED
      BY <1>6, <1>7, <2>1, <2>2 DEF SealedAlike
  <1> QED
    BY <1>0, <1>9, <1>10, <1>11, <1>12, <1>13, <1>14 DEF BootInv

\* The cipher of a serving process is well-formed.
LEMMA ServingCipher ==
    ASSUME BootInv, phase = "serving"
    PROVE  /\ env.cipher \in Ciphers \cup {None}
           /\ db.rows["api_keys"] \subseteq ApiKey /\ IsFiniteSet(db.rows["api_keys"])
           /\ db.rows["vault_endpoints"] \subseteq VaultEndpoint
           /\ RowOf("api_keys") = ApiKey /\ RowOf("vault_endpoints") = VaultEndpoint
           /\ "api_keys" \in SecretTable /\ "vault_endpoints" \in SecretTable
           /\ "vault_endpoints" # "api_keys"
  <1>1. /\ env \in Environment /\ env.cipher # "malformed" /\ IsDatabase(db)
        /\ IsFiniteSet(db.rows["api_keys"])
    BY BootAssumption DEF BootInv, RunInv, TypeOK, Sound, KeyInv
  <1> QED
    BY <1>1, RowTypes DEF Environment, RowOf, SecretTable

LEMMA CreateKeyStep ==
    ASSUME BootInv, CreateKey
    PROVE  BootInv'
  <1> DEFINE Row(k) == [id |-> k, is_master |-> FALSE, sealed |-> env.cipher]
  <1>1. PICK k \in FreeKeys : Writes("api_keys", db.rows["api_keys"] \cup {Row(k)})
    BY DEF CreateKey
  <1> DEFINE new == Row(k)
             R == db.rows["api_keys"] \cup {new}
  <1>2. phase = "serving"
    BY <1>1 DEF Writes
  <1>3. new \in ApiKey /\ ~new.is_master /\ new.sealed = env.cipher
    BY <1>2, ServingCipher DEF FreeKeys, ApiKey
  <1> HIDE DEF new
  <1>4. R \subseteq RowOf("api_keys") /\ IsFiniteSet(R)
    BY <1>2, <1>3, ServingCipher, FS_AddElement
  <1>5. \A row : row \in R /\ row.is_master <=> row \in Masters(db)
    BY <1>3 DEF Masters
  <1>6. \A row \in R : row \in db.rows["api_keys"] \/ row.sealed = env.cipher
    BY <1>3
  <1>7. Writes("api_keys", R)
    BY <1>1 DEF new
  <1> HIDE DEF R
  <1> QED
    BY <1>2, <1>4, <1>5, <1>6, <1>7, ServingCipher, ServingSecrets

LEMMA RotateSecretStep ==
    ASSUME BootInv, RotateSecret
    PROVE  BootInv'
  <1> DEFINE New(row) == [row EXCEPT !.sealed = env.cipher]
  <1>1. PICK row \in db.rows["api_keys"] \ Masters(db) :
          Writes("api_keys", (db.rows["api_keys"] \ {row}) \cup {New(row)})
    BY DEF RotateSecret
  <1> DEFINE new == New(row)
             R == (db.rows["api_keys"] \ {row}) \cup {new}
  <1>2. phase = "serving"
    BY <1>1 DEF Writes
  <1>3. row \in ApiKey /\ ~row.is_master /\ env.cipher \in Ciphers \cup {None}
    BY <1>1, <1>2, ServingCipher DEF Masters
  <1>4. new \in ApiKey /\ ~new.is_master /\ new.sealed = env.cipher
    BY <1>3 DEF ApiKey
  <1> HIDE DEF new
  <1>5. R \subseteq RowOf("api_keys") /\ IsFiniteSet(R)
    <2>1. IsFiniteSet(db.rows["api_keys"] \ {row})
      BY <1>2, ServingCipher, FS_RemoveElement
    <2> QED
      BY <1>2, <1>4, <2>1, ServingCipher, FS_AddElement
  <1>6. \A x : x \in R /\ x.is_master <=> x \in Masters(db)
    BY <1>3, <1>4 DEF Masters
  <1>7. \A x \in R : x \in db.rows["api_keys"] \/ x.sealed = env.cipher
    BY <1>4
  <1>8. Writes("api_keys", R)
    BY <1>1 DEF new
  <1> HIDE DEF R
  <1> QED
    BY <1>2, <1>5, <1>6, <1>7, <1>8, ServingCipher, ServingSecrets

LEMMA DeleteKeyStep ==
    ASSUME BootInv, DeleteKey
    PROVE  BootInv'
  <1>1. PICK row \in db.rows["api_keys"] \ Masters(db) :
          Writes("api_keys", db.rows["api_keys"] \ {row})
    BY DEF DeleteKey
  <1> DEFINE R == db.rows["api_keys"] \ {row}
  <1>2. phase = "serving"
    BY <1>1 DEF Writes
  <1>3. R \subseteq RowOf("api_keys") /\ IsFiniteSet(R)
    BY <1>2, ServingCipher, FS_RemoveElement
  <1>4. \A x : x \in R /\ x.is_master <=> x \in Masters(db)
    BY <1>1 DEF Masters
  <1>5. \A x \in R : x \in db.rows["api_keys"]
    OBVIOUS
  <1>6. Writes("api_keys", R)
    BY <1>1
  <1> HIDE DEF R
  <1> QED
    BY <1>2, <1>3, <1>4, <1>5, <1>6, ServingCipher, ServingSecrets

LEMMA CreateVaultStep ==
    ASSUME BootInv, CreateVault
    PROVE  BootInv'
  <1> DEFINE Row(v) == [id |-> v, sealed |-> env.cipher]
  <1>1. PICK v \in FreeVaults :
          Writes("vault_endpoints", db.rows["vault_endpoints"] \cup {Row(v)})
    BY DEF CreateVault
  <1> DEFINE new == Row(v)
             R == db.rows["vault_endpoints"] \cup {new}
  <1>2. phase = "serving"
    BY <1>1 DEF Writes
  <1>3. new \in VaultEndpoint /\ new.sealed = env.cipher
    BY <1>2, ServingCipher DEF FreeVaults, VaultEndpoint
  <1>4. R \subseteq RowOf("vault_endpoints")
    BY <1>2, <1>3, ServingCipher
  <1> HIDE DEF new
  <1>5. \A row \in R : row \in db.rows["vault_endpoints"] \/ row.sealed = env.cipher
    BY <1>3
  <1>6. Writes("vault_endpoints", R)
    BY <1>1 DEF new
  <1> HIDE DEF R
  <1> QED
    BY <1>2, <1>4, <1>5, <1>6, ServingCipher, ServingSecrets

LEMMA UpdateVaultStep ==
    ASSUME BootInv, UpdateVault
    PROVE  BootInv'
  <1> DEFINE New(row) == [row EXCEPT !.sealed = env.cipher]
  <1>1. PICK row \in db.rows["vault_endpoints"] :
          Writes("vault_endpoints", (db.rows["vault_endpoints"] \ {row}) \cup {New(row)})
    BY DEF UpdateVault
  <1> DEFINE new == New(row)
             R == (db.rows["vault_endpoints"] \ {row}) \cup {new}
  <1>2. phase = "serving"
    BY <1>1 DEF Writes
  <1>3. row \in VaultEndpoint /\ env.cipher \in Ciphers \cup {None}
    BY <1>1, <1>2, ServingCipher
  <1>4. new \in VaultEndpoint /\ new.sealed = env.cipher
    BY <1>3 DEF VaultEndpoint
  <1> HIDE DEF new
  <1>5. R \subseteq RowOf("vault_endpoints")
    BY <1>2, <1>4, ServingCipher
  <1>6. \A x \in R : x \in db.rows["vault_endpoints"] \/ x.sealed = env.cipher
    BY <1>4
  <1>7. Writes("vault_endpoints", R)
    BY <1>1 DEF new
  <1> HIDE DEF R
  <1> QED
    BY <1>2, <1>5, <1>6, <1>7, ServingCipher, ServingSecrets

LEMMA DeleteVaultStep ==
    ASSUME BootInv, DeleteVault
    PROVE  BootInv'
  <1>1. PICK row \in db.rows["vault_endpoints"] :
          /\ db' = [db EXCEPT !.rows["vault_endpoints"] = @ \ {row},
                              !.rows["destination_group_vault_targets"] = NotTo(row.id, @)]
          /\ given' = [given EXCEPT !.targets = NotTo(row.id, @)]
    BY DEF DeleteVault
  <1>2. /\ phase = "serving"
        /\ UNCHANGED <<backend, saved, phase, at, env, pinned, torn, mixed, crashes, changes>>
    BY DEF DeleteVault
  <1> DEFINE V == db.rows["vault_endpoints"] \ {row}
             W == NotTo(row.id, db.rows["destination_group_vault_targets"])
             d == [db EXCEPT !.rows["vault_endpoints"] = V]
  <1>3. /\ IsDatabase(db) /\ Sound(backend, db, given) /\ db.applied = 5 /\ saved = None
        /\ given \in History
    BY <1>2 DEF BootInv, TypeOK, RunInv, Latest, History
  <1>4. db' = [d EXCEPT !.rows["destination_group_vault_targets"] = W]
    BY <1>1, <1>3 DEF IsDatabase, Table
  <1>5. /\ V \subseteq RowOf("vault_endpoints")
        /\ W \subseteq RowOf("destination_group_vault_targets")
        /\ "vault_endpoints" \in Table /\ "destination_group_vault_targets" \in Table
    BY <1>3 DEF IsDatabase, Table, NotTo
  <1>6. Replaced(db, d, "vault_endpoints", V)
    BY <1>3, <1>5, RowsReplaced
  <1> HIDE DEF d, V
  <1>7. IsDatabase(d) /\ Sound(backend, d, given)
    <2>1. KeyInv(d)
      BY <1>3, <1>6, KeyFrame DEF Sound, Replaced, Table
    <2> QED
      BY <1>3, <1>6, <2>1, SecretsReplaced DEF SecretTable
  <1>8. Replaced(d, [d EXCEPT !.rows["destination_group_vault_targets"] = W],
                 "destination_group_vault_targets", W)
    BY <1>5, <1>7, RowsReplaced
  <1>9. Replaced(d, db', "destination_group_vault_targets", W)
    BY <1>4, <1>8, Zenon
  <1>10. /\ db'.objects = db.objects /\ db'.applied = 5 /\ IsDatabase(db')
         /\ db'.rows["vault_endpoints"] = V
         /\ db'.rows["destination_group_vault_targets"] = W
         /\ \A u \in Table \ {"vault_endpoints", "destination_group_vault_targets"} :
                db'.rows[u] = db.rows[u]
    BY <1>3, <1>6, <1>9 DEF Replaced, Table
  <1>11. /\ given'.targets = NotTo(row.id, given.targets) /\ given'.feeds = given.feeds
         /\ given'.groups = given.groups /\ given'.trail = given.trail /\ given' \in History
    BY <1>1, <1>3 DEF History, NotTo
  <1>12. Sound(backend, db', given')
    <2>1. SchemaInv(backend, db')
      BY <1>3, <1>10, SchemaSame DEF Sound, Table
    <2>2. ContentInv(db', given')
      <3>1. db.rows["external_source_vault_targets"] = {}
        BY <1>3 DEF Sound, SchemaInv
      <3>2. db.rows["destination_group_vault_targets"] = given.targets
        BY <1>3, <3>1 DEF Sound, ContentInv
      <3>3. FeedsOf(db') = given.feeds /\ db'.rows["destination_groups"] = given.groups
        BY <1>3, <1>10 DEF Sound, ContentInv, FeedsOf, Table
      <3>4. db'.rows["external_source_vault_targets"] = {}
        BY <1>10, <3>1 DEF Table
      <3> QED
        BY <1>10, <1>11, <3>2, <3>3, <3>4 DEF ContentInv
    <2>3. AuditInv(db', given')
      <3>1. \A u \in Audits : db'.rows[u] = db.rows[u]
        BY <1>10 DEF Audits, Table
      <3>2. AuditInv(db', given)
        BY <1>3, <1>10, <3>1, AuditFrame DEF Sound
      <3> QED
        BY <1>11, <3>2 DEF AuditInv
    <2>4. KeyInv(db')
      BY <1>3, <1>10, KeyFrame DEF Sound, Table
    <2> QED
      BY <2>1, <2>2, <2>3, <2>4 DEF Sound
  <1>13. Masters(db') = Masters(db)
    BY <1>10 DEF Masters, Table
  <1>14. TypeOK'
    BY <1>2, <1>3, <1>10, <1>11 DEF BootInv, TypeOK, Latest, History
  <1>15. Progress(backend, db, at, given)'
    BY <1>10 DEF Progress
  <1>16. RunInv'
    BY <1>2, <1>3, <1>10, <1>13 DEF BootInv, RunInv, Latest
  <1>17. SealInv'
    <2>1. Secrets(db') \subseteq Secrets(db)
      BY <1>10 DEF Secrets, Table, V
    <2> QED
      BY <1>2, <1>3, <1>13, <2>1 DEF BootInv, SealInv, SealedAlike
  <1> QED
    BY <1>2, <1>3, <1>12, <1>14, <1>15, <1>16, <1>17 DEF BootInv

LEMMA RemoveMasterStep ==
    ASSUME BootInv, RemoveMaster
    PROVE  BootInv'
  <1>1. PICK m \in Masters(db) : db' = [db EXCEPT !.rows["api_keys"] = @ \ {m}]
    BY DEF RemoveMaster
  <1> DEFINE R == db.rows["api_keys"] \ {m}
  <1>2. /\ phase = "down" /\ changes' = changes + 1 /\ db' = [db EXCEPT !.rows["api_keys"] = R]
        /\ UNCHANGED <<backend, saved, phase, at, env, pinned, given, torn, mixed, crashes>>
    BY <1>1 DEF RemoveMaster
  <1>3. IsDatabase(db) /\ Sound(backend, db, given) /\ KeyInv(db) /\ saved = None
    BY <1>2 DEF BootInv, TypeOK, Sound, RunInv
  <1>4. "api_keys" \in Table /\ R \subseteq RowOf("api_keys")
    BY <1>3 DEF IsDatabase, Table
  <1>5. Replaced(db, [db EXCEPT !.rows["api_keys"] = R], "api_keys", R)
    BY <1>3, <1>4, RowsReplaced
  <1>6. Replaced(db, db', "api_keys", R)
    BY <1>2, <1>5, Zenon
  <1>7. /\ db'.objects = db.objects /\ db'.applied = db.applied /\ db'.rows["api_keys"] = R
        /\ db'.rows["vault_endpoints"] = db.rows["vault_endpoints"]
    BY <1>6 DEF Replaced, Table
  <1>8. Masters(db') = Masters(db) \ {m}
    BY <1>7 DEF Masters
  <1>9. KeyInv(db')
    <2>1. IsFiniteSet(R)
      BY <1>3, FS_RemoveElement DEF KeyInv
    <2>2. IsFiniteSet(Masters(db))
      BY <1>3, FS_Subset DEF KeyInv, Masters
    <2>3. /\ Cardinality(Masters(db) \ {m}) = Cardinality(Masters(db)) - 1
          /\ Cardinality(Masters(db)) \in Nat
      BY <2>2, FS_RemoveElement, FS_CardinalityType
    <2> QED
      BY <1>3, <1>7, <1>8, <2>1, <2>3 DEF KeyInv
  <1>10. IsDatabase(db') /\ Sound(backend, db', given)
    BY <1>3, <1>6, <1>9, SecretsReplaced DEF SecretTable
  <1>11. TypeOK'
    BY <1>2, <1>3, <1>7, <1>10 DEF BootInv, TypeOK, Current
  <1>12. at = 1
    BY <1>2 DEF BootInv, RunInv
  <1>13. Progress(backend, db, at, given)' /\ RunInv'
    BY <1>2, <1>3, <1>12, ProgressAtStart DEF RunInv
  <1>14. SealInv'
    <2>1. Secrets(db') \subseteq Secrets(db) /\ Masters(db') \subseteq Masters(db)
      BY <1>7, <1>8 DEF Secrets
    <2> QED
      BY <1>2, <1>3, <2>1 DEF BootInv, SealInv, SealedAlike
  <1> QED
    BY <1>2, <1>3, <1>10, <1>11, <1>13, <1>14 DEF BootInv
---------------------------------------------------------------------------
(* The worker and the log tables.                                           *)

LEMMA LogsReplaced ==
    ASSUME NEW b, NEW d, NEW g, IsDatabase(d), Sound(b, d, g), d.applied = 5,
           NEW t \in LogTable, NEW R, NEW e, Replaced(d, e, t, R),
           NEW h, h.feeds = g.feeds, h.groups = g.groups, h.targets = g.targets,
           AuditInv(e, h)
    PROVE  Sound(b, e, h)
  <1>1. /\ e.objects = d.objects /\ e.applied = d.applied
        /\ \A u \in Table \ LogTable : e.rows[u] = d.rows[u]
    BY DEF Replaced
  <1>2. SchemaInv(b, e)
    BY <1>1, SchemaSame DEF Sound, Table, LogTable
  <1>3. ContentInv(e, h)
    <2>1. /\ \A u \in ContentTables : e.rows[u] = d.rows[u]
          /\ Flat(e) <=> Flat(d)
      BY <1>1 DEF ContentTables, Table, LogTable, Flat
    <2>2. ContentInv(e, g)
      BY <1>1, <2>1, ContentFrame DEF Sound, Latest
    <2> QED
      BY <1>1, <2>2 DEF ContentInv
  <1>4. KeyInv(e)
    BY <1>1, KeyFrame DEF Sound, Table, LogTable
  <1> QED
    BY <1>2, <1>3, <1>4 DEF Sound

\* What a serving process does to a log table concerns the audit trail alone.
LEMMA ServingLogs ==
    ASSUME BootInv, phase \in {"bind", "serving"}, NEW t \in LogTable, NEW R, R \subseteq RowOf(t),
           db' = [db EXCEPT !.rows[t] = R],
           given' \in History,
           given'.feeds = given.feeds, given'.groups = given.groups,
           given'.targets = given.targets,
           Replaced(db, db', t, R) => AuditInv(db', given'),
           UNCHANGED <<backend, saved, phase, at, env, pinned, torn, mixed, crashes, changes>>
    PROVE  BootInv'
  <1>1. t \in Table
    BY DEF LogTable, Table
  <1>2. IsDatabase(db) /\ Sound(backend, db, given) /\ db.applied = 5 /\ saved = None
    BY DEF BootInv, TypeOK, RunInv, Latest
  <1>3. Replaced(db, [db EXCEPT !.rows[t] = R], t, R)
    BY <1>1, <1>2, RowsReplaced
  <1>4. Replaced(db, db', t, R)
    BY <1>3, Zenon
  <1>5. Sound(backend, db', given')
    BY <1>2, <1>4, LogsReplaced
  <1>6. /\ IsDatabase(db') /\ db'.applied = 5
        /\ \A u \in SecretTable : db'.rows[u] = db.rows[u]
    BY <1>2, <1>4 DEF Replaced, Table, LogTable, SecretTable
  <1>7. TypeOK'
    BY <1>2, <1>6 DEF BootInv, TypeOK, Latest, History
  <1>8. Progress(backend, db, at, given)'
    BY <1>6 DEF Progress
  <1>9. Masters(db') = Masters(db)
    BY <1>6 DEF Masters, SecretTable
  <1>10. RunInv'
    BY <1>2, <1>6, <1>9 DEF BootInv, RunInv, Latest
  <1>11. SealInv'
    <2>1. Secrets(db') = Secrets(db)
      BY <1>6 DEF Secrets, SecretTable
    <2>2. SealedAlike(db) => SealedAlike(db')
      BY <1>9, <2>1 DEF SealedAlike
    <2> QED
      BY <1>2, <2>2 DEF BootInv, SealInv
  <1> QED
    BY <1>2, <1>5, <1>7, <1>8, <1>10, <1>11 DEF BootInv

\* After the migrations the audit trail is in its own table, attributed.
LEMMA TrailInPlace ==
    ASSUME BootInv, phase \in {"bind", "serving"}
    PROVE  /\ Keeps(db.rows["audit_logs"], given.trail)
           /\ Attributed(db.rows["audit_logs"])
           /\ db.rows["audit_logs_rebuild"] = {}
           /\ given \in History
  <1>1. db.applied = 5 /\ SchemaInv(backend, db) /\ AuditInv(db, given)
    BY DEF BootInv, RunInv, Sound, Latest
  <1>2. db.rows["audit_logs_rebuild"] = {}
    BY <1>1 DEF SchemaInv
  <1> QED
    BY <1>1, <1>2 DEF AuditInv, BootInv, TypeOK, History

\* Enough for the audit trail after a step of a serving process.
LEMMA TrailStep ==
    ASSUME BootInv, phase \in {"bind", "serving"}, NEW R, NEW trail,
           Keeps(R, trail), Attributed(R), given'.trail = trail,
           Replaced(db, db', "audit_logs", R)
    PROVE  AuditInv(db', given')
  <1>1. db'.rows["audit_logs"] = R /\ db'.rows["audit_logs_rebuild"] = {}
    BY TrailInPlace DEF Replaced, Table
  <1>2. R \cup {} = R
    OBVIOUS
  <1> QED
    BY <1>1, <1>2 DEF AuditInv, Attributed

LEMMA SyncLogStep ==
    ASSUME BootInv, phase \in {"bind", "serving"}, NEW R, given' = given,
           Replaced(db, db', "sync_logs", R)
    PROVE  AuditInv(db', given')
  <1>1. /\ \A u \in Audits : db'.rows[u] = db.rows[u]
        /\ db'.applied = db.applied
    BY DEF Replaced, Audits, Table
  <1> QED
    BY <1>1, AuditFrame DEF BootInv, Sound

LEMMA PurgeStep ==
    ASSUME IInv, Purge
    PROVE  BootInv'
  <1>1. BootInv /\ phase \in {"bind", "serving"} /\ worker \in LogTable
    BY DEF IInv, WorkerInv, Purge, LogTable
  <1>2. IsDatabase(db) /\ given \in History
    BY <1>1, TrailInPlace DEF BootInv, TypeOK
  <1> DEFINE R == db.rows[worker] \ Expired(worker)
  <1>3. /\ db' = [db EXCEPT !.rows[worker] = R]
        /\ UNCHANGED <<backend, saved, phase, at, env, pinned, torn, mixed, crashes, changes>>
    BY DEF Purge
  <1>4. R \subseteq RowOf(worker)
    BY <1>1, <1>2 DEF IsDatabase, LogTable, Table
  <1>5. CASE worker = "sync_logs"
    <2>1. given' = given
      BY <1>5 DEF Purge
    <2>2. Replaced(db, db', "sync_logs", R) => AuditInv(db', given')
      BY <1>1, <2>1, SyncLogStep
    <2> HIDE DEF R
    <2> QED
      BY <1>1, <1>2, <1>3, <1>4, <1>5, <2>1, <2>2, ServingLogs
  <1>6. CASE worker = "audit_logs"
    <2> DEFINE trail == {r \in given.trail : \A x \in Expired("audit_logs") : x.id # r.id}
    <2>1. given' = [given EXCEPT !.trail = trail]
      BY <1>6 DEF Purge
    <2>2. trail \subseteq given.trail
      OBVIOUS
    <2>3. Keeps(R, trail)
      <3>1. Keeps(db.rows["audit_logs"], given.trail)
        BY <1>1, TrailInPlace
      <3> SUFFICES ASSUME NEW r \in trail
                   PROVE  \E kept \in R : /\ kept.id = r.id
                                          /\ \A col \in Column :
                                                \/ kept.by[col] = r.by[col]
                                                \/ r.by[col] = None /\ kept.by[col] = "(unknown)"
        BY DEF Keeps
      <3>2. PICK kept \in db.rows["audit_logs"] :
                /\ kept.id = r.id
                /\ \A col \in Column : \/ kept.by[col] = r.by[col]
                                       \/ r.by[col] = None /\ kept.by[col] = "(unknown)"
        BY <3>1 DEF Keeps
      <3>3. kept \in R
        BY <1>6, <3>2
      <3> QED
        BY <3>2, <3>3
    <2>4. Attributed(R)
      <3>1. R \subseteq db.rows["audit_logs"]
        BY <1>6
      <3> QED
        BY <1>1, <3>1, TrailInPlace DEF Attributed
    <2> HIDE DEF trail, R
    <2>5. /\ given' \in History /\ given'.trail = trail
          /\ given'.feeds = given.feeds /\ given'.groups = given.groups
          /\ given'.targets = given.targets
      BY <1>2, <2>1, <2>2 DEF History
    <2>6. Replaced(db, db', "audit_logs", R) => AuditInv(db', given')
      BY <1>1, <2>3, <2>4, <2>5, TrailStep
    <2> QED
      BY <1>1, <1>3, <1>4, <1>6, <2>5, <2>6, ServingLogs
  <1> QED
    BY <1>1, <1>5, <1>6 DEF LogTable

LEMMA WriteSyncLogStep ==
    ASSUME BootInv, WriteSyncLog
    PROVE  BootInv'
  <1>1. phase \in {"bind", "serving"} /\ given' = given
    BY DEF WriteSyncLog
  <1>2. PICK r \in LogRows : db' = [db EXCEPT !.rows["sync_logs"] = @ \cup {r}]
    BY DEF WriteSyncLog
  <1> DEFINE R == db.rows["sync_logs"] \cup {r}
  <1>3. db' = [db EXCEPT !.rows["sync_logs"] = R]
    BY <1>2
  <1>4. IsDatabase(db) /\ given \in History
    BY <1>1, TrailInPlace DEF BootInv, TypeOK
  <1>5. R \subseteq LogRows
    BY <1>4, RowTypes
  <1>6. "sync_logs" \in LogTable /\ R \subseteq RowOf("sync_logs")
    BY <1>5 DEF LogTable, RowOf
  <1> HIDE DEF R
  <1>7. Replaced(db, db', "sync_logs", R) => AuditInv(db', given')
    BY <1>1, SyncLogStep
  <1> QED
    BY <1>1, <1>3, <1>4, <1>6, <1>7, ServingLogs DEF WriteSyncLog

LEMMA WriteAuditLogStep ==
    ASSUME BootInv, WriteAuditLog
    PROVE  BootInv'
  <1>1. phase = "serving"
    BY DEF WriteAuditLog
  <1> DEFINE Row(r) == [id |-> r, by |-> [col \in Column |-> "recorded"]]
  <1>2. PICK r \in AuditRows :
            /\ db' = [db EXCEPT !.rows["audit_logs"] = @ \cup {Row(r)}]
            /\ given' = [given EXCEPT !.trail = @ \cup {Row(r)}]
    BY DEF WriteAuditLog
  <1> DEFINE row == Row(r)
             R == db.rows["audit_logs"] \cup {row}
             trail == given.trail \cup {row}
  <1>3. row \in Audit /\ \A col \in Column : row.by[col] = "recorded"
    BY DEF Audit, Attribution
  <1>4. db' = [db EXCEPT !.rows["audit_logs"] = R] /\ given' = [given EXCEPT !.trail = trail]
    BY <1>2
  <1> HIDE DEF row
  <1>5. IsDatabase(db) /\ given \in History
    BY <1>1, TrailInPlace DEF BootInv, TypeOK
  <1>6. "audit_logs" \in LogTable /\ R \subseteq RowOf("audit_logs")
    BY <1>3, <1>5, RowTypes DEF LogTable, RowOf
  <1>7. Keeps(R, trail)
    <2>1. Keeps(db.rows["audit_logs"], given.trail)
      BY <1>1, TrailInPlace
    <2> QED
      BY <2>1 DEF Keeps
  <1>8. Attributed(R)
    BY <1>1, <1>3, TrailInPlace, BootAssumption DEF Attributed
  <1>9. trail \subseteq Audit
    BY <1>3, <1>5 DEF History
  <1> HIDE DEF R, trail
  <1>10. /\ given' \in History /\ given'.trail = trail
         /\ given'.feeds = given.feeds /\ given'.groups = given.groups
         /\ given'.targets = given.targets
    BY <1>4, <1>5, <1>9 DEF History
  <1>11. Replaced(db, db', "audit_logs", R) => AuditInv(db', given')
    BY <1>1, <1>7, <1>8, <1>10, TrailStep
  <1> QED
    BY <1>1, <1>4, <1>6, <1>10, <1>11, ServingLogs DEF WriteAuditLog

---------------------------------------------------------------------------
(* The theorems.                                                            *)

LEMMA BootStepInvariant ==
    ASSUME BootInv, BootStep
    PROVE  BootInv'
  <1>1. CASE Start
    BY <1>1, StartStep
  <1>2. CASE Execute
    BY <1>2, ExecuteStep
  <1>3. CASE Refused
    BY <1>3, ExitStep DEF Refused
  <1>4. CASE Record
    BY <1>4, RecordStep
  <1>5. CASE Migrated
    BY <1>5, MigratedStep
  <1>6. CASE BootstrapMasterKey
    BY <1>6, BootstrapStep
  <1>7. CASE InsertMaster
    BY <1>7, InsertStep
  <1>8. CASE VerifyEncryptionKey
    BY <1>8, VerifyStep
  <1>9. CASE SetupState
    BY <1>9, SetupStep
  <1>10. CASE PinAtBoot
    BY <1>10, PinStep
  <1> QED
    BY <1>1, <1>2, <1>3, <1>4, <1>5, <1>6, <1>7, <1>8, <1>9, <1>10 DEF BootStep

LEMMA BootFrame == BootInv /\ UNCHANGED bootVars => BootInv'
  <1> SUFFICES ASSUME BootInv, UNCHANGED bootVars PROVE BootInv'
    OBVIOUS
  <1>1. /\ backend' = backend /\ db' = db /\ saved' = saved /\ phase' = phase /\ at' = at
        /\ env' = env /\ pinned' = pinned /\ given' = given /\ torn' = torn
        /\ mixed' = mixed /\ crashes' = crashes /\ changes' = changes
    BY DEF bootVars
  <1>2. TypeOK'
    BY <1>1 DEF BootInv, TypeOK, Current
  <1>3. RunInv'
    BY <1>1 DEF BootInv, RunInv, Masters
  <1>4. SealInv'
    BY <1>1 DEF BootInv, SealInv
  <1> QED
    BY <1>1, <1>2, <1>3, <1>4 DEF BootInv

LEMMA NextInvariant == IInv /\ [Next]_vars => IInv'
  <1> SUFFICES ASSUME IInv, [Next]_vars PROVE IInv'
    OBVIOUS
  <1>1. /\ BootInv /\ worker \in LogTable \cup {"wait", "off"}
        /\ worker # "off" => phase \in {"bind", "serving"}
    BY DEF IInv, WorkerInv
  <1>2. CASE Boots
    <2>1. BootInv'
      BY <1>1, <1>2, BootStepInvariant, ListenStep DEF Boots
    <2>2. WorkerInv'
      <3>1. CASE BootStep /\ worker' = "off"
        BY <3>1 DEF WorkerInv
      <3>2. CASE BootScheduler /\ worker' = Spawned
        BY <3>2 DEF BootScheduler, Proceed, WorkerInv, Spawned, LogTable
      <3>3. CASE Bind /\ UNCHANGED worker
        BY <1>1, <3>3 DEF Bind, Proceed, WorkerInv
      <3> QED
        BY <1>2, <3>1, <3>2, <3>3 DEF Boots
    <2> QED
      BY <2>1, <2>2 DEF IInv
  <1>3. CASE Ends
    <2>1. BootInv'
      BY <1>1, <1>3, ExitStep, CrashStep DEF Ends, Stop
    <2>2. WorkerInv'
      BY <1>3 DEF Ends, WorkerInv
    <2> QED
      BY <2>1, <2>2 DEF IInv
  <1>4. CASE Others
    <2>1. BootInv'
      BY <1>1, <1>4, OtherDaemonStep, RemoveMasterStep, CreateKeyStep, RotateSecretStep,
         DeleteKeyStep, CreateVaultStep, UpdateVaultStep, DeleteVaultStep
         DEF Others, SecretStep, OutsideStep
    <2>2. phase' = phase /\ worker' = worker
      BY <1>4 DEF Others, SecretStep, OutsideStep, OtherDaemonBootstraps, RemoveMaster,
                  CreateKey, RotateSecret, DeleteKey, CreateVault, UpdateVault, DeleteVault,
                  Writes, workerVars
    <2> QED
      BY <1>1, <2>1, <2>2 DEF IInv, WorkerInv
  <1>5. CASE Purge
    <2>1. BootInv'
      BY <1>5, PurgeStep
    <2>2. phase' = phase /\ worker' \in {"audit_logs", "wait"} /\ worker \in LogTable
      BY <1>5 DEF Purge, AfterPurge
    <2> QED
      BY <1>1, <2>1, <2>2 DEF IInv, WorkerInv, LogTable
  <1>6. CASE PurgeFails
    <2>1. BootInv'
      BY <1>1, <1>6, BootFrame DEF PurgeFails
    <2>2. phase' = phase /\ worker' \in {"audit_logs", "wait"} /\ worker \in LogTable
      BY <1>6 DEF PurgeFails, AfterPurge, bootVars
    <2> QED
      BY <1>1, <2>1, <2>2 DEF IInv, WorkerInv, LogTable
  <1>7. CASE NextTick
    <2>1. BootInv'
      BY <1>1, <1>7, BootFrame DEF NextTick
    <2>2. phase' = phase /\ worker' = "sync_logs" /\ worker = "wait"
      BY <1>7 DEF NextTick, bootVars
    <2> QED
      BY <1>1, <2>1, <2>2 DEF IInv, WorkerInv, LogTable
  <1>8. CASE WriteSyncLog
    <2>1. BootInv'
      BY <1>1, <1>8, WriteSyncLogStep
    <2> QED
      BY <1>1, <1>8, <2>1 DEF IInv, WorkerInv, WriteSyncLog
  <1>9. CASE WriteAuditLog
    <2>1. BootInv'
      BY <1>1, <1>9, WriteAuditLogStep
    <2> QED
      BY <1>1, <1>9, <2>1 DEF IInv, WorkerInv, WriteAuditLog
  <1>10. CASE Day
    <2>1. BootInv'
      BY <1>1, <1>10, BootFrame DEF Day
    <2> QED
      BY <1>1, <1>10, <2>1 DEF IInv, WorkerInv, Day, bootVars
  <1>11. CASE UNCHANGED vars
    <2>1. BootInv'
      BY <1>1, <1>11, BootFrame DEF vars, bootVars
    <2> QED
      BY <1>1, <1>11, <2>1 DEF IInv, WorkerInv, vars
  <1> QED
    BY <1>2, <1>3, <1>4, <1>5, <1>6, <1>7, <1>8, <1>9, <1>10, <1>11 DEF Next

\* The inductive invariant of the daemon with its worker (IInv, its TypeOK
\* included): whatever statement a process is killed after, the committed
\* database, or the one the rollback returns to, is one that the next start can
\* go on from.
THEOREM RetentionInvariant == Spec => []IInv
  BY InitInvariant, NextInvariant, PTL DEF Spec

\* From any database an earlier version left, however often the process is
\* killed between two statements of the migrations, no source, schedule, group,
\* target or recorded audit value is lost (m20260818_010217, m20260928_033617).
THEOREM NothingLostTheorem == Spec => []NothingLost
  <1>1. IInv => NothingLost
    <2> SUFFICES ASSUME IInv PROVE NothingLost
      OBVIOUS
    <2>1. /\ db.applied \in 0..5 /\ SchemaInv(backend, db) /\ ContentInv(db, given)
          /\ AuditInv(db, given)
      BY DEF IInv, BootInv, TypeOK, IsDatabase, Sound, Latest
    <2> DEFINE E == db.rows["external_sources"] \cup db.rows["external_sources_rebuild"]
               Read(e) == [id |-> e.id, group |-> IF e.group = None THEN e.id ELSE e.group]
    <2>2. given.feeds \subseteq FeedsIn(E)
      <3>1. CASE db.applied <= 3
        <4>1. /\ given.feeds = {[id |-> s, group |-> s] : s \in given.groups}
              /\ \A e \in E : e.group \in {None, e.id}
              /\ \A s \in given.groups : \E e \in E : e.id = s
          BY <2>1, <3>1 DEF ContentInv
        <4>2. \A e \in E : Read(e) = [id |-> e.id, group |-> e.id]
          BY <4>1
        <4>3. FeedsIn(E) = {Read(e) : e \in E}
          BY DEF FeedsIn
        <4> HIDE DEF E
        <4> QED
          BY <4>1, <4>2, <4>3
      <3>2. CASE db.applied >= 4
        <4>1. given.feeds = FeedsIn(db.rows["external_sources"])
          BY <2>1, <3>2 DEF ContentInv, FeedsOf
        <4> QED
          BY <4>1 DEF FeedsIn
      <3>3. db.applied <= 3 \/ db.applied >= 4
        BY <2>1
      <3> QED
        BY <3>1, <3>2, <3>3, Zenon
    <2>3. given.groups \subseteq GroupsOf(db)
      <3>1. CASE db.applied <= 3
        <4>1. IF Flat(db) THEN given.groups \subseteq Ids(db.rows["external_sources"])
                          ELSE given.groups \subseteq db.rows["destination_groups"]
          BY <2>1, <3>1 DEF ContentInv
        <4> QED
          BY <4>1 DEF GroupsOf, Ids
      <3>2. CASE db.applied >= 4
        <4>1. ~Flat(db) /\ db.rows["destination_groups"] = given.groups
          BY <2>1, <3>2 DEF ContentInv, SchemaInv
        <4> QED
          BY <4>1 DEF GroupsOf
      <3>3. db.applied <= 3 \/ db.applied >= 4
        BY <2>1
      <3> QED
        BY <3>1, <3>2, <3>3, Zenon
    <2>4. given.targets \subseteq TargetsOf(db)
      BY <2>1 DEF ContentInv, TargetsOf
    <2>5. TrailKept
      BY <2>1 DEF AuditInv, Keeps, TrailKept
    <2> QED
      BY <2>2, <2>3, <2>4, <2>5 DEF NothingLost, ContentKept
  <1> QED
    BY <1>1, RetentionInvariant, PTL

\* Past the migrations the rows are exactly the old content in the new shape,
\* on every engine and also after kills: no half-migrated database is served.
THEOREM ServesMigratedTheorem == Spec => []ServesMigrated
  <1>1. IInv => ServesMigrated
    <2> SUFFICES ASSUME IInv, phase \notin {"down", "migrate"}
                 PROVE  /\ Content(db).feeds = given.feeds
                        /\ Content(db).groups = given.groups
                        /\ Content(db).targets = given.targets
                        /\ ~Flat(db)
                        /\ \A t \in {"external_source_vault_targets", "external_sources_rebuild",
                                     "audit_logs_rebuild"} : ~Exists(db, t)
                        /\ \A col \in Column : Unattributed(db, col) = {}
      BY DEF ServesMigrated
    <2>1. /\ db.applied = 5 /\ SchemaInv(backend, db) /\ ContentInv(db, given)
          /\ AuditInv(db, given)
      BY DEF IInv, BootInv, RunInv, Sound, Latest
    <2>2. /\ ~Flat(db)
          /\ \A t \in {"external_source_vault_targets", "external_sources_rebuild",
                       "audit_logs_rebuild"} : ~Exists(db, t)
      BY <2>1 DEF SchemaInv
    <2>3. \A col \in Column : Unattributed(db, col) = {}
      BY <2>1, AttributedColumns DEF AuditInv
    <2>4. /\ FeedsOf(db) = given.feeds /\ GroupsOf(db) = given.groups
          /\ TargetsOf(db) = given.targets
      BY <2>1, <2>2 DEF ContentInv, GroupsOf, TargetsOf
    <2> QED
      BY <2>2, <2>3, <2>4, ContentFields
  <1> QED
    BY <1>1, RetentionInvariant, PTL

\* From the migration that derives the marker on there is at most one Master,
\* whatever daemons race to make it, and a serving process has pinned it.
THEOREM MasterSettledTheorem == Spec => []MasterSettled
  <1>1. IInv => MasterSettled
    BY DEF IInv, BootInv, Sound, KeyInv, RunInv, MasterSettled
  <1> QED
    BY <1>1, RetentionInvariant, PTL

\* Where the Master is sealed and no Master was made beside secrets sealed
\* otherwise, a process that serves has a key that opens every secret of a key
\* or a vault endpoint, whichever row verify_encryption_key sampled, also after
\* the Master was regenerated.
THEOREM SealedFromTheStartTheorem == Spec => []SealedFromTheStart
  <1>1. IInv => SealedFromTheStart
    <2> SUFFICES ASSUME IInv, phase = "serving", ~mixed,
                        \A m \in Masters(db) : m.sealed # None,
                        NEW sealed \in Secrets(db)
                 PROVE  Opens(env.cipher, sealed)
      BY DEF SealedFromTheStart
    <2>1. RunInv /\ SealInv
      BY DEF IInv, BootInv
    <2>2. PICK m \in Masters(db) : TRUE
      BY <2>1 DEF RunInv
    <2>3. m.sealed = env.cipher
      BY <2>1, <2>2 DEF RunInv
    <2>4. sealed = m.sealed
      BY <2>1, <2>2 DEF SealInv, SealedAlike
    <2> QED
      BY <2>3, <2>4 DEF Opens
  <1> QED
    BY <1>1, RetentionInvariant, PTL

=============================================================================
