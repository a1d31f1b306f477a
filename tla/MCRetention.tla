---------------------------- MODULE MCRetention ----------------------------
(* Instance for TLC.  The daemon meets an empty database, or one left by    *)
(* the version before the audit and destination-group migrations, with an   *)
(* audit row that names no actor and a vault whose secret is sealed, or one *)
(* with two Masters, or with none beside secrets at rest.                   *)
EXTENDS Retention, TLC, SequencesExt

CONSTANTS s1, s2, v1, r1, l1, k1, k2, a1

EmptyRows == [t \in Table |-> {}]
Nothing == [objects |-> {}, rows |-> EmptyRows, applied |-> 0]

\* The schema after the first n migrations.
Schema(n) ==
    [FoldLeft(LAMBDA d, s : Executed(d, s), Nothing,
              FlattenSeq(SubSeq(Migrations("sqlite"), 1, n)))
     EXCEPT !.applied = n]

Actor(x) == [col \in Column |-> IF col = "client_ip" THEN x ELSE "recorded"]
Older == [Schema(2) EXCEPT
    !.rows["external_sources"] = {[id |-> s1, group |-> None], [id |-> s2, group |-> None]},
    !.rows["vault_endpoints"] = {[id |-> v1, sealed |-> k1]},
    !.rows["external_source_vault_targets"] = {<<s1, v1>>},
    !.rows["audit_logs"] = {[id |-> r1, by |-> Actor(None)]},
    !.rows["sync_logs"] = {l1}]
Install(b, d) == [backend |-> b, db |-> d]

\* Seeded with two Masters by something else than the daemon's bootstrap.
TwoMasters == [Schema(1) EXCEPT
    !.rows["api_keys"] = {[id |-> k, is_master |-> TRUE, sealed |-> None] : k \in Keys}]
\* Up to date, with a key and a vault of a Master that has been removed.
Orphaned == [Schema(Latest) EXCEPT
    !.rows["api_keys"] = {[id |-> a1, is_master |-> FALSE, sealed |-> k1]},
    !.rows["vault_endpoints"] = {[id |-> v1, sealed |-> k1]}]
NewInstallation == {Install("sqlite", Nothing)}
MCInstallations == NewInstallation \cup {Install(b, Older) : b \in Backend}
                   \cup {Install("sqlite", TwoMasters), Install("postgres", Orphaned)}

Env(c, m, p) == [cipher |-> c, initial_master_key_ok |-> m, trusted_proxies_ok |-> p]
MCEnvironments == {Env(k1, TRUE, TRUE), Env(k2, TRUE, TRUE), Env(None, TRUE, FALSE),
                   Env("malformed", FALSE, TRUE)}
CanaryEnvironments == {Env(c, TRUE, TRUE) : c \in Ciphers \cup {None}}

OneWindow == {[sync_logs |-> 1, audit_logs |-> 0]}
NoRetention == {[sync_logs |-> 0, audit_logs |-> 0]}
=============================================================================
