---------------------------- MODULE MCIngestion ----------------------------
(* Instance for TLC.  One address is public and reported as stale, one is a *)
(* bogon; a feed follows the group and keeps any age, or lets bogons        *)
(* through and has an age limit.                                            *)
EXTENDS Ingestion, TLC

CONSTANTS pub, bog

MCBodies == {{}, {[addr |-> pub, old |-> TRUE], [addr |-> bog, old |-> FALSE]}}
MCFeedRows == {[skip |-> "yes", maxAge |-> TRUE],
               [skip |-> "group", maxAge |-> FALSE]}
MCSettings == {[mode |-> "full_replace", skip |-> FALSE],
               [mode |-> "upsert", skip |-> TRUE]}
=============================================================================
