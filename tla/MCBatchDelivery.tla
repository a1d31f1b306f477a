-------------------------- MODULE MCBatchDelivery --------------------------
(* Instance for TLC.  The group already holds a record of the run (2) and   *)
(* one that is not in it (9), so that what an upsert keeps and what a       *)
(* full_replace clears can be told apart.                                  *)
EXTENDS BatchDelivery

MCInitial == {2, 9}
=============================================================================
