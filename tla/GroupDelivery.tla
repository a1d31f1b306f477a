--------------------------- MODULE GroupDelivery ---------------------------
(***************************************************************************)
(* What pushing one run's records to one target group promises its caller  *)
(* (jobs/vault_sync.rs and jobs/external_ingestion.rs, the per-target       *)
(* chunk loops), whatever retries and splits happen underneath.            *)
(*                                                                         *)
(* The records of the run are numbered 1..n in delivery order.  The        *)
(* content of the target group is at every moment either what it was       *)
(* before the run or the outcome of delivering a prefix 1..p of the run;   *)
(* the push reports success only when the prefix is the whole run.         *)
(***************************************************************************)
EXTENDS Integers

CONSTANTS
    MaxItems,   \* bound on the number of records of a run
    Initial     \* the group's live records before the run

BatchMode == {"upsert", "full_replace"}

VARIABLES
    n,          \* number of records of the run
    base,       \* the run's configured mode
    group,      \* live records of the target group
    outcome     \* "running", then "ok" or "err"

vars == <<n, base, group, outcome>>

\* The group once exactly the records 1..p have been delivered.  A run with
\* no record sends no request, so a full_replace of nothing clears nothing.
Content(p) ==
    IF p = 0 THEN Initial
    ELSE IF base = "full_replace" THEN 1..p
    ELSE Initial \cup 1..p

Init ==
    /\ n \in 0..MaxItems
    /\ base \in BatchMode
    /\ group = Initial
    /\ outcome = "running"

\* A request takes effect.  An upsert run never takes a record away; under
\* full_replace the prefix may shrink: a first batch whose answer was lost
\* is sent again in halves, and the first half replaces the whole.
Write ==
    /\ outcome = "running"
    /\ \E p \in 1..n : group' = Content(p)
    /\ base = "upsert" => group \subseteq group'
    /\ UNCHANGED <<n, base, outcome>>

Succeed ==
    /\ outcome = "running"
    /\ group = Content(n)
    /\ outcome' = "ok"
    /\ UNCHANGED <<n, base, group>>

\* The last request may have taken effect although its answer was an error.
Fail ==
    /\ outcome = "running"
    /\ \/ group' = group
       \/ \E p \in 1..n : group' = Content(p)
    /\ base = "upsert" => group \subseteq group'
    /\ outcome' = "err"
    /\ UNCHANGED <<n, base>>

Next == Write \/ Succeed \/ Fail

Spec == Init /\ [][Next]_vars
=============================================================================
