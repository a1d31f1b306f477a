------------------------------ MODULE Scheduler ------------------------------
(***************************************************************************)
(* The cron job of one resource (a destination group or a sync task: the   *)
(* two sides of scheduler.rs are the same code) kept in step with its      *)
(* database row by the API handlers.                                       *)
(*                                                                         *)
(* A handler first commits its change to the row, then calls upsert or     *)
(* remove, which takes the resource's job id out of the map under the      *)
(* map's lock, awaits scheduler.remove, awaits scheduler.add and puts the  *)
(* new id into the map.  Nothing serialises two handlers of the same       *)
(* resource; a handler is dropped where it stands when its client goes     *)
(* away, and everything in memory is rebuilt from the rows at boot.        *)
(* Schedules reach the scheduler validated, so Job::new_async succeeds;    *)
(* scheduler.remove and scheduler.add may fail, which is only logged.      *)
(***************************************************************************)
EXTENDS Integers, FiniteSets

CONSTANTS
    Requests,    \* handlers that may be in flight
    Crons,       \* cron schedules
    None,        \* no job id
    Keep,        \* a field the PATCH body leaves out
    MaxEdits,    \* bound on requests
    MaxFaults,   \* bound on handlers dropped half way and failed scheduler calls
    MaxCascades, \* bound on deletions by cascade from a vault
    MaxRestarts  \* bound on restarts

Row == [state : {"unborn", "alive", "deleted"}, active : BOOLEAN, cron : Crons]

ASSUME SchedulerAssumption ==
    /\ None \notin Int /\ Crons # {}
    /\ Keep \notin BOOLEAN /\ Keep \notin Crons
    /\ MaxEdits \in Nat /\ MaxFaults \in Nat
    /\ MaxCascades \in Nat /\ MaxRestarts \in Nat

VARIABLES
    row,       \* the resource's row
    jobs,      \* live jobs of the tokio scheduler
    map,       \* source_jobs / task_jobs: the resource's job id
    req,       \* the handlers in flight
    nextId,    \* the next job id the scheduler hands out
    clean,     \* history: since boot, no two handlers overlapped after their
               \* commit, none was dropped there, no call of the scheduler
               \* failed, nothing was cascaded
    edits, faults, cascades, restarts   \* counters for the bounds

counters == <<edits, faults, cascades, restarts>>
vars == <<row, jobs, map, req, nextId, clean, edits, faults, cascades,
          restarts>>

Job == [id : Int, cron : Crons]
Phase == {"idle", "write", "unmap", "unschedule", "add", "insert"}
Op == {"create", "patch", "delete"}

\* A handler: the fields of its body, the row its commit left (`updated`),
\* and the job id it holds between two steps.
Req == [phase : Phase, op : Op, active : BOOLEAN \cup {Keep},
        cron : Crons \cup {Keep}, model : Row, held : Int \cup {None}]

\* After its commit and before its end.
InSection(q) == req[q].phase \in {"unmap", "unschedule", "add", "insert"}

\* The row asks for a job.
Wanted(r) == r.state = "alive" /\ r.active

NoRow == [state |-> "unborn", active |-> FALSE, cron |-> CHOOSE c \in Crons : TRUE]
NoReq == [phase |-> "idle", op |-> "create", active |-> Keep, cron |-> Keep,
          model |-> NoRow, held |-> None]

Idle(q) == [req EXCEPT ![q] = NoReq]

-----------------------------------------------------------------------------
(* Plausible defects of the definitions below, for mutation. *)
BadAddsJob(q) == req[q].op # "delete"
BadMapAfterUnmap == map
BadSurvivors(q) == jobs
BadBootMap(r) == None

\* upsert: after the removal, the end for a deleted or inactive resource.
AddsJob(q) == req[q].op # "delete" /\ req[q].model.active

Removed(q) ==
    req' = IF AddsJob(q)
           THEN [req EXCEPT ![q] = [@ EXCEPT !.phase = "add", !.held = None]]
           ELSE Idle(q)

\* map.remove under the lock.
MapAfterUnmap == None

\* The live jobs after scheduler.remove of the id the handler took.
Survivors(q) == {j \in jobs : j.id # req[q].held}

\* The row with the fields the body gives; sea-orm updates only those.
Patched(q) ==
    [row EXCEPT !.active = IF req[q].active = Keep THEN @ ELSE req[q].active,
                !.cron = IF req[q].cron = Keep THEN @ ELSE req[q].cron]

\* boot: one job per active row.
BootJobs(r) == IF Wanted(r) THEN {[id |-> nextId, cron |-> r.cron]} ELSE {}
BootMap(r) == IF Wanted(r) THEN nextId ELSE None

-----------------------------------------------------------------------------
Init ==
    /\ \E state \in {"unborn", "alive"}, active \in BOOLEAN, cron \in Crons :
          row = [state |-> state, active |-> active, cron |-> cron]
    /\ nextId = 1
    /\ jobs = IF Wanted(row) THEN {[id |-> 0, cron |-> row.cron]} ELSE {}
    /\ map = IF Wanted(row) THEN 0 ELSE None
    /\ req = [q \in Requests |-> NoReq]
    /\ clean = TRUE
    /\ edits = 0 /\ faults = 0 /\ cascades = 0 /\ restarts = 0

\* A handler has found the row and passed its guards (a create needs none).
Arrive(q, op, active, cron) ==
    /\ req[q].phase = "idle"
    /\ edits < MaxEdits
    /\ op = "create" <=> row.state = "unborn"
    /\ op # "create" => row.state = "alive"
    /\ edits' = edits + 1
    /\ op = "delete" => active = Keep /\ cron = Keep
    /\ req' = [req EXCEPT ![q] = [NoReq EXCEPT !.phase = "write", !.op = op,
                  !.active = active, !.cron = cron]]
    /\ UNCHANGED <<row, jobs, map, nextId, clean, faults, cascades, restarts>>

\* The commit: from here on the row is changed and the job is not.
Commit(q, newRow) ==
    /\ row' = newRow
    /\ req' = [req EXCEPT ![q] = [NoReq EXCEPT !.phase = "unmap",
                  !.op = req[q].op, !.model = newRow]]
    /\ clean' = (clean /\ \A p \in Requests \ {q} : ~InSection(p))
    /\ UNCHANGED <<jobs, map, nextId, counters>>

\* The update or the DELETE hit no row: NotFound.
Lost(q) ==
    /\ row.state # "alive"
    /\ req' = Idle(q)
    /\ UNCHANGED <<row, jobs, map, nextId, clean, counters>>

\* create_destination_group, create_vault_sync_task: the id is fresh, so only
\* one handler ever inserts it.
WriteCreate(q) ==
    /\ req[q].phase = "write" /\ req[q].op = "create"
    /\ \/ row.state = "unborn" /\ Commit(q, [Patched(q) EXCEPT !.state = "alive"])
       \/ /\ row.state # "unborn"
          /\ req' = Idle(q)
          /\ UNCHANGED <<row, jobs, map, nextId, clean, counters>>

WritePatch(q) ==
    /\ req[q].phase = "write" /\ req[q].op = "patch"
    /\ \/ row.state = "alive" /\ Commit(q, Patched(q))
       \/ Lost(q)

WriteDelete(q) ==
    /\ req[q].phase = "write" /\ req[q].op = "delete"
    /\ \/ row.state = "alive" /\ Commit(q, [row EXCEPT !.state = "deleted"])
       \/ Lost(q)

\* remove_task / remove_source: first the map, under its lock ...
Unmap(q) ==
    /\ req[q].phase = "unmap"
    /\ map' = MapAfterUnmap
    /\ IF map = None
       THEN Removed(q)
       ELSE req' = [req EXCEPT ![q] = [@ EXCEPT !.phase = "unschedule",
                                                !.held = map]]
    /\ UNCHANGED <<row, jobs, nextId, clean, counters>>

\* ... then, across an await, the scheduler.
Unschedule(q) ==
    /\ req[q].phase = "unschedule"
    /\ jobs' = Survivors(q)
    /\ Removed(q)
    /\ UNCHANGED <<row, map, nextId, clean, counters>>

\* scheduler.remove fails: the job stays, and no one knows its id any more.
UnscheduleFails(q) ==
    /\ req[q].phase = "unschedule"
    /\ Removed(q)
    /\ faults < MaxFaults
    /\ faults' = faults + 1
    /\ clean' = FALSE
    /\ UNCHANGED <<row, jobs, map, nextId, edits, cascades, restarts>>

\* upsert: scheduler.add, then, across an await, the map.
Add(q) ==
    /\ req[q].phase = "add"
    /\ jobs' = jobs \cup {[id |-> nextId, cron |-> req[q].model.cron]}
    /\ nextId' = nextId + 1
    /\ req' = [req EXCEPT ![q] = [@ EXCEPT !.phase = "insert", !.held = nextId]]
    /\ UNCHANGED <<row, map, clean, counters>>

\* scheduler.add fails: the handler still answers 200.
AddFails(q) ==
    /\ req[q].phase = "add"
    /\ req' = Idle(q)
    /\ faults < MaxFaults
    /\ faults' = faults + 1
    /\ clean' = FALSE
    /\ UNCHANGED <<row, jobs, map, nextId, edits, cascades, restarts>>

Insert(q) ==
    /\ req[q].phase = "insert"
    /\ map' = req[q].held
    /\ req' = Idle(q)
    /\ UNCHANGED <<row, jobs, nextId, clean, counters>>

Step(q) ==
    \/ WriteCreate(q)
    \/ WritePatch(q)
    \/ WriteDelete(q)
    \/ Unmap(q)
    \/ Unschedule(q)
    \/ UnscheduleFails(q)
    \/ Add(q)
    \/ AddFails(q)
    \/ Insert(q)

\* The client goes away and the handler is dropped at an await.
Cancel(q) ==
    /\ req[q].phase # "idle"
    /\ faults < MaxFaults
    /\ faults' = faults + 1
    /\ clean' = (clean /\ ~InSection(q))
    /\ req' = Idle(q)
    /\ UNCHANGED <<row, jobs, map, nextId, edits, cascades, restarts>>

\* DELETE of the source vault: the row goes by the foreign key, and no code
\* tells the scheduler (api/vaults.rs delete_vault_endpoint).
Cascade ==
    /\ row.state = "alive"
    /\ cascades < MaxCascades
    /\ cascades' = cascades + 1
    /\ row' = [row EXCEPT !.state = "deleted"]
    /\ clean' = FALSE
    /\ UNCHANGED <<jobs, map, req, nextId, edits, faults, restarts>>

\* The process restarts: boot runs before the listener is bound.
Restart ==
    /\ restarts < MaxRestarts
    /\ restarts' = restarts + 1
    /\ req' = [q \in Requests |-> NoReq]
    /\ jobs' = BootJobs(row)
    /\ map' = BootMap(row)
    /\ nextId' = nextId + 1
    /\ clean' = TRUE
    /\ UNCHANGED <<row, edits, faults, cascades>>

Next ==
    \/ \E q \in Requests : Step(q) \/ Cancel(q)
    \/ \E q \in Requests, op \in Op, active \in BOOLEAN \cup {Keep},
          cron \in Crons \cup {Keep} : Arrive(q, op, active, cron)
    \/ Cascade
    \/ Restart

\* A handler that is not dropped runs to its end.
Fairness == \A q \in Requests : WF_vars(Step(q))

Spec == Init /\ [][Next]_vars
FairSpec == Spec /\ Fairness

-----------------------------------------------------------------------------
(* Properties *)

TypeOK ==
    /\ row \in Row
    /\ jobs \in SUBSET Job
    /\ map \in Int \cup {None}
    /\ req \in [Requests -> Req]
    /\ nextId \in Nat
    /\ clean \in BOOLEAN
    /\ edits \in 0..MaxEdits /\ faults \in 0..MaxFaults
    /\ cascades \in 0..MaxCascades /\ restarts \in 0..MaxRestarts

\* Exactly the job the row asks for is live, and the map knows it.
InSync ==
    IF Wanted(row)
    THEN \E j \in jobs : jobs = {j} /\ map = j.id /\ j.cron = row.cron
    ELSE jobs = {} /\ map = None

Quiet == \A q \in Requests : req[q].phase = "idle"

\* As long as no two handlers of the resource overlap after their commits,
\* none is dropped there, the scheduler's own calls succeed and nothing is
\* cascaded, the live job is the one the row asks for whenever no handler is
\* in flight; and a restart repairs whatever went wrong before it.  Handlers
\* may overlap freely before their commits.
SerialEditsInSync == Quiet /\ clean => InSync

\* Whatever the handlers' interleaving, the map never names a job that is
\* not live: a job is unmapped before it is removed and mapped after it was
\* added, so an upsert never fails to remove the job it found.
MappedJobLives == map # None => \E j \in jobs : j.id = map

\* While edits are serial, a schedule never fires twice: the old job is gone
\* before the new one is added.
NeverTwoJobs == clean => Cardinality(jobs) <= 1

(* The parts of the inductive invariant. *)

\* Job ids are never reused, and no two of the map and the handlers hold the
\* same one.
Holds(q) == req[q].phase \in {"unschedule", "insert"}
IdsDistinct ==
    /\ \A j \in jobs : j.id < nextId
    /\ map # None => map < nextId
    /\ \A q \in Requests : Holds(q) =>
          /\ req[q].held # None /\ req[q].held < nextId
          /\ req[q].held # map
          /\ \A p \in Requests : Holds(p) /\ req[p].held = req[q].held => p = q
    /\ \A q \in Requests : req[q].phase = "insert" =>
          \E j \in jobs : j.id = req[q].held

\* Where a lone handler stands between its commit and its end.
SectionInv(q) ==
    /\ req[q].model = row
    /\ row.state = IF req[q].op = "delete" THEN "deleted" ELSE "alive"
    /\ req[q].phase = "unmap" =>
          IF map = None THEN jobs = {} ELSE \E j \in jobs : jobs = {j} /\ map = j.id
    /\ req[q].phase # "unmap" => map = None
    /\ req[q].phase = "unschedule" =>
          \E j \in jobs : jobs = {j} /\ req[q].held = j.id
    /\ req[q].phase \in {"add", "insert"} => Wanted(row)
    /\ req[q].phase = "add" => jobs = {}
    /\ req[q].phase = "insert" =>
          \E j \in jobs : jobs = {j} /\ req[q].held = j.id /\ j.cron = row.cron

IInv ==
    /\ TypeOK
    /\ IdsDistinct
    /\ MappedJobLives
    /\ clean => \A p, q \in Requests : InSection(p) /\ InSection(q) => p = q
    /\ clean => \A q \in Requests : InSection(q) => SectionInv(q)
    /\ clean /\ (\A q \in Requests : ~InSection(q)) => InSync

\* What the module comment of scheduler.rs says of edits in general: a change
\* of cron_schedule or is_active takes effect without a restart.
EditsInSync == Quiet => InSync

\* A serial edit takes effect in the end.
EditsTakeEffect == <>[](clean => InSync)
=============================================================================
