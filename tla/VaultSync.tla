------------------------------ MODULE VaultSync ------------------------------
(***************************************************************************)
(* One inter-vault sync task: jobs/vault_sync.rs run and execute, the      *)
(* running-jobs slot of jobs/mod.rs, the paged delta fetch of client.rs,   *)
(* and the task edits of api/sync_tasks.rs and api/vaults.rs that race     *)
(* with a run.                                                             *)
(*                                                                         *)
(* A run takes its start time, loads the task row, then the targets,       *)
(* fetches the source's delta page by page, pushes it to each target,      *)
(* writes a sync_logs row and, when every target succeeded, moves the      *)
(* task's high-water mark last_sync_at to its start time.  Each of these   *)
(* is an await: the source changes, the clock ticks, the task is edited    *)
(* and the process crashes in between.                                     *)
(*                                                                         *)
(* Records are numbered in the order of their address, the order the       *)
(* vault pages them in.  A version is what a batch carries: how often the  *)
(* record has changed (a sighting or a tombstone) and when it last did by  *)
(* the vault's clock (last_seen_at, or deleted_at for a tombstone).        *)
(* The push to one target is taken at the grain GroupDelivery promises:    *)
(* an Ok delivered everything, an Err delivered some of it.                *)
(***************************************************************************)
EXTENDS Integers, FiniteSets

CONSTANTS
    NumRecords,      \* addresses of the source group
    Bogon,           \* the bogon addresses among them
    Targets,         \* target vaults that a task may name
    Runners,         \* cron ticks and manual triggers that may start a run
    PageSize,        \* DELTA_PAGE_SIZE
    TicksPerSecond,  \* clock ticks in the second `since` is truncated to
    Ahead,           \* how far the source's clock is ahead of this server's
    SkipChoices,     \* values of skip_bogon_filtering considered
    None,            \* last_sync_at of a task that never succeeded
    MaxTick,         \* bound on the clock
    MaxChanges,      \* bound on the changes of one record
    MaxFaults,       \* bound on failures of any kind
    MaxEdits         \* bound on edits of the task

Records == 1..NumRecords

ASSUME VaultSyncAssumption ==
    /\ NumRecords \in Nat
    /\ Bogon \subseteq Records
    /\ SkipChoices \subseteq BOOLEAN
    /\ PageSize \in Nat \ {0}
    /\ TicksPerSecond \in Nat \ {0}
    /\ Ahead \in Int
    /\ None \notin Int
    /\ MaxTick \in Nat /\ MaxChanges \in Nat \ {0}
    /\ MaxFaults \in Nat /\ MaxEdits \in Nat

VARIABLES
    now,       \* this server's clock
    src,       \* source group: record -> version
    tgt,       \* target groups: target -> record -> version
    exists,    \* the vault_sync_tasks row exists
    source,    \* the source vault's vault_endpoints row exists
    targets,   \* vault_sync_task_targets rows
    skip,      \* skip_bogon_filtering
    last,      \* last_sync_at
    steady,    \* history: targets configured since before any run that set
               \* the mark loaded them
    slot,      \* the task's id is in RunningJobs
    run,       \* runner -> the run it executes
    faults,    \* failures so far
    edits      \* edits so far

remote == <<src, tgt>>
task == <<exists, source, targets, skip, last, steady>>
vars == <<now, src, tgt, exists, source, targets, skip, last, steady, slot,
          run, faults, edits>>

-----------------------------------------------------------------------------
(* The remote vaults (external). *)

Version == [seq : 0..MaxChanges, at : Int]
Absent == [seq |-> 0, at |-> 0]

\* GET /api/ips with include_deleted=true: a sighting or a tombstone since
\* the cutoff, which is inclusive.
InScope(version, cutoff) ==
    /\ version # Absent
    /\ cutoff # None => version.at >= cutoff

Result(cutoff) == {r \in Records : InScope(src[r], cutoff)}

\* Position of a record in the vault's ordered result.
Rank(result, r) == Cardinality({x \in result : x <= r})

-----------------------------------------------------------------------------
(* The run a runner executes. *)

Phase == {"idle", "task", "targets", "fetch", "push", "aborted", "mark"}
Loaded == {"fetch", "push", "mark"}
Mark == Int \cup {None}
Copy == Records \X Version

Run == [phase : Phase, started : Int, since : Mark, skip : BOOLEAN,
        targets : SUBSET Targets, todo : SUBSET Targets, offset : Int,
        fetched : SUBSET Copy, empty : BOOLEAN, any : BOOLEAN,
        failed : BOOLEAN]

IdleRun == [phase |-> "idle", started |-> 0, since |-> None, skip |-> FALSE,
            targets |-> {}, todo |-> {}, offset |-> 0, fetched |-> {},
            empty |-> FALSE, any |-> FALSE, failed |-> FALSE]

Active(k) == run[k].phase # "idle"

-----------------------------------------------------------------------------
(* Plausible defects of the definitions below, for mutation. *)
BadCutoff(since) ==
    IF since = None THEN None ELSE since + 1
BadMarkOf(k) == now
BadStatus(k) ==
    IF run[k].failed THEN IF run[k].any THEN "SUCCESS" ELSE "FAILED"
    ELSE "SUCCESS"
BadSlotAfter == slot
BadSlotFree == TRUE

\* try_start_job: the id is inserted only if it is not there.
SlotFree == ~slot

\* `since.timestamp()`: the mark is sent in whole seconds.
Cutoff(since) ==
    IF since = None THEN None
    ELSE (since \div TicksPerSecond) * TicksPerSecond

\* What a run that succeeded everywhere stores: its own start time.
MarkOf(k) == run[k].started

\* The status of the run's sync_logs row.
Status(k) ==
    IF run[k].phase = "aborted" THEN "FAILED"
    ELSE IF run[k].failed THEN IF run[k].any THEN "PARTIAL" ELSE "FAILED"
    ELSE IF run[k].empty THEN "PARTIAL"
    ELSE "SUCCESS"

\* The slot once the JobGuard has been dropped.
SlotAfter == FALSE

\* The newest fetched copy of a record.
Newest(fetched, r) ==
    CHOOSE c \in fetched :
        c[1] = r /\ \A d \in fetched : d[1] = r => d[2].seq <= c[2].seq

Fetched(fetched, r) == \E c \in fetched : c[1] = r

-----------------------------------------------------------------------------
Init ==
    /\ now = 0
    /\ src \in [Records -> {Absent, [seq |-> 1, at |-> Ahead]}]
    /\ tgt = [t \in Targets |-> [r \in Records |-> Absent]]
    /\ exists = TRUE
    /\ source = TRUE
    /\ targets \in SUBSET Targets
    /\ skip \in SkipChoices
    /\ last = None
    /\ steady = targets
    /\ slot = FALSE
    /\ run = [k \in Runners |-> IdleRun]
    /\ faults = 0
    /\ edits = 0

Tick ==
    /\ now < MaxTick
    /\ now' = now + 1
    /\ UNCHANGED <<remote, task, slot, run, faults, edits>>

\* The source sees a record, again or for the first time, or unbans it.
Change(r) ==
    /\ src[r].seq < MaxChanges
    /\ src' = [src EXCEPT ![r] = [seq |-> src[r].seq + 1, at |-> now + Ahead]]
    /\ UNCHANGED <<now, tgt, task, slot, run, faults, edits>>

-----------------------------------------------------------------------------
(* The run. *)

\* A cron tick or a manual trigger: try_start_job, then started_at = now.
\* The row may be gone: a cascade leaves the cron job behind, and a trigger
\* looks the row up before it writes its audit record.
Start(k) ==
    /\ ~Active(k)
    /\ SlotFree
    /\ slot' = TRUE
    /\ run' = [run EXCEPT ![k] =
                  [IdleRun EXCEPT !.phase = "task", !.started = now]]
    /\ UNCHANGED <<now, remote, task, faults, edits>>

Release(k) ==
    /\ slot' = SlotAfter
    /\ run' = [run EXCEPT ![k] = IdleRun]

\* The task row; a task deleted meanwhile ends the run with NotFound.
LoadTask(k) ==
    /\ run[k].phase = "task"
    /\ \/ /\ exists
          /\ run' = [run EXCEPT ![k] = [@ EXCEPT !.phase = "targets",
                                                 !.since = last, !.skip = skip]]
          /\ UNCHANGED slot
       \/ ~exists /\ Release(k)
    /\ UNCHANGED <<now, remote, task, faults, edits>>

\* The source vault's row and the targets.  A deletion between these two
\* queries is seen as a deletion of the task alone would be.
LoadTargets(k) ==
    /\ run[k].phase = "targets"
    /\ run' = [run EXCEPT ![k] = [@ EXCEPT
                  !.phase = IF source THEN "fetch" ELSE "aborted",
                  !.targets = targets, !.failed = ~source]]
    /\ UNCHANGED <<now, remote, task, slot, faults, edits>>

\* One page; the last, short one is followed by the bogon filter.
FetchPage(k) ==
    LET result == Result(Cutoff(run[k].since))
        from   == run[k].offset
        page   == {r \in result : /\ from < Rank(result, r)
                                  /\ Rank(result, r) <= from + PageSize}
        all    == run[k].fetched \cup {<<r, src[r]>> : r \in page}
        kept   == {c \in all : run[k].skip \/ c[1] \notin Bogon}
    IN  /\ run[k].phase = "fetch"
        /\ run' = [run EXCEPT ![k] =
              IF Cardinality(page) < PageSize
              THEN [@ EXCEPT !.phase = "push", !.fetched = kept,
                             !.todo = run[k].targets,
                             !.empty = (run[k].since = None /\ all = {}),
                             !.any = (run[k].targets = {})]
              ELSE [@ EXCEPT !.fetched = all, !.offset = from + PageSize]]
        /\ UNCHANGED <<now, remote, task, slot, faults, edits>>

\* A page still fails after its retries: the run is over but for its log.
FetchFail(k) ==
    /\ run[k].phase = "fetch"
    /\ faults < MaxFaults
    /\ faults' = faults + 1
    /\ run' = [run EXCEPT ![k] = [@ EXCEPT !.phase = "aborted", !.failed = TRUE]]
    /\ UNCHANGED <<now, remote, task, slot, edits>>

\* Every chunk was acknowledged by the target (or there was none to send).
PushOk(k, t) ==
    LET fetched == run[k].fetched IN
    /\ run[k].phase = "push"
    /\ t \in run[k].todo
    /\ tgt' = [tgt EXCEPT ![t] = [r \in Records |->
                  IF Fetched(fetched, r) THEN Newest(fetched, r)[2]
                  ELSE tgt[t][r]]]
    /\ run' = [run EXCEPT ![k] = [@ EXCEPT !.todo = run[k].todo \ {t},
                                           !.any = TRUE]]
    /\ UNCHANGED <<now, src, task, slot, faults, edits>>

\* A chunk failed: what went out before it, or in it, may have arrived.
PushErr(k, t) ==
    LET fetched == run[k].fetched IN
    /\ run[k].phase = "push"
    /\ t \in run[k].todo
    /\ fetched # {}
    /\ faults < MaxFaults
    /\ faults' = faults + 1
    /\ \E arrived \in SUBSET fetched :
          /\ \A c, d \in arrived : c[1] = d[1] => c = d
          /\ tgt' = [tgt EXCEPT ![t] = [r \in Records |->
                        IF Fetched(arrived, r) THEN Newest(arrived, r)[2]
                        ELSE tgt[t][r]]]
    /\ run' = [run EXCEPT ![k] = [@ EXCEPT !.todo = run[k].todo \ {t},
                                           !.failed = TRUE]]
    /\ UNCHANGED <<now, src, task, slot, edits>>

\* write_sync_log with Status(k), then on to the mark only if every target
\* succeeded.  The row is never read back, so it is not part of the state.
WriteLog(k) ==
    /\ run[k].phase \in {"push", "aborted"}
    /\ run[k].todo = {}
    /\ \/ /\ ~run[k].failed
          /\ run' = [run EXCEPT ![k] = [@ EXCEPT !.phase = "mark"]]
          /\ UNCHANGED slot
       \/ run[k].failed /\ Release(k)
    /\ UNCHANGED <<now, remote, task, faults, edits>>

\* The update of the one column; on a row deleted meanwhile it is an error.
SetMark(k) ==
    /\ run[k].phase = "mark"
    /\ last' = IF exists THEN MarkOf(k) ELSE last
    /\ Release(k)
    /\ UNCHANGED <<now, remote, exists, source, targets, skip, steady,
                   faults, edits>>

\* A database error (`?`), or the handler of a manual trigger is dropped
\* because its client went away: the guard's Drop frees the slot.
Abandon(k) ==
    /\ Active(k)
    /\ faults < MaxFaults
    /\ faults' = faults + 1
    /\ Release(k)
    /\ UNCHANGED <<now, remote, task, edits>>

\* The process dies; RunningJobs is in memory.
Crash ==
    /\ \E k \in Runners : Active(k)
    /\ faults < MaxFaults
    /\ faults' = faults + 1
    /\ slot' = FALSE
    /\ run' = [k \in Runners |-> IdleRun]
    /\ UNCHANGED <<now, remote, task, edits>>

RunStep(k) ==
    \/ LoadTask(k)
    \/ LoadTargets(k)
    \/ FetchPage(k)
    \/ FetchFail(k)
    \/ \E t \in Targets : PushOk(k, t) \/ PushErr(k, t)
    \/ WriteLog(k)
    \/ SetMark(k)

-----------------------------------------------------------------------------
(* Edits of the task; none of them looks at the slot. *)

\* No run that has already loaded its targets can set the mark without them.
Settled == last = None /\ \A k \in Runners : run[k].phase \notin Loaded

\* PATCH /api/sync-tasks/{id}: targets are replaced wholesale, last_sync_at
\* stays as it is.
PatchTask(newTargets, newSkip) ==
    /\ exists
    /\ edits < MaxEdits
    /\ edits' = edits + 1
    /\ targets' = newTargets
    /\ skip' = newSkip
    /\ steady' = IF Settled THEN newTargets ELSE steady \cap newTargets
    /\ UNCHANGED <<now, remote, exists, source, last, slot, run, faults>>

\* DELETE of the task, or of its source vault (cascade).
DeleteTask(withSource) ==
    /\ exists
    /\ edits < MaxEdits
    /\ edits' = edits + 1
    /\ exists' = FALSE
    /\ source' = ~withSource
    /\ targets' = {}
    /\ steady' = {}
    /\ UNCHANGED <<now, remote, skip, last, slot, run, faults>>

\* DELETE of a target vault: its target rows go with it.
DeleteTarget(t) ==
    /\ t \in targets
    /\ edits < MaxEdits
    /\ edits' = edits + 1
    /\ targets' = targets \ {t}
    /\ steady' = steady \ {t}
    /\ UNCHANGED <<now, remote, exists, source, skip, last, slot, run,
                   faults>>

Next ==
    \/ Tick
    \/ \E r \in Records : Change(r)
    \/ \E k \in Runners : Start(k) \/ RunStep(k) \/ Abandon(k)
    \/ Crash
    \/ \E newTargets \in SUBSET Targets, newSkip \in SkipChoices :
          PatchTask(newTargets, newSkip)
    \/ \E withSource \in BOOLEAN : DeleteTask(withSource)
    \/ \E t \in Targets : DeleteTarget(t)

\* Every await of a run ends (HTTP timeouts, the database answers), and an
\* active task's cron job keeps starting runs.
Fairness ==
    /\ \A k \in Runners : WF_vars(RunStep(k))
    /\ WF_vars(\E k \in Runners : Start(k))

Spec == Init /\ [][Next]_vars
FairSpec == Spec /\ Fairness

-----------------------------------------------------------------------------
(* Properties *)

TypeOK ==
    /\ now \in 0..MaxTick
    /\ src \in [Records -> Version]
    /\ tgt \in [Targets -> [Records -> Version]]
    /\ exists \in BOOLEAN /\ source \in BOOLEAN /\ skip \in SkipChoices
    /\ targets \in SUBSET Targets /\ steady \in SUBSET targets
    /\ last \in Mark
    /\ slot \in BOOLEAN
    /\ run \in [Runners -> Run]
    /\ faults \in 0..MaxFaults /\ edits \in 0..MaxEdits

\* The target holds the source's version of every record but bogons and
\* those that changed at or after `mark`.
CaughtUp(t, mark) ==
    \A r \in Records \ Bogon :
        tgt[t][r] = src[r] \/ src[r].at >= mark

\* The high-water mark never skips an undelivered record of a target that
\* was configured all along: whatever it lacks is in the next run's delta,
\* tombstones included, although the source changes between two pages, runs
\* fail half way, crash or race with edits.
NoSkip ==
    last # None => \A t \in steady : CaughtUp(t, Cutoff(last))

\* Two runs of the task never overlap (try_start_job, JobGuard), and the
\* slot is held while one is in flight.
OneRunAtATime ==
    /\ \A k \in Runners : Active(k) => slot
    /\ \A j, k \in Runners : Active(j) /\ Active(k) => j = k

\* The target holds what the run would deliver.
Complete(k, t) ==
    \A r \in Records :
        Fetched(run[k].fetched, r) =>
            tgt[t][r] = Newest(run[k].fetched, r)[2]

\* The logged status is honest: SUCCESS means that every target of the run
\* holds all that was fetched for it, PARTIAL (of a run that fetched
\* something) that at least one does.
HonestStatus ==
    \A k \in Runners : run[k].phase = "push" /\ run[k].todo = {} =>
        /\ Status(k) = "SUCCESS" => \A t \in run[k].targets : Complete(k, t)
        /\ Status(k) = "PARTIAL" =>
              run[k].empty \/ \E t \in run[k].targets : Complete(k, t)

(* The parts of the inductive invariant. *)

\* Stamps come from the past, and what the targets hold was once sent.
StampsPast ==
    \A r \in Records :
        /\ src[r].at <= now + Ahead
        /\ src[r].seq = 0 => src[r] = Absent /\ \A t \in Targets : tgt[t][r] = Absent

\* A fetched copy is a version the record has had, within the window.
Genuine(copy, cutoff) ==
    LET r == copy[1]  v == copy[2] IN
    /\ v.seq >= 1
    /\ v.seq <= src[r].seq
    /\ v.at <= src[r].at
    /\ v.seq = src[r].seq => v = src[r]
    /\ cutoff # None => v.at >= cutoff

\* A record of a set that the run need not carry, or carries.
Carried(k, r) ==
    src[r].at >= run[k].started \/ <<r, src[r]>> \in run[k].fetched

RunInv(k) ==
    LET cutoff == Cutoff(run[k].since) IN
    /\ run[k].started <= now
    /\ last # None => last <= run[k].started
    /\ run[k].phase # "task" => run[k].since = last
    /\ run[k].phase \in Loaded => steady \subseteq run[k].targets
    /\ run[k].offset >= 0
    /\ run[k].phase \in {"task", "targets"} =>
          run[k].offset = 0 /\ run[k].fetched = {}
    /\ \A c \in run[k].fetched : Genuine(c, cutoff)
    /\ run[k].phase = "aborted" => run[k].failed
    /\ run[k].phase = "mark" => ~run[k].failed /\ run[k].todo = {}
    /\ run[k].phase = "fetch" =>
          \A r \in Result(cutoff) :
              Rank(Result(cutoff), r) <= run[k].offset => Carried(k, r)
    /\ run[k].phase \in {"push", "mark"} =>
          \A r \in Result(cutoff) \ Bogon : Carried(k, r)
    /\ run[k].phase \in {"push", "mark"} /\ ~run[k].failed =>
          \A t \in steady \ run[k].todo : CaughtUp(t, run[k].started)

IInv ==
    /\ TypeOK
    /\ OneRunAtATime
    /\ StampsPast
    /\ last # None => last <= now
    /\ \A k \in Runners : Active(k) => RunInv(k)
    /\ NoSkip

\* What the comment of vault_sync.rs run says of the mark: it only advances
\* when every target of the task has succeeded.
MarkWaitsForAll ==
    \A k \in Runners : run[k].phase = "mark" =>
        \A t \in targets : CaughtUp(t, run[k].started)

\* The task's mark never moves back, so no run ever fetches again from
\* before a mark that a run set.
MarkNeverRegresses ==
    [][last # None => last' # None /\ last' >= last]_last

\* Once changes, failures and edits cease, every target that was configured
\* all along comes to hold the source's version of every record.
Replicated ==
    \A t \in steady, r \in Records \ Bogon : tgt[t][r] = src[r]
EventuallyReplicated == <>[]Replicated
=============================================================================
