----------------------------- MODULE Ingestion -----------------------------
(***************************************************************************)
(* One destination group's ingestion job: jobs/external_ingestion.rs run   *)
(* and execute, with the edits of api/sources.rs that race with it.        *)
(*                                                                         *)
(* A run loads the group row, its feeds and its targets, fetches every     *)
(* feed in a task of its own, merges what came back (age filter, bogon     *)
(* policy, exact deduplication), pushes the aggregate to each target,      *)
(* writes a sync_logs row and sets last_run_at.  Feed hosts change and     *)
(* rows are edited between any two of these.                               *)
(*                                                                         *)
(* A feed's body is a set of entries, an address and whether its           *)
(* last_seen_at is older than a feed's max_age_days allows.  Overlapping   *)
(* runs of a group are excluded by the slot that VaultSync models; the     *)
(* push to one target is taken at the grain GroupDelivery promises.        *)
(***************************************************************************)
EXTENDS Integers, FiniteSets

CONSTANTS
    Addresses,   \* addresses the feeds report
    Bogon,       \* those that overlap a reserved range
    Feeds,       \* feeds that the group may own
    Targets,     \* target vaults that the group may name
    Bodies,      \* bodies a feed host may serve
    FeedRows,    \* rows a feed may have
    Settings,    \* values of the group's mode and skip_bogon_filtering
    NoFeed,      \* a feed that has no row
    MaxChanges,  \* bound on the changes of feed hosts
    MaxFaults,   \* bound on failures of any kind
    MaxEdits     \* bound on edits

BatchMode == {"upsert", "full_replace"}
Entry == [addr : Addresses, old : BOOLEAN]
\* skip_bogon_filtering of a feed is nullable: "group" is the null.
FeedRow == [skip : {"yes", "no", "group"}, maxAge : BOOLEAN]
Setting == [mode : BatchMode, skip : BOOLEAN]

ASSUME IngestionAssumption ==
    /\ IsFiniteSet(Addresses)
    /\ Bogon \subseteq Addresses
    /\ Bodies \subseteq SUBSET Entry
    /\ {} \in Bodies
    /\ FeedRows \subseteq FeedRow
    /\ NoFeed \notin FeedRow
    /\ Settings \subseteq Setting
    /\ MaxChanges \in Nat /\ MaxFaults \in Nat /\ MaxEdits \in Nat

VARIABLES
    host,      \* feed -> the body its host serves
    tgt,       \* target -> the addresses its group holds
    exists,    \* the destination_groups row exists
    setting,   \* its mode and skip_bogon_filtering
    feeds,     \* feed -> its external_sources row
    targets,   \* destination_group_vault_targets rows
    run,       \* the run in flight
    changes, faults, edits   \* counters of the bounds

config == <<exists, setting, feeds, targets>>
vars == <<host, tgt, exists, setting, feeds, targets, run, changes, faults,
          edits>>

-----------------------------------------------------------------------------
(* The run. *)

Phase == {"idle", "group", "feeds", "targets", "fetch", "merge", "push",
          "logged"}

Run == [phase : Phase, setting : Setting, feeds : [Feeds -> FeedRow \cup {NoFeed}],
        targets : SUBSET Targets,
        waiting : SUBSET Feeds,            \* fetch tasks still running
        bad : SUBSET Feeds,                \* feeds whose fetch or parse failed
        body : [Feeds -> SUBSET Entry],    \* what the others returned
        unmerged : SUBSET Feeds, seen : SUBSET Addresses,
        aggregated : SUBSET Addresses, items : Nat,
        todo : SUBSET Targets, failed : BOOLEAN, any : BOOLEAN]

IdleRun == [phase |-> "idle", setting |-> [mode |-> "upsert", skip |-> FALSE],
            feeds |-> [f \in Feeds |-> NoFeed], targets |-> {},
            waiting |-> {}, bad |-> {}, body |-> [f \in Feeds |-> {}],
            unmerged |-> {}, seen |-> {}, aggregated |-> {}, items |-> 0,
            todo |-> {}, failed |-> FALSE, any |-> FALSE]

\* The feeds a configuration has.
Rows(config_feeds) == {f \in Feeds : config_feeds[f] # NoFeed}

\* The addresses left of a body after one feed's filters.
Fresh(row, body) ==
    {e.addr : e \in {x \in body : row.maxAge => ~x.old}}

-----------------------------------------------------------------------------
(* Plausible defects of the definitions below, for mutation. *)
BadEffectiveSkip(row, group) == row.skip # "no"
BadNewlySeen(f) ==
    Fresh(run.feeds[f], run.body[f])
BadDelivered(old, part, mode) ==
    IF mode = "full_replace" THEN part ELSE old \cup part
BadStatus ==
    IF run.failed THEN IF run.any THEN "PARTIAL" ELSE "FAILED"
    ELSE "SUCCESS"
BadJoined == run.waiting = {} \/ run.waiting # Rows(run.feeds)

\* A feed's own skip_bogon_filtering, else the group's.
EffectiveSkip(row, group) ==
    IF row.skip = "group" THEN group.skip ELSE row.skip = "yes"

Sanitized(row, group, body) ==
    IF EffectiveSkip(row, group) THEN Fresh(row, body)
    ELSE Fresh(row, body) \ Bogon

\* What the loop over one feed's result adds to `seen`.
NewlySeen(f) == Sanitized(run.feeds[f], run.setting, run.body[f])

\* A target group once `part` of the aggregate has reached it.  No address
\* is no chunk, and no request.
Delivered(old, part, mode) ==
    IF part = {} THEN old
    ELSE IF mode = "full_replace" THEN part
    ELSE old \cup part

\* join: every fetch task has ended.
Joined == run.waiting = {}

AllFeedsFailed == run.bad # {} /\ run.bad = Rows(run.feeds)

Status ==
    IF AllFeedsFailed THEN "FAILED"
    ELSE IF run.bad = {} /\ ~run.failed
         THEN IF run.items = 0 THEN "PARTIAL" ELSE "SUCCESS"
    ELSE IF run.any THEN "PARTIAL"
    ELSE "FAILED"

-----------------------------------------------------------------------------
Init ==
    /\ host \in [Feeds -> Bodies]
    /\ tgt = [t \in Targets |-> {}]
    /\ exists = TRUE
    /\ setting \in Settings
    /\ feeds \in [Feeds -> FeedRows \cup {NoFeed}]
    /\ targets = Targets
    /\ run = IdleRun
    /\ changes = 0 /\ faults = 0 /\ edits = 0

\* A feed host serves something else.
Publish(f, body) ==
    /\ changes < MaxChanges
    /\ changes' = changes + 1
    /\ host' = [host EXCEPT ![f] = body]
    /\ UNCHANGED <<tgt, config, run, faults, edits>>

\* A cron tick or a manual trigger got the slot.
Start ==
    /\ run.phase = "idle"
    /\ run' = [IdleRun EXCEPT !.phase = "group"]
    /\ UNCHANGED <<host, tgt, config, changes, faults, edits>>

\* The group row; a group deleted meanwhile ends the run with NotFound.
LoadGroup ==
    /\ run.phase = "group"
    /\ run' = IF exists
              THEN [run EXCEPT !.phase = "feeds", !.setting = setting]
              ELSE IdleRun
    /\ UNCHANGED <<host, tgt, config, changes, faults, edits>>

LoadFeeds ==
    /\ run.phase = "feeds"
    /\ run' = [run EXCEPT !.phase = "targets", !.feeds = feeds]
    /\ UNCHANGED <<host, tgt, config, changes, faults, edits>>

\* The targets; then one task per feed is spawned.
LoadTargets ==
    /\ run.phase = "targets"
    /\ run' = [run EXCEPT !.phase = "fetch", !.targets = targets,
                          !.waiting = Rows(run.feeds)]
    /\ UNCHANGED <<host, tgt, config, changes, faults, edits>>

\* A task fetched, decompressed and parsed its feed.
FetchOk(f) ==
    /\ run.phase = "fetch"
    /\ f \in run.waiting
    /\ run' = [run EXCEPT !.waiting = run.waiting \ {f},
                          !.body = [run.body EXCEPT ![f] = host[f]]]
    /\ UNCHANGED <<host, tgt, config, changes, faults, edits>>

\* No answer after the retries, an error status, a body over the limit, one
\* that does not parse, or a panic in the task.
FetchFail(f) ==
    /\ run.phase = "fetch"
    /\ f \in run.waiting
    /\ faults < MaxFaults
    /\ faults' = faults + 1
    /\ run' = [run EXCEPT !.waiting = run.waiting \ {f},
                          !.bad = run.bad \cup {f}]
    /\ UNCHANGED <<host, tgt, config, changes, edits>>

Join ==
    /\ run.phase = "fetch"
    /\ Joined
    /\ run' = [run EXCEPT !.phase = "merge",
                          !.unmerged = Rows(run.feeds) \ run.bad]
    /\ UNCHANGED <<host, tgt, config, changes, faults, edits>>

\* One feed's result is filtered and merged, in whatever order the rows came.
Merge(f) ==
    LET sanitized == Sanitized(run.feeds[f], run.setting, run.body[f])
        new       == sanitized \ run.seen
    IN  /\ run.phase = "merge"
        /\ f \in run.unmerged
        /\ run' = [run EXCEPT !.unmerged = run.unmerged \ {f},
                              !.seen = run.seen \cup NewlySeen(f),
                              !.aggregated = run.aggregated \cup new,
                              !.items = run.items + Cardinality(new)]
        /\ UNCHANGED <<host, tgt, config, changes, faults, edits>>

BeginPush ==
    /\ run.phase = "merge"
    /\ run.unmerged = {}
    /\ run' = [run EXCEPT !.phase = "push", !.todo = run.targets,
                          !.any = (run.targets = {})]
    /\ UNCHANGED <<host, tgt, config, changes, faults, edits>>

\* Every chunk was acknowledged by the target, or there was none.
PushOk(t) ==
    /\ run.phase = "push"
    /\ t \in run.todo
    /\ tgt' = [tgt EXCEPT ![t] =
                  Delivered(tgt[t], run.aggregated, run.setting.mode)]
    /\ run' = [run EXCEPT !.todo = run.todo \ {t}, !.any = TRUE]
    /\ UNCHANGED <<host, config, changes, faults, edits>>

\* A chunk failed and the rest is not sent; a part may have arrived.
PushErr(t) ==
    /\ run.phase = "push"
    /\ t \in run.todo
    /\ run.aggregated # {}
    /\ faults < MaxFaults
    /\ faults' = faults + 1
    /\ \E part \in SUBSET run.aggregated :
          tgt' = [tgt EXCEPT ![t] = Delivered(tgt[t], part, run.setting.mode)]
    /\ run' = [run EXCEPT !.todo = run.todo \ {t}, !.failed = TRUE]
    /\ UNCHANGED <<host, config, changes, edits>>

\* write_sync_log with Status, whatever happened.
WriteLog ==
    /\ run.phase = "push"
    /\ run.todo = {}
    /\ run' = [run EXCEPT !.phase = "logged"]
    /\ UNCHANGED <<host, tgt, config, changes, faults, edits>>

\* last_run_at; on a row deleted meanwhile this is an error.  Nothing reads
\* the column back, and either way the run is over.
SetLastRun ==
    /\ run.phase = "logged"
    /\ run' = IdleRun
    /\ UNCHANGED <<host, tgt, config, changes, faults, edits>>

\* A database error, a dropped trigger handler, or the process dies.
Abandon ==
    /\ run.phase # "idle"
    /\ faults < MaxFaults
    /\ faults' = faults + 1
    /\ run' = IdleRun
    /\ UNCHANGED <<host, tgt, config, changes, edits>>

RunStep ==
    \/ LoadGroup
    \/ LoadFeeds
    \/ LoadTargets
    \/ \E f \in Feeds : FetchOk(f) \/ FetchFail(f) \/ Merge(f)
    \/ Join
    \/ BeginPush
    \/ \E t \in Targets : PushOk(t) \/ PushErr(t)
    \/ WriteLog
    \/ SetLastRun

-----------------------------------------------------------------------------
(* Edits; none of them looks at a run in flight. *)

\* PATCH of the group: its columns, and its targets wholesale.  Deleting a
\* vault endpoint takes a target away like a PATCH that leaves it out.
PatchGroup(new, newTargets) ==
    /\ exists
    /\ edits < MaxEdits
    /\ edits' = edits + 1
    /\ setting' = new
    /\ targets' = newTargets
    /\ UNCHANGED <<host, tgt, exists, feeds, run, changes, faults>>

\* POST of a feed.
CreateFeed(f, row) ==
    /\ exists
    /\ feeds[f] = NoFeed
    /\ edits < MaxEdits
    /\ edits' = edits + 1
    /\ feeds' = [feeds EXCEPT ![f] = row]
    /\ UNCHANGED <<host, tgt, exists, setting, targets, run, changes, faults>>

\* PATCH of a feed: a field left out keeps its value, so neither column can
\* become null again.  A new URL or parser is a Publish.
UpdateFeed(f, row) ==
    /\ feeds[f] # NoFeed
    /\ row.skip = "group" => feeds[f].skip = "group"
    /\ feeds[f].maxAge => row.maxAge
    /\ edits < MaxEdits
    /\ edits' = edits + 1
    /\ feeds' = [feeds EXCEPT ![f] = row]
    /\ UNCHANGED <<host, tgt, exists, setting, targets, run, changes, faults>>

DeleteFeed(f) ==
    /\ feeds[f] # NoFeed
    /\ edits < MaxEdits
    /\ edits' = edits + 1
    /\ feeds' = [feeds EXCEPT ![f] = NoFeed]
    /\ UNCHANGED <<host, tgt, exists, setting, targets, run, changes, faults>>

\* DELETE of the group cascades to its feeds and targets.
DeleteGroup ==
    /\ exists
    /\ edits < MaxEdits
    /\ edits' = edits + 1
    /\ exists' = FALSE
    /\ feeds' = [f \in Feeds |-> NoFeed]
    /\ targets' = {}
    /\ UNCHANGED <<host, tgt, setting, run, changes, faults>>

Next ==
    \/ \E f \in Feeds, body \in Bodies : Publish(f, body)
    \/ Start
    \/ RunStep
    \/ Abandon
    \/ \E new \in Settings, newTargets \in SUBSET Targets :
          PatchGroup(new, newTargets)
    \/ \E f \in Feeds, row \in FeedRows : CreateFeed(f, row) \/ UpdateFeed(f, row)
    \/ \E f \in Feeds : DeleteFeed(f)
    \/ DeleteGroup

\* Every await of a run ends, and an active group's cron job keeps starting
\* runs.
Fairness == WF_vars(RunStep) /\ WF_vars(Start)

Spec == Init /\ [][Next]_vars
FairSpec == Spec /\ Fairness

-----------------------------------------------------------------------------
(* Properties *)

TypeOK ==
    /\ host \in [Feeds -> Bodies]
    /\ tgt \in [Targets -> SUBSET Addresses]
    /\ exists \in BOOLEAN
    /\ setting \in Settings
    /\ feeds \in [Feeds -> FeedRows \cup {NoFeed}]
    /\ targets \in SUBSET Targets
    /\ run \in Run
    /\ changes \in 0..MaxChanges /\ faults \in 0..MaxFaults
    /\ edits \in 0..MaxEdits

\* What the fetched feeds ask for: an address is wanted as soon as one of
\* them keeps it, although another drops it as stale or as a bogon.
WantedOf(group, rows, some, body) ==
    UNION {Sanitized(rows[f], group, body[f]) : f \in some}

Fetched == Rows(run.feeds) \ run.bad
Wanted == WantedOf(run.setting, run.feeds, Fetched, run.body)

\* A target has what a run wanted it to have, and under full_replace nothing
\* else.
Holds(content, wanted, mode) ==
    wanted # {} =>
        /\ wanted \subseteq content
        /\ mode = "full_replace" => content = wanted

\* The aggregate is the union of what the single feeds keep, each address
\* counted once.
Aggregates ==
    run.phase \in {"push", "logged"} =>
        /\ run.aggregated = Wanted
        /\ run.items = Cardinality(Wanted)

\* The logged status is honest.  SUCCESS: every feed was fetched, something
\* was wanted, and every target holds it.  PARTIAL: some feed was fetched
\* (if there is one) and some target (if there is one) holds what was.
HonestLog ==
    LET ok == {t \in run.targets : Holds(tgt[t], Wanted, run.setting.mode)}
    IN  run.phase = "push" /\ run.todo = {} =>
            /\ Status = "SUCCESS" =>
                  run.bad = {} /\ Wanted # {} /\ ok = run.targets
            /\ Status = "PARTIAL" =>
                  /\ run.targets # {} => ok # {}
                  /\ Rows(run.feeds) # {} => Fetched # {}

(* The parts of the inductive invariant. *)

\* The fetch tasks are those of the feeds loaded, and all have been joined
\* before anything is merged.
FetchInv ==
    IF run.phase \in {"fetch", "merge", "push", "logged"}
    THEN /\ run.waiting \cup run.bad \subseteq Rows(run.feeds)
         /\ run.phase # "fetch" => run.waiting = {}
    ELSE run.waiting = {} /\ run.bad = {}

\* What has been merged so far is what the merged feeds want.
MergeInv ==
    LET merged == Fetched \ run.unmerged IN
    IF run.phase \in {"merge", "push", "logged"}
    THEN /\ run.unmerged \subseteq Fetched
         /\ run.phase # "merge" => run.unmerged = {}
         /\ run.aggregated = WantedOf(run.setting, run.feeds, merged, run.body)
         /\ run.seen = run.aggregated
         /\ run.items = Cardinality(run.aggregated)
    ELSE run.seen = {} /\ run.aggregated = {} /\ run.items = 0

\* What has been pushed so far has arrived.
PushInv ==
    LET pushed == run.targets \ run.todo
        Got(t) == Holds(tgt[t], run.aggregated, run.setting.mode)
    IN  IF run.phase = "push"
        THEN /\ run.todo \subseteq run.targets
             /\ ~run.failed => \A t \in pushed : Got(t)
             /\ run.any /\ run.targets # {} => \E t \in pushed : Got(t)
        ELSE run.phase # "logged" => ~run.failed

IInv ==
    /\ TypeOK
    /\ FetchInv
    /\ MergeInv
    /\ PushInv

\* A run never empties a target group, not even under full_replace when
\* every feed fails or none reports an address.
NeverEmptied ==
    [][\A t \in Targets : tgt[t] # {} => tgt'[t] # {}]_tgt

\* A bogon reaches a target only from a feed whose policy, as the run loaded
\* it, lets bogons through.
BogonsNeedConsent ==
    [][\A t \in Targets : \A a \in (tgt'[t] \ tgt[t]) \cap Bogon :
          \E f \in Fetched :
              /\ a \in Fresh(run.feeds[f], run.body[f])
              /\ \/ run.feeds[f].skip = "yes"
                 \/ run.feeds[f].skip = "group" /\ run.setting.skip]_tgt

\* Once the hosts, the rows and the network are quiet, every target holds
\* what the feeds now serve.
Published ==
    \A t \in targets :
        Holds(tgt[t], WantedOf(setting, feeds, Rows(feeds), host), setting.mode)
EventuallyPublished == <>[]Published
=============================================================================
