-------------------------- MODULE IngestionProofs --------------------------
(***************************************************************************)
(* Proofs about Ingestion, for any feeds, bodies, policies and targets:    *)
(* the aggregate is the union of what the single feeds keep, the logged    *)
(* status is honest, no run empties a target group, and bogons only come   *)
(* from feeds that let them through.                                       *)
(***************************************************************************)
EXTENDS Ingestion, FiniteSetTheorems, TLAPS

-----------------------------------------------------------------------------
(* Facts about the operators. *)

LEMMA FreshType ==
    ASSUME NEW row, NEW body \in SUBSET Entry
    PROVE  Fresh(row, body) \in SUBSET Addresses
  BY DEF Fresh, Entry

LEMMA SanitizedType ==
    ASSUME NEW row, NEW group, NEW body \in SUBSET Entry
    PROVE  Sanitized(row, group, body) \in SUBSET Addresses
  BY FreshType DEF Sanitized

LEMMA WantedSplits ==
    ASSUME NEW group, NEW rows, NEW body, NEW some, NEW f
    PROVE  WantedOf(group, rows, some \cup {f}, body)
             = WantedOf(group, rows, some, body) \cup Sanitized(rows[f], group, body[f])
  BY DEF WantedOf

LEMMA WantedNone ==
    ASSUME NEW group, NEW rows, NEW body
    PROVE  WantedOf(group, rows, {}, body) = {}
  BY DEF WantedOf

(* A bogon is wanted only from a feed that lets bogons through. *)
LEMMA WantedBogons ==
    ASSUME NEW group, NEW rows, NEW body, NEW some,
           NEW a \in WantedOf(group, rows, some, body) \cap Bogon
    PROVE  \E f \in some : /\ a \in Fresh(rows[f], body[f])
                           /\ \/ rows[f].skip = "yes"
                              \/ rows[f].skip = "group" /\ group.skip
  <1>1. PICK f \in some : a \in Sanitized(rows[f], group, body[f])
    BY DEF WantedOf
  <1>2. a \in Fresh(rows[f], body[f]) /\ EffectiveSkip(rows[f], group)
    BY <1>1 DEF Sanitized
  <1>3. rows[f].skip = "yes" \/ (rows[f].skip = "group" /\ group.skip)
    BY <1>2 DEF EffectiveSkip
  <1> QED
    BY <1>2, <1>3

LEMMA DisjointCount ==
    ASSUME NEW A \in SUBSET Addresses, NEW B \in SUBSET Addresses
    PROVE  /\ Cardinality(A \cup (B \ A)) = Cardinality(A) + Cardinality(B \ A)
           /\ Cardinality(A) \in Nat /\ Cardinality(B \ A) \in Nat
           /\ Cardinality(A) = 0 <=> A = {}
  <1>1. IsFiniteSet(Addresses)
    BY IngestionAssumption
  <1>2. IsFiniteSet(A) /\ IsFiniteSet(B \ A)
    BY <1>1, FS_Subset
  <1>3. A \cap (B \ A) = {}
    OBVIOUS
  <1>4. Cardinality(A \cap (B \ A)) = 0
    BY <1>3, FS_EmptySet
  <1>5. Cardinality(A \cup (B \ A))
          = Cardinality(A) + Cardinality(B \ A) - Cardinality(A \cap (B \ A))
    BY <1>2, FS_Union
  <1>6. Cardinality(A) \in Nat /\ Cardinality(B \ A) \in Nat
    BY <1>2, FS_CardinalityType
  <1>7. Cardinality(A) = 0 <=> A = {}
    BY <1>2, FS_EmptySet
  <1> QED
    BY <1>4, <1>5, <1>6, <1>7

LEMMA IdleRunFacts ==
    /\ IdleRun \in Run
    /\ IdleRun.phase = "idle" /\ IdleRun.bad = {} /\ IdleRun.seen = {}
    /\ IdleRun.aggregated = {} /\ IdleRun.items = 0 /\ IdleRun.failed = FALSE
    /\ IdleRun.waiting = {}
  <1>1. [mode |-> "upsert", skip |-> FALSE] \in Setting
    BY DEF Setting, BatchMode
  <1>2. [f \in Feeds |-> NoFeed] \in [Feeds -> FeedRow \cup {NoFeed}]
    OBVIOUS
  <1>3. [f \in Feeds |-> {}] \in [Feeds -> SUBSET Entry]
    OBVIOUS
  <1> HIDE DEF Setting, FeedRow, Entry
  <1> QED
    BY <1>1, <1>2, <1>3 DEF IdleRun, Run, Phase

-----------------------------------------------------------------------------
(* The run ends, or leaves alone what the invariant is about. *)

LEMMA EndsInv ==
    ASSUME run' = IdleRun, TypeOK'
    PROVE  IInv'
  BY IdleRunFacts DEF IInv, FetchInv, MergeInv, PushInv

LEMMA QuietInv ==
    ASSUME IInv, run' = run, tgt' = tgt, TypeOK'
    PROVE  IInv'
  BY DEF IInv, FetchInv, MergeInv, PushInv, Fetched, Rows, WantedOf, Holds

LEMMA InitInv ==
    ASSUME Init
    PROVE  IInv
  <1>1. run = IdleRun /\ run \in Run
    BY IdleRunFacts DEF Init
  <1>2. changes \in 0..MaxChanges /\ faults \in 0..MaxFaults /\ edits \in 0..MaxEdits
    BY IngestionAssumption DEF Init
  <1>3. host \in [Feeds -> Bodies] /\ tgt \in [Targets -> SUBSET Addresses]
        /\ setting \in Settings /\ feeds \in [Feeds -> FeedRows \cup {NoFeed}]
    BY DEF Init
  <1>4. exists \in BOOLEAN /\ targets \in SUBSET Targets
    BY DEF Init
  <1>5. TypeOK
    BY <1>1, <1>2, <1>3, <1>4 DEF TypeOK
  <1> QED
    BY <1>1, <1>5, IdleRunFacts DEF IInv, FetchInv, MergeInv, PushInv

(* Hosts and edits. *)
LEMMA EditInv ==
    ASSUME IInv,
           \/ \E f \in Feeds, body \in Bodies : Publish(f, body)
           \/ \E new \in Settings, newTargets \in SUBSET Targets :
                 PatchGroup(new, newTargets)
           \/ \E f \in Feeds, row \in FeedRows : CreateFeed(f, row) \/ UpdateFeed(f, row)
           \/ \E f \in Feeds : DeleteFeed(f)
           \/ DeleteGroup
           \/ UNCHANGED vars
    PROVE  IInv'
  <1>1. TypeOK
    BY DEF IInv
  <1>2. run' = run /\ tgt' = tgt
    BY DEF Publish, PatchGroup, CreateFeed, UpdateFeed, DeleteFeed, DeleteGroup, vars
  <1>3. /\ changes' \in 0..MaxChanges /\ faults' \in 0..MaxFaults
        /\ edits' \in 0..MaxEdits
    BY <1>1, IngestionAssumption
       DEF TypeOK, Publish, PatchGroup, CreateFeed, UpdateFeed, DeleteFeed, DeleteGroup, vars,
           config
  <1>4. host' \in [Feeds -> Bodies]
    BY <1>1 DEF TypeOK, Publish, PatchGroup, CreateFeed, UpdateFeed, DeleteFeed, DeleteGroup, vars
  <1>5. feeds' \in [Feeds -> FeedRows \cup {NoFeed}]
    BY <1>1
       DEF TypeOK, Publish, PatchGroup, CreateFeed, UpdateFeed, DeleteFeed, DeleteGroup, vars, config
  <1>6. setting' \in Settings /\ targets' \in SUBSET Targets /\ exists' \in BOOLEAN
    BY <1>1
       DEF TypeOK, Publish, PatchGroup, CreateFeed, UpdateFeed, DeleteFeed, DeleteGroup, vars, config
  <1>7. TypeOK'
    BY <1>1, <1>2, <1>3, <1>4, <1>5, <1>6 DEF TypeOK
  <1> QED
    BY <1>2, <1>7, QuietInv

-----------------------------------------------------------------------------
(* The steps of a run. *)

LEMMA RunTypes ==
    ASSUME TypeOK, run' \in Run, tgt' \in [Targets -> SUBSET Addresses],
           host' = host, UNCHANGED config, changes' = changes,
           faults' \in 0..MaxFaults, edits' = edits
    PROVE  TypeOK'
  BY DEF TypeOK, config

LEMMA FaultCounts ==
    ASSUME TypeOK, faults < MaxFaults, faults' = faults + 1
    PROVE  faults' \in 0..MaxFaults
  BY IngestionAssumption DEF TypeOK

LEMMA RunFieldTypes ==
    ASSUME TypeOK
    PROVE  /\ run \in Run
           /\ run.setting \in Setting /\ run.targets \in SUBSET Targets
           /\ run.feeds \in [Feeds -> FeedRow \cup {NoFeed}]
           /\ run.waiting \in SUBSET Feeds /\ run.bad \in SUBSET Feeds
           /\ run.body \in [Feeds -> SUBSET Entry]
           /\ run.unmerged \in SUBSET Feeds /\ run.seen \in SUBSET Addresses
           /\ run.aggregated \in SUBSET Addresses /\ run.items \in Nat
           /\ run.todo \in SUBSET Targets
           /\ run.failed \in BOOLEAN /\ run.any \in BOOLEAN
           /\ tgt \in [Targets -> SUBSET Addresses]
           /\ faults \in 0..MaxFaults
  BY DEF TypeOK, Run

(* Before the fetches are joined nothing has been merged. *)
Early == {"group", "feeds", "targets", "fetch"}

LEMMA EarlyFacts ==
    ASSUME IInv, run.phase \in Early
    PROVE  /\ run.seen = {} /\ run.aggregated = {} /\ run.items = 0
           /\ run.failed = FALSE
           /\ run.phase # "fetch" => run.waiting = {} /\ run.bad = {}
  <1>1. run.failed \in BOOLEAN
    BY RunFieldTypes DEF IInv
  <1> QED
    BY <1>1 DEF IInv, FetchInv, MergeInv, PushInv, Early

LEMMA EarlyInv ==
    ASSUME run'.phase \in Early, TypeOK', FetchInv',
           run'.seen = {}, run'.aggregated = {}, run'.items = 0,
           run'.failed = FALSE
    PROVE  IInv'
  BY DEF IInv, MergeInv, PushInv, Early

LEMMA StartInv ==
    ASSUME IInv, Start
    PROVE  IInv'
  <1> DEFINE x == [IdleRun EXCEPT !.phase = "group"]
  <1>1. x \in Run /\ x.phase = "group" /\ x.bad = {} /\ x.waiting = {}
        /\ x.seen = {} /\ x.aggregated = {} /\ x.items = 0 /\ x.failed = FALSE
    BY IdleRunFacts DEF Run, Phase
  <1>2. run' = x /\ tgt' = tgt /\ host' = host
        /\ UNCHANGED config /\ changes' = changes /\ faults' = faults
        /\ edits' = edits
    BY DEF Start
  <1> HIDE DEF x
  <1>3. TypeOK'
    BY <1>1, <1>2, RunTypes, RunFieldTypes DEF IInv
  <1>4. FetchInv'
    BY <1>1, <1>2 DEF FetchInv
  <1> QED
    BY <1>1, <1>2, <1>3, <1>4, EarlyInv DEF Early

LEMMA LoadGroupInv ==
    ASSUME IInv, LoadGroup
    PROVE  IInv'
  <1> DEFINE x == [run EXCEPT !.phase = "feeds", !.setting = setting]
  <1>1. TypeOK /\ run \in Run /\ faults \in 0..MaxFaults
        /\ tgt \in [Targets -> SUBSET Addresses]
    BY RunFieldTypes DEF IInv
  <1>2. tgt' = tgt /\ host' = host /\ UNCHANGED config /\ changes' = changes
        /\ faults' = faults /\ edits' = edits /\ run.phase = "group"
        /\ run' = IF exists THEN x ELSE IdleRun
    BY DEF LoadGroup
  <1>3. CASE ~exists
    <2>1. run' = IdleRun
      BY <1>2, <1>3
    <2> QED
      BY <1>1, <1>2, <2>1, IdleRunFacts, RunTypes, EndsInv
  <1>4. CASE exists
    <2>1. setting \in Setting
      BY <1>1, IngestionAssumption DEF TypeOK
    <2>2. x \in Run /\ x.phase = "feeds" /\ x.seen = run.seen
          /\ x.aggregated = run.aggregated /\ x.items = run.items
          /\ x.failed = run.failed /\ x.bad = run.bad /\ x.waiting = run.waiting
      BY <1>1, <2>1 DEF Run, Phase
    <2> HIDE DEF x
    <2>3. run' = x
      BY <1>2, <1>4
    <2>4. TypeOK'
      BY <1>1, <1>2, <2>2, <2>3, RunTypes
    <2> QED
      BY <1>2, <2>2, <2>3, <2>4, EarlyFacts, EarlyInv DEF Early, FetchInv
  <1> QED
    BY <1>3, <1>4

LEMMA LoadFeedsInv ==
    ASSUME IInv, LoadFeeds
    PROVE  IInv'
  <1> DEFINE x == [run EXCEPT !.phase = "targets", !.feeds = feeds]
  <1>1. TypeOK /\ run \in Run /\ faults \in 0..MaxFaults
        /\ tgt \in [Targets -> SUBSET Addresses]
    BY RunFieldTypes DEF IInv
  <1>2. tgt' = tgt /\ host' = host /\ UNCHANGED config /\ changes' = changes
        /\ faults' = faults /\ edits' = edits /\ run.phase = "feeds" /\ run' = x
    BY DEF LoadFeeds
  <1>3. feeds \in [Feeds -> FeedRow \cup {NoFeed}]
    BY <1>1, IngestionAssumption DEF TypeOK
  <1>4. x \in Run /\ x.phase = "targets" /\ x.seen = run.seen
        /\ x.aggregated = run.aggregated /\ x.items = run.items
        /\ x.failed = run.failed /\ x.bad = run.bad /\ x.waiting = run.waiting
    BY <1>1, <1>3 DEF Run, Phase
  <1> HIDE DEF x
  <1>5. TypeOK'
    BY <1>1, <1>2, <1>4, RunTypes
  <1> QED
    BY <1>2, <1>4, <1>5, EarlyFacts, EarlyInv DEF Early, FetchInv

LEMMA LoadTargetsInv ==
    ASSUME IInv, LoadTargets
    PROVE  IInv'
  <1> DEFINE x == [run EXCEPT !.phase = "fetch", !.targets = targets,
                              !.waiting = Rows(run.feeds)]
  <1>1. TypeOK /\ run \in Run /\ faults \in 0..MaxFaults
        /\ tgt \in [Targets -> SUBSET Addresses]
    BY RunFieldTypes DEF IInv
  <1>2. tgt' = tgt /\ host' = host /\ UNCHANGED config /\ changes' = changes
        /\ faults' = faults /\ edits' = edits /\ run.phase = "targets" /\ run' = x
    BY DEF LoadTargets
  <1>3. targets \in SUBSET Targets /\ Rows(run.feeds) \in SUBSET Feeds
    BY <1>1 DEF TypeOK, Rows
  <1>4. x \in Run /\ x.phase = "fetch" /\ x.seen = run.seen
        /\ x.aggregated = run.aggregated /\ x.items = run.items
        /\ x.failed = run.failed /\ x.bad = run.bad
        /\ x.waiting = Rows(run.feeds) /\ x.feeds = run.feeds
    BY <1>1, <1>3 DEF Run, Phase
  <1> HIDE DEF x
  <1>5. TypeOK'
    BY <1>1, <1>2, <1>4, RunTypes
  <1>6. run.bad = {}
    BY <1>2, EarlyFacts DEF Early
  <1>7. FetchInv'
    BY <1>2, <1>4, <1>6 DEF FetchInv
  <1> QED
    BY <1>2, <1>4, <1>5, <1>7, EarlyFacts, EarlyInv DEF Early

LEMMA FetchFeedInv ==
    ASSUME IInv, NEW f \in Feeds, FetchOk(f) \/ FetchFail(f)
    PROVE  IInv'
  <1> DEFINE x == [run EXCEPT !.waiting = run.waiting \ {f},
                              !.body = [run.body EXCEPT ![f] = host[f]]]
             y == [run EXCEPT !.waiting = run.waiting \ {f},
                              !.bad = run.bad \cup {f}]
  <1>1. TypeOK /\ run \in Run /\ faults \in 0..MaxFaults
        /\ tgt \in [Targets -> SUBSET Addresses]
    BY RunFieldTypes DEF IInv
  <1>2. tgt' = tgt /\ host' = host /\ UNCHANGED config /\ changes' = changes
        /\ edits' = edits /\ run.phase = "fetch" /\ f \in run.waiting
        /\ (run' = x \/ run' = y)
    BY DEF FetchOk, FetchFail
  <1>3. faults' \in 0..MaxFaults
    BY <1>1, FaultCounts DEF FetchOk, FetchFail
  <1>4. host[f] \in SUBSET Entry
    BY <1>1, IngestionAssumption DEF TypeOK
  <1>5. run.body \in [Feeds -> SUBSET Entry]
    BY <1>1, RunFieldTypes
  <1>6. [run.body EXCEPT ![f] = host[f]] \in [Feeds -> SUBSET Entry]
    BY <1>4, <1>5
  <1>7. /\ x \in Run /\ x.phase = run.phase /\ x.seen = run.seen
        /\ x.aggregated = run.aggregated /\ x.items = run.items
        /\ x.failed = run.failed /\ x.bad = run.bad
        /\ x.waiting = run.waiting \ {f} /\ x.feeds = run.feeds
    BY <1>1, <1>6 DEF Run
  <1>8. /\ y \in Run /\ y.phase = run.phase /\ y.seen = run.seen
        /\ y.aggregated = run.aggregated /\ y.items = run.items
        /\ y.failed = run.failed /\ y.bad = run.bad \cup {f}
        /\ y.waiting = run.waiting \ {f} /\ y.feeds = run.feeds
    BY <1>1 DEF Run
  <1> HIDE DEF x, y
  <1>9. /\ run' \in Run /\ run'.phase = "fetch" /\ run'.seen = run.seen
        /\ run'.aggregated = run.aggregated /\ run'.items = run.items
        /\ run'.failed = run.failed /\ run'.bad \subseteq run.bad \cup {f}
        /\ run'.waiting = run.waiting \ {f} /\ run'.feeds = run.feeds
    BY <1>2, <1>7, <1>8
  <1>10. TypeOK'
    BY <1>1, <1>2, <1>3, <1>9, RunTypes
  <1>11. run.waiting \cup run.bad \subseteq Rows(run.feeds)
    BY <1>2 DEF IInv, FetchInv
  <1>12. FetchInv'
    BY <1>2, <1>9, <1>11 DEF FetchInv
  <1> QED
    BY <1>2, <1>9, <1>10, <1>12, EarlyFacts, EarlyInv DEF Early

LEMMA JoinInv ==
    ASSUME IInv, Join
    PROVE  IInv'
  <1> DEFINE x == [run EXCEPT !.phase = "merge",
                              !.unmerged = Rows(run.feeds) \ run.bad]
  <1>1. TypeOK /\ run \in Run /\ faults \in 0..MaxFaults
        /\ tgt \in [Targets -> SUBSET Addresses]
    BY RunFieldTypes DEF IInv
  <1>2. tgt' = tgt /\ host' = host /\ UNCHANGED config /\ changes' = changes
        /\ faults' = faults /\ edits' = edits /\ run.phase = "fetch"
        /\ run.waiting = {} /\ run' = x
    BY DEF Join, Joined
  <1>3. Rows(run.feeds) \ run.bad \in SUBSET Feeds
    BY DEF Rows
  <1>4. x \in Run /\ x.phase = "merge" /\ x.seen = run.seen
        /\ x.aggregated = run.aggregated /\ x.items = run.items
        /\ x.failed = run.failed /\ x.bad = run.bad
        /\ x.waiting = run.waiting /\ x.feeds = run.feeds
        /\ x.unmerged = Rows(run.feeds) \ run.bad
    BY <1>1, <1>3 DEF Run, Phase
  <1> HIDE DEF x
  <1>5. TypeOK'
    BY <1>1, <1>2, <1>4, RunTypes
  <1>6. FetchInv'
    BY <1>2, <1>4 DEF IInv, FetchInv
  <1>7. run.seen = {} /\ run.aggregated = {} /\ run.items = 0 /\ run.failed = FALSE
    BY <1>2, EarlyFacts DEF Early
  <1>8. Fetched' = run'.unmerged /\ Fetched' \ run'.unmerged = {}
    BY <1>2, <1>4 DEF Fetched
  <1>9. Cardinality(run'.aggregated) = 0
    BY <1>2, <1>4, <1>7, FS_EmptySet
  <1>10. MergeInv'
    <2>1. WantedOf(run'.setting, run'.feeds, Fetched' \ run'.unmerged, run'.body) = {}
      BY <1>8, WantedNone
    <2> QED
      BY <1>2, <1>4, <1>7, <1>8, <1>9, <2>1 DEF MergeInv
  <1>11. PushInv'
    BY <1>2, <1>4, <1>7 DEF PushInv
  <1> QED
    BY <1>5, <1>6, <1>10, <1>11 DEF IInv

LEMMA MergeFeedInv ==
    ASSUME IInv, NEW f \in Feeds, Merge(f)
    PROVE  IInv'
  <1> DEFINE s == Sanitized(run.feeds[f], run.setting, run.body[f])
             new == s \ run.seen
             x == [run EXCEPT !.unmerged = run.unmerged \ {f},
                              !.seen = run.seen \cup s,
                              !.aggregated = run.aggregated \cup new,
                              !.items = run.items + Cardinality(new)]
  <1>1. TypeOK /\ run \in Run /\ faults \in 0..MaxFaults
        /\ tgt \in [Targets -> SUBSET Addresses]
    BY RunFieldTypes DEF IInv
  <1>2. tgt' = tgt /\ host' = host /\ UNCHANGED config /\ changes' = changes
        /\ faults' = faults /\ edits' = edits /\ run.phase = "merge"
        /\ f \in run.unmerged /\ run' = x
    BY DEF Merge, NewlySeen
  <1>3. run.body[f] \in SUBSET Entry /\ run.seen \in SUBSET Addresses
        /\ run.aggregated \in SUBSET Addresses /\ run.items \in Nat
    BY <1>1, RunFieldTypes
  <1>4. s \in SUBSET Addresses
    BY <1>3, SanitizedType
  <1>5. /\ run.unmerged \subseteq Fetched
        /\ run.aggregated = WantedOf(run.setting, run.feeds, Fetched \ run.unmerged, run.body)
        /\ run.seen = run.aggregated /\ run.items = Cardinality(run.aggregated)
    BY <1>2 DEF IInv, MergeInv
  <1> HIDE DEF s
  <1>6. /\ Cardinality(run.aggregated \cup new) = run.items + Cardinality(new)
        /\ Cardinality(new) \in Nat
    <2>1. /\ Cardinality(run.aggregated \cup (s \ run.aggregated))
               = Cardinality(run.aggregated) + Cardinality(s \ run.aggregated)
          /\ Cardinality(s \ run.aggregated) \in Nat
      BY <1>3, <1>4, DisjointCount
    <2>2. new = s \ run.aggregated
      BY <1>5
    <2> QED
      BY <1>5, <2>1, <2>2
  <1>7. run.items + Cardinality(new) \in Nat /\ run.aggregated \cup new \in SUBSET Addresses
        /\ run.seen \cup s \in SUBSET Addresses
    BY <1>3, <1>4, <1>6
  <1>8. run.aggregated \cup new = run.seen \cup s
    BY <1>5
  <1> HIDE DEF new
  <1>9. /\ x \in Run /\ x.phase = "merge" /\ x.seen = run.seen \cup s
        /\ x.aggregated = run.aggregated \cup new
        /\ x.items = run.items + Cardinality(new)
        /\ x.unmerged = run.unmerged \ {f}
        /\ x.failed = run.failed /\ x.bad = run.bad /\ x.body = run.body
        /\ x.waiting = run.waiting /\ x.feeds = run.feeds
        /\ x.setting = run.setting
    BY <1>1, <1>2, <1>7 DEF Run
  <1> HIDE DEF x
  <1>10. TypeOK'
    BY <1>1, <1>2, <1>9, RunTypes
  <1>11. FetchInv'
    BY <1>2, <1>9 DEF IInv, FetchInv
  <1>12. Fetched' = Fetched
         /\ Fetched' \ run'.unmerged = (Fetched \ run.unmerged) \cup {f}
    BY <1>2, <1>5, <1>9 DEF Fetched
  <1>13. run'.aggregated = WantedOf(run.setting, run.feeds,
                                    (Fetched \ run.unmerged) \cup {f}, run.body)
    <2>1. WantedOf(run.setting, run.feeds, (Fetched \ run.unmerged) \cup {f}, run.body)
            = WantedOf(run.setting, run.feeds, Fetched \ run.unmerged, run.body) \cup s
      <3>1. \A some : WantedOf(run.setting, run.feeds, some \cup {f}, run.body)
                       = WantedOf(run.setting, run.feeds, some, run.body) \cup s
        BY DEF WantedOf, s
      <3> QED
        BY <3>1
    <2> QED
      BY <1>2, <1>5, <1>8, <1>9, <2>1
  <1>14. MergeInv'
    BY <1>2, <1>5, <1>6, <1>8, <1>9, <1>12, <1>13 DEF MergeInv
  <1>15. PushInv'
    BY <1>2, <1>9 DEF IInv, PushInv
  <1> QED
    BY <1>10, <1>11, <1>14, <1>15 DEF IInv

(* A step that changes neither the feeds loaded nor what was merged. *)
LEMMA MergedKept ==
    ASSUME IInv, run.phase \in {"merge", "push"},
           run'.phase \in {"push", "logged"}, run.unmerged = {},
           run'.unmerged = run.unmerged, run'.seen = run.seen,
           run'.aggregated = run.aggregated, run'.items = run.items,
           run'.bad = run.bad, run'.waiting = run.waiting,
           run'.feeds = run.feeds, run'.setting = run.setting,
           run'.body = run.body
    PROVE  FetchInv' /\ MergeInv'
  <1>1. FetchInv /\ MergeInv
    BY DEF IInv
  <1>2. FetchInv'
    BY <1>1 DEF FetchInv
  <1>3. Fetched' = Fetched
    BY DEF Fetched
  <1> QED
    BY <1>1, <1>2, <1>3 DEF MergeInv

LEMMA BeginPushInv ==
    ASSUME IInv, BeginPush
    PROVE  IInv'
  <1> DEFINE x == [run EXCEPT !.phase = "push", !.todo = run.targets,
                              !.any = (run.targets = {})]
  <1>1. TypeOK /\ run \in Run /\ faults \in 0..MaxFaults
        /\ tgt \in [Targets -> SUBSET Addresses]
    BY RunFieldTypes DEF IInv
  <1>2. tgt' = tgt /\ host' = host /\ UNCHANGED config /\ changes' = changes
        /\ faults' = faults /\ edits' = edits /\ run.phase = "merge"
        /\ run.unmerged = {} /\ run' = x
    BY DEF BeginPush
  <1>3. (run.targets = {}) \in BOOLEAN
    OBVIOUS
  <1>4. /\ x \in Run /\ x.phase = "push" /\ x.todo = run.targets
        /\ x.any = (run.targets = {}) /\ x.targets = run.targets
        /\ x.unmerged = run.unmerged /\ x.seen = run.seen
        /\ x.aggregated = run.aggregated /\ x.items = run.items
        /\ x.bad = run.bad /\ x.waiting = run.waiting
        /\ x.feeds = run.feeds /\ x.setting = run.setting
        /\ x.body = run.body
    BY <1>1, <1>3 DEF Run, Phase
  <1> HIDE DEF x
  <1>5. TypeOK'
    BY <1>1, <1>2, <1>4, RunTypes
  <1>6. FetchInv' /\ MergeInv'
    BY <1>2, <1>4, MergedKept
  <1>7. PushInv'
    BY <1>2, <1>4 DEF PushInv
  <1> QED
    BY <1>5, <1>6, <1>7 DEF IInv

LEMMA DeliveredFacts ==
    ASSUME NEW old \in SUBSET Addresses, NEW part \in SUBSET Addresses, NEW mode
    PROVE  /\ Delivered(old, part, mode) \in SUBSET Addresses
           /\ Holds(Delivered(old, part, mode), part, mode)
           /\ old # {} => Delivered(old, part, mode) # {}
           /\ Delivered(old, part, mode) \subseteq old \cup part
  BY DEF Delivered, Holds

LEMMA PushOkInv ==
    ASSUME IInv, NEW t \in Targets, PushOk(t)
    PROVE  IInv'
  <1> DEFINE x == [run EXCEPT !.todo = run.todo \ {t}, !.any = TRUE]
             e == Delivered(tgt[t], run.aggregated, run.setting.mode)
             Got(u) == Holds(tgt[u], run.aggregated, run.setting.mode)
             GotNext(u) == Holds(tgt'[u], run.aggregated, run.setting.mode)
  <1>1. TypeOK /\ run \in Run /\ faults \in 0..MaxFaults
        /\ tgt \in [Targets -> SUBSET Addresses]
        /\ run.aggregated \in SUBSET Addresses /\ run.targets \in SUBSET Targets
    BY RunFieldTypes DEF IInv
  <1>2. host' = host /\ UNCHANGED config /\ changes' = changes
        /\ faults' = faults /\ edits' = edits /\ run.phase = "push"
        /\ t \in run.todo /\ run' = x /\ tgt' = [tgt EXCEPT ![t] = e]
    BY DEF PushOk
  <1>3. e \in SUBSET Addresses /\ Holds(e, run.aggregated, run.setting.mode)
    <2>1. tgt[t] \in SUBSET Addresses
      BY <1>1
    <2>2. \A old, part \in SUBSET Addresses : \A mode :
             /\ Delivered(old, part, mode) \in SUBSET Addresses
             /\ Holds(Delivered(old, part, mode), part, mode)
      BY DeliveredFacts
    <2> QED
      BY <1>1, <2>1, <2>2
  <1>4. /\ x \in Run /\ x.phase = "push" /\ x.todo = run.todo \ {t}
        /\ x.failed = run.failed /\ x.targets = run.targets
        /\ x.unmerged = run.unmerged /\ x.seen = run.seen
        /\ x.aggregated = run.aggregated /\ x.items = run.items
        /\ x.bad = run.bad /\ x.waiting = run.waiting
        /\ x.feeds = run.feeds /\ x.setting = run.setting
        /\ x.body = run.body
    BY <1>1, <1>2 DEF Run
  <1> HIDE DEF x, e
  <1>5. tgt' \in [Targets -> SUBSET Addresses]
        /\ tgt'[t] = e /\ \A u \in Targets : u # t => tgt'[u] = tgt[u]
    BY <1>1, <1>2, <1>3
  <1>6. TypeOK'
    BY <1>1, <1>2, <1>4, <1>5, RunTypes
  <1>7. run.unmerged = {}
    BY <1>2 DEF IInv, MergeInv
  <1>8. FetchInv' /\ MergeInv'
    BY <1>2, <1>4, <1>7, MergedKept
  <1>9. /\ run.todo \subseteq run.targets
        /\ ~run.failed => \A u \in run.targets \ run.todo : Got(u)
        /\ run.any /\ run.targets # {} => \E u \in run.targets \ run.todo : Got(u)
    BY <1>2 DEF IInv, PushInv
  <1>10. \A u \in Targets : Got(u) \/ u = t => GotNext(u)
    BY <1>3, <1>5
  <1>11. t \in run'.targets \ run'.todo /\ GotNext(t)
    BY <1>2, <1>4, <1>9, <1>10
  <1>12. ~run'.failed => \A u \in run'.targets \ run'.todo : GotNext(u)
    BY <1>1, <1>2, <1>4, <1>9, <1>10
  <1>13. PushInv'
    BY <1>2, <1>4, <1>9, <1>11, <1>12 DEF PushInv
  <1> QED
    BY <1>6, <1>8, <1>13 DEF IInv

LEMMA PushErrInv ==
    ASSUME IInv, NEW t \in Targets, PushErr(t)
    PROVE  IInv'
  <1> DEFINE x == [run EXCEPT !.todo = run.todo \ {t}, !.failed = TRUE]
             Got(u) == Holds(tgt[u], run.aggregated, run.setting.mode)
             GotNext(u) == Holds(tgt'[u], run.aggregated, run.setting.mode)
  <1>1. TypeOK /\ run \in Run /\ faults \in 0..MaxFaults
        /\ tgt \in [Targets -> SUBSET Addresses]
        /\ run.aggregated \in SUBSET Addresses /\ run.targets \in SUBSET Targets
    BY RunFieldTypes DEF IInv
  <1>2. host' = host /\ UNCHANGED config /\ changes' = changes
        /\ edits' = edits /\ run.phase = "push" /\ t \in run.todo /\ run' = x
    BY DEF PushErr
  <1>3. PICK part \in SUBSET run.aggregated :
          tgt' = [tgt EXCEPT ![t] = Delivered(tgt[t], part, run.setting.mode)]
    BY DEF PushErr
  <1>4. Delivered(tgt[t], part, run.setting.mode) \in SUBSET Addresses
    BY <1>1, DeliveredFacts
  <1>5. /\ x \in Run /\ x.phase = "push" /\ x.todo = run.todo \ {t}
        /\ x.failed = TRUE /\ x.targets = run.targets /\ x.any = run.any
        /\ x.unmerged = run.unmerged /\ x.seen = run.seen
        /\ x.aggregated = run.aggregated /\ x.items = run.items
        /\ x.bad = run.bad /\ x.waiting = run.waiting
        /\ x.feeds = run.feeds /\ x.setting = run.setting
        /\ x.body = run.body
    BY <1>1, <1>2 DEF Run
  <1> HIDE DEF x
  <1>6. tgt' \in [Targets -> SUBSET Addresses]
        /\ \A u \in Targets : u # t => tgt'[u] = tgt[u]
    BY <1>1, <1>3, <1>4
  <1>7. faults' \in 0..MaxFaults
    BY <1>1, FaultCounts DEF PushErr
  <1>8. TypeOK'
    BY <1>1, <1>2, <1>5, <1>6, <1>7, RunTypes
  <1>9. run.unmerged = {}
    BY <1>2 DEF IInv, MergeInv
  <1>10. FetchInv' /\ MergeInv'
    BY <1>2, <1>5, <1>9, MergedKept
  <1>11. /\ run.todo \subseteq run.targets
         /\ run.any /\ run.targets # {} => \E u \in run.targets \ run.todo : Got(u)
    BY <1>2 DEF IInv, PushInv
  <1>12. \A u \in run.targets \ run.todo :
            u \in run'.targets \ run'.todo /\ (Got(u) => GotNext(u))
    BY <1>1, <1>2, <1>5, <1>6
  <1>13. PushInv'
    BY <1>2, <1>5, <1>11, <1>12 DEF PushInv
  <1> QED
    BY <1>8, <1>10, <1>13 DEF IInv

LEMMA WriteLogInv ==
    ASSUME IInv, WriteLog
    PROVE  IInv'
  <1> DEFINE x == [run EXCEPT !.phase = "logged"]
  <1>1. TypeOK /\ run \in Run /\ faults \in 0..MaxFaults
        /\ tgt \in [Targets -> SUBSET Addresses]
    BY RunFieldTypes DEF IInv
  <1>2. tgt' = tgt /\ host' = host /\ UNCHANGED config /\ changes' = changes
        /\ faults' = faults /\ edits' = edits /\ run.phase = "push" /\ run' = x
    BY DEF WriteLog
  <1>3. /\ x \in Run /\ x.phase = "logged"
        /\ x.unmerged = run.unmerged /\ x.seen = run.seen
        /\ x.aggregated = run.aggregated /\ x.items = run.items
        /\ x.bad = run.bad /\ x.waiting = run.waiting
        /\ x.feeds = run.feeds /\ x.setting = run.setting
        /\ x.body = run.body
    BY <1>1 DEF Run, Phase
  <1> HIDE DEF x
  <1>4. TypeOK'
    BY <1>1, <1>2, <1>3, RunTypes
  <1>5. run.unmerged = {}
    BY <1>2 DEF IInv, MergeInv
  <1>6. FetchInv' /\ MergeInv'
    BY <1>2, <1>3, <1>5, MergedKept
  <1>7. PushInv'
    BY <1>2, <1>3 DEF PushInv
  <1> QED
    BY <1>4, <1>6, <1>7 DEF IInv

LEMMA EndInv ==
    ASSUME IInv, SetLastRun \/ Abandon
    PROVE  IInv'
  <1>1. TypeOK /\ faults \in 0..MaxFaults
        /\ tgt \in [Targets -> SUBSET Addresses]
    BY RunFieldTypes DEF IInv
  <1>2. tgt' = tgt /\ host' = host /\ UNCHANGED config /\ changes' = changes
        /\ edits' = edits /\ run' = IdleRun
    BY DEF SetLastRun, Abandon
  <1>3. faults' \in 0..MaxFaults
    BY <1>1, FaultCounts DEF SetLastRun, Abandon
  <1>4. TypeOK'
    BY <1>1, <1>2, <1>3, IdleRunFacts, RunTypes
  <1> QED
    BY <1>2, <1>4, EndsInv

-----------------------------------------------------------------------------
(* Every step keeps the invariant. *)
LEMMA StepInv ==
    ASSUME IInv, [Next]_vars
    PROVE  IInv'
  <1>1. CASE RunStep
    <2>1. CASE \E f \in Feeds : FetchOk(f) \/ FetchFail(f) \/ Merge(f)
      BY <2>1, FetchFeedInv, MergeFeedInv
    <2>2. CASE \E t \in Targets : PushOk(t) \/ PushErr(t)
      BY <2>2, PushOkInv, PushErrInv
    <2> QED
      BY <1>1, <2>1, <2>2, LoadGroupInv, LoadFeedsInv, LoadTargetsInv, JoinInv,
         BeginPushInv, WriteLogInv, EndInv DEF RunStep
  <1> QED
    BY <1>1, StartInv, EndInv, EditInv DEF Next

(* The inductive invariant of an ingestion run, for any feeds, bodies,     *)
(* policies and targets: what has been fetched, merged and pushed so far   *)
(* (external_ingestion.rs execute).                                        *)
THEOREM IngestionInvariant == Spec => []IInv
  <1>1. Init => IInv
    BY InitInv
  <1>2. IInv /\ [Next]_vars => IInv'
    BY StepInv
  <1> QED
    BY <1>1, <1>2, PTL DEF Spec

LEMMA WantedAggregated ==
    ASSUME IInv, run.phase \in {"push", "logged"}
    PROVE  run.aggregated = Wanted /\ run.items = Cardinality(Wanted)
  <1>1. run.unmerged = {}
        /\ run.aggregated = WantedOf(run.setting, run.feeds, Fetched \ run.unmerged, run.body)
        /\ run.items = Cardinality(run.aggregated)
    BY DEF IInv, MergeInv
  <1>2. Fetched \ run.unmerged = Fetched
    BY <1>1
  <1> QED
    BY <1>1, <1>2 DEF Wanted

(* The pushed aggregate is exactly the union of what the single feeds keep *)
(* after their own age filter and bogon policy, each address once.         *)
THEOREM AggregatesTheorem == Spec => []Aggregates
  <1>1. IInv => Aggregates
    BY WantedAggregated DEF Aggregates
  <1> QED
    BY <1>1, IngestionInvariant, PTL

(* The status of the sync_logs row is honest in every run. *)
THEOREM HonestLogTheorem == Spec => []HonestLog
  <1>1. IInv => HonestLog
    <2> SUFFICES ASSUME IInv, run.phase = "push", run.todo = {}
                 PROVE  HonestLog
      BY DEF HonestLog
    <2> DEFINE Got(t) == Holds(tgt[t], Wanted, run.setting.mode)
               ok == {t \in run.targets : Got(t)}
    <2>1. run.aggregated = Wanted /\ run.items = Cardinality(Wanted)
          /\ Wanted \in SUBSET Addresses
      BY WantedAggregated, RunFieldTypes DEF IInv
    <2>2. run.items = 0 <=> Wanted = {}
      BY <2>1, DisjointCount
    <2>3. /\ ~run.failed => \A t \in run.targets : Got(t)
          /\ run.any /\ run.targets # {} => \E t \in run.targets : Got(t)
      BY <2>1 DEF IInv, PushInv
    <2>4. run.bad \subseteq Rows(run.feeds)
      BY DEF IInv, FetchInv
    <2>5. Status = "SUCCESS" => run.bad = {} /\ Wanted # {} /\ ok = run.targets
      BY <2>2, <2>3 DEF Status
    <2>6. Status = "PARTIAL" =>
            /\ run.targets # {} => ok # {}
            /\ Rows(run.feeds) # {} => Fetched # {}
      <3>1. ASSUME Status = "PARTIAL", run.targets # {} PROVE ok # {}
        BY <2>3, <3>1 DEF Status
      <3>2. ASSUME Status = "PARTIAL", Rows(run.feeds) # {} PROVE Fetched # {}
        <4>1. ~AllFeedsFailed
          BY <3>2 DEF Status
        <4> QED
          BY <2>4, <3>2, <4>1 DEF AllFeedsFailed, Fetched
      <3> QED
        BY <3>1, <3>2
    <2> QED
      BY <2>5, <2>6 DEF HonestLog
  <1> QED
    BY <1>1, IngestionInvariant, PTL

(* Only pushes change a target, and then from a subset of the aggregate. *)
LEMMA TargetSteps ==
    ASSUME IInv, [Next]_vars, tgt' # tgt
    PROVE  /\ run.phase = "push"
           /\ \E t \in Targets, part \in SUBSET run.aggregated :
                 tgt' = [tgt EXCEPT ![t] = Delivered(tgt[t], part, run.setting.mode)]
  <1>1. \E t \in Targets : PushOk(t) \/ PushErr(t)
    BY DEF Next, RunStep, Publish, Start, LoadGroup, LoadFeeds, LoadTargets,
           FetchOk, FetchFail, Merge, Join, BeginPush, WriteLog, SetLastRun,
           Abandon, PatchGroup, CreateFeed, UpdateFeed, DeleteFeed, DeleteGroup, vars
  <1>2. PICK t \in Targets : PushOk(t) \/ PushErr(t)
    BY <1>1
  <1>3. CASE PushOk(t)
    BY <1>3 DEF PushOk
  <1>4. CASE PushErr(t)
    BY <1>4 DEF PushErr
  <1> QED
    BY <1>2, <1>3, <1>4

(* No run ever empties a target group: chunk_records makes no chunk of an  *)
(* empty aggregate, so a full_replace of nothing is never sent.            *)
THEOREM NeverEmptiedTheorem == Spec => NeverEmptied
  <1> DEFINE Stays == \A t \in Targets : tgt[t] # {} => tgt'[t] # {}
  <1>1. ASSUME IInv, [Next]_vars PROVE [Stays]_tgt
    <2> SUFFICES ASSUME tgt' # tgt PROVE Stays
      OBVIOUS
    <2>1. tgt \in [Targets -> SUBSET Addresses] /\ run.aggregated \in SUBSET Addresses
      BY <1>1, RunFieldTypes DEF IInv
    <2>2. PICK t \in Targets, part \in SUBSET run.aggregated :
             tgt' = [tgt EXCEPT ![t] = Delivered(tgt[t], part, run.setting.mode)]
      BY <1>1, TargetSteps
    <2>3. tgt[t] # {} => Delivered(tgt[t], part, run.setting.mode) # {}
      BY <2>1, DeliveredFacts
    <2> QED
      BY <2>1, <2>2, <2>3
  <1>2. IInv /\ [Next]_vars => [Stays]_tgt
    BY <1>1
  <1> QED
    BY <1>2, IngestionInvariant, PTL DEF Spec, NeverEmptied

(* A bogon reaches a target only from a feed whose policy lets it through. *)
THEOREM BogonsNeedConsentTheorem == Spec => BogonsNeedConsent
  <1> DEFINE Consent ==
        \A t \in Targets : \A a \in (tgt'[t] \ tgt[t]) \cap Bogon :
          \E f \in Fetched :
              /\ a \in Fresh(run.feeds[f], run.body[f])
              /\ \/ run.feeds[f].skip = "yes"
                 \/ run.feeds[f].skip = "group" /\ run.setting.skip
  <1>1. ASSUME IInv, [Next]_vars PROVE [Consent]_tgt
    <2> SUFFICES ASSUME tgt' # tgt, NEW u \in Targets,
                        NEW a \in (tgt'[u] \ tgt[u]) \cap Bogon
                 PROVE  a \in Wanted
      BY WantedBogons DEF Wanted
    <2>1. tgt \in [Targets -> SUBSET Addresses] /\ run.aggregated \in SUBSET Addresses
      BY <1>1, RunFieldTypes DEF IInv
    <2>2. PICK t \in Targets, part \in SUBSET run.aggregated :
             tgt' = [tgt EXCEPT ![t] = Delivered(tgt[t], part, run.setting.mode)]
      BY <1>1, TargetSteps
    <2>3. Delivered(tgt[t], part, run.setting.mode) \subseteq tgt[t] \cup part
      BY <2>1, DeliveredFacts
    <2>4. a \in run.aggregated
      BY <2>1, <2>2, <2>3
    <2>5. run.aggregated = Wanted
      BY <1>1, TargetSteps, WantedAggregated
    <2> QED
      BY <2>4, <2>5
  <1>2. IInv /\ [Next]_vars => [Consent]_tgt
    BY <1>1
  <1> QED
    BY <1>2, IngestionInvariant, PTL DEF Spec, BogonsNeedConsent
=============================================================================
