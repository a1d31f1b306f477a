-------------------------- MODULE SchedulerProofs --------------------------
(***************************************************************************)
(* Proofs about Scheduler: the inductive invariant, and from it that serial *)
(* edits keep the job in step with the row and that the map only names     *)
(* live jobs.                                                              *)
(***************************************************************************)
EXTENDS Scheduler, FiniteSetTheorems, TLAPS

(* The handler record after each kind of step. *)
LEMMA ReqTypes ==
    /\ NoReq \in Req
    /\ \A r \in Req, x \in Row : [NoReq EXCEPT !.phase = "unmap", !.op = r.op, !.model = x] \in Req
  <1>1. NoRow \in Row
    BY SchedulerAssumption DEF NoRow, Row
  <1> QED
    BY <1>1 DEF Req, NoReq, Phase, Op

LEMMA InitInv == Init => IInv
  <1> SUFFICES ASSUME Init PROVE IInv
    OBVIOUS
  <1>1. row \in Row
    BY DEF Init, Row
  <1>2. \A q \in Requests : req[q] = NoReq
    BY DEF Init
  <1>3. \A q \in Requests : ~InSection(q) /\ ~Holds(q) /\ req[q].phase # "insert"
    BY <1>2 DEF InSection, Holds, NoReq
  <1>4. req \in [Requests -> Req]
    BY ReqTypes DEF Init
  <1>5. CASE Wanted(row)
    <2>1. jobs = {[id |-> 0, cron |-> row.cron]} /\ map = 0 /\ nextId = 1
      BY <1>5 DEF Init
    <2>2. [id |-> 0, cron |-> row.cron] \in Job
      BY <1>1 DEF Job, Row
    <2>3. TypeOK
      BY <1>1, <1>4, <2>1, <2>2, SchedulerAssumption DEF Init, TypeOK
    <2>4. IdsDistinct
      BY <1>3, <2>1 DEF IdsDistinct
    <2>5. InSync /\ MappedJobLives
      BY <1>5, <2>1 DEF InSync, MappedJobLives
    <2> QED
      BY <1>3, <2>3, <2>4, <2>5 DEF IInv
  <1>6. CASE ~Wanted(row)
    <2>1. jobs = {} /\ map = None /\ nextId = 1
      BY <1>6 DEF Init
    <2>2. TypeOK
      BY <1>1, <1>4, <2>1, SchedulerAssumption DEF Init, TypeOK
    <2>3. IdsDistinct
      BY <1>3, <2>1 DEF IdsDistinct
    <2>4. InSync /\ MappedJobLives
      BY <1>6, <2>1 DEF InSync, MappedJobLives
    <2> QED
      BY <1>3, <2>2, <2>3, <2>4 DEF IInv
  <1> QED
    BY <1>5, <1>6

-----------------------------------------------------------------------------
(* The part of the invariant that holds whatever the interleaving. *)
Base == TypeOK /\ IdsDistinct /\ MappedJobLives

(* The part that speaks of serial edits. *)
Serial ==
    clean =>
      /\ \A p, q \in Requests : InSection(p) /\ InSection(q) => p = q
      /\ \A q \in Requests : InSection(q) => SectionInv(q)
      /\ (\A q \in Requests : ~InSection(q)) => InSync

LEMMA IInvParts == IInv <=> Base /\ Serial
  BY DEF IInv, Base, Serial

(* One handler moves, the others stand still. *)
LEMMA OneMoves ==
    ASSUME TypeOK, NEW q \in Requests, NEW x, req' = [req EXCEPT ![q] = x]
    PROVE  /\ req'[q] = x
           /\ \A p \in Requests : p # q => req'[p] = req[p]
           /\ \A p \in Requests : p # q => (InSection(p)' <=> InSection(p))
           /\ x \in Req => req' \in [Requests -> Req]
  <1>1. req \in [Requests -> Req]
    BY DEF TypeOK
  <1>2. req'[q] = x /\ \A p \in Requests : p # q => req'[p] = req[p]
    BY <1>1
  <1>3. x \in Req => req' \in [Requests -> Req]
    BY <1>1
  <1> QED
    BY <1>2, <1>3 DEF InSection

(* A handler outside its section moves outside it: nothing else changes. *)
LEMMA MoveOutside ==
    ASSUME IInv, NEW q \in Requests, NEW x \in Req,
           req' = [req EXCEPT ![q] = x],
           req[q].phase \in {"idle", "write"}, x.phase \in {"idle", "write"},
           row' = row, jobs' = jobs, map' = map, nextId' = nextId,
           clean' = clean,
           edits' \in 0..MaxEdits, faults' \in 0..MaxFaults,
           cascades' \in 0..MaxCascades, restarts' \in 0..MaxRestarts
    PROVE  IInv'
  <1>1. TypeOK /\ Base /\ Serial
    BY IInvParts DEF Base
  <1>2. /\ req'[q] = x
        /\ \A p \in Requests : p # q => req'[p] = req[p]
        /\ \A p \in Requests : p # q => (InSection(p)' <=> InSection(p))
        /\ req' \in [Requests -> Req]
    BY <1>1, OneMoves
  <1>3. ~InSection(q) /\ ~InSection(q)'
    BY <1>2 DEF InSection
  <1>4. TypeOK'
    BY <1>1, <1>2 DEF TypeOK
  <1>5. IdsDistinct'
    BY <1>1, <1>2 DEF Base, IdsDistinct, Holds
  <1>6. MappedJobLives'
    BY <1>1 DEF Base, MappedJobLives
  <1>7. \A p \in Requests : InSection(p)' => p # q /\ InSection(p)
    BY <1>2, <1>3
  <1>8. \A p \in Requests : InSection(p)' /\ SectionInv(p) => SectionInv(p)'
    BY <1>2, <1>7 DEF SectionInv, Wanted
  <1>9. Wanted(row)' = Wanted(row) /\ (InSync => InSync')
    BY DEF InSync, Wanted
  <1>10. Serial'
    BY <1>1, <1>2, <1>3, <1>7, <1>8, <1>9 DEF Serial
  <1> QED
    BY <1>4, <1>5, <1>6, <1>10, IInvParts DEF Base, IInv, Serial

LEMMA ArriveInv ==
    ASSUME IInv, NEW q \in Requests, NEW op \in Op,
           NEW active \in BOOLEAN \cup {Keep}, NEW cron \in Crons \cup {Keep},
           Arrive(q, op, active, cron)
    PROVE  IInv'
  <1> DEFINE x == [NoReq EXCEPT !.phase = "write", !.op = op,
                                !.active = active, !.cron = cron]
  <1>1. x \in Req /\ x.phase = "write"
    <2>1. NoReq \in Req
      BY ReqTypes
    <2> QED
      BY <2>1 DEF Req, Phase
  <1>2. edits' \in 0..MaxEdits
    BY SchedulerAssumption DEF Arrive, IInv, TypeOK
  <1>3. faults' \in 0..MaxFaults /\ cascades' \in 0..MaxCascades
        /\ restarts' \in 0..MaxRestarts
    BY DEF Arrive, IInv, TypeOK
  <1>4. req' = [req EXCEPT ![q] = x] /\ req[q].phase = "idle"
    BY DEF Arrive
  <1>5. row' = row /\ jobs' = jobs /\ map' = map /\ nextId' = nextId
        /\ clean' = clean
    BY DEF Arrive
  <1> HIDE DEF x
  <1> QED
    BY <1>1, <1>2, <1>3, <1>4, <1>5, MoveOutside

(* A handler that finds no row ends. *)
LEMMA EndOutside ==
    ASSUME IInv, NEW q \in Requests, req[q].phase = "write", req' = Idle(q),
           UNCHANGED <<row, jobs, map, nextId, clean, counters>>
    PROVE  IInv'
  <1>1. NoReq \in Req /\ NoReq.phase = "idle"
    BY ReqTypes DEF NoReq
  <1>2. req' = [req EXCEPT ![q] = NoReq]
    BY DEF Idle
  <1>3. row' = row /\ jobs' = jobs /\ map' = map /\ nextId' = nextId
        /\ clean' = clean
    OBVIOUS
  <1>4. edits' \in 0..MaxEdits /\ faults' \in 0..MaxFaults
        /\ cascades' \in 0..MaxCascades /\ restarts' \in 0..MaxRestarts
    BY DEF counters, IInv, TypeOK
  <1> QED
    BY <1>1, <1>2, <1>3, <1>4, MoveOutside

(* A commit: the handler enters its section. *)
LEMMA CommitInv ==
    ASSUME IInv, NEW q \in Requests, NEW newRow \in Row,
           req[q].phase = "write",
           newRow.state = IF req[q].op = "delete" THEN "deleted" ELSE "alive",
           Commit(q, newRow)
    PROVE  IInv'
  <1> DEFINE x == [NoReq EXCEPT !.phase = "unmap", !.op = req[q].op,
                                !.model = newRow]
  <1>1. TypeOK /\ Base /\ Serial
    BY IInvParts DEF Base
  <1>2. req[q] \in Req
    BY <1>1 DEF TypeOK
  <1>3. x \in Req /\ x.phase = "unmap" /\ x.op = req[q].op /\ x.model = newRow
    BY <1>2, ReqTypes DEF NoReq
  <1>4. req' = [req EXCEPT ![q] = x]
    BY DEF Commit
  <1>5. row' = newRow /\ jobs' = jobs /\ map' = map /\ nextId' = nextId
        /\ edits' = edits /\ faults' = faults /\ cascades' = cascades
        /\ restarts' = restarts
    BY DEF Commit, counters
  <1>6. clean' = (clean /\ \A p \in Requests \ {q} : ~InSection(p))
    BY DEF Commit
  <1> HIDE DEF x
  <1>7. /\ req'[q] = x
        /\ \A p \in Requests : p # q => req'[p] = req[p]
        /\ \A p \in Requests : p # q => (InSection(p)' <=> InSection(p))
        /\ req' \in [Requests -> Req]
    BY <1>1, <1>3, <1>4, OneMoves
  <1>8. TypeOK'
    BY <1>1, <1>5, <1>6, <1>7 DEF TypeOK
  <1>9. IdsDistinct'
    BY <1>1, <1>3, <1>5, <1>7 DEF Base, IdsDistinct, Holds
  <1>10. MappedJobLives'
    BY <1>1, <1>5 DEF Base, MappedJobLives
  <1>11. Serial'
    <2> SUFFICES ASSUME clean'
                 PROVE  /\ \A p, r \in Requests : InSection(p)' /\ InSection(r)' => p = r
                        /\ \A p \in Requests : InSection(p)' => SectionInv(p)'
                        /\ (\A p \in Requests : ~InSection(p)') => InSync'
      BY DEF Serial
    <2>1. clean /\ \A p \in Requests : p # q => ~InSection(p)
      BY <1>6
    <2>2. ~InSection(q) /\ InSection(q)'
      BY <1>3, <1>7 DEF InSection
    <2>3. InSync
      BY <1>1, <2>1, <2>2 DEF Serial
    <2>4. IF map = None THEN jobs = {} ELSE \E j \in jobs : jobs = {j} /\ map = j.id
      <3>1. CASE Wanted(row)
        <4>1. PICK j \in jobs : jobs = {j} /\ map = j.id
          BY <2>3, <3>1 DEF InSync
        <4>2. map # None
          BY <1>1, <4>1, SchedulerAssumption DEF TypeOK, Job
        <4> QED
          BY <4>1, <4>2
      <3>2. CASE ~Wanted(row)
        BY <2>3, <3>2 DEF InSync
      <3> QED
        BY <3>1, <3>2
    <2>5. SectionInv(q)'
      BY <1>3, <1>5, <1>7, <2>4 DEF SectionInv
    <2> QED
      BY <1>7, <2>1, <2>2, <2>5
  <1> QED
    BY <1>8, <1>9, <1>10, <1>11 DEF IInv, Serial

(* The fields a handler writes keep the row's type. *)
LEMMA PatchedFacts ==
    ASSUME TypeOK, NEW q \in Requests
    PROVE  Patched(q) \in Row /\ Patched(q).state = row.state
  <1>1. row \in Row /\ req[q] \in Req
    BY DEF TypeOK
  <1>2. req[q].active \in BOOLEAN \cup {Keep} /\ req[q].cron \in Crons \cup {Keep}
    BY <1>1 DEF Req
  <1> QED
    BY <1>1, <1>2 DEF Patched, Row

LEMMA WriteInv ==
    ASSUME IInv, NEW q \in Requests,
           WriteCreate(q) \/ WritePatch(q) \/ WriteDelete(q)
    PROVE  IInv'
  <1>1. TypeOK /\ row \in Row
    BY DEF IInv, TypeOK
  <1>2. Patched(q) \in Row /\ Patched(q).state = row.state
    BY <1>1, PatchedFacts
  <1>3. CASE WriteCreate(q)
    <2>1. req[q].phase = "write" /\ req[q].op = "create"
      BY <1>3 DEF WriteCreate
    <2>2. CASE Commit(q, [Patched(q) EXCEPT !.state = "alive"])
      <3> DEFINE new == [Patched(q) EXCEPT !.state = "alive"]
      <3>1. new \in Row /\ new.state = "alive"
        BY <1>2 DEF Row
      <3> HIDE DEF new
      <3> QED
        BY <2>1, <2>2, <3>1, CommitInv DEF new
    <2>3. CASE req' = Idle(q) /\ UNCHANGED <<row, jobs, map, nextId, clean, counters>>
      BY <2>1, <2>3, EndOutside
    <2> QED
      BY <1>3, <2>2, <2>3 DEF WriteCreate
  <1>4. CASE WritePatch(q)
    <2>1. req[q].phase = "write" /\ req[q].op = "patch"
      BY <1>4 DEF WritePatch
    <2>2. CASE row.state = "alive" /\ Commit(q, Patched(q))
      BY <1>2, <2>1, <2>2, CommitInv
    <2>3. CASE Lost(q)
      BY <2>1, <2>3, EndOutside DEF Lost
    <2> QED
      BY <1>4, <2>2, <2>3 DEF WritePatch
  <1>5. CASE WriteDelete(q)
    <2>1. req[q].phase = "write" /\ req[q].op = "delete"
      BY <1>5 DEF WriteDelete
    <2>2. CASE Commit(q, [row EXCEPT !.state = "deleted"])
      <3> DEFINE new == [row EXCEPT !.state = "deleted"]
      <3>1. new \in Row /\ new.state = "deleted"
        BY <1>1 DEF Row
      <3> HIDE DEF new
      <3> QED
        BY <2>1, <2>2, <3>1, CommitInv DEF new
    <2>3. CASE Lost(q)
      BY <2>1, <2>3, EndOutside DEF Lost
    <2> QED
      BY <1>5, <2>2, <2>3 DEF WriteDelete
  <1> QED
    BY <1>3, <1>4, <1>5

(* The handler's record after the removal: on to the add, or the end. *)
LEMMA RemovedFacts ==
    ASSUME TypeOK, NEW q \in Requests, Removed(q), InSection(q)
    PROVE  /\ req' \in [Requests -> Req]
           /\ \A p \in Requests : p # q => req'[p] = req[p]
           /\ \A p \in Requests : p # q => (InSection(p)' <=> InSection(p))
           /\ ~Holds(q)'
           /\ req'[q].phase = IF AddsJob(q) THEN "add" ELSE "idle"
           /\ AddsJob(q) => /\ req'[q].op = req[q].op
                            /\ req'[q].model = req[q].model
  <1>1. req \in [Requests -> Req] /\ req[q] \in Req
    BY DEF TypeOK
  <1>2. CASE AddsJob(q)
    <2> DEFINE x == [req[q] EXCEPT !.phase = "add", !.held = None]
    <2>1. x \in Req /\ x.phase = "add" /\ x.op = req[q].op /\ x.model = req[q].model
      BY <1>1 DEF Req, Phase
    <2>2. req' = [req EXCEPT ![q] = x]
      BY <1>2 DEF Removed
    <2> HIDE DEF x
    <2>3. /\ req'[q] = x
          /\ \A p \in Requests : p # q => req'[p] = req[p]
          /\ \A p \in Requests : p # q => (InSection(p)' <=> InSection(p))
          /\ req' \in [Requests -> Req]
      BY <2>1, <2>2, OneMoves
    <2> QED
      BY <1>2, <2>1, <2>3 DEF Holds
  <1>3. CASE ~AddsJob(q)
    <2>1. NoReq \in Req /\ NoReq.phase = "idle"
      BY ReqTypes DEF NoReq
    <2>2. req' = [req EXCEPT ![q] = NoReq]
      BY <1>3 DEF Removed, Idle
    <2>3. /\ req'[q] = NoReq
          /\ \A p \in Requests : p # q => req'[p] = req[p]
          /\ \A p \in Requests : p # q => (InSection(p)' <=> InSection(p))
          /\ req' \in [Requests -> Req]
      BY <2>1, <2>2, OneMoves
    <2> QED
      BY <1>3, <2>1, <2>3 DEF Holds
  <1> QED
    BY <1>2, <1>3

(* Once a lone handler has removed the old job, either the row wants a job  *)
(* and the handler will add it, or everything is in step.                   *)
LEMMA RemovedSerial ==
    ASSUME TypeOK, NEW q \in Requests, Removed(q), InSection(q),
           clean' = clean, row' = row, Serial,
           clean => map' = None /\ jobs' = {}
    PROVE  Serial'
  <1> SUFFICES ASSUME clean'
               PROVE  /\ \A p, r \in Requests : InSection(p)' /\ InSection(r)' => p = r
                      /\ \A p \in Requests : InSection(p)' => SectionInv(p)'
                      /\ (\A p \in Requests : ~InSection(p)') => InSync'
    BY DEF Serial
  <1>1. map' = None /\ jobs' = {}
    OBVIOUS
  <1>2. /\ \A p \in Requests : p # q => (InSection(p)' <=> InSection(p))
        /\ req'[q].phase = IF AddsJob(q) THEN "add" ELSE "idle"
        /\ AddsJob(q) => /\ req'[q].op = req[q].op
                         /\ req'[q].model = req[q].model
    BY RemovedFacts
  <1>3. SectionInv(q) /\ \A p \in Requests : p # q => ~InSection(p)
    BY DEF Serial
  <1>4. \A p \in Requests : InSection(p)' => p = q
    BY <1>2, <1>3
  <1>5. AddsJob(q) => Wanted(row)
    BY <1>3 DEF AddsJob, SectionInv, Wanted
  <1>6. CASE AddsJob(q)
    <2>1. InSection(q)'
      BY <1>2, <1>6 DEF InSection
    <2>2. SectionInv(q)'
      BY <1>1, <1>2, <1>3, <1>5, <1>6 DEF SectionInv, Wanted
    <2> QED
      BY <1>4, <2>1, <2>2
  <1>7. CASE ~AddsJob(q)
    <2>1. ~InSection(q)'
      BY <1>2, <1>7 DEF InSection
    <2>2. ~Wanted(row)
      BY <1>3, <1>7 DEF AddsJob, SectionInv, Wanted
    <2>3. InSync'
      BY <1>1, <2>2 DEF InSync, Wanted
    <2> QED
      BY <1>4, <2>1, <2>3
  <1> QED
    BY <1>6, <1>7

LEMMA UnmapInv ==
    ASSUME IInv, NEW q \in Requests, Unmap(q)
    PROVE  IInv'
  <1>1. TypeOK /\ Base /\ Serial /\ IdsDistinct /\ MappedJobLives
    BY IInvParts DEF Base
  <1>2. /\ row' = row /\ jobs' = jobs /\ nextId' = nextId /\ clean' = clean
        /\ map' = None
        /\ edits' = edits /\ faults' = faults /\ cascades' = cascades
        /\ restarts' = restarts
    BY DEF Unmap, counters, MapAfterUnmap
  <1>3. req[q].phase = "unmap" /\ InSection(q) /\ req[q] \in Req
    BY <1>1 DEF Unmap, InSection, TypeOK
  <1>4. MappedJobLives'
    BY <1>2 DEF MappedJobLives
  <1>5. CASE map = None
    <2>1. Removed(q)
      BY <1>5 DEF Unmap
    <2>2. /\ req' \in [Requests -> Req] /\ ~Holds(q)'
          /\ \A p \in Requests : p # q => req'[p] = req[p]
          /\ req'[q].phase # "insert"
      BY <1>1, <1>3, <2>1, RemovedFacts
    <2>3. TypeOK'
      BY <1>1, <1>2, <2>2 DEF TypeOK
    <2>4. IdsDistinct'
      BY <1>1, <1>2, <1>5, <2>2 DEF IdsDistinct, Holds
    <2>5. clean => jobs' = {}
      BY <1>1, <1>2, <1>3, <1>5 DEF Serial, SectionInv
    <2>6. Serial'
      BY <1>1, <1>2, <1>3, <2>1, <2>5, RemovedSerial
    <2> QED
      BY <1>4, <2>3, <2>4, <2>6 DEF IInv, Serial
  <1>6. CASE map # None
    <2> DEFINE x == [req[q] EXCEPT !.phase = "unschedule", !.held = map]
    <2>1. /\ x \in Req /\ x.phase = "unschedule" /\ x.held = map
          /\ x.op = req[q].op /\ x.model = req[q].model
      BY <1>1, <1>3 DEF Req, Phase, TypeOK
    <2>2. req' = [req EXCEPT ![q] = x]
      BY <1>6 DEF Unmap
    <2> HIDE DEF x
    <2>3. /\ req'[q] = x
          /\ \A p \in Requests : p # q => req'[p] = req[p]
          /\ \A p \in Requests : p # q => (InSection(p)' <=> InSection(p))
          /\ req' \in [Requests -> Req]
      BY <1>1, <2>1, <2>2, OneMoves
    <2>4. TypeOK'
      BY <1>1, <1>2, <2>3 DEF TypeOK
    <2>5. IdsDistinct'
      BY <1>1, <1>2, <1>6, <2>1, <2>3 DEF IdsDistinct, Holds
    <2>6. Serial'
      <3> SUFFICES ASSUME clean'
                   PROVE  /\ \A p, r \in Requests : InSection(p)' /\ InSection(r)' => p = r
                          /\ \A p \in Requests : InSection(p)' => SectionInv(p)'
                          /\ (\A p \in Requests : ~InSection(p)') => InSync'
        BY DEF Serial
      <3>1. SectionInv(q) /\ \A p \in Requests : p # q => ~InSection(p)
        BY <1>1, <1>2, <1>3 DEF Serial
      <3>2. \E j \in jobs : jobs = {j} /\ map = j.id
        BY <1>3, <1>6, <3>1 DEF SectionInv
      <3>3. SectionInv(q)'
        BY <1>2, <2>1, <2>3, <3>1, <3>2 DEF SectionInv
      <3>4. InSection(q)'
        BY <2>1, <2>3 DEF InSection
      <3> QED
        BY <2>3, <3>1, <3>3, <3>4
    <2> QED
      BY <1>4, <2>4, <2>5, <2>6 DEF IInv, Serial
  <1> QED
    BY <1>5, <1>6

LEMMA UnscheduleInv ==
    ASSUME IInv, NEW q \in Requests, Unschedule(q)
    PROVE  IInv'
  <1>1. TypeOK /\ Base /\ Serial /\ IdsDistinct /\ MappedJobLives
    BY IInvParts DEF Base
  <1>2. /\ row' = row /\ map' = map /\ nextId' = nextId /\ clean' = clean
        /\ edits' = edits /\ faults' = faults /\ cascades' = cascades
        /\ restarts' = restarts
    BY DEF Unschedule, counters
  <1>3. jobs' = {j \in jobs : j.id # req[q].held}
    BY DEF Unschedule, Survivors
  <1>4. req[q].phase = "unschedule" /\ InSection(q) /\ Holds(q) /\ Removed(q)
    BY DEF Unschedule, InSection, Holds
  <1>5. /\ req' \in [Requests -> Req] /\ ~Holds(q)'
        /\ \A p \in Requests : p # q => req'[p] = req[p]
        /\ req'[q].phase # "insert"
    BY <1>1, <1>4, RemovedFacts
  <1>6. TypeOK'
    BY <1>1, <1>2, <1>3, <1>5 DEF TypeOK
  <1>7. MappedJobLives'
    <2>1. req[q].held # map
      BY <1>1, <1>4 DEF IdsDistinct
    <2> QED
      BY <1>1, <1>2, <1>3, <2>1 DEF MappedJobLives
  <1>8. IdsDistinct'
    <2>1. \A p \in Requests : p # q /\ req[p].phase = "insert" =>
             \E j \in jobs' : j.id = req[p].held
      <3> SUFFICES ASSUME NEW p \in Requests, p # q, req[p].phase = "insert"
                   PROVE  \E j \in jobs' : j.id = req[p].held
        OBVIOUS
      <3>1. Holds(p)
        BY DEF Holds
      <3>2. req[p].held # req[q].held
        BY <1>1, <1>4, <3>1 DEF IdsDistinct
      <3>3. PICK j \in jobs : j.id = req[p].held
        BY <1>1 DEF IdsDistinct
      <3> QED
        BY <1>3, <3>2, <3>3
    <2>2. \A p \in Requests : Holds(p)' => p # q /\ Holds(p) /\ req'[p] = req[p]
      BY <1>5 DEF Holds
    <2>3. \A j \in jobs' : j.id < nextId'
      BY <1>1, <1>2, <1>3 DEF IdsDistinct
    <2>4. \A p \in Requests : req'[p].phase = "insert" =>
             \E j \in jobs' : j.id = req'[p].held
      BY <1>5, <2>1
    <2>5. \A p \in Requests : Holds(p)' =>
             /\ req'[p].held # None /\ req'[p].held < nextId'
             /\ req'[p].held # map'
             /\ \A r \in Requests : Holds(r)' /\ req'[r].held = req'[p].held => r = p
      BY <1>1, <1>2, <2>2 DEF IdsDistinct
    <2>6. map' # None => map' < nextId'
      BY <1>1, <1>2 DEF IdsDistinct
    <2> QED
      BY <2>3, <2>4, <2>5, <2>6 DEF IdsDistinct
  <1>9. clean => map' = None /\ jobs' = {}
    <2> SUFFICES ASSUME clean PROVE map' = None /\ jobs' = {}
      OBVIOUS
    <2>1. SectionInv(q)
      BY <1>1, <1>4 DEF Serial
    <2>2. \E j \in jobs : jobs = {j} /\ req[q].held = j.id
      BY <1>4, <2>1 DEF SectionInv
    <2> QED
      BY <1>2, <1>3, <1>4, <2>1, <2>2 DEF SectionInv
  <1>10. Serial'
    BY <1>1, <1>2, <1>4, <1>9, RemovedSerial
  <1> QED
    BY <1>6, <1>7, <1>8, <1>10 DEF IInv, Serial

LEMMA UnscheduleFailsInv ==
    ASSUME IInv, NEW q \in Requests, UnscheduleFails(q)
    PROVE  IInv'
  <1>1. TypeOK /\ IdsDistinct /\ MappedJobLives
    BY DEF IInv
  <1>2. /\ row' = row /\ map' = map /\ nextId' = nextId /\ jobs' = jobs
        /\ edits' = edits /\ cascades' = cascades /\ restarts' = restarts
        /\ clean' = FALSE
    BY DEF UnscheduleFails
  <1>0. faults' \in 0..MaxFaults
    BY <1>1, SchedulerAssumption DEF UnscheduleFails, TypeOK
  <1>3. InSection(q) /\ Removed(q)
    BY DEF UnscheduleFails, InSection
  <1>4. /\ req' \in [Requests -> Req] /\ ~Holds(q)'
        /\ \A p \in Requests : p # q => req'[p] = req[p]
        /\ req'[q].phase # "insert"
    BY <1>1, <1>3, RemovedFacts
  <1>5. TypeOK'
    BY <1>0, <1>1, <1>2, <1>4 DEF TypeOK
  <1>6. IdsDistinct'
    BY <1>1, <1>2, <1>4 DEF IdsDistinct, Holds
  <1>7. MappedJobLives'
    BY <1>1, <1>2 DEF MappedJobLives
  <1> QED
    BY <1>2, <1>5, <1>6, <1>7 DEF IInv

LEMMA AddFailsInv ==
    ASSUME IInv, NEW q \in Requests, AddFails(q)
    PROVE  IInv'
  <1>1. TypeOK /\ IdsDistinct /\ MappedJobLives
    BY DEF IInv
  <1>2. /\ row' = row /\ map' = map /\ nextId' = nextId /\ jobs' = jobs
        /\ edits' = edits /\ cascades' = cascades /\ restarts' = restarts
        /\ clean' = FALSE
    BY DEF AddFails
  <1>0. faults' \in 0..MaxFaults
    BY <1>1, SchedulerAssumption DEF AddFails, TypeOK
  <1>3. NoReq \in Req /\ NoReq.phase = "idle" /\ req' = [req EXCEPT ![q] = NoReq]
    BY ReqTypes DEF NoReq, AddFails, Idle
  <1>4. /\ req'[q] = NoReq
        /\ \A p \in Requests : p # q => req'[p] = req[p]
        /\ req' \in [Requests -> Req]
    BY <1>1, <1>3, OneMoves
  <1>5. TypeOK'
    BY <1>0, <1>1, <1>2, <1>4 DEF TypeOK
  <1>6. IdsDistinct'
    BY <1>1, <1>2, <1>3, <1>4 DEF IdsDistinct, Holds
  <1>7. MappedJobLives'
    BY <1>1, <1>2 DEF MappedJobLives
  <1> QED
    BY <1>2, <1>5, <1>6, <1>7 DEF IInv

LEMMA AddInv ==
    ASSUME IInv, NEW q \in Requests, Add(q)
    PROVE  IInv'
  <1> DEFINE x == [req[q] EXCEPT !.phase = "insert", !.held = nextId]
             new == [id |-> nextId, cron |-> req[q].model.cron]
  <1>1. TypeOK /\ Base /\ Serial /\ IdsDistinct /\ MappedJobLives
    BY IInvParts DEF Base
  <1>2. /\ row' = row /\ map' = map /\ nextId' = nextId + 1 /\ clean' = clean
        /\ edits' = edits /\ faults' = faults /\ cascades' = cascades
        /\ restarts' = restarts
    BY DEF Add, counters
  <1>3. jobs' = jobs \cup {new} /\ req' = [req EXCEPT ![q] = x]
    BY DEF Add
  <1>4. /\ req[q] \in Req /\ req[q].phase = "add" /\ InSection(q)
        /\ nextId \in Nat
    BY <1>1 DEF Add, InSection, TypeOK
  <1>5. /\ x \in Req /\ x.phase = "insert" /\ x.held = nextId
        /\ x.op = req[q].op /\ x.model = req[q].model
    <2>1. nextId \in Int \cup {None}
      BY <1>4
    <2> QED
      BY <1>4, <2>1 DEF Req, Phase
  <1>6. new.id = nextId /\ new.cron = req[q].model.cron
    OBVIOUS
  <1> HIDE DEF x
  <1>7. /\ req'[q] = x
        /\ \A p \in Requests : p # q => req'[p] = req[p]
        /\ \A p \in Requests : p # q => (InSection(p)' <=> InSection(p))
        /\ req' \in [Requests -> Req]
    BY <1>1, <1>3, <1>5, OneMoves
  <1>8. req[q].model \in Row
    BY <1>4 DEF Req
  <1>9. new \in Job
    BY <1>4, <1>8 DEF Job, Row
  <1> HIDE DEF new
  <1>10. TypeOK'
    BY <1>1, <1>2, <1>3, <1>4, <1>7, <1>9 DEF TypeOK
  <1>11. MappedJobLives'
    BY <1>1, <1>2, <1>3 DEF MappedJobLives
  <1>12. IdsDistinct'
    <2>1. \A j \in jobs : j.id < nextId /\ j.id \in Int
      BY <1>1 DEF IdsDistinct, TypeOK, Job
    <2>2. \A j \in jobs' : j.id < nextId'
      BY <1>2, <1>3, <1>4, <1>6, <2>1
    <2>3. map' # None => map' \in Int /\ map' < nextId /\ map' < nextId'
      BY <1>1, <1>2, <1>4 DEF IdsDistinct, TypeOK
    <2>4. \A p \in Requests : p # q /\ Holds(p) =>
             /\ req[p].held \in Int /\ req[p].held # nextId
             /\ req[p].held < nextId'
      <3> SUFFICES ASSUME NEW p \in Requests, p # q, Holds(p)
                   PROVE  /\ req[p].held \in Int /\ req[p].held # nextId
                          /\ req[p].held < nextId'
        OBVIOUS
      <3>1. req[p] \in Req
        BY <1>1 DEF TypeOK
      <3>2. req[p].held # None /\ req[p].held < nextId
        BY <1>1 DEF IdsDistinct
      <3>3. req[p].held \in Int
        BY <3>1, <3>2 DEF Req
      <3> QED
        BY <1>2, <1>4, <3>2, <3>3
    <2>5. \A p \in Requests : p # q => (Holds(p)' <=> Holds(p)) /\ req'[p] = req[p]
      BY <1>7 DEF Holds
    <2>6. req'[q].held = nextId /\ ~Holds(q) /\ nextId # None
      BY <1>4, <1>5, <1>7, SchedulerAssumption DEF Holds
    <2>7. \A p \in Requests : Holds(p)' =>
             /\ req'[p].held # None /\ req'[p].held < nextId'
             /\ req'[p].held # map'
      <3> SUFFICES ASSUME NEW p \in Requests, Holds(p)'
                   PROVE  /\ req'[p].held # None /\ req'[p].held < nextId'
                          /\ req'[p].held # map'
        OBVIOUS
      <3>1. CASE p = q
        BY <1>2, <1>4, <2>3, <2>6, <3>1
      <3>2. CASE p # q
        BY <1>1, <1>2, <2>4, <2>5, <3>2 DEF IdsDistinct
      <3> QED
        BY <3>1, <3>2
    <2>8. \A p, r \in Requests : Holds(p)' /\ Holds(r)' /\ req'[r].held = req'[p].held
             => r = p
      BY <1>1, <2>4, <2>5, <2>6 DEF IdsDistinct
    <2>9. \A p \in Requests : req'[p].phase = "insert" =>
             \E j \in jobs' : j.id = req'[p].held
      <3> SUFFICES ASSUME NEW p \in Requests, req'[p].phase = "insert"
                   PROVE  \E j \in jobs' : j.id = req'[p].held
        OBVIOUS
      <3>1. CASE p = q
        BY <1>3, <1>6, <2>6, <3>1
      <3>2. CASE p # q
        BY <1>1, <1>3, <1>7, <3>2 DEF IdsDistinct
      <3> QED
        BY <3>1, <3>2
    <2> QED
      BY <2>2, <2>3, <2>7, <2>8, <2>9 DEF IdsDistinct
  <1>13. Serial'
    <2> SUFFICES ASSUME clean'
                 PROVE  /\ \A p, r \in Requests : InSection(p)' /\ InSection(r)' => p = r
                        /\ \A p \in Requests : InSection(p)' => SectionInv(p)'
                        /\ (\A p \in Requests : ~InSection(p)') => InSync'
      BY DEF Serial
    <2>1. SectionInv(q) /\ \A p \in Requests : p # q => ~InSection(p)
      BY <1>1, <1>2, <1>4 DEF Serial
    <2>2. jobs = {} /\ map = None /\ Wanted(row) /\ req[q].model = row
      BY <1>4, <2>1 DEF SectionInv
    <2>3. jobs' = {new}
      BY <1>3, <2>2
    <2>4. \E j \in jobs' : jobs' = {j} /\ req'[q].held = j.id /\ j.cron = row.cron
      BY <1>5, <1>6, <1>7, <2>2, <2>3
    <2>5. SectionInv(q)'
      BY <1>2, <1>5, <1>7, <2>1, <2>2, <2>4 DEF SectionInv, Wanted
    <2>6. InSection(q)'
      BY <1>5, <1>7 DEF InSection
    <2> QED
      BY <1>7, <2>1, <2>5, <2>6
  <1> QED
    BY <1>10, <1>11, <1>12, <1>13 DEF IInv, Serial

LEMMA InsertInv ==
    ASSUME IInv, NEW q \in Requests, Insert(q)
    PROVE  IInv'
  <1>1. TypeOK /\ Base /\ Serial /\ IdsDistinct /\ MappedJobLives
    BY IInvParts DEF Base
  <1>2. /\ row' = row /\ jobs' = jobs /\ nextId' = nextId /\ clean' = clean
        /\ map' = req[q].held
        /\ edits' = edits /\ faults' = faults /\ cascades' = cascades
        /\ restarts' = restarts
    BY DEF Insert, counters
  <1>3. req[q] \in Req /\ req[q].phase = "insert" /\ InSection(q) /\ Holds(q)
    BY <1>1 DEF Insert, InSection, Holds, TypeOK
  <1>4. NoReq \in Req /\ NoReq.phase = "idle" /\ req' = [req EXCEPT ![q] = NoReq]
    BY ReqTypes DEF NoReq, Insert, Idle
  <1>5. /\ req'[q] = NoReq
        /\ \A p \in Requests : p # q => req'[p] = req[p]
        /\ \A p \in Requests : p # q => (InSection(p)' <=> InSection(p))
        /\ req' \in [Requests -> Req]
    BY <1>1, <1>4, OneMoves
  <1>6. TypeOK'
    <2>1. map' \in Int \cup {None}
      BY <1>2, <1>3 DEF Req
    <2> QED
      BY <1>1, <1>2, <1>5, <2>1 DEF TypeOK
  <1>7. MappedJobLives'
    BY <1>1, <1>2, <1>3 DEF IdsDistinct, MappedJobLives
  <1>8. IdsDistinct'
    <2>1. \A p \in Requests : Holds(p)' => p # q /\ Holds(p) /\ req'[p] = req[p]
      BY <1>4, <1>5 DEF Holds
    <2>2. \A p \in Requests : Holds(p)' => req'[p].held # map'
      BY <1>1, <1>2, <1>3, <2>1 DEF IdsDistinct
    <2>3. map' # None => map' < nextId'
      BY <1>1, <1>2, <1>3 DEF IdsDistinct
    <2>4. \A p \in Requests : req'[p].phase = "insert" => Holds(p)'
      BY DEF Holds
    <2>5. \A p \in Requests : req'[p].phase = "insert" =>
             \E j \in jobs' : j.id = req'[p].held
      BY <1>1, <1>2, <2>1, <2>4 DEF IdsDistinct
    <2>6. \A p \in Requests : Holds(p)' =>
             /\ req'[p].held # None /\ req'[p].held < nextId'
             /\ \A r \in Requests : Holds(r)' /\ req'[r].held = req'[p].held => r = p
      BY <1>1, <1>2, <2>1 DEF IdsDistinct
    <2>7. \A j \in jobs' : j.id < nextId'
      BY <1>1, <1>2 DEF IdsDistinct
    <2> QED
      BY <2>2, <2>3, <2>5, <2>6, <2>7 DEF IdsDistinct
  <1>9. Serial'
    <2> SUFFICES ASSUME clean'
                 PROVE  /\ \A p \in Requests : ~InSection(p)'
                        /\ InSync'
      BY DEF Serial
    <2>1. SectionInv(q) /\ \A p \in Requests : p # q => ~InSection(p)
      BY <1>1, <1>2, <1>3 DEF Serial
    <2>2. ~InSection(q)'
      BY <1>4, <1>5 DEF InSection
    <2>3. Wanted(row) /\ \E j \in jobs : jobs = {j} /\ req[q].held = j.id /\ j.cron = row.cron
      BY <1>3, <2>1 DEF SectionInv
    <2>4. InSync'
      BY <1>2, <2>3 DEF InSync, Wanted
    <2> QED
      BY <1>5, <2>1, <2>2, <2>4
  <1> QED
    BY <1>6, <1>7, <1>8, <1>9 DEF IInv, Serial

LEMMA CancelInv ==
    ASSUME IInv, NEW q \in Requests, Cancel(q)
    PROVE  IInv'
  <1>1. TypeOK /\ Base /\ Serial /\ IdsDistinct /\ MappedJobLives
    BY IInvParts DEF Base
  <1>2. /\ row' = row /\ jobs' = jobs /\ nextId' = nextId /\ map' = map
        /\ edits' = edits /\ cascades' = cascades /\ restarts' = restarts
        /\ clean' = (clean /\ ~InSection(q))
    BY DEF Cancel
  <1>3. faults' \in 0..MaxFaults
    BY <1>1, SchedulerAssumption DEF Cancel, TypeOK
  <1>4. NoReq \in Req /\ NoReq.phase = "idle" /\ req' = [req EXCEPT ![q] = NoReq]
    BY ReqTypes DEF NoReq, Cancel, Idle
  <1>5. CASE ~InSection(q)
    <2>1. req[q].phase \in {"idle", "write"} /\ clean' = clean
      <3>1. req[q].phase \in Phase /\ clean \in BOOLEAN
        BY <1>1 DEF TypeOK, Req
      <3> QED
        BY <1>2, <1>5, <3>1 DEF Phase, InSection
    <2>2. /\ edits' \in 0..MaxEdits /\ cascades' \in 0..MaxCascades
          /\ restarts' \in 0..MaxRestarts
      BY <1>1, <1>2 DEF TypeOK
    <2> QED
      BY <1>2, <1>3, <1>4, <2>1, <2>2, MoveOutside
  <1>6. CASE InSection(q)
    <2>1. ~clean'
      BY <1>2, <1>6
    <2>2. /\ req'[q] = NoReq
          /\ \A p \in Requests : p # q => req'[p] = req[p]
          /\ req' \in [Requests -> Req]
      BY <1>1, <1>4, OneMoves
    <2>3. TypeOK'
      BY <1>1, <1>2, <1>3, <2>2 DEF TypeOK
    <2>4. IdsDistinct'
      BY <1>1, <1>2, <1>4, <2>2 DEF IdsDistinct, Holds
    <2>5. MappedJobLives'
      BY <1>1, <1>2 DEF MappedJobLives
    <2> QED
      BY <2>1, <2>3, <2>4, <2>5 DEF IInv
  <1> QED
    BY <1>5, <1>6

LEMMA CascadeInv ==
    ASSUME IInv, Cascade
    PROVE  IInv'
  <1>1. TypeOK /\ Base /\ IdsDistinct /\ MappedJobLives
    BY IInvParts DEF Base
  <1>2. /\ jobs' = jobs /\ nextId' = nextId /\ map' = map /\ req' = req
        /\ edits' = edits /\ faults' = faults /\ restarts' = restarts
        /\ clean' = FALSE
    BY DEF Cascade
  <1>3. cascades' \in 0..MaxCascades
    BY <1>1, SchedulerAssumption DEF Cascade, TypeOK
  <1>4. row' \in Row
    BY <1>1 DEF Cascade, TypeOK, Row
  <1>5. TypeOK'
    BY <1>1, <1>2, <1>3, <1>4 DEF TypeOK
  <1>6. IdsDistinct' /\ MappedJobLives'
    BY <1>1, <1>2 DEF IdsDistinct, Holds, MappedJobLives
  <1> QED
    BY <1>2, <1>5, <1>6 DEF IInv

LEMMA RestartInv ==
    ASSUME IInv, Restart
    PROVE  IInv'
  <1>1. TypeOK
    BY DEF IInv
  <1>2. /\ row' = row /\ edits' = edits /\ faults' = faults
        /\ cascades' = cascades /\ clean' = TRUE /\ nextId' = nextId + 1
        /\ jobs' = BootJobs(row) /\ map' = BootMap(row)
        /\ req' = [p \in Requests |-> NoReq]
    BY DEF Restart
  <1>3. restarts' \in 0..MaxRestarts
    BY <1>1, SchedulerAssumption DEF Restart, TypeOK
  <1>4. /\ req' \in [Requests -> Req]
        /\ \A p \in Requests : req'[p] = NoReq
    BY <1>2, ReqTypes
  <1>5. \A p \in Requests : ~InSection(p)' /\ ~Holds(p)' /\ req'[p].phase # "insert"
    BY <1>4 DEF InSection, Holds, NoReq
  <1>6. nextId \in Nat /\ nextId' \in Nat /\ nextId < nextId' /\ row \in Row
    BY <1>1, <1>2 DEF TypeOK
  <1>7. CASE Wanted(row)
    <2> DEFINE new == [id |-> nextId, cron |-> row.cron]
    <2>1. jobs' = {new} /\ map' = nextId
      BY <1>2, <1>7 DEF BootJobs, BootMap
    <2>2. new \in Job /\ new.id = nextId /\ new.cron = row.cron
      BY <1>6 DEF Job, Row
    <2> HIDE DEF new
    <2>3. TypeOK'
      BY <1>1, <1>2, <1>3, <1>4, <1>6, <2>1, <2>2 DEF TypeOK
    <2>4. IdsDistinct'
      BY <1>5, <1>6, <2>1, <2>2 DEF IdsDistinct
    <2>5. MappedJobLives' /\ InSync'
      BY <1>2, <1>7, <2>1, <2>2 DEF MappedJobLives, InSync, Wanted
    <2> QED
      BY <1>5, <2>3, <2>4, <2>5 DEF IInv
  <1>8. CASE ~Wanted(row)
    <2>1. jobs' = {} /\ map' = None
      BY <1>2, <1>8 DEF BootJobs, BootMap
    <2>2. TypeOK'
      BY <1>1, <1>2, <1>3, <1>4, <1>6, <2>1 DEF TypeOK
    <2>3. IdsDistinct'
      BY <1>5, <2>1 DEF IdsDistinct
    <2>4. MappedJobLives' /\ InSync'
      BY <1>2, <1>8, <2>1 DEF MappedJobLives, InSync, Wanted
    <2> QED
      BY <1>5, <2>2, <2>3, <2>4 DEF IInv
  <1> QED
    BY <1>7, <1>8

LEMMA StutterInv ==
    ASSUME IInv, UNCHANGED vars
    PROVE  IInv'
  <1>1. /\ row' = row /\ jobs' = jobs /\ nextId' = nextId /\ map' = map
        /\ req' = req /\ clean' = clean
        /\ edits' = edits /\ faults' = faults /\ restarts' = restarts
        /\ cascades' = cascades
    BY DEF vars
  <1>2. TypeOK' /\ IdsDistinct' /\ MappedJobLives'
    BY <1>1 DEF IInv, TypeOK, IdsDistinct, MappedJobLives, Holds
  <1>3. \A p \in Requests : /\ InSection(p)' <=> InSection(p)
                            /\ SectionInv(p)' <=> SectionInv(p)
    BY <1>1 DEF InSection, SectionInv, Wanted
  <1>4. InSync' <=> InSync
    BY <1>1 DEF InSync, Wanted
  <1> QED
    BY <1>1, <1>2, <1>3, <1>4 DEF IInv

LEMMA StepInv == IInv /\ [Next]_vars => IInv'
  <1> SUFFICES ASSUME IInv, [Next]_vars PROVE IInv'
    OBVIOUS
  <1>1. CASE \E q \in Requests : Step(q)
    <2>1. PICK q \in Requests : Step(q)
      BY <1>1
    <2>2. CASE WriteCreate(q) \/ WritePatch(q) \/ WriteDelete(q)
      BY <2>2, WriteInv
    <2>3. CASE Unmap(q)
      BY <2>3, UnmapInv
    <2>4. CASE Unschedule(q)
      BY <2>4, UnscheduleInv
    <2>5. CASE Add(q)
      BY <2>5, AddInv
    <2>6. CASE Insert(q)
      BY <2>6, InsertInv
    <2>7. CASE UnscheduleFails(q)
      BY <2>7, UnscheduleFailsInv
    <2>8. CASE AddFails(q)
      BY <2>8, AddFailsInv
    <2> QED
      BY <2>1, <2>2, <2>3, <2>4, <2>5, <2>6, <2>7, <2>8 DEF Step
  <1>2. CASE \E q \in Requests : Cancel(q)
    BY <1>2, CancelInv
  <1>3. CASE \E q \in Requests, op \in Op, active \in BOOLEAN \cup {Keep},
               cron \in Crons \cup {Keep} : Arrive(q, op, active, cron)
    BY <1>3, ArriveInv
  <1>4. CASE Cascade
    BY <1>4, CascadeInv
  <1>5. CASE Restart
    BY <1>5, RestartInv
  <1>6. CASE UNCHANGED vars
    BY <1>6, StutterInv
  <1> QED
    BY <1>1, <1>2, <1>3, <1>4, <1>5, <1>6 DEF Next

-----------------------------------------------------------------------------
(* The handlers of scheduler.rs keep the inductive invariant, whatever the  *)
(* number of requests in flight, their interleaving, and where they are     *)
(* dropped.                                                                 *)
THEOREM SchedulerInvariant == Spec => []IInv
  <1> QED
    BY InitInv, StepInv, PTL DEF Spec

(* upsert and remove take a job id out of the map before they remove the    *)
(* job, and put it in after they added it: the map never names a dead job.  *)
THEOREM MapNamesLiveJobs == Spec => []MappedJobLives
  <1>1. IInv => MappedJobLives
    BY DEF IInv
  <1> QED
    BY <1>1, SchedulerInvariant, PTL

(* Handlers that do not overlap after their commits leave exactly the job   *)
(* the row asks for; boot restores that after any history.                  *)
THEOREM SerialEditsStayInSync == Spec => []SerialEditsInSync
  <1>1. IInv => SerialEditsInSync
    <2> SUFFICES ASSUME IInv, Quiet, clean PROVE InSync
      BY DEF SerialEditsInSync
    <2>1. \A q \in Requests : ~InSection(q)
      BY DEF Quiet, InSection
    <2> QED
      BY <2>1 DEF IInv
  <1> QED
    BY <1>1, SchedulerInvariant, PTL

(* upsert removes the old job before it adds the new one: while edits are   *)
(* serial, two jobs of the resource are never live together.                *)
THEOREM OneJobAtMost == Spec => []NeverTwoJobs
  <1>1. IInv => NeverTwoJobs
    <2> SUFFICES ASSUME IInv, clean PROVE Cardinality(jobs) <= 1
      BY DEF NeverTwoJobs
    <2>1. jobs = {} \/ \E j \in jobs : jobs = {j}
      <3>1. CASE \E q \in Requests : InSection(q)
        <4>1. PICK q \in Requests : InSection(q)
          BY <3>1
        <4>2. SectionInv(q)
          BY <4>1 DEF IInv
        <4>3. req[q].phase \in {"unmap", "unschedule", "add", "insert"}
          BY <4>1 DEF InSection
        <4> QED
          BY <4>2, <4>3 DEF SectionInv
      <3>2. CASE \A q \in Requests : ~InSection(q)
        <4>1. InSync
          BY <3>2 DEF IInv
        <4> QED
          BY <4>1 DEF InSync
      <3> QED
        BY <3>1, <3>2
    <2>2. CASE jobs = {}
      BY <2>2, FS_EmptySet
    <2>3. CASE \E j \in jobs : jobs = {j}
      BY <2>3, FS_Singleton
    <2> QED
      BY <2>1, <2>2, <2>3
  <1> QED
    BY <1>1, SchedulerInvariant, PTL
=============================================================================
