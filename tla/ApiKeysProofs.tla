--------------------------- MODULE ApiKeysProofs ---------------------------
(***************************************************************************)
(* Proofs about ApiKeys, for any number of keys, resources and requests in *)
(* flight and for any well-formed database: unless it meets a creation by  *)
(* a key it deletes, the deletion of a key is complete; it reaches only    *)
(* the subtree of a key the caller may administer; and verbs trace back to *)
(* those who held them.                                                    *)
(***************************************************************************)
EXTENDS ApiKeys, TLAPS

-----------------------------------------------------------------------------
(* Requests. *)

LEMMA RequestTypes ==
    ASSUME NEW q \in Request
    PROVE  /\ q.step \in Step /\ q.by \in Keys /\ q.had \in SUBSET Right
           /\ q.on \in Keys /\ q.res \in Resources /\ q.add \in SUBSET Right
           /\ q.drop \in SUBSET Right /\ q.verbs \in SUBSET Verb
           /\ q.found \in SUBSET Keys /\ q.frontier \in SUBSET Keys
  BY DEF Request

LEMMA IdleFacts ==
    /\ Idle \in Request
    /\ Idle.step = "idle"
    /\ Idle.by = Master
    /\ "idle" \notin Creating /\ "idle" \notin Deleting
  <1>1. (CHOOSE r \in Resources : TRUE) \in Resources
    BY ApiKeysAssumption
  <1> QED
    BY <1>1, ApiKeysAssumption DEF Idle, Request, Step, Creating, Deleting

-----------------------------------------------------------------------------
(* Subtrees. *)

\* The key itself and the keys whose parent is in the subtree belong to it.
LEMMA SubtreeClosed ==
    ASSUME NEW top \in Keys
    PROVE  /\ top \in Subtree(top)
           /\ \A k \in Keys \ freshKeys :
                  parent[k] \in Subtree(top) => k \in Subtree(top)
  <1>1. ASSUME NEW k \in Keys \ freshKeys, parent[k] \in Subtree(top),
               NEW S \in SUBSET Keys, top \in S,
               \A x \in Keys \ freshKeys : parent[x] \in S => x \in S
        PROVE  k \in S
    <2>1. parent[k] \in S
      BY <1>1 DEF Subtree
    <2> QED
      BY <1>1, <2>1
  <1> QED
    BY <1>1 DEF Subtree

\* It is in every set with these two properties.
LEMMA SubtreeLeast ==
    ASSUME NEW top \in Keys, NEW S \in SUBSET Keys, top \in S,
           \A x \in Keys \ freshKeys : parent[x] \in S => x \in S
    PROVE  Subtree(top) \subseteq S
  BY DEF Subtree

LEMMA SubtreeSame ==
    ASSUME UNCHANGED <<freshKeys, parent>>
    PROVE  \A top : Subtree(top)' = Subtree(top)
  BY DEF Subtree

\* A new key joins the subtrees of its parent, and moves no other.
LEMMA SubtreeGrows ==
    ASSUME TypeOK, IdInv, NEW k \in freshKeys, NEW by \in Keys,
           freshKeys' = freshKeys \ {k}, parent' = [parent EXCEPT ![k] = by],
           NEW top \in Keys
    PROVE  /\ Subtree(top) \subseteq Subtree(top)'
           /\ Subtree(top)' \subseteq Subtree(top) \cup {k}
  <1>1. k \in Keys /\ \A x \in Keys \ freshKeys : parent'[x] = parent[x]
    BY DEF TypeOK
  <1>2. ASSUME NEW S \in SUBSET Keys, top \in S,
               \A x \in Keys \ freshKeys' : parent'[x] \in S => x \in S
        PROVE  Subtree(top) \subseteq S
    <2>1. \A x \in Keys \ freshKeys : parent[x] \in S => x \in S
      BY <1>1, <1>2
    <2> QED
      BY <1>2, <2>1, SubtreeLeast
  <1>3. Subtree(top) \subseteq Subtree(top)'
    BY <1>2 DEF Subtree
  <1> DEFINE S == Subtree(top) \cup {k}
  <1>4. S \in SUBSET Keys /\ top \in S
    BY <1>1, SubtreeClosed DEF Subtree
  <1>5. ASSUME NEW x \in Keys \ freshKeys', parent'[x] \in S
        PROVE  x \in S
    <2>1. CASE x = k
      BY <2>1
    <2>2. CASE x # k
      <3>1. x \in Keys \ freshKeys /\ parent[x] \in S
        BY <1>1, <1>5, <2>2
      <3>2. parent[x] # k
        BY <3>1 DEF IdInv
      <3> QED
        BY <3>1, <3>2, SubtreeClosed
    <2> QED
      BY <2>1, <2>2
  <1> HIDE DEF S
  <1>6. Subtree(top)' \subseteq S
    BY <1>4, <1>5 DEF Subtree
  <1> QED
    BY <1>3, <1>6 DEF S

-----------------------------------------------------------------------------
LEMMA BecomesFacts ==
    ASSUME TypeOK, NEW h \in Handlers, NEW q \in Request, Becomes(h, q)
    PROVE  /\ req' \in [Handlers -> Request] /\ req'[h] = q
           /\ \A g \in Handlers : g # h => req'[g] = req[g]
           /\ overlap' \in BOOLEAN
           /\ overlap => overlap'
           /\ overlap' \/ ~Overlaps(req')
  <1>1. req' = [req EXCEPT ![h] = q] /\ overlap' = (overlap \/ Overlaps(req'))
    BY DEF Becomes
  <1>2. req' \in [Handlers -> Request] /\ req'[h] = q
        /\ \A g \in Handlers : g # h => req'[g] = req[g]
    BY <1>1 DEF TypeOK
  <1>3. (overlap \/ Overlaps(req')) \in BOOLEAN
    OBVIOUS
  <1> HIDE DEF Overlaps
  <1> QED
    BY <1>1, <1>2, <1>3 DEF TypeOK

-----------------------------------------------------------------------------
(* How the parts of the invariant survive a step of one handler.           *)

\* No tree change: what the step leaves to its own handler is all there is
\* to show.
LEMMA WalkKept ==
    ASSUME IInv, NEW h \in Handlers, NEW q \in Request, Becomes(h, q),
           UNCHANGED <<alive, freshKeys, parent>>,
           q.step \in Deleting => Collected(q) /\ (overlap' \/ Closed(q))
    PROVE  WalkInv'
  <1>1. TypeOK /\ WalkInv
    BY DEF IInv
  <1>2. req'[h] = q /\ (\A g \in Handlers : g # h => req'[g] = req[g])
        /\ (overlap => overlap')
    BY <1>1, BecomesFacts
  <1>3. alive' = alive /\ freshKeys' = freshKeys /\ parent' = parent
        /\ \A top : Subtree(top)' = Subtree(top)
    BY SubtreeSame
  <1>4. SUFFICES ASSUME NEW g \in Handlers, req'[g].step \in Deleting
                 PROVE  Collected(req[g])' /\ (overlap' \/ Closed(req[g])')
    BY DEF WalkInv
  <1>5. CASE g = h
    BY <1>2, <1>3, <1>4, <1>5 DEF Collected, Closed
  <1>6. CASE g # h
    <2>1. req'[g] = req[g] /\ Collected(req[g]) /\ (overlap \/ Closed(req[g]))
      BY <1>1, <1>2, <1>4, <1>6 DEF WalkInv
    <2> QED
      BY <1>2, <1>3, <2>1 DEF Collected, Closed
  <1> QED
    BY <1>5, <1>6

LEMMA InventoryKept ==
    ASSUME IInv, NEW h \in Handlers, NEW q \in Request, Becomes(h, q),
           existing' \subseteq existing, owner' = owner,
           overlap' \/ Cleared(q)
    PROVE  InventoryInv'
  <1>1. TypeOK /\ InventoryInv
    BY DEF IInv
  <1>2. req'[h] = q /\ (\A g \in Handlers : g # h => req'[g] = req[g])
        /\ (overlap => overlap')
    BY <1>1, BecomesFacts
  <1>3. SUFFICES ASSUME NEW g \in Handlers, ~overlap'
                 PROVE  Cleared(req[g])'
    BY DEF InventoryInv
  <1>4. Cleared(req'[g])
    BY <1>1, <1>2, <1>3 DEF InventoryInv
  <1>5. \A table, found : Inventory(table, found) = {}
            => {r \in table \cap existing' : owner'[r] \in found} = {}
    BY DEF Inventory
  <1> QED
    BY <1>4, <1>5 DEF Cleared, Inventory

LEMMA GrantKept ==
    ASSUME IInv, NEW h \in Handlers, NEW q \in Request, Becomes(h, q),
           held \subseteq held', Entitled(q)
    PROVE  GrantInv'
  <1>1. TypeOK /\ GrantInv
    BY DEF IInv
  <1>2. req'[h] = q /\ (\A g \in Handlers : g # h => req'[g] = req[g])
    BY <1>1, BecomesFacts
  <1>3. SUFFICES ASSUME NEW g \in Handlers
                 PROVE  Entitled(req[g])'
    BY DEF GrantInv
  <1>4. Entitled(req'[g])
    BY <1>1, <1>2 DEF GrantInv
  <1> QED
    BY <1>4 DEF Entitled

LEMMA OwnKept ==
    ASSUME IInv, NEW h \in Handlers, NEW q \in Request, Becomes(h, q),
           UNCHANGED <<owner, freshRes>>, q.step # "own"
    PROVE  OwnInv'
  <1>1. TypeOK /\ OwnInv
    BY DEF IInv
  <1>2. req'[h] = q /\ (\A g \in Handlers : g # h => req'[g] = req[g])
    BY <1>1, BecomesFacts
  <1> QED
    BY <1>1, <1>2 DEF OwnInv

LEMMA CreatorKept ==
    ASSUME IInv, NEW h \in Handlers, NEW q \in Request, Becomes(h, q),
           alive \subseteq alive', q.by \notin freshKeys,
           \A top \in Keys : Subtree(top)' \subseteq Subtree(top) \cup freshKeys,
           q.step \in Creating => overlap' \/ q.by \in alive'
    PROVE  CreatorInv'
  <1>1. TypeOK /\ CreatorInv /\ IdInv
    BY DEF IInv
  <1>2. req'[h] = q /\ (\A g \in Handlers : g # h => req'[g] = req[g])
        /\ (overlap => overlap') /\ (overlap' \/ ~Overlaps(req'))
    BY <1>1, BecomesFacts
  <1>3. \A g \in Handlers : req'[g].step \in Creating => overlap' \/ req'[g].by \in alive'
    BY <1>1, <1>2 DEF CreatorInv
  <1>4. Overlaps(req)' => Overlaps(req')
    <2>1. \A g \in Handlers : req'[g].by \notin freshKeys /\ req'[g].on \in Keys
      BY <1>1, <1>2, RequestTypes, BecomesFacts DEF IdInv
    <2> QED
      BY <2>1 DEF Overlaps
  <1> QED
    BY <1>2, <1>3, <1>4 DEF CreatorInv

LEMMA IdKept ==
    ASSUME IInv, NEW h \in Handlers, NEW q \in Request, Becomes(h, q),
           UNCHANGED <<alive, freshKeys, parent>>, q.by \notin freshKeys,
           \A k \in Keys, r \in Resources : \A v \in Verbs(k, r)' : <<k, r, v>> \in held'
    PROVE  IdInv'
  <1>1. TypeOK /\ IdInv
    BY DEF IInv
  <1>2. req'[h] = q /\ (\A g \in Handlers : g # h => req'[g] = req[g])
    BY <1>1, BecomesFacts
  <1>3. \A g \in Handlers : req'[g].by \notin freshKeys'
    BY <1>1, <1>2 DEF IdInv
  <1> QED
    BY <1>1, <1>3 DEF IdInv

LEMMA CascadeKept ==
    ASSUME IInv, NEW h \in Handlers, NEW q \in Request, Becomes(h, q),
           UNCHANGED <<alive, parent, owner>>, existing' \subseteq existing
    PROVE  CascadeComplete'
  <1>1. TypeOK /\ CascadeComplete
    BY DEF IInv
  <1>2. overlap => overlap'
    BY <1>1, BecomesFacts
  <1> QED
    BY <1>1, <1>2 DEF CascadeComplete

\* A step that only moves its own request on.
LEMMA RequestStep ==
    ASSUME IInv, NEW h \in Handlers, NEW q \in Request, Becomes(h, q),
           UNCHANGED <<tree, resources, grants>>, requests' \in 0..MaxRequests,
           q.by \notin freshKeys, q.step # "own",
           q.step \in Deleting => Collected(q) /\ (overlap' \/ Closed(q)),
           overlap' \/ Cleared(q), Entitled(q),
           q.step \in Creating => overlap' \/ q.by \in alive
    PROVE  IInv'
  <1>1. /\ alive' = alive /\ freshKeys' = freshKeys /\ rights' = rights
        /\ parent' = parent /\ existing' = existing /\ freshRes' = freshRes
        /\ owner' = owner /\ perm' = perm /\ held' = held
    BY DEF tree, resources, grants
  <1>2. TypeOK /\ IdInv
    BY DEF IInv
  <1>3. req' \in [Handlers -> Request] /\ overlap' \in BOOLEAN
    BY <1>2, BecomesFacts
  <1>4. TypeOK'
    BY <1>1, <1>2, <1>3 DEF TypeOK
  <1>5. IdInv'
    <2>1. \A k \in Keys, r \in Resources : \A v \in Verbs(k, r)' : <<k, r, v>> \in held'
      BY <1>1, <1>2 DEF IdInv, Verbs
    <2> QED
      BY <1>1, <2>1, IdKept
  <1>6. WalkInv'
    BY <1>1, WalkKept
  <1>7. InventoryInv'
    BY <1>1, InventoryKept
  <1>8. GrantInv'
    BY <1>1, GrantKept
  <1>9. CreatorInv' /\ OwnInv'
    BY <1>1, SubtreeSame, CreatorKept, OwnKept
  <1>10. CascadeComplete'
    BY <1>1, CascadeKept
  <1> QED
    BY <1>4, <1>5, <1>6, <1>7, <1>8, <1>9, <1>10 DEF IInv

\* A request that is answered, or refused, without a change.
LEMMA EndStep ==
    ASSUME IInv, NEW h \in Handlers, Becomes(h, Idle),
           UNCHANGED <<tree, resources, grants>>, requests' \in 0..MaxRequests
    PROVE  IInv'
  <1>1. Idle.by \notin freshKeys
    BY IdleFacts DEF IInv, IdInv
  <1>2. Cleared(Idle) /\ Entitled(Idle)
    BY IdleFacts DEF Cleared, Entitled
  <1> QED
    BY <1>1, <1>2, IdleFacts, RequestStep

LEMMA InitInv ==
    Init => IInv
  <1> SUFFICES ASSUME Init PROVE IInv
    OBVIOUS
  <1>1. PICK d \in Databases :
        /\ alive = d.alive
        /\ freshKeys = {k \in Keys : k \notin d.alive}
        /\ rights = d.rights
        /\ parent = d.parent
        /\ existing = d.existing
        /\ freshRes = {r \in Resources : r \notin d.existing}
        /\ owner = d.owner
        /\ perm = d.perm
        /\ held = {x \in Keys \X Resources \X Verb :
                      d.perm[x[1]][x[2]] # NoRow /\ x[3] \in d.perm[x[1]][x[2]]}
        /\ req = [h \in Handlers |-> Idle]
        /\ overlap = FALSE
        /\ requests = 0
    BY DEF Init
  <1>2. WellFormed(d)
    BY <1>1, ApiKeysAssumption
  <1>3. /\ alive \in SUBSET Keys /\ rights \in [Keys -> SUBSET Right]
        /\ parent \in [Keys -> Keys \cup {NoKey}] /\ existing \in SUBSET Resources
        /\ owner \in [Resources -> Keys] /\ perm \in [Keys -> [Resources -> Row]]
        /\ Master \in alive /\ parent[Master] = NoKey
        /\ \A k \in alive : k = Master \/ parent[k] \in alive
        /\ \A r \in existing : owner[r] \in alive
    BY <1>1, <1>2 DEF WellFormed, Database
  <1>4. \A h \in Handlers : req[h] = Idle
    BY <1>1
  <1>5. TypeOK
    <2>1. req \in [Handlers -> Request]
      BY <1>1, IdleFacts
    <2>2. freshKeys \in SUBSET Keys /\ freshRes \in SUBSET Resources
          /\ held \in SUBSET (Keys \X Resources \X Verb)
      BY <1>1
    <2>3. overlap \in BOOLEAN
      BY <1>1
    <2>4. requests \in 0..MaxRequests
      <3>1. requests = 0 /\ MaxRequests \in Nat
        BY <1>1, ApiKeysAssumption
      <3> QED
        BY <3>1
    <2> QED
      BY <1>3, <2>1, <2>2, <2>3, <2>4 DEF TypeOK
  <1>6. IdInv
    <2>1. ASSUME NEW k \in Keys, NEW r \in Resources, NEW v \in Verbs(k, r)
          PROVE  <<k, r, v>> \in held
      <3>1. perm[k][r] # NoRow /\ v \in perm[k][r] /\ perm[k][r] \in Row
        BY <1>3, <2>1 DEF Verbs
      <3>2. v \in Verb
        BY <3>1 DEF Row
      <3> QED
        BY <1>1, <3>1, <3>2
    <2>2. \A k \in Keys \ freshKeys : parent[k] \notin freshKeys
      BY <1>1, <1>3, ApiKeysAssumption
    <2> QED
      BY <1>1, <1>3, <1>4, <2>1, <2>2, IdleFacts DEF IdInv
  <1>7. WalkInv /\ InventoryInv /\ GrantInv /\ OwnInv
    BY <1>4, IdleFacts DEF WalkInv, InventoryInv, Cleared, GrantInv, Entitled, OwnInv
  <1>8. CreatorInv /\ CascadeComplete
    BY <1>3, <1>4, IdleFacts DEF CreatorInv, Overlaps, CascadeComplete
  <1> QED
    BY <1>5, <1>6, <1>7, <1>8 DEF IInv

\* A request that arrives and has passed the first guards.
LEMMA AcceptStep ==
    ASSUME IInv, NEW h \in Handlers, Free(h), NEW by \in alive, NEW step \in Step,
           NEW r \in Request, Accept(h, by, step, r),
           step \notin Deleting, step # "grant", step # "own"
    PROVE  IInv'
  <1> DEFINE q == [r EXCEPT !.step = step, !.by = by, !.had = rights[by]]
  <1>1. TypeOK /\ IdInv
    BY DEF IInv
  <1>2. by \in Keys /\ rights[by] \in SUBSET Right /\ by \notin freshKeys
    BY <1>1 DEF TypeOK, IdInv
  <1>3. q \in Request /\ q.step = step /\ q.by = by
    BY <1>2 DEF Request
  <1>4. Becomes(h, q) /\ UNCHANGED <<tree, resources, grants>>
    BY DEF Accept
  <1>5. requests' \in 0..MaxRequests
    BY <1>1, ApiKeysAssumption DEF Accept, Free, TypeOK
  <1> HIDE DEF q
  <1>6. Cleared(q) /\ Entitled(q)
    BY <1>3 DEF Cleared, Entitled, Deleting
  <1> QED
    BY <1>2, <1>3, <1>4, <1>5, <1>6, RequestStep

LEMMA DeleteKeyStep ==
    ASSUME IInv, NEW h \in Handlers, Free(h), NEW by \in alive, NEW on \in Keys,
           DeleteKey(h, by, on)
    PROVE  IInv'
  <1> DEFINE r == [Idle EXCEPT !.on = on, !.found = {on}, !.frontier = {on}]
             q == [r EXCEPT !.step = "walk", !.by = by, !.had = rights[by]]
  <1>1. TypeOK /\ IdInv
    BY DEF IInv
  <1>2. by \in Keys /\ rights[by] \in SUBSET Right /\ by \notin freshKeys
        /\ on \notin freshKeys /\ on # Master
    BY <1>1 DEF TypeOK, IdInv, DeleteKey
  <1>3. "walk" \in Step
    BY DEF Step, Deleting
  <1>4. /\ q \in Request /\ q.step = "walk" /\ q.by = by /\ q.on = on
        /\ q.found = {on} /\ q.frontier = {on}
    BY <1>2, <1>3, IdleFacts DEF Request
  <1>5. Becomes(h, q) /\ UNCHANGED <<tree, resources, grants>>
    BY DEF Accept, DeleteKey
  <1>6. requests' \in 0..MaxRequests
    BY <1>1, ApiKeysAssumption DEF Accept, DeleteKey, Free, TypeOK
  <1>7. by = Master \/ parent[on] = by
    BY DEF DeleteKey, CanAdminister
  <1> HIDE DEF q, r
  <1>8. Collected(q) /\ Closed(q)
    BY <1>2, <1>4, <1>7, SubtreeClosed DEF Collected, Closed
  <1>9. Cleared(q) /\ Entitled(q) /\ q.step \notin Creating
    BY <1>4 DEF Cleared, Entitled, Creating
  <1> QED
    BY <1>2, <1>4, <1>5, <1>6, <1>8, <1>9, RequestStep

LEMMA ArriveStep ==
    ASSUME IInv, NEW h \in Handlers, Arrive(h)
    PROVE  IInv'
  <1>1. Free(h)
    BY DEF Arrive
  <1>2. PICK by \in alive :
        \/ \E wanted \in Payloads : PostKey(h, by, wanted)
        \/ \E on \in Keys, patch \in Patches : PatchKey(h, by, on, patch)
        \/ \E on \in Keys : DeleteKey(h, by, on)
        \/ \E on \in Keys, r \in Resources, verbs \in Grants :
              PutPermission(h, by, on, r, verbs)
        \/ \E on \in Keys, r \in Resources : DeletePermission(h, by, on, r)
        \/ \E r \in Resources : PostResource(h, by, r) \/ DeleteResource(h, by, r)
    BY DEF Arrive
  <1>3. \A s \in {"insert_key", "update_key", "check_grant", "check_revoke",
                  "insert_resource", "delete_resource"} :
            s \in Step /\ s \notin Deleting /\ s # "grant" /\ s # "own"
    BY DEF Step, Creating, Deleting
  <1>4. ASSUME NEW wanted \in Payloads, PostKey(h, by, wanted) PROVE IInv'
    <2>1. [Idle EXCEPT !.add = wanted] \in Request
      BY IdleFacts, ApiKeysAssumption DEF Request
    <2> QED
      BY <1>1, <1>3, <1>4, <2>1, AcceptStep DEF PostKey
  <1>5. ASSUME NEW on \in Keys, NEW patch \in Patches, PatchKey(h, by, on, patch)
        PROVE  IInv'
    <2>1. patch.add \in SUBSET Right /\ patch.drop \in SUBSET Right
      BY ApiKeysAssumption
    <2>2. [Idle EXCEPT !.on = on, !.add = patch.add, !.drop = patch.drop] \in Request
      BY <2>1, IdleFacts DEF Request
    <2> QED
      BY <1>1, <1>3, <1>5, <2>2, AcceptStep DEF PatchKey
  <1>6. ASSUME NEW on \in Keys, NEW r \in Resources, NEW verbs \in Grants,
               PutPermission(h, by, on, r, verbs)
        PROVE  IInv'
    <2>1. [Idle EXCEPT !.on = on, !.res = r, !.verbs = verbs] \in Request
      BY IdleFacts, ApiKeysAssumption DEF Request
    <2> QED
      BY <1>1, <1>3, <1>6, <2>1, AcceptStep DEF PutPermission
  <1>7. ASSUME NEW on \in Keys, NEW r \in Resources, DeletePermission(h, by, on, r)
        PROVE  IInv'
    <2>1. [Idle EXCEPT !.on = on, !.res = r] \in Request
      BY IdleFacts DEF Request
    <2> QED
      BY <1>1, <1>3, <1>7, <2>1, AcceptStep DEF DeletePermission
  <1>8. ASSUME NEW r \in Resources, PostResource(h, by, r) \/ DeleteResource(h, by, r)
        PROVE  IInv'
    <2>1. [Idle EXCEPT !.res = r] \in Request
      BY IdleFacts DEF Request
    <2>2. CASE PostResource(h, by, r)
      BY <1>1, <1>3, <2>1, <2>2, AcceptStep DEF PostResource
    <2>3. CASE DeleteResource(h, by, r)
      BY <1>1, <1>3, <2>1, <2>3, AcceptStep DEF DeleteResource
    <2> QED
      BY <1>8, <2>2, <2>3
  <1> QED
    BY <1>1, <1>2, <1>4, <1>5, <1>6, <1>7, <1>8, DeleteKeyStep

-----------------------------------------------------------------------------
(* Steps that read. *)

LEMMA NextStep ==
    ASSUME NEW r \in Request, NEW s \in Step
    PROVE  LET q == [r EXCEPT !.step = s] IN
           /\ q \in Request /\ q.step = s /\ q.by = r.by /\ q.had = r.had
           /\ q.on = r.on /\ q.res = r.res /\ q.verbs = r.verbs
           /\ q.found = r.found /\ q.frontier = r.frontier
  BY DEF Request

LEMMA WalkStep ==
    ASSUME IInv, NEW h \in Handlers, Walk(h)
    PROVE  IInv'
  <1> DEFINE r == req[h]
             level == Daughters(r.frontier)
             deeper == [r EXCEPT !.found = r.found \cup level, !.frontier = level]
             done == [r EXCEPT !.step = "vaults"]
  <1>1. TypeOK /\ IdInv /\ WalkInv
    BY DEF IInv
  <1>2. r \in Request /\ r.by \notin freshKeys /\ r.step = "walk"
    BY <1>1 DEF TypeOK, IdInv, Walk
  <1>3. "vaults" \in Step /\ "walk" \in Deleting /\ "vaults" \in Deleting
        /\ "walk" \notin Creating /\ "vaults" \notin Creating
    BY DEF Step, Creating, Deleting
  <1>4. Collected(r) /\ (overlap \/ Closed(r))
    BY <1>1, <1>2, <1>3 DEF WalkInv
  <1>5. UNCHANGED <<tree, resources, grants, requests>>
        /\ Becomes(h, IF r.frontier = {} THEN done ELSE deeper)
    BY DEF Walk
  <1>6. requests' \in 0..MaxRequests
    BY <1>1, <1>5 DEF TypeOK
  <1>7. level \in SUBSET Keys /\ level \subseteq alive
        /\ \A k \in alive : parent[k] \in r.frontier <=> k \in level
    BY <1>1 DEF Daughters, TypeOK
  <1>8. /\ deeper \in Request /\ deeper.step = "walk" /\ deeper.by = r.by
        /\ deeper.on = r.on /\ deeper.found = r.found \cup level
        /\ deeper.frontier = level
    BY <1>2, <1>7 DEF Request
  <1>9. /\ done \in Request /\ done.step = "vaults" /\ done.by = r.by
        /\ done.on = r.on /\ done.found = r.found /\ done.frontier = r.frontier
    BY <1>2, <1>3, NextStep
  <1> HIDE DEF level, deeper, done
  <1>10. CASE r.frontier = {}
    <2>1. Becomes(h, done)
      BY <1>5, <1>10
    <2>2. Collected(done) /\ (overlap \/ Closed(done))
      BY <1>4, <1>9, <1>10 DEF Collected, Closed
    <2>3. Cleared(done) /\ Entitled(done)
      BY <1>9 DEF Cleared, Entitled
    <2>4. overlap => overlap'
      BY <1>1, <1>9, <2>1, BecomesFacts
    <2> QED
      BY <1>2, <1>3, <1>5, <1>6, <1>9, <2>1, <2>2, <2>3, <2>4, RequestStep
  <1>11. CASE r.frontier # {}
    <2>1. Becomes(h, deeper)
      BY <1>5, <1>11
    <2>2. Collected(deeper)
      <3>1. level \cap freshKeys = {}
        BY <1>1, <1>7 DEF IdInv
      <3>2. \A k \in level : parent[k] \in r.found
        BY <1>4, <1>7 DEF Collected
      <3>3. level \subseteq Subtree(r.on)
        <4>1. r.on \in Keys /\ r.found \subseteq Subtree(r.on)
          BY <1>2, <1>4, RequestTypes DEF Collected
        <4> QED
          BY <1>7, <3>1, <3>2, <4>1, SubtreeClosed
      <3> QED
        BY <1>4, <1>8, <3>1, <3>2, <3>3 DEF Collected
    <2>3. overlap \/ Closed(deeper)
      BY <1>4, <1>7, <1>8 DEF Closed
    <2>4. Cleared(deeper) /\ Entitled(deeper)
      BY <1>8 DEF Cleared, Entitled
    <2>5. overlap => overlap'
      BY <1>1, <1>8, <2>1, BecomesFacts
    <2> QED
      BY <1>2, <1>3, <1>5, <1>6, <1>8, <2>1, <2>2, <2>3, <2>4, <2>5, RequestStep
  <1> QED
    BY <1>10, <1>11

LEMMA ReadTableStep ==
    ASSUME IInv, NEW h \in Handlers, NEW table, NEW step, NEW next,
           ReadTable(h, table, step, next),
           \/ table = Vaults /\ step = "vaults" /\ next = "groups"
           \/ table = Groups /\ step = "groups" /\ next = "tasks"
           \/ table = Tasks /\ step = "tasks" /\ next = "delete_keys"
    PROVE  IInv'
  <1> DEFINE r == req[h]
  <1>1. TypeOK /\ IdInv /\ WalkInv /\ InventoryInv
    BY DEF IInv
  <1>2. r \in Request /\ r.by \notin freshKeys
    BY <1>1 DEF TypeOK, IdInv
  <1>3. \A s \in {"vaults", "groups", "tasks", "delete_keys"} :
            s \in Step /\ s \in Deleting /\ s \notin Creating
    BY DEF Step, Creating, Deleting
  <1>4. step \in {"vaults", "groups", "tasks"} /\ next \in {"groups", "tasks", "delete_keys"}
    OBVIOUS
  <1> DEFINE q == [r EXCEPT !.step = next]
  <1>5. r.step = step /\ UNCHANGED <<tree, resources, grants, requests>>
    BY DEF ReadTable
  <1>6. requests' \in 0..MaxRequests
    BY <1>1, <1>5 DEF TypeOK
  <1>7. CASE Inventory(table, r.found) = {}
    <2>1. /\ q \in Request /\ q.step = next /\ q.by = r.by /\ q.on = r.on
          /\ q.found = r.found /\ q.frontier = r.frontier
      BY <1>2, <1>3, <1>4, NextStep
    <2>2. Becomes(h, q)
      BY <1>7 DEF ReadTable
    <2> HIDE DEF q
    <2>3. overlap => overlap'
      BY <1>1, <2>1, <2>2, BecomesFacts
    <2>4. Collected(r) /\ (overlap \/ Closed(r)) /\ (overlap \/ Cleared(r))
      BY <1>1, <1>3, <1>4, <1>5 DEF WalkInv, InventoryInv
    <2>5. Collected(q) /\ (overlap \/ Closed(q))
      BY <1>4, <1>5, <2>1, <2>4 DEF Collected, Closed
    <2>6. overlap \/ Cleared(q)
      BY <1>4, <1>5, <1>7, <2>1, <2>4 DEF Cleared
    <2>7. Entitled(q)
      BY <1>4, <2>1 DEF Entitled
    <2> QED
      BY <1>2, <1>3, <1>4, <1>5, <1>6, <2>1, <2>2, <2>3, <2>5, <2>6, <2>7, RequestStep
  <1>8. CASE Inventory(table, r.found) # {}
    <2>1. Becomes(h, Idle)
      BY <1>8 DEF ReadTable
    <2> QED
      BY <1>5, <1>6, <2>1, EndStep
  <1> QED
    BY <1>7, <1>8

LEMMA ReadInventoryStep ==
    ASSUME IInv, NEW h \in Handlers, ReadInventory(h)
    PROVE  IInv'
  BY ReadTableStep DEF ReadInventory

LEMMA CheckStep ==
    ASSUME IInv, NEW h \in Handlers, CheckGrant(h) \/ CheckRevoke(h)
    PROVE  IInv'
  <1> DEFINE r == req[h]
             granting == [r EXCEPT !.step = "grant"]
             revoking == [r EXCEPT !.step = "revoke"]
  <1>1. TypeOK /\ IdInv
    BY DEF IInv
  <1>2. r \in Request /\ r.by \notin freshKeys /\ r.by \in Keys /\ r.res \in Resources
    BY <1>1, RequestTypes DEF TypeOK, IdInv
  <1>3. "grant" \in Step /\ "revoke" \in Step
        /\ {"grant", "revoke"} \cap (Creating \cup Deleting) = {}
    BY DEF Step, Creating, Deleting
  <1>4. UNCHANGED <<tree, resources, grants, requests>>
    BY DEF CheckGrant, CheckRevoke
  <1>5. requests' \in 0..MaxRequests
    BY <1>1, <1>4 DEF TypeOK
  <1>6. CASE Becomes(h, Idle)
    BY <1>4, <1>5, <1>6, EndStep
  <1>7. CASE CheckGrant(h) /\ GuardDelegatedGrant(r.by, r.had, r.res, r.verbs)
    <2>1. Becomes(h, granting)
      BY <1>7 DEF CheckGrant
    <2>2. /\ granting \in Request /\ granting.step = "grant"
          /\ granting.by = r.by /\ granting.res = r.res /\ granting.verbs = r.verbs
      BY <1>2, <1>3, NextStep
    <2> HIDE DEF granting
    <2>3. r.by = Master \/ r.verbs \cup {"can_manage"} \subseteq Verbs(r.by, r.res)
      BY <1>7 DEF GuardDelegatedGrant, GuardResourceManage
    <2>4. Entitled(granting)
      BY <1>1, <1>2, <2>2, <2>3 DEF Entitled, IdInv
    <2>5. Cleared(granting)
      BY <2>2 DEF Cleared
    <2> QED
      BY <1>2, <1>3, <1>4, <1>5, <2>1, <2>2, <2>4, <2>5, RequestStep
  <1>8. CASE CheckRevoke(h) /\ GuardResourceManage(r.by, r.had, r.res)
    <2>1. Becomes(h, revoking)
      BY <1>8 DEF CheckRevoke
    <2>2. revoking \in Request /\ revoking.step = "revoke" /\ revoking.by = r.by
      BY <1>2, <1>3, NextStep
    <2> HIDE DEF revoking
    <2>3. Entitled(revoking) /\ Cleared(revoking)
      BY <2>2 DEF Entitled, Cleared
    <2> QED
      BY <1>2, <1>3, <1>4, <1>5, <2>1, <2>2, <2>3, RequestStep
  <1> QED
    BY <1>6, <1>7, <1>8 DEF CheckGrant, CheckRevoke

LEMMA DropStep ==
    ASSUME IInv, NEW h \in Handlers, Drop(h)
    PROVE  IInv'
  <1>1. Becomes(h, Idle) /\ UNCHANGED <<tree, resources, grants>> /\ requests' = requests
    BY DEF Drop, Ends
  <1>2. requests' \in 0..MaxRequests
    BY <1>1 DEF IInv, TypeOK
  <1> QED
    BY <1>1, <1>2, EndStep

-----------------------------------------------------------------------------
(* Steps that write. *)

\* A last step that neither creates nor deletes a key or adds a resource.
LEMMA WriteStep ==
    ASSUME IInv, NEW h \in Handlers, Ends(h), UNCHANGED <<alive, freshKeys, parent, owner>>,
           rights' \in [Keys -> SUBSET Right],
           existing' \subseteq existing, freshRes' = freshRes,
           perm' \in [Keys -> [Resources -> Row]],
           held' \in SUBSET (Keys \X Resources \X Verb), held \subseteq held',
           \A k \in Keys, r \in Resources : \A v \in Verbs(k, r)' : <<k, r, v>> \in held'
    PROVE  IInv'
  <1>1. Becomes(h, Idle) /\ requests' = requests
    BY DEF Ends
  <1>2. TypeOK /\ IdInv
    BY DEF IInv
  <1>3. req' \in [Handlers -> Request] /\ overlap' \in BOOLEAN
    BY <1>1, <1>2, IdleFacts, BecomesFacts
  <1>4. TypeOK'
    BY <1>1, <1>2, <1>3 DEF TypeOK
  <1>5. Idle.by \notin freshKeys /\ Cleared(Idle) /\ Entitled(Idle)
    BY <1>2, IdleFacts DEF IdInv, Cleared, Entitled
  <1>6. IdInv'
    BY <1>1, <1>5, IdleFacts, IdKept
  <1>7. WalkInv' /\ InventoryInv' /\ GrantInv' /\ CreatorInv' /\ OwnInv'
    BY <1>1, <1>5, IdleFacts, SubtreeSame, WalkKept, InventoryKept, GrantKept, CreatorKept,
       OwnKept
  <1>8. CascadeComplete'
    BY <1>1, IdleFacts, CascadeKept
  <1> QED
    BY <1>4, <1>6, <1>7, <1>8 DEF IInv

LEMMA PutFacts ==
    ASSUME IInv, NEW k \in Keys, NEW r \in Resources, NEW verbs \in SUBSET Verb,
           Put(k, r, verbs)
    PROVE  /\ perm' \in [Keys -> [Resources -> Row]]
           /\ held' \in SUBSET (Keys \X Resources \X Verb) /\ held \subseteq held'
           /\ \A x \in Keys, y \in Resources : \A v \in Verbs(x, y)' : <<x, y, v>> \in held'
  <1>1. TypeOK /\ IdInv
    BY DEF IInv
  <1>2. perm' = [perm EXCEPT ![k] = [perm[k] EXCEPT ![r] = verbs]]
        /\ held' = held \cup {<<k, r, v>> : v \in verbs}
    BY DEF Put
  <1>3. verbs \in Row
    BY DEF Row
  <1>4. perm' \in [Keys -> [Resources -> Row]]
    BY <1>1, <1>2, <1>3 DEF TypeOK
  <1>5. held' \in SUBSET (Keys \X Resources \X Verb) /\ held \subseteq held'
    BY <1>1, <1>2 DEF TypeOK
  <1>6. ASSUME NEW x \in Keys, NEW y \in Resources, NEW v \in Verbs(x, y)'
        PROVE  <<x, y, v>> \in held'
    <2>1. CASE x = k /\ y = r
      BY <1>1, <1>2, <1>6, <2>1 DEF Verbs, TypeOK
    <2>2. CASE ~(x = k /\ y = r)
      <3>1. perm'[x][y] = perm[x][y]
        BY <1>1, <1>2, <2>2 DEF TypeOK
      <3> QED
        BY <1>1, <1>5, <1>6, <3>1 DEF Verbs, IdInv
    <2> QED
      BY <2>1, <2>2
  <1> QED
    BY <1>4, <1>5, <1>6

LEMMA UpdateKeyStep ==
    ASSUME IInv, NEW h \in Handlers, UpdateKey(h)
    PROVE  IInv'
  <1>1. TypeOK /\ IdInv
    BY DEF IInv
  <1>2. req[h].on \in Keys /\ req[h].add \in SUBSET Right
    BY <1>1, RequestTypes DEF TypeOK
  <1>3. rights' \in [Keys -> SUBSET Right]
    BY <1>1, <1>2 DEF UpdateKey, TypeOK
  <1>4. Ends(h) /\ UNCHANGED <<alive, freshKeys, parent, owner, existing, freshRes, perm, held>>
    BY DEF UpdateKey, resources, grants
  <1>5. \A k \in Keys, r \in Resources : \A v \in Verbs(k, r)' : <<k, r, v>> \in held'
    BY <1>1, <1>4 DEF IdInv, Verbs
  <1> QED
    BY <1>1, <1>3, <1>4, <1>5, WriteStep DEF TypeOK

LEMMA PermissionStep ==
    ASSUME IInv, NEW h \in Handlers, Grant(h) \/ Own(h) \/ Revoke(h)
    PROVE  IInv'
  <1>1. TypeOK /\ IdInv
    BY DEF IInv
  <1>2. /\ req[h].on \in Keys /\ req[h].by \in Keys /\ req[h].res \in Resources
        /\ req[h].verbs \in SUBSET Verb
    BY <1>1, RequestTypes DEF TypeOK
  <1>3. Ends(h) /\ UNCHANGED <<alive, freshKeys, rights, parent, owner, existing, freshRes>>
    BY DEF Grant, Own, Revoke, tree, resources
  <1>4. rights' \in [Keys -> SUBSET Right] /\ NoRow \in Row
    BY <1>1, <1>3 DEF TypeOK, Row
  <1>5. CASE \E k \in Keys, verbs \in SUBSET Verb : Put(k, req[h].res, verbs)
    BY <1>2, <1>3, <1>4, <1>5, PutFacts, WriteStep
  <1>6. CASE perm' = perm /\ held' = held
    <2>1. \A k \in Keys, r \in Resources : \A v \in Verbs(k, r)' : <<k, r, v>> \in held'
      BY <1>1, <1>6 DEF IdInv, Verbs
    <2> QED
      BY <1>1, <1>3, <1>4, <1>6, <2>1, WriteStep DEF TypeOK
  <1>7. CASE Revoke(h) /\ perm' # perm
    <2>1. /\ perm' = [perm EXCEPT ![req[h].on] =
                         [perm[req[h].on] EXCEPT ![req[h].res] = NoRow]]
          /\ held' = held
      BY <1>7 DEF Revoke
    <2>2. perm' \in [Keys -> [Resources -> Row]]
      BY <1>1, <1>2, <1>4, <2>1 DEF TypeOK
    <2>3. \A k \in Keys, r \in Resources : perm'[k][r] = perm[k][r] \/ perm'[k][r] = NoRow
      BY <1>1, <1>2, <2>1 DEF TypeOK
    <2>4. \A k \in Keys, r \in Resources : \A v \in Verbs(k, r)' : <<k, r, v>> \in held'
      BY <1>1, <2>1, <2>3 DEF IdInv, Verbs
    <2> QED
      BY <1>1, <1>3, <1>4, <2>1, <2>2, <2>4, WriteStep DEF TypeOK
  <1> QED
    BY <1>2, <1>5, <1>6, <1>7 DEF Grant, Own, Revoke, grants

LEMMA RemoveResourceStep ==
    ASSUME IInv, NEW h \in Handlers, RemoveResource(h)
    PROVE  IInv'
  <1>1. TypeOK /\ IdInv
    BY DEF IInv
  <1>2. Ends(h) /\ UNCHANGED <<alive, freshKeys, rights, parent, owner, freshRes, perm, held>>
        /\ existing' \subseteq existing
    BY DEF RemoveResource, tree, grants
  <1>3. \A k \in Keys, r \in Resources : \A v \in Verbs(k, r)' : <<k, r, v>> \in held'
    BY <1>1, <1>2 DEF IdInv, Verbs
  <1> QED
    BY <1>1, <1>2, <1>3, WriteStep DEF TypeOK

\* While none has met a deletion, a creation in flight acts for a key that is
\* there and that no deletion has collected.
LEMMA CreatorSpared ==
    ASSUME IInv, ~overlap, NEW h \in Handlers, req[h].step \in Creating
    PROVE  /\ \A g \in Handlers : req[g].step \in Deleting => req[h].by \notin req[g].found
           /\ req[h].by \in alive
  <1>1. \A g \in Handlers :
            req[g].step \in Deleting => req[g].found \subseteq Subtree(req[g].on)
    BY DEF IInv, WalkInv, Collected
  <1> QED
    BY <1>1 DEF IInv, CreatorInv, Overlaps

LEMMA InsertStep ==
    ASSUME IInv, NEW h \in Handlers, NEW q \in Request, Becomes(h, q),
           q.step \in {"idle", "own"}, q.by \notin freshKeys,
           (q.by = req[h].by /\ q.res = req[h].res) \/ q.step = "idle",
           req[h].step = "insert_resource", req[h].res \in freshRes, Insert(h), UNCHANGED <<tree, requests>>,
           perm' \in [Keys -> [Resources -> Row]],
           held' \in SUBSET (Keys \X Resources \X Verb), held \subseteq held',
           \A k \in Keys, r \in Resources : \A v \in Verbs(k, r)' : <<k, r, v>> \in held'
    PROVE  IInv'
  <1>1. TypeOK /\ IdInv /\ InventoryInv /\ OwnInv /\ CascadeComplete
    BY DEF IInv
  <1>2. /\ req' \in [Handlers -> Request] /\ req'[h] = q /\ overlap' \in BOOLEAN
        /\ \A g \in Handlers : g # h => req'[g] = req[g]
        /\ overlap => overlap'
    BY <1>1, BecomesFacts
  <1>3. alive' = alive /\ freshKeys' = freshKeys /\ rights' = rights /\ parent' = parent
        /\ requests' = requests
    BY DEF tree
  <1>4. /\ existing' = existing \cup {req[h].res} /\ freshRes' = freshRes \ {req[h].res}
        /\ owner' = [owner EXCEPT ![req[h].res] = req[h].by]
        /\ req[h].res \in Resources /\ req[h].by \in Keys
    BY <1>1, RequestTypes DEF Insert, TypeOK
  <1>5. TypeOK'
    BY <1>1, <1>2, <1>3, <1>4 DEF TypeOK
  <1>6. q.step \notin Creating /\ q.step \notin Deleting /\ Entitled(q)
        /\ "insert_resource" \in Creating
    BY DEF Creating, Deleting, Entitled
  <1>7. IdInv' /\ WalkInv' /\ GrantInv' /\ CreatorInv'
    BY <1>3, <1>6, SubtreeSame, IdKept, WalkKept, GrantKept, CreatorKept
  <1>8. ASSUME ~overlap'
        PROVE  /\ req[h].by \in alive
               /\ \A g \in Handlers : req[g].step \in Deleting => req[h].by \notin req[g].found
    BY <1>2, <1>6, <1>8, CreatorSpared
  <1>9. InventoryInv'
    <2>1. SUFFICES ASSUME NEW g \in Handlers, ~overlap' PROVE Cleared(req[g])'
      BY DEF InventoryInv
    <2>2. SUFFICES ASSUME req'[g].step \in {"groups", "tasks", "delete_keys"}
                   PROVE  Cleared(req[g])'
      BY DEF Cleared
    <2>3. req'[g] = req[g] /\ req[g].step \in Deleting
      BY <1>2, <1>6, <2>2 DEF Deleting
    <2>4. Cleared(req[g]) /\ req[h].by \notin req[g].found
      BY <1>1, <1>2, <1>8, <2>1, <2>3 DEF InventoryInv
    <2>5. \A table \in {Vaults, Groups, Tasks} : Inventory(table, req[g].found) = {}
              => {r \in table \cap existing' : owner'[r] \in req[g].found} = {}
      BY <1>1, <1>4, <2>4 DEF Inventory, TypeOK
    <2> QED
      BY <2>3, <2>4, <2>5 DEF Cleared, Inventory
  <1>10. CascadeComplete'
    BY <1>1, <1>2, <1>3, <1>4, <1>8 DEF CascadeComplete, TypeOK
  <1>11. OwnInv'
    <2>1. SUFFICES ASSUME NEW g \in Handlers, req'[g].step = "own"
                   PROVE  req'[g].res \notin freshRes' /\ owner'[req'[g].res] = req'[g].by
      BY DEF OwnInv
    <2>2. req'[g].res \in Resources
      BY <1>2, RequestTypes
    <2>3. CASE g = h
      BY <1>1, <1>2, <1>4, <2>1, <2>3 DEF TypeOK
    <2>4. CASE g # h
      BY <1>1, <1>2, <1>4, <2>1, <2>2, <2>4 DEF OwnInv, TypeOK
    <2> QED
      BY <2>3, <2>4
  <1> QED
    BY <1>5, <1>7, <1>9, <1>10, <1>11 DEF IInv

LEMMA InsertResourceStep ==
    ASSUME IInv, NEW h \in Handlers, InsertInTransaction(h) \/ InsertVault(h)
    PROVE  IInv'
  <1>1. TypeOK /\ IdInv
    BY DEF IInv
  <1>2. req[h] \in Request /\ req[h].by \in Keys /\ req[h].res \in Resources
        /\ req[h].by \notin freshKeys
    BY <1>1, RequestTypes DEF TypeOK, IdInv
  <1>3. CASE InsertInTransaction(h)
    <2>1. /\ req[h].step = "insert_resource" /\ req[h].res \in freshRes
          /\ Insert(h) /\ UNCHANGED <<tree, requests>>
          /\ Put(req[h].by, req[h].res, Verb) /\ Becomes(h, Idle)
      BY <1>3 DEF InsertInTransaction, Ends
    <2>2. Idle.by \notin freshKeys
      BY <1>1, IdleFacts DEF IdInv
    <2>3. /\ perm' \in [Keys -> [Resources -> Row]]
          /\ held' \in SUBSET (Keys \X Resources \X Verb) /\ held \subseteq held'
          /\ \A x \in Keys, y \in Resources : \A v \in Verbs(x, y)' : <<x, y, v>> \in held'
      BY <1>2, <2>1, PutFacts
    <2> QED
      BY <2>1, <2>2, <2>3, IdleFacts, InsertStep
  <1>4. CASE InsertVault(h)
    <2> DEFINE q == [req[h] EXCEPT !.step = "own"]
    <2>1. /\ req[h].step = "insert_resource" /\ req[h].res \in freshRes
          /\ Insert(h) /\ UNCHANGED <<tree, requests>>
          /\ Becomes(h, q) /\ perm' = perm /\ held' = held
      BY <1>4 DEF InsertVault, grants
    <2>2. q \in Request /\ q.step = "own" /\ q.by = req[h].by /\ q.res = req[h].res
      <3>1. "own" \in Step
        BY DEF Step
      <3> QED
        BY <1>2, <3>1, NextStep
    <2> HIDE DEF q
    <2>3. \A k \in Keys, r \in Resources : \A v \in Verbs(k, r)' : <<k, r, v>> \in held'
      BY <1>1, <2>1 DEF IdInv, Verbs
    <2> QED
      BY <1>1, <1>2, <2>1, <2>2, <2>3, InsertStep DEF TypeOK
  <1> QED
    BY <1>3, <1>4

LEMMA InsertKeyStep ==
    ASSUME IInv, NEW h \in Handlers, NEW k \in Keys, InsertKey(h, k)
    PROVE  IInv'
  <1>1. TypeOK /\ IdInv /\ WalkInv /\ CascadeComplete
    BY DEF IInv
  <1>2. /\ req[h].step = "insert_key" /\ k \in freshKeys
        /\ alive' = alive \cup {k} /\ freshKeys' = freshKeys \ {k}
        /\ rights' = [rights EXCEPT ![k] = req[h].add]
        /\ parent' = [parent EXCEPT ![k] = req[h].by]
        /\ Becomes(h, Idle) /\ requests' = requests
        /\ UNCHANGED <<existing, freshRes, owner, perm, held>>
    BY DEF InsertKey, Ends, resources, grants
  <1>3. req[h].by \in Keys /\ req[h].add \in SUBSET Right
    BY <1>1, RequestTypes DEF TypeOK
  <1>4. /\ req' \in [Handlers -> Request] /\ req'[h] = Idle /\ overlap' \in BOOLEAN
        /\ \A g \in Handlers : g # h => req'[g] = req[g]
        /\ overlap => overlap'
    BY <1>1, <1>2, IdleFacts, BecomesFacts
  <1>5. TypeOK'
    BY <1>1, <1>2, <1>3, <1>4 DEF TypeOK
  <1>6. k # Master /\ k \notin alive
        /\ \A x \in Keys : x # k => parent'[x] = parent[x]
    BY <1>1, <1>2 DEF IdInv, TypeOK
  <1>7. IdInv'
    <2>1. \A g \in Handlers : req'[g].by \notin freshKeys'
      BY <1>1, <1>2, <1>4, IdleFacts DEF IdInv
    <2>4. \A x \in Keys \ freshKeys' : parent'[x] \notin freshKeys'
      <3>1. parent'[k] = req[h].by
        BY <1>1, <1>2 DEF TypeOK
      <3> QED
        BY <1>1, <1>2, <1>6, <3>1 DEF IdInv
    <2>2. Master \in alive' /\ parent'[Master] = NoKey /\ alive' \cap freshKeys' = {}
      BY <1>1, <1>2, <1>6, ApiKeysAssumption DEF IdInv
    <2>3. \A x \in Keys, r \in Resources : \A v \in Verbs(x, r)' : <<x, r, v>> \in held'
      BY <1>1, <1>2 DEF IdInv, Verbs
    <2> QED
      BY <2>1, <2>2, <2>3, <2>4 DEF IdInv
  <1>8. "insert_key" \in Creating
    BY DEF Creating
  <1>9. WalkInv'
    <2>1. SUFFICES ASSUME NEW g \in Handlers, req'[g].step \in Deleting
                   PROVE  Collected(req[g])' /\ (overlap' \/ Closed(req[g])')
      BY DEF WalkInv
    <2>2. g # h
      BY <1>4, <2>1, IdleFacts
    <2>3. /\ req'[g] = req[g] /\ Collected(req[g]) /\ (overlap \/ Closed(req[g]))
          /\ req[g].found \in SUBSET Keys /\ req[g].on \in Keys
      BY <1>1, <1>4, <2>1, <2>2, RequestTypes DEF WalkInv, TypeOK
    <2>4. ASSUME ~overlap' PROVE parent'[k] \notin req[g].found
      BY <1>1, <1>2, <1>4, <1>8, <2>1, <2>3, <2>4, CreatorSpared DEF TypeOK
    <2>5. k \notin req[g].found
      BY <1>2, <2>3 DEF Collected
    <2>6. \A x \in req[g].found : parent'[x] = parent[x]
      BY <1>6, <2>3, <2>5
    <2>7. req[g].found \subseteq Subtree(req[g].on)'
      BY <1>1, <1>2, <1>3, <2>3, SubtreeGrows DEF Collected
    <2>8. overlap' \/ Closed(req[g])'
      BY <1>1, <1>2, <1>4, <1>6, <2>3, <2>4 DEF Closed, TypeOK
    <2>9. Collected(req[g])'
      BY <1>2, <2>3, <2>6, <2>7 DEF Collected
    <2> QED
      BY <2>8, <2>9
  <1>10. InventoryInv' /\ GrantInv' /\ CreatorInv' /\ OwnInv'
    <2>1. Cleared(Idle) /\ Entitled(Idle)
      BY IdleFacts DEF Cleared, Entitled
    <2>2. Idle.by \notin freshKeys
      BY <1>1, IdleFacts DEF IdInv
    <2>3. \A top \in Keys : Subtree(top)' \subseteq Subtree(top) \cup freshKeys
      BY <1>1, <1>2, <1>3, SubtreeGrows
    <2> QED
      BY <1>2, <2>1, <2>2, <2>3, IdleFacts, InventoryKept, GrantKept, CreatorKept, OwnKept
  <1>11. CascadeComplete'
    <2>1. SUFFICES ASSUME ~overlap'
                   PROVE  /\ \A x \in alive' : x = Master \/ parent'[x] \in alive'
                          /\ \A r \in existing' : owner'[r] \in alive'
      BY DEF CascadeComplete
    <2>2. req[h].by \in alive
      BY <1>2, <1>4, <1>8, <2>1, CreatorSpared
    <2>3. parent'[k] \in alive'
      BY <1>1, <1>2, <2>2 DEF TypeOK
    <2>4. \A x \in alive : x = Master \/ parent'[x] \in alive'
      BY <1>1, <1>2, <1>4, <1>6, <2>1 DEF CascadeComplete, TypeOK
    <2> QED
      BY <1>1, <1>2, <1>4, <2>1, <2>3, <2>4 DEF CascadeComplete
  <1> QED
    BY <1>5, <1>7, <1>9, <1>10, <1>11 DEF IInv

\* The root of the tree is in no subtree that a walk collects.
LEMMA MasterStays ==
    ASSUME IInv, NEW h \in Handlers, req[h].step \in Deleting
    PROVE  Master \notin req[h].found
  <1>1. Collected(req[h]) /\ parent[Master] = NoKey /\ req[h].found \in SUBSET Keys
    BY RequestTypes DEF IInv, WalkInv, IdInv, TypeOK
  <1> QED
    BY <1>1, ApiKeysAssumption DEF Collected

LEMMA DeleteKeysStep ==
    ASSUME IInv, NEW h \in Handlers, DeleteKeys(h)
    PROVE  IInv'
  <1> DEFINE found == req[h].found
  <1>1. TypeOK /\ IdInv /\ WalkInv /\ InventoryInv /\ CreatorInv /\ CascadeComplete
    BY DEF IInv
  <1>2. /\ req[h].step = "delete_keys" /\ alive' = alive \ found
        /\ perm' = [k \in Keys |-> IF k \in found
                                   THEN [r \in Resources |-> NoRow] ELSE perm[k]]
        /\ Becomes(h, Idle) /\ requests' = requests
        /\ UNCHANGED <<freshKeys, rights, parent, existing, freshRes, owner, held>>
    BY DEF DeleteKeys, Ends, resources
  <1>3. "delete_keys" \in Deleting
    BY DEF Deleting
  <1>4. /\ req' \in [Handlers -> Request] /\ req'[h] = Idle /\ overlap' \in BOOLEAN
        /\ \A g \in Handlers : g # h => req'[g] = req[g]
        /\ overlap => overlap'
        /\ overlap' \/ ~Overlaps(req')
    BY <1>1, <1>2, IdleFacts, BecomesFacts
  <1>5. Master \notin found
    BY <1>2, <1>3, MasterStays
  <1>6. TypeOK'
    <2>1. perm' \in [Keys -> [Resources -> Row]]
      BY <1>1, <1>2 DEF TypeOK, Row
    <2>2. alive' \in SUBSET Keys
      BY <1>1, <1>2 DEF TypeOK
    <2> QED
      BY <1>1, <1>2, <1>4, <2>1, <2>2 DEF TypeOK
  <1>7. IdInv'
    <2>1. \A k \in Keys, r \in Resources : perm'[k][r] = perm[k][r] \/ perm'[k][r] = NoRow
      BY <1>2
    <2>2. \A k \in Keys, r \in Resources : \A v \in Verbs(k, r)' : <<k, r, v>> \in held'
      BY <1>1, <1>2, <2>1 DEF IdInv, Verbs
    <2>3. \A g \in Handlers : req'[g].by \notin freshKeys'
      BY <1>1, <1>2, <1>4, IdleFacts DEF IdInv
    <2> QED
      BY <1>1, <1>2, <1>5, <2>2, <2>3 DEF IdInv
  <1>8. WalkInv'
    <2>1. SUFFICES ASSUME NEW g \in Handlers, req'[g].step \in Deleting
                   PROVE  Collected(req[g])' /\ (overlap' \/ Closed(req[g])')
      BY DEF WalkInv
    <2>2. req'[g] = req[g]
      BY <1>4, <2>1, IdleFacts
    <2>3. \A top : Subtree(top)' = Subtree(top)
      BY <1>2, SubtreeSame
    <2> QED
      BY <1>1, <1>2, <1>4, <2>1, <2>2, <2>3 DEF WalkInv, Collected, Closed
  <1>9. InventoryInv' /\ GrantInv' /\ OwnInv'
    <2>1. Cleared(Idle) /\ Entitled(Idle)
      BY IdleFacts DEF Cleared, Entitled
    <2> QED
      BY <1>2, <2>1, IdleFacts, InventoryKept, GrantKept, OwnKept
  <1>10. CreatorInv'
    <2>1. ASSUME NEW g \in Handlers, req'[g].step \in Creating, ~overlap'
          PROVE  req'[g].by \in alive'
      <3>1. req'[g] = req[g]
        BY <1>4, <2>1, IdleFacts
      <3>2. req[g].by \in alive /\ req[g].by \notin found
        BY <1>2, <1>3, <1>4, <2>1, <3>1, CreatorSpared
      <3> QED
        BY <1>2, <3>1, <3>2
    <2>2. Overlaps(req)' = Overlaps(req')
      <3>1. \A top : Subtree(top)' = Subtree(top)
        BY <1>2, SubtreeSame
      <3> QED
        BY <3>1 DEF Overlaps
    <2> QED
      BY <1>4, <2>1, <2>2 DEF CreatorInv
  <1>11. CascadeComplete'
    <2>1. SUFFICES ASSUME ~overlap'
                   PROVE  /\ \A k \in alive' : k = Master \/ parent'[k] \in alive'
                          /\ \A r \in existing' : owner'[r] \in alive'
      BY DEF CascadeComplete
    <2>2. /\ Collected(req[h]) /\ Closed(req[h]) /\ Cleared(req[h])
          /\ \A k \in alive : k = Master \/ parent[k] \in alive
          /\ \A r \in existing : owner[r] \in alive
      BY <1>1, <1>2, <1>3, <1>4, <2>1 DEF WalkInv, InventoryInv, CascadeComplete
    <2>3. \A k \in alive : parent[k] \in found => k \in found
      BY <1>2, <2>2 DEF Collected, Closed
    <2>4. \A r \in existing : owner[r] \notin found
      BY <1>1, <1>2, <2>2 DEF Cleared, Inventory, TypeOK, Resources
    <2> QED
      BY <1>2, <2>2, <2>3, <2>4
  <1> QED
    BY <1>6, <1>7, <1>8, <1>9, <1>10, <1>11 DEF IInv

-----------------------------------------------------------------------------
(* Theorems. *)

LEMMA StepInv ==
    IInv /\ [Next]_vars => IInv'
  <1> SUFFICES ASSUME IInv, [Next]_vars PROVE IInv'
    OBVIOUS
  <1>1. CASE UNCHANGED vars
    <2>1. \A top : Subtree(top)' = Subtree(top)
      BY <1>1, SubtreeSame DEF vars
    <2>2. TypeOK' /\ IdInv'
      BY <1>1 DEF vars, IInv, TypeOK, IdInv, Verbs
    <2>3. WalkInv'
      BY <1>1, <2>1 DEF vars, IInv, WalkInv, Collected, Closed
    <2>4. CreatorInv'
      BY <1>1, <2>1 DEF vars, IInv, CreatorInv, Overlaps
    <2>5. InventoryInv' /\ GrantInv' /\ OwnInv' /\ CascadeComplete'
      BY <1>1 DEF vars, IInv, InventoryInv, Cleared, Inventory, GrantInv, Entitled, OwnInv,
                  CascadeComplete
    <2> QED
      BY <2>2, <2>3, <2>4, <2>5 DEF IInv
  <1>2. ASSUME NEW h \in Handlers, Arrive(h) PROVE IInv'
    BY <1>2, ArriveStep
  <1>3. ASSUME NEW h \in Handlers, Serve(h) PROVE IInv'
    BY <1>3, InsertKeyStep, UpdateKeyStep, WalkStep, ReadInventoryStep, DeleteKeysStep,
       CheckStep, PermissionStep, InsertResourceStep, RemoveResourceStep DEF Serve
  <1>4. ASSUME NEW h \in Handlers, Drop(h) PROVE IInv'
    BY <1>4, DropStep
  <1> QED
    BY <1>1, <1>2, <1>3, <1>4 DEF Next

\* The inductive invariant of the key and permission handlers, for every set
\* of keys and resources and any number of requests in flight.
THEOREM ApiKeysInvariant == Spec => []IInv
  BY InitInv, StepInv, PTL DEF Spec

\* Deleting a key (api/keys.rs, delete_key) leaves no daughter without its
\* parent and no resource without its owner, unless it met a creation by a key
\* that it deletes: creations by all other keys do not disturb it.
THEOREM CascadeCompleteTheorem == Spec => []CascadeComplete
  <1>1. IInv => CascadeComplete
    BY DEF IInv
  <1> QED
    BY <1>1, ApiKeysInvariant, PTL

LEMMA PutGains ==
    ASSUME TypeOK, NEW x \in Keys, NEW y \in Resources, NEW verbs, Put(x, y, verbs),
           NEW k \in Keys, NEW r \in Resources, NEW v \in Verbs(k, r)' \ Verbs(k, r)
    PROVE  k = x /\ r = y /\ v \in verbs
  <1>1. perm' = [perm EXCEPT ![x] = [perm[x] EXCEPT ![y] = verbs]]
    BY DEF Put
  <1>2. k = x /\ r = y
    BY <1>1 DEF TypeOK, Verbs
  <1>3. perm'[k][r] = verbs
    BY <1>1, <1>2 DEF TypeOK
  <1> QED
    BY <1>2, <1>3 DEF Verbs

\* A step that adds no verb to any row.
LEMMA NothingGained ==
    ASSUME NEW k \in Keys, NEW r \in Resources,
           perm'[k][r] = perm[k][r] \/ perm'[k][r] = NoRow
    PROVE  Verbs(k, r)' \ Verbs(k, r) = {}
  BY DEF Verbs

LEMMA GainStep ==
    ASSUME IInv, NEW h \in Handlers, Arrive(h) \/ Serve(h) \/ Drop(h),
           NEW k \in Keys, NEW r \in Resources, NEW v \in Verbs(k, r)' \ Verbs(k, r)
    PROVE  \/ owner'[r] = k
           \/ /\ req'[h] # req[h]
              /\ \/ req[h].by = Master
                 \/ {<<req[h].by, r, v>>, <<req[h].by, r, "can_manage">>} \subseteq held
  <1>1. TypeOK /\ GrantInv /\ OwnInv
    BY DEF IInv
  <1>2. /\ req[h].on \in Keys /\ req[h].by \in Keys /\ req[h].res \in Resources
        /\ req[h].verbs \in SUBSET Verb
    BY <1>1, RequestTypes DEF TypeOK
  <1>3. ~(perm'[k][r] = perm[k][r] \/ perm'[k][r] = NoRow)
    BY NothingGained
  <1>4. CASE Grant(h)
    <2>1. Put(req[h].on, req[h].res, req[h].verbs) /\ Becomes(h, Idle)
          /\ req[h].step = "grant"
      BY <1>3, <1>4 DEF Grant, Ends, grants
    <2>2. r = req[h].res /\ v \in req[h].verbs
      BY <1>1, <1>2, <2>1, PutGains
    <2>3. req'[h] = Idle /\ req'[h] # req[h]
      BY <1>1, <2>1, IdleFacts, BecomesFacts
    <2> QED
      BY <1>1, <2>1, <2>2, <2>3 DEF GrantInv, Entitled
  <1>5. CASE Own(h)
    <2>1. Put(req[h].by, req[h].res, Verb) /\ owner' = owner /\ req[h].step = "own"
      BY <1>3, <1>5 DEF Own, grants, resources
    <2>2. k = req[h].by /\ r = req[h].res
      BY <1>1, <1>2, <2>1, PutGains
    <2> QED
      BY <1>1, <2>1, <2>2 DEF OwnInv
  <1>6. CASE InsertInTransaction(h)
    <2>1. Put(req[h].by, req[h].res, Verb)
          /\ owner' = [owner EXCEPT ![req[h].res] = req[h].by]
      BY <1>6 DEF InsertInTransaction, Insert
    <2>2. k = req[h].by /\ r = req[h].res
      BY <1>1, <1>2, <2>1, PutGains
    <2> QED
      BY <1>1, <2>1, <2>2 DEF TypeOK
  <1>7. CASE Revoke(h)
    <2>1. \/ perm' = [perm EXCEPT ![req[h].on] =
                         [perm[req[h].on] EXCEPT ![req[h].res] = NoRow]]
          \/ perm' = perm
      BY <1>7 DEF Revoke
    <2>2. perm[req[h].on] \in [Resources -> Row] /\ perm \in [Keys -> [Resources -> Row]]
      BY <1>1, <1>2 DEF TypeOK
    <2> QED
      BY <1>2, <1>3, <2>1, <2>2
  <1>8. CASE DeleteKeys(h)
    BY <1>3, <1>8 DEF DeleteKeys
  <1>9. CASE Arrive(h) \/ Drop(h)
    BY <1>3, <1>9 DEF Arrive, Drop, PostKey, PatchKey, DeleteKey, PutPermission,
       DeletePermission, PostResource, DeleteResource, Accept, grants
  <1>10. CASE \/ \E x \in Keys : InsertKey(h, x)
              \/ UpdateKey(h) \/ Walk(h) \/ ReadInventory(h)
              \/ CheckGrant(h) \/ CheckRevoke(h) \/ InsertVault(h) \/ RemoveResource(h)
    BY <1>3, <1>10 DEF InsertKey, UpdateKey, Walk, ReadInventory, ReadTable, CheckGrant,
       CheckRevoke, InsertVault, RemoveResource, grants
  <1> QED
    BY <1>4, <1>5, <1>6, <1>7, <1>8, <1>9, <1>10 DEF Serve

\* A verb on a resource comes from its creation, from the Master, or from a
\* key that has itself held the verb and can_manage (guard_delegated_grant),
\* though rows are revoked between the check and the write.
THEOREM GrantsTraceTheorem == Spec => GrantsTrace
  <1> DEFINE Traced ==
        \A k \in Keys, r \in Resources : \A v \in Verbs(k, r)' \ Verbs(k, r) :
          \/ owner[r]' = k
          \/ \E h \in Handlers :
                /\ req'[h] # req[h]
                /\ \/ req[h].by = Master
                   \/ {<<req[h].by, r, v>>, <<req[h].by, r, "can_manage">>}
                         \subseteq held
  <1>1. ASSUME IInv, [Next]_vars PROVE [Traced]_vars
    <2>1. CASE UNCHANGED vars
      BY <2>1
    <2>2. CASE Next
      <3>1. SUFFICES ASSUME NEW k \in Keys, NEW r \in Resources,
                            NEW v \in Verbs(k, r)' \ Verbs(k, r)
                     PROVE  \/ owner[r]' = k
                            \/ \E h \in Handlers :
                                /\ req'[h] # req[h]
                                /\ \/ req[h].by = Master
                                   \/ {<<req[h].by, r, v>>, <<req[h].by, r, "can_manage">>}
                                         \subseteq held
        OBVIOUS
      <3>2. PICK h \in Handlers : Arrive(h) \/ Serve(h) \/ Drop(h)
        BY <2>2 DEF Next
      <3> QED
        BY <1>1, <3>1, <3>2, GainStep
    <2> QED
      BY <1>1, <2>1, <2>2
  <1> QED
    BY <1>1, ApiKeysInvariant, PTL DEF Spec, GrantsTrace

\* Whatever a deletion (collect_subtree, delete_many) removes hangs below a
\* key that its caller may administer, and is not the Master.
THEOREM DeletesOnlySubtreeTheorem == Spec => DeletesOnlySubtree
  <1> DEFINE Below ==
        \A k \in alive \ alive' : \E h \in Handlers, below \in SUBSET Keys :
          /\ k \in below /\ Master \notin below
          /\ \A x \in below : x = req[h].on \/ parent[x] \in below
          /\ req[h].by = Master \/ parent[req[h].on] = req[h].by
  <1>1. ASSUME IInv, [Next]_vars PROVE [Below]_vars
    <2>1. ASSUME NEW h \in Handlers, DeleteKeys(h) PROVE Below
      <3>1. req[h].step \in Deleting /\ alive' = alive \ req[h].found
        BY <2>1 DEF DeleteKeys, Deleting
      <3>2. Collected(req[h]) /\ req[h].found \in SUBSET Keys
        BY <1>1, <3>1, RequestTypes DEF IInv, WalkInv, TypeOK
      <3>3. Master \notin req[h].found
        BY <1>1, <3>1, MasterStays
      <3> QED
        BY <3>1, <3>2, <3>3 DEF Collected
    <2>2. ASSUME NEW h \in Handlers, Arrive(h) \/ Drop(h) PROVE alive' = alive
      BY <2>2 DEF Arrive, Drop, PostKey, PatchKey, DeleteKey, PutPermission,
         DeletePermission, PostResource, DeleteResource, Accept, tree
    <2>3. ASSUME NEW h \in Handlers, Serve(h), ~DeleteKeys(h) PROVE alive \subseteq alive'
      BY <2>3 DEF Serve, InsertKey, UpdateKey, Walk, ReadInventory, ReadTable, CheckGrant,
         Grant, CheckRevoke, Revoke, InsertInTransaction, InsertVault, Own,
         RemoveResource, tree
    <2> QED
      BY <1>1, <2>1, <2>2, <2>3 DEF Next
  <1> QED
    BY <1>1, ApiKeysInvariant, PTL DEF Spec, DeletesOnlySubtree
=============================================================================
