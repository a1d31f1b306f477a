------------------------------ MODULE ApiKeys ------------------------------
(***************************************************************************)
(* API keys, their permission rows and the resources they own:             *)
(* api/keys.rs, api/guards.rs, api/support.rs and the create and delete    *)
(* handlers of vault endpoints, destination groups and sync tasks.         *)
(*                                                                         *)
(* Every request acts with the key row that auth_middleware read when it   *)
(* arrived.  What the handler reads and writes afterwards are statements   *)
(* of their own, and other requests run in between: key deletion walks the *)
(* daughters level by level, reads three tables and then deletes.  Reads   *)
(* of what never changes while the row exists (parent, owner, is_master)   *)
(* are taken together with the write that follows.  Names, credentials     *)
(* and bound_ips are left out, and so is the audit row, which is written   *)
(* last and which nothing reads: when it fails the answer is an error, and *)
(* what the handler wrote before it stays.                                 *)
(***************************************************************************)
EXTENDS Naturals

CONSTANTS
    Keys,         \* ids of keys
    Master,       \* the bootstrapped key, the only one with is_master
    NoKey,        \* parent of the Master
    Vaults, Groups, Tasks,   \* ids of resources
    Handlers,     \* requests that may be in flight together
    Payloads,     \* rights a POST of a key may ask for
    Patches,      \* what a PATCH of a key may set and clear
    Grants,       \* verbs a PUT of a permission may name
    Databases,    \* what the server may find at boot
    MaxRequests   \* bound on the number of requests

Resources == Vaults \cup Groups \cup Tasks
Right == {"can_manage_keys", "can_manage_sources", "can_manage_vaults"}
Verb == {"can_sync", "can_manage", "can_view_logs"}
\* A permission row by its verbs; a key without a row has none.
NoRow == {"none"}
Row == (SUBSET Verb) \cup {NoRow}

Database == [alive : SUBSET Keys, rights : [Keys -> SUBSET Right],
             parent : [Keys -> Keys \cup {NoKey}], existing : SUBSET Resources,
             owner : [Resources -> Keys],
             perm : [Keys -> [Resources -> Row]]]

\* A database that requests one after the other have left.
WellFormed(d) ==
    /\ d \in Database
    /\ Master \in d.alive
    /\ d.parent[Master] = NoKey
    /\ \A k \in d.alive : k = Master \/ d.parent[k] \in d.alive
    /\ \A r \in d.existing : d.owner[r] \in d.alive

ASSUME ApiKeysAssumption ==
    /\ Master \in Keys
    /\ NoKey \notin Keys
    /\ Resources # {}
    /\ Vaults \cap Groups = {} /\ Vaults \cap Tasks = {} /\ Groups \cap Tasks = {}
    /\ Payloads \subseteq SUBSET Right
    /\ Patches \subseteq [add : SUBSET Right, drop : SUBSET Right]
    /\ Grants \subseteq SUBSET Verb
    /\ \A d \in Databases : WellFormed(d)
    /\ MaxRequests \in Nat

VARIABLES
    alive,      \* keys that have a row
    freshKeys,  \* key ids not drawn yet
    rights,     \* key -> its can_manage_* columns
    parent,     \* key -> parent_key_id
    existing,   \* resources that have a row
    freshRes,   \* resource ids not drawn yet
    owner,      \* resource -> owner_key_id
    perm,       \* key -> resource -> its api_key_sync_permissions row
    req,        \* handler -> the request it serves
    held,       \* history: <<key, resource, verb>> ever granted
    overlap,    \* history: a key deletion has met a creation by a key it deletes
    requests    \* counter of the bound

tree == <<alive, freshKeys, rights, parent>>
resources == <<existing, freshRes, owner>>
grants == <<perm, held>>
vars == <<alive, freshKeys, rights, parent, existing, freshRes, owner, perm,
          req, held, overlap, requests>>

-----------------------------------------------------------------------------
Creating == {"insert_key", "insert_resource"}
Deleting == {"walk", "vaults", "groups", "tasks", "delete_keys"}
Step == {"idle", "update_key", "check_grant", "grant", "check_revoke",
         "revoke", "own", "delete_resource"} \cup Creating \cup Deleting

Request == [step : Step,
            by : Keys, had : SUBSET Right,   \* the caller as authenticated
            on : Keys, res : Resources,      \* what the path names
            add : SUBSET Right, drop : SUBSET Right, verbs : SUBSET Verb,
            found : SUBSET Keys, frontier : SUBSET Keys]

Verbs(k, r) == IF perm[k][r] = NoRow THEN {} ELSE perm[k][r]

-----------------------------------------------------------------------------
(* Plausible defects of the definitions below, for mutation. *)
BadCanAdminister(by, had, on) == by = Master \/ "can_manage_keys" \in had
BadGuardDelegatedGrant(by, had, r, verbs) ==
    by = Master \/ ("can_manage_keys" \in had /\ "can_manage" \in Verbs(by, r))
OneLevel(frontier) == {}
SameLevelAgain(frontier) ==
    frontier \cup {k \in alive : parent[k] \in frontier}

GuardManageKeys(by, had) == by = Master \/ "can_manage_keys" \in had

GuardScopeElevation(by, wanted) == wanted # {} => by = Master

GuardResourceCreation(by, had, r) ==
    \/ by = Master
    \/ r \in Groups /\ "can_manage_sources" \in had
    \/ r \in Vaults \cup Tasks /\ "can_manage_vaults" \in had

GuardResourceManage(by, had, r) ==
    by = Master \/ ("can_manage_keys" \in had /\ "can_manage" \in Verbs(by, r))

GuardDelegatedGrant(by, had, r, verbs) ==
    by = Master \/ (GuardResourceManage(by, had, r) /\ verbs \subseteq Verbs(by, r))

CanAdminister(by, had, on) ==
    by = Master \/ ("can_manage_keys" \in had /\ parent[on] = by)

\* One round of collect_subtree.
Daughters(frontier) == {k \in alive : parent[k] \in frontier}

\* owned_resource_inventory, one table at a time.
Inventory(table, found) == {r \in table \cap existing : owner[r] \in found}

-----------------------------------------------------------------------------
(* The protocol of a request. *)

\* The keys that hang below top by parent_key_id, whether or not the rows in
\* between are left.
Subtree(top) ==
    {k \in Keys : \A S \in SUBSET Keys :
        top \in S /\ (\A x \in Keys \ freshKeys : parent[x] \in S => x \in S) => k \in S}

\* A deletion and a creation by a key below the deleted one are in flight.
Overlaps(r) ==
    \E g, h \in Handlers :
        r[g].step \in Creating /\ r[h].step \in Deleting /\ r[g].by \in Subtree(r[h].on)

Idle == [step |-> "idle", by |-> Master, had |-> {}, on |-> Master,
         res |-> CHOOSE r \in Resources : TRUE, add |-> {}, drop |-> {},
         verbs |-> {}, found |-> {}, frontier |-> {}]

Becomes(h, r) ==
    /\ req' = [req EXCEPT ![h] = r]
    /\ overlap' = (overlap \/ Overlaps(req'))

\* auth_middleware: an idle handler serves a caller that has a row.
Free(h) == req[h].step = "idle" /\ requests < MaxRequests

\* The request goes on with the caller's rights as they are now.
Accept(h, by, step, r) ==
    /\ requests' = requests + 1
    /\ Becomes(h, [r EXCEPT !.step = step, !.by = by, !.had = rights[by]])
    /\ UNCHANGED <<tree, resources, grants>>

\* The request is answered.
Ends(h) == Becomes(h, Idle) /\ UNCHANGED requests

Init ==
    \E d \in Databases :
        /\ alive = d.alive
        /\ freshKeys = {k \in Keys : k \notin d.alive}
        /\ rights = d.rights
        /\ parent = d.parent
        /\ existing = d.existing
        /\ freshRes = {r \in Resources : r \notin d.existing}
        /\ owner = d.owner
        /\ perm = d.perm
        /\ held = {x \in Keys \X Resources \X Verb :
                      d.perm[x[1]][x[2]] # NoRow /\ x[3] \in d.perm[x[1]][x[2]]}
        /\ req = [h \in Handlers |-> Idle]
        /\ overlap = FALSE
        /\ requests = 0

-----------------------------------------------------------------------------
(* Keys. *)

PostKey(h, by, wanted) ==
    /\ GuardManageKeys(by, rights[by])
    /\ GuardScopeElevation(by, wanted)
    /\ Accept(h, by, "insert_key", [Idle EXCEPT !.add = wanted])

\* parent_key_id is no foreign key: the caller's row may be gone.
InsertKey(h, k) ==
    /\ req[h].step = "insert_key"
    /\ k \in freshKeys
    /\ alive' = alive \cup {k}
    /\ freshKeys' = freshKeys \ {k}
    /\ rights' = [rights EXCEPT ![k] = req[h].add]
    /\ parent' = [parent EXCEPT ![k] = req[h].by]
    /\ Ends(h)
    /\ UNCHANGED <<resources, grants>>

PatchKey(h, by, on, patch) ==
    /\ GuardManageKeys(by, rights[by])
    /\ on \in alive
    /\ CanAdminister(by, rights[by], on)
    /\ on # Master
    /\ GuardScopeElevation(by, patch.add)
    /\ Accept(h, by, "update_key", [Idle EXCEPT !.on = on, !.add = patch.add,
                                                   !.drop = patch.drop])

\* Only the columns of the payload; no row is an error.
UpdateKey(h) ==
    LET on == req[h].on IN
    /\ req[h].step = "update_key"
    /\ rights' = IF on \in alive
                 THEN [rights EXCEPT ![on] = (rights[on] \ req[h].drop) \cup req[h].add]
                 ELSE rights
    /\ Ends(h)
    /\ UNCHANGED <<alive, freshKeys, parent, resources, grants>>

DeleteKey(h, by, on) ==
    /\ GuardManageKeys(by, rights[by])
    /\ on \in alive
    /\ on # Master
    /\ CanAdminister(by, rights[by], on)
    /\ Accept(h, by, "walk", [Idle EXCEPT !.on = on, !.found = {on}, !.frontier = {on}])

\* One query of collect_subtree; an empty frontier ends the loop.
Walk(h) ==
    LET level == Daughters(req[h].frontier) IN
    /\ req[h].step = "walk"
    /\ Becomes(h, IF req[h].frontier = {} THEN [req[h] EXCEPT !.step = "vaults"]
                  ELSE [req[h] EXCEPT !.found = req[h].found \cup level,
                                      !.frontier = level])
    /\ UNCHANGED <<tree, resources, grants, requests>>

\* One query of the inventory; the request is refused at the end if any of
\* them found something, and can as well be refused at once.
ReadTable(h, table, step, next) ==
    /\ req[h].step = step
    /\ IF Inventory(table, req[h].found) = {}
       THEN Becomes(h, [req[h] EXCEPT !.step = next])
       ELSE Becomes(h, Idle)
    /\ UNCHANGED <<tree, resources, grants, requests>>

ReadInventory(h) ==
    \/ ReadTable(h, Vaults, "vaults", "groups")
    \/ ReadTable(h, Groups, "groups", "tasks")
    \/ ReadTable(h, Tasks, "tasks", "delete_keys")

\* delete_many; permission rows go with their key.
DeleteKeys(h) ==
    /\ req[h].step = "delete_keys"
    /\ alive' = alive \ req[h].found
    /\ perm' = [k \in Keys |-> IF k \in req[h].found
                               THEN [r \in Resources |-> NoRow] ELSE perm[k]]
    /\ Ends(h)
    /\ UNCHANGED <<freshKeys, rights, parent, resources, held>>

-----------------------------------------------------------------------------
(* Permission rows. *)

Put(k, r, verbs) ==
    /\ perm' = [perm EXCEPT ![k] = [perm[k] EXCEPT ![r] = verbs]]
    /\ held' = held \cup {<<k, r, v>> : v \in verbs}

\* The path need not name an existing resource.
PutPermission(h, by, on, r, verbs) ==
    /\ GuardManageKeys(by, rights[by])
    /\ on \in alive
    /\ Accept(h, by, "check_grant", [Idle EXCEPT !.on = on, !.res = r,
                                                    !.verbs = verbs])

CheckGrant(h) ==
    /\ req[h].step = "check_grant"
    /\ Becomes(h, IF GuardDelegatedGrant(req[h].by, req[h].had, req[h].res, req[h].verbs)
                  THEN [req[h] EXCEPT !.step = "grant"] ELSE Idle)
    /\ UNCHANGED <<tree, resources, grants, requests>>

\* Insert or update; without the key's row the foreign key refuses it.
Grant(h) ==
    /\ req[h].step = "grant"
    /\ IF req[h].on \in alive THEN Put(req[h].on, req[h].res, req[h].verbs)
       ELSE UNCHANGED grants
    /\ Ends(h)
    /\ UNCHANGED <<tree, resources>>

DeletePermission(h, by, on, r) ==
    /\ GuardManageKeys(by, rights[by])
    /\ perm[on][r] # NoRow
    /\ Accept(h, by, "check_revoke", [Idle EXCEPT !.on = on, !.res = r])

CheckRevoke(h) ==
    /\ req[h].step = "check_revoke"
    /\ Becomes(h, IF GuardResourceManage(req[h].by, req[h].had, req[h].res)
                  THEN [req[h] EXCEPT !.step = "revoke"] ELSE Idle)
    /\ UNCHANGED <<tree, resources, grants, requests>>

\* By the row's id: one that was replaced meanwhile stays.
Revoke(h) ==
    /\ req[h].step = "revoke"
    /\ \/ perm' = [perm EXCEPT ![req[h].on] =
                      [perm[req[h].on] EXCEPT ![req[h].res] = NoRow]]
       \/ perm' = perm
    /\ Ends(h)
    /\ UNCHANGED <<tree, resources, held>>

-----------------------------------------------------------------------------
(* Resources. *)

PostResource(h, by, r) ==
    /\ r \in freshRes
    /\ GuardResourceCreation(by, rights[by], r)
    /\ Accept(h, by, "insert_resource", [Idle EXCEPT !.res = r])

Insert(h) ==
    /\ existing' = existing \cup {req[h].res}
    /\ freshRes' = freshRes \ {req[h].res}
    /\ owner' = [owner EXCEPT ![req[h].res] = req[h].by]

\* A group or a task, its owner's permission row and the audit row in one
\* transaction, which the foreign keys refuse to a deleted key.
InsertInTransaction(h) ==
    /\ req[h].step = "insert_resource"
    /\ req[h].res \in freshRes \cap (Groups \cup Tasks)
    /\ req[h].by \in alive
    /\ Insert(h)
    /\ Put(req[h].by, req[h].res, Verb)
    /\ Ends(h)
    /\ UNCHANGED tree

\* A vault endpoint alone; owner_key_id is no foreign key.
InsertVault(h) ==
    /\ req[h].step = "insert_resource"
    /\ req[h].res \in freshRes \cap Vaults
    /\ Insert(h)
    /\ Becomes(h, [req[h] EXCEPT !.step = "own"])
    /\ UNCHANGED <<tree, grants, requests>>

\* grant_full_permission, refused by the foreign key or the unique index.
Own(h) ==
    /\ req[h].step = "own"
    /\ IF req[h].by \in alive /\ perm[req[h].by][req[h].res] = NoRow
       THEN Put(req[h].by, req[h].res, Verb)
       ELSE UNCHANGED grants
    /\ Ends(h)
    /\ UNCHANGED <<tree, resources>>

DeleteResource(h, by, r) ==
    /\ r \in existing
    /\ by = Master \/ owner[r] = by
    /\ Accept(h, by, "delete_resource", [Idle EXCEPT !.res = r])

\* Permission rows on the resource stay.  A vault endpoint takes along the
\* tasks it is the source of.
RemoveResource(h) ==
    /\ req[h].step = "delete_resource"
    /\ \E sourced \in SUBSET Tasks :
          /\ sourced # {} => req[h].res \in Vaults
          /\ existing' = existing \ ({req[h].res} \cup sourced)
    /\ Ends(h)
    /\ UNCHANGED <<tree, freshRes, owner, grants>>

-----------------------------------------------------------------------------
\* A database error, a client that hangs up, or a process that dies.
Drop(h) ==
    /\ req[h].step # "idle"
    /\ Ends(h)
    /\ UNCHANGED <<tree, resources, grants>>

Arrive(h) ==
    /\ Free(h)
    /\ \E by \in alive :
        \/ \E wanted \in Payloads : PostKey(h, by, wanted)
        \/ \E on \in Keys, patch \in Patches : PatchKey(h, by, on, patch)
        \/ \E on \in Keys : DeleteKey(h, by, on)
        \/ \E on \in Keys, r \in Resources, verbs \in Grants :
              PutPermission(h, by, on, r, verbs)
        \/ \E on \in Keys, r \in Resources : DeletePermission(h, by, on, r)
        \/ \E r \in Resources : PostResource(h, by, r) \/ DeleteResource(h, by, r)

Serve(h) ==
    \/ \E k \in Keys : InsertKey(h, k)
    \/ UpdateKey(h) \/ Walk(h) \/ ReadInventory(h) \/ DeleteKeys(h)
    \/ CheckGrant(h) \/ Grant(h) \/ CheckRevoke(h) \/ Revoke(h)
    \/ InsertInTransaction(h) \/ InsertVault(h) \/ Own(h) \/ RemoveResource(h)

Next == \E h \in Handlers : Arrive(h) \/ Serve(h) \/ Drop(h)

\* A request's awaits end.
Fairness == \A h \in Handlers : WF_vars(Serve(h))

Spec == Init /\ [][Next]_vars
FairSpec == Spec /\ Fairness

-----------------------------------------------------------------------------
(* Properties *)

TypeOK ==
    /\ alive \in SUBSET Keys /\ freshKeys \in SUBSET Keys
    /\ rights \in [Keys -> SUBSET Right]
    /\ parent \in [Keys -> Keys \cup {NoKey}]
    /\ existing \in SUBSET Resources /\ freshRes \in SUBSET Resources
    /\ owner \in [Resources -> Keys]
    /\ perm \in [Keys -> [Resources -> Row]]
    /\ req \in [Handlers -> Request]
    /\ held \in SUBSET (Keys \X Resources \X Verb)
    /\ overlap \in BOOLEAN
    /\ requests \in 0..MaxRequests

\* Ids are drawn once, and the Master stays.
IdInv ==
    /\ alive \cap freshKeys = {}
    /\ Master \in alive
    /\ parent[Master] = NoKey
    /\ \A k \in Keys \ freshKeys : parent[k] \notin freshKeys
    /\ \A k \in Keys, r \in Resources : \A v \in Verbs(k, r) : <<k, r, v>> \in held
    /\ \A h \in Handlers : req[h].by \notin freshKeys

\* The subtree collected so far hangs together, under a key the caller may
\* administer.
Collected(q) ==
    /\ q.on \in q.found /\ q.on # Master
    /\ q.by = Master \/ parent[q.on] = q.by
    /\ q.found \cap freshKeys = {} /\ q.found \subseteq Subtree(q.on)
    /\ \A k \in q.found : k = q.on \/ parent[k] \in q.found
    /\ q.frontier \subseteq q.found
    /\ q.step # "walk" => q.frontier = {}

\* It lacks no daughter of a key whose daughters were read.
Closed(q) ==
    \A k \in alive : parent[k] \in q.found \ q.frontier => k \in q.found

WalkInv ==
    \A h \in Handlers : req[h].step \in Deleting =>
        Collected(req[h]) /\ (overlap \/ Closed(req[h]))

\* Nothing in a table whose inventory was empty has got an owner to be
\* deleted.
Cleared(q) ==
    /\ q.step \in {"groups", "tasks", "delete_keys"} => Inventory(Vaults, q.found) = {}
    /\ q.step \in {"tasks", "delete_keys"} => Inventory(Groups, q.found) = {}
    /\ q.step = "delete_keys" => Inventory(Tasks, q.found) = {}

InventoryInv == \A h \in Handlers : overlap \/ Cleared(req[h])

\* What a request past its check grants, its caller once held.
Entitled(q) ==
    q.step = "grant" =>
        \/ q.by = Master
        \/ \A v \in q.verbs \cup {"can_manage"} : <<q.by, q.res, v>> \in held

GrantInv == \A h \in Handlers : Entitled(req[h])

\* A vault endpoint that waits for its owner's row belongs to the caller.
OwnInv ==
    \A h \in Handlers : req[h].step = "own" =>
        req[h].res \notin freshRes /\ owner[req[h].res] = req[h].by

\* Creations act for a key that is there, if no deletion of it interferes.
CreatorInv ==
    /\ overlap \/ ~Overlaps(req)
    /\ \A h \in Handlers :
          req[h].step \in Creating => overlap \/ req[h].by \in alive

\* RBAC 6: unless the deletion of a key met a request in flight in which a
\* key of the deleted subtree creates a key or a resource, it takes the whole
\* subtree along and leaves nothing without its owner, however it interleaves
\* with other requests, creations by other keys included.
CascadeComplete ==
    ~overlap => /\ \A k \in alive : k = Master \/ parent[k] \in alive
                /\ \A r \in existing : owner[r] \in alive

IInv ==
    /\ TypeOK
    /\ IdInv
    /\ WalkInv
    /\ InventoryInv
    /\ GrantInv
    /\ OwnInv
    /\ CreatorInv
    /\ CascadeComplete

\* RBAC 6 as written: a key never outlives its parent, and no resource its
\* owner, once no request is in flight.
CascadeAlways ==
    (\A h \in Handlers : req[h].step = "idle") =>
        /\ \A k \in alive : k = Master \/ parent[k] \in alive
        /\ \A r \in existing : owner[r] \in alive

\* RBAC R1, R2 and R7: a verb is gained by the creator of the resource, from
\* the Master, or from a key that has itself held it, and can_manage too.
GrantsTrace ==
    [][\A k \in Keys, r \in Resources : \A v \in Verbs(k, r)' \ Verbs(k, r) :
          \/ owner[r]' = k
          \/ \E h \in Handlers :
                /\ req'[h] # req[h]
                /\ \/ req[h].by = Master
                   \/ {<<req[h].by, r, v>>, <<req[h].by, r, "can_manage">>}
                         \subseteq held]_vars

\* Only keys that hang below one the caller may administer are deleted.
DeletesOnlySubtree ==
    [][\A k \in alive \ alive' : \E h \in Handlers, below \in SUBSET Keys :
          /\ k \in below /\ Master \notin below
          /\ \A x \in below : x = req[h].on \/ parent[x] \in below
          /\ req[h].by = Master \/ parent[req[h].on] = req[h].by]_vars

\* Every deletion is answered: the walk down a tree that others change ends.
DeletionsEnd ==
    \A h \in Handlers : req[h].step \in Deleting ~> req[h].step \notin Deleting
=============================================================================
