----------------------------- MODULE MCApiKeys -----------------------------
(* Instance for TLC.  The server boots on an empty database, or on one in    *)
(* which the Master has made a parent, a key of that parent has been raised  *)
(* to a parent and has a daughter, and the Master owns w, a destination      *)
(* group or a sync task, that the first parent manages.                      *)
EXTENDS ApiKeys, TLC

CONSTANTS m, a, b, c, v, w

MCPayloads == {{}, {"can_manage_keys", "can_manage_vaults"}}
MCPatches == {[add |-> {"can_manage_keys"}, drop |-> {}],
              [add |-> {}, drop |-> {"can_manage_keys"}]}
MCGrants == {{"can_sync"}, {"can_manage", "can_view_logs"}}

Nobody == [r \in {v, w} |-> NoRow]
Empty == [alive |-> {m},
          rights |-> [k \in {m, a, b, c} |-> IF k = m THEN Right ELSE {}],
          parent |-> [k \in {m, a, b, c} |-> NoKey], existing |-> {},
          owner |-> [r \in {v, w} |-> m],
          perm |-> [k \in {m, a, b, c} |-> Nobody]]
Established == [alive |-> {m, a, b, c},
          rights |-> [k \in {m, a, b, c} |->
                         CASE k = m -> Right
                           [] k = a -> {"can_manage_keys", "can_manage_vaults",
                                        "can_manage_sources"}
                           [] k = b -> {"can_manage_keys"}
                           [] OTHER -> {}],
          parent |-> [k \in {m, a, b, c} |->
                         CASE k = a -> m [] k = b -> a [] k = c -> b [] OTHER -> NoKey],
          existing |-> {w},
          owner |-> [r \in {v, w} |-> m],
          perm |-> [k \in {m, a, b, c} |->
                       CASE k = m -> [Nobody EXCEPT ![w] = Verb]
                         [] k = a -> [Nobody EXCEPT ![w] = {"can_sync", "can_manage"}]
                         [] OTHER -> Nobody]]
Symmetry == Permutations(Handlers)
Owning == [Established EXCEPT !.alive = {m, a, b}, !.parent[c] = NoKey,
                              !.existing = {w, v}, !.owner[v] = b,
                              !.perm[b][v] = Verb]
MCDatabases == {Empty, Established, Owning}
TwoDatabases == {Empty, Owning}
=============================================================================
