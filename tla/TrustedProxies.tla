--------------------------- MODULE TrustedProxies ---------------------------
(***************************************************************************)
(* The set of peers whose forwarding headers are believed: literal         *)
(* networks, and hostnames that requests resolve when their cached answer  *)
(* has expired.  One RwLock guards the cache.  A request reads it, and on  *)
(* a miss queues for the write lock, looks up every expired name (an       *)
(* await), rebuilds the snapshot and releases.  The task that boot spawns  *)
(* does the same after clearing the cache, and once more after a grace     *)
(* period if a name did not resolve.  A request whose client goes away is  *)
(* dropped at whatever await it has reached, the lock with it.  Without a  *)
(* hostname entry resolved() is constant and prime() does nothing.         *)
(***************************************************************************)
EXTENDS Integers, Sequences, FiniteSets

CONSTANTS
    Addresses,    \* addresses of peers and clients
    Networks,     \* literal entries of TRUSTED_PROXIES
    Names,        \* hostname entries, in the order they are written
    Requests,     \* requests in flight at a time
    Boot,         \* the task of prime_with_grace
    None,         \* nobody, nothing, no entry
    PositiveTtl, NegativeTtl, GracePeriod

Hostnames == {Names[i] : i \in 1..Len(Names)}

ASSUME ProxyAssumption ==
    /\ Names \in Seq(Hostnames) /\ Names # <<>>
    /\ Boot \notin Requests /\ None \notin Requests \cup {Boot}
    /\ Networks \subseteq Addresses
    /\ PositiveTtl \in Nat \ {0} /\ NegativeTtl \in 1..PositiveTtl /\ GracePeriod \in Nat
    /\ None \notin [addresses : SUBSET Addresses, attempted_at : Nat]
    /\ None \notin Nat

VARIABLES
    now,          \* the monotonic clock
    hosts,        \* name -> its last attempt, None without an entry
    snapshot,     \* networks a request is matched against
    built,        \* whether the snapshot was ever built
    holder,       \* the task that holds the write lock
    looking,      \* the position of the name being looked up, 0 for none
    stage,        \* task -> where it is
    arrived,      \* request -> when it came in
    list,         \* request -> the networks it was given
    until,        \* end of the grace period
    asked,        \* name -> when its last lookup started, None before (history)
    abandoned,    \* names whose last lookup was cut off with its request (history)
    named         \* address -> when a lookup last named it, None before (history)

proxyVars == <<now, hosts, snapshot, built, holder, looking, stage, arrived, list, until,
               asked, abandoned, named>>

Tasks == Requests \cup {Boot}
HostnameState == [addresses : SUBSET Addresses, attempted_at : Nat]
Stage == {"idle", "read", "queue", "locked", "listed", "body", "due", "capacity", "retain", "check",
          "handler", "prime", "grace", "done"}

---------------------------------------------------------------------------
(* Plausible defects of the definitions below, for mutation. *)
BadUsable(cache, h) == cache[h] # None
BadStale(cache, from) == {i \in from..Len(Names) : TRUE}

\* HostnameState::is_fresh: a failed attempt is remembered for a shorter time.
Ttl(state) == IF state.addresses # {} THEN PositiveTtl ELSE NegativeTtl
IsFresh(state) == now - state.attempted_at < Ttl(state)
Usable(cache, h) == cache[h] # None /\ IsFresh(cache[h])

\* The fast path: every name has an attempt that may be reused.
AllFresh == \A h \in Hostnames : Usable(hosts, h)

\* The names from position from on that refresh_locked has to look up.
Stale(cache, from) == {i \in from..Len(Names) : ~Usable(cache, Names[i])}

Merged(cache) ==
    Networks \cup UNION {cache[h].addresses : h \in {n \in Hostnames : cache[n] # None}}

Released == holder' = None /\ looking' = 0

\* A lookup of the name at position i starts.
Ask(i) ==
    /\ looking' = i
    /\ asked' = [asked EXCEPT ![Names[i]] = now]
    /\ abandoned' = abandoned \ {Names[i]}

\* The end of refresh_locked, and what its caller does with the lock gone.
Unresolved(cache) == {h \in Hostnames : cache[h] = None \/ cache[h].addresses = {}}
AfterPrime(cache) ==
    IF stage[Boot] = "prime" /\ Unresolved(cache) # {} THEN "grace" ELSE "done"
Rebuilt(task, cache, merged) ==
    /\ snapshot' = merged
    /\ built' = TRUE
    /\ \/ /\ task = Boot
          /\ stage' = [stage EXCEPT ![Boot] = AfterPrime(cache)]
          /\ until' = IF AfterPrime(cache) = "grace" THEN now + GracePeriod ELSE 0
          /\ UNCHANGED list
       \/ /\ task \in Requests
          /\ stage' = [stage EXCEPT ![task] = "listed"]
          /\ list' = [list EXCEPT ![task] = merged]
          /\ UNCHANGED until
    /\ UNCHANGED <<asked, abandoned>>

(* Plausible defects of the definition below, for mutation: the snapshot is  *)
(* only extended, and prime_with_grace keeps the guard while it sleeps.      *)
BadRebuild(task, cache) == Rebuilt(task, cache, snapshot \cup Merged(cache)) /\ Released
BadGrace(task, cache) ==
    /\ Rebuilt(task, cache, Merged(cache))
    /\ looking' = 0
    /\ holder' = IF task = Boot /\ AfterPrime(cache) = "grace" THEN Boot ELSE None

Rebuild(task, cache) == Rebuilt(task, cache, Merged(cache)) /\ Released

\* refresh_locked from position from on, up to its next await or its end.
Refresh(task, cache, from) ==
    /\ hosts' = cache
    /\ \/ /\ \E i \in Stale(cache, from) :
                Ask(i) /\ \A j \in Stale(cache, from) : i <= j
          /\ holder' = task
          /\ stage' = [stage EXCEPT ![task] = IF task = Boot THEN @ ELSE "locked"]
          /\ UNCHANGED <<snapshot, built, list, until>>
       \/ Stale(cache, from) = {} /\ Rebuild(task, cache)

---------------------------------------------------------------------------
ProxyInit ==
    /\ now = 0
    /\ hosts = [h \in Hostnames |-> None]
    /\ snapshot = {}
    /\ built = FALSE
    /\ holder = None
    /\ looking = 0
    /\ stage = [t \in Tasks |-> IF t = Boot THEN "prime" ELSE "idle"]
    /\ arrived = [r \in Requests |-> 0]
    /\ list = [r \in Requests |-> {}]
    /\ until = 0
    /\ asked = [h \in Hostnames |-> None]
    /\ abandoned = {}
    /\ named = [a \in Addresses |-> None]

\* resolved(): the snapshot, if the read lock finds it current.
Resolved(r) ==
    /\ stage[r] = "read"
    /\ holder = None
    /\ \/ /\ built /\ AllFresh
          /\ stage' = [stage EXCEPT ![r] = "listed"]
          /\ list' = [list EXCEPT ![r] = snapshot]
       \/ /\ ~(built /\ AllFresh)
          /\ stage' = [stage EXCEPT ![r] = "queue"]
          /\ UNCHANGED list
    /\ UNCHANGED <<now, hosts, snapshot, built, holder, looking, arrived, until, asked,
                   abandoned, named>>

\* The write lock is granted.
Lock(r) ==
    /\ stage[r] = "queue"
    /\ holder = None
    /\ Refresh(r, hosts, 1)
    /\ UNCHANGED <<now, arrived, named>>

\* prime(): the lock is granted and the cache cleared, at first and once more
\* when the sleep of prime_with_grace is over.
Prime ==
    /\ stage[Boot] = "prime" \/ (stage[Boot] = "grace" /\ now >= until)
    /\ holder = None
    /\ Refresh(Boot, [h \in Hostnames |-> None], 1)
    /\ UNCHANGED <<now, arrived, named>>

\* The lookup that the lock's holder awaits ends with some addresses, or none.
LookedUp(addresses) ==
    /\ looking # 0
    /\ LET name == Names[looking]
           state == [addresses |-> addresses, attempted_at |-> now]
       IN /\ named' = [a \in Addresses |-> IF a \in addresses THEN now ELSE named[a]]
          /\ Refresh(holder, [hosts EXCEPT ![name] = state], looking + 1)
    /\ UNCHANGED <<now, arrived>>

\* A request's future ends, and its local state with it.
Finished(r) ==
    /\ stage' = [stage EXCEPT ![r] = "idle"]
    /\ arrived' = [arrived EXCEPT ![r] = 0]
    /\ list' = [list EXCEPT ![r] = {}]
    /\ UNCHANGED <<now, hosts, snapshot, built, until, asked, named>>

\* It is dropped at an await: a lock it held is released, the entries it had
\* already inserted stay.
Drop(r) ==
    /\ stage[r] \in {"read", "queue", "locked", "body", "handler"}
    /\ Finished(r)
    /\ \/ /\ holder = r
          /\ Released
          /\ abandoned' = abandoned \cup {Names[looking]}
       \/ holder # r /\ UNCHANGED <<holder, looking, abandoned>>

---------------------------------------------------------------------------
(* Properties.                                                              *)

ProxyTypeOK ==
    /\ now \in Nat
    /\ hosts \in [Hostnames -> HostnameState \cup {None}]
    /\ snapshot \subseteq Addresses
    /\ built \in BOOLEAN
    /\ holder \in Tasks \cup {None}
    /\ looking \in 0..Len(Names)
    /\ stage \in [Tasks -> Stage]
    /\ arrived \in [Requests -> Nat]
    /\ list \in [Requests -> SUBSET Addresses]
    /\ until \in Nat
    /\ asked \in [Hostnames -> Nat \cup {None}]
    /\ abandoned \subseteq Hostnames
    /\ named \in [Addresses -> Nat \cup {None}]

\* The write lock is held by a task that awaits a lookup of a name nobody may
\* reuse, and only by such a task.
LockInv ==
    /\ holder = None <=> looking = 0
    /\ \A r \in Requests : stage[r] = "locked" <=> holder = r
    /\ holder = Boot => stage[Boot] \in {"prime", "grace"}
    /\ looking # 0 => ~Usable(hosts, Names[looking])

\* What refresh_locked has passed on its way to the name it looks up.
Recent(r, h) == hosts[h] # None /\ arrived[r] - hosts[h].attempted_at < Ttl(hosts[h])
RefreshInv ==
    /\ \A r \in Requests : /\ arrived[r] <= now
                           /\ holder = r => \A j \in 1..(looking - 1) : Recent(r, Names[j])
    /\ holder = Boot => \A j \in 1..(looking - 1) : hosts[Names[j]] # None

\* How the cached attempts relate to the snapshot and to what lookups named.
AttemptInv ==
    /\ built /\ AllFresh => snapshot = Merged(hosts)
    /\ \A h \in Hostnames : hosts[h] # None =>
          /\ hosts[h].attempted_at <= now
          /\ \A a \in hosts[h].addresses :
                named[a] # None /\ hosts[h].attempted_at <= named[a]

\* A lookup that has started is still awaited, was cut off, is the one its
\* entry stands for, or the boot task has just cleared its entry.
Awaited(h) == looking # 0 /\ Names[looking] = h
LookupInv ==
    \A h \in Hostnames :
        /\ asked[h] # None => asked[h] <= now
        /\ \/ asked[h] = None \/ Awaited(h) \/ h \in abandoned
           \/ hosts[h] # None /\ asked[h] <= hosts[h].attempted_at
           \/ hosts[h] = None /\ holder = Boot

\* Whenever a reader may take the fast path, the snapshot is what the cached
\* attempts say, also after a request was dropped in the middle of a refresh
\* that had already replaced some of them (resolved, refresh_locked).
SnapshotCurrent ==
    holder = None /\ built /\ AllFresh =>
        snapshot = Networks \cup UNION {hosts[h].addresses : h \in Hostnames}

\* The networks a request is matched against follow from an attempt at every
\* name that could still be reused when the request came in, or that is later:
\* no wait for the lock, for another request's lookup or for a slow resolver
\* makes a request use an older one (the TTL of resolved()).
TrustIsRecent ==
    [][\A r \in Requests : stage[r] \in {"read", "queue", "locked"} /\ stage'[r] = "listed" =>
          /\ \A h \in Hostnames : /\ hosts'[h] # None
                                  /\ arrived[r] - hosts'[h].attempted_at < Ttl(hosts'[h])
          /\ list'[r] = Networks \cup UNION {hosts'[h].addresses : h \in Hostnames}]_proxyVars

\* However many requests meet an expired name, one of them starts a lookup of
\* it less than a negative TTL after the last one started only when that one
\* was cut off because its request went away: an answer, a failure and a lookup
\* of the boot task all count, whoever waited for the lock meanwhile
\* (refresh_locked under the write lock).
LookupsBounded ==
    [][\A i \in 1..Len(Names) :
          looking' = i /\ looking # i /\ holder' \in Requests =>
              \/ asked[Names[i]] = None \/ Names[i] \in abandoned
              \/ now - asked[Names[i]] >= NegativeTtl]_proxyVars

\* What the comment on NEGATIVE_TTL says of the lookups of requests: at most
\* one per name and interval, no matter how much traffic arrives.
OneLookupPerInterval ==
    [][\A i \in 1..Len(Names) :
          looking' = i /\ looking # i /\ holder' \in Requests =>
              asked[Names[i]] = None \/ now - asked[Names[i]] >= NegativeTtl]_proxyVars
=============================================================================
