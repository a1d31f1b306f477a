------------------------- MODULE RequestAuthProofs -------------------------
(***************************************************************************)
(* Proofs about the request path, for every list of hostnames, every pair  *)
(* of TTLs, every window and any number of requests: the snapshot, the     *)
(* list a request is matched against, the rate of lookups and the replay   *)
(* guard.                                                                  *)
(***************************************************************************)
EXTENDS RequestAuth, TLAPS

\* A position of the list names a hostname.
LEMMA NamesType == \A i \in 1..Len(Names) : Names[i] \in Hostnames
BY ProxyAssumption DEF Hostnames

LEMMA NamesCover == \A h \in Hostnames : \E i \in 1..Len(Names) : Names[i] = h
BY DEF Hostnames

LEMMA LenType == Len(Names) \in Nat
BY ProxyAssumption

\* The parts of the cache keep their types through refresh_locked.
LEMMA MergedType ==
    ASSUME NEW cache \in [Hostnames -> HostnameState \cup {None}]
    PROVE  Merged(cache) \subseteq Addresses
BY ProxyAssumption DEF Merged, HostnameState

LEMMA StaleType ==
    ASSUME NEW cache, NEW from \in 1..(Len(Names) + 1), NEW i \in Stale(cache, from)
    PROVE  i \in 1..Len(Names) /\ i >= from /\ ~Usable(cache, Names[i])
BY LenType DEF Stale

LEMMA RefreshType ==
    ASSUME ProxyTypeOK, NEW task \in Tasks,
           NEW cache \in [Hostnames -> HostnameState \cup {None}],
           NEW from \in 1..(Len(Names) + 1), Refresh(task, cache, from),
           UNCHANGED <<now, arrived>>,
           named' \in [Addresses -> Nat \cup {None}]
    PROVE  ProxyTypeOK'
<1>1. /\ hosts' \in [Hostnames -> HostnameState \cup {None}]
      /\ now' \in Nat /\ arrived' \in [Requests -> Nat]
  BY DEF Refresh, ProxyTypeOK
<1>2. Merged(cache) \subseteq Addresses
  BY MergedType
<1>3. CASE /\ \E i \in Stale(cache, from) : Ask(i)
           /\ holder' = task
           /\ stage' = [stage EXCEPT ![task] = IF task = Boot THEN @ ELSE "locked"]
           /\ UNCHANGED <<snapshot, built, list, until>>
  <2>1. PICK i \in Stale(cache, from) : Ask(i)
    BY <1>3
  <2>2. i \in 1..Len(Names) /\ Names[i] \in Hostnames
    BY StaleType, NamesType
  <2>3. looking' \in 0..Len(Names)
    BY <2>1, <2>2, LenType DEF Ask
  <2>4. stage' \in [Tasks -> Stage]
    BY <1>3 DEF ProxyTypeOK, Stage
  <2>5. asked' \in [Hostnames -> Nat \cup {None}] /\ abandoned' \subseteq Hostnames
    BY <2>1, <2>2 DEF Ask, ProxyTypeOK
  <2> QED BY <1>1, <1>3, <2>3, <2>4, <2>5 DEF ProxyTypeOK
<1>4. CASE Rebuild(task, cache)
  <2>1. looking' \in 0..Len(Names) /\ holder' \in Tasks \cup {None} /\ built' \in BOOLEAN
    BY <1>4, LenType DEF Rebuild, Rebuilt, Released
  <2>2. stage' \in [Tasks -> Stage]
    BY <1>4 DEF Rebuild, Rebuilt, ProxyTypeOK, Stage, AfterPrime, Tasks
  <2>3. snapshot' \subseteq Addresses /\ list' \in [Requests -> SUBSET Addresses]
    BY <1>2, <1>4 DEF Rebuild, Rebuilt, ProxyTypeOK
  <2>4. until' \in Nat
    BY <1>4, ProxyAssumption DEF Rebuild, Rebuilt, ProxyTypeOK
  <2>5. UNCHANGED <<asked, abandoned>>
    BY <1>4 DEF Rebuild, Rebuilt
  <2> QED BY <1>1, <2>1, <2>2, <2>3, <2>4, <2>5 DEF ProxyTypeOK
<1> QED BY <1>3, <1>4 DEF Refresh

\* The steps that leave the cache alone and only move a request on.
LEMMA ToType ==
    ASSUME ProxyTypeOK, NEW r \in Requests, NEW next \in Stage, To(r, next)
    PROVE  ProxyTypeOK'
BY DEF To, ProxyTypeOK, Tasks

LEMMA FinishedType ==
    ASSUME ProxyTypeOK, NEW r \in Requests, Finished(r), abandoned' \subseteq Hostnames,
           \/ UNCHANGED <<holder, looking>> \/ Released
    PROVE  ProxyTypeOK'
BY LenType DEF Finished, Released, ProxyTypeOK, Stage, Tasks

LEMMA LookedUpType ==
    ASSUME ProxyTypeOK, LockInv, NEW a \in SUBSET Addresses, LookedUp(a)
    PROVE  ProxyTypeOK'
<1> DEFINE state == [addresses |-> a, attempted_at |-> now]
           cache == [hosts EXCEPT ![Names[looking]] = state]
<1>1. looking \in 1..Len(Names) /\ holder \in Tasks
  BY LenType, ProxyAssumption DEF LookedUp, ProxyTypeOK, LockInv
<1>2. Names[looking] \in Hostnames
  BY <1>1, NamesType
<1>3. state \in HostnameState
  BY DEF HostnameState, ProxyTypeOK
<1>4. cache \in [Hostnames -> HostnameState \cup {None}]
  BY <1>2, <1>3 DEF ProxyTypeOK
<1>5. looking + 1 \in 1..(Len(Names) + 1)
  BY <1>1, LenType
<1>6. named' \in [Addresses -> Nat \cup {None}]
  BY <1>2 DEF LookedUp, ProxyTypeOK
<1>7. Refresh(holder, cache, looking + 1) /\ UNCHANGED <<now, arrived>>
  BY DEF LookedUp
<1> QED BY <1>1, <1>4, <1>5, <1>6, <1>7, RefreshType

LEMMA TypeInvariant ==
    ASSUME IInv, [Next]_vars
    PROVE  TypeOK'
<1> USE DEF IInv
<1>1. ASSUME NEW r \in Requests, Arrive(r) PROVE TypeOK'
  <2>1. ProxyTypeOK'
    BY <1>1 DEF Arrive, TypeOK, ProxyTypeOK, Stage, Tasks
  <2> QED BY <1>1, <2>1 DEF Arrive, TypeOK, GuardTypeOK, guardVars
<1>2. ASSUME NEW r \in Requests, Lists(r) PROVE TypeOK'
  <2>1. GuardTypeOK' /\ message' = message /\ client' = client /\ arrivals' = arrivals
    BY <1>2 DEF Lists, TypeOK, GuardTypeOK, guardVars, authVars
  <2>2. CASE Resolved(r)
    <3>1. ProxyTypeOK'
      BY <2>2 DEF Resolved, TypeOK, ProxyTypeOK, Stage, Tasks
    <3> QED BY <2>1, <3>1 DEF TypeOK
  <2>3. CASE Lock(r)
    <3>0. /\ ProxyTypeOK /\ r \in Tasks /\ 1 \in 1..(Len(Names) + 1)
          /\ hosts \in [Hostnames -> HostnameState \cup {None}]
          /\ named' \in [Addresses -> Nat \cup {None}]
      BY <2>3, LenType DEF Lock, TypeOK, ProxyTypeOK, Tasks
    <3>1. ProxyTypeOK'
      BY <2>3, <3>0, RefreshType DEF Lock
    <3> QED BY <2>1, <3>1 DEF TypeOK
  <2> QED BY <1>2, <2>2, <2>3 DEF Lists
<1>3. ASSUME NEW r \in Requests, Respond(r) PROVE TypeOK'
  <2>1. ProxyTypeOK'
    BY <1>3, FinishedType DEF Respond, TypeOK, ProxyTypeOK
  <2> QED BY <1>3, <2>1 DEF Respond, LocalsGone, TypeOK, GuardTypeOK
<1>4. ASSUME NEW r \in Requests, Authenticate(r) PROVE TypeOK'
  <2>1. CASE Respond(r)
    BY <1>3, <2>1
  <2>2. CASE ~Respond(r)
    <3>1. ProxyTypeOK'
      BY <1>4, <2>2, ToType DEF Authenticate, TypeOK, Stage
    <3>2. /\ UNCHANGED <<seen, last_sweep, captured, sweep, accepted, message, arrivals>>
          /\ \E a \in Addresses : client' = [client EXCEPT ![r] = a]
      BY <1>4, <2>2 DEF Authenticate, guardVars
    <3>3. GuardTypeOK'
      BY <3>2 DEF TypeOK, GuardTypeOK
    <3> QED BY <3>1, <3>2, <3>3 DEF TypeOK
  <2> QED BY <2>1, <2>2
<1>5. ASSUME NEW r \in Requests, Guards(r) PROVE TypeOK'
  <2>1. ProxyTypeOK'
    BY <1>5, ToType DEF Guards, Due, Capacity, Retain, TypeOK, Stage
  <2>2. GuardTypeOK'
    <3>1. CASE Due(r)
      <4>1. PICK b \in BOOLEAN : sweep' = [sweep EXCEPT ![r] = b]
        BY <3>1 DEF Due
      <4>2. last_sweep' \in {captured[r], last_sweep}
        BY <3>1 DEF Due
      <4> QED BY <3>1, <4>1, <4>2 DEF Due, TypeOK, GuardTypeOK
    <3>2. CASE Capacity(r)
      BY <3>2 DEF Capacity, TypeOK, GuardTypeOK, guardVars
    <3>3. CASE Retain(r)
      BY <3>3 DEF Retain, Retained, TypeOK, GuardTypeOK
    <3> QED BY <1>5, <3>1, <3>2, <3>3 DEF Guards
  <2> QED BY <1>5, <2>1, <2>2 DEF Guards, TypeOK, authVars
<1>6. ASSUME NEW r \in Requests, CheckAndRecord(r) PROVE TypeOK'
  <2>1. CASE Respond(r)
    BY <1>3, <2>1
  <2>2. CASE ~Respond(r)
    <3>1. ProxyTypeOK'
      BY <1>6, <2>2, ToType DEF CheckAndRecord, TypeOK, Stage
    <3>2. ExpiresAt(r) \in Nat /\ captured[r] \in Nat
      BY WindowAssumption DEF ExpiresAt, TypeOK, GuardTypeOK
    <3>3. GuardTypeOK'
      BY <1>6, <2>2, <3>2 DEF CheckAndRecord, Record, TypeOK, GuardTypeOK
    <3> QED BY <1>6, <2>2, <3>1, <3>3 DEF CheckAndRecord, TypeOK, authVars
  <2> QED BY <2>1, <2>2
<1>7. ASSUME NEW r \in Requests, VerifySignature(r) PROVE TypeOK'
  <2>1. CASE Respond(r)
    BY <1>3, <2>1
  <2>2. CASE ~Respond(r)
    <3>1. ProxyTypeOK'
      BY <1>7, <2>2, ToType DEF VerifySignature, TypeOK, Stage
    <3>2. /\ now \in Nat /\ captured' = [captured EXCEPT ![r] = now]
          /\ UNCHANGED <<seen, last_sweep, sweep, accepted, message, client, arrivals>>
      BY <1>7, <2>2 DEF VerifySignature, TypeOK, ProxyTypeOK, authVars
    <3>3. GuardTypeOK'
      BY <3>2 DEF TypeOK, GuardTypeOK
    <3> QED BY <3>1, <3>2, <3>3 DEF TypeOK
  <2> QED BY <2>1, <2>2
<1>8. ASSUME NEW r \in Requests, Disconnect(r) PROVE TypeOK'
  <2>0. holder = r => Names[looking] \in Hostnames
    <3>1. holder = r => looking \in 1..Len(Names)
      BY LenType, ProxyAssumption DEF LockInv, TypeOK, ProxyTypeOK
    <3> QED BY <3>1, NamesType
  <2>1. ProxyTypeOK'
    <3>1. abandoned' \subseteq Hostnames
      BY <1>8, <2>0 DEF Disconnect, Drop, TypeOK, ProxyTypeOK
    <3> QED BY <1>8, <3>1, FinishedType DEF Disconnect, Drop, TypeOK
  <2> QED BY <1>8, <2>1 DEF Disconnect, LocalsGone, TypeOK, GuardTypeOK
<1>9. ASSUME Primes PROVE TypeOK'
  <2>1. GuardTypeOK' /\ message' = message /\ client' = client /\ arrivals' = arrivals
    BY <1>9 DEF Primes, TypeOK, GuardTypeOK, guardVars, authVars
  <2>2. [h \in Hostnames |-> None] \in [Hostnames -> HostnameState \cup {None}]
    OBVIOUS
  <2>3. /\ ProxyTypeOK /\ Boot \in Tasks /\ 1 \in 1..(Len(Names) + 1)
        /\ named' \in [Addresses -> Nat \cup {None}]
    BY <1>9, LenType DEF Primes, Prime, TypeOK, ProxyTypeOK, Tasks
  <2>4. ProxyTypeOK'
    BY <1>9, <2>2, <2>3, RefreshType DEF Primes, Prime
  <2> QED BY <2>1, <2>4 DEF TypeOK
<1>10. ASSUME Answered PROVE TypeOK'
  <2>1. ProxyTypeOK'
    BY <1>10, LookedUpType, MessageAssumption DEF Answered, TypeOK
  <2> QED BY <1>10, <2>1 DEF Answered, TypeOK, GuardTypeOK, guardVars, authVars
<1>11. ASSUME Tick PROVE TypeOK'
  BY <1>11 DEF Tick, TypeOK, ProxyTypeOK, GuardTypeOK, guardVars, authVars
<1>12. CASE UNCHANGED vars
  BY <1>12 DEF vars, TypeOK, ProxyTypeOK, GuardTypeOK
<1> QED BY <1>1, <1>2, <1>3, <1>4, <1>5, <1>6, <1>7, <1>8, <1>9, <1>10, <1>11, <1>12
        DEF Next, Step, OwnStep, Handled

---------------------------------------------------------------------------
(* The replay guard. *)

LEMMA GuardFrame ==
    ASSUME GuardTypeOK, GuardInv, now \in Nat, now' \in {now, now + 1}, UNCHANGED guardVars
    PROVE  GuardInv'
BY WindowAssumption DEF GuardTypeOK, GuardInv, guardVars

LEMMA GuardGone ==
    ASSUME GuardTypeOK, GuardInv, now \in Nat, now' = now, NEW r \in Requests,
           captured' \in {[captured EXCEPT ![r] = 0], [captured EXCEPT ![r] = now]},
           UNCHANGED <<seen, accepted>>
    PROVE  GuardInv'
BY DEF GuardTypeOK, GuardInv

LEMMA GuardRetain ==
    ASSUME GuardTypeOK, GuardInv, now \in Nat, now' = now, NEW r \in Requests, Retain(r)
    PROVE  GuardInv'
<1>1. captured[r] \in Nat /\ captured[r] <= now
  BY DEF GuardTypeOK, GuardInv
<1>2. ASSUME NEW q \in Requests PROVE captured'[q] <= now'
  BY DEF Retain, GuardInv
<1>3. ASSUME NEW s \in Signatures
      PROVE  /\ seen'[s] # None => accepted'[s] # None /\ seen'[s] = accepted'[s] + Window
             /\ seen'[s] = None => accepted'[s] = None \/ now' >= accepted'[s] + Window
  <2>1. accepted' = accepted /\ seen'[s] \in {seen[s], None}
    BY DEF Retain, Retained
  <2>2. seen'[s] = None => seen[s] = None \/ ~(seen[s] > captured[r])
    BY ProxyAssumption DEF Retain, Retained
  <2>3. seen[s] \in Nat \cup {None} /\ accepted[s] \in Nat \cup {None}
    BY DEF GuardTypeOK
  <2> QED BY <1>1, <2>1, <2>2, <2>3, WindowAssumption DEF GuardInv
<1> QED BY <1>2, <1>3 DEF GuardInv

LEMMA GuardRecord ==
    ASSUME GuardTypeOK, GuardInv, now \in Nat, now' = now, NEW r \in Requests,
           NEW s \in Signatures, Record(r, s)
    PROVE  GuardInv'
<1>1. captured[r] \in Nat
  BY DEF GuardTypeOK
<1>2. captured[r] # None
  BY <1>1, ProxyAssumption
<1> QED BY <1>1, <1>2, ProxyAssumption, WindowAssumption
        DEF Record, ExpiresAt, GuardTypeOK, GuardInv

\* The signature of a request that has one.
LEMMA SignatureType ==
    ASSUME TypeOK, ListInv, NEW r \in Requests, stage[r] # "idle"
    PROVE  message[r] \in Message /\ message[r].signature \in Signatures
<1>1. message[r] \in Messages
  BY DEF TypeOK, ListInv
<1>2. message[r] \in Message
  BY <1>1, MessageAssumption
<1> QED BY <1>2 DEF Message

LEMMA GuardInvariant ==
    ASSUME IInv, [Next]_vars
    PROVE  GuardInv'
<1>0. GuardTypeOK /\ GuardInv /\ now \in Nat /\ TypeOK /\ ListInv
  BY DEF IInv, TypeOK, ProxyTypeOK
<1>1. ASSUME NEW r \in Requests, Arrive(r) PROVE GuardInv'
  BY <1>0, <1>1, GuardFrame DEF Arrive
<1>2. ASSUME NEW r \in Requests, Lists(r) PROVE GuardInv'
  BY <1>0, <1>2, GuardFrame DEF Lists, Resolved, Lock
<1>3. ASSUME NEW r \in Requests, Respond(r) PROVE GuardInv'
  BY <1>0, <1>3, GuardGone DEF Respond, Finished, LocalsGone
<1>4. ASSUME NEW r \in Requests, Authenticate(r) PROVE GuardInv'
  BY <1>0, <1>3, <1>4, GuardFrame DEF Authenticate, To
<1>5. ASSUME NEW r \in Requests, Guards(r) PROVE GuardInv'
  <2>1. CASE Due(r)
    <3>1. now' = now /\ UNCHANGED <<seen, captured, accepted>>
      BY <2>1 DEF Due, To
    <3> QED BY <1>0, <3>1 DEF GuardInv
  <2>2. CASE Capacity(r)
    BY <1>0, <2>2, GuardFrame DEF Capacity, To
  <2>3. CASE Retain(r)
    <3>1. now' = now
      BY <2>3 DEF Retain, To
    <3> QED BY <1>0, <2>3, <3>1, GuardRetain
  <2> QED BY <1>5, <2>1, <2>2, <2>3 DEF Guards
<1>6. ASSUME NEW r \in Requests, CheckAndRecord(r) PROVE GuardInv'
  <2>1. CASE Respond(r)
    BY <1>3, <2>1
  <2>2. CASE ~Respond(r)
    <3>1. now' = now /\ Record(r, message[r].signature) /\ stage[r] # "idle"
      BY <1>6, <2>2 DEF CheckAndRecord, To
    <3>2. message[r].signature \in Signatures
      BY <1>0, <3>1, SignatureType
    <3> QED BY <1>0, <3>1, <3>2, GuardRecord
  <2> QED BY <2>1, <2>2
<1>7. ASSUME NEW r \in Requests, VerifySignature(r) PROVE GuardInv'
  BY <1>0, <1>3, <1>7, GuardGone DEF VerifySignature, To
<1>8. ASSUME NEW r \in Requests, Disconnect(r) PROVE GuardInv'
  BY <1>0, <1>8, GuardGone DEF Disconnect, Drop, Finished, LocalsGone
<1>9. ASSUME Primes PROVE GuardInv'
  BY <1>0, <1>9, GuardFrame DEF Primes, Prime
<1>10. ASSUME Answered PROVE GuardInv'
  BY <1>0, <1>10, GuardFrame DEF Answered, LookedUp
<1>11. ASSUME Tick PROVE GuardInv'
  BY <1>0, <1>11, GuardFrame DEF Tick
<1>12. CASE UNCHANGED vars
  BY <1>0, <1>12, GuardFrame DEF vars, guardVars
<1> QED BY <1>1, <1>2, <1>3, <1>4, <1>5, <1>6, <1>7, <1>8, <1>9, <1>10, <1>11, <1>12
        DEF Next, Step, OwnStep, Handled

---------------------------------------------------------------------------
(* The cache of trusted proxies. *)

\* What a step of a request that leaves the cache and its lock alone does.
Moves(r) ==
    /\ UNCHANGED <<now, hosts, snapshot, built, holder, looking, until, asked, abandoned, named>>
    /\ stage[r] # "locked"
    /\ \E next \in Stage \ {"locked"} : stage' = [stage EXCEPT ![r] = next]
    /\ arrived' \in {arrived, [arrived EXCEPT ![r] = 0], [arrived EXCEPT ![r] = now]}

LEMMA RespondMoves ==
    ASSUME NEW r \in Requests, stage[r] # "locked", Respond(r)
    PROVE  Moves(r)
BY DEF Respond, Finished, Moves, Stage

LEMMA ToMoves ==
    ASSUME NEW r \in Requests, stage[r] # "locked", NEW next \in Stage \ {"locked"}, To(r, next)
    PROVE  Moves(r)
BY DEF To, Moves

LEMMA RequestMoves ==
    ASSUME NEW r \in Requests,
           \/ Arrive(r) \/ Authenticate(r) \/ Guards(r) \/ CheckAndRecord(r)
           \/ VerifySignature(r) \/ Handled(r)
    PROVE  Moves(r)
<1>1. CASE Arrive(r)
  BY <1>1 DEF Arrive, Moves, Stage
<1>2. CASE Authenticate(r)
  BY <1>2, RespondMoves, ToMoves DEF Authenticate, Stage
<1>3. CASE Guards(r)
  BY <1>3, ToMoves DEF Guards, Due, Capacity, Retain, Stage
<1>4. CASE CheckAndRecord(r)
  BY <1>4, RespondMoves, ToMoves DEF CheckAndRecord, Stage
<1>5. CASE VerifySignature(r)
  BY <1>5, RespondMoves, ToMoves DEF VerifySignature, Stage
<1>6. CASE Handled(r)
  BY <1>6, RespondMoves DEF Handled
<1> QED BY <1>1, <1>2, <1>3, <1>4, <1>5, <1>6

LEMMA MovesKeep ==
    ASSUME ProxyTypeOK, LockInv, RefreshInv, AttemptInv, NEW r \in Requests, Moves(r)
    PROVE  LockInv' /\ RefreshInv' /\ AttemptInv'
<1>1. PICK next \in Stage \ {"locked"} : stage' = [stage EXCEPT ![r] = next]
  BY DEF Moves
<1>2. holder # r /\ r # Boot
  BY ProxyAssumption DEF Moves, LockInv
<1>3. UNCHANGED <<now, hosts, snapshot, built, holder, looking, until, named>>
  BY DEF Moves
<1>4. LockInv'
  <2>1. stage'[Boot] = stage[Boot]
    BY <1>1, <1>2 DEF ProxyTypeOK, Tasks
  <2>2. \A q \in Requests : stage'[q] = "locked" <=> stage[q] = "locked"
    BY <1>1 DEF Moves, ProxyTypeOK, Tasks
  <2>3. looking' # 0 => ~Usable(hosts, Names[looking])'
    BY <1>3 DEF LockInv, Usable, IsFresh, Ttl
  <2> QED BY <1>3, <2>1, <2>2, <2>3 DEF LockInv
<1>5. RefreshInv'
  <2>1. \A q \in Requests : arrived'[q] <= now' /\ (q # r => arrived'[q] = arrived[q])
    BY <1>3 DEF Moves, RefreshInv, ProxyTypeOK
  <2>2. ASSUME NEW q \in Requests, holder' = q, NEW j \in 1..(looking' - 1)
        PROVE  Recent(q, Names[j])'
    BY <1>2, <1>3, <2>1, <2>2 DEF RefreshInv, Recent, Ttl
  <2> QED BY <1>3, <2>1, <2>2 DEF RefreshInv
<1>6. AttemptInv'
  BY <1>3 DEF AttemptInv, AllFresh, Usable, IsFresh, Ttl, Merged
<1> QED BY <1>4, <1>5, <1>6

\* Time makes no attempt fresh again.
LEMMA TickKeeps ==
    ASSUME ProxyTypeOK, LockInv, RefreshInv, AttemptInv, Tick
    PROVE  LockInv' /\ RefreshInv' /\ AttemptInv'
<1>1. /\ UNCHANGED <<hosts, snapshot, built, holder, looking, stage, arrived, named>>
      /\ now \in Nat /\ now' = now + 1
  BY DEF Tick, ProxyTypeOK
<1>2. ASSUME NEW h \in Hostnames, Usable(hosts, h)' PROVE Usable(hosts, h)
  <2>1. hosts[h] \in HostnameState
    BY <1>1, <1>2 DEF ProxyTypeOK, Usable
  <2>2. hosts[h].attempted_at \in Nat /\ Ttl(hosts[h]) \in Nat /\ Ttl(hosts[h])' = Ttl(hosts[h])
    BY <1>1, <2>1, ProxyAssumption DEF HostnameState, Ttl
  <2> QED BY <1>1, <1>2, <2>2 DEF Usable, IsFresh
<1>3. LockInv'
  <2>1. looking' # 0 => ~Usable(hosts, Names[looking])'
    <3> SUFFICES ASSUME looking # 0, Usable(hosts, Names[looking])' PROVE FALSE
      BY <1>1
    <3>1. Names[looking] \in Hostnames
      BY NamesType, LenType DEF ProxyTypeOK
    <3>2. Usable(hosts, Names[looking])
      BY <1>1, <1>2, <3>1 DEF Usable
    <3> QED BY <3>2 DEF LockInv
  <2> QED BY <1>1, <2>1 DEF LockInv
<1>4. RefreshInv'
  <2>1. \A q \in Requests : arrived'[q] <= now'
    BY <1>1 DEF RefreshInv, ProxyTypeOK
  <2> QED BY <1>1, <2>1 DEF RefreshInv, Recent, Ttl
<1>5. AttemptInv'
  <2>1. built' /\ AllFresh' => snapshot' = Merged(hosts)'
    BY <1>1, <1>2 DEF AllFresh, AttemptInv, Merged
  <2>2. \A h \in Hostnames : hosts'[h] # None => hosts'[h].attempted_at <= now'
    BY <1>1 DEF AttemptInv, ProxyTypeOK, HostnameState
  <2> QED BY <1>1, <2>1, <2>2 DEF AttemptInv
<1> QED BY <1>3, <1>4, <1>5

\* What refresh_locked has passed on its way to a position.
RecentIn(cache, r, h) == cache[h] # None /\ arrived[r] - cache[h].attempted_at < Ttl(cache[h])
Passed(cache, task, from) ==
    \A j \in 1..(from - 1) : IF task = Boot THEN cache[Names[j]] # None
                                            ELSE RecentIn(cache, task, Names[j])

LEMMA UsableIsRecent ==
    ASSUME ProxyTypeOK, RefreshInv, NEW task \in Tasks, NEW h \in Hostnames,
           NEW cache \in [Hostnames -> HostnameState \cup {None}], Usable(cache, h)
    PROVE  IF task = Boot THEN cache[h] # None ELSE RecentIn(cache, task, h)
<1>1. cache[h] \in HostnameState
  BY DEF Usable
<1>2. cache[h].attempted_at \in Nat /\ Ttl(cache[h]) \in Nat /\ now \in Nat
  BY <1>1, ProxyAssumption DEF HostnameState, Ttl, ProxyTypeOK
<1>3. CASE task # Boot
  <2>1. arrived[task] \in Nat /\ arrived[task] <= now
    BY <1>3 DEF Tasks, RefreshInv, ProxyTypeOK
  <2> QED BY <1>2, <1>3, <2>1 DEF Usable, IsFresh, RecentIn
<1> QED BY <1>3 DEF Usable

\* It passes a name only when an attempt at it may be used.
LEMMA PassesUpTo ==
    ASSUME ProxyTypeOK, RefreshInv, NEW task \in Tasks,
           NEW cache \in [Hostnames -> HostnameState \cup {None}],
           NEW from \in 1..(Len(Names) + 1), Passed(cache, task, from),
           NEW to \in from..(Len(Names) + 1), \A i \in Stale(cache, from) : to <= i
    PROVE  Passed(cache, task, to)
<1> SUFFICES ASSUME NEW j \in 1..(to - 1)
             PROVE  IF task = Boot THEN cache[Names[j]] # None
                                   ELSE RecentIn(cache, task, Names[j])
  BY DEF Passed
<1>1. CASE j < from
  <2>1. j \in 1..(from - 1)
    BY <1>1
  <2> QED BY <2>1 DEF Passed
<1>2. CASE j >= from
  <2>1. j \in from..Len(Names) /\ j \in 1..Len(Names) /\ ~(to <= j)
    BY <1>2, LenType
  <2>2. Usable(cache, Names[j])
    BY <2>1 DEF Stale
  <2>3. Names[j] \in Hostnames
    BY <2>1, NamesType
  <2> QED BY <2>2, <2>3, UsableIsRecent
<1> QED BY <1>1, <1>2

\* The two ways on from there: the next name to look up, or the end.
Awaits(task, cache, from) ==
    /\ looking' \in Stale(cache, from)
    /\ Ask(looking')
    /\ Passed(cache, task, looking')
    /\ holder' = task
    /\ stage' = [stage EXCEPT ![task] = IF task = Boot THEN @ ELSE "locked"]
    /\ UNCHANGED <<snapshot, built, list, until>>
Completes(task, cache) ==
    /\ Passed(cache, task, Len(Names) + 1)
    /\ Rebuild(task, cache)

LEMMA RefreshSteps ==
    ASSUME ProxyTypeOK, RefreshInv, NEW task \in Tasks,
           NEW cache \in [Hostnames -> HostnameState \cup {None}],
           NEW from \in 1..(Len(Names) + 1), Passed(cache, task, from),
           Refresh(task, cache, from)
    PROVE  hosts' = cache /\ (Awaits(task, cache, from) \/ Completes(task, cache))
<1>1. CASE Stale(cache, from) = {}
  <2>1. Len(Names) + 1 \in from..(Len(Names) + 1)
    BY LenType
  <2>2. Passed(cache, task, Len(Names) + 1)
    BY <1>1, <2>1, PassesUpTo
  <2> QED BY <1>1, <2>2 DEF Refresh, Completes
<1>2. CASE Stale(cache, from) # {}
  <2>1. /\ looking' \in Stale(cache, from) /\ Ask(looking') /\ \A j \in Stale(cache, from) : looking' <= j
        /\ holder' = task
        /\ stage' = [stage EXCEPT ![task] = IF task = Boot THEN @ ELSE "locked"]
        /\ UNCHANGED <<snapshot, built, list, until>>
        /\ hosts' = cache
    BY <1>2 DEF Refresh, Ask
  <2>2. looking' \in from..(Len(Names) + 1)
    BY <2>1, StaleType, LenType
  <2>3. Passed(cache, task, looking')
    BY <2>1, <2>2, PassesUpTo
  <2> QED BY <2>1, <2>3 DEF Awaits
<1> QED BY <1>1, <1>2

\* Every name is passed at the end.
LEMMA PassedAll ==
    ASSUME NEW cache, NEW task, Passed(cache, task, Len(Names) + 1), NEW h \in Hostnames
    PROVE  IF task = Boot THEN cache[h] # None ELSE RecentIn(cache, task, h)
<1>1. PICK i \in 1..Len(Names) : Names[i] = h
  BY NamesCover
<1>2. i \in 1..((Len(Names) + 1) - 1)
  BY LenType
<1> QED BY <1>1, <1>2 DEF Passed

LEMMA RefreshLocks ==
    ASSUME ProxyTypeOK, RefreshInv, NEW task \in Tasks,
           NEW cache \in [Hostnames -> HostnameState \cup {None}],
           NEW from \in 1..(Len(Names) + 1), UNCHANGED <<now, arrived>>,
           hosts' = cache, Awaits(task, cache, from) \/ Completes(task, cache),
           task = Boot => stage[Boot] \in {"prime", "grace"},
           \A r \in Requests \ {task} : stage[r] # "locked"
    PROVE  LockInv' /\ RefreshInv'
<1>0. /\ \A r \in Requests : r # Boot /\ r # None /\ r \in Tasks
      /\ Boot # None /\ Boot \in Tasks /\ task # None
  BY ProxyAssumption DEF Tasks
<1>1. \A r \in Requests : arrived'[r] <= now'
  BY DEF RefreshInv
<1>2. CASE Awaits(task, cache, from)
  <2>1. looking' \in 1..Len(Names) /\ ~Usable(cache, Names[looking'])
    BY <1>2, StaleType DEF Awaits
  <2>2. looking' # 0 /\ holder' = task
    BY <1>2, <2>1, LenType DEF Awaits
  <2>3. \A r \in Requests : stage'[r] = "locked" <=> holder' = r
    BY <1>0, <1>2 DEF Awaits, ProxyTypeOK
  <2>4. holder' = Boot => stage'[Boot] \in {"prime", "grace"}
    BY <1>0, <1>2 DEF Awaits, ProxyTypeOK
  <2>5. ~Usable(hosts, Names[looking])'
    BY <2>1 DEF Usable, IsFresh, Ttl
  <2>6. LockInv'
    BY <1>0, <2>2, <2>3, <2>4, <2>5 DEF LockInv
  <2>7. Passed(cache, task, looking')
    BY <1>2 DEF Awaits
  <2>8. ASSUME NEW r \in Requests, holder' = r, NEW j \in 1..(looking' - 1)
        PROVE  Recent(r, Names[j])'
    <3>1. RecentIn(cache, r, Names[j])
      BY <1>0, <2>2, <2>7, <2>8 DEF Passed
    <3> QED BY <3>1 DEF Recent, RecentIn, Ttl
  <2>9. ASSUME holder' = Boot, NEW j \in 1..(looking' - 1)
        PROVE  hosts'[Names[j]] # None
    BY <2>2, <2>7, <2>9 DEF Passed
  <2> QED BY <1>1, <2>6, <2>8, <2>9 DEF RefreshInv
<1>3. CASE Completes(task, cache)
  <2>1. holder' = None /\ looking' = 0
    BY <1>3 DEF Completes, Rebuild, Rebuilt, Released
  <2>2. \A r \in Requests : stage'[r] # "locked"
    <3>1. CASE task = Boot
      BY <1>0, <1>3, <3>1 DEF Completes, Rebuild, Rebuilt, ProxyTypeOK
    <3>2. CASE task # Boot
      BY <1>0, <1>3, <3>2 DEF Completes, Rebuild, Rebuilt, ProxyTypeOK
    <3> QED BY <3>1, <3>2
  <2>3. LockInv'
    BY <1>0, <2>1, <2>2 DEF LockInv
  <2>4. RefreshInv'
    BY <1>0, <1>1, <2>1 DEF RefreshInv
  <2> QED BY <2>3, <2>4
<1> QED BY <1>2, <1>3

\* The snapshot is rebuilt from the cache, or the cache holds a name that must
\* be looked up first.
LEMMA RefreshSnapshot ==
    ASSUME NEW task, NEW cache, NEW from \in 1..(Len(Names) + 1), now' = now,
           hosts' = cache, Awaits(task, cache, from) \/ Completes(task, cache),
           built', AllFresh'
    PROVE  snapshot' = Merged(hosts)'
<1>1. CASE Awaits(task, cache, from)
  <2>1. PICK i \in Stale(cache, from) : looking' = i
    BY <1>1 DEF Awaits
  <2>2. Names[i] \in Hostnames /\ ~Usable(cache, Names[i])
    BY StaleType, NamesType
  <2>3. Usable(hosts, Names[i])'
    BY <2>2 DEF AllFresh
  <2> QED BY <2>2, <2>3 DEF Usable, IsFresh, Ttl
<1>2. CASE Completes(task, cache)
  BY <1>2 DEF Completes, Rebuild, Rebuilt, Merged
<1> QED BY <1>1, <1>2

\* The relation of one name's entry to the lookups that have ended.
EntryInv(cache, at, h) ==
    cache[h] # None =>
        /\ cache[h].attempted_at <= now
        /\ \A a \in cache[h].addresses : at[a] # None /\ cache[h].attempted_at <= at[a]

LEMMA RefreshAttempts ==
    ASSUME ProxyTypeOK, NEW task \in Tasks,
           NEW cache \in [Hostnames -> HostnameState \cup {None}],
           NEW from \in 1..(Len(Names) + 1), UNCHANGED now,
           hosts' = cache, Awaits(task, cache, from) \/ Completes(task, cache),
           \A h \in Hostnames : EntryInv(cache, named', h)
    PROVE  AttemptInv'
<1>1. built' /\ AllFresh' => snapshot' = Merged(hosts)'
  BY RefreshSnapshot
<1> QED BY <1>1 DEF AttemptInv, EntryInv

\* The lock is granted to a request.
LEMMA LockSteps ==
    ASSUME ProxyTypeOK, LockInv, RefreshInv, AttemptInv, NEW r \in Requests, Lock(r)
    PROVE  /\ LockInv' /\ RefreshInv' /\ AttemptInv'
           /\ hosts' = hosts /\ (Awaits(r, hosts, 1) \/ Completes(r, hosts))
<1>1. /\ r \in Tasks /\ r # Boot /\ 1 \in 1..(Len(Names) + 1) /\ holder = None
      /\ hosts \in [Hostnames -> HostnameState \cup {None}]
      /\ UNCHANGED <<now, arrived, named>>
      /\ Refresh(r, hosts, 1)
  BY LenType, ProxyAssumption DEF Lock, Tasks, ProxyTypeOK
<1>2. Passed(hosts, r, 1)
  BY DEF Passed
<1>3. hosts' = hosts /\ (Awaits(r, hosts, 1) \/ Completes(r, hosts))
  BY <1>1, <1>2, RefreshSteps
<1>4. \A q \in Requests \ {r} : stage[q] # "locked"
  BY <1>1, ProxyAssumption DEF LockInv
<1>5. LockInv' /\ RefreshInv'
  BY <1>1, <1>3, <1>4, RefreshLocks
<1>6. \A h \in Hostnames : EntryInv(hosts, named', h)
  BY <1>1, ProxyAssumption DEF AttemptInv, EntryInv
<1>7. AttemptInv'
  BY <1>1, <1>3, <1>6, RefreshAttempts
<1> QED BY <1>3, <1>5, <1>7

\* The boot task clears the cache, and then has to look something up.
LEMMA PrimeSteps ==
    ASSUME ProxyTypeOK, LockInv, RefreshInv, AttemptInv, Prime
    PROVE  /\ LockInv' /\ RefreshInv' /\ AttemptInv' /\ holder' = Boot /\ UNCHANGED list
           /\ \A r \in Requests : stage'[r] = stage[r]
<1> DEFINE cache == [h \in Hostnames |-> None]
<1>1. /\ Boot \in Tasks /\ 1 \in 1..(Len(Names) + 1) /\ holder = None
      /\ cache \in [Hostnames -> HostnameState \cup {None}]
      /\ UNCHANGED <<now, arrived, named>>
      /\ stage[Boot] \in {"prime", "grace"}
      /\ Refresh(Boot, cache, 1)
  BY LenType DEF Prime, Tasks
<1>2. Passed(cache, Boot, 1)
  BY DEF Passed
<1> HIDE DEF cache
<1>3. hosts' = cache /\ (Awaits(Boot, cache, 1) \/ Completes(Boot, cache))
  BY <1>1, <1>2, RefreshSteps
<1>4. \A q \in Requests \ {Boot} : stage[q] # "locked"
  BY <1>1, ProxyAssumption DEF LockInv
<1>5. LockInv' /\ RefreshInv'
  BY <1>1, <1>3, <1>4, RefreshLocks
<1>6. \A h \in Hostnames : EntryInv(cache, named', h)
  BY <1>1 DEF AttemptInv, EntryInv, cache
<1>7. AttemptInv'
  BY <1>1, <1>3, <1>6, RefreshAttempts
<1>8. 1 \in 1..Len(Names)
  BY ProxyAssumption, LenType
<1>9. ~Completes(Boot, cache)
  BY <1>8, NamesType, PassedAll DEF Completes, cache
<1>10. Awaits(Boot, cache, 1)
  BY <1>3, <1>9
<1> QED BY <1>5, <1>7, <1>10, ProxyAssumption DEF Awaits, ProxyTypeOK, Tasks

\* The cache after a lookup of the name at position looking.
Answer(addresses) == [addresses |-> addresses, attempted_at |-> now]
AnsweredCache(addresses) == [hosts EXCEPT ![Names[looking]] = Answer(addresses)]

LEMMA AnswerUsable ==
    ASSUME ProxyTypeOK, NEW a \in SUBSET Addresses,
           NEW cache \in [Hostnames -> HostnameState \cup {None}],
           NEW h \in Hostnames, cache[h] = Answer(a)
    PROVE  Usable(cache, h)
<1>1. Answer(a) \in HostnameState /\ Answer(a).attempted_at = now /\ now \in Nat
  BY DEF Answer, HostnameState, ProxyTypeOK
<1>2. Ttl(Answer(a)) \in Nat \ {0}
  BY ProxyAssumption DEF Ttl
<1>3. Answer(a) # None
  BY <1>1, ProxyAssumption DEF HostnameState
<1>4. now - Answer(a).attempted_at < Ttl(Answer(a))
  BY <1>1, <1>2
<1> QED BY <1>3, <1>4 DEF Usable, IsFresh

LEMMA LookedUpPasses ==
    ASSUME ProxyTypeOK, LockInv, RefreshInv, NEW a \in SUBSET Addresses, looking # 0
    PROVE  /\ holder \in Tasks /\ looking \in 1..Len(Names) /\ Names[looking] \in Hostnames
           /\ AnsweredCache(a) \in [Hostnames -> HostnameState \cup {None}]
           /\ Passed(AnsweredCache(a), holder, looking + 1)
<1>1. looking \in 1..Len(Names) /\ holder \in Tasks
  BY LenType DEF ProxyTypeOK, LockInv
<1>2. Names[looking] \in Hostnames
  BY <1>1, NamesType
<1>3. Answer(a) \in HostnameState
  BY DEF Answer, HostnameState, ProxyTypeOK
<1>4. AnsweredCache(a) \in [Hostnames -> HostnameState \cup {None}]
  BY <1>2, <1>3 DEF AnsweredCache, ProxyTypeOK
<1>5. ASSUME NEW j \in 1..looking
      PROVE  IF holder = Boot THEN AnsweredCache(a)[Names[j]] # None
                              ELSE RecentIn(AnsweredCache(a), holder, Names[j])
  <2>1. Names[j] \in Hostnames
    BY <1>1, LenType, NamesType
  <2>2. CASE Names[j] = Names[looking]
    <3>1. AnsweredCache(a)[Names[j]] = Answer(a)
      BY <1>2, <2>2 DEF AnsweredCache, ProxyTypeOK
    <3>2. Usable(AnsweredCache(a), Names[j])
      BY <1>4, <2>1, <3>1, AnswerUsable
    <3> QED BY <1>1, <1>4, <2>1, <3>2, UsableIsRecent
  <2>3. CASE Names[j] # Names[looking]
    <3>1. AnsweredCache(a)[Names[j]] = hosts[Names[j]]
      BY <2>1, <2>3 DEF AnsweredCache, ProxyTypeOK
    <3>2. j \in 1..(looking - 1)
      BY <1>1, <2>3, LenType
    <3>3. CASE holder = Boot
      BY <3>1, <3>2, <3>3 DEF RefreshInv
    <3>4. CASE holder # Boot
      <4>1. holder \in Requests
        BY <1>1, <3>4 DEF Tasks
      <4>2. Recent(holder, Names[j])
        BY <3>2, <4>1 DEF RefreshInv
      <4> QED BY <3>1, <3>4, <4>2 DEF Recent, RecentIn
    <3> QED BY <3>3, <3>4
  <2> QED BY <2>2, <2>3
<1>6. (looking + 1) - 1 = looking
  BY <1>1
<1>7. Passed(AnsweredCache(a), holder, looking + 1)
  BY <1>5, <1>6 DEF Passed
<1> QED BY <1>1, <1>2, <1>4, <1>7

LEMMA LookedUpSteps ==
    ASSUME ProxyTypeOK, LockInv, RefreshInv, AttemptInv, NEW a \in SUBSET Addresses, LookedUp(a)
    PROVE  /\ LockInv' /\ RefreshInv' /\ AttemptInv'
           /\ holder \in Tasks /\ looking \in 1..Len(Names)
           /\ hosts' = AnsweredCache(a)
           /\ \/ Awaits(holder, AnsweredCache(a), looking + 1)
              \/ Completes(holder, AnsweredCache(a))
<1> DEFINE cache == AnsweredCache(a)
<1>1. /\ holder \in Tasks /\ looking \in 1..Len(Names) /\ Names[looking] \in Hostnames
      /\ cache \in [Hostnames -> HostnameState \cup {None}]
      /\ Passed(cache, holder, looking + 1)
  BY LookedUpPasses DEF LookedUp
<1>2. looking + 1 \in 1..(Len(Names) + 1)
  BY <1>1, LenType
<1>3. /\ UNCHANGED <<now, arrived>> /\ Refresh(holder, cache, looking + 1)
      /\ named' = [b \in Addresses |-> IF b \in a THEN now ELSE named[b]]
  BY DEF LookedUp, AnsweredCache, Answer
<1>4. /\ now \in Nat /\ None # now
      /\ \A h \in Hostnames : hosts[h] = None \/ hosts[h] \in HostnameState
      /\ \A b \in Addresses : named[b] \in Nat \cup {None}
  BY ProxyAssumption DEF ProxyTypeOK
<1>5. ASSUME NEW h \in Hostnames
      PROVE  EntryInv(cache, named', h)
  <2>1. CASE h = Names[looking]
    <3>1. cache[h] = Answer(a) /\ cache[h] # None
      <4>1. Answer(a) \in HostnameState
        BY DEF Answer, HostnameState, ProxyTypeOK
      <4>2. cache[h] = Answer(a)
        BY <1>1, <2>1 DEF AnsweredCache, ProxyTypeOK
      <4> QED BY <4>1, <4>2, ProxyAssumption DEF HostnameState
    <3>2. cache[h].attempted_at = now /\ cache[h].addresses = a
      BY <3>1 DEF Answer
    <3>3. \A b \in a : named'[b] = now
      BY <1>3
    <3> QED BY <1>4, <3>1, <3>2, <3>3 DEF EntryInv
  <2>2. CASE h # Names[looking]
    <3>1. cache[h] = hosts[h]
      BY <1>1, <1>3, <2>2 DEF AnsweredCache, ProxyTypeOK
    <3>2. ASSUME hosts[h] # None, NEW b \in hosts[h].addresses
          PROVE  named'[b] # None /\ hosts[h].attempted_at <= named'[b]
      <4>1. hosts[h] \in HostnameState
        BY <1>4, <3>2
      <4>2. b \in Addresses /\ hosts[h].attempted_at \in Nat
        BY <3>2, <4>1 DEF HostnameState
      <4>3. hosts[h].attempted_at <= now
        BY <3>2 DEF AttemptInv
      <4>4. named[b] # None /\ hosts[h].attempted_at <= named[b]
        BY <3>2 DEF AttemptInv
      <4> QED BY <1>3, <1>4, <4>2, <4>3, <4>4
    <3>3. hosts[h] # None => hosts[h].attempted_at <= now
      BY DEF AttemptInv
    <3> QED BY <3>1, <3>2, <3>3 DEF EntryInv
  <2> QED BY <2>1, <2>2
<1> HIDE DEF cache
<1>6. hosts' = cache /\ (Awaits(holder, cache, looking + 1) \/ Completes(holder, cache))
  BY <1>1, <1>2, <1>3, RefreshSteps
<1>7. /\ holder = Boot => stage[Boot] \in {"prime", "grace"}
      /\ \A q \in Requests \ {holder} : stage[q] # "locked"
  BY DEF LockInv
<1>8. LockInv' /\ RefreshInv'
  BY <1>1, <1>2, <1>3, <1>6, <1>7, RefreshLocks
<1>9. AttemptInv'
  BY <1>1, <1>2, <1>3, <1>5, <1>6, RefreshAttempts
<1> QED BY <1>1, <1>6, <1>8, <1>9 DEF cache

\* A dropped request gives the lock back; what it inserted stays.
LEMMA DropKeeps ==
    ASSUME ProxyTypeOK, LockInv, RefreshInv, AttemptInv, NEW r \in Requests, Drop(r)
    PROVE  LockInv' /\ RefreshInv' /\ AttemptInv'
<1>1. /\ UNCHANGED <<now, hosts, snapshot, built, named>>
      /\ stage' = [stage EXCEPT ![r] = "idle"] /\ arrived' = [arrived EXCEPT ![r] = 0]
      /\ r # Boot /\ r # None
  BY ProxyAssumption DEF Drop, Finished
<1>2. \/ holder = r /\ holder' = None /\ looking' = 0
      \/ holder # r /\ holder' = holder /\ looking' = looking
  BY DEF Drop, Released
<1>3. LockInv'
  <2>1. \A q \in Requests : stage'[q] = IF q = r THEN "idle" ELSE stage[q]
    BY <1>1 DEF ProxyTypeOK, Tasks
  <2>2. stage'[Boot] = stage[Boot]
    BY <1>1 DEF ProxyTypeOK, Tasks
  <2>3. looking' # 0 => ~Usable(hosts, Names[looking])'
    BY <1>1, <1>2 DEF LockInv, Usable, IsFresh, Ttl
  <2>4. holder' = None <=> looking' = 0
    BY <1>2 DEF LockInv
  <2>5. \A q \in Requests : stage'[q] = "locked" <=> holder' = q
    BY <1>1, <1>2, <2>1, ProxyAssumption DEF LockInv
  <2> QED BY <1>2, <2>2, <2>3, <2>4, <2>5, ProxyAssumption DEF LockInv
<1>4. RefreshInv'
  <2>1. \A q \in Requests : arrived'[q] <= now' /\ (q # r => arrived'[q] = arrived[q])
    BY <1>1 DEF RefreshInv, ProxyTypeOK
  <2>2. ASSUME NEW q \in Requests, holder' = q, NEW j \in 1..(looking' - 1)
        PROVE  Recent(q, Names[j])'
    <3>1. q # r /\ holder = q /\ looking' = looking
      BY <1>2, <2>2, ProxyAssumption
    <3> QED BY <1>1, <2>1, <2>2, <3>1 DEF RefreshInv, Recent, Ttl
  <2>3. holder' = Boot => holder = Boot /\ looking' = looking
    BY <1>2, ProxyAssumption
  <2> QED BY <1>1, <2>1, <2>2, <2>3 DEF RefreshInv
<1>5. AttemptInv'
  <2>1. holder' = Boot <=> holder = Boot
    BY <1>1, <1>2, ProxyAssumption
  <2> QED BY <1>1, <2>1 DEF AttemptInv, AllFresh, Usable, IsFresh, Ttl, Merged
<1> QED BY <1>3, <1>4, <1>5

---------------------------------------------------------------------------
(* What a request carries. *)

Listed(r) ==
    /\ stage[r] \in Carried => \A a \in list[r] : Vouched(r, a)
    /\ stage[r] \in {"idle", "read", "queue", "locked", "listed"} <=> client[r] = None
    /\ stage[r] \in Stage \ {"prime", "grace", "done"}
    /\ stage[r] = "idle" <=> message[r] = None
    /\ client[r] # None => ResolveClientIp(message[r], list[r], client[r])

LEMMA ListedAll == ListInv <=> \A r \in Requests : Listed(r)
BY DEF ListInv, Listed

\* Addresses are vouched for by the attempts they come from.
LEMMA MergedVouched ==
    ASSUME NEW cache \in [Hostnames -> HostnameState \cup {None}],
           NEW at \in [Addresses -> Nat \cup {None}], NEW since \in Nat,
           \A h \in Hostnames : /\ cache[h] # None
                                /\ since - cache[h].attempted_at < Ttl(cache[h])
                                /\ \A a \in cache[h].addresses :
                                      at[a] # None /\ cache[h].attempted_at <= at[a],
           NEW x \in Merged(cache)
    PROVE  x \in Networks \/ (at[x] # None /\ since - at[x] < PositiveTtl)
<1> SUFFICES ASSUME x \notin Networks
             PROVE  at[x] # None /\ since - at[x] < PositiveTtl
  OBVIOUS
<1>1. PICK h \in Hostnames : cache[h] # None /\ x \in cache[h].addresses
  BY DEF Merged
<1>2. cache[h] \in HostnameState
  BY <1>1
<1>3. x \in Addresses /\ cache[h].attempted_at \in Nat /\ cache[h].addresses # {}
  BY <1>1, <1>2 DEF HostnameState
<1>4. Ttl(cache[h]) = PositiveTtl
  BY <1>3 DEF Ttl
<1>5. /\ at[x] # None /\ cache[h].attempted_at <= at[x]
      /\ since - cache[h].attempted_at < PositiveTtl
  BY <1>1, <1>4
<1>6. at[x] \in Nat
  BY <1>3, <1>5
<1> QED BY <1>3, <1>5, <1>6, ProxyAssumption

\* A later naming vouches for an address as well.
LEMMA ListedFrame ==
    ASSUME ProxyTypeOK, NEW r \in Requests, arrived[r] <= now, Listed(r),
           stage'[r] = stage[r], arrived'[r] = arrived[r], list'[r] = list[r],
           client'[r] = client[r], message'[r] = message[r],
           \A a \in Addresses : named'[a] \in {named[a], now}
    PROVE  Listed(r)'
<1>1. ASSUME NEW a \in list[r], Vouched(r, a) PROVE Vouched(r, a)'
  <2>1. a \in Addresses /\ now \in Nat /\ arrived[r] \in Nat
    BY DEF ProxyTypeOK
  <2>2. now # None /\ arrived[r] - now < PositiveTtl
    BY <2>1, ProxyAssumption
  <2>3. CASE named'[a] = named[a]
    BY <1>1, <2>3 DEF Vouched
  <2>4. CASE named'[a] = now
    BY <2>2, <2>4 DEF Vouched
  <2> QED BY <2>1, <2>3, <2>4
<1>2. stage'[r] \in Carried => \A a \in list'[r] : Vouched(r, a)'
  BY <1>1 DEF Listed
<1>3. client'[r] # None => ResolveClientIp(message[r], list[r], client[r])'
  BY DEF Listed, ResolveClientIp
<1> QED BY <1>2, <1>3 DEF Listed

\* refresh_locked gives its request a list, and nobody else.
LEMMA RefreshLists ==
    ASSUME TypeOK, TypeOK', RefreshInv, AttemptInv', ListInv, NEW task \in Tasks,
           NEW cache \in [Hostnames -> HostnameState \cup {None}],
           NEW from, UNCHANGED <<now, arrived, message, client>>,
           task \in Requests => stage[task] \in {"queue", "locked"},
           \A a \in Addresses : named'[a] \in {named[a], now},
           hosts' = cache, Awaits(task, cache, from) \/ Completes(task, cache)
    PROVE  ListInv'
<1> SUFFICES ASSUME NEW r \in Requests PROVE Listed(r)'
  BY ListedAll DEF ListInv, Listed
<1>1. Listed(r) /\ ProxyTypeOK /\ ProxyTypeOK' /\ r \in Tasks /\ Boot \in Tasks /\ r # Boot
  BY ListedAll, ProxyAssumption DEF TypeOK, Tasks
<1>2. arrived[r] <= now
  BY DEF RefreshInv
<1>3. CASE r # task
  <2>1. stage'[r] = stage[r] /\ list'[r] = list[r]
    BY <1>1, <1>3 DEF Awaits, Completes, Rebuild, Rebuilt, ProxyTypeOK
  <2> QED BY <1>1, <1>2, <2>1, ListedFrame
<1>4. CASE r = task /\ Awaits(task, cache, from)
  <2>1. stage'[r] = "locked" /\ stage[r] \in {"queue", "locked"}
    BY <1>1, <1>4 DEF Awaits, ProxyTypeOK
  <2> QED BY <1>1, <2>1 DEF Listed, Carried, Stage
<1>5. CASE r = task /\ Completes(task, cache)
  <2>1. /\ stage'[r] = "listed" /\ list'[r] = Merged(cache)
        /\ stage[r] \in {"queue", "locked"}
    BY <1>1, <1>5 DEF Completes, Rebuild, Rebuilt, ProxyTypeOK
  <2>2. \A h \in Hostnames : RecentIn(cache, r, h)
    BY <1>1, <1>5, PassedAll DEF Completes
  <2>3. \A h \in Hostnames :
            /\ cache[h] # None /\ arrived[r] - cache[h].attempted_at < Ttl(cache[h])
            /\ \A a \in cache[h].addresses : named'[a] # None /\ cache[h].attempted_at <= named'[a]
    BY <2>2 DEF RecentIn, AttemptInv
  <2>4. named' \in [Addresses -> Nat \cup {None}] /\ arrived[r] \in Nat
    BY <1>1 DEF ProxyTypeOK
  <2>5. \A a \in list'[r] : Vouched(r, a)'
    BY <2>1, <2>3, <2>4, MergedVouched DEF Vouched
  <2> QED BY <1>1, <2>1, <2>5 DEF Listed, Carried, Stage
<1> QED BY <1>3, <1>4, <1>5

\* The fast path.
LEMMA ResolvedLists ==
    ASSUME TypeOK, LockInv, RefreshInv, AttemptInv, ListInv, NEW r \in Requests, Resolved(r),
           UNCHANGED <<message, client>>
    PROVE  Listed(r)'
<1>1. /\ Listed(r) /\ ProxyTypeOK /\ r \in Tasks /\ stage[r] = "read"
      /\ UNCHANGED <<now, arrived, named>>
  BY ListedAll DEF TypeOK, Tasks, Resolved
<1>2. CASE ~(built /\ AllFresh)
  <2>1. stage'[r] = "queue"
    BY <1>1, <1>2 DEF Resolved, ProxyTypeOK
  <2> QED BY <1>1, <2>1 DEF Listed, Carried, Stage
<1>3. CASE built /\ AllFresh
  <2>1. stage'[r] = "listed" /\ list'[r] = Merged(hosts)
    BY <1>1, <1>3 DEF Resolved, ProxyTypeOK, AttemptInv
  <2>2. \A h \in Hostnames : RecentIn(hosts, r, h)
    <3> SUFFICES ASSUME NEW h \in Hostnames PROVE RecentIn(hosts, r, h)
      OBVIOUS
    <3>1. Usable(hosts, h) /\ hosts \in [Hostnames -> HostnameState \cup {None}] /\ r # Boot
      BY <1>1, <1>3, ProxyAssumption DEF AllFresh, ProxyTypeOK
    <3> QED BY <1>1, <3>1, UsableIsRecent
  <2>3. \A h \in Hostnames :
            /\ hosts[h] # None /\ arrived[r] - hosts[h].attempted_at < Ttl(hosts[h])
            /\ \A a \in hosts[h].addresses : named[a] # None /\ hosts[h].attempted_at <= named[a]
    BY <2>2 DEF RecentIn, AttemptInv
  <2>4. /\ named \in [Addresses -> Nat \cup {None}] /\ arrived[r] \in Nat
        /\ hosts \in [Hostnames -> HostnameState \cup {None}]
    BY <1>1 DEF ProxyTypeOK
  <2>5. \A a \in list'[r] : Vouched(r, a)
    BY <2>1, <2>3, <2>4, MergedVouched DEF Vouched
  <2>6. \A a \in list'[r] : Vouched(r, a)'
    BY <1>1, <2>5 DEF Vouched
  <2> QED BY <1>1, <2>1, <2>6 DEF Listed, Carried, Stage
<1> QED BY <1>2, <1>3

\* A step of one request.
LEMMA OthersListed ==
    ASSUME TypeOK, RefreshInv, ListInv, NEW r \in Requests, UNCHANGED named,
           NEW next, stage' = [stage EXCEPT ![r] = next],
           arrived' \in {arrived, [arrived EXCEPT ![r] = 0], [arrived EXCEPT ![r] = now]},
           list' = list \/ \E l : list' = [list EXCEPT ![r] = l],
           client' = client \/ \E c : client' = [client EXCEPT ![r] = c],
           message' = message \/ \E m : message' = [message EXCEPT ![r] = m],
           Listed(r)'
    PROVE  ListInv'
<1> SUFFICES ASSUME NEW q \in Requests, q # r PROVE Listed(q)'
  BY ListedAll DEF ListInv, Listed
<1>1. stage'[q] = stage[q] /\ arrived'[q] = arrived[q]
  BY DEF TypeOK, ProxyTypeOK, Tasks
<1>2. list'[q] = list[q] /\ client'[q] = client[q] /\ message'[q] = message[q]
  BY DEF TypeOK, ProxyTypeOK
<1>3. ProxyTypeOK /\ Listed(q) /\ arrived[q] <= now
  BY ListedAll DEF TypeOK, RefreshInv
<1> QED BY <1>1, <1>2, <1>3, ListedFrame

LEMMA RespondLists ==
    ASSUME TypeOK, RefreshInv, ListInv, NEW r \in Requests, Finished(r), LocalsGone(r)
    PROVE  ListInv'
<1>1. /\ stage'[r] = "idle" /\ client'[r] = None /\ message'[r] = None
  BY DEF Finished, LocalsGone, TypeOK, ProxyTypeOK, Tasks
<1>2. Listed(r)'
  BY <1>1 DEF Listed, Carried, Stage
<1> QED BY <1>2, OthersListed DEF Finished, LocalsGone

\* A step that only moves a request on, the address it is attributed to known.
LEMMA ToLists ==
    ASSUME TypeOK, RefreshInv, ListInv, NEW r \in Requests,
           NEW next \in Carried \ {"listed"}, To(r, next),
           stage[r] \in Carried \ {"listed"}, UNCHANGED authVars
    PROVE  ListInv'
<1>1. stage'[r] = next /\ stage[r] \in Carried \ {"listed"}
  BY DEF To, TypeOK, ProxyTypeOK, Tasks
<1>2. Listed(r) /\ UNCHANGED <<list, arrived, named, client, message>>
  BY ListedAll DEF To, authVars
<1>3. Listed(r)'
  <2>1. \A a \in list'[r] : Vouched(r, a)'
    BY <1>1, <1>2 DEF Listed, Vouched
  <2>2. ResolveClientIp(message[r], list[r], client[r])'
    BY <1>1, <1>2 DEF Listed, ResolveClientIp, Carried
  <2> QED BY <1>1, <1>2, <2>1, <2>2 DEF Listed, Carried, Stage
<1> QED BY <1>2, <1>3, OthersListed DEF To

LEMMA ListInvariant ==
    ASSUME IInv, TypeOK', [Next]_vars
    PROVE  ListInv'
<1>0. TypeOK /\ ProxyTypeOK /\ LockInv /\ RefreshInv /\ AttemptInv /\ ListInv
  BY DEF IInv, TypeOK
<1>1. ASSUME NEW r \in Requests, Arrive(r) PROVE ListInv'
  <2>1. /\ stage[r] = "idle" /\ stage'[r] = "read" /\ UNCHANGED <<client, named, list>>
        /\ \E m \in Messages : message'[r] = m
    BY <1>0, <1>1 DEF Arrive, TypeOK, ProxyTypeOK, Tasks
  <2>2. message'[r] # None
    BY <2>1, MessageAssumption
  <2>3. Listed(r)'
    BY <1>0, <2>1, <2>2, ListedAll DEF Listed, Carried, Stage
  <2>4. /\ stage' = [stage EXCEPT ![r] = "read"]
        /\ arrived' = [arrived EXCEPT ![r] = now]
        /\ \E m : message' = [message EXCEPT ![r] = m]
    BY <1>1 DEF Arrive
  <2> QED BY <1>0, <2>1, <2>3, <2>4, OthersListed
<1>2. ASSUME NEW r \in Requests, Lists(r) PROVE ListInv'
  <2>1. UNCHANGED <<message, client>>
    BY <1>2 DEF Lists, authVars
  <2>2. CASE Resolved(r)
    <3>1. Listed(r)'
      BY <1>0, <2>1, <2>2, ResolvedLists
    <3>2. /\ UNCHANGED <<named, arrived>>
          /\ \E next : stage' = [stage EXCEPT ![r] = next]
          /\ list' = list \/ \E l : list' = [list EXCEPT ![r] = l]
      BY <2>2 DEF Resolved
    <3> QED BY <1>0, <2>1, <3>1, <3>2, OthersListed
  <2>3. CASE Lock(r)
    <3>1. AttemptInv' /\ hosts' = hosts /\ (Awaits(r, hosts, 1) \/ Completes(r, hosts))
      BY <1>0, <2>3, LockSteps
    <3>2. /\ UNCHANGED <<now, arrived>> /\ stage[r] = "queue" /\ r \in Tasks
          /\ \A a \in Addresses : named'[a] \in {named[a], now}
          /\ hosts \in [Hostnames -> HostnameState \cup {None}]
      BY <1>0, <2>3 DEF Lock, Tasks, ProxyTypeOK
    <3> QED BY <1>0, <2>1, <3>1, <3>2, RefreshLists
  <2> QED BY <1>2, <2>2, <2>3 DEF Lists
<1>3. ASSUME NEW r \in Requests, Respond(r) PROVE ListInv'
  BY <1>0, <1>3, RespondLists DEF Respond
<1>4. ASSUME NEW r \in Requests, Authenticate(r) PROVE ListInv'
  <2>1. CASE Respond(r)
    BY <1>3, <2>1
  <2>2. CASE ~Respond(r)
    <3>1. /\ stage[r] = "listed" /\ stage'[r] = "body"
          /\ UNCHANGED <<list, arrived, named, message>>
      BY <1>0, <1>4, <2>2 DEF Authenticate, To, TypeOK, ProxyTypeOK, Tasks
    <3>2. PICK a \in Addresses : /\ ResolveClientIp(message[r], list[r], a)
                                 /\ client' = [client EXCEPT ![r] = a]
      BY <1>4, <2>2 DEF Authenticate
    <3>3. client'[r] = a /\ a # None
      BY <1>0, <3>2, MessageAssumption DEF TypeOK
    <3>4. Listed(r)
      BY <1>0, ListedAll
    <3>5. \A b \in list'[r] : Vouched(r, b)'
      BY <3>1, <3>4 DEF Listed, Vouched, Carried
    <3>6. ResolveClientIp(message[r], list[r], client[r])'
      BY <3>1, <3>2, <3>3 DEF ResolveClientIp
    <3>7. Listed(r)'
      BY <3>1, <3>3, <3>4, <3>5, <3>6 DEF Listed, Carried, Stage
    <3>8. stage' = [stage EXCEPT ![r] = "body"]
      BY <1>4, <2>2 DEF Authenticate, To
    <3> QED BY <1>0, <3>1, <3>2, <3>7, <3>8, OthersListed
  <2> QED BY <2>1, <2>2
<1>5. ASSUME NEW r \in Requests, Guards(r) PROVE ListInv'
  BY <1>0, <1>5, ToLists DEF Guards, Due, Capacity, Retain, Carried
<1>6. ASSUME NEW r \in Requests, CheckAndRecord(r) PROVE ListInv'
  BY <1>0, <1>3, <1>6, ToLists DEF CheckAndRecord, Carried
<1>7. ASSUME NEW r \in Requests, VerifySignature(r) PROVE ListInv'
  BY <1>0, <1>3, <1>7, ToLists DEF VerifySignature, Carried
<1>8. ASSUME NEW r \in Requests, Disconnect(r) PROVE ListInv'
  BY <1>0, <1>8, RespondLists DEF Disconnect, Drop
<1>9. ASSUME Primes PROVE ListInv'
  <2>1. UNCHANGED <<message, client>>
    BY <1>9 DEF Primes, authVars
  <2>2. UNCHANGED <<list, arrived, named>> /\ \A r \in Requests : stage'[r] = stage[r]
    BY <1>0, <1>9, PrimeSteps DEF Primes, Prime
  <2>3. ASSUME NEW r \in Requests PROVE Listed(r)'
    BY <1>0, <2>1, <2>2, ListedAll DEF Listed, Vouched, ResolveClientIp
  <2> QED BY <2>3 DEF ListInv, Listed
<1>10. ASSUME Answered PROVE ListInv'
  <2>1. PICK a \in SUBSET Addresses : LookedUp(a)
    BY <1>10, MessageAssumption DEF Answered
  <2>2. /\ AttemptInv' /\ holder \in Tasks /\ hosts' = AnsweredCache(a)
        /\ \/ Awaits(holder, AnsweredCache(a), looking + 1)
           \/ Completes(holder, AnsweredCache(a))
    BY <1>0, <2>1, LookedUpSteps
  <2>3. /\ UNCHANGED <<now, arrived, message, client>>
        /\ \A b \in Addresses : named'[b] \in {named[b], now}
    BY <1>10, <2>1 DEF Answered, LookedUp, authVars
  <2>4. AnsweredCache(a) \in [Hostnames -> HostnameState \cup {None}]
    BY <1>0, <2>1, LookedUpPasses DEF LookedUp
  <2>5. holder \in Requests => stage[holder] \in {"queue", "locked"}
    BY <1>0 DEF LockInv
  <2> QED BY <1>0, <2>2, <2>3, <2>4, <2>5, RefreshLists
<1>11. ASSUME Tick PROVE ListInv'
  BY <1>0, <1>11 DEF Tick, ListInv, Vouched, ResolveClientIp, authVars
<1>12. CASE UNCHANGED vars
  BY <1>0, <1>12 DEF vars, ListInv, Vouched, ResolveClientIp
<1> QED BY <1>1, <1>2, <1>3, <1>4, <1>5, <1>6, <1>7, <1>8, <1>9, <1>10, <1>11, <1>12
        DEF Next, Step, OwnStep, Handled

---------------------------------------------------------------------------
(* The theorems. *)

LEMMA CacheInvariant ==
    ASSUME IInv, [Next]_vars
    PROVE  LockInv' /\ RefreshInv' /\ AttemptInv'
<1>0. ProxyTypeOK /\ LockInv /\ RefreshInv /\ AttemptInv
  BY DEF IInv, TypeOK
<1>1. ASSUME NEW r \in Requests, Arrive(r) \/ Step(r) \/ Disconnect(r)
      PROVE  LockInv' /\ RefreshInv' /\ AttemptInv'
  <2>1. CASE Resolved(r)
    <3>1. Moves(r)
      BY <2>1 DEF Resolved, Moves, Stage
    <3> QED BY <1>0, <3>1, MovesKeep
  <2>2. CASE Lock(r)
    BY <1>0, <2>2, LockSteps
  <2>3. CASE Disconnect(r)
    BY <1>0, <2>3, DropKeeps DEF Disconnect
  <2>4. CASE Arrive(r) \/ Authenticate(r) \/ Guards(r) \/ CheckAndRecord(r)
             \/ VerifySignature(r) \/ Handled(r)
    BY <1>0, <2>4, RequestMoves, MovesKeep
  <2> QED BY <1>1, <2>1, <2>2, <2>3, <2>4 DEF Step, OwnStep, Lists
<1>2. CASE Primes
  BY <1>0, <1>2, PrimeSteps DEF Primes
<1>3. CASE Answered
  BY <1>0, <1>3, LookedUpSteps, MessageAssumption DEF Answered
<1>4. CASE Tick
  BY <1>0, <1>4, TickKeeps
<1>5. CASE UNCHANGED vars
  <2>1. LockInv'
    BY <1>0, <1>5 DEF vars, LockInv, Usable, IsFresh, Ttl
  <2>2. RefreshInv'
    BY <1>0, <1>5 DEF vars, RefreshInv, Recent, Ttl
  <2>3. AttemptInv'
    BY <1>0, <1>5 DEF vars, AttemptInv, AllFresh, Usable, IsFresh, Ttl, Merged
  <2> QED BY <2>1, <2>2, <2>3
<1> QED BY <1>1, <1>2, <1>3, <1>4, <1>5 DEF Next

\* Every lookup that has started is accounted for.
LEMMA LookupFrame ==
    ASSUME LookupInv, ProxyTypeOK, UNCHANGED <<hosts, holder, looking, asked, abandoned>>,
           now' \in {now, now + 1}
    PROVE  LookupInv'
BY DEF LookupInv, ProxyTypeOK, Awaited

LEMMA LookupAsks ==
    ASSUME ProxyTypeOK, ProxyTypeOK', NEW task \in Tasks, NEW from \in 1..(Len(Names) + 1),
           NEW cache, hosts' = cache, now' = now,
           Awaits(task, cache, from) \/ Completes(task, cache),
           \A h \in Hostnames : asked[h] # None => asked[h] <= now,
           \A h \in Hostnames :
               \/ asked[h] = None \/ h \in abandoned
               \/ cache[h] # None /\ asked[h] <= cache[h].attempted_at
               \/ cache[h] = None /\ task = Boot
    PROVE  LookupInv'
<1> SUFFICES ASSUME NEW h \in Hostnames
             PROVE  /\ asked'[h] # None => asked'[h] <= now'
                    /\ \/ asked'[h] = None \/ Awaited(h)' \/ h \in abandoned'
                       \/ hosts'[h] # None /\ asked'[h] <= hosts'[h].attempted_at
                       \/ hosts'[h] = None /\ holder' = Boot
  BY DEF LookupInv, Awaited
<1>1. CASE Awaits(task, cache, from)
  <2>1. looking' \in 1..Len(Names) /\ looking' # 0 /\ holder' = task
    BY <1>1, StaleType, LenType DEF Awaits
  <2>2. /\ asked' = [asked EXCEPT ![Names[looking']] = now]
        /\ abandoned' = abandoned \ {Names[looking']}
    BY <1>1 DEF Awaits, Ask
  <2>3. CASE h = Names[looking']
    BY <2>1, <2>2, <2>3 DEF Awaited, ProxyTypeOK
  <2>4. CASE h # Names[looking']
    <3>1. asked'[h] = asked[h] /\ (h \in abandoned' <=> h \in abandoned)
      BY <2>2, <2>4 DEF ProxyTypeOK
    <3> QED BY <2>1, <3>1
  <2> QED BY <2>3, <2>4
<1>2. CASE Completes(task, cache)
  <2>1. UNCHANGED <<asked, abandoned>>
    BY <1>2 DEF Completes, Rebuild, Rebuilt
  <2>2. task = Boot => cache[h] # None
    BY <1>2, PassedAll DEF Completes
  <2> QED BY <2>1, <2>2
<1> QED BY <1>1, <1>2

LEMMA LookupInvariant ==
    ASSUME IInv, TypeOK', [Next]_vars
    PROVE  LookupInv'
<1>0. /\ ProxyTypeOK /\ LockInv /\ RefreshInv /\ AttemptInv /\ LookupInv /\ ProxyTypeOK'
      /\ 1 \in 1..(Len(Names) + 1) /\ Boot \in Tasks /\ now \in Nat
  BY LenType DEF IInv, TypeOK, Tasks, ProxyTypeOK
<1>1. ASSUME NEW r \in Requests, Lock(r) PROVE LookupInv'
  <2>1. hosts' = hosts /\ (Awaits(r, hosts, 1) \/ Completes(r, hosts))
    BY <1>0, <1>1, LockSteps
  <2>2. holder = None /\ holder # Boot /\ now' = now /\ r \in Tasks /\ looking = 0
    BY <1>0, <1>1, ProxyAssumption DEF Lock, Tasks, LockInv
  <2>3. ASSUME NEW h \in Hostnames
        PROVE  /\ asked[h] # None => asked[h] <= now
               /\ \/ asked[h] = None \/ h \in abandoned
                  \/ hosts[h] # None /\ asked[h] <= hosts[h].attempted_at
    BY <1>0, <2>2 DEF LookupInv, Awaited
  <2> QED BY <1>0, <2>1, <2>2, <2>3, LookupAsks
<1>2. ASSUME NEW r \in Requests, Disconnect(r) PROVE LookupInv'
  <2>1. UNCHANGED <<now, hosts, asked>>
    BY <1>2 DEF Disconnect, Drop, Finished
  <2>2. CASE holder # r
    BY <1>0, <1>2, <2>1, <2>2, LookupFrame DEF Disconnect, Drop
  <2>3. CASE holder = r
    <3>1. abandoned' = abandoned \cup {Names[looking]} /\ holder # Boot
      BY <1>2, <2>3, ProxyAssumption DEF Disconnect, Drop
    <3>2. ASSUME NEW h \in Hostnames
          PROVE  /\ asked[h] # None => asked[h] <= now
                 /\ \/ asked[h] = None \/ h \in abandoned'
                    \/ hosts[h] # None /\ asked[h] <= hosts[h].attempted_at
      BY <1>0, <3>1 DEF LookupInv, Awaited
    <3> QED BY <2>1, <3>2 DEF LookupInv
  <2> QED BY <2>2, <2>3
<1>3. CASE Primes
  <2> DEFINE cache == [h \in Hostnames |-> None]
  <2>1. /\ cache \in [Hostnames -> HostnameState \cup {None}] /\ Passed(cache, Boot, 1)
        /\ Refresh(Boot, cache, 1) /\ now' = now
    BY <1>3 DEF Primes, Prime, Passed
  <2>2. \A h \in Hostnames : cache[h] = None
    OBVIOUS
  <2> HIDE DEF cache
  <2>3. hosts' = cache /\ (Awaits(Boot, cache, 1) \/ Completes(Boot, cache))
    BY <1>0, <2>1, RefreshSteps
  <2>4. \A h \in Hostnames : asked[h] # None => asked[h] <= now
    BY <1>0 DEF LookupInv
  <2> QED BY <1>0, <2>1, <2>2, <2>3, <2>4, LookupAsks
<1>4. CASE Answered
  <2>1. PICK a \in SUBSET Addresses : LookedUp(a)
    BY <1>4, MessageAssumption DEF Answered
  <2> DEFINE cache == AnsweredCache(a)
  <2>2. /\ holder \in Tasks /\ looking \in 1..Len(Names) /\ hosts' = cache
        /\ Awaits(holder, cache, looking + 1) \/ Completes(holder, cache)
        /\ looking + 1 \in 1..(Len(Names) + 1) /\ now' = now
    BY <1>0, <2>1, LookedUpSteps, LenType DEF LookedUp
  <2>3. ASSUME NEW h \in Hostnames
        PROVE  /\ asked[h] # None => asked[h] <= now
               /\ \/ asked[h] = None \/ h \in abandoned
                  \/ cache[h] # None /\ asked[h] <= cache[h].attempted_at
                  \/ cache[h] = None /\ holder = Boot
    <3>1. CASE h = Names[looking]
      <4>1. cache[h] = Answer(a) /\ Answer(a) \in HostnameState /\ Answer(a).attempted_at = now
        BY <1>0, <3>1 DEF AnsweredCache, Answer, HostnameState, ProxyTypeOK
      <4>2. cache[h] # None
        BY <4>1, ProxyAssumption DEF HostnameState
      <4> QED BY <1>0, <4>1, <4>2 DEF LookupInv
    <3>2. CASE h # Names[looking]
      <4>1. cache[h] = hosts[h]
        BY <1>0, <3>2 DEF AnsweredCache, ProxyTypeOK
      <4> QED BY <1>0, <3>2, <4>1 DEF LookupInv, Awaited
    <3> QED BY <3>1, <3>2
  <2> HIDE DEF cache
  <2> QED BY <1>0, <2>2, <2>3, LookupAsks
<1>5. ASSUME NEW r \in Requests, Moves(r) PROVE LookupInv'
  BY <1>0, <1>5, LookupFrame DEF Moves
<1>6. ASSUME NEW r \in Requests, Resolved(r) PROVE LookupInv'
  BY <1>0, <1>6, LookupFrame DEF Resolved
<1>7. CASE Tick
  BY <1>0, <1>7, LookupFrame DEF Tick
<1>8. CASE UNCHANGED vars
  BY <1>0, <1>8, LookupFrame DEF vars
<1> QED BY <1>1, <1>2, <1>3, <1>4, <1>5, <1>6, <1>7, <1>8, RequestMoves
        DEF Next, Step, OwnStep, Lists

LEMMA InitIInv == Init => IInv
<1> SUFFICES ASSUME Init PROVE IInv
  OBVIOUS
<1>1. ProxyTypeOK
  <2>1. /\ stage \in [Tasks -> Stage] /\ list \in [Requests -> SUBSET Addresses]
        /\ snapshot \subseteq Addresses /\ built \in BOOLEAN
    BY DEF Init, ProxyInit, Stage
  <2>2. /\ now \in Nat /\ looking \in 0..Len(Names) /\ arrived \in [Requests -> Nat]
        /\ until \in Nat /\ holder \in Tasks \cup {None}
    BY LenType DEF Init, ProxyInit
  <2>3. /\ hosts \in [Hostnames -> HostnameState \cup {None}]
        /\ asked \in [Hostnames -> Nat \cup {None}] /\ abandoned \subseteq Hostnames
        /\ named \in [Addresses -> Nat \cup {None}]
    BY DEF Init, ProxyInit
  <2> QED BY <2>1, <2>2, <2>3 DEF ProxyTypeOK
<1>2. GuardTypeOK /\ GuardInv
  BY DEF Init, GuardInit, ProxyInit, GuardTypeOK, GuardInv
<1>3. TypeOK
  BY <1>1, <1>2 DEF Init, TypeOK
<1>4. \A r \in Requests : stage[r] = "idle" /\ r # None
  BY ProxyAssumption DEF Init, ProxyInit, Tasks
<1>5. LockInv
  BY <1>4, ProxyAssumption DEF Init, ProxyInit, LockInv
<1>6. RefreshInv
  BY <1>4, ProxyAssumption DEF Init, ProxyInit, RefreshInv
<1>7. AttemptInv /\ LookupInv
  BY DEF Init, ProxyInit, AttemptInv, LookupInv
<1>8. ListInv
  BY <1>4 DEF Init, ListInv, Carried, Stage
<1> QED BY <1>2, <1>3, <1>5, <1>6, <1>7, <1>8 DEF IInv

\* The invariant is inductive: the write lock, the cache, the snapshot, the
\* recorded signatures and what each request carries stay consistent through
\* every interleaving of requests, lookups, dropped requests and the boot task.
THEOREM RequestInvariant == Spec => []IInv
<1>1. IInv /\ [Next]_vars => IInv'
  <2> SUFFICES ASSUME IInv, [Next]_vars PROVE IInv'
    OBVIOUS
  <2>1. TypeOK'
    BY TypeInvariant
  <2> QED BY <2>1, GuardInvariant, CacheInvariant, LookupInvariant, ListInvariant DEF IInv
<1> QED BY <1>1, InitIInv, PTL DEF Spec

\* A reader on the fast path finds the snapshot that the cached attempts make,
\* whichever refreshes were abandoned half-way (resolved, refresh_locked).
THEOREM SnapshotIsCurrent == Spec => []SnapshotCurrent
<1>1. IInv => SnapshotCurrent
  <2> SUFFICES ASSUME IInv, built, AllFresh
               PROVE  snapshot = Networks \cup UNION {hosts[h].addresses : h \in Hostnames}
    BY DEF SnapshotCurrent
  <2>1. snapshot = Merged(hosts)
    BY DEF IInv, AttemptInv
  <2>2. \A h \in Hostnames : hosts[h] # None
    BY DEF AllFresh, Usable
  <2> QED BY <2>1, <2>2 DEF Merged
<1> QED BY <1>1, RequestInvariant, PTL

\* Forwarding headers decide a request's address only behind a literal entry
\* or an address that a lookup named within the positive TTL before the
\* request came in (resolve_client_ip with the list resolved() returned).
THEOREM HeadersAreFromRecentProxies == Spec => []HeadersFromRecentProxies
<1>1. IInv => HeadersFromRecentProxies
  <2> SUFFICES ASSUME IInv, NEW r \in Requests, client[r] # None, client[r] # message[r].peer
               PROVE  Vouched(r, message[r].peer)
    BY DEF HeadersFromRecentProxies
  <2>1. Listed(r)
    BY ListedAll DEF IInv
  <2>2. message[r].peer \in list[r]
    BY <2>1 DEF Listed, ResolveClientIp
  <2>3. stage[r] \in Carried
    BY <2>1 DEF Listed, Carried, Stage
  <2> QED BY <2>1, <2>2, <2>3 DEF Listed
<1> QED BY <1>1, RequestInvariant, PTL

\* Which steps move a request, and where the others leave it.
LEMMA OwnSteps ==
    ASSUME IInv, NEW r \in Requests, stage'[r] # stage[r], Next
    PROVE  \/ Arrive(r) \/ Step(r) \/ Disconnect(r)
           \/ Answered /\ holder = r /\ stage'[r] = "listed"
<1>0. ProxyTypeOK /\ LockInv /\ RefreshInv /\ AttemptInv /\ r \in Tasks /\ Boot \in Tasks /\ r # Boot
  BY ProxyAssumption DEF IInv, TypeOK, Tasks
<1>1. ASSUME NEW q \in Requests, q # r, Arrive(q) \/ Step(q) \/ Disconnect(q) PROVE FALSE
  <2>0. q \in Tasks
    BY DEF Tasks
  <2>1. CASE Resolved(q)
    BY <1>0, <1>1, <2>0, <2>1 DEF Resolved, ProxyTypeOK
  <2>2. CASE Lock(q)
    <3>1. Awaits(q, hosts, 1) \/ Completes(q, hosts)
      BY <1>0, <2>2, LockSteps
    <3> QED BY <1>0, <1>1, <2>0, <3>1 DEF Awaits, Completes, Rebuild, Rebuilt, ProxyTypeOK
  <2>3. CASE Disconnect(q)
    BY <1>0, <1>1, <2>0, <2>3 DEF Disconnect, Drop, Finished, ProxyTypeOK
  <2>4. CASE Arrive(q) \/ Authenticate(q) \/ Guards(q) \/ CheckAndRecord(q)
             \/ VerifySignature(q) \/ Handled(q)
    <3>1. Moves(q)
      BY <2>4, RequestMoves
    <3> QED BY <1>0, <1>1, <2>0, <3>1 DEF Moves, ProxyTypeOK
  <2> QED BY <1>1, <2>1, <2>2, <2>3, <2>4 DEF Step, OwnStep, Lists
<1>2. CASE Primes
  <2>1. stage'[r] = stage[r]
    BY <1>0, <1>2, PrimeSteps DEF Primes
  <2> QED BY <2>1
<1>3. CASE Answered
  <2>1. PICK a \in SUBSET Addresses : LookedUp(a)
    BY <1>3, MessageAssumption DEF Answered
  <2>2. /\ holder \in Tasks
        /\ \/ Awaits(holder, AnsweredCache(a), looking + 1)
           \/ Completes(holder, AnsweredCache(a))
    BY <1>0, <2>1, LookedUpSteps
  <2>3. holder = r
    BY <1>0, <2>2 DEF Awaits, Completes, Rebuild, Rebuilt, ProxyTypeOK
  <2>4. stage[r] = "locked"
    BY <1>0, <2>3 DEF LockInv
  <2>5. stage'[r] = "listed"
    BY <1>0, <2>2, <2>3, <2>4 DEF Awaits, Completes, Rebuild, Rebuilt, ProxyTypeOK
  <2> QED BY <1>3, <2>3, <2>5
<1>4. CASE Tick
  BY <1>4 DEF Tick
<1> QED BY <1>1, <1>2, <1>3, <1>4 DEF Next

\* The list that a completed pass gives its request.
LEMMA CompletesRecent ==
    ASSUME ProxyTypeOK, NEW r \in Requests, NEW cache, hosts' = cache, Completes(r, cache)
    PROVE  /\ \A h \in Hostnames : /\ hosts'[h] # None
                                   /\ arrived[r] - hosts'[h].attempted_at < Ttl(hosts'[h])
           /\ list'[r] = Networks \cup UNION {hosts'[h].addresses : h \in Hostnames}
<1>1. \A h \in Hostnames : RecentIn(cache, r, h)
  BY PassedAll, ProxyAssumption DEF Completes
<1>2. list'[r] = Merged(cache)
  BY ProxyAssumption DEF Completes, Rebuild, Rebuilt, ProxyTypeOK
<1>3. Merged(cache) = Networks \cup UNION {cache[h].addresses : h \in Hostnames}
  BY <1>1 DEF Merged, RecentIn
<1> QED BY <1>1, <1>2, <1>3 DEF RecentIn

\* No wait makes a request use an attempt that had expired when it came in
\* (resolved: the fast path, the double check behind the write lock and the
\* request's own lookups).
THEOREM TrustStaysRecent == Spec => TrustIsRecent
<1> DEFINE Good(r) ==
        /\ \A h \in Hostnames : /\ hosts'[h] # None
                                /\ arrived[r] - hosts'[h].attempted_at < Ttl(hosts'[h])
        /\ list'[r] = Networks \cup UNION {hosts'[h].addresses : h \in Hostnames}
<1>1. ASSUME IInv, Next, NEW r \in Requests,
             stage[r] \in {"read", "queue", "locked"}, stage'[r] = "listed"
      PROVE  Good(r)
  <2>0. ProxyTypeOK /\ LockInv /\ RefreshInv /\ AttemptInv /\ r \in Tasks /\ r # Boot
    BY <1>1, ProxyAssumption DEF IInv, TypeOK, Tasks
  <2>1. CASE Resolved(r)
    <3>1. built /\ AllFresh /\ list'[r] = snapshot /\ hosts' = hosts
      BY <1>1, <2>0, <2>1 DEF Resolved, ProxyTypeOK
    <3>2. \A h \in Hostnames : RecentIn(hosts, r, h)
      <4> SUFFICES ASSUME NEW h \in Hostnames PROVE RecentIn(hosts, r, h)
        OBVIOUS
      <4>1. Usable(hosts, h) /\ hosts \in [Hostnames -> HostnameState \cup {None}]
        BY <2>0, <3>1 DEF AllFresh, ProxyTypeOK
      <4> QED BY <2>0, <4>1, UsableIsRecent
    <3>3. snapshot = Merged(hosts)
      BY <2>0, <3>1 DEF AttemptInv
    <3>4. Merged(hosts) = Networks \cup UNION {hosts[h].addresses : h \in Hostnames}
      BY <3>2 DEF Merged, RecentIn
    <3> QED BY <3>1, <3>2, <3>3, <3>4 DEF RecentIn
  <2>2. CASE Lock(r)
    <3>1. hosts' = hosts /\ (Awaits(r, hosts, 1) \/ Completes(r, hosts))
      BY <2>0, <2>2, LockSteps
    <3>2. ~Awaits(r, hosts, 1)
      BY <1>1, <2>0 DEF Awaits, ProxyTypeOK
    <3> QED BY <2>0, <3>1, <3>2, CompletesRecent
  <2>3. CASE Answered /\ holder = r
    <3>1. PICK a \in SUBSET Addresses : LookedUp(a)
      BY <2>3, MessageAssumption DEF Answered
    <3>2. /\ hosts' = AnsweredCache(a)
          /\ \/ Awaits(r, AnsweredCache(a), looking + 1)
             \/ Completes(r, AnsweredCache(a))
      BY <2>0, <2>3, <3>1, LookedUpSteps
    <3>3. ~Awaits(r, AnsweredCache(a), looking + 1)
      BY <1>1, <2>0 DEF Awaits, ProxyTypeOK
    <3> QED BY <2>0, <3>2, <3>3, CompletesRecent
  <2>4. CASE Disconnect(r)
    BY <1>1, <2>0, <2>4 DEF Disconnect, Drop, Finished, ProxyTypeOK
  <2>5. CASE Arrive(r) \/ Authenticate(r) \/ Guards(r) \/ CheckAndRecord(r)
             \/ VerifySignature(r) \/ Handled(r)
    BY <1>1, <2>5 DEF Arrive, Authenticate, Guards, Due, Capacity, Retain, CheckAndRecord,
                      VerifySignature, Handled
  <2> QED BY <1>1, <2>1, <2>2, <2>3, <2>4, <2>5, OwnSteps DEF Step, OwnStep, Lists
<1>2. IInv /\ [Next]_vars =>
          [\A r \in Requests : stage[r] \in {"read", "queue", "locked"} /\ stage'[r] = "listed" =>
               Good(r)]_proxyVars
  BY <1>1 DEF vars, proxyVars
<1> QED BY <1>2, RequestInvariant, PTL DEF Spec, TrustIsRecent

\* A name that a pass has to look up, and of which no lookup is under way, was
\* last asked for long enough ago, unless that lookup was cut off.
Free(h) == asked[h] = None \/ h \in abandoned \/ now - asked[h] >= NegativeTtl

LEMMA StaleLongAgo ==
    ASSUME ProxyTypeOK, LookupInv, holder # Boot, NEW h \in Hostnames, ~Usable(hosts, h),
           ~Awaited(h)
    PROVE  Free(h)
<1> SUFFICES ASSUME asked[h] # None, h \notin abandoned PROVE now - asked[h] >= NegativeTtl
  BY DEF Free
<1>1. hosts[h] # None /\ asked[h] <= hosts[h].attempted_at
  BY DEF LookupInv
<1>2. hosts[h] \in HostnameState /\ asked[h] \in Nat
  BY <1>1 DEF ProxyTypeOK
<1>3. hosts[h].attempted_at \in Nat /\ now \in Nat
  BY <1>2 DEF HostnameState, ProxyTypeOK
<1>4. Ttl(hosts[h]) \in Nat /\ NegativeTtl \in Nat /\ Ttl(hosts[h]) >= NegativeTtl
  BY ProxyAssumption DEF Ttl
<1>5. ~(now - hosts[h].attempted_at < Ttl(hosts[h]))
  BY <1>1 DEF Usable, IsFresh
<1> QED BY <1>1, <1>2, <1>3, <1>4, <1>5

\* However many requests meet an expired name, the lookups they start of it are
\* a negative TTL apart, counted from start to start and the boot task's
\* included, unless the earlier one was cut off with its request
\* (refresh_locked under the write lock).
THEOREM LookupsAreBounded == Spec => LookupsBounded
<1>1. ASSUME IInv, Next, NEW i \in 1..Len(Names), looking' = i, looking # i, holder' \in Requests
      PROVE  Free(Names[i])
  <2>0. /\ ProxyTypeOK /\ LockInv /\ RefreshInv /\ AttemptInv /\ LookupInv
        /\ i # 0 /\ Names[i] \in Hostnames /\ holder' # Boot
    BY <1>1, LenType, NamesType, ProxyAssumption DEF IInv, TypeOK
  <2>1. ASSUME NEW r \in Requests, Arrive(r) \/ Step(r) \/ Disconnect(r)
        PROVE  Free(Names[i])
    <3>1. CASE Lock(r)
      <4>1. holder # Boot /\ ~Awaited(Names[i])
        BY <2>0, <3>1, ProxyAssumption DEF Lock, LockInv, Awaited
      <4>2. Awaits(r, hosts, 1) \/ Completes(r, hosts)
        BY <2>0, <3>1, LockSteps
      <4>3. Awaits(r, hosts, 1)
        BY <1>1, <2>0, <4>2 DEF Completes, Rebuild, Rebuilt, Released
      <4>4. ~Usable(hosts, Names[i])
        BY <1>1, <4>3, LenType, StaleType DEF Awaits
      <4> QED BY <2>0, <4>1, <4>4, StaleLongAgo
    <3>2. CASE ~Lock(r)
      <4>1. looking' \in {looking, 0}
        BY <2>1, <3>2, RequestMoves
           DEF Step, OwnStep, Lists, Resolved, Disconnect, Drop, Released, Moves
      <4> QED BY <1>1, <2>0, <4>1
    <3> QED BY <3>1, <3>2
  <2>2. CASE Primes
    BY <2>0, <2>2, PrimeSteps DEF Primes
  <2>3. CASE Answered
    <3>1. PICK a \in SUBSET Addresses : LookedUp(a)
      BY <2>3, MessageAssumption DEF Answered
    <3>2. /\ looking \in 1..Len(Names)
          /\ \/ Awaits(holder, AnsweredCache(a), looking + 1)
             \/ Completes(holder, AnsweredCache(a))
      BY <2>0, <3>1, LookedUpSteps
    <3>3. Awaits(holder, AnsweredCache(a), looking + 1)
      BY <1>1, <2>0, <3>2 DEF Completes, Rebuild, Rebuilt, Released
    <3>4. holder # Boot /\ looking + 1 \in 1..(Len(Names) + 1)
      BY <2>0, <3>2, <3>3, LenType DEF Awaits
    <3>5. ~Usable(AnsweredCache(a), Names[i])
      BY <1>1, <3>3, <3>4, StaleType DEF Awaits
    <3>6. Names[i] # Names[looking]
      <4> SUFFICES ASSUME Names[i] = Names[looking] PROVE FALSE
        OBVIOUS
      <4>1. AnsweredCache(a)[Names[i]] = Answer(a)
        BY <2>0 DEF AnsweredCache, ProxyTypeOK
      <4>2. AnsweredCache(a) \in [Hostnames -> HostnameState \cup {None}]
        BY <2>0, <3>1, LookedUpPasses DEF LookedUp
      <4> QED BY <2>0, <3>5, <4>1, <4>2, AnswerUsable
    <3>7. ~Usable(hosts, Names[i]) /\ ~Awaited(Names[i])
      BY <2>0, <3>5, <3>6 DEF AnsweredCache, Usable, ProxyTypeOK, Awaited
    <3> QED BY <2>0, <3>4, <3>7, StaleLongAgo
  <2>4. CASE Tick
    BY <1>1, <2>4 DEF Tick
  <2> QED BY <1>1, <2>1, <2>2, <2>3, <2>4 DEF Next
<1>2. IInv /\ [Next]_vars =>
          [\A i \in 1..Len(Names) :
              looking' = i /\ looking # i /\ holder' \in Requests =>
                  \/ asked[Names[i]] = None \/ Names[i] \in abandoned
                  \/ now - asked[Names[i]] >= NegativeTtl]_proxyVars
  BY <1>1 DEF vars, proxyVars, Free
<1> QED BY <1>2, RequestInvariant, PTL DEF Spec, LookupsBounded

\* Where the last section of check_and_record can lead.
LEMMA CheckLeads ==
    ASSUME IInv, Next, NEW r \in Requests, stage[r] = "check", stage'[r] # "check"
    PROVE  CheckAndRecord(r)
<1>1. \/ Arrive(r) \/ Step(r) \/ Disconnect(r)
      \/ Answered /\ holder = r
  BY OwnSteps
<1>2. holder # r
  BY DEF IInv, LockInv
<1> QED BY <1>1, <1>2 DEF Arrive, Step, OwnStep, Lists, Resolved, Lock, Authenticate, Guards, Due,
                          Capacity, Retain, VerifySignature, Handled, Disconnect, Drop

\* A signature is not accepted twice within a window, in whatever order the
\* threads take the mutexes (check_and_record, prune_if_due).
THEOREM NoRepeatIsEarly == Spec => NoEarlyRepeat
<1>1. ASSUME IInv, Next, NEW r \in Requests, stage[r] = "check", stage'[r] = "handler"
      PROVE  \/ accepted[message[r].signature] = None
             \/ now >= accepted[message[r].signature] + Window
  <2> DEFINE s == message[r].signature
  <2>0. TypeOK /\ ProxyTypeOK /\ GuardTypeOK /\ GuardInv /\ ListInv
    BY <1>1 DEF IInv, TypeOK
  <2>1. CheckAndRecord(r)
    BY <1>1, CheckLeads
  <2>2. ~Respond(r)
    BY <1>1, <2>0 DEF Respond, Finished, ProxyTypeOK, Tasks
  <2>3. ~IsRepeat(r, s)
    BY <2>1, <2>2 DEF CheckAndRecord, Record
  <2>4. s \in Signatures
    BY <1>1, <2>0, SignatureType
  <2>5. /\ seen[s] \in Nat \cup {None} /\ accepted[s] \in Nat \cup {None}
        /\ captured[r] \in Nat /\ captured[r] <= now /\ now \in Nat
    BY <2>0, <2>4 DEF GuardTypeOK, GuardInv, ProxyTypeOK
  <2>6. /\ seen[s] # None => accepted[s] # None /\ seen[s] = accepted[s] + Window
        /\ seen[s] = None => accepted[s] = None \/ now >= accepted[s] + Window
    BY <2>0, <2>4 DEF GuardInv
  <2>7. seen[s] = None \/ ~(seen[s] > captured[r])
    BY <2>3 DEF IsRepeat
  <2> HIDE DEF s
  <2>8. accepted[s] = None \/ now >= accepted[s] + Window
    BY <2>5, <2>6, <2>7, WindowAssumption
  <2> QED BY <2>8 DEF s
<1>2. IInv /\ [Next]_vars =>
          [\A r \in Requests : stage[r] = "check" /\ stage'[r] = "handler" =>
              \/ accepted[message[r].signature] = None
              \/ now >= accepted[message[r].signature] + Window]_vars
  BY <1>1 DEF vars
<1> QED BY <1>2, RequestInvariant, PTL DEF Spec, NoEarlyRepeat

\* Only a repeat of what was accepted less than a window before is turned away.
THEOREM RefusedAreRepeats == Spec => RefusedOnlyRepeats
<1>1. ASSUME IInv, Next, NEW r \in Requests, stage[r] = "check", stage'[r] = "idle"
      PROVE  /\ accepted[message[r].signature] # None
             /\ captured[r] < accepted[message[r].signature] + Window
  <2> DEFINE s == message[r].signature
  <2>0. TypeOK /\ ProxyTypeOK /\ GuardTypeOK /\ GuardInv /\ ListInv
    BY <1>1 DEF IInv, TypeOK
  <2>1. CheckAndRecord(r)
    BY <1>1, CheckLeads
  <2>2. ~To(r, "handler")
    BY <1>1, <2>0 DEF To, ProxyTypeOK, Tasks
  <2>3. IsRepeat(r, s)
    BY <2>1, <2>2 DEF CheckAndRecord
  <2>4. s \in Signatures
    BY <1>1, <2>0, SignatureType
  <2>5. /\ seen[s] \in Nat \cup {None} /\ accepted[s] \in Nat \cup {None}
        /\ captured[r] \in Nat
    BY <2>0, <2>4 DEF GuardTypeOK
  <2>6. seen[s] # None => accepted[s] # None /\ seen[s] = accepted[s] + Window
    BY <2>0, <2>4 DEF GuardInv
  <2>7. seen[s] # None /\ seen[s] > captured[r]
    BY <2>3 DEF IsRepeat
  <2> HIDE DEF s
  <2>8. accepted[s] # None /\ captured[r] < accepted[s] + Window
    BY <2>5, <2>6, <2>7, WindowAssumption
  <2> QED BY <2>8 DEF s
<1>2. IInv /\ [Next]_vars =>
          [\A r \in Requests : stage[r] = "check" /\ stage'[r] = "idle" =>
              /\ accepted[message[r].signature] # None
              /\ captured[r] < accepted[message[r].signature] + Window]_vars
  BY <1>1 DEF vars
<1> QED BY <1>2, RequestInvariant, PTL DEF Spec, RefusedOnlyRepeats
=============================================================================
