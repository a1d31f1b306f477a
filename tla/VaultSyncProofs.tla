-------------------------- MODULE VaultSyncProofs --------------------------
(***************************************************************************)
(* Proofs about VaultSync: the high-water mark never skips a record that a *)
(* steady target lacks, for any number of records, targets and runners,    *)
(* any page size and any interleaving, as long as the source's clock is    *)
(* not behind this server's.                                               *)
(***************************************************************************)
EXTENDS VaultSync, FiniteSetTheorems, WellFoundedInduction, TLAPS

-----------------------------------------------------------------------------
(* Extremal elements. *)

LEMMA LeastNat ==
    ASSUME NEW T \in SUBSET Nat, T # {}
    PROVE  \E x \in T : \A y \in T : x <= y
  <1>1. IsWellFoundedOn(OpToRel(<, Nat), Nat)
    BY NatLessThanWellFounded
  <1>2. PICK x \in T : \A y \in T : ~ (<<y, x>> \in OpToRel(<, Nat))
    BY <1>1, WFMin, Zenon
  <1>3. \A y \in T : ~ (y < x)
    BY <1>2 DEF OpToRel
  <1> QED
    BY <1>3

LEMMA GreatestNat ==
    ASSUME NEW N \in Nat, NEW T \in SUBSET (0..N), T # {}
    PROVE  \E x \in T : \A y \in T : y <= x
  <1> DEFINE M == {N - y : y \in T}
  <1>1. M \in SUBSET Nat /\ M # {}
    <2>1. \A y \in T : N - y \in Nat
      OBVIOUS
    <2>2. M \subseteq Nat
      BY <2>1
    <2>3. M # {}
      OBVIOUS
    <2> QED
      BY <2>2, <2>3
  <1>2. PICK m \in M : \A i \in M : m <= i
    BY <1>1, LeastNat
  <1>3. PICK x \in T : m = N - x
    BY <1>2
  <1>4. \A y \in T : N - x <= N - y
    BY <1>2, <1>3
  <1> QED
    BY <1>4

-----------------------------------------------------------------------------
(* Paging: ranks in a set of records. *)

LEMMA RecordNumbers ==
    /\ NumRecords \in Nat
    /\ \A x \in Records : x \in Int /\ x \in Nat /\ x \in 0..NumRecords
  BY VaultSyncAssumption DEF Records

LEMMA FiniteRecords ==
    ASSUME NEW S \in SUBSET Records
    PROVE  IsFiniteSet(S) /\ Cardinality(S) \in Nat
  <1>1. IsFiniteSet(Records)
    BY FS_Interval, VaultSyncAssumption DEF Records
  <1>2. IsFiniteSet(S)
    BY <1>1, FS_Subset
  <1> QED
    BY <1>2, FS_CardinalityType

LEMMA RankFacts ==
    ASSUME NEW S \in SUBSET Records, NEW r \in Int
    PROVE  /\ IsFiniteSet(S)
           /\ IsFiniteSet({x \in S : x <= r})
           /\ Rank(S, r) \in Nat
           /\ r \in S => Rank(S, r) >= 1
  <1>2. IsFiniteSet(S)
    BY FiniteRecords
  <1>3. IsFiniteSet({x \in S : x <= r})
    BY FiniteRecords
  <1>4. Rank(S, r) \in Nat
    BY FiniteRecords DEF Rank
  <1>5. ASSUME r \in S PROVE Rank(S, r) # 0
    <2>1. r \in {x \in S : x <= r}
      BY <1>5
    <2> QED
      BY <1>3, <2>1, FS_EmptySet DEF Rank
  <1> QED
    BY <1>2, <1>3, <1>4, <1>5

(* More records in the result push a record back, never forward. *)
LEMMA RankGrows ==
    ASSUME NEW S \in SUBSET Records, NEW T \in SUBSET S, NEW r \in Int
    PROVE  Rank(T, r) <= Rank(S, r)
  <1>1. {x \in T : x <= r} \subseteq {x \in S : x <= r}
    OBVIOUS
  <1> QED
    BY <1>1, RankFacts, FS_Subset DEF Rank

(* At most m records have a rank up to m. *)
LEMMA LowRanks ==
    ASSUME NEW S \in SUBSET Records, NEW m \in Nat
    PROVE  LET L == {x \in S : Rank(S, x) <= m}
           IN  IsFiniteSet(L) /\ Cardinality(L) \in Nat /\ Cardinality(L) <= m
  <1> DEFINE L == {x \in S : Rank(S, x) <= m}
  <1>1. IsFiniteSet(L) /\ Cardinality(L) \in Nat
    BY FiniteRecords
  <1>2. ASSUME L = {} PROVE Cardinality(L) <= m
    BY <1>2, FS_EmptySet
  <1>3. ASSUME L # {} PROVE Cardinality(L) <= m
    <2>0. L \subseteq S /\ \A x \in L : x \in Int /\ Rank(S, x) <= m
      BY RecordNumbers
    <2>1. L \in SUBSET (0..NumRecords) /\ NumRecords \in Nat
      BY <2>0, RecordNumbers
    <2> HIDE DEF L
    <2>2. PICK x \in L : \A y \in L : y <= x
      BY <1>3, <2>1, GreatestNat
    <2>3. x \in S /\ x \in Int /\ Rank(S, x) <= m
      BY <2>0, <2>2
    <2>4. L \subseteq {y \in S : y <= x}
      BY <2>0, <2>2
    <2>5. Cardinality(L) <= Rank(S, x) /\ Rank(S, x) \in Nat
      BY <2>3, <2>4, RankFacts, FS_Subset DEF Rank
    <2> QED
      BY <1>1, <2>3, <2>5
  <1> QED
    BY <1>1, <1>2, <1>3

(* If a record has a rank above m, at least m records have one up to m. *)
LEMMA HighRank ==
    ASSUME NEW S \in SUBSET Records, NEW m \in Nat,
           NEW r \in S, Rank(S, r) > m
    PROVE  Cardinality({x \in S : Rank(S, x) <= m}) >= m
  <1> DEFINE L == {x \in S : Rank(S, x) <= m}
             H == {x \in S : Rank(S, x) > m}
  <1>0. /\ H \subseteq S /\ r \in H /\ \A x \in H : Rank(S, x) > m
        /\ \A x \in S : x \notin H => ~(Rank(S, x) > m)
        /\ \A x \in S : Rank(S, x) <= m => x \in L
    OBVIOUS
  <1> HIDE DEF H
  <1>1. H \in SUBSET Nat /\ H # {}
    BY <1>0, RecordNumbers
  <1>2. PICK y \in H : \A x \in H : y <= x
    BY <1>1, LeastNat
  <1>3. y \in S /\ y \in Int /\ Rank(S, y) > m /\ Rank(S, y) \in Nat
    <2>1. y \in S /\ y \in Int /\ Rank(S, y) > m
      BY <1>0, <1>2, RecordNumbers
    <2> QED
      BY <2>1, RankFacts
  <1> DEFINE B == {x \in S : x <= y}
  <1>4. IsFiniteSet(B) /\ y \in B /\ Cardinality(B) = Rank(S, y)
    <2>1. IsFiniteSet(B)
      BY <1>3, RankFacts
    <2>2. y \in B
      BY <1>3
    <2>3. Cardinality(B) = Rank(S, y)
      BY DEF Rank
    <2> QED
      BY <2>1, <2>2, <2>3
  <1>5. Cardinality(B \ {y}) = Rank(S, y) - 1
    BY <1>4, FS_RemoveElement
  <1>6. B \ {y} \subseteq L
    <2> SUFFICES ASSUME NEW x \in B, x # y PROVE Rank(S, x) <= m
      OBVIOUS
    <2>1. x \in S /\ x \in Int /\ x <= y /\ x # y
      BY RecordNumbers
    <2>2. x \notin H
      BY <1>2, <1>3, <2>1
    <2>3. Rank(S, x) \in Nat
      BY <2>1, RankFacts
    <2> QED
      BY <1>0, <2>1, <2>2, <2>3
  <1>7. IsFiniteSet(L)
    BY LowRanks
  <1>8. Cardinality(B \ {y}) <= Cardinality(L)
    BY <1>6, <1>7, FS_Subset
  <1>9. Cardinality(L) \in Nat
    BY LowRanks
  <1> QED
    BY <1>3, <1>5, <1>8, <1>9

(* A short page is the last: no record has a rank beyond it. *)
LEMMA ShortPageIsLast ==
    ASSUME NEW S \in SUBSET Records, NEW from \in Nat, NEW size \in Nat,
           Cardinality({x \in S : from < Rank(S, x) /\ Rank(S, x) <= from + size})
             < size,
           NEW r \in S
    PROVE  Rank(S, r) <= from + size
  <1> DEFINE P == {x \in S : from < Rank(S, x) /\ Rank(S, x) <= from + size}
             L == {x \in S : Rank(S, x) <= from}
             A == {x \in S : Rank(S, x) <= from + size}
  <1>1. \A x \in S : x \in Int /\ Rank(S, x) \in Nat
    BY RankFacts, RecordNumbers
  <1>2. A = L \cup P /\ L \cap P = {}
    BY <1>1
  <1>3. IsFiniteSet(L) /\ Cardinality(L) \in Nat /\ Cardinality(L) <= from
    BY LowRanks
  <1>4. IsFiniteSet(P) /\ Cardinality(P) \in Nat
    BY FiniteRecords
  <1>5. Cardinality(A) = Cardinality(L) + Cardinality(P) - Cardinality(L \cap P)
    BY <1>2, <1>3, <1>4, FS_Union
  <1>6. Cardinality(L \cap P) = 0
    BY <1>2, FS_EmptySet
  <1>7. Cardinality(A) < from + size
    BY <1>3, <1>4, <1>5, <1>6
  <1>8. ASSUME Rank(S, r) > from + size PROVE FALSE
    <2>1. Cardinality(A) >= from + size
      BY <1>8, HighRank
    <2>2. Cardinality(A) \in Nat
      BY FiniteRecords
    <2> QED
      BY <1>7, <2>1, <2>2
  <1> QED
    BY <1>1, <1>8

-----------------------------------------------------------------------------
(* The mark sent to the source. *)

LEMMA CutoffFacts ==
    /\ Cutoff(None) = None
    /\ \A m \in Int : /\ Cutoff(m) \in Int /\ Cutoff(m) # None
                     /\ Cutoff(m) <= m
  <1>1. \A m \in Int : m # None
    BY VaultSyncAssumption
  <1>2. \A m \in Int : /\ (m \div TicksPerSecond) * TicksPerSecond \in Int
                      /\ (m \div TicksPerSecond) * TicksPerSecond <= m
    BY VaultSyncAssumption
  <1> QED
    BY <1>1, <1>2 DEF Cutoff

(* The newest fetched copy of a record. *)
LEMMA NewestFacts ==
    ASSUME NEW F \in SUBSET Copy, NEW r, Fetched(F, r)
    PROVE  /\ Newest(F, r) \in F
           /\ Newest(F, r)[1] = r
           /\ \A d \in F : d[1] = r => d[2].seq <= Newest(F, r)[2].seq
  <1> DEFINE Q == {d[2].seq : d \in {c \in F : c[1] = r}}
  <1>1. \A d \in F : d[2].seq \in 0..MaxChanges
    BY DEF Copy, Version
  <1>2. Q \in SUBSET (0..MaxChanges) /\ Q # {} /\ MaxChanges \in Nat
    BY <1>1, VaultSyncAssumption DEF Fetched
  <1>3. /\ \A d \in F : d[1] = r => d[2].seq \in Q
        /\ \A q \in Q : \E c \in F : c[1] = r /\ c[2].seq = q
    OBVIOUS
  <1> HIDE DEF Q
  <1>4. PICK q \in Q : \A z \in Q : z <= q
    BY <1>2, GreatestNat
  <1>5. PICK c \in F : c[1] = r /\ c[2].seq = q
    BY <1>3
  <1>6. \E x \in F : x[1] = r /\ \A d \in F : d[1] = r => d[2].seq <= x[2].seq
    BY <1>3, <1>4, <1>5
  <1> QED
    BY <1>6 DEF Newest

(* Source stamps bound the result a cutoff selects. *)
LEMMA ResultRecords ==
    ASSUME NEW c
    PROVE  Result(c) \in SUBSET Records
  BY DEF Result

-----------------------------------------------------------------------------
(* What an active run knows, one clause at a time. *)

(* While one run is in flight no other is. *)
LEMMA OthersIdle ==
    ASSUME OneRunAtATime, NEW k \in Runners, Active(k)
    PROVE  slot /\ \A j \in Runners : j # k => ~Active(j)
  BY DEF OneRunAtATime

LEMMA RunRecord ==
    ASSUME TypeOK, NEW k \in Runners, NEW x, run' = [run EXCEPT ![k] = x]
    PROVE  /\ run'[k] = x
           /\ \A j \in Runners : j # k => run'[j] = run[j]
           /\ x \in Run => run' \in [Runners -> Run]
  <1>1. run \in [Runners -> Run]
    BY DEF TypeOK
  <1> QED
    BY <1>1

LEMMA IdleRunType == IdleRun \in Run /\ IdleRun.phase = "idle"
  BY VaultSyncAssumption DEF IdleRun, Run, Phase, Mark, Copy

(* The only active run moves on. *)
LEMMA RunMoves ==
    ASSUME IInv, NEW k \in Runners, Active(k),
           NEW x \in Run, run' = [run EXCEPT ![k] = x], x.phase # "idle",
           slot' = slot, now' = now, src' = src,
           tgt' \in [Targets -> [Records -> Version]],
           exists' = exists, source' = source, targets' = targets,
           skip' = skip, last' = last, steady' = steady,
           faults' \in 0..MaxFaults, edits' = edits,
           StampsPast', NoSkip', RunInv(k)'
    PROVE  IInv'
  <1>1. TypeOK /\ OneRunAtATime
    BY DEF IInv
  <1>2. /\ run'[k] = x
        /\ \A j \in Runners : j # k => run'[j] = run[j]
        /\ run' \in [Runners -> Run]
    BY <1>1, RunRecord
  <1>3. slot /\ \A j \in Runners : j # k => ~Active(j)
    BY <1>1, OthersIdle
  <1>4. TypeOK'
    BY <1>1, <1>2 DEF TypeOK
  <1>5. \A j \in Runners : Active(j)' => j = k
    BY <1>2, <1>3 DEF Active
  <1>6. OneRunAtATime'
    BY <1>3, <1>5 DEF OneRunAtATime
  <1>7. \A j \in Runners : Active(j)' => RunInv(j)'
    BY <1>5
  <1>8. (last # None => last <= now)'
    BY DEF IInv
  <1> QED
    BY <1>4, <1>6, <1>7, <1>8 DEF IInv

(* The only active run ends. *)
LEMMA RunEnds ==
    ASSUME IInv, NEW k \in Runners, Active(k), Release(k),
           now' = now, src' = src, tgt' = tgt,
           exists' = exists, source' = source, targets' = targets,
           skip' = skip, steady' = steady, faults' \in 0..MaxFaults,
           edits' = edits,
           last' \in Mark, last' # None => last' <= now, NoSkip'
    PROVE  IInv'
  <1>1. TypeOK /\ OneRunAtATime /\ StampsPast
    BY DEF IInv
  <1>2. run' = [run EXCEPT ![k] = IdleRun] /\ slot' = FALSE
    BY DEF Release, SlotAfter
  <1>3. /\ run'[k] = IdleRun
        /\ \A j \in Runners : j # k => run'[j] = run[j]
        /\ run' \in [Runners -> Run]
    BY <1>1, <1>2, RunRecord, IdleRunType
  <1>4. \A j \in Runners : j # k => ~Active(j)
    BY <1>1, OthersIdle
  <1>5. \A j \in Runners : ~Active(j)'
    BY <1>3, <1>4, IdleRunType DEF Active
  <1>6. TypeOK'
    BY <1>1, <1>2, <1>3 DEF TypeOK
  <1>7. OneRunAtATime'
    BY <1>5 DEF OneRunAtATime
  <1>8. StampsPast'
    BY <1>1 DEF StampsPast
  <1>9. (last # None => last <= now)'
    OBVIOUS
  <1> QED
    BY <1>5, <1>6, <1>7, <1>8, <1>9 DEF IInv

(* Nothing the mark's promise is about changes. *)
LEMMA NoSkipKept ==
    ASSUME NoSkip, src' = src, tgt' = tgt, last' = last, steady' \subseteq steady
    PROVE  NoSkip'
  BY DEF NoSkip, CaughtUp, Cutoff

LEMMA StampsKept ==
    ASSUME StampsPast, src' = src, tgt' = tgt, now' = now
    PROVE  StampsPast'
  BY DEF StampsPast

-----------------------------------------------------------------------------
(* RunInv as a relation of values, so that a step is a matter of the       *)
(* values before and after it.  x is a run, n the clock, l the mark, st    *)
(* the steady targets, s the source, d the targets' contents.              *)

Res(s, c) == {r \in Records : InScope(s[r], c)}

Gen(s, c, cut) ==
    /\ c[2].seq >= 1
    /\ c[2].seq <= s[c[1]].seq
    /\ c[2].at <= s[c[1]].at
    /\ c[2].seq = s[c[1]].seq => c[2] = s[c[1]]
    /\ cut # None => c[2].at >= cut

Car(s, x, r) == s[r].at >= x.started \/ <<r, s[r]>> \in x.fetched

Caught(s, e, m) ==
    \A r \in Records \ Bogon : e[r] = s[r] \/ s[r].at >= m

Basics(x, n, l, st) ==
    /\ x.started <= n
    /\ l # None => l <= x.started
    /\ x.phase # "task" => x.since = l
    /\ x.phase \in Loaded => st \subseteq x.targets
    /\ x.offset >= 0
    /\ x.phase \in {"task", "targets"} => x.offset = 0 /\ x.fetched = {}
    /\ x.phase = "aborted" => x.failed
    /\ x.phase = "mark" => ~x.failed /\ x.todo = {}

GenuineAll(x, s) == \A c \in x.fetched : Gen(s, c, Cutoff(x.since))

PagesDone(x, s) ==
    x.phase = "fetch" =>
        \A r \in Res(s, Cutoff(x.since)) :
            Rank(Res(s, Cutoff(x.since)), r) <= x.offset => Car(s, x, r)

DeltaDone(x, s) ==
    x.phase \in {"push", "mark"} =>
        \A r \in Res(s, Cutoff(x.since)) \ Bogon : Car(s, x, r)

PushesDone(x, s, d, st) ==
    x.phase \in {"push", "mark"} /\ ~x.failed =>
        \A t \in st \ x.todo : Caught(s, d[t], x.started)

LEMMA RunInvNow ==
    ASSUME NEW k \in Runners
    PROVE  RunInv(k) <=> /\ Basics(run[k], now, last, steady)
                         /\ GenuineAll(run[k], src)
                         /\ PagesDone(run[k], src)
                         /\ DeltaDone(run[k], src)
                         /\ PushesDone(run[k], src, tgt, steady)
  <1>1. \A c : Result(c) = Res(src, c)
    BY DEF Result, Res
  <1>2. \A r \in Records : Carried(k, r) <=> Car(src, run[k], r)
    BY DEF Carried, Car
  <1>3. \A c, cut : Genuine(c, cut) <=> Gen(src, c, cut)
    BY DEF Genuine, Gen
  <1>4. \A t, m : CaughtUp(t, m) <=> Caught(src, tgt[t], m)
    BY DEF CaughtUp, Caught
  <1>5. \A c : Res(src, c) \subseteq Records
    BY DEF Res
  <1> QED
    BY <1>1, <1>2, <1>3, <1>4, <1>5
       DEF RunInv, Basics, GenuineAll, PagesDone, DeltaDone, PushesDone

LEMMA RunInvNext ==
    ASSUME NEW k \in Runners
    PROVE  RunInv(k)' <=> /\ Basics(run'[k], now', last', steady')
                          /\ GenuineAll(run'[k], src')
                          /\ PagesDone(run'[k], src')
                          /\ DeltaDone(run'[k], src')
                          /\ PushesDone(run'[k], src', tgt', steady')
  <1>1. \A c : Result(c)' = Res(src', c)
    BY DEF Result, Res
  <1>2. \A r \in Records : Carried(k, r)' <=> Car(src', run'[k], r)
    BY DEF Carried, Car
  <1>3. \A c, cut : Genuine(c, cut)' <=> Gen(src', c, cut)
    BY DEF Genuine, Gen
  <1>4. \A t, m : CaughtUp(t, m)' <=> Caught(src', tgt'[t], m)
    BY DEF CaughtUp, Caught
  <1>5. \A c : Res(src', c) \subseteq Records
    BY DEF Res
  <1> QED
    BY <1>1, <1>2, <1>3, <1>4, <1>5
       DEF RunInv, Basics, GenuineAll, PagesDone, DeltaDone, PushesDone,
           Result, Res, Carried, Car, Genuine, Gen, CaughtUp, Caught

LEMMA NoSkipNow ==
    NoSkip <=> (last # None =>
                   \A t \in steady : Caught(src, tgt[t], Cutoff(last)))
  BY DEF NoSkip, CaughtUp, Caught

LEMMA NoSkipNext ==
    NoSkip' <=> (last' # None =>
                   \A t \in steady' : Caught(src', tgt'[t], Cutoff(last')))
  BY DEF NoSkip, CaughtUp, Caught, Cutoff

-----------------------------------------------------------------------------
(* The initial states and the steps, one lemma each. *)

LEMMA InitInv ==
    ASSUME Ahead >= 0, Init
    PROVE  IInv
  <1> DEFINE First == [seq |-> 1, at |-> Ahead]
  <1>1. Absent \in Version /\ First \in Version
    BY VaultSyncAssumption DEF Absent, Version
  <1>2. First.seq = 1 /\ First.at = Ahead /\ Absent.seq = 0 /\ Absent.at = 0
    BY DEF Absent
  <1>3. src \in [Records -> {Absent, First}]
    BY DEF Init
  <1> HIDE DEF First
  <1>4. \A r \in Records : src[r] = Absent \/ src[r] = First
    BY <1>3
  <1>5. src \in [Records -> Version]
    BY <1>1, <1>3
  <1>6. tgt \in [Targets -> [Records -> Version]]
        /\ \A t \in Targets, r \in Records : tgt[t][r] = Absent
    BY <1>1 DEF Init
  <1>7. run \in [Runners -> Run] /\ \A k \in Runners : ~Active(k)
    BY IdleRunType DEF Init, Active
  <1>8. /\ now = 0 /\ exists = TRUE /\ source = TRUE /\ targets \in SUBSET Targets
        /\ skip \in SkipChoices /\ last = None /\ steady = targets
        /\ slot = FALSE /\ faults = 0 /\ edits = 0
    BY DEF Init
  <1>9. TypeOK
    <2>1. now \in 0..MaxTick /\ faults \in 0..MaxFaults /\ edits \in 0..MaxEdits
      BY <1>8, VaultSyncAssumption
    <2>2. last \in Mark
      BY <1>8 DEF Mark
    <2>3. steady \in SUBSET targets /\ exists \in BOOLEAN /\ source \in BOOLEAN
          /\ slot \in BOOLEAN
      BY <1>8
    <2> QED
      BY <1>5, <1>6, <1>7, <1>8, <2>1, <2>2, <2>3 DEF TypeOK
  <1>10. StampsPast
    <2>1. \A r \in Records : src[r].at <= now + Ahead
      BY <1>2, <1>4, <1>8, VaultSyncAssumption
    <2> QED
      BY <1>2, <1>4, <1>6, <2>1 DEF StampsPast
  <1>11. OneRunAtATime /\ NoSkip
    BY <1>7, <1>8 DEF OneRunAtATime, NoSkip
  <1> QED
    BY <1>7, <1>8, <1>9, <1>10, <1>11 DEF IInv

LEMMA StartInv ==
    ASSUME IInv, NEW k \in Runners, Start(k)
    PROVE  IInv'
  <1> DEFINE x == [IdleRun EXCEPT !.phase = "task", !.started = now]
  <1>1. TypeOK /\ OneRunAtATime /\ StampsPast /\ NoSkip /\ (last # None => last <= now)
    BY DEF IInv
  <1>2. /\ now' = now /\ src' = src /\ tgt' = tgt /\ exists' = exists
        /\ source' = source /\ targets' = targets /\ skip' = skip
        /\ last' = last /\ steady' = steady /\ faults' = faults
        /\ edits' = edits /\ slot' = TRUE
    BY DEF Start, remote, task
  <1>3. run' = [run EXCEPT ![k] = x] /\ ~slot
    BY DEF Start, SlotFree
  <1>4. /\ x \in Run /\ x.phase = "task" /\ x.started = now /\ x.offset = 0
        /\ x.fetched = {}
    <2>1. now \in Int
      BY <1>1 DEF TypeOK
    <2>2. x.phase = "task" /\ x.started = now /\ x.offset = 0 /\ x.fetched = {}
      BY DEF IdleRun
    <2>3. IdleRun \in Run
      BY IdleRunType
    <2>4. x \in Run
      BY <2>1, <2>3 DEF Run, Phase
    <2> QED
      BY <2>2, <2>4
  <1> HIDE DEF x
  <1>5. /\ run'[k] = x
        /\ \A j \in Runners : j # k => run'[j] = run[j]
        /\ run' \in [Runners -> Run]
    BY <1>1, <1>3, <1>4, RunRecord
  <1>6. \A j \in Runners : ~Active(j)
    BY <1>1, <1>3 DEF OneRunAtATime
  <1>7. \A j \in Runners : Active(j)' => j = k
    BY <1>5, <1>6 DEF Active
  <1>8. TypeOK'
    BY <1>1, <1>2, <1>5 DEF TypeOK
  <1>9. OneRunAtATime'
    BY <1>2, <1>7 DEF OneRunAtATime
  <1>10. StampsPast' /\ NoSkip'
    BY <1>1, <1>2, StampsKept, NoSkipKept
  <1>11. now \in Int
    BY <1>1 DEF TypeOK
  <1>12. RunInv(k)'
    BY <1>1, <1>2, <1>4, <1>5, <1>11 DEF RunInv, Loaded
  <1> QED
    BY <1>1, <1>2, <1>7, <1>8, <1>9, <1>10, <1>12 DEF IInv

LEMMA LoadTaskInv ==
    ASSUME IInv, NEW k \in Runners, LoadTask(k)
    PROVE  IInv'
  <1>1. TypeOK /\ StampsPast /\ NoSkip /\ (last # None => last <= now)
    BY DEF IInv
  <1>2. /\ now' = now /\ src' = src /\ tgt' = tgt /\ exists' = exists
        /\ source' = source /\ targets' = targets /\ skip' = skip
        /\ last' = last /\ steady' = steady /\ faults' = faults
        /\ edits' = edits
    BY DEF LoadTask, remote, task
  <1>3. run[k].phase = "task" /\ Active(k) /\ RunInv(k) /\ run[k] \in Run
    BY <1>1 DEF LoadTask, Active, IInv, TypeOK
  <1>4. faults' \in 0..MaxFaults /\ last' \in Mark /\ last \in Mark
        /\ skip \in BOOLEAN
    BY <1>1, <1>2, VaultSyncAssumption DEF TypeOK
  <1>5. StampsPast' /\ NoSkip'
    BY <1>1, <1>2, StampsKept, NoSkipKept
  <1>6. CASE exists
    <2> DEFINE x == [run[k] EXCEPT !.phase = "targets", !.since = last, !.skip = skip]
    <2>1. run' = [run EXCEPT ![k] = x] /\ slot' = slot
      BY <1>6 DEF LoadTask
    <2>2. /\ x \in Run /\ x.phase = "targets" /\ x.since = last
          /\ x.started = run[k].started /\ x.offset = run[k].offset
          /\ x.fetched = run[k].fetched
      BY <1>3, <1>4 DEF Run, Phase
    <2> HIDE DEF x
    <2>3. run'[k] = x
      BY <1>1, <2>1, RunRecord
    <2>4. RunInv(k)'
      BY <1>2, <1>3, <2>2, <2>3 DEF RunInv, Loaded
    <2>5. tgt' \in [Targets -> [Records -> Version]]
      BY <1>1, <1>2 DEF TypeOK
    <2> QED
      BY <1>2, <1>3, <1>4, <1>5, <2>1, <2>2, <2>4, <2>5, RunMoves
  <1>7. CASE ~exists
    <2>1. Release(k)
      BY <1>7 DEF LoadTask
    <2> QED
      BY <1>1, <1>2, <1>3, <1>4, <1>5, <2>1, RunEnds
  <1> QED
    BY <1>6, <1>7

LEMMA LoadTargetsInv ==
    ASSUME IInv, NEW k \in Runners, LoadTargets(k)
    PROVE  IInv'
  <1> DEFINE x == [run[k] EXCEPT !.phase = IF source THEN "fetch" ELSE "aborted",
                                 !.targets = targets, !.failed = ~source]
  <1>1. TypeOK /\ StampsPast /\ NoSkip
    BY DEF IInv
  <1>2. /\ now' = now /\ src' = src /\ tgt' = tgt /\ exists' = exists
        /\ source' = source /\ targets' = targets /\ skip' = skip
        /\ last' = last /\ steady' = steady /\ faults' = faults
        /\ edits' = edits /\ slot' = slot
    BY DEF LoadTargets, remote, task
  <1>3. run[k].phase = "targets" /\ Active(k) /\ RunInv(k) /\ run[k] \in Run
    BY <1>1 DEF LoadTargets, Active, IInv, TypeOK
  <1>4. /\ faults' \in 0..MaxFaults /\ steady \subseteq targets
        /\ targets \in SUBSET Targets /\ source \in BOOLEAN
        /\ tgt' \in [Targets -> [Records -> Version]]
    BY <1>1, <1>2 DEF TypeOK
  <1>5. StampsPast' /\ NoSkip'
    BY <1>1, <1>2, StampsKept, NoSkipKept
  <1>6. run' = [run EXCEPT ![k] = x]
    BY DEF LoadTargets
  <1>7. /\ x \in Run /\ x.phase = (IF source THEN "fetch" ELSE "aborted")
        /\ x.targets = targets /\ x.failed = ~source
        /\ x.since = run[k].since
        /\ x.started = run[k].started /\ x.offset = run[k].offset
        /\ x.fetched = run[k].fetched
    BY <1>3, <1>4 DEF Run, Phase
  <1> HIDE DEF x
  <1>8. run'[k] = x
    BY <1>1, <1>6, RunRecord
  <1>9. x.offset = 0 /\ x.fetched = {} /\ x.since = last
    BY <1>3, <1>7 DEF RunInv
  <1>11. RunInv(k)'
    <2>1. x.phase \in {"fetch", "aborted"} /\ (x.phase = "aborted" => x.failed)
      BY <1>4, <1>7
    <2>2. Basics(run[k], now, last, steady)
      BY <1>3, RunInvNow
    <2>3. Basics(x, now, last, steady)
      BY <1>4, <1>7, <1>9, <2>1, <2>2 DEF Basics, Loaded
    <2>4. GenuineAll(x, src) /\ DeltaDone(x, src) /\ PushesDone(x, src, tgt, steady)
      BY <1>9, <2>1 DEF GenuineAll, DeltaDone, PushesDone
    <2>5. PagesDone(x, src)
      <3>1. Res(src, Cutoff(x.since)) \in SUBSET Records
        BY DEF Res
      <3>2. \A r \in Res(src, Cutoff(x.since)) :
               /\ Rank(Res(src, Cutoff(x.since)), r) \in Nat
               /\ Rank(Res(src, Cutoff(x.since)), r) >= 1
        BY <3>1, RankFacts, RecordNumbers
      <3> QED
        BY <1>9, <3>2 DEF PagesDone
    <2> QED
      BY <1>2, <1>8, <2>3, <2>4, <2>5, RunInvNext
  <1>12. x.phase # "idle"
    BY <1>7
  <1> QED
    BY <1>2, <1>3, <1>4, <1>5, <1>6, <1>7, <1>11, <1>12, RunMoves

(* What a page adds is genuine. *)
LEMMA PageCopies ==
    ASSUME TypeOK, StampsPast, NEW c, NEW r \in Res(src, c)
    PROVE  Gen(src, <<r, src[r]>>, c) /\ <<r, src[r]>> \in Copy
  <1>1. r \in Records /\ src[r] # Absent /\ (c # None => src[r].at >= c)
    BY DEF Res, InScope
  <1>2. src[r] \in Version
    BY <1>1 DEF TypeOK
  <1>3. src[r].seq \in 0..MaxChanges /\ src[r].at \in Int /\ MaxChanges \in Nat
    BY <1>2, VaultSyncAssumption DEF Version
  <1>4. src[r].seq # 0
    BY <1>1 DEF StampsPast
  <1> QED
    BY <1>1, <1>2, <1>3, <1>4 DEF Gen, Copy

LEMMA FetchPageInv ==
    ASSUME IInv, NEW k \in Runners, FetchPage(k)
    PROVE  IInv'
  <1> DEFINE x == run[k]
             cut == Cutoff(x.since)
             S == Res(src, cut)
             page == {r \in S : /\ x.offset < Rank(S, r)
                                /\ Rank(S, r) <= x.offset + PageSize}
             all == x.fetched \cup {<<r, src[r]>> : r \in page}
             kept == {c \in all : x.skip \/ c[1] \notin Bogon}
             more == [x EXCEPT !.fetched = all, !.offset = x.offset + PageSize]
             done == [x EXCEPT !.phase = "push", !.fetched = kept,
                               !.todo = x.targets,
                               !.empty = (x.since = None /\ all = {}),
                               !.any = (x.targets = {})]
  <1>1. TypeOK /\ StampsPast /\ NoSkip
    BY DEF IInv
  <1>2. /\ now' = now /\ src' = src /\ tgt' = tgt /\ exists' = exists
        /\ source' = source /\ targets' = targets /\ skip' = skip
        /\ last' = last /\ steady' = steady /\ faults' = faults
        /\ edits' = edits /\ slot' = slot
    BY DEF FetchPage, remote, task
  <1>3. x.phase = "fetch" /\ Active(k) /\ RunInv(k) /\ x \in Run
    BY <1>1 DEF FetchPage, Active, IInv, TypeOK
  <1>4. /\ faults' \in 0..MaxFaults
        /\ tgt' \in [Targets -> [Records -> Version]]
    BY <1>1, <1>2 DEF TypeOK
  <1>5. StampsPast' /\ NoSkip'
    BY <1>1, <1>2, StampsKept, NoSkipKept
  <1>6. run' = [run EXCEPT ![k] = IF Cardinality(page) < PageSize THEN done ELSE more]
    BY DEF FetchPage, Result, Res
  <1>7. /\ x.fetched \in SUBSET Copy /\ x.offset \in Int /\ x.offset >= 0
        /\ x.targets \in SUBSET Targets /\ PageSize \in Nat /\ PageSize > 0
    BY <1>3, VaultSyncAssumption DEF Run, RunInv
  <1>8. /\ Basics(x, now, last, steady) /\ GenuineAll(x, src)
        /\ PagesDone(x, src)
    BY <1>3, RunInvNow
  <1>9. S \in SUBSET Records /\ page \subseteq S
    BY DEF Res
  <1>10. \A c \in all : c \in Copy /\ Gen(src, c, cut)
    <2>1. \A r \in page : Gen(src, <<r, src[r]>>, cut) /\ <<r, src[r]>> \in Copy
      BY <1>1, <1>9, PageCopies
    <2> QED
      BY <1>7, <1>8, <2>1 DEF GenuineAll
  <1>11. x.fetched \subseteq all /\ kept \subseteq all
         /\ \A r \in page : <<r, src[r]>> \in all
    OBVIOUS
  <1>12. \A r \in S : Rank(S, r) <= x.offset + PageSize =>
                        src[r].at >= x.started \/ <<r, src[r]>> \in all
    <2> SUFFICES ASSUME NEW r \in S, Rank(S, r) <= x.offset + PageSize
                 PROVE  src[r].at >= x.started \/ <<r, src[r]>> \in all
      OBVIOUS
    <2>1. Rank(S, r) \in Nat
      BY <1>9, RankFacts, RecordNumbers
    <2>2. CASE Rank(S, r) <= x.offset
      BY <1>3, <1>8, <1>11, <2>2 DEF PagesDone, Car
    <2>3. CASE ~(Rank(S, r) <= x.offset)
      BY <1>7, <1>11, <2>1, <2>3
    <2> QED
      BY <2>2, <2>3
  <1>13. \A c \in all : c \in kept \/ c[1] \in Bogon
    OBVIOUS
  <1>14. CASE ~(Cardinality(page) < PageSize)
    <2>1. run' = [run EXCEPT ![k] = more]
      BY <1>6, <1>14
    <2>2. all \in SUBSET Copy /\ x.offset + PageSize \in Int
      BY <1>7, <1>10
    <2> HIDE DEF all, x
    <2>3. /\ more \in Run /\ more.phase = "fetch" /\ more.fetched = all
          /\ more.offset = x.offset + PageSize /\ more.started = x.started
          /\ more.since = x.since /\ more.targets = x.targets
      BY <1>3, <2>2 DEF Run
    <2> HIDE DEF more
    <2> USE DEF x
    <2>4. run'[k] = more
      BY <1>1, <2>1, RunRecord
    <2>5. Basics(more, now, last, steady)
      BY <1>3, <1>7, <1>8, <2>3 DEF Basics, Loaded
    <2>6. GenuineAll(more, src)
      BY <1>10, <2>3 DEF GenuineAll
    <2>7. PagesDone(more, src)
      BY <1>12, <2>3 DEF PagesDone, Car
    <2>8. DeltaDone(more, src) /\ PushesDone(more, src, tgt, steady)
      BY <2>3 DEF DeltaDone, PushesDone
    <2>9. RunInv(k)'
      BY <1>2, <2>4, <2>5, <2>6, <2>7, <2>8, RunInvNext
    <2> QED
      BY <1>2, <1>3, <1>4, <1>5, <2>1, <2>3, <2>9, RunMoves
  <1>15. CASE Cardinality(page) < PageSize
    <2>1. run' = [run EXCEPT ![k] = done]
      BY <1>6, <1>15
    <2>2. kept \in SUBSET Copy
      BY <1>10, <1>11
    <2>3. \A r \in S : src[r].at >= x.started \/ <<r, src[r]>> \in all
      <3>1. x.offset \in Nat /\ PageSize \in Nat
        BY <1>7
      <3> HIDE DEF S
      <3>2. \A r \in S : Rank(S, r) <= x.offset + PageSize
        BY <1>9, <1>15, <3>1, ShortPageIsLast
      <3> QED
        BY <1>12, <3>2
    <2>4. \A r \in S \ Bogon : src[r].at >= x.started \/ <<r, src[r]>> \in kept
      BY <1>13, <2>3
    <2>5. (x.since = None /\ all = {}) \in BOOLEAN /\ (x.targets = {}) \in BOOLEAN
      OBVIOUS
    <2> HIDE DEF kept, all
    <2>6. /\ done \in Run /\ done.phase = "push" /\ done.fetched = kept
          /\ done.todo = x.targets /\ done.started = x.started
          /\ done.since = x.since /\ done.targets = x.targets
          /\ done.offset = x.offset
      BY <1>3, <1>7, <2>2, <2>5 DEF Run, Phase
    <2> HIDE DEF done
    <2>7. run'[k] = done
      BY <1>1, <2>1, RunRecord
    <2>8. Basics(done, now, last, steady)
      BY <1>3, <1>7, <1>8, <2>6 DEF Basics, Loaded
    <2>9. GenuineAll(done, src)
      BY <1>10, <1>11, <2>6 DEF GenuineAll
    <2>10. DeltaDone(done, src) /\ PagesDone(done, src)
      BY <2>4, <2>6 DEF DeltaDone, PagesDone, Car
    <2>11. PushesDone(done, src, tgt, steady)
      BY <2>6, <2>8 DEF PushesDone, Basics, Loaded
    <2>12. RunInv(k)'
      BY <1>2, <2>7, <2>8, <2>9, <2>10, <2>11, RunInvNext
    <2> QED
      BY <1>2, <1>3, <1>4, <1>5, <2>1, <2>6, <2>12, RunMoves
  <1> QED
    BY <1>14, <1>15

LEMMA FetchFailInv ==
    ASSUME IInv, NEW k \in Runners, FetchFail(k)
    PROVE  IInv'
  <1> DEFINE x == run[k]
             y == [x EXCEPT !.phase = "aborted", !.failed = TRUE]
  <1>1. TypeOK /\ StampsPast /\ NoSkip
    BY DEF IInv
  <1>2. /\ now' = now /\ src' = src /\ tgt' = tgt /\ exists' = exists
        /\ source' = source /\ targets' = targets /\ skip' = skip
        /\ last' = last /\ steady' = steady
        /\ edits' = edits /\ slot' = slot
    BY DEF FetchFail, remote, task
  <1>3. x.phase = "fetch" /\ Active(k) /\ RunInv(k) /\ x \in Run
    BY <1>1 DEF FetchFail, Active, IInv, TypeOK
  <1>4. /\ faults' \in 0..MaxFaults
        /\ tgt' \in [Targets -> [Records -> Version]]
    BY <1>1, <1>2, VaultSyncAssumption DEF TypeOK, FetchFail
  <1>5. StampsPast' /\ NoSkip'
    BY <1>1, <1>2, StampsKept, NoSkipKept
  <1>6. run' = [run EXCEPT ![k] = y]
    BY DEF FetchFail
  <1>7. /\ y \in Run /\ y.phase = "aborted" /\ y.failed = TRUE
        /\ y.fetched = x.fetched /\ y.since = x.since /\ y.started = x.started
        /\ y.offset = x.offset
    BY <1>3 DEF Run, Phase
  <1> HIDE DEF y
  <1>8. run'[k] = y
    BY <1>1, <1>6, RunRecord
  <1>9. Basics(x, now, last, steady) /\ GenuineAll(x, src)
    BY <1>3, RunInvNow
  <1>10. Basics(y, now, last, steady) /\ GenuineAll(y, src)
    BY <1>3, <1>7, <1>9 DEF Basics, GenuineAll, Loaded
  <1>11. PagesDone(y, src) /\ DeltaDone(y, src) /\ PushesDone(y, src, tgt, steady)
    BY <1>7 DEF PagesDone, DeltaDone, PushesDone
  <1>12. RunInv(k)'
    BY <1>2, <1>8, <1>10, <1>11, RunInvNext
  <1> QED
    BY <1>2, <1>3, <1>4, <1>5, <1>6, <1>7, <1>12, RunMoves

(* What arrives at a target, from all or some of the fetched copies. *)
Arrived(G, old) ==
    [r \in Records |-> IF Fetched(G, r) THEN Newest(G, r)[2] ELSE old[r]]

(* A copy that arrives is in the window, so the mark still skips nothing. *)
LEMMA ArrivedFacts ==
    ASSUME TypeOK, NEW k \in Runners, RunInv(k),
           NEW G \in SUBSET run[k].fetched, NEW r \in Records, Fetched(G, r)
    PROVE  /\ Newest(G, r)[2] \in Version
           /\ Newest(G, r)[2].seq <= src[r].seq
           /\ Newest(G, r)[2].seq = src[r].seq => Newest(G, r)[2] = src[r]
           /\ src[r].seq # 0 /\ src[r] # Absent
           /\ Cutoff(run[k].since) # None => src[r].at >= Cutoff(run[k].since)
           /\ \A d \in G : d[1] = r => d[2].seq <= Newest(G, r)[2].seq
  <1> DEFINE x == run[k]
             n == Newest(G, r)
  <1>1. x \in Run /\ src[r] \in Version
    BY DEF TypeOK
  <1>2. G \in SUBSET Copy
    BY <1>1 DEF Run
  <1>3. /\ n \in G /\ n[1] = r
        /\ \A d \in G : d[1] = r => d[2].seq <= n[2].seq
    BY <1>2, NewestFacts
  <1>4. n[2] \in Version
    BY <1>2, <1>3 DEF Copy
  <1>5. GenuineAll(x, src)
    BY RunInvNow
  <1>6. Gen(src, n, Cutoff(x.since))
    BY <1>3, <1>5 DEF GenuineAll
  <1>7. /\ n[2].seq \in Int /\ n[2].at \in Int /\ src[r].seq \in Int
        /\ src[r].at \in Int
    BY <1>1, <1>4 DEF Version
  <1>8. x.since \in Int \cup {None}
    BY <1>1 DEF Run, Mark
  <1>9. Cutoff(x.since) # None => Cutoff(x.since) \in Int
    BY <1>8, CutoffFacts
  <1>10. Absent.seq = 0
    BY DEF Absent
  <1> HIDE DEF n
  <1>11. src[r].seq # 0 /\ src[r] # Absent
    BY <1>3, <1>6, <1>7, <1>10 DEF Gen
  <1>12. Cutoff(x.since) # None => src[r].at >= Cutoff(x.since)
    BY <1>3, <1>6, <1>7, <1>9 DEF Gen
  <1>13. n[2].seq <= src[r].seq /\ (n[2].seq = src[r].seq => n[2] = src[r])
    BY <1>3, <1>6 DEF Gen
  <1> QED
    BY <1>3, <1>4, <1>11, <1>12, <1>13 DEF n

LEMMA ArrivedKeeps ==
    ASSUME IInv, NEW k \in Runners, RunInv(k), run[k].phase = "push",
           NEW t \in Targets, NEW G \in SUBSET run[k].fetched,
           tgt' = [tgt EXCEPT ![t] = Arrived(G, tgt[t])],
           src' = src, now' = now, last' = last, steady' = steady
    PROVE  /\ tgt' \in [Targets -> [Records -> Version]]
           /\ StampsPast' /\ NoSkip'
           /\ tgt'[t] = Arrived(G, tgt[t])
           /\ \A u \in Targets : u # t => tgt'[u] = tgt[u]
  <1> DEFINE e == Arrived(G, tgt[t])
  <1>1. TypeOK /\ StampsPast /\ NoSkip
    BY DEF IInv
  <1>2. tgt \in [Targets -> [Records -> Version]]
    BY <1>1 DEF TypeOK
  <1>3. \A r \in Records : Fetched(G, r) => Newest(G, r)[2] \in Version
    BY <1>1, ArrivedFacts
  <1>4. e \in [Records -> Version]
    BY <1>2, <1>3 DEF Arrived
  <1>5. \A r \in Records : e[r] = IF Fetched(G, r) THEN Newest(G, r)[2] ELSE tgt[t][r]
    BY DEF Arrived
  <1> HIDE DEF e
  <1>6. tgt' \in [Targets -> [Records -> Version]]
    BY <1>2, <1>4 DEF e
  <1>7. tgt'[t] = e /\ \A u \in Targets : u # t => tgt'[u] = tgt[u]
    BY <1>2 DEF e
  <1>8. StampsPast'
    <2>1. ASSUME NEW r \in Records, src[r].seq = 0 PROVE e[r] = tgt[t][r]
      <3>1. ~Fetched(G, r)
        BY <1>1, <2>1, ArrivedFacts
      <3> QED
        BY <1>5, <3>1
    <2>2. \A r \in Records : src[r].seq = 0 => \A u \in Targets : tgt'[u][r] = tgt[u][r]
      BY <1>7, <2>1
    <2> QED
      BY <1>1, <2>2 DEF StampsPast
  <1>9. NoSkip'
    <2> SUFFICES ASSUME last # None
                 PROVE  \A u \in steady : Caught(src, tgt'[u], Cutoff(last))
      BY NoSkipNext
    <2>1. \A u \in steady : u \in Targets /\ Caught(src, tgt[u], Cutoff(last))
      BY <1>1, NoSkipNow DEF TypeOK
    <2>2. run[k].since = last
      BY RunInvNow DEF Basics
    <2>3. last \in Int
      BY <1>1 DEF TypeOK, Mark
    <2>4. Cutoff(last) # None
      BY <2>3, CutoffFacts
    <2>5. \A r \in Records : Fetched(G, r) => src[r].at >= Cutoff(last)
      BY <1>1, <2>2, <2>4, ArrivedFacts
    <2>6. t \in steady => Caught(src, e, Cutoff(last))
      BY <1>5, <2>1, <2>5 DEF Caught
    <2> QED
      BY <1>7, <2>1, <2>6
  <1> QED
    BY <1>6, <1>7, <1>8, <1>9 DEF e

(* A target that got everything is caught up with the run's start. *)
LEMMA ArrivedCatchesUp ==
    ASSUME IInv, NEW k \in Runners, RunInv(k), run[k].phase = "push",
           NEW t \in steady
    PROVE  Caught(src, Arrived(run[k].fetched, tgt[t]), run[k].started)
  <1> DEFINE x == run[k]
             F == x.fetched
             cut == Cutoff(x.since)
  <1>1. TypeOK /\ StampsPast /\ NoSkip /\ t \in Targets
    BY DEF IInv, TypeOK
  <1>2. x.since = last /\ DeltaDone(x, src)
    BY RunInvNow DEF Basics
  <1>3. last \in Int \cup {None}
    BY <1>1 DEF TypeOK, Mark
  <1> SUFFICES ASSUME NEW r \in Records \ Bogon, ~(src[r].at >= x.started)
               PROVE  Arrived(F, tgt[t])[r] = src[r]
    BY DEF Caught
  <1>4. Arrived(F, tgt[t])[r] = IF Fetched(F, r) THEN Newest(F, r)[2] ELSE tgt[t][r]
    BY DEF Arrived
  <1>5. src[r] \in Version
    BY <1>1 DEF TypeOK
  <1>6. src[r].seq \in Int /\ src[r].at \in Int
    BY <1>5 DEF Version
  <1>7. CASE r \in Res(src, cut)
    <2>1. <<r, src[r]>> \in F
      BY <1>2, <1>7 DEF DeltaDone, Car
    <2>2. Fetched(F, r)
      BY <2>1 DEF Fetched
    <2>3. /\ Newest(F, r)[2].seq <= src[r].seq
          /\ Newest(F, r)[2].seq = src[r].seq => Newest(F, r)[2] = src[r]
          /\ src[r].seq <= Newest(F, r)[2].seq
          /\ Newest(F, r)[2] \in Version
      BY <1>1, <2>1, <2>2, ArrivedFacts
    <2>4. Newest(F, r)[2].seq \in Int
      BY <2>3 DEF Version
    <2> QED
      BY <1>4, <1>6, <2>2, <2>3, <2>4
  <1>8. CASE r \notin Res(src, cut)
    <2>1. src[r] = Absent \/ (cut # None /\ ~(src[r].at >= cut))
      BY <1>8 DEF Res, InScope
    <2>2. ~Fetched(F, r)
      BY <1>1, <2>1, ArrivedFacts
    <2>3. Arrived(F, tgt[t])[r] = tgt[t][r]
      BY <1>4, <2>2
    <2>4. CASE src[r] = Absent
      <3>1. src[r].seq = 0
        BY <2>4 DEF Absent
      <3> QED
        BY <1>1, <2>3, <2>4, <3>1 DEF StampsPast
    <2>5. CASE cut # None /\ ~(src[r].at >= cut)
      <3>1. last # None
        BY <1>2, <2>5, CutoffFacts
      <3>2. Caught(src, tgt[t], cut)
        BY <1>1, <1>2, <3>1, NoSkipNow
      <3> QED
        BY <2>3, <2>5, <3>2 DEF Caught
    <2> QED
      BY <2>1, <2>4, <2>5
  <1> QED
    BY <1>7, <1>8

LEMMA PushOkInv ==
    ASSUME IInv, NEW k \in Runners, NEW t \in Targets, PushOk(k, t)
    PROVE  IInv'
  <1> DEFINE x == run[k]
             y == [x EXCEPT !.todo = x.todo \ {t}, !.any = TRUE]
  <1>1. TypeOK
    BY DEF IInv
  <1>2. /\ now' = now /\ src' = src /\ exists' = exists
        /\ source' = source /\ targets' = targets /\ skip' = skip
        /\ last' = last /\ steady' = steady /\ faults' = faults
        /\ edits' = edits /\ slot' = slot
    BY DEF PushOk, task
  <1>3. x.phase = "push" /\ Active(k) /\ RunInv(k) /\ x \in Run
    BY <1>1 DEF PushOk, Active, IInv, TypeOK
  <1>4. tgt' = [tgt EXCEPT ![t] = Arrived(x.fetched, tgt[t])]
    BY DEF PushOk, Arrived
  <1>5. /\ tgt' \in [Targets -> [Records -> Version]]
        /\ StampsPast' /\ NoSkip'
        /\ tgt'[t] = Arrived(x.fetched, tgt[t])
        /\ \A u \in Targets : u # t => tgt'[u] = tgt[u]
    BY <1>2, <1>3, <1>4, ArrivedKeeps
  <1>6. run' = [run EXCEPT ![k] = y]
    BY DEF PushOk
  <1>7. /\ y \in Run /\ y.phase = "push" /\ y.todo = x.todo \ {t}
        /\ y.failed = x.failed /\ y.fetched = x.fetched /\ y.since = x.since
        /\ y.started = x.started /\ y.offset = x.offset
        /\ y.targets = x.targets
    BY <1>3 DEF Run
  <1> HIDE DEF y
  <1>8. run'[k] = y
    BY <1>1, <1>6, RunRecord
  <1>9. /\ Basics(x, now, last, steady) /\ GenuineAll(x, src)
        /\ DeltaDone(x, src) /\ PushesDone(x, src, tgt, steady)
    BY <1>3, RunInvNow
  <1>10. Basics(y, now, last, steady)
    BY <1>3, <1>7, <1>9 DEF Basics, Loaded
  <1>11. GenuineAll(y, src) /\ PagesDone(y, src) /\ DeltaDone(y, src)
    BY <1>3, <1>7, <1>9 DEF GenuineAll, PagesDone, DeltaDone, Car
  <1>12. PushesDone(y, src, tgt', steady)
    <2> SUFFICES ASSUME ~x.failed, NEW u \in steady \ y.todo
                 PROVE  Caught(src, tgt'[u], x.started)
      BY <1>7 DEF PushesDone
    <2>1. u \in Targets
      BY <1>1 DEF TypeOK
    <2>2. CASE u = t
      BY <1>3, <1>5, <2>2, ArrivedCatchesUp
    <2>3. CASE u # t
      BY <1>3, <1>5, <1>7, <1>9, <2>1, <2>3 DEF PushesDone
    <2> QED
      BY <2>2, <2>3
  <1>13. RunInv(k)'
    BY <1>2, <1>8, <1>10, <1>11, <1>12, RunInvNext
  <1>14. faults' \in 0..MaxFaults
    BY <1>1, <1>2 DEF TypeOK
  <1> QED
    BY <1>2, <1>3, <1>5, <1>6, <1>7, <1>13, <1>14, RunMoves

LEMMA PushErrInv ==
    ASSUME IInv, NEW k \in Runners, NEW t \in Targets, PushErr(k, t)
    PROVE  IInv'
  <1> DEFINE x == run[k]
             y == [x EXCEPT !.todo = x.todo \ {t}, !.failed = TRUE]
  <1>1. TypeOK
    BY DEF IInv
  <1>2. /\ now' = now /\ src' = src /\ exists' = exists
        /\ source' = source /\ targets' = targets /\ skip' = skip
        /\ last' = last /\ steady' = steady
        /\ edits' = edits /\ slot' = slot
    BY DEF PushErr, task
  <1>3. x.phase = "push" /\ Active(k) /\ RunInv(k) /\ x \in Run
    BY <1>1 DEF PushErr, Active, IInv, TypeOK
  <1>4. PICK G \in SUBSET x.fetched : tgt' = [tgt EXCEPT ![t] = Arrived(G, tgt[t])]
    BY DEF PushErr, Arrived
  <1>5. /\ tgt' \in [Targets -> [Records -> Version]]
        /\ StampsPast' /\ NoSkip'
    BY <1>2, <1>3, <1>4, ArrivedKeeps
  <1>6. run' = [run EXCEPT ![k] = y]
    BY DEF PushErr
  <1>7. /\ y \in Run /\ y.phase = "push" /\ y.failed = TRUE
        /\ y.fetched = x.fetched /\ y.since = x.since
        /\ y.started = x.started /\ y.offset = x.offset
        /\ y.targets = x.targets
    BY <1>3 DEF Run
  <1> HIDE DEF y
  <1>8. run'[k] = y
    BY <1>1, <1>6, RunRecord
  <1>9. /\ Basics(x, now, last, steady) /\ GenuineAll(x, src)
        /\ DeltaDone(x, src)
    BY <1>3, RunInvNow
  <1>10. Basics(y, now, last, steady)
    BY <1>3, <1>7, <1>9 DEF Basics, Loaded
  <1>11. GenuineAll(y, src) /\ PagesDone(y, src) /\ DeltaDone(y, src)
    BY <1>3, <1>7, <1>9 DEF GenuineAll, PagesDone, DeltaDone, Car
  <1>12. PushesDone(y, src, tgt', steady)
    BY <1>7 DEF PushesDone
  <1>13. RunInv(k)'
    BY <1>2, <1>8, <1>10, <1>11, <1>12, RunInvNext
  <1>14. faults' \in 0..MaxFaults
    BY <1>1, VaultSyncAssumption DEF TypeOK, PushErr
  <1> QED
    BY <1>2, <1>3, <1>5, <1>6, <1>7, <1>13, <1>14, RunMoves

LEMMA WriteLogInv ==
    ASSUME IInv, NEW k \in Runners, WriteLog(k)
    PROVE  IInv'
  <1> DEFINE x == run[k]
             y == [x EXCEPT !.phase = "mark"]
  <1>1. TypeOK /\ StampsPast /\ NoSkip /\ (last # None => last <= now)
    BY DEF IInv
  <1>2. /\ now' = now /\ src' = src /\ tgt' = tgt /\ exists' = exists
        /\ source' = source /\ targets' = targets /\ skip' = skip
        /\ last' = last /\ steady' = steady /\ faults' = faults
        /\ edits' = edits
    BY DEF WriteLog, remote, task
  <1>3. /\ x.phase \in {"push", "aborted"} /\ x.todo = {}
        /\ Active(k) /\ RunInv(k) /\ x \in Run
    BY <1>1 DEF WriteLog, Active, IInv, TypeOK
  <1>4. faults' \in 0..MaxFaults /\ last' \in Mark
        /\ tgt' \in [Targets -> [Records -> Version]]
    BY <1>1, <1>2 DEF TypeOK
  <1>5. StampsPast' /\ NoSkip'
    BY <1>1, <1>2, StampsKept, NoSkipKept
  <1>6. CASE ~x.failed
    <2>1. run' = [run EXCEPT ![k] = y] /\ slot' = slot
      BY <1>6 DEF WriteLog
    <2>2. /\ y \in Run /\ y.phase = "mark" /\ y.todo = x.todo
          /\ y.failed = x.failed /\ y.fetched = x.fetched
          /\ y.since = x.since /\ y.started = x.started
          /\ y.offset = x.offset /\ y.targets = x.targets
      BY <1>3 DEF Run, Phase
    <2> HIDE DEF y
    <2>3. run'[k] = y
      BY <1>1, <2>1, RunRecord
    <2>4. /\ Basics(x, now, last, steady) /\ GenuineAll(x, src)
          /\ DeltaDone(x, src) /\ PushesDone(x, src, tgt, steady)
      BY <1>3, RunInvNow
    <2>5. x.phase = "push"
      BY <1>3, <1>6, <2>4 DEF Basics
    <2>6. Basics(y, now, last, steady)
      BY <1>3, <1>6, <2>2, <2>4, <2>5 DEF Basics, Loaded
    <2>7. GenuineAll(y, src) /\ PagesDone(y, src) /\ DeltaDone(y, src)
          /\ PushesDone(y, src, tgt, steady)
      BY <2>2, <2>4, <2>5
         DEF GenuineAll, PagesDone, DeltaDone, PushesDone, Car
    <2>8. RunInv(k)'
      BY <1>2, <2>3, <2>6, <2>7, RunInvNext
    <2> QED
      BY <1>2, <1>3, <1>4, <1>5, <2>1, <2>2, <2>8, RunMoves
  <1>7. CASE x.failed
    <2>1. Release(k)
      BY <1>7 DEF WriteLog
    <2> QED
      BY <1>1, <1>2, <1>3, <1>4, <1>5, <2>1, RunEnds
  <1> QED
    BY <1>6, <1>7

(* The mark moves to the start of a run that caught every steady target up. *)
LEMMA SetMarkInv ==
    ASSUME IInv, NEW k \in Runners, SetMark(k)
    PROVE  IInv'
  <1> DEFINE x == run[k]
  <1>1. TypeOK /\ StampsPast /\ NoSkip /\ (last # None => last <= now)
    BY DEF IInv
  <1>2. /\ now' = now /\ src' = src /\ tgt' = tgt /\ exists' = exists
        /\ source' = source /\ targets' = targets /\ skip' = skip
        /\ steady' = steady /\ faults' = faults /\ edits' = edits
    BY DEF SetMark, remote
  <1>3. x.phase = "mark" /\ Active(k) /\ RunInv(k) /\ x \in Run /\ Release(k)
    BY <1>1 DEF SetMark, Active, IInv, TypeOK
  <1>4. last' = IF exists THEN x.started ELSE last
    BY DEF SetMark, MarkOf
  <1>5. x.started \in Int /\ x.started # None
    BY <1>3, VaultSyncAssumption DEF Run
  <1>6. Basics(x, now, last, steady) /\ PushesDone(x, src, tgt, steady)
    BY <1>3, RunInvNow
  <1>7. last' \in Mark /\ (last' # None => last' <= now)
    BY <1>1, <1>4, <1>5, <1>6 DEF TypeOK, Mark, Basics
  <1>8. NoSkip'
    <2>1. CASE ~exists
      BY <1>1, <1>2, <1>4, <2>1, NoSkipKept
    <2>2. CASE exists
      <3>1. \A u \in steady : Caught(src, tgt[u], x.started)
        BY <1>3, <1>6 DEF Basics, PushesDone
      <3>2. Cutoff(x.started) \in Int /\ Cutoff(x.started) <= x.started
        BY <1>5, CutoffFacts
      <3>3. \A r \in Records : src[r].at \in Int
        BY <1>1 DEF TypeOK, Version
      <3>4. \A u \in steady : Caught(src, tgt[u], Cutoff(x.started))
        BY <1>5, <3>1, <3>2, <3>3 DEF Caught
      <3> QED
        BY <1>2, <1>4, <2>2, <3>4, NoSkipNext
    <2> QED
      BY <2>1, <2>2
  <1>9. faults' \in 0..MaxFaults
    BY <1>1, <1>2 DEF TypeOK
  <1> QED
    BY <1>1, <1>2, <1>3, <1>7, <1>8, <1>9, RunEnds

LEMMA AbandonInv ==
    ASSUME IInv, NEW k \in Runners, Abandon(k)
    PROVE  IInv'
  <1>1. TypeOK /\ NoSkip /\ (last # None => last <= now)
    BY DEF IInv
  <1>2. /\ now' = now /\ src' = src /\ tgt' = tgt /\ exists' = exists
        /\ source' = source /\ targets' = targets /\ skip' = skip
        /\ last' = last /\ steady' = steady /\ edits' = edits
    BY DEF Abandon, remote, task
  <1>3. faults' \in 0..MaxFaults /\ last' \in Mark
    BY <1>1, <1>2, VaultSyncAssumption DEF TypeOK, Abandon
  <1>4. NoSkip'
    BY <1>1, <1>2, NoSkipKept
  <1>5. Active(k) /\ Release(k)
    BY DEF Abandon
  <1> QED
    BY <1>1, <1>2, <1>3, <1>4, <1>5, RunEnds

LEMMA CrashInv ==
    ASSUME IInv, Crash
    PROVE  IInv'
  <1>1. TypeOK /\ NoSkip /\ StampsPast /\ (last # None => last <= now)
    BY DEF IInv
  <1>2. /\ now' = now /\ src' = src /\ tgt' = tgt /\ exists' = exists
        /\ source' = source /\ targets' = targets /\ skip' = skip
        /\ last' = last /\ steady' = steady /\ edits' = edits
        /\ slot' = FALSE
    BY DEF Crash, remote, task
  <1>3. faults' \in 0..MaxFaults
    BY <1>1, VaultSyncAssumption DEF TypeOK, Crash
  <1>4. run' \in [Runners -> Run] /\ \A k \in Runners : ~Active(k)'
    BY IdleRunType DEF Crash, Active
  <1>5. TypeOK'
    BY <1>1, <1>2, <1>3, <1>4 DEF TypeOK
  <1>6. StampsPast' /\ NoSkip'
    BY <1>1, <1>2, StampsKept, NoSkipKept
  <1>7. OneRunAtATime'
    BY <1>4 DEF OneRunAtATime
  <1> QED
    BY <1>1, <1>2, <1>4, <1>5, <1>6, <1>7 DEF IInv

(* Steps that leave the runs, the remote vaults and the mark alone. *)
LEMMA QuietStep ==
    ASSUME IInv, run' = run, slot' = slot, src' = src, tgt' = tgt,
           last' = last, now' \in 0..MaxTick, now <= now',
           exists' \in BOOLEAN, source' \in BOOLEAN, skip' \in SkipChoices,
           targets' \in SUBSET Targets, steady' \in SUBSET targets',
           faults' = faults, edits' \in 0..MaxEdits,
           NoSkip',
           \A k \in Runners : run[k].phase \in Loaded => steady' \subseteq steady
    PROVE  IInv'
  <1>1. TypeOK /\ OneRunAtATime /\ StampsPast /\ (last # None => last <= now)
    BY DEF IInv
  <1>2. TypeOK'
    BY <1>1 DEF TypeOK
  <1>3. OneRunAtATime'
    BY <1>1 DEF OneRunAtATime, Active
  <1>4. now \in Int /\ now' \in Int /\ Ahead \in Int
        /\ \A r \in Records : src[r].at \in Int
    BY <1>1, <1>2, VaultSyncAssumption DEF TypeOK, Version
  <1>5. StampsPast'
    BY <1>1, <1>4 DEF StampsPast
  <1>6. (last # None => last <= now)'
    <2>1. last # None => last \in Int
      BY <1>1 DEF TypeOK, Mark
    <2> QED
      BY <1>1, <1>4, <2>1
  <1>7. ASSUME NEW k \in Runners, Active(k)' PROVE RunInv(k)'
    <2> DEFINE x == run[k]
    <2>1. RunInv(k) /\ x \in Run
      BY <1>1, <1>7 DEF Active, IInv, TypeOK
    <2>2. /\ Basics(x, now, last, steady) /\ GenuineAll(x, src)
          /\ PagesDone(x, src) /\ DeltaDone(x, src)
          /\ PushesDone(x, src, tgt, steady)
      BY <2>1, RunInvNow
    <2>3. x.started \in Int
      BY <2>1 DEF Run
    <2>4. Basics(x, now', last, steady')
      BY <1>4, <2>2, <2>3 DEF Basics
    <2>5. PushesDone(x, src, tgt, steady')
      BY <2>2 DEF PushesDone, Loaded
    <2> QED
      BY <2>2, <2>4, <2>5, RunInvNext
  <1> QED
    BY <1>2, <1>3, <1>5, <1>6, <1>7 DEF IInv

LEMMA TickInv ==
    ASSUME IInv, Tick
    PROVE  IInv'
  <1>1. TypeOK /\ NoSkip
    BY DEF IInv
  <1>2. /\ src' = src /\ tgt' = tgt /\ exists' = exists
        /\ source' = source /\ targets' = targets /\ skip' = skip
        /\ last' = last /\ steady' = steady /\ faults' = faults
        /\ edits' = edits /\ slot' = slot /\ run' = run
    BY DEF Tick, remote, task
  <1>3. now' \in 0..MaxTick /\ now <= now'
    BY <1>1, VaultSyncAssumption DEF TypeOK, Tick
  <1>4. NoSkip'
    BY <1>1, <1>2, NoSkipKept
  <1>5. /\ exists' \in BOOLEAN /\ source' \in BOOLEAN /\ skip' \in SkipChoices
        /\ targets' \in SUBSET Targets /\ steady' \in SUBSET targets'
        /\ edits' \in 0..MaxEdits
    BY <1>1, <1>2 DEF TypeOK
  <1> QED
    BY <1>2, <1>3, <1>4, <1>5, QuietStep

LEMMA PatchTaskInv ==
    ASSUME IInv, NEW newTargets \in SUBSET Targets, NEW newSkip \in SkipChoices,
           PatchTask(newTargets, newSkip)
    PROVE  IInv'
  <1>1. TypeOK /\ NoSkip
    BY DEF IInv
  <1>2. /\ now' = now /\ src' = src /\ tgt' = tgt /\ exists' = exists
        /\ source' = source /\ targets' = newTargets /\ skip' = newSkip
        /\ last' = last /\ faults' = faults /\ slot' = slot /\ run' = run
        /\ steady' = IF Settled THEN newTargets ELSE steady \cap newTargets
    BY DEF PatchTask, remote
  <1>3. now' \in 0..MaxTick /\ now <= now'
    BY <1>1, <1>2, VaultSyncAssumption DEF TypeOK
  <1>4. edits' \in 0..MaxEdits
    BY <1>1, VaultSyncAssumption DEF TypeOK, PatchTask
  <1>5. exists' \in BOOLEAN /\ source' \in BOOLEAN /\ steady' \in SUBSET targets'
    BY <1>1, <1>2 DEF TypeOK
  <1>6. NoSkip'
    <2>1. CASE Settled
      BY <1>2, <2>1 DEF NoSkip, Settled
    <2>2. CASE ~Settled
      BY <1>1, <1>2, <2>2, NoSkipKept
    <2> QED
      BY <2>1, <2>2
  <1>7. \A k \in Runners : run[k].phase \in Loaded => steady' \subseteq steady
    BY <1>2 DEF Settled
  <1> QED
    BY <1>2, <1>3, <1>4, <1>5, <1>6, <1>7, QuietStep

LEMMA DeleteTaskInv ==
    ASSUME IInv, NEW withSource \in BOOLEAN, DeleteTask(withSource)
    PROVE  IInv'
  <1>1. TypeOK /\ NoSkip
    BY DEF IInv
  <1>2. /\ now' = now /\ src' = src /\ tgt' = tgt /\ exists' = FALSE
        /\ source' = ~withSource /\ targets' = {} /\ skip' = skip
        /\ last' = last /\ faults' = faults /\ slot' = slot /\ run' = run
        /\ steady' = {}
    BY DEF DeleteTask, remote
  <1>3. now' \in 0..MaxTick /\ now <= now'
    BY <1>1, <1>2, VaultSyncAssumption DEF TypeOK
  <1>4. edits' \in 0..MaxEdits
    BY <1>1, VaultSyncAssumption DEF TypeOK, DeleteTask
  <1>5. exists' \in BOOLEAN /\ source' \in BOOLEAN /\ skip' \in SkipChoices
    BY <1>1, <1>2 DEF TypeOK
  <1>6. NoSkip'
    BY <1>1, <1>2, NoSkipKept
  <1> QED
    BY <1>2, <1>3, <1>4, <1>5, <1>6, QuietStep

LEMMA DeleteTargetInv ==
    ASSUME IInv, NEW t \in Targets, DeleteTarget(t)
    PROVE  IInv'
  <1>1. TypeOK /\ NoSkip
    BY DEF IInv
  <1>2. /\ now' = now /\ src' = src /\ tgt' = tgt /\ exists' = exists
        /\ source' = source /\ targets' = targets \ {t} /\ skip' = skip
        /\ last' = last /\ faults' = faults /\ slot' = slot /\ run' = run
        /\ steady' = steady \ {t}
    BY DEF DeleteTarget, remote
  <1>3. now' \in 0..MaxTick /\ now <= now'
    BY <1>1, <1>2, VaultSyncAssumption DEF TypeOK
  <1>4. edits' \in 0..MaxEdits
    BY <1>1, VaultSyncAssumption DEF TypeOK, DeleteTarget
  <1>5. exists' \in BOOLEAN /\ source' \in BOOLEAN /\ skip' \in SkipChoices
        /\ targets' \in SUBSET Targets /\ steady' \in SUBSET targets'
    BY <1>1, <1>2 DEF TypeOK
  <1>6. NoSkip' /\ steady' \subseteq steady
    BY <1>1, <1>2, NoSkipKept
  <1> QED
    BY <1>2, <1>3, <1>4, <1>5, <1>6, QuietStep

(* A change is stamped at or after the start of any run in flight, and     *)
(* moves no other record forward in the paged result.                      *)
LEMMA ChangeInv ==
    ASSUME Ahead >= 0, IInv, NEW q \in Records, Change(q)
    PROVE  IInv'
  <1> DEFINE v == [seq |-> src[q].seq + 1, at |-> now + Ahead]
  <1>1. TypeOK /\ OneRunAtATime /\ StampsPast /\ NoSkip /\ (last # None => last <= now)
    BY DEF IInv
  <1>2. /\ now' = now /\ tgt' = tgt /\ exists' = exists
        /\ source' = source /\ targets' = targets /\ skip' = skip
        /\ last' = last /\ steady' = steady /\ faults' = faults
        /\ edits' = edits /\ slot' = slot /\ run' = run
    BY DEF Change, task
  <1>3. src' = [src EXCEPT ![q] = v] /\ src[q].seq < MaxChanges
    BY DEF Change
  <1>4. /\ \A r \in Records : /\ src[r] \in Version /\ src[r].seq \in 0..MaxChanges
                              /\ src[r].at \in Int
        /\ now \in Int /\ Ahead \in Int /\ MaxChanges \in Nat
    BY <1>1, VaultSyncAssumption DEF TypeOK, Version
  <1>5. v.seq = src[q].seq + 1 /\ v.at = now + Ahead
    OBVIOUS
  <1>6. v \in Version
    BY <1>3, <1>4 DEF Version
  <1> HIDE DEF v
  <1>7. /\ src' \in [Records -> Version]
        /\ src'[q] = v /\ \A r \in Records : r # q => src'[r] = src[r]
    BY <1>1, <1>3, <1>6 DEF TypeOK
  <1>8. /\ v.at >= now /\ v.at >= src[q].at /\ v.seq > src[q].seq
        /\ v.at \in Int /\ v.seq \in Int /\ v.seq # 0 /\ v # Absent
    <2>1. v.at \in Int /\ v.seq \in Int /\ v.at >= now /\ v.seq > src[q].seq /\ v.seq # 0
      BY <1>4, <1>5
    <2>2. v.at >= src[q].at
      BY <1>1, <1>4, <1>5 DEF StampsPast
    <2>3. Absent.seq = 0
      BY DEF Absent
    <2> QED
      BY <2>1, <2>2, <2>3
  <1>9. TypeOK'
    BY <1>1, <1>2, <1>7 DEF TypeOK
  <1>10. OneRunAtATime'
    BY <1>1, <1>2 DEF OneRunAtATime, Active
  <1>11. StampsPast'
    <2>1. \A r \in Records : src'[r].at <= now' + Ahead
      BY <1>1, <1>2, <1>4, <1>5, <1>7 DEF StampsPast
    <2>2. \A r \in Records : src'[r].seq = 0 =>
             src'[r] = Absent /\ \A t \in Targets : tgt'[t][r] = Absent
      BY <1>1, <1>2, <1>7, <1>8 DEF StampsPast
    <2> QED
      BY <2>1, <2>2 DEF StampsPast
  <1>12. \A e, m : Caught(src, e, m) /\ m \in Int /\ m <= now => Caught(src', e, m)
    <2> SUFFICES ASSUME NEW e, NEW m \in Int, Caught(src, e, m), m <= now,
                        NEW r \in Records \ Bogon
                 PROVE  e[r] = src'[r] \/ src'[r].at >= m
      BY DEF Caught
    <2>1. CASE r = q
      BY <1>4, <1>7, <1>8, <2>1
    <2>2. CASE r # q
      BY <1>7, <2>2 DEF Caught
    <2> QED
      BY <2>1, <2>2
  <1>13. NoSkip'
    <2> SUFFICES ASSUME last # None
                 PROVE  \A t \in steady : Caught(src', tgt[t], Cutoff(last))
      BY <1>2, NoSkipNext
    <2>1. last \in Int /\ last <= now
      BY <1>1 DEF TypeOK, Mark
    <2>2. Cutoff(last) \in Int /\ Cutoff(last) <= now
      BY <1>4, <2>1, CutoffFacts
    <2> QED
      BY <1>1, <1>12, <2>2, NoSkipNow
  <1>14. ASSUME NEW k \in Runners, Active(k)' PROVE RunInv(k)'
    <2> DEFINE x == run[k]
               cut == Cutoff(x.since)
               S == Res(src, cut)
               T == Res(src', cut)
    <2>1. RunInv(k) /\ x \in Run
      BY <1>1, <1>2, <1>14 DEF Active, IInv, TypeOK
    <2>2. /\ Basics(x, now, last, steady) /\ GenuineAll(x, src)
          /\ PagesDone(x, src) /\ DeltaDone(x, src)
          /\ PushesDone(x, src, tgt, steady)
      BY <2>1, RunInvNow
    <2>3. x.started \in Int /\ x.started <= now /\ x.fetched \in SUBSET Copy
          /\ x.since \in Int \cup {None} /\ x.offset \in Int
      BY <2>1, <2>2 DEF Run, Basics, Mark
    <2>4. cut # None => cut \in Int
      BY <2>3, CutoffFacts
    <2>5. GenuineAll(x, src')
      <3> SUFFICES ASSUME NEW c \in x.fetched PROVE Gen(src', c, cut)
        BY DEF GenuineAll
      <3>1. Gen(src, c, cut) /\ c[1] \in Records /\ c[2] \in Version
        BY <2>2, <2>3 DEF GenuineAll, Copy
      <3>2. c[2].seq \in Int /\ c[2].at \in Int
        BY <3>1 DEF Version
      <3>3. CASE c[1] = q
        <4>1. c[2].seq <= src[q].seq /\ c[2].at <= src[q].at /\ c[2].seq >= 1
              /\ (cut # None => c[2].at >= cut)
          BY <3>1, <3>3 DEF Gen
        <4>2. c[2].seq < v.seq /\ c[2].at <= v.at
          BY <1>4, <1>8, <3>2, <4>1
        <4> QED
          BY <1>7, <1>8, <3>2, <3>3, <4>1, <4>2 DEF Gen
      <3>4. CASE c[1] # q
        BY <1>7, <3>1, <3>4 DEF Gen
      <3> QED
        BY <3>3, <3>4
    <2>6. S \subseteq T /\ T \subseteq Records /\ \A r \in T : r = q \/ r \in S
      <3>1. q \in S => q \in T
        BY <1>4, <1>7, <1>8, <2>4 DEF Res, InScope
      <3>2. \A r \in Records : r # q => (r \in S <=> r \in T)
        BY <1>7 DEF Res
      <3>3. S \subseteq Records /\ T \subseteq Records
        BY DEF Res
      <3> QED
        BY <3>1, <3>2, <3>3
    <2>7. \A r \in T : r = q \/ Car(src, x, r) => Car(src', x, r)
      <3>1. Car(src', x, q)
        BY <1>4, <1>7, <1>8, <2>3 DEF Car
      <3>2. \A r \in T : r # q /\ Car(src, x, r) => Car(src', x, r)
        BY <1>7, <2>6 DEF Car
      <3> QED
        BY <3>1, <3>2
    <2>8. PagesDone(x, src')
      <3> SUFFICES ASSUME x.phase = "fetch", NEW r \in T, Rank(T, r) <= x.offset
                   PROVE  Car(src', x, r)
        BY DEF PagesDone
      <3>1. r \in S => Rank(S, r) <= x.offset
        <4>1. Rank(S, r) <= Rank(T, r) /\ Rank(S, r) \in Nat /\ Rank(T, r) \in Nat
          BY <2>6, RankGrows, RankFacts, RecordNumbers
        <4> QED
          BY <2>3, <4>1
      <3> QED
        BY <2>2, <2>6, <2>7, <3>1 DEF PagesDone
    <2>9. DeltaDone(x, src')
      BY <2>2, <2>6, <2>7 DEF DeltaDone
    <2>10. PushesDone(x, src', tgt, steady)
      BY <1>12, <2>2, <2>3 DEF PushesDone
    <2> QED
      BY <1>2, <2>2, <2>5, <2>8, <2>9, <2>10, RunInvNext
  <1> QED
    BY <1>1, <1>2, <1>9, <1>10, <1>11, <1>13, <1>14 DEF IInv

LEMMA StutterInv ==
    ASSUME IInv, UNCHANGED vars
    PROVE  IInv'
  <1>1. TypeOK /\ NoSkip
    BY DEF IInv
  <1>2. /\ now' = now /\ src' = src /\ tgt' = tgt /\ exists' = exists
        /\ source' = source /\ targets' = targets /\ skip' = skip
        /\ last' = last /\ steady' = steady /\ faults' = faults
        /\ edits' = edits /\ slot' = slot /\ run' = run
    BY DEF vars
  <1>3. /\ exists' \in BOOLEAN /\ source' \in BOOLEAN /\ skip' \in SkipChoices
        /\ targets' \in SUBSET Targets /\ steady' \in SUBSET targets'
        /\ edits' \in 0..MaxEdits /\ now' \in 0..MaxTick
    BY <1>1, <1>2 DEF TypeOK
  <1>4. now <= now'
    BY <1>2, <1>3, VaultSyncAssumption
  <1>5. NoSkip'
    BY <1>1, <1>2, NoSkipKept
  <1> QED
    BY <1>2, <1>3, <1>4, <1>5, QuietStep

-----------------------------------------------------------------------------
(* Every step keeps the invariant. *)
LEMMA StepInv ==
    ASSUME Ahead >= 0, IInv, [Next]_vars
    PROVE  IInv'
  <1>1. ASSUME NEW k \in Runners, Start(k) \/ RunStep(k) \/ Abandon(k)
        PROVE  IInv'
    <2>1. CASE Start(k)
      BY <1>1, <2>1, StartInv
    <2>2. CASE RunStep(k)
      <3>1. CASE LoadTask(k)
        BY <3>1, LoadTaskInv
      <3>2. CASE LoadTargets(k)
        BY <3>2, LoadTargetsInv
      <3>3. CASE FetchPage(k)
        BY <3>3, FetchPageInv
      <3>4. CASE FetchFail(k)
        BY <3>4, FetchFailInv
      <3>5. CASE \E t \in Targets : PushOk(k, t) \/ PushErr(k, t)
        BY <3>5, PushOkInv, PushErrInv
      <3>6. CASE WriteLog(k)
        BY <3>6, WriteLogInv
      <3>7. CASE SetMark(k)
        BY <3>7, SetMarkInv
      <3> QED
        BY <2>2, <3>1, <3>2, <3>3, <3>4, <3>5, <3>6, <3>7 DEF RunStep
    <2>3. CASE Abandon(k)
      BY <2>3, AbandonInv
    <2> QED
      BY <1>1, <2>1, <2>2, <2>3
  <1>2. CASE Tick
    BY <1>2, TickInv
  <1>3. CASE \E r \in Records : Change(r)
    BY <1>3, ChangeInv
  <1>4. CASE Crash
    BY <1>4, CrashInv
  <1>5. CASE \E newTargets \in SUBSET Targets, newSkip \in SkipChoices :
                PatchTask(newTargets, newSkip)
    BY <1>5, PatchTaskInv
  <1>6. CASE \E withSource \in BOOLEAN : DeleteTask(withSource)
    BY <1>6, DeleteTaskInv
  <1>7. CASE \E t \in Targets : DeleteTarget(t)
    BY <1>7, DeleteTargetInv
  <1>8. CASE UNCHANGED vars
    BY <1>8, StutterInv
  <1> QED
    BY <1>1, <1>2, <1>3, <1>4, <1>5, <1>6, <1>7, <1>8 DEF Next

(* The inductive invariant holds throughout, for every instance in which   *)
(* the source's clock is not behind this server's: one run at a time       *)
(* (RunningJobs, JobGuard), what a run in flight has fetched and pushed so *)
(* far (vault_sync.rs execute), and what that says of last_sync_at.        *)
THEOREM VaultSyncInvariant ==
    ASSUME Ahead >= 0
    PROVE  Spec => []IInv
  <1>1. Init => IInv
    BY InitInv
  <1>2. IInv /\ [Next]_vars => IInv'
    BY StepInv
  <1> QED
    BY <1>1, <1>2, PTL DEF Spec

(* last_sync_at never skips an undelivered record of a steady target,      *)
(* whatever the page size, the number of records and targets, and however  *)
(* changes, failures, crashes and edits fall between a run's awaits.       *)
THEOREM NoSkipTheorem ==
    ASSUME Ahead >= 0
    PROVE  Spec => []NoSkip
  <1>1. IInv => NoSkip
    BY DEF IInv
  <1> QED
    BY <1>1, VaultSyncInvariant, PTL

(* last_sync_at never moves back: a run in flight started after the mark.  *)
THEOREM MarkNeverRegressesTheorem ==
    ASSUME Ahead >= 0
    PROVE  Spec => MarkNeverRegresses
  <1> DEFINE Grows == last # None => last' # None /\ last' >= last
  <1>1. ASSUME IInv, [Next]_vars PROVE [Grows]_last
    <2>1. last \in Int \cup {None}
      BY <1>1 DEF IInv, TypeOK, Mark
    <2>2. ASSUME NEW k \in Runners, SetMark(k) PROVE Grows
      <3>1. RunInv(k) /\ run[k] \in Run /\ run[k].phase = "mark"
        BY <1>1, <2>2 DEF IInv, TypeOK, SetMark, Active
      <3>2. run[k].started \in Int /\ run[k].started # None
        BY <3>1, VaultSyncAssumption DEF Run
      <3>3. last # None => last <= run[k].started
        BY <3>1 DEF RunInv
      <3>4. last' = run[k].started \/ last' = last
        BY <2>2 DEF SetMark, MarkOf
      <3> QED
        BY <2>1, <3>2, <3>3, <3>4
    <2>3. ASSUME \A k \in Runners : ~SetMark(k) PROVE last' = last
      <3>1. ASSUME NEW k \in Runners, Start(k) \/ RunStep(k) \/ Abandon(k)
            PROVE  last' = last
        BY <2>3, <3>1
           DEF Start, RunStep, Abandon, LoadTask, LoadTargets, FetchPage,
               FetchFail, PushOk, PushErr, WriteLog, task
      <3> QED
        BY <1>1, <3>1
           DEF Next, Tick, Change, Crash, PatchTask, DeleteTask, DeleteTarget,
               task, vars
    <2> QED
      BY <2>2, <2>3
  <1>2. IInv /\ [Next]_vars => [Grows]_last
    BY <1>1
  <1>3. Spec => []IInv
    BY VaultSyncInvariant
  <1> QED
    BY <1>2, <1>3, PTL DEF Spec, MarkNeverRegresses

-----------------------------------------------------------------------------
(* The logged status.  NoSkip is about records of the source; what the log  *)
(* says is about the copies a run carries, so it has an invariant of its    *)
(* own: what a run has booked of its targets so far is true of them.        *)

Got(fetched, content) ==
    \A r \in Records : Fetched(fetched, r) => content[r] = Newest(fetched, r)[2]

Booked(x, held) ==
    /\ x.phase = "fetch" => ~x.failed
    /\ x.phase = "push" =>
          /\ x.todo \subseteq x.targets
          /\ x.targets = {} => ~x.failed
          /\ ~x.failed => \A t \in x.targets \ x.todo : Got(x.fetched, held[t])
          /\ x.any => \/ x.targets = {}
                      \/ \E t \in x.targets \ x.todo : Got(x.fetched, held[t])

StatusInv == \A k \in Runners : Booked(run[k], tgt)

LEMMA NothingBooked ==
    ASSUME NEW x, NEW held, x.phase \notin {"fetch", "push"}
    PROVE  Booked(x, held)
  BY DEF Booked

LEMMA IdleBooked == ASSUME NEW held PROVE Booked(IdleRun, held)
  BY IdleRunType DEF Booked

(* A step of one run that reaches no target. *)
LEMMA RunBooks ==
    ASSUME TypeOK, StatusInv, NEW k \in Runners, NEW x,
           run' = [run EXCEPT ![k] = x], tgt' = tgt, Booked(x, tgt)
    PROVE  StatusInv'
  <1>1. run'[k] = x /\ \A j \in Runners : j # k => run'[j] = run[j]
    BY RunRecord
  <1> QED
    BY <1>1 DEF StatusInv

LEMMA StartBooks ==
    ASSUME TypeOK, StatusInv, NEW k \in Runners, Start(k)
    PROVE  StatusInv'
  <1> DEFINE x == [IdleRun EXCEPT !.phase = "task", !.started = now]
  <1>1. run' = [run EXCEPT ![k] = x] /\ tgt' = tgt
    BY DEF Start, remote
  <1>2. x.phase = "task"
    BY DEF IdleRun
  <1> HIDE DEF x
  <1> QED
    BY <1>1, <1>2, NothingBooked, RunBooks

LEMMA ReleaseBooks ==
    ASSUME TypeOK, StatusInv, NEW k \in Runners, Release(k), tgt' = tgt
    PROVE  StatusInv'
  BY IdleBooked, RunBooks DEF Release

LEMMA LoadBooks ==
    ASSUME TypeOK, StatusInv, NEW k \in Runners, LoadTask(k) \/ LoadTargets(k)
    PROVE  StatusInv'
  <1> DEFINE x == run[k]
             y == [x EXCEPT !.phase = "targets", !.since = last, !.skip = skip]
             z == [x EXCEPT !.phase = IF source THEN "fetch" ELSE "aborted",
                            !.targets = targets, !.failed = ~source]
  <1>1. x \in Run /\ tgt' = tgt
    BY DEF TypeOK, LoadTask, LoadTargets, remote
  <1>2. y.phase = "targets"
    BY <1>1 DEF Run
  <1>3. z.phase = (IF source THEN "fetch" ELSE "aborted") /\ z.failed = ~source
    BY <1>1 DEF Run
  <1>4. run' = [run EXCEPT ![k] = y] \/ run' = [run EXCEPT ![k] = z] \/ Release(k)
    BY DEF LoadTask, LoadTargets
  <1> HIDE DEF y, z
  <1>5. Booked(y, tgt)
    BY <1>2, NothingBooked
  <1>6. Booked(z, tgt)
    BY <1>3 DEF Booked
  <1> QED
    BY <1>1, <1>4, <1>5, <1>6, RunBooks, ReleaseBooks

LEMMA FetchBooks ==
    ASSUME TypeOK, StatusInv, NEW k \in Runners, FetchPage(k) \/ FetchFail(k)
    PROVE  StatusInv'
  <1> DEFINE x == run[k]
  <1>1. x \in Run /\ tgt' = tgt
    BY DEF TypeOK, FetchPage, FetchFail, remote
  <1>2. x.phase = "fetch" /\ ~x.failed
    BY DEF FetchPage, FetchFail, StatusInv, Booked
  <1>3. CASE FetchFail(k)
    <2> DEFINE y == [x EXCEPT !.phase = "aborted", !.failed = TRUE]
    <2>1. run' = [run EXCEPT ![k] = y]
      BY <1>3 DEF FetchFail
    <2>2. y.phase = "aborted"
      BY <1>1 DEF Run
    <2> HIDE DEF y
    <2> QED
      BY <1>1, <2>1, <2>2, NothingBooked, RunBooks
  <1>4. CASE FetchPage(k)
    <2> DEFINE S == Result(Cutoff(x.since))
               page == {r \in S : /\ x.offset < Rank(S, r)
                                  /\ Rank(S, r) <= x.offset + PageSize}
               all == x.fetched \cup {<<r, src[r]>> : r \in page}
               y == [x EXCEPT !.phase = "push",
                              !.fetched = {c \in all : x.skip \/ c[1] \notin Bogon},
                              !.todo = x.targets,
                              !.empty = (x.since = None /\ all = {}),
                              !.any = (x.targets = {})]
               z == [x EXCEPT !.fetched = all, !.offset = x.offset + PageSize]
    <2>1. run' = [run EXCEPT ![k] = IF Cardinality(page) < PageSize THEN y ELSE z]
      BY <1>4 DEF FetchPage
    <2> HIDE DEF page, all
    <2>2. /\ y.phase = "push" /\ y.todo = x.targets /\ y.targets = x.targets
          /\ y.failed = x.failed /\ y.any = (x.targets = {})
      BY <1>1 DEF Run
    <2>3. z.phase = "fetch" /\ z.failed = x.failed
      BY <1>1, <1>2 DEF Run
    <2>4. run' = [run EXCEPT ![k] = y] \/ run' = [run EXCEPT ![k] = z]
      BY <2>1
    <2> HIDE DEF y, z
    <2>5. Booked(y, tgt)
      BY <1>2, <2>2 DEF Booked
    <2>6. Booked(z, tgt)
      BY <1>2, <2>3 DEF Booked
    <2> QED
      BY <1>1, <2>4, <2>5, <2>6, RunBooks
  <1> QED
    BY <1>3, <1>4

LEMMA EndBooks ==
    ASSUME TypeOK, StatusInv, NEW k \in Runners,
           WriteLog(k) \/ SetMark(k) \/ Abandon(k)
    PROVE  StatusInv'
  <1> DEFINE x == run[k]
             y == [x EXCEPT !.phase = "mark"]
  <1>1. x \in Run /\ tgt' = tgt
    BY DEF TypeOK, WriteLog, SetMark, Abandon, remote
  <1>2. y.phase = "mark"
    BY <1>1 DEF Run
  <1>3. run' = [run EXCEPT ![k] = y] \/ Release(k)
    BY DEF WriteLog, SetMark, Abandon
  <1> HIDE DEF y
  <1> QED
    BY <1>1, <1>2, <1>3, NothingBooked, RunBooks, ReleaseBooks

(* A push writes to one target that nothing was booked of yet. *)
LEMMA PushBooks ==
    ASSUME TypeOK, OneRunAtATime, StatusInv, NEW k \in Runners, NEW t \in Targets,
           PushOk(k, t) \/ PushErr(k, t)
    PROVE  StatusInv'
  <1> DEFINE x == run[k]
  <1>1. /\ x \in Run /\ x.phase = "push" /\ t \in x.todo
        /\ x.todo \subseteq x.targets /\ x.targets \subseteq Targets
    BY DEF TypeOK, PushOk, PushErr, StatusInv, Booked, Run
  <1>2. \A j \in Runners : j # k => run[j].phase = "idle"
    BY <1>1, OthersIdle DEF Active
  <1>3. \A u \in Targets : u # t => tgt'[u] = tgt[u]
    BY DEF TypeOK, PushOk, PushErr
  <1>4. /\ ~x.failed => \A u \in x.targets \ x.todo : Got(x.fetched, tgt[u])
        /\ x.any => \E u \in x.targets \ x.todo : Got(x.fetched, tgt[u])
    BY <1>1 DEF StatusInv, Booked
  <1>5. \A u \in x.targets \ x.todo :
            Got(x.fetched, tgt[u]) => Got(x.fetched, tgt'[u])
    BY <1>1, <1>3
  <1>6. CASE PushOk(k, t)
    <2> DEFINE y == [x EXCEPT !.todo = x.todo \ {t}, !.any = TRUE]
    <2>1. run' = [run EXCEPT ![k] = y]
      BY <1>6 DEF PushOk
    <2>2. /\ y.phase = "push" /\ y.todo = x.todo \ {t} /\ y.targets = x.targets
          /\ y.failed = x.failed /\ y.fetched = x.fetched
      BY <1>1 DEF Run
    <2> HIDE DEF y
    <2>3. Got(x.fetched, tgt'[t])
      BY <1>6 DEF TypeOK, PushOk, Got
    <2>4. Booked(y, tgt')
      BY <1>1, <1>4, <1>5, <2>2, <2>3 DEF Booked
    <2>5. run'[k] = y /\ \A j \in Runners : j # k => run'[j].phase = "idle"
      BY <1>2, <2>1, RunRecord
    <2> QED
      BY <2>4, <2>5, NothingBooked DEF StatusInv
  <1>7. CASE PushErr(k, t)
    <2> DEFINE y == [x EXCEPT !.todo = x.todo \ {t}, !.failed = TRUE]
    <2>1. run' = [run EXCEPT ![k] = y]
      BY <1>7 DEF PushErr
    <2>2. /\ y.phase = "push" /\ y.todo = x.todo \ {t} /\ y.targets = x.targets
          /\ y.failed = TRUE /\ y.any = x.any /\ y.fetched = x.fetched
      BY <1>1 DEF Run
    <2> HIDE DEF y
    <2>3. Booked(y, tgt')
      BY <1>1, <1>4, <1>5, <2>2 DEF Booked
    <2>4. run'[k] = y /\ \A j \in Runners : j # k => run'[j].phase = "idle"
      BY <1>2, <2>1, RunRecord
    <2> QED
      BY <2>3, <2>4, NothingBooked DEF StatusInv
  <1> QED
    BY <1>6, <1>7

(* Steps that are no step of a run: they move no target. *)
LEMMA QuietBooks ==
    ASSUME StatusInv, run' = run, tgt' = tgt
    PROVE  StatusInv'
  BY DEF StatusInv

LEMMA StatusStep ==
    ASSUME IInv, StatusInv, [Next]_vars
    PROVE  StatusInv'
  <1>1. TypeOK /\ OneRunAtATime
    BY DEF IInv
  <1>2. ASSUME NEW k \in Runners, RunStep(k) PROVE StatusInv'
    BY <1>1, <1>2, LoadBooks, FetchBooks, PushBooks, EndBooks DEF RunStep
  <1>3. ASSUME NEW k \in Runners, Start(k) \/ Abandon(k) PROVE StatusInv'
    BY <1>1, <1>3, StartBooks, EndBooks
  <1>4. CASE Crash
    <2>1. \A k \in Runners : run'[k] = IdleRun
      BY <1>4 DEF Crash
    <2> QED
      BY <2>1, IdleBooked DEF StatusInv
  <1>5. CASE \/ Tick \/ UNCHANGED vars
             \/ \E r \in Records : Change(r)
             \/ \E newTargets \in SUBSET Targets, newSkip \in SkipChoices :
                   PatchTask(newTargets, newSkip)
             \/ \E withSource \in BOOLEAN : DeleteTask(withSource)
             \/ \E t \in Targets : DeleteTarget(t)
    BY <1>5, QuietBooks
       DEF Tick, Change, PatchTask, DeleteTask, DeleteTarget, remote, vars
  <1> QED
    BY <1>2, <1>3, <1>4, <1>5 DEF Next

(* The status a run writes is true of its targets: a SUCCESS reached them  *)
(* all, a PARTIAL one of them, whatever failed, however the source changed *)
(* and whoever edited the task between the pushes.                         *)
THEOREM HonestStatusTheorem ==
    ASSUME Ahead >= 0
    PROVE  Spec => []HonestStatus
  <1>1. Init => StatusInv
    BY IdleBooked DEF Init, StatusInv
  <1>2. IInv /\ StatusInv /\ [Next]_vars => StatusInv'
    BY StatusStep
  <1>3. StatusInv => HonestStatus
    <2> SUFFICES ASSUME StatusInv, NEW k \in Runners,
                        run[k].phase = "push", run[k].todo = {}
                 PROVE  /\ Status(k) = "SUCCESS" =>
                              \A t \in run[k].targets : Complete(k, t)
                        /\ Status(k) = "PARTIAL" =>
                              \/ run[k].empty
                              \/ \E t \in run[k].targets : Complete(k, t)
      BY DEF HonestStatus
    <2>1. \A t : Got(run[k].fetched, tgt[t]) <=> Complete(k, t)
      BY DEF Got, Complete
    <2>2. /\ run[k].targets = {} => ~run[k].failed
          /\ ~run[k].failed => \A t \in run[k].targets : Complete(k, t)
          /\ run[k].any => \/ run[k].targets = {}
                           \/ \E t \in run[k].targets : Complete(k, t)
      BY <2>1 DEF StatusInv, Booked
    <2> QED
      BY <2>2 DEF Status
  <1>4. Spec => []IInv
    BY VaultSyncInvariant
  <1> QED
    BY <1>1, <1>2, <1>3, <1>4, PTL DEF Spec
=============================================================================
