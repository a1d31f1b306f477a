---------------------------- MODULE ReplayGuard ----------------------------
(***************************************************************************)
(* The single-use cache of accepted signatures.  check_and_record reads    *)
(* the clock once and then takes two mutexes four times, so the threads of *)
(* several requests interleave between the sections and may enter the last *)
(* one in another order than they read the clock.                          *)
(***************************************************************************)
EXTENDS TrustedProxies

CONSTANTS
    Signatures,   \* ids: API key and decoded digest
    Window,       \* MAX_TIMESTAMP_SKEW_SECS, as clamped by ReplayGuard::new
    SweepInterval,\* window / 4
    MaxTracked    \* MAX_TRACKED_SIGNATURES

ASSUME WindowAssumption == /\ Window \in Nat \ {0} /\ SweepInterval \in 0..Window
                           /\ MaxTracked \in Nat
                           /\ IsFiniteSet(Signatures)

VARIABLES
    seen,         \* signature -> when it expires, None when not recorded
    last_sweep,
    captured,     \* request -> the now its check works with
    sweep,        \* request -> whether it has to remove the expired entries
    accepted      \* signature -> the now of its last acceptance (history)

guardVars == <<seen, last_sweep, captured, sweep, accepted>>

Recorded == {s \in Signatures : seen[s] # None}

---------------------------------------------------------------------------
(* Plausible defects of the definitions below, for mutation. *)
BadRetained(r) == [s \in Signatures |-> None]
BadExpiresAt(r) == captured[r] + Window + 1

\* What retain keeps: saturation is never flushed wholesale.
Retained(r) ==
    [s \in Signatures |->
        IF seen[s] # None /\ seen[s] > captured[r] THEN seen[s] ELSE None]
ExpiresAt(r) == captured[r] + Window

GuardInit ==
    /\ seen = [s \in Signatures |-> None]
    /\ last_sweep = 0
    /\ captured = [r \in Requests |-> 0]
    /\ sweep = [r \in Requests |-> FALSE]
    /\ accepted = [s \in Signatures |-> None]

To(r, next) ==
    /\ stage' = [stage EXCEPT ![r] = next]
    /\ UNCHANGED <<now, hosts, snapshot, built, holder, looking, arrived, list, until,
                   asked, abandoned, named>>

\* prune_if_due, first section: is a routine sweep due?
\* duration_since yields zero for an instant in the future.
Due(r) ==
    /\ stage[r] = "due"
    /\ LET due == captured[r] - last_sweep >= SweepInterval \/ SweepInterval = 0
       IN /\ sweep' = [sweep EXCEPT ![r] = due]
          /\ last_sweep' = IF due THEN captured[r] ELSE last_sweep
    /\ To(r, "capacity")
    /\ UNCHANGED <<seen, captured, accepted>>

\* Second section: is the map full?
Capacity(r) ==
    /\ stage[r] = "capacity"
    /\ LET prune == sweep[r] \/ Cardinality(Recorded) >= MaxTracked
       IN To(r, IF prune THEN "retain" ELSE "check")
    /\ UNCHANGED guardVars

\* Third section.
Retain(r) ==
    /\ stage[r] = "retain"
    /\ seen' = Retained(r)
    /\ To(r, "check")
    /\ UNCHANGED <<last_sweep, captured, sweep, accepted>>

\* The last section of check_and_record: a repeat is refused, anything else is
\* recorded.
IsRepeat(r, s) == seen[s] # None /\ seen[s] > captured[r]
Record(r, s) ==
    /\ ~IsRepeat(r, s)
    /\ seen' = [seen EXCEPT ![s] = ExpiresAt(r)]
    /\ accepted' = [accepted EXCEPT ![s] = captured[r]]
    /\ UNCHANGED <<last_sweep, captured, sweep>>

---------------------------------------------------------------------------
(* Properties.                                                              *)

GuardTypeOK ==
    /\ seen \in [Signatures -> Nat \cup {None}]
    /\ last_sweep \in Nat
    /\ captured \in [Requests -> Nat]
    /\ sweep \in [Requests -> BOOLEAN]
    /\ accepted \in [Signatures -> Nat \cup {None}]

\* A signature is forgotten only once its window is over.
GuardInv ==
    /\ \A r \in Requests : captured[r] <= now
    /\ \A s \in Signatures :
          /\ seen[s] # None => accepted[s] # None /\ seen[s] = accepted[s] + Window
          /\ seen[s] = None => accepted[s] = None \/ now >= accepted[s] + Window
=============================================================================
