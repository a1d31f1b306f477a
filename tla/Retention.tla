----------------------------- MODULE Retention -----------------------------
(***************************************************************************)
(* The retention worker beside the daemon that starts it.  The worker is   *)
(* spawned just before the process binds, purges sync_logs and then        *)
(* audit_logs, waits for the next tick of its interval and starts over; it *)
(* dies with the process.  A failed purge is logged and the loop goes on.  *)
(***************************************************************************)
EXTENDS Boot

CONSTANTS
    DayChoices,   \* settings of the two *_RETENTION_DAYS variables
    MaxAge,       \* days after which a row ages no further
    MaxFaults     \* purges that fail

VARIABLES
    worker,       \* the table purged next, "wait" for the tick, "off"
    days,         \* table -> its retention window, 0 keeps everything
    age,          \* log row -> days since it was written
    faults

vars == <<backend, db, saved, phase, at, env, pinned, given, torn, mixed, crashes,
          changes, worker, days, age, faults>>
workerVars == <<worker, days, age, faults>>

LogTable == {"sync_logs", "audit_logs"}
IdOf(t, row) == IF t = "audit_logs" THEN row.id ELSE row

(* Plausible defects of the definitions below, for mutation. *)
BadSpawned == IF \A t \in LogTable : days[t] = 0 THEN "off" ELSE "wait"

\* The rows of t that are older than its window: DELETE ... WHERE timestamp < threshold.
Expired(t) == {row \in db.rows[t] : days[t] > 0 /\ age[IdOf(t, row)] > days[t]}

Init ==
    /\ BootInit
    /\ worker = "off"
    /\ days \in DayChoices
    /\ age = [r \in LogRows \cup AuditRows |-> 0]
    /\ faults = 0

\* The worker that has just been spawned: its first tick fires at once; with
\* both windows disabled it returns.
Spawned == IF \A t \in LogTable : days[t] = 0 THEN "off" ELSE "sync_logs"

Boots == /\ \/ BootStep /\ worker' = "off"
            \/ BootScheduler /\ worker' = Spawned
            \/ Bind /\ UNCHANGED worker
         /\ UNCHANGED <<days, age, faults>>
Ends == (Stop \/ Crash) /\ worker' = "off" /\ UNCHANGED <<days, age, faults>>
Others == (SecretStep \/ OutsideStep) /\ UNCHANGED workerVars

AfterPurge == IF worker = "sync_logs" THEN "audit_logs" ELSE "wait"

\* purge_expired_sync_logs and purge_expired_audit_logs.
Purge ==
    /\ worker \in LogTable
    /\ db' = [db EXCEPT !.rows[worker] = @ \ Expired(worker)]
    /\ given' = IF worker = "audit_logs"
                THEN [given EXCEPT !.trail = {r \in @ : \A x \in Expired("audit_logs") : x.id # r.id}]
                ELSE given
    /\ age' = [r \in DOMAIN age |->
                  IF \E row \in Expired(worker) : IdOf(worker, row) = r THEN 0 ELSE age[r]]
    /\ worker' = AfterPurge
    /\ UNCHANGED <<backend, saved, phase, at, env, pinned, torn, mixed, crashes, changes,
                   days, faults>>

PurgeFails ==
    /\ worker \in LogTable
    /\ days[worker] > 0
    /\ faults < MaxFaults
    /\ faults' = faults + 1
    /\ worker' = AfterPurge
    /\ UNCHANGED <<bootVars, days, age>>

NextTick == worker = "wait" /\ worker' = "sync_logs" /\ UNCHANGED <<bootVars, days, age, faults>>

\* A job adds a row as soon as the scheduler runs, an audited request once the
\* process serves.
WriteSyncLog ==
    /\ phase \in {"bind", "serving"}
    /\ \E r \in LogRows \ db.rows["sync_logs"] :
          /\ db' = [db EXCEPT !.rows["sync_logs"] = @ \cup {r}]
          /\ age' = [age EXCEPT ![r] = 0]
    /\ UNCHANGED <<backend, saved, phase, at, env, pinned, given, torn, mixed, crashes, changes,
                   worker, days, faults>>

WriteAuditLog ==
    /\ phase = "serving"
    /\ \E r \in AuditRows :
          LET row == [id |-> r, by |-> [col \in Column |-> "recorded"]]
          IN /\ \A x \in db.rows["audit_logs"] : x.id # r
             /\ db' = [db EXCEPT !.rows["audit_logs"] = @ \cup {row}]
             /\ given' = [given EXCEPT !.trail = @ \cup {row}]
             /\ age' = [age EXCEPT ![r] = 0]
    /\ UNCHANGED <<backend, saved, phase, at, env, pinned, torn, mixed, crashes, changes,
                   worker, days, faults>>

\* A day passes; starting up takes less than one.  The age of a row matters
\* where its table has a window.
Aging == {r \in DOMAIN age : /\ age[r] < MaxAge
                             /\ \E t \in LogTable : /\ days[t] > 0
                                                   /\ \E row \in db.rows[t] : IdOf(t, row) = r}
Day ==
    /\ phase \in {"down", "serving"}
    /\ Aging # {}
    /\ age' = [r \in DOMAIN age |-> IF r \in Aging THEN age[r] + 1 ELSE age[r]]
    /\ UNCHANGED <<bootVars, worker, days, faults>>

Next == Boots \/ Ends \/ Others \/ Purge \/ PurgeFails \/ NextTick
        \/ WriteSyncLog \/ WriteAuditLog \/ Day

Spec == Init /\ [][Next]_vars

---------------------------------------------------------------------------
(* Properties.                                                              *)

\* The awaits of run(), the purges and the timer go on as long as the process
\* lives; a process that is restarted again and again still finishes a purge
\* now and then.
Fairness == /\ WF_vars(Boots)
            /\ WF_vars(NextTick)
            /\ \A t \in LogTable : SF_vars(worker = t /\ Purge)
FairSpec == Spec /\ Fairness

\* Even when every process is restarted before its second tick: a row older
\* than its window is gone in the end, or the daemon no longer serves.
BacklogCleared ==
    \A t \in LogTable : \A r \in IF t = "sync_logs" THEN LogRows ELSE AuditRows :
        (\E row \in Expired(t) : IdOf(t, row) = r)
        ~> (\/ \A row \in Expired(t) : IdOf(t, row) # r
            \/ [](phase # "serving"))

\* A start that meets no malformed or mismatched variable, no second Master and
\* no database torn by a kill outside a transaction reaches the listener.
Misconfigured ==
    \/ env.cipher = "malformed" \/ ~env.trusted_proxies_ok
    \/ ~env.initial_master_key_ok /\ Masters(db) = {}
    \/ \E row \in db.rows["api_keys"] : ~Opens(env.cipher, row.sealed)
    \/ Cardinality(Masters(db)) > 1
Recovers == []<>(phase = "serving" \/ Misconfigured \/ torn)

---------------------------------------------------------------------------
(* The inductive invariant: the worker lives in a process that has come     *)
(* past the scheduler.                                                      *)

WorkerInv ==
    /\ worker \in LogTable \cup {"wait", "off"}
    /\ worker # "off" => phase \in {"bind", "serving"}

IInv == BootInv /\ WorkerInv
=============================================================================
