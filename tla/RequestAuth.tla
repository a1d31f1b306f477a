---------------------------- MODULE RequestAuth ----------------------------
(***************************************************************************)
(* auth_middleware: what a request passes through before its handler runs, *)
(* with the trusted-proxy cache and the replay guard that all requests     *)
(* share and the clock.                                                    *)
(***************************************************************************)
EXTENDS ReplayGuard

CONSTANTS
    Messages,     \* what a client may send
    Answers,      \* what the resolver may answer, {} for a failure
    MaxTime,      \* the clock stops here
    MaxArrivals   \* requests in one behaviour

Message == [peer : Addresses, forwarded : Seq(Addresses), real_ip : Addresses \cup {None},
            timestamp : Int, signature : Signatures]

ASSUME MessageAssumption == /\ Messages \subseteq Message /\ None \notin Message
                            /\ Answers \subseteq SUBSET Addresses
                            /\ None \notin Addresses

VARIABLES
    message,      \* request -> what it carries
    client,       \* request -> its resolved client address
    arrivals

authVars == <<message, client, arrivals>>
vars == <<now, hosts, snapshot, built, holder, looking, stage, arrived, list, until, asked,
          abandoned, named, seen, last_sweep, captured, sweep, accepted, message, client, arrivals>>

---------------------------------------------------------------------------
(* Plausible defects of the definitions below, for mutation. *)
BadResolveClientIp(m, trusted, a) ==
    a = IF m.forwarded # <<>> THEN m.forwarded[1] ELSE m.peer

\* resolve_client_ip answers a: headers count only behind a trusted peer; then
\* the rightmost hop of X-Forwarded-For that is not trusted, X-Real-IP, the peer.
ResolveClientIp(m, trusted, a) ==
    \/ m.peer \notin trusted /\ a = m.peer
    \/ /\ m.peer \in trusted
       /\ \E i \in DOMAIN m.forwarded :
             /\ a = m.forwarded[i] /\ a \notin trusted
             /\ \A j \in (i + 1)..Len(m.forwarded) : m.forwarded[j] \in trusted
    \/ /\ m.peer \in trusted
       /\ \A i \in DOMAIN m.forwarded : m.forwarded[i] \in trusted
       /\ a = IF m.real_ip # None THEN m.real_ip ELSE m.peer

\* validate_timestamp.
Timely(m) == now - m.timestamp \in (-Window)..Window

Init ==
    /\ ProxyInit
    /\ GuardInit
    /\ message = [r \in Requests |-> None]
    /\ client = [r \in Requests |-> None]
    /\ arrivals = 0

Arrive(r) ==
    /\ stage[r] = "idle"
    /\ arrivals < MaxArrivals
    /\ arrivals' = arrivals + 1
    /\ \E m \in Messages : message' = [message EXCEPT ![r] = m]
    /\ stage' = [stage EXCEPT ![r] = "read"]
    /\ arrived' = [arrived EXCEPT ![r] = now]
    /\ UNCHANGED <<now, hosts, snapshot, built, holder, looking, list, until, asked, abandoned,
                   named, guardVars, client>>

Lists(r) == (Resolved(r) \/ Lock(r)) /\ UNCHANGED <<guardVars, authVars>>
Primes == Prime /\ UNCHANGED <<guardVars, authVars>>
Answered == \E a \in Answers : LookedUp(a) /\ UNCHANGED <<guardVars, authVars>>

\* The future of r ends and its locals with it.
LocalsGone(r) ==
    /\ captured' = [captured EXCEPT ![r] = 0]
    /\ sweep' = [sweep EXCEPT ![r] = FALSE]
    /\ message' = [message EXCEPT ![r] = None]
    /\ client' = [client EXCEPT ![r] = None]
    /\ UNCHANGED <<seen, last_sweep, accepted, arrivals>>
Respond(r) == Finished(r) /\ LocalsGone(r) /\ UNCHANGED <<holder, looking, abandoned>>

\* The client address and the timestamp, as soon as the list is there.
Authenticate(r) ==
    /\ stage[r] = "listed"
    /\ \/ /\ Timely(message[r])
          /\ To(r, "body")
          /\ \E a \in Addresses : /\ ResolveClientIp(message[r], list[r], a)
                                  /\ client' = [client EXCEPT ![r] = a]
          /\ UNCHANGED <<guardVars, message, arrivals>>
       \/ ~Timely(message[r]) /\ Respond(r)

\* The key's row and the body are there: the signature is proven and
\* check_and_record reads the clock.  Nothing is recorded when the row is gone,
\* the body too large or the signature another message's.
VerifySignature(r) ==
    /\ stage[r] = "body"
    /\ \/ /\ To(r, "due")
          /\ captured' = [captured EXCEPT ![r] = now]
          /\ UNCHANGED <<seen, last_sweep, sweep, accepted, authVars>>
       \/ Respond(r)

Guards(r) == (Due(r) \/ Capacity(r) \/ Retain(r)) /\ UNCHANGED authVars

CheckAndRecord(r) ==
    /\ stage[r] = "check"
    /\ \/ /\ Record(r, message[r].signature)
          /\ To(r, "handler")
          /\ UNCHANGED authVars
       \/ IsRepeat(r, message[r].signature) /\ Respond(r)

\* What is left reads the request's own row: bound_ips, the pinned Master, the
\* handler.  Each of them ends with an answer.
Handled(r) == stage[r] = "handler" /\ Respond(r)

\* The client goes away.
Disconnect(r) == Drop(r) /\ LocalsGone(r)

Tick ==
    /\ now < MaxTime
    /\ now' = now + 1
    /\ UNCHANGED <<hosts, snapshot, built, holder, looking, stage, arrived, list, until,
                   asked, abandoned, named, guardVars, authVars>>

\* The steps the server takes by itself, and the one that waits for the body.
OwnStep(r) == Lists(r) \/ Authenticate(r) \/ Guards(r) \/ CheckAndRecord(r) \/ Handled(r)
Step(r) == OwnStep(r) \/ VerifySignature(r)
Next == \/ \E r \in Requests : Arrive(r) \/ Step(r) \/ Disconnect(r)
        \/ Primes \/ Answered \/ Tick

Spec == Init /\ [][Next]_vars

---------------------------------------------------------------------------
(* Properties.                                                              *)

TypeOK ==
    /\ ProxyTypeOK
    /\ GuardTypeOK
    /\ message \in [Requests -> Messages \cup {None}]
    /\ client \in [Requests -> Addresses \cup {None}]
    /\ arrivals \in Nat

\* The addresses of a list were named late enough.
Vouched(r, a) == a \in Networks \/ (named[a] # None /\ arrived[r] - named[a] < PositiveTtl)
Carried == {"listed", "body", "due", "capacity", "retain", "check", "handler"}
ListInv ==
    \A r \in Requests :
        /\ stage[r] \in Carried => \A a \in list[r] : Vouched(r, a)
        /\ stage[r] \in {"idle", "read", "queue", "locked", "listed"} <=> client[r] = None
        /\ stage[r] \in Stage \ {"prime", "grace", "done"}
        /\ stage[r] = "idle" <=> message[r] = None
        /\ client[r] # None => ResolveClientIp(message[r], list[r], client[r])

\* The strengthening that makes the properties below inductive.
IInv == TypeOK /\ LockInv /\ RefreshInv /\ AttemptInv /\ LookupInv /\ GuardInv /\ ListInv

\* A request is attributed to another address than its peer's only when the
\* peer is a literal entry, or a completed lookup named it no longer than the
\* positive TTL before the request came in, whatever the request waited for.
HeadersFromRecentProxies ==
    \A r \in Requests : client[r] # None /\ client[r] # message[r].peer =>
        Vouched(r, message[r].peer)

\* A signature is accepted again only after the window of its last acceptance
\* is over, whatever order the threads of the requests take the mutexes in and
\* however full the map is (check_and_record, prune_if_due).
NoEarlyRepeat ==
    [][\A r \in Requests : stage[r] = "check" /\ stage'[r] = "handler" =>
          \/ accepted[message[r].signature] = None
          \/ now >= accepted[message[r].signature] + Window]_vars

\* The guard turns away only a repeat of what was accepted less than a window
\* before its own clock reading: nothing else is ever recorded.
RefusedOnlyRepeats ==
    [][\A r \in Requests : stage[r] = "check" /\ stage'[r] = "idle" =>
          /\ accepted[message[r].signature] # None
          /\ captured[r] < accepted[message[r].signature] + Window]_vars

\* The resolver answers or times out, the lock's queue is FIFO and the runtime
\* polls every request that can go on.  Nobody has to arrive, to send the body
\* it announced or to go away, and the boot task may never be polled.
Fairness == /\ \A r \in Requests : WF_vars(OwnStep(r))
            /\ WF_vars(Answered)
FairSpec == Spec /\ Fairness

\* Only a client keeps its own request waiting: every request is answered, gone
\* or waits for its own body in the end, whoever else's body never comes.  A
\* dropped request leaves no lock behind, and the boot task, its grace period
\* and the requests do not block each other.
OnlyItsClientStalls ==
    \A r \in Requests : stage[r] \notin {"idle", "body"} ~> stage[r] \in {"idle", "body"}
=============================================================================
