--------------------------- MODULE BatchDelivery ---------------------------
(***************************************************************************)
(* Delivery of one run's records to one target group of a remote vault:    *)
(* the chunk loop of the jobs (jobs/mod.rs chunk_records and               *)
(* mode_for_chunk_index), client.rs post_batch with its work queue of      *)
(* split pieces, and post_batch_with_retry with its retry budget.          *)
(*                                                                         *)
(* Records are numbered 1..n in delivery order and stand for distinct      *)
(* addresses; a piece (Vec<BatchRecordInput>) is an interval of them, with *)
(* the mode it is sent with.  An answer to one POST is a status and        *)
(* whether the vault executed the batch: a transient or fatal answer       *)
(* (gateway error, client-side timeout, unreadable 2xx body) may hide an   *)
(* executed batch, a 413 never does.  A batch whose answer was an error    *)
(* is executed before that answer is seen or not at all.                   *)
(***************************************************************************)
EXTENDS Integers, Sequences

CONSTANTS
    MaxItems,     \* bound on the number of records of a run
    MaxBatch,     \* MAX_BATCH_SIZE
    MaxRetries,   \* config::outbound_max_retries()
    Initial       \* the group's live records before the run

ASSUME BatchAssumption ==
    /\ MaxItems \in Nat
    /\ MaxBatch \in Nat \ {0}
    /\ MaxRetries \in Nat
    /\ Initial \subseteq Int

BatchMode == {"upsert", "full_replace"}
Piece == [lo : 1..MaxItems, hi : 1..MaxItems, mode : BatchMode]

VARIABLES
    n,         \* number of records of the run
    base,      \* configured mode of the run
    index,     \* chunks handed to post_batch so far
    pos,       \* records in those chunks
    queue,     \* post_batch's work queue; its head is the piece being sent
    attempt,   \* retries already spent on the head piece
    group,     \* live records of the target group (on the remote vault)
    outcome,   \* "running", then "ok" or "err"
    pieces,    \* pieces whose post_batch_with_retry returned, over the run
    sends      \* POST requests sent, over the run

vars == <<n, base, index, pos, queue, attempt, group, outcome, pieces, sends>>

Lowest(a, b) == IF a < b THEN a ELSE b

-----------------------------------------------------------------------------
(* The remote vault (external): what executing one batch does to the group. *)
Execute(g, piece) ==
    IF piece.mode = "full_replace"
    THEN piece.lo .. piece.hi
    ELSE g \cup (piece.lo .. piece.hi)

-----------------------------------------------------------------------------
(* Plausible defects of the definitions below, for mutation. *)
BadModeForChunkIndex(mode, i) == mode
BadSecondMode(mode) == mode
BadMayRetry(a) == a <= MaxRetries
BadChunkEnd(p) == p + MaxBatch

\* jobs::mode_for_chunk_index
ModeForChunkIndex(mode, i) == IF i = 0 THEN mode ELSE "upsert"

\* The end of the chunk that starts after record p (chunk_records).
ChunkEnd(p) == Lowest(p + MaxBatch, n)

\* post_batch: the mode of the second half of a split piece.
SecondMode(mode) == "upsert"

\* post_batch: split_off(len / 2), in delivery order.
Split(piece) ==
    LET mid == (piece.hi - piece.lo + 1) \div 2
    IN  << [piece EXCEPT !.hi = piece.lo + mid - 1],
           [lo |-> piece.lo + mid, hi |-> piece.hi,
            mode |-> SecondMode(piece.mode)] >>

\* post_batch_with_retry: the guard `attempt < max_retries`.
MayRetry(a) == a < MaxRetries

\* The answers that are retried, and among them and 413 those that split.
Transient(status) == status = "transient"
Splits(status) == status = "too_large" \/ Transient(status)

\* An answer: its class and whether the vault executed the batch.
Answer == {<<"ok", TRUE>>, <<"too_large", FALSE>>}
            \cup ({"transient", "fatal"} \X BOOLEAN)

-----------------------------------------------------------------------------
Init ==
    /\ n \in 0..MaxItems
    /\ base \in BatchMode
    /\ index = 0
    /\ pos = 0
    /\ queue = <<>>
    /\ attempt = 0
    /\ group = Initial
    /\ outcome = "running"
    /\ pieces = 0
    /\ sends = 0

Busy == outcome = "running" /\ queue # <<>>

\* The job calls post_batch on the next chunk.
NextChunk ==
    /\ outcome = "running"
    /\ queue = <<>>
    /\ pos < n
    /\ queue' = <<[lo |-> pos + 1, hi |-> ChunkEnd(pos),
                   mode |-> ModeForChunkIndex(base, index)]>>
    /\ pos' = ChunkEnd(pos)
    /\ index' = index + 1
    /\ UNCHANGED <<n, base, attempt, group, outcome, pieces, sends>>

\* One POST of the head piece and what the vault does with it.
Send(answer) ==
    /\ Busy
    /\ sends' = sends + 1
    /\ group' = IF answer[2] THEN Execute(group, Head(queue)) ELSE group
    /\ UNCHANGED <<n, base, index, pos>>

\* 2xx: the piece is done, the queue moves on.
PostOk ==
    /\ Send(<<"ok", TRUE>>)
    /\ queue' = Tail(queue)
    /\ attempt' = 0
    /\ pieces' = pieces + 1
    /\ UNCHANGED outcome

\* A transient answer with retry budget left: same piece, signed afresh.
PostRetry ==
    /\ \E answer \in Answer :
        /\ Transient(answer[1])
        /\ MayRetry(attempt)
        /\ Send(answer)
    /\ attempt' = attempt + 1
    /\ UNCHANGED <<queue, outcome, pieces>>

\* 413, or a transient answer that outlived the budget, on a piece of more
\* than one record: both halves go to the front, in delivery order.
PostSplit ==
    /\ \E answer \in Answer :
        /\ Splits(answer[1])
        /\ ~(Transient(answer[1]) /\ MayRetry(attempt))
        /\ Send(answer)
    /\ Head(queue).lo < Head(queue).hi
    /\ queue' = Split(Head(queue)) \o Tail(queue)
    /\ attempt' = 0
    /\ pieces' = pieces + 1
    /\ UNCHANGED outcome

\* Any other error ends post_batch, and the job's loop over this target.
PostFail ==
    /\ \E answer \in Answer :
        /\ answer[1] # "ok"
        /\ ~(Transient(answer[1]) /\ MayRetry(attempt))
        /\ Send(answer)
        /\ Splits(answer[1]) => Head(queue).lo = Head(queue).hi
    /\ queue' = <<>>
    /\ attempt' = 0
    /\ pieces' = pieces + 1
    /\ outcome' = "err"

\* Every chunk has been delivered.
Finish ==
    /\ outcome = "running"
    /\ queue = <<>>
    /\ pos = n
    /\ outcome' = "ok"
    /\ UNCHANGED <<n, base, index, pos, queue, attempt, group, pieces, sends>>

Next == NextChunk \/ PostOk \/ PostRetry \/ PostSplit \/ PostFail \/ Finish

\* Every request is answered: the HTTP client has a timeout (client.rs
\* build_http_client) and backoff sleeps are bounded (retry.rs).
Fairness == WF_vars(Next)

Spec == Init /\ [][Next]_vars
FairSpec == Spec /\ Fairness

-----------------------------------------------------------------------------
(* Properties *)

TypeOK ==
    /\ n \in 0..MaxItems
    /\ base \in BatchMode
    /\ index \in Nat
    /\ pos \in 0..n
    /\ queue \in Seq(Piece)
    /\ attempt \in 0..MaxRetries
    /\ group \in SUBSET Int
    /\ outcome \in {"running", "ok", "err"}
    /\ pieces \in Nat
    /\ sends \in Nat

\* The refinement mapping: the abstract push sees the run, the group and the
\* outcome, and nothing of chunks, queue, attempts and counters.
Delivery == INSTANCE GroupDelivery
            WITH n <- n, base <- base, group <- group, outcome <- outcome,
                 MaxItems <- MaxItems, Initial <- Initial

\* How far delivery has been confirmed by 2xx answers.
Confirmed == IF queue = <<>> THEN pos ELSE Head(queue).lo - 1

\* The pieces of a queue q cover an interval that ends at record p, without
\* gap or overlap and without an empty piece.
Contiguous(q, p) ==
    /\ \A i \in 1..Len(q) : q[i].lo <= q[i].hi
    /\ \A i \in 1..Len(q) : q[i].hi + (Len(q) - i) <= p
    /\ \A i \in 2..Len(q) : q[i - 1].hi + 1 = q[i].lo
    /\ q # <<>> => q[Len(q)].hi = p

\* A piece carries full_replace exactly when it starts the run of a
\* full_replace job: post_batch's splitting and mode_for_chunk_index agree.
OnlyFirstReplaces(q, b) ==
    \A i \in 1..Len(q) : q[i].mode = IF q[i].lo = 1 THEN b ELSE "upsert"

\* The target group always holds a prefix of the run, at least the confirmed
\* part of it: neither a retried nor a split piece ever removes a record
\* whose delivery the vault has acknowledged (client.rs post_batch).
HoldsPrefix ==
    outcome = "running" =>
        \E p \in Confirmed..pos : group = Delivery!Content(p)

\* A push that reports success has delivered every record of the run, and
\* under full_replace nothing else is left in the group.
OkMeansDelivered ==
    outcome = "ok" => group = Delivery!Content(n)

\* The splits of post_batch cost at most one retry budget per node of the
\* halving trees: a run of n records never sends more than
\* (MaxRetries + 1) * (2n - 1) requests, whatever the vault answers.
PieceBudget ==
    IF queue = <<>> THEN 0 ELSE 2 * (pos - Confirmed) - Len(queue)
PiecesBounded ==
    IF pos = 0 THEN pieces = 0 ELSE pieces + PieceBudget <= 2 * pos - 1
RequestsBounded ==
    IF n = 0 THEN sends = 0 ELSE sends <= (MaxRetries + 1) * (2 * n - 1)

\* The inductive invariant.
IInv ==
    /\ TypeOK
    /\ outcome # "running" => queue = <<>>
    /\ queue = <<>> => attempt = 0
    /\ (index = 0) <=> (pos = 0)
    /\ Contiguous(queue, pos)
    /\ OnlyFirstReplaces(queue, base)
    /\ HoldsPrefix
    /\ OkMeansDelivered
    /\ PiecesBounded
    /\ sends <= (MaxRetries + 1) * pieces + attempt

\* The push implements the abstract delivery specification.
ImplementsDelivery == Delivery!Spec

\* The push ends, with success or an error, whatever the vault answers.
Terminates == <>(outcome # "running")
=============================================================================
