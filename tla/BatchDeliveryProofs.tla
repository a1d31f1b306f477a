------------------------ MODULE BatchDeliveryProofs ------------------------
(***************************************************************************)
(* Proofs about BatchDelivery: the inductive invariant, the bound on the   *)
(* number of requests, and that the push implements GroupDelivery.         *)
(***************************************************************************)
EXTENDS BatchDelivery, TLAPS

(* A non-empty queue's head and tail, index by index. *)
LEMMA TailFacts ==
    ASSUME NEW S, NEW q \in Seq(S), q # <<>>
    PROVE  /\ Head(q) = q[1]
           /\ Len(q) \in Nat \ {0}
           /\ q[1] \in S
           /\ Tail(q) \in Seq(S)
           /\ Len(Tail(q)) = Len(q) - 1
           /\ \A i \in 1..(Len(q) - 1) : Tail(q)[i] = q[i + 1]
  OBVIOUS

(* Replacing the head of a queue by two elements, index by index. *)
LEMMA PushFrontFacts ==
    ASSUME NEW S, NEW q \in Seq(S), q # <<>>, NEW a \in S, NEW b \in S
    PROVE  /\ <<a, b>> \o Tail(q) \in Seq(S)
           /\ Len(<<a, b>> \o Tail(q)) = Len(q) + 1
           /\ (<<a, b>> \o Tail(q))[1] = a
           /\ (<<a, b>> \o Tail(q))[2] = b
           /\ \A i \in 3..(Len(q) + 1) : (<<a, b>> \o Tail(q))[i] = q[i - 1]
  <1>1. Tail(q) \in Seq(S) /\ Len(Tail(q)) = Len(q) - 1
    BY TailFacts
  <1>2. <<a, b>> \in Seq(S) /\ Len(<<a, b>>) = 2
    OBVIOUS
  <1>3. \A i \in 3..(Len(q) + 1) : (<<a, b>> \o Tail(q))[i] = Tail(q)[i - 2]
    BY <1>1, <1>2
  <1>4. \A i \in 3..(Len(q) + 1) : Tail(q)[i - 2] = q[i - 1]
    BY TailFacts
  <1> QED
    BY <1>1, <1>2, <1>3, <1>4

(* The fields of the pieces of a queue are record numbers. *)
LEMMA PieceBounds ==
    ASSUME NEW q \in Seq(Piece)
    PROVE  \A i \in 1..Len(q) :
              /\ q[i].lo \in 1..MaxItems /\ q[i].hi \in 1..MaxItems
              /\ q[i].lo \in Int /\ q[i].hi \in Int
  <1> SUFFICES ASSUME NEW i \in 1..Len(q)
               PROVE  /\ q[i].lo \in 1..MaxItems /\ q[i].hi \in 1..MaxItems
                      /\ q[i].lo \in Int /\ q[i].hi \in Int
    OBVIOUS
  <1>1. q[i] \in Piece
    OBVIOUS
  <1>2. q[i].lo \in 1..MaxItems /\ q[i].hi \in 1..MaxItems
    BY <1>1 DEF Piece
  <1> QED
    BY <1>2, BatchAssumption

(* A queue is empty exactly when its length is zero. *)
LEMMA EmptyLen ==
    ASSUME NEW S, NEW q \in Seq(S)
    PROVE  q = <<>> <=> Len(q) = 0
  OBVIOUS

(* The two halves of a piece of more than one record. *)
LEMMA SplitFacts ==
    ASSUME NEW piece \in Piece, piece.lo < piece.hi
    PROVE  \E a \in Piece, b \in Piece :
              /\ Split(piece) = <<a, b>>
              /\ a.lo = piece.lo /\ a.lo <= a.hi /\ a.mode = piece.mode
              /\ a.hi + 1 = b.lo
              /\ b.lo <= b.hi /\ b.hi = piece.hi /\ b.mode = "upsert"
  <1> DEFINE mid == (piece.hi - piece.lo + 1) \div 2
             a == [piece EXCEPT !.hi = piece.lo + mid - 1]
             b == [lo |-> piece.lo + mid, hi |-> piece.hi, mode |-> "upsert"]
  <1>1. /\ piece.lo \in 1..MaxItems /\ piece.hi \in 1..MaxItems
        /\ piece.mode \in BatchMode /\ MaxItems \in Nat
    BY BatchAssumption DEF Piece
  <1>2. mid \in Nat /\ 1 <= mid /\ mid <= piece.hi - piece.lo
    BY <1>1
  <1> HIDE DEF mid
  <1>3. a \in Piece /\ b \in Piece
    BY <1>1, <1>2 DEF Piece, BatchMode
  <1>4. /\ a.lo = piece.lo /\ a.mode = piece.mode /\ a.hi = piece.lo + mid - 1
        /\ b.lo = piece.lo + mid /\ b.hi = piece.hi /\ b.mode = "upsert"
    BY DEF Piece
  <1>5. Split(piece) = <<a, b>>
    BY DEF Split, SecondMode, mid
  <1> HIDE DEF a, b
  <1> QED
    BY <1>1, <1>2, <1>3, <1>4, <1>5

-----------------------------------------------------------------------------
(* Popping the head keeps the queue contiguous; the new head starts where   *)
(* the old one ended.                                                       *)
LEMMA TailContiguous ==
    ASSUME NEW q \in Seq(Piece), q # <<>>, NEW p \in Nat, NEW b,
           Contiguous(q, p), OnlyFirstReplaces(q, b)
    PROVE  /\ Contiguous(Tail(q), p)
           /\ OnlyFirstReplaces(Tail(q), b)
           /\ Tail(q) = <<>> => q[1].hi = p
           /\ Tail(q) # <<>> => Head(Tail(q)).lo = q[1].hi + 1
  <1> DEFINE t == Tail(q)
  <1>1. /\ t \in Seq(Piece) /\ Len(t) = Len(q) - 1 /\ Len(q) \in Nat \ {0}
        /\ \A i \in 1..Len(t) : t[i] = q[i + 1]
    BY TailFacts
  <1>2. \A i \in 1..Len(q) : q[i].lo \in Int /\ q[i].hi \in Int
    BY PieceBounds
  <1> HIDE DEF t
  <1>3. t = <<>> <=> Len(q) = 1
    BY <1>1, EmptyLen
  <1>4. t # <<>> => Head(t) = q[2]
    <2> SUFFICES ASSUME t # <<>> PROVE Head(t) = q[2]
      OBVIOUS
    <2>1. Head(t) = t[1] /\ Len(t) \in Nat \ {0}
      BY <1>1, TailFacts
    <2> QED
      BY <1>1, <2>1
  <1>5. Contiguous(t, p)
    <2>1. \A i \in 1..Len(t) : t[i].lo <= t[i].hi
      <3> SUFFICES ASSUME NEW i \in 1..Len(t) PROVE t[i].lo <= t[i].hi
        OBVIOUS
      <3>1. i + 1 \in 1..Len(q) /\ t[i] = q[i + 1]
        BY <1>1
      <3> QED
        BY <3>1 DEF Contiguous
    <2>2. \A i \in 1..Len(t) : t[i].hi + (Len(t) - i) <= p
      <3> SUFFICES ASSUME NEW i \in 1..Len(t)
                   PROVE  t[i].hi + (Len(t) - i) <= p
        OBVIOUS
      <3>1. i + 1 \in 1..Len(q) /\ t[i] = q[i + 1]
        BY <1>1
      <3>2. q[i + 1].hi + (Len(q) - (i + 1)) <= p
        BY <3>1 DEF Contiguous
      <3> QED
        BY <1>1, <1>2, <3>1, <3>2
    <2>3. \A i \in 2..Len(t) : t[i - 1].hi + 1 = t[i].lo
      <3> SUFFICES ASSUME NEW i \in 2..Len(t)
                   PROVE  t[i - 1].hi + 1 = t[i].lo
        OBVIOUS
      <3>1. /\ i + 1 \in 2..Len(q) /\ t[i] = q[i + 1]
            /\ t[i - 1] = q[(i + 1) - 1]
        BY <1>1
      <3>2. q[(i + 1) - 1].hi + 1 = q[i + 1].lo
        BY <3>1 DEF Contiguous
      <3> QED
        BY <3>1, <3>2
    <2>4. t # <<>> => t[Len(t)].hi = p
      <3> SUFFICES ASSUME t # <<>> PROVE t[Len(t)].hi = p
        OBVIOUS
      <3>1. t[Len(t)] = q[Len(q)]
        BY <1>1, <1>3
      <3> QED
        BY <3>1 DEF Contiguous
    <2> QED
      BY <2>1, <2>2, <2>3, <2>4 DEF Contiguous
  <1>6. OnlyFirstReplaces(t, b)
    BY <1>1 DEF OnlyFirstReplaces
  <1>7. t = <<>> => q[1].hi = p
    BY <1>1, <1>3 DEF Contiguous
  <1>8. t # <<>> => q[1].hi + 1 = q[2].lo
    BY <1>1, <1>3 DEF Contiguous
  <1> QED
    BY <1>4, <1>5, <1>6, <1>7, <1>8 DEF t

(* Splitting the head keeps the queue contiguous and starting where it did. *)
LEMMA SplitContiguous ==
    ASSUME NEW q \in Seq(Piece), q # <<>>, NEW p \in Nat, NEW b \in BatchMode,
           Contiguous(q, p), OnlyFirstReplaces(q, b), q[1].lo < q[1].hi
    PROVE  LET s == Split(Head(q)) \o Tail(q)
           IN  /\ s \in Seq(Piece) /\ s # <<>> /\ Len(s) = Len(q) + 1
               /\ Head(s).lo = q[1].lo
               /\ Contiguous(s, p)
               /\ OnlyFirstReplaces(s, b)
  <1>1. Head(q) = q[1] /\ q[1] \in Piece /\ Len(q) \in Nat \ {0}
    BY TailFacts
  <1>2. PICK x \in Piece, y \in Piece :
              /\ Split(q[1]) = <<x, y>>
              /\ x.lo = q[1].lo /\ x.lo <= x.hi /\ x.mode = q[1].mode
              /\ x.hi + 1 = y.lo
              /\ y.lo <= y.hi /\ y.hi = q[1].hi /\ y.mode = "upsert"
    BY <1>1, SplitFacts
  <1> DEFINE s == <<x, y>> \o Tail(q)
  <1>3. /\ s \in Seq(Piece) /\ Len(s) = Len(q) + 1 /\ s[1] = x /\ s[2] = y
        /\ \A i \in 3..Len(s) : s[i] = q[i - 1]
    BY PushFrontFacts
  <1>4. Split(Head(q)) \o Tail(q) = s
    BY <1>1, <1>2
  <1> HIDE DEF s
  <1>5. s # <<>> /\ Head(s) = x
    BY <1>1, <1>3, TailFacts
  <1>6. \A i \in 1..Len(q) : q[i].lo \in Int /\ q[i].hi \in Int
    BY PieceBounds
  <1>7. x.lo \in 1..MaxItems /\ x.hi \in Int /\ y.lo \in Int /\ y.hi \in Int
        /\ y.lo # 1
    BY <1>2, BatchAssumption DEF Piece
  <1>8. \A i \in 1..Len(s) : s[i].lo <= s[i].hi
    <2> SUFFICES ASSUME NEW i \in 1..Len(s) PROVE s[i].lo <= s[i].hi
      OBVIOUS
    <2>1. CASE i = 1
      BY <1>2, <1>3, <2>1
    <2>2. CASE i = 2
      BY <1>2, <1>3, <2>2
    <2>3. CASE i > 2
      <3>1. s[i] = q[i - 1] /\ i - 1 \in 1..Len(q)
        BY <1>1, <1>3, <2>3
      <3> QED
        BY <3>1 DEF Contiguous
    <2> QED
      BY <1>1, <1>3, <2>1, <2>2, <2>3
  <1>9. \A i \in 1..Len(s) : s[i].hi + (Len(s) - i) <= p
    <2> SUFFICES ASSUME NEW i \in 1..Len(s)
                 PROVE  s[i].hi + (Len(s) - i) <= p
      OBVIOUS
    <2>1. q[1].hi + (Len(q) - 1) <= p /\ q[1].hi \in Int
      BY <1>1, <1>6 DEF Contiguous
    <2>2. CASE i = 1
      BY <1>1, <1>2, <1>3, <1>7, <2>1, <2>2
    <2>3. CASE i = 2
      BY <1>1, <1>2, <1>3, <1>7, <2>1, <2>3
    <2>4. CASE i > 2
      <3>1. s[i] = q[i - 1] /\ i - 1 \in 1..Len(q)
        BY <1>1, <1>3, <2>4
      <3>2. q[i - 1].hi + (Len(q) - (i - 1)) <= p /\ q[i - 1].hi \in Int
        BY <1>6, <3>1 DEF Contiguous
      <3> QED
        BY <1>1, <1>3, <3>1, <3>2
    <2> QED
      BY <1>1, <1>3, <2>2, <2>3, <2>4
  <1>10. \A i \in 2..Len(s) : s[i - 1].hi + 1 = s[i].lo
    <2> SUFFICES ASSUME NEW i \in 2..Len(s) PROVE s[i - 1].hi + 1 = s[i].lo
      OBVIOUS
    <2>1. CASE i = 2
      BY <1>2, <1>3, <2>1
    <2>2. CASE i = 3
      BY <1>1, <1>2, <1>3, <2>2 DEF Contiguous
    <2>3. CASE i > 3
      <3>1. s[i] = q[i - 1] /\ s[i - 1] = q[i - 2]
        BY <1>1, <1>3, <2>3
      <3>2. i - 1 \in 2..Len(q)
        BY <1>1, <1>3, <2>3
      <3>3. q[(i - 1) - 1].hi + 1 = q[i - 1].lo
        BY <3>2 DEF Contiguous
      <3> QED
        BY <3>1, <3>3
    <2> QED
      BY <2>1, <2>2, <2>3
  <1>11. s[Len(s)].hi = p
    BY <1>1, <1>2, <1>3 DEF Contiguous
  <1>12. OnlyFirstReplaces(s, b)
    <2> SUFFICES ASSUME NEW i \in 1..Len(s)
                 PROVE  s[i].mode = IF s[i].lo = 1 THEN b ELSE "upsert"
      BY DEF OnlyFirstReplaces
    <2>1. CASE i = 1
      BY <1>1, <1>2, <1>3, <2>1 DEF OnlyFirstReplaces
    <2>2. CASE i = 2
      BY <1>2, <1>3, <1>7, <2>2
    <2>3. CASE i > 2
      BY <1>1, <1>3, <2>3 DEF OnlyFirstReplaces
    <2> QED
      BY <1>1, <1>3, <2>1, <2>2, <2>3
  <1>13. Contiguous(s, p)
    BY <1>8, <1>9, <1>10, <1>11 DEF Contiguous
  <1> QED
    BY <1>2, <1>3, <1>4, <1>5, <1>12, <1>13

(* The arithmetic of one more retry budget. *)
LEMMA OneMoreBudget ==
    ASSUME NEW r \in Nat, NEW c \in Nat, NEW a \in 0..r, NEW s \in Nat,
           s <= (r + 1) * c + a
    PROVE  s + 1 <= (r + 1) * (c + 1)
  <1>1. (r + 1) * (c + 1) = (r + 1) * c + (r + 1)
    OBVIOUS
  <1>2. (r + 1) * c \in Int
    OBVIOUS
  <1> DEFINE m == (r + 1) * c
  <1> HIDE DEF m
  <1>3. s + 1 <= m + (r + 1)
    BY <1>2 DEF m
  <1> QED
    BY <1>1, <1>3 DEF m

(* A bound in pieces is a bound in requests. *)
LEMMA BudgetMonotone ==
    ASSUME NEW r \in Nat, NEW c \in Nat, NEW d \in Nat, NEW s \in Nat,
           c <= 2 * d - 1, s <= (r + 1) * c
    PROVE  s <= (r + 1) * (2 * d - 1)
  <1> DEFINE k == (2 * d - 1) - c
  <1>1. k \in Nat /\ 2 * d - 1 = c + k
    OBVIOUS
  <1> HIDE DEF k
  <1>2. (r + 1) * (c + k) = (r + 1) * c + (r + 1) * k
    BY <1>1
  <1>3. (r + 1) * k \in Nat /\ (r + 1) * c \in Nat
    BY <1>1
  <1> DEFINE x == (r + 1) * c
             y == (r + 1) * k
  <1> HIDE DEF x, y
  <1>4. s <= x + y
    BY <1>3 DEF x, y
  <1> QED
    BY <1>1, <1>2, <1>4 DEF x, y

(* The bound on the requests of a non-empty run is not negative. *)
LEMMA LeastBudget ==
    ASSUME NEW r \in Nat, NEW d \in Nat, d # 0
    PROVE  0 <= (r + 1) * (2 * d - 1)
  <1>1. 0 \in Nat /\ 0 <= 2 * d - 1 /\ 0 <= (r + 1) * 0
    OBVIOUS
  <1> QED
    BY <1>1, BudgetMonotone

(* What the invariant says of the piece being sent. *)
LEMMA HeadFacts ==
    ASSUME IInv, queue # <<>>
    PROVE  /\ Head(queue) = queue[1]
           /\ queue[1] \in Piece
           /\ queue[1].lo \in 1..MaxItems /\ queue[1].hi \in 1..MaxItems
           /\ queue[1].lo <= queue[1].hi
           /\ queue[1].hi + (Len(queue) - 1) <= pos
           /\ queue[1].mode = IF queue[1].lo = 1 THEN base ELSE "upsert"
           /\ Len(queue) \in Nat \ {0}
           /\ Confirmed = queue[1].lo - 1
           /\ outcome = "running"
           /\ n \in 0..MaxItems /\ pos \in 0..n /\ MaxItems \in Nat
  <1>1. /\ queue \in Seq(Piece) /\ Contiguous(queue, pos)
        /\ OnlyFirstReplaces(queue, base)
        /\ outcome # "running" => queue = <<>>
        /\ n \in 0..MaxItems /\ pos \in 0..n /\ MaxItems \in Nat
    BY BatchAssumption DEF IInv, TypeOK
  <1>2. /\ Head(queue) = queue[1] /\ Len(queue) \in Nat \ {0}
        /\ queue[1] \in Piece
    BY <1>1, TailFacts
  <1>3. queue[1].lo \in 1..MaxItems /\ queue[1].hi \in 1..MaxItems
    BY <1>2 DEF Piece
  <1>4. /\ queue[1].lo <= queue[1].hi
        /\ queue[1].hi + (Len(queue) - 1) <= pos
    BY <1>1, <1>2 DEF Contiguous
  <1> QED
    BY <1>1, <1>2, <1>3, <1>4 DEF OnlyFirstReplaces, Confirmed

(* Executing the head piece extends the delivered prefix to the end of the  *)
(* piece at least, and never past what has been handed to post_batch.       *)
LEMMA ExecuteFacts ==
    ASSUME IInv, queue # <<>>, NEW p \in Confirmed..pos,
           group = Delivery!Content(p)
    PROVE  /\ \E r \in queue[1].hi..pos :
                 Execute(group, Head(queue)) = Delivery!Content(r)
           /\ base = "upsert" => group \subseteq Execute(group, Head(queue))
  <1> DEFINE lo == queue[1].lo
             hi == queue[1].hi
             m  == IF p > hi THEN p ELSE hi
  <1>1. /\ lo \in 1..MaxItems /\ hi \in 1..MaxItems /\ lo <= hi /\ hi <= pos
        /\ p \in Nat /\ lo - 1 <= p /\ p <= pos /\ pos \in Nat
        /\ queue[1].mode = IF lo = 1 THEN base ELSE "upsert"
        /\ MaxItems \in Nat
    BY HeadFacts
  <1>2. Head(queue) = queue[1]
    BY HeadFacts
  <1>3. base \in BatchMode
    BY DEF IInv, TypeOK
  <1> HIDE DEF lo, hi
  <1>4. CASE base = "full_replace" /\ lo = 1
    <2>1. Execute(group, Head(queue)) = 1..hi
      BY <1>1, <1>2, <1>4 DEF Execute, lo, hi
    <2>2. 1..hi = Delivery!Content(hi)
      BY <1>1, <1>4 DEF Delivery!Content
    <2> QED
      BY <1>1, <1>4, <2>1, <2>2 DEF hi
  <1>5. CASE base = "full_replace" /\ lo # 1
    <2>1. Execute(group, Head(queue)) = (1..p) \cup (lo..hi)
      BY <1>1, <1>2, <1>5 DEF Execute, lo, hi, Delivery!Content
    <2>2. (1..p) \cup (lo..hi) = 1..m
      BY <1>1, <1>5
    <2>3. 1..m = Delivery!Content(m) /\ m \in hi..pos
      BY <1>1, <1>5 DEF Delivery!Content
    <2> QED
      BY <1>5, <2>1, <2>2, <2>3 DEF hi
  <1>6. CASE base = "upsert"
    <2>1. Execute(group, Head(queue)) = group \cup (lo..hi)
      BY <1>1, <1>2, <1>6 DEF Execute, lo, hi
    <2>2. group = Initial \cup (1..p)
      BY <1>1, <1>6 DEF Delivery!Content
    <2>3. (1..p) \cup (lo..hi) = 1..m
      BY <1>1, <1>6
    <2>4. Initial \cup (1..m) = Delivery!Content(m) /\ m \in hi..pos
      BY <1>1, <1>6 DEF Delivery!Content
    <2>5. Execute(group, Head(queue)) = Delivery!Content(m)
      BY <2>1, <2>2, <2>3, <2>4
    <2> QED
      BY <2>1, <2>4, <2>5 DEF hi
  <1> QED
    BY <1>3, <1>4, <1>5, <1>6 DEF BatchMode

(* The group after one POST, whether or not the vault executed it. *)
LEMMA SendFacts ==
    ASSUME IInv, NEW answer \in Answer, Send(answer)
    PROVE  /\ queue # <<>> /\ outcome = "running"
           /\ UNCHANGED <<n, base, index, pos>> /\ sends' = sends + 1
           /\ \E r \in Confirmed..pos :
                /\ group' = Delivery!Content(r)
                /\ answer[2] => r >= queue[1].hi
           /\ group' = group \/ \E r \in queue[1].hi..pos :
                                   group' = Delivery!Content(r)
           /\ base = "upsert" => group \subseteq group'
  <1>1. queue # <<>> /\ outcome = "running"
    BY DEF Send, Busy
  <1>2. PICK p \in Confirmed..pos : group = Delivery!Content(p)
    BY <1>1 DEF IInv, HoldsPrefix
  <1>3. /\ Confirmed = queue[1].lo - 1 /\ queue[1].lo <= queue[1].hi
        /\ queue[1].lo \in Nat /\ queue[1].hi \in Nat /\ pos \in Nat
    BY <1>1, HeadFacts
  <1>4. CASE answer[2]
    <2>1. group' = Execute(group, Head(queue))
      BY <1>4 DEF Send
    <2> QED
      BY <1>1, <1>2, <1>3, <2>1, ExecuteFacts DEF Send
  <1>5. CASE ~answer[2]
    <2>1. group' = group
      BY <1>5 DEF Send
    <2> QED
      BY <1>1, <1>2, <1>5, <2>1 DEF Send
  <1> QED
    BY <1>4, <1>5

-----------------------------------------------------------------------------
LEMMA InitInv == Init => IInv
  <1> SUFFICES ASSUME Init PROVE IInv
    OBVIOUS
  <1>1. Confirmed = 0 /\ Len(queue) = 0 /\ PieceBudget = 0
    BY DEF Init, Confirmed, PieceBudget
  <1>2. TypeOK
    BY BatchAssumption DEF Init, TypeOK
  <1>3. group = Delivery!Content(0)
    BY DEF Init, Delivery!Content
  <1>4. Contiguous(queue, pos)
    BY <1>1 DEF Init, Contiguous
  <1>5. OnlyFirstReplaces(queue, base)
    BY <1>1 DEF Init, OnlyFirstReplaces
  <1>6. HoldsPrefix
    BY <1>1, <1>3 DEF Init, HoldsPrefix
  <1>7. sends <= (MaxRetries + 1) * pieces + attempt
    BY BatchAssumption DEF Init
  <1> QED
    BY <1>1, <1>2, <1>4, <1>5, <1>6, <1>7
       DEF Init, IInv, OkMeansDelivered, PiecesBounded

LEMMA NextChunkInv == IInv /\ NextChunk => IInv'
  <1> SUFFICES ASSUME IInv, NextChunk PROVE IInv'
    OBVIOUS
  <1> DEFINE e == ChunkEnd(pos)
             m == ModeForChunkIndex(base, index)
             c == [lo |-> pos + 1, hi |-> e, mode |-> m]
  <1>1. /\ n \in 0..MaxItems /\ pos \in 0..n /\ pos < n /\ index \in Nat
        /\ MaxItems \in Nat /\ base \in BatchMode
        /\ pieces \in Nat /\ queue = <<>> /\ outcome = "running" /\ attempt = 0
    BY BatchAssumption DEF IInv, TypeOK, NextChunk
  <1>2. (index = 0) <=> (pos = 0)
    BY DEF IInv
  <1>3. e \in (pos + 1)..n
    BY <1>1, BatchAssumption DEF ChunkEnd, Lowest
  <1>4. queue' = <<c>>
    BY DEF NextChunk
  <1>5. pos' = e /\ index' = index + 1
    BY DEF NextChunk
  <1>6. /\ n' = n /\ base' = base /\ attempt' = attempt /\ group' = group
        /\ outcome' = outcome /\ pieces' = pieces /\ sends' = sends
    BY DEF NextChunk
  <1>7. m = IF pos + 1 = 1 THEN base ELSE "upsert"
    BY <1>1, <1>2 DEF ModeForChunkIndex
  <1>8. m \in BatchMode
    BY <1>1, <1>7 DEF BatchMode
  <1> HIDE DEF e, m
  <1>9. c \in Piece
    BY <1>1, <1>3, <1>8 DEF Piece
  <1>10. c.lo = pos + 1 /\ c.hi = e /\ c.mode = m
    OBVIOUS
  <1> HIDE DEF c
  <1>11. Len(queue') = 1 /\ queue'[1] = c /\ Head(queue') = c /\ queue' # <<>>
        /\ queue' \in Seq(Piece)
    BY <1>4, <1>9
  <1>12. Confirmed' = pos
    BY <1>1, <1>10, <1>11 DEF Confirmed
  <1>13. PieceBudget' = 2 * (e - pos) - 1
    BY <1>5, <1>11, <1>12 DEF PieceBudget
  <1>14. TypeOK'
    BY <1>1, <1>3, <1>5, <1>6, <1>11, BatchAssumption DEF IInv, TypeOK
  <1>15. Contiguous(queue, pos)'
    <2>1. \A i \in 1..Len(queue') : i = 1
      BY <1>11
    <2>2. \A i \in 2..Len(queue') : FALSE
      BY <1>11
    <2>3. c.lo <= c.hi /\ c.hi + (1 - 1) <= e /\ c.hi = e
      BY <1>1, <1>3, <1>10
    <2> QED
      BY <1>5, <1>11, <2>1, <2>2, <2>3 DEF Contiguous
  <1>16. OnlyFirstReplaces(queue, base)'
    <2>1. \A i \in 1..Len(queue') : queue'[i] = c
      BY <1>11
    <2> QED
      BY <1>6, <1>7, <1>10, <2>1 DEF OnlyFirstReplaces
  <1>17. HoldsPrefix'
    <2>1. PICK p \in pos..pos : group = Delivery!Content(p)
      BY <1>1 DEF IInv, HoldsPrefix, Confirmed
    <2>2. p \in Confirmed'..pos'
      BY <1>1, <1>3, <1>5, <1>12
    <2>3. group' = Delivery!Content(p)'
      BY <1>6, <2>1 DEF Delivery!Content
    <2> QED
      BY <2>2, <2>3 DEF HoldsPrefix
  <1>18. PiecesBounded'
    <2>1. PieceBudget = 0
      BY <1>1 DEF PieceBudget
    <2>2. IF pos = 0 THEN pieces = 0 ELSE pieces <= 2 * pos - 1
      BY <1>1, <2>1 DEF IInv, PiecesBounded
    <2> QED
      BY <1>1, <1>3, <1>5, <1>6, <1>13, <2>2 DEF PiecesBounded
  <1>19. ((index = 0) <=> (pos = 0))'
    BY <1>1, <1>3, <1>5
  <1>20. (sends <= (MaxRetries + 1) * pieces + attempt)'
    BY <1>6 DEF IInv
  <1> QED
    BY <1>1, <1>6, <1>11, <1>14, <1>15, <1>16, <1>17, <1>18, <1>19, <1>20
       DEF IInv, OkMeansDelivered

(* The parts of the invariant that every answered POST keeps: the counters  *)
(* and the parts of the state the send leaves alone.                        *)
LEMMA PostFrame ==
    ASSUME IInv, NEW answer \in Answer, Send(answer)
    PROVE  /\ queue # <<>> /\ outcome = "running"
           /\ n' = n /\ base' = base /\ index' = index /\ pos' = pos
           /\ sends' = sends + 1
           /\ n \in 0..MaxItems /\ base \in BatchMode /\ index \in Nat
           /\ pos \in 0..n /\ queue \in Seq(Piece) /\ attempt \in 0..MaxRetries
           /\ pieces \in Nat /\ sends \in Nat /\ MaxRetries \in Nat
           /\ MaxItems \in Nat /\ Initial \subseteq Int
           /\ sends <= (MaxRetries + 1) * pieces + attempt
           /\ group' \in SUBSET Int
  <1>1. queue # <<>> /\ outcome = "running" /\ sends' = sends + 1
    BY DEF Send, Busy
  <1>2. n' = n /\ base' = base /\ index' = index /\ pos' = pos
    BY DEF Send
  <1>3. /\ n \in 0..MaxItems /\ base \in BatchMode /\ index \in Nat
        /\ pos \in 0..n /\ queue \in Seq(Piece) /\ attempt \in 0..MaxRetries
        /\ pieces \in Nat /\ sends \in Nat /\ group \in SUBSET Int
    BY DEF IInv, TypeOK
  <1>4. MaxItems \in Nat /\ MaxRetries \in Nat /\ Initial \subseteq Int
    BY BatchAssumption
  <1>5. sends <= (MaxRetries + 1) * pieces + attempt
    BY DEF IInv
  <1>6. Head(queue).lo..Head(queue).hi \in SUBSET Int
    BY <1>1, HeadFacts
  <1>7. Execute(group, Head(queue)) \in SUBSET Int
    BY <1>3, <1>6 DEF Execute
  <1>8. group' \in SUBSET Int
    BY <1>3, <1>7 DEF Send
  <1> QED
    BY <1>1, <1>2, <1>3, <1>4, <1>5, <1>8

(* While a piece is being sent, some record has been handed over and the    *)
(* piece's own node of the halving tree is still in the budget.             *)
LEMMA BudgetFacts ==
    ASSUME IInv, queue # <<>>
    PROVE  /\ pos \in Nat \ {0}
           /\ Len(queue) \in Nat \ {0}
           /\ Confirmed \in Int
           /\ Len(queue) <= pos - Confirmed
           /\ PieceBudget = 2 * (pos - Confirmed) - Len(queue)
           /\ pieces + (2 * (pos - Confirmed) - Len(queue)) <= 2 * pos - 1
  <1>1. /\ queue[1].lo \in 1..MaxItems /\ queue[1].hi \in 1..MaxItems
        /\ queue[1].lo <= queue[1].hi
        /\ queue[1].hi + (Len(queue) - 1) <= pos
        /\ Len(queue) \in Nat \ {0}
        /\ Confirmed = queue[1].lo - 1
        /\ n \in 0..MaxItems /\ pos \in 0..n /\ MaxItems \in Nat
    BY HeadFacts
  <1>2. pos \in Nat \ {0} /\ Confirmed \in Int /\ Len(queue) <= pos - Confirmed
    BY <1>1
  <1>3. PieceBudget = 2 * (pos - Confirmed) - Len(queue)
    BY DEF PieceBudget
  <1>4. PiecesBounded
    BY DEF IInv
  <1>5. pieces + PieceBudget <= 2 * pos - 1
    BY <1>2, <1>4 DEF PiecesBounded
  <1> QED
    BY <1>1, <1>2, <1>3, <1>5

(* The arithmetic of popping a delivered piece. *)
LEMMA PopBudget ==
    ASSUME NEW c \in Nat, NEW l \in Nat, NEW p \in Nat, NEW d \in Int,
           NEW h \in Int, NEW b \in Int, d < h,
           c + (2 * (p - d) - l) <= 2 * p - 1,
           b <= 2 * (p - h) - (l - 1)
    PROVE  (c + 1) + b <= 2 * p - 1
  OBVIOUS

LEMMA PostOkInv == IInv /\ PostOk => IInv'
  <1> SUFFICES ASSUME IInv, PostOk PROVE IInv'
    OBVIOUS
  <1> DEFINE answer == <<"ok", TRUE>>
  <1>1. answer \in Answer /\ answer[2] = TRUE
    BY DEF Answer
  <1>2. Send(answer)
    BY DEF PostOk
  <1> HIDE DEF answer
  <1>3. /\ queue # <<>> /\ outcome = "running"
        /\ n' = n /\ base' = base /\ index' = index /\ pos' = pos
        /\ sends' = sends + 1
        /\ n \in 0..MaxItems /\ base \in BatchMode /\ index \in Nat
        /\ pos \in 0..n /\ queue \in Seq(Piece) /\ attempt \in 0..MaxRetries
        /\ pieces \in Nat /\ sends \in Nat /\ MaxRetries \in Nat
        /\ MaxItems \in Nat /\ group' \in SUBSET Int
    BY <1>1, <1>2, PostFrame
  <1>4. queue' = Tail(queue) /\ attempt' = 0 /\ pieces' = pieces + 1
        /\ outcome' = outcome
    BY DEF PostOk
  <1>5. PICK r \in Confirmed..pos :
            group' = Delivery!Content(r) /\ r >= queue[1].hi
    BY <1>1, <1>2, SendFacts
  <1>6. /\ queue[1].lo \in 1..MaxItems /\ queue[1].hi \in 1..MaxItems
        /\ queue[1].lo <= queue[1].hi
        /\ queue[1].hi + (Len(queue) - 1) <= pos
        /\ Len(queue) \in Nat \ {0}
        /\ Confirmed = queue[1].lo - 1
    BY <1>3, HeadFacts
  <1>7. queue' \in Seq(Piece) /\ Len(queue') = Len(queue) - 1
    BY <1>3, <1>4, TailFacts
  <1>8. Contiguous(queue, pos) /\ OnlyFirstReplaces(queue, base)
    BY DEF IInv
  <1>9. /\ Contiguous(Tail(queue), pos)
        /\ OnlyFirstReplaces(Tail(queue), base)
        /\ Tail(queue) = <<>> => queue[1].hi = pos
        /\ Tail(queue) # <<>> => Head(Tail(queue)).lo = queue[1].hi + 1
    <2>1. pos \in Nat
      BY <1>3
    <2> QED
      BY <1>3, <1>8, <2>1, TailContiguous
  <1>10. Confirmed' = queue[1].hi
    <2>1. CASE queue' = <<>>
      BY <1>3, <1>4, <1>9, <2>1 DEF Confirmed
    <2>2. CASE queue' # <<>>
      <3>1. Confirmed' = Head(queue').lo - 1
        BY <2>2 DEF Confirmed
      <3>2. Head(queue').lo = queue[1].hi + 1
        BY <1>4, <1>9, <2>2
      <3> QED
        BY <1>6, <3>1, <3>2
    <2> QED
      BY <2>1, <2>2
  <1>11. TypeOK'
    BY <1>3, <1>4, <1>7 DEF TypeOK
  <1>12. Contiguous(queue, pos)' /\ OnlyFirstReplaces(queue, base)'
    BY <1>3, <1>4, <1>9
  <1>13. HoldsPrefix'
    <2>1. r \in Confirmed'..pos'
      BY <1>3, <1>5, <1>6, <1>10
    <2>2. group' = Delivery!Content(r)'
      BY <1>3, <1>5 DEF Delivery!Content
    <2> QED
      BY <2>1, <2>2 DEF HoldsPrefix
  <1>14. PiecesBounded'
    <2>1. /\ pos \in Nat \ {0} /\ Confirmed \in Int
          /\ pieces + (2 * (pos - Confirmed) - Len(queue)) <= 2 * pos - 1
      BY <1>3, BudgetFacts
    <2>2. PieceBudget' <= 2 * (pos - queue[1].hi) - (Len(queue) - 1)
          /\ PieceBudget' \in Int
      <3>1. CASE queue' = <<>>
        <4>1. Len(queue) = 1 /\ queue[1].hi = pos
          BY <1>4, <1>6, <1>7, <1>9, <3>1
        <4>2. PieceBudget' = 0
          BY <3>1 DEF PieceBudget
        <4> QED
          BY <1>3, <1>6, <4>1, <4>2
      <3>2. CASE queue' # <<>>
        <4>1. PieceBudget' = 2 * (pos' - Confirmed') - Len(queue')
          BY <3>2 DEF PieceBudget
        <4>2. PieceBudget' = 2 * (pos - queue[1].hi) - (Len(queue) - 1)
          BY <1>3, <1>7, <1>10, <4>1
        <4> QED
          BY <1>3, <1>6, <4>2
      <3> QED
        BY <3>1, <3>2
    <2>3. pieces' = pieces + 1 /\ pieces \in Nat /\ Len(queue) \in Nat \ {0}
          /\ queue[1].hi \in Int /\ Confirmed < queue[1].hi
      BY <1>3, <1>4, <1>6
    <2>4. pieces' + PieceBudget' <= 2 * pos - 1
      BY <2>1, <2>2, <2>3, PopBudget
    <2> QED
      BY <1>3, <2>1, <2>4 DEF PiecesBounded
  <1>15. (sends <= (MaxRetries + 1) * pieces + attempt)'
    <2>1. sends + 1 <= (MaxRetries + 1) * (pieces + 1)
      BY <1>3, OneMoreBudget DEF IInv
    <2>2. (MaxRetries + 1) * (pieces + 1) \in Int
      BY <1>3
    <2> QED
      BY <1>3, <1>4, <2>1, <2>2
  <1>16. ((index = 0) <=> (pos = 0))'
    BY <1>3 DEF IInv
  <1> QED
    BY <1>3, <1>4, <1>11, <1>12, <1>13, <1>14, <1>15, <1>16
       DEF IInv, OkMeansDelivered

LEMMA PostRetryInv == IInv /\ PostRetry => IInv'
  <1> SUFFICES ASSUME IInv, PostRetry PROVE IInv'
    OBVIOUS
  <1>1. PICK answer \in Answer : MayRetry(attempt) /\ Send(answer)
    BY DEF PostRetry
  <1>2. /\ queue # <<>> /\ outcome = "running"
        /\ n' = n /\ base' = base /\ index' = index /\ pos' = pos
        /\ sends' = sends + 1
        /\ n \in 0..MaxItems /\ base \in BatchMode /\ index \in Nat
        /\ pos \in 0..n /\ queue \in Seq(Piece) /\ attempt \in 0..MaxRetries
        /\ pieces \in Nat /\ sends \in Nat /\ MaxRetries \in Nat
        /\ MaxItems \in Nat /\ group' \in SUBSET Int
        /\ sends <= (MaxRetries + 1) * pieces + attempt
    BY <1>1, PostFrame
  <1>3. queue' = queue /\ outcome' = outcome /\ pieces' = pieces
        /\ attempt' = attempt + 1
    BY DEF PostRetry
  <1>4. attempt' \in 0..MaxRetries
    BY <1>1, <1>2, <1>3 DEF MayRetry
  <1>5. PICK r \in Confirmed..pos : group' = Delivery!Content(r)
    BY <1>1, SendFacts
  <1>6. Confirmed' = Confirmed /\ PieceBudget' = PieceBudget
    BY <1>2, <1>3 DEF Confirmed, PieceBudget
  <1>7. HoldsPrefix'
    <2>1. r \in Confirmed'..pos'
      BY <1>2, <1>5, <1>6
    <2>2. group' = Delivery!Content(r)'
      BY <1>2, <1>5 DEF Delivery!Content
    <2> QED
      BY <2>1, <2>2 DEF HoldsPrefix
  <1>8. TypeOK'
    BY <1>2, <1>3, <1>4 DEF TypeOK
  <1>9. PiecesBounded'
    BY <1>2, <1>3, <1>6 DEF IInv, PiecesBounded
  <1>10. (sends <= (MaxRetries + 1) * pieces + attempt)'
    <2>1. (MaxRetries + 1) * pieces \in Int
      BY <1>2
    <2> QED
      BY <1>2, <1>3, <2>1
  <1>11. Contiguous(queue, pos)' /\ OnlyFirstReplaces(queue, base)'
    BY <1>2, <1>3 DEF IInv
  <1>12. ((index = 0) <=> (pos = 0))'
    BY <1>2 DEF IInv
  <1> QED
    BY <1>2, <1>3, <1>7, <1>8, <1>9, <1>10, <1>11, <1>12
       DEF IInv, OkMeansDelivered

LEMMA PostSplitInv == IInv /\ PostSplit => IInv'
  <1> SUFFICES ASSUME IInv, PostSplit PROVE IInv'
    OBVIOUS
  <1>1. PICK answer \in Answer : Send(answer)
    BY DEF PostSplit
  <1>2. /\ queue # <<>> /\ outcome = "running"
        /\ n' = n /\ base' = base /\ index' = index /\ pos' = pos
        /\ sends' = sends + 1
        /\ n \in 0..MaxItems /\ base \in BatchMode /\ index \in Nat
        /\ pos \in 0..n /\ queue \in Seq(Piece) /\ attempt \in 0..MaxRetries
        /\ pieces \in Nat /\ sends \in Nat /\ MaxRetries \in Nat
        /\ MaxItems \in Nat /\ group' \in SUBSET Int
    BY <1>1, PostFrame
  <1>3. queue' = Split(Head(queue)) \o Tail(queue)
    BY DEF PostSplit
  <1>4. outcome' = outcome /\ pieces' = pieces + 1 /\ attempt' = 0
    BY DEF PostSplit
  <1>5. /\ Head(queue) = queue[1]
        /\ queue[1].lo \in 1..MaxItems /\ queue[1].hi \in 1..MaxItems
        /\ queue[1].hi + (Len(queue) - 1) <= pos
        /\ Len(queue) \in Nat \ {0}
        /\ Confirmed = queue[1].lo - 1
    BY <1>2, HeadFacts
  <1>6. queue[1].lo < queue[1].hi
    BY <1>5 DEF PostSplit
  <1>7. Contiguous(queue, pos) /\ OnlyFirstReplaces(queue, base)
    BY DEF IInv
  <1>8. pos \in Nat
    BY <1>2
  <1>9. /\ queue' \in Seq(Piece) /\ queue' # <<>> /\ Len(queue') = Len(queue) + 1
        /\ Head(queue').lo = queue[1].lo
        /\ Contiguous(queue', pos) /\ OnlyFirstReplaces(queue', base)
    BY <1>2, <1>3, <1>6, <1>7, <1>8, SplitContiguous
  <1>10. Confirmed' = Confirmed
    BY <1>5, <1>9 DEF Confirmed
  <1>11. PICK r \in Confirmed..pos : group' = Delivery!Content(r)
    BY <1>1, SendFacts
  <1>12. HoldsPrefix'
    <2>1. r \in Confirmed'..pos'
      BY <1>2, <1>10, <1>11
    <2>2. group' = Delivery!Content(r)'
      BY <1>2, <1>11 DEF Delivery!Content
    <2> QED
      BY <2>1, <2>2 DEF HoldsPrefix
  <1>13. TypeOK'
    BY <1>2, <1>4, <1>9 DEF TypeOK
  <1>14. PiecesBounded'
    <2>1. /\ pos \in Nat \ {0} /\ Confirmed \in Int
          /\ Len(queue) <= pos - Confirmed
          /\ pieces + (2 * (pos - Confirmed) - Len(queue)) <= 2 * pos - 1
      BY <1>2, BudgetFacts
    <2>2. PieceBudget' = 2 * (pos - Confirmed) - (Len(queue) + 1)
      BY <1>2, <1>9, <1>10 DEF PieceBudget
    <2>3. pieces' = pieces + 1 /\ pieces \in Nat /\ Len(queue) \in Nat \ {0}
      BY <1>2, <1>4, <1>5
    <2>4. pieces' + PieceBudget' <= 2 * pos - 1
      BY <2>1, <2>2, <2>3
    <2> QED
      BY <1>2, <2>1, <2>4 DEF PiecesBounded
  <1>15. (sends <= (MaxRetries + 1) * pieces + attempt)'
    <2>1. sends + 1 <= (MaxRetries + 1) * (pieces + 1)
      BY <1>2, OneMoreBudget DEF IInv
    <2>2. (MaxRetries + 1) * (pieces + 1) \in Int
      BY <1>2
    <2> QED
      BY <1>2, <1>4, <2>1, <2>2
  <1>16. ((index = 0) <=> (pos = 0))'
    BY <1>2 DEF IInv
  <1>17. Contiguous(queue, pos)' /\ OnlyFirstReplaces(queue, base)'
    BY <1>2, <1>9
  <1> QED
    BY <1>2, <1>4, <1>9, <1>12, <1>13, <1>14, <1>15, <1>16, <1>17
       DEF IInv, OkMeansDelivered

LEMMA PostFailInv == IInv /\ PostFail => IInv'
  <1> SUFFICES ASSUME IInv, PostFail PROVE IInv'
    OBVIOUS
  <1>1. PICK answer \in Answer : Send(answer)
    BY DEF PostFail
  <1>2. /\ queue # <<>> /\ outcome = "running"
        /\ n' = n /\ base' = base /\ index' = index /\ pos' = pos
        /\ sends' = sends + 1
        /\ n \in 0..MaxItems /\ base \in BatchMode /\ index \in Nat
        /\ pos \in 0..n /\ queue \in Seq(Piece) /\ attempt \in 0..MaxRetries
        /\ pieces \in Nat /\ sends \in Nat /\ MaxRetries \in Nat
        /\ MaxItems \in Nat /\ group' \in SUBSET Int
    BY <1>1, PostFrame
  <1>3. queue' = <<>> /\ attempt' = 0 /\ pieces' = pieces + 1 /\ outcome' = "err"
    BY DEF PostFail
  <1>4. /\ queue[1].lo \in 1..MaxItems /\ queue[1].hi \in 1..MaxItems
        /\ queue[1].lo <= queue[1].hi
        /\ queue[1].hi + (Len(queue) - 1) <= pos
        /\ Len(queue) \in Nat \ {0}
        /\ Confirmed = queue[1].lo - 1
    BY <1>2, HeadFacts
  <1>5. TypeOK'
    BY <1>2, <1>3 DEF TypeOK
  <1>6. Contiguous(queue, pos)' /\ OnlyFirstReplaces(queue, base)'
    BY <1>3 DEF Contiguous, OnlyFirstReplaces
  <1>7. PiecesBounded'
    <2>1. /\ pos \in Nat \ {0} /\ Confirmed \in Int
          /\ Len(queue) <= pos - Confirmed
          /\ pieces + (2 * (pos - Confirmed) - Len(queue)) <= 2 * pos - 1
      BY <1>2, BudgetFacts
    <2>2. PieceBudget' = 0
      BY <1>3 DEF PieceBudget
    <2>3. pieces' = pieces + 1 /\ pieces \in Nat /\ Len(queue) \in Nat \ {0}
      BY <1>2, <1>3, <1>4
    <2>4. pieces' + PieceBudget' <= 2 * pos - 1
      BY <2>1, <2>2, <2>3
    <2> QED
      BY <1>2, <2>1, <2>4 DEF PiecesBounded
  <1>8. (sends <= (MaxRetries + 1) * pieces + attempt)'
    <2>1. sends + 1 <= (MaxRetries + 1) * (pieces + 1)
      BY <1>2, OneMoreBudget DEF IInv
    <2>2. (MaxRetries + 1) * (pieces + 1) \in Int
      BY <1>2
    <2> QED
      BY <1>2, <1>3, <2>1, <2>2
  <1>9. ((index = 0) <=> (pos = 0))'
    BY <1>2 DEF IInv
  <1> QED
    BY <1>3, <1>5, <1>6, <1>7, <1>8, <1>9
       DEF IInv, OkMeansDelivered, HoldsPrefix

LEMMA FinishInv == IInv /\ Finish => IInv'
  <1> SUFFICES ASSUME IInv, Finish PROVE IInv'
    OBVIOUS
  <1>1. /\ n' = n /\ base' = base /\ index' = index /\ pos' = pos
        /\ queue' = queue /\ attempt' = attempt /\ group' = group
        /\ pieces' = pieces /\ sends' = sends
        /\ outcome' = "ok" /\ outcome = "running" /\ queue = <<>> /\ pos = n
    BY DEF Finish
  <1>2. TypeOK'
    BY <1>1 DEF IInv, TypeOK
  <1>3. n \in Nat
    BY BatchAssumption DEF IInv, TypeOK
  <1>4. PICK p \in n..n : group = Delivery!Content(p)
    BY <1>1 DEF IInv, HoldsPrefix, Confirmed
  <1>5. group' = Delivery!Content(n)'
    BY <1>1, <1>3, <1>4 DEF Delivery!Content
  <1>6. PieceBudget' = PieceBudget
    BY <1>1 DEF PieceBudget
  <1>7. PiecesBounded'
    BY <1>1, <1>6 DEF IInv, PiecesBounded
  <1> QED
    BY <1>1, <1>2, <1>5, <1>7
       DEF IInv, OkMeansDelivered, HoldsPrefix, Contiguous, OnlyFirstReplaces

(* The invariant is inductive. *)
LEMMA StepInv == IInv /\ [Next]_vars => IInv'
  <1> SUFFICES ASSUME IInv, [Next]_vars PROVE IInv'
    OBVIOUS
  <1>1. CASE Next
    BY <1>1, NextChunkInv, PostOkInv, PostRetryInv, PostSplitInv, PostFailInv,
       FinishInv DEF Next
  <1>2. CASE UNCHANGED vars
    BY <1>2 DEF vars, IInv, TypeOK, Contiguous, OnlyFirstReplaces, HoldsPrefix,
                OkMeansDelivered, PiecesBounded, PieceBudget, Confirmed,
                Delivery!Content
  <1> QED
    BY <1>1, <1>2

(***************************************************************************)
(* The push of a run to a target group keeps its inductive invariant:      *)
(* at every step the group holds a prefix of the run that contains every   *)
(* acknowledged record, only the first piece of a full_replace run carries *)
(* full_replace, and the retry and split budgets hold (client.rs           *)
(* post_batch, jobs/mod.rs mode_for_chunk_index).                          *)
(***************************************************************************)
THEOREM DeliveryInvariant == Spec => []IInv
  <1> QED
    BY InitInv, StepInv, PTL DEF Spec

(***************************************************************************)
(* A run of n records never sends more than (MaxRetries + 1)(2n - 1)       *)
(* requests, whatever the vault answers (client.rs with_retry, post_batch).*)
(***************************************************************************)
THEOREM DeliveryBounded == Spec => []RequestsBounded
  <1>1. IInv => RequestsBounded
    <2> SUFFICES ASSUME IInv PROVE RequestsBounded
      OBVIOUS
    <2>1. /\ n \in Nat /\ pos \in 0..n /\ attempt \in 0..MaxRetries
          /\ pieces \in Nat /\ sends \in Nat /\ MaxRetries \in Nat
      BY BatchAssumption DEF IInv, TypeOK
    <2>2. sends <= (MaxRetries + 1) * pieces + attempt
      BY DEF IInv
    <2>3. PiecesBounded /\ (queue = <<>> => attempt = 0)
      BY DEF IInv
    <2>4. CASE pos = 0
      <3>1. queue = <<>>
        BY <2>4, BudgetFacts
      <3>2. pieces = 0 /\ attempt = 0
        BY <2>3, <2>4, <3>1 DEF PiecesBounded
      <3>3. sends = 0
        BY <2>1, <2>2, <3>2
      <3> QED
        BY <2>1, <3>3, LeastBudget DEF RequestsBounded
    <2>5. CASE pos # 0 /\ queue = <<>>
      <3>1. pieces + 0 <= 2 * pos - 1
        BY <2>3, <2>5 DEF PiecesBounded, PieceBudget
      <3>2. pieces <= 2 * n - 1 /\ attempt = 0 /\ n # 0
        BY <2>1, <2>3, <2>5, <3>1
      <3>3. sends <= (MaxRetries + 1) * pieces
        BY <2>1, <2>2, <3>2
      <3> QED
        BY <2>1, <3>2, <3>3, BudgetMonotone DEF RequestsBounded
    <2>6. CASE pos # 0 /\ queue # <<>>
      <3>1. /\ Confirmed \in Int /\ Len(queue) \in Nat \ {0}
            /\ Len(queue) <= pos - Confirmed
            /\ pieces + (2 * (pos - Confirmed) - Len(queue)) <= 2 * pos - 1
        BY <2>6, BudgetFacts
      <3>2. pieces + 1 <= 2 * n - 1 /\ n # 0
        BY <2>1, <2>6, <3>1
      <3>3. sends + 1 <= (MaxRetries + 1) * (pieces + 1)
        BY <2>1, <2>2, OneMoreBudget
      <3>4. (MaxRetries + 1) * (pieces + 1) \in Int
        BY <2>1
      <3>5. sends <= (MaxRetries + 1) * (pieces + 1)
        BY <2>1, <3>3, <3>4
      <3>6. pieces + 1 \in Nat
        BY <2>1
      <3> QED
        BY <2>1, <3>2, <3>5, <3>6, BudgetMonotone DEF RequestsBounded
    <2> QED
      BY <2>4, <2>5, <2>6
  <1> QED
    BY <1>1, DeliveryInvariant, PTL

-----------------------------------------------------------------------------
(* The effect of one POST on the group is an effect the abstract            *)
(* specification allows.                                                    *)
LEMMA PostIsAllowed ==
    ASSUME IInv, NEW answer \in Answer, Send(answer)
    PROVE  /\ group' = group \/ \E p \in 1..n : group' = Delivery!Content(p)
           /\ base = "upsert" => group \subseteq group'
           /\ outcome = "running" /\ n' = n /\ base' = base
  <1>1. queue # <<>> /\ outcome = "running" /\ n' = n /\ base' = base
    BY PostFrame
  <1>2. queue[1].hi..pos \subseteq 1..n
    BY <1>1, HeadFacts
  <1>3. group' = group \/ \E p \in queue[1].hi..pos : group' = Delivery!Content(p)
    BY SendFacts
  <1>4. group' = group \/ \E p \in 1..n : group' = Delivery!Content(p)
    BY <1>2, <1>3
  <1>5. base = "upsert" => group \subseteq group'
    BY SendFacts
  <1> QED
    BY <1>1, <1>4, <1>5

(* A POST that leaves the push running is a write or invisible. *)
LEMMA PostIsWrite ==
    ASSUME IInv, NEW answer \in Answer, Send(answer), outcome' = outcome
    PROVE  [Delivery!Next]_(Delivery!vars)
  <1>1. /\ group' = group \/ \E p \in 1..n : group' = Delivery!Content(p)
        /\ base = "upsert" => group \subseteq group'
        /\ outcome = "running" /\ n' = n /\ base' = base
    BY PostIsAllowed
  <1>2. CASE group' = group
    BY <1>1, <1>2 DEF Delivery!vars
  <1>3. CASE \E p \in 1..n : group' = Delivery!Content(p)
    BY <1>1, <1>3 DEF Delivery!Next, Delivery!Write
  <1> QED
    BY <1>1, <1>2, <1>3

(***************************************************************************)
(* Whatever retries and splits post_batch makes, the push shows its caller *)
(* the behaviour of GroupDelivery: prefixes of the run, success only with  *)
(* the whole run delivered, nothing lost by an upsert run.                 *)
(***************************************************************************)
THEOREM DeliveryRefinement == Spec => ImplementsDelivery
  <1>1. Init => Delivery!Init
    BY DEF Init, Delivery!Init, BatchMode, Delivery!BatchMode
  <1>2. IInv /\ IInv' /\ [Next]_vars => [Delivery!Next]_(Delivery!vars)
    <2> SUFFICES ASSUME IInv, IInv', [Next]_vars
                 PROVE  [Delivery!Next]_(Delivery!vars)
      OBVIOUS
    <2>1. CASE NextChunk
      BY <2>1 DEF NextChunk, Delivery!vars
    <2>2. CASE PostOk
      <3>1. <<"ok", TRUE>> \in Answer
        BY DEF Answer
      <3> QED
        BY <2>2, <3>1, PostIsWrite DEF PostOk
    <2>3. CASE PostRetry
      BY <2>3, PostIsWrite DEF PostRetry
    <2>4. CASE PostSplit
      BY <2>4, PostIsWrite DEF PostSplit
    <2>5. CASE PostFail
      <3>1. PICK answer \in Answer : Send(answer)
        BY <2>5 DEF PostFail
      <3>2. /\ group' = group \/ \E p \in 1..n : group' = Delivery!Content(p)
            /\ base = "upsert" => group \subseteq group'
            /\ outcome = "running" /\ n' = n /\ base' = base
        BY <3>1, PostIsAllowed
      <3>3. outcome' = "err"
        BY <2>5 DEF PostFail
      <3> QED
        BY <3>2, <3>3 DEF Delivery!Next, Delivery!Fail
    <2>6. CASE Finish
      <3>1. /\ n' = n /\ base' = base /\ group' = group
            /\ outcome = "running" /\ outcome' = "ok"
        BY <2>6 DEF Finish
      <3>2. group' = Delivery!Content(n)'
        BY <3>1 DEF IInv, OkMeansDelivered
      <3>3. group = Delivery!Content(n)
        BY <3>1, <3>2 DEF Delivery!Content
      <3> QED
        BY <3>1, <3>3 DEF Delivery!Next, Delivery!Succeed
    <2>7. CASE UNCHANGED vars
      BY <2>7 DEF vars, Delivery!vars
    <2> QED
      BY <2>1, <2>2, <2>3, <2>4, <2>5, <2>6, <2>7 DEF Next
  <1> QED
    BY <1>1, <1>2, DeliveryInvariant, PTL
       DEF Spec, ImplementsDelivery, Delivery!Spec
=============================================================================
