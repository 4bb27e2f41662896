------------------------------ MODULE LoopsProofs ------------------------------
(***************************************************************************)
(* Safety of the parts that run beside the order path, for every value of  *)
(* the constants: what the token bucket grants, and at what rate; that the *)
(* table of arrivals has no duplicate, and what becomes of an outage; that *)
(* no trade is settled twice, and that the caps on exposure hold.          *)
(***************************************************************************)
EXTENDS TokenBucket, ObsArrivals, PaperTrader, FoldProofs, SequenceTheorems, TLAPS

(***************************************************************************)
(* The token bucket                                                        *)
(***************************************************************************)

Calls == [pc : {"idle", "ask", "wait", "granted", "closed", "cancelled"},
          cost : Nat, got : Nat]

\* An open bucket never holds more than its capacity.
BucketInv ==
    /\ call \in [Callers -> Calls]
    /\ tokens \in Nat
    /\ ~closed => tokens <= Capacity

\* A token that nobody takes while the bucket is open still fits.
LEMMA ReleaseAddsToNone ==
    ASSUME BucketInv, Release, ~closed, Locked
    PROVE  tokens' \in Nat /\ tokens' <= Capacity
  BY BucketAssumption DEF BucketInv, Release, Locked

\* The bucket's invariant of types and of its queue.
LEMMA BucketInvHolds == BucketSpec => []BucketInv
<1>1. BucketInit => BucketInv
  BY BucketAssumption DEF BucketInit, BucketInv, NoCall, Calls
<1>2. BucketInv /\ [BucketNext]_bucketVars => BucketInv'
  <2> SUFFICES ASSUME BucketInv, [BucketNext]_bucketVars PROVE BucketInv'
    OBVIOUS
  <2> USE DEF BucketInv, Calls, NoCall, Ended
  <2>1. ASSUME NEW c \in Callers, NEW cost \in 1..Capacity, Acquire(c, cost) PROVE BucketInv'
    <3>1. cost \in Nat
      BY BucketAssumption
    <3>2. CASE closed
      BY <2>1, <3>2 DEF Acquire
    <3>3. CASE ~closed
      BY <2>1, <3>1, <3>3 DEF Acquire
    <3> QED
      BY <3>2, <3>3
  <2>2. ASSUME NEW c \in Callers, Ask(c) PROVE BucketInv'
    <3>1. call' \in [Callers -> Calls]
      BY <2>2 DEF Ask
    <3>2. tokens' = tokens \/ (tokens # 0 /\ tokens' = tokens - 1)
      BY <2>2 DEF Ask, Locked
    <3>3. closed' = closed
      BY <2>2 DEF Ask
    <3> QED
      BY <3>1, <3>2, <3>3, BucketAssumption
  <2>3. ASSUME NEW c \in Callers, Take(c) PROVE BucketInv'
    BY <2>3 DEF Take
  <2>4. ASSUME NEW c \in Callers, GiveBack(c) PROVE BucketInv'
    BY <2>4 DEF GiveBack
  <2>5. ASSUME NEW c \in Callers, Abort(c) PROVE BucketInv'
    BY <2>5 DEF Abort
  <2>6. ASSUME NEW c \in Callers, Cancel(c) PROVE BucketInv'
    BY <2>6 DEF Cancel
  <2>7. ASSUME NEW c \in Callers, Return(c) PROVE BucketInv'
    BY <2>7 DEF Return
  <2>8. CASE Refill
    BY <2>8, ReleaseAddsToNone DEF Refill
  <2>9. CASE Close
    BY <2>9 DEF Close
  <2>10. CASE UNCHANGED bucketVars
    BY <2>10 DEF bucketVars
  <2> QED
    BY <2>1, <2>2, <2>3, <2>4, <2>5, <2>6, <2>7, <2>8, <2>9, <2>10 DEF BucketNext
<1> QED
  BY <1>1, <1>2, PTL DEF BucketSpec

\* A call that gets its last token after aclose has set its event is refused:
\* for any number of callers, costs and cancellations (acquire).
THEOREM ClosedBucketGrantsNothing == BucketSpec => NothingAfterClose
<1>1. BucketInv /\ [BucketNext]_bucketVars
        => [\A c \in Callers :
              call'[c].pc = "granted" => call[c].pc = "granted" \/ ~closed]_bucketVars
  <2> SUFFICES ASSUME BucketInv, BucketNext, NEW d \in Callers,
                      call'[d].pc = "granted"
               PROVE  call[d].pc = "granted" \/ ~closed
    BY DEF bucketVars
  <2> USE DEF BucketInv, Calls, NoCall, Ended
  <2>1. ASSUME NEW c \in Callers, NEW cost \in 1..Capacity, Acquire(c, cost)
        PROVE  call[d].pc = "granted"
    BY <2>1 DEF Acquire
  <2>2. ASSUME NEW c \in Callers, Ask(c) PROVE call[d].pc = "granted"
    BY <2>2 DEF Ask
  <2>3. ASSUME NEW c \in Callers, Take(c) PROVE ~closed
    BY <2>3 DEF Take
  <2>4. ASSUME NEW c \in Callers, GiveBack(c) PROVE call[d].pc = "granted"
    BY <2>4 DEF GiveBack
  <2>5. ASSUME NEW c \in Callers, Abort(c) PROVE call[d].pc = "granted"
    BY <2>5 DEF Abort
  <2>6. ASSUME NEW c \in Callers, Cancel(c) PROVE call[d].pc = "granted"
    BY <2>6 DEF Cancel
  <2>7. ASSUME NEW c \in Callers, Return(c) PROVE call[d].pc = "granted"
    BY <2>7 DEF Return
  <2>8. Refill => call[d].pc = "granted"
    BY DEF Refill
  <2>9. Close => ~closed
    BY DEF Close
  <2> QED
    BY <2>1, <2>2, <2>3, <2>4, <2>5, <2>6, <2>7, <2>8, <2>9 DEF BucketNext
<1> QED
  BY BucketInvHolds, <1>1, PTL DEF BucketSpec, NothingAfterClose

(***************************************************************************)
(* No token is made and none is lost.  Each caller waits once at most,     *)
(* in the queue or with a token in hand, so a token that is handed over    *)
(* adds one to woken; and a call that has ended holds none.                *)
(***************************************************************************)
Waiters == Callers \cup {ORPHAN}

Waits(c) == call[c].pc = "wait" /\ c \notin woken

QueueInv ==
    /\ queue \in Seq(Waiters)
    /\ \A i \in DOMAIN queue, d \in Callers : queue[i] = d => Waits(d)
    /\ \A i, j \in DOMAIN queue : queue[i] = queue[j] => i = j \/ queue[i] = ORPHAN

CallInv ==
    /\ woken \in SUBSET {c \in Callers : call[c].pc = "wait"}
    /\ \A c \in Callers : /\ Asking(c) => call[c].got < call[c].cost
                          /\ ~Asking(c) => call[c].got = 0

Got == SumFunction([c \in Callers |-> call[c].got])

Balance == budget = tokens + Cardinality(woken) + Got

TokenInv == BucketInv /\ QueueInv /\ CallInv /\ Balance

\* What the balance is made of are numbers.
LEMMA Numbers ==
    ASSUME TokenInv
    PROVE  /\ Cardinality(woken) \in Nat /\ Got \in Int /\ tokens \in Nat /\ budget \in Int
           /\ budget = tokens + Cardinality(woken) + Got
<1>1. [c \in Callers |-> call[c].got] \in [Callers -> Int]
  BY DEF TokenInv, BucketInv, Calls
<1>2. Got \in Int
  BY <1>1, SumType, BucketAssumption DEF Got
<1>3. IsFiniteSet(woken)
  BY FS_Subset, BucketAssumption DEF TokenInv, CallInv
<1>4. Cardinality(woken) \in Nat
  BY <1>3, FS_CardinalityType
<1>. QED BY <1>2, <1>4 DEF TokenInv, BucketInv, Balance

\* What a step of one call does to the tokens held.
LEMMA GotChanges ==
    ASSUME BucketInv, NEW c \in Callers, NEW r \in Calls, call' = [call EXCEPT ![c] = r]
    PROVE  Got \in Int /\ Got' = Got + (r.got - call[c].got)
<1>. DEFINE f == [d \in Callers |-> call[d].got]
            g == [d \in Callers |-> call'[d].got]
<1>1. \A d \in Callers : call'[d] \in Calls /\ call[d] \in Calls
  BY DEF BucketInv
<1>2. f \in [Callers -> Int] /\ g \in [Callers -> Int]
  BY <1>1 DEF Calls
<1>3. \A d \in Callers \ {c} : g[d] = f[d]
  BY DEF BucketInv
<1>4. g[c] = r.got /\ f[c] = call[c].got
  BY DEF BucketInv
<1>5. Got = SumFunction(f) /\ Got' = SumFunction(g)
  BY DEF Got
<1>. HIDE DEF f, g
<1>6. SumFunction(f) \in Int /\ SumFunction(g) = SumFunction(f) + (g[c] - f[c])
  BY <1>2, <1>3, SumType, SumChanges, BucketAssumption
<1>. QED BY <1>4, <1>5, <1>6

\* The callers that hold a token are counted.
LEMMA WokenCounts ==
    ASSUME TokenInv
    PROVE  /\ Cardinality(woken) \in Nat
           /\ \A c \in Callers : c \notin woken => Cardinality(woken \cup {c}) = Cardinality(woken) + 1
           /\ \A c \in woken : Cardinality(woken \ {c}) = Cardinality(woken) - 1
<1>1. IsFiniteSet(woken)
  BY FS_Subset, BucketAssumption DEF TokenInv, CallInv
<1>. QED BY <1>1, FS_CardinalityType, FS_AddElement, FS_RemoveElement

\* The queue without its first waiter.
LEMMA TailOfQueue ==
    ASSUME QueueInv, queue # <<>>
    PROVE  /\ Tail(queue) \in Seq(Waiters)
           /\ Head(queue) = queue[1] /\ 1 \in DOMAIN queue
           /\ \A i \in DOMAIN Tail(queue) : i + 1 \in DOMAIN queue /\ Tail(queue)[i] = queue[i + 1]
           /\ \A i \in DOMAIN Tail(queue) : Tail(queue)[i] # ORPHAN => Tail(queue)[i] # Head(queue)
  BY HeadTailProperties DEF QueueInv

\* BucketInv and the facts about each caller, after a step of one call.
LEMMA OneCallSteps ==
    ASSUME TokenInv, NEW c \in Callers, NEW r \in Calls, call' = [call EXCEPT ![c] = r],
           woken' \in SUBSET Callers,
           \A d \in woken' : d \in woken \/ d = c \/ Waits(d),
           r.pc # "wait" => c \notin woken',
           r.pc \in {"ask", "wait"} => r.got < r.cost,
           r.pc \notin {"ask", "wait"} => r.got = 0
    PROVE  CallInv' /\ call' \in [Callers -> Calls]
<1>1. call' \in [Callers -> Calls] /\ call'[c] = r /\ \A d \in Callers \ {c} : call'[d] = call[d]
  BY DEF TokenInv, BucketInv
<1>2. woken' \in SUBSET {d \in Callers : call'[d].pc = "wait"}
  BY <1>1 DEF TokenInv, CallInv, Waits
<1>3. \A d \in Callers : /\ Asking(d)' => call'[d].got < call'[d].cost
                         /\ ~Asking(d)' => call'[d].got = 0
  BY <1>1 DEF TokenInv, CallInv, Asking
<1>. QED BY <1>1, <1>2, <1>3 DEF CallInv

\* A call that has ended, however, holds nothing.
LEMMA EndedCall ==
    ASSUME NEW c, NEW how, Ended(c, how)
    PROVE  call' = [call EXCEPT ![c] = [pc |-> how, cost |-> 0, got |-> 0]]
<1>1. [NoCall EXCEPT !.pc = how] = [pc |-> how, cost |-> 0, got |-> 0]
  BY DEF NoCall
<1>. QED BY <1>1 DEF Ended

\* A call that begins has no token yet; a closed bucket refuses it.
LEMMA AcquireKeepsTokens ==
    ASSUME TokenInv, NEW c \in Callers, NEW cost \in 1..Capacity, Acquire(c, cost), BucketInv'
    PROVE  TokenInv'
<1>. DEFINE r == IF closed THEN [pc |-> "closed", cost |-> 0, got |-> 0]
                 ELSE [pc |-> "ask", cost |-> cost, got |-> 0]
<1>1. call' = [call EXCEPT ![c] = r] /\ call[c].pc = "idle" /\ call[c].got = 0
  BY DEF Acquire, Ended, NoCall, TokenInv, CallInv, Asking
<1>2. r \in Calls /\ r.got = 0 /\ r.pc \in {"closed", "ask"} /\ (r.pc = "ask" => 0 < r.cost)
  BY BucketAssumption DEF Calls
<1>3. UNCHANGED <<tokens, queue, woken, budget>> /\ c \notin woken
  BY <1>1 DEF Acquire, TokenInv, CallInv
<1>. HIDE DEF r
<1>4. CallInv'
  BY <1>1, <1>2, <1>3, OneCallSteps DEF TokenInv, CallInv
<1>5. QueueInv'
  BY <1>1, <1>3 DEF TokenInv, QueueInv, Waits, Waiters, BucketInv
<1>6. Balance'
  <2>1. Got' = Got + (r.got - call[c].got)
    BY <1>1, <1>2, GotChanges DEF TokenInv
  <2>. QED BY <1>1, <1>2, <1>3, <2>1, Numbers DEF Balance
<1>. QED BY <1>4, <1>5, <1>6 DEF TokenInv

\* A call that asks takes a token that is free, or queues up.
LEMMA AskKeepsTokens ==
    ASSUME TokenInv, NEW c \in Callers, Ask(c), BucketInv'
    PROVE  TokenInv'
<1>. DEFINE r == [call[c] EXCEPT !.pc = "wait"]
<1>1. call' = [call EXCEPT ![c] = r] /\ call[c].pc = "ask" /\ call[c] \in Calls
  BY DEF Ask, TokenInv, BucketInv
<1>2. r \in Calls /\ r.got = call[c].got /\ r.cost = call[c].cost /\ r.pc = "wait"
  BY <1>1 DEF Calls
<1>3. r.got < r.cost /\ c \notin woken
  BY <1>1, <1>2 DEF TokenInv, CallInv, Asking
<1>. HIDE DEF r
<1>4. \A i \in DOMAIN queue : queue[i] # c
  BY <1>1, BucketAssumption DEF TokenInv, QueueInv, Waits
<1>5. CASE Locked
  <2>1. queue' = Append(queue, c) /\ UNCHANGED <<tokens, woken, budget>>
    BY <1>5 DEF Ask
  <2>2. CallInv'
    BY <1>1, <1>2, <1>3, <2>1, OneCallSteps DEF TokenInv, CallInv
  <2>3. /\ queue' \in Seq(Waiters) /\ Len(queue') = Len(queue) + 1
        /\ \A i \in DOMAIN queue' : \/ i \in DOMAIN queue /\ queue'[i] = queue[i]
                                    \/ i = Len(queue) + 1 /\ queue'[i] = c
    BY <2>1, AppendProperties DEF TokenInv, QueueInv, Waiters
  <2>4. \A d \in Callers : Waits(d) => Waits(d)'
    BY <1>1, <1>2, <2>1 DEF Waits, TokenInv, BucketInv
  <2>5. Waits(c)'
    BY <1>1, <1>2, <1>3, <2>1 DEF Waits, TokenInv, BucketInv
  <2>6. QueueInv'
    BY <1>4, <2>3, <2>4, <2>5 DEF TokenInv, QueueInv, Waiters
  <2>7. Balance'
    <3>1. Got' = Got + (r.got - call[c].got) /\ call[c].got \in Nat
      BY <1>1, <1>2, GotChanges DEF TokenInv, Calls
    <3>. QED BY <1>2, <2>1, <3>1, Numbers DEF Balance
  <2>. QED BY <2>2, <2>6, <2>7 DEF TokenInv
<1>6. CASE ~Locked
  <2>1. tokens' = tokens - 1 /\ woken' = woken \cup {c} /\ UNCHANGED <<queue, budget>>
    BY <1>6 DEF Ask
  <2>2. CallInv'
    BY <1>1, <1>2, <1>3, <2>1, OneCallSteps DEF TokenInv, CallInv
  <2>3. queue = <<>>
    BY <1>6 DEF Locked
  <2>4. QueueInv'
    BY <2>1, <2>3 DEF TokenInv, QueueInv
  <2>5. tokens \in Nat /\ tokens # 0
    BY <1>6 DEF TokenInv, BucketInv, Locked
  <2>6. Balance'
    <3>1. Got' = Got + (r.got - call[c].got) /\ call[c].got \in Nat
      BY <1>1, <1>2, GotChanges DEF TokenInv, Calls
    <3>2. Cardinality(woken') = Cardinality(woken) + 1
      BY <1>3, <2>1, WokenCounts
    <3>. QED BY <1>2, <2>1, <2>5, <3>1, <3>2, Numbers DEF Balance
  <2>. QED BY <2>2, <2>4, <2>6 DEF TokenInv
<1>. QED BY <1>5, <1>6

\* The token that woke a call becomes one that the call holds, or is granted.
LEMMA TakeKeepsTokens ==
    ASSUME TokenInv, NEW c \in Callers, Take(c), BucketInv'
    PROVE  TokenInv'
<1>. DEFINE last == call[c].got + 1 = call[c].cost
            r    == IF last THEN [pc |-> "granted", cost |-> 0, got |-> 0]
                    ELSE [call[c] EXCEPT !.pc = "ask", !.got = @ + 1]
<1>1. call[c] \in Calls /\ call[c].pc = "wait" /\ c \in woken /\ call[c].got < call[c].cost
  BY DEF Take, TokenInv, BucketInv, CallInv, Asking
<1>2. call' = [call EXCEPT ![c] = r]
  BY <1>1 DEF Take, Ended, NoCall, Calls
<1>3. r \in Calls
  <2>1. call[c].got + 1 \in Nat
    BY <1>1 DEF Calls
  <2>2. CASE last
    BY <2>2 DEF Calls
  <2>3. CASE ~last
    BY <1>1, <2>1, <2>3 DEF Calls
  <2>. QED BY <2>2, <2>3
<1>4. /\ last => r.pc = "granted" /\ r.got = 0 /\ budget' = budget - (call[c].got + 1)
      /\ ~last => r.pc = "ask" /\ r.got = call[c].got + 1 /\ r.got < r.cost /\ budget' = budget
  BY <1>1 DEF Calls, Take
<1>5. woken' = woken \ {c} /\ UNCHANGED <<tokens, queue>>
  BY DEF Take
<1>. HIDE DEF r
<1>6. CallInv'
  BY <1>2, <1>3, <1>4, <1>5, OneCallSteps DEF TokenInv, CallInv
<1>7. QueueInv'
  <2>1. \A d \in Callers : Waits(d) => Waits(d)'
    BY <1>1, <1>2, <1>5 DEF Waits, TokenInv, BucketInv
  <2>. QED BY <1>5, <2>1 DEF TokenInv, QueueInv, Waiters
<1>8. Balance'
  <2>1. Got' = Got + (r.got - call[c].got) /\ Got \in Int
    BY <1>2, <1>3, GotChanges DEF TokenInv
  <2>2. Cardinality(woken') = Cardinality(woken) - 1 /\ Cardinality(woken) \in Nat
    BY <1>1, <1>5, WokenCounts
  <2>3. tokens' = tokens /\ tokens \in Nat /\ call[c].got \in Nat
    BY <1>1, <1>5 DEF TokenInv, BucketInv, Calls
  <2>4. budget = tokens + Cardinality(woken) + Got
    BY DEF TokenInv, Balance
  <2>. QED BY <1>4, <2>1, <2>2, <2>3, <2>4 DEF Balance
<1>. QED BY <1>6, <1>7, <1>8 DEF TokenInv

\* A token that is given back is free again, or wakes the next waiter.
LEMMA GiveBackKeepsTokens ==
    ASSUME TokenInv, NEW c \in Callers, GiveBack(c), BucketInv'
    PROVE  TokenInv'
<1>. DEFINE r == [pc |-> "closed", cost |-> 0, got |-> 0]
<1>0. call[c] \in Calls /\ call[c].pc = "wait" /\ c \in woken /\ call[c].got \in Nat
  BY DEF GiveBack, TokenInv, BucketInv, Calls
<1>1. call[c].got \in Nat /\ c \in woken /\ call[c].pc = "wait" /\ call' = [call EXCEPT ![c] = r]
  BY <1>0, EndedCall DEF GiveBack
<1>2. r \in Calls /\ r.got = 0 /\ r.pc = "closed"
  BY DEF Calls
<1>. HIDE DEF r
<1>3. Got' = Got - call[c].got
  <2>1. Got' = Got + (r.got - call[c].got)
    BY <1>1, <1>2, GotChanges DEF TokenInv
  <2>. QED BY <1>1, <1>2, <2>1, Numbers
<1>4. CASE queue = <<>>
  <2>1. /\ tokens' = tokens + 1 /\ woken' = woken \ {c} /\ queue' = queue
        /\ budget' = budget - call[c].got
    BY <1>4, <1>1, Numbers DEF GiveBack
  <2>2. CallInv'
    BY <1>1, <1>2, <2>1, OneCallSteps DEF TokenInv, CallInv
  <2>3. QueueInv'
    BY <1>4, <2>1 DEF TokenInv, QueueInv
  <2>4. Cardinality(woken') = Cardinality(woken) - 1
    BY <1>1, <2>1, WokenCounts
  <2>5. Balance'
    BY <1>1, <1>3, <2>1, <2>4, Numbers DEF Balance
  <2>. QED BY <2>2, <2>3, <2>5 DEF TokenInv
<1>5. CASE queue # <<>>
  <2>. DEFINE h == Head(queue)
  <2>1. /\ queue' = Tail(queue) /\ tokens' = tokens
        /\ woken' = (woken \ {c}) \cup ({h} \ {ORPHAN})
        /\ budget' = budget - call[c].got - (IF h = ORPHAN THEN 1 ELSE 0)
    BY <1>5 DEF GiveBack
  <2>2. /\ h = queue[1] /\ 1 \in DOMAIN queue /\ Tail(queue) \in Seq(Waiters)
        /\ \A i \in DOMAIN Tail(queue) : i + 1 \in DOMAIN queue /\ Tail(queue)[i] = queue[i + 1]
        /\ \A i \in DOMAIN Tail(queue) : Tail(queue)[i] # ORPHAN => Tail(queue)[i] # h
    BY <1>5, TailOfQueue DEF TokenInv
  <2>. HIDE DEF h
  <2>3. h # ORPHAN => h \in Callers /\ Waits(h) /\ h # c /\ h \notin woken \ {c}
    BY <1>1, <2>2 DEF TokenInv, QueueInv, Waits, Waiters
  <2>4. CallInv'
    BY <1>1, <1>2, <2>1, <2>3, OneCallSteps DEF TokenInv, CallInv
  <2>5. QueueInv'
    <3>1. \A d \in Callers : Waits(d) /\ d # h => Waits(d)'
      BY <1>1, <2>1 DEF Waits, TokenInv, BucketInv
    <3>2. \A i \in DOMAIN Tail(queue), d \in Callers : Tail(queue)[i] = d => Waits(d)'
      BY <2>2, <3>1, BucketAssumption DEF TokenInv, QueueInv
    <3>3. \A i, j \in DOMAIN Tail(queue) :
             Tail(queue)[i] = Tail(queue)[j] => i = j \/ Tail(queue)[i] = ORPHAN
      <4>. TAKE i, j \in DOMAIN Tail(queue)
      <4>1. i \in Nat /\ j \in Nat
        BY <2>2, LenProperties
      <4>. QED BY <2>2, <4>1 DEF TokenInv, QueueInv
    <3>. QED BY <2>1, <2>2, <3>2, <3>3 DEF QueueInv
  <2>6. Cardinality(woken \ {c}) = Cardinality(woken) - 1 /\ IsFiniteSet(woken \ {c})
    BY <1>1, WokenCounts, FS_Subset, BucketAssumption DEF TokenInv, CallInv
  <2>7. CASE h = ORPHAN
    <3>1. woken' = woken \ {c}
      BY <2>1, <2>7
    <3>2. budget' = budget - call[c].got - 1 /\ tokens' = tokens
      BY <2>1, <2>7
    <3>3. Cardinality(woken') = Cardinality(woken) - 1
      BY <2>6, <3>1
    <3>4. Balance'
      BY <1>1, <1>3, <3>2, <3>3, Numbers DEF Balance
    <3>. QED BY <2>4, <2>5, <3>4 DEF TokenInv
  <2>8. CASE h # ORPHAN
    <3>1. woken' = (woken \ {c}) \cup {h}
      BY <2>1, <2>8
    <3>2. Cardinality(woken') = Cardinality(woken \ {c}) + 1
      BY <2>3, <2>6, <2>8, <3>1, FS_AddElement
    <3>3. Balance'
      <4>. DEFINE w == Cardinality(woken)
                  got == call[c].got
      <4>1. /\ w \in Int /\ got \in Int /\ Got \in Int /\ tokens \in Int /\ budget \in Int
            /\ budget = tokens + w + Got
        BY <1>1, Numbers
      <4>2. /\ Cardinality(woken') = w - 1 + 1 /\ Got' = Got - got
            /\ budget' = budget - got - 0 /\ tokens' = tokens
        BY <1>3, <2>1, <2>6, <2>8, <3>2
      <4>. HIDE DEF w, got
      <4>. QED BY <4>1, <4>2 DEF Balance
    <3>. QED BY <2>4, <2>5, <3>3 DEF TokenInv
  <2>. QED BY <2>7, <2>8
<1>. QED BY <1>4, <1>5

\* A call that leaves takes with it the tokens it held, and none from the others.
LEMMA AbortKeepsTokens ==
    ASSUME TokenInv, NEW c \in Callers, Abort(c), BucketInv'
    PROVE  TokenInv'
<1>. DEFINE r == [pc |-> "closed", cost |-> 0, got |-> 0]
<1>0. call[c] \in Calls /\ call[c].got \in Nat /\ c \notin woken
  BY DEF Abort, TokenInv, BucketInv, Calls
<1>1. /\ call' = [call EXCEPT ![c] = r] /\ call[c].got \in Nat /\ c \notin woken
      /\ UNCHANGED <<tokens, woken>> /\ budget' = budget - call[c].got
  BY <1>0, EndedCall DEF Abort
<1>2. r \in Calls /\ r.got = 0 /\ r.pc = "closed"
  BY DEF Calls
<1>. HIDE DEF r
<1>3. PICK i \in DOMAIN queue : queue[i] = c /\ queue' = RemoveAt(queue, i)
  BY DEF Abort, Leave
<1>4. queue \in Seq(Waiters) /\ Len(queue) \in Nat /\ DOMAIN queue = 1..Len(queue)
  BY LenProperties DEF TokenInv, QueueInv
<1>5. /\ queue' \in Seq(Waiters)
      /\ DOMAIN queue' = 1..(Len(queue) - 1)
      /\ \A j \in 1..(Len(queue) - 1) : queue'[j] = queue[IF j < i THEN j ELSE j + 1]
  BY <1>3, <1>4, WithoutOne
<1>6. CallInv'
  BY <1>1, <1>2, OneCallSteps DEF TokenInv, CallInv
<1>7. QueueInv'
  <2>1. \A d \in Callers : Waits(d) /\ d # c => Waits(d)'
    BY <1>1 DEF Waits, TokenInv, BucketInv
  <2>. DEFINE At(j) == IF j < i THEN j ELSE j + 1
  <2>2. \A j \in DOMAIN queue' : At(j) \in DOMAIN queue /\ At(j) # i /\ queue'[j] = queue[At(j)]
    BY <1>3, <1>4, <1>5
  <2>3. \A j, k \in DOMAIN queue' : At(j) = At(k) => j = k
    BY <1>3, <1>4, <1>5
  <2>. HIDE DEF At
  <2>4. \A j \in DOMAIN queue', d \in Callers : queue'[j] = d => Waits(d)'
    BY <1>3, <1>4, <2>1, <2>2, BucketAssumption, ElementOfSeq DEF TokenInv, QueueInv, Waiters
  <2>5. \A j, k \in DOMAIN queue' : queue'[j] = queue'[k] => j = k \/ queue'[j] = ORPHAN
    BY <2>2, <2>3 DEF TokenInv, QueueInv
  <2>. QED BY <1>5, <2>4, <2>5 DEF QueueInv
<1>8. Balance'
  <2>1. Got' = Got + (r.got - call[c].got)
    BY <1>1, <1>2, GotChanges DEF TokenInv
  <2>. QED BY <1>1, <1>2, <2>1, Numbers DEF Balance
<1>. QED BY <1>6, <1>7, <1>8 DEF TokenInv

\* A call that is cancelled takes with it the tokens it held, and the one that woke it.
LEMMA CancelKeepsTokens ==
    ASSUME TokenInv, NEW c \in Callers, Cancel(c), BucketInv'
    PROVE  TokenInv'
<1>. DEFINE r == [pc |-> "cancelled", cost |-> 0, got |-> 0]
<1>0. call[c] \in Calls /\ call[c].got \in Nat
  BY DEF TokenInv, BucketInv, Calls
<1>1. /\ call' = [call EXCEPT ![c] = r] /\ call[c].got \in Nat
      /\ tokens' = tokens /\ woken' = woken \ {c}
      /\ budget' = budget - call[c].got - (IF c \in woken THEN 1 ELSE 0)
      /\ queue' = [i \in DOMAIN queue |-> IF queue[i] = c THEN ORPHAN ELSE queue[i]]
  BY <1>0, EndedCall DEF Cancel
<1>2. r \in Calls /\ r.got = 0 /\ r.pc = "cancelled"
  BY DEF Calls
<1>. HIDE DEF r
<1>3. CallInv'
  BY <1>1, <1>2, OneCallSteps DEF TokenInv, CallInv
<1>4. QueueInv'
  <2>1. \A d \in Callers : Waits(d) /\ d # c => Waits(d)'
    BY <1>1 DEF Waits, TokenInv, BucketInv
  <2>2. \A i \in DOMAIN queue : queue[i] \in Waiters
    BY DEF TokenInv, QueueInv
  <2>3. Len(queue) \in Nat /\ DOMAIN queue = 1..Len(queue)
    BY LenProperties DEF TokenInv, QueueInv
  <2>4. queue' \in Seq(Waiters) /\ DOMAIN queue' = DOMAIN queue
    BY <1>1, <2>2, <2>3, IsASeq DEF Waiters
  <2>5. \A i \in DOMAIN queue', d \in Callers : queue'[i] = d => Waits(d)'
    <3>1. \A i \in DOMAIN queue', d \in Callers : queue'[i] = d => d # c /\ queue[i] = d
      BY <1>1, <2>4, BucketAssumption
    <3>. QED BY <2>1, <2>4, <3>1 DEF TokenInv, QueueInv
  <2>6. \A i, j \in DOMAIN queue' : queue'[i] = queue'[j] => i = j \/ queue'[i] = ORPHAN
    BY <1>1, <2>4 DEF TokenInv, QueueInv
  <2>. QED BY <2>4, <2>5, <2>6 DEF QueueInv
<1>5. Balance'
  <2>1. Got' = Got + (r.got - call[c].got)
    BY <1>1, <1>2, GotChanges DEF TokenInv
  <2>2. Got' = Got - call[c].got
    BY <1>1, <1>2, <2>1, Numbers
  <2>3. CASE c \in woken
    <3>1. Cardinality(woken') = Cardinality(woken) - 1
      BY <1>1, <2>3, WokenCounts
    <3>. QED BY <1>1, <2>2, <2>3, <3>1, Numbers DEF Balance
  <2>4. CASE c \notin woken
    <3>1. Cardinality(woken') = Cardinality(woken)
      <4>1. woken' = woken
        BY <1>1, <2>4
      <4>. QED BY <4>1
    <3>2. budget' = budget - call[c].got /\ tokens' = tokens
      BY <1>1, <2>4, Numbers
    <3>. QED BY <1>1, <2>2, <3>1, <3>2, Numbers DEF Balance
  <2>. QED BY <2>3, <2>4
<1>. QED BY <1>3, <1>4, <1>5 DEF TokenInv

\* A call that has ended holds nothing.
LEMMA ReturnKeepsTokens ==
    ASSUME TokenInv, NEW c \in Callers, Return(c), BucketInv'
    PROVE  TokenInv'
<1>. DEFINE r == [pc |-> "idle", cost |-> 0, got |-> 0]
<1>1. /\ call' = [call EXCEPT ![c] = r] /\ call[c].got = 0 /\ call[c].pc # "wait" /\ c \notin woken
      /\ UNCHANGED <<tokens, queue, woken, budget>>
  BY DEF Return, TokenInv, CallInv, Asking, NoCall
<1>2. r \in Calls /\ r.got = 0 /\ r.pc = "idle"
  BY DEF Calls
<1>. HIDE DEF r
<1>3. CallInv'
  BY <1>1, <1>2, OneCallSteps DEF TokenInv, CallInv
<1>4. QueueInv'
  <2>1. \A d \in Callers : Waits(d) => Waits(d)'
    BY <1>1 DEF Waits, TokenInv, BucketInv
  <2>. QED BY <1>1, <2>1 DEF TokenInv, QueueInv, Waiters
<1>5. Balance'
  <2>1. Got' = Got + (r.got - call[c].got)
    BY <1>1, <1>2, GotChanges DEF TokenInv
  <2>. QED BY <1>1, <1>2, <2>1, Numbers DEF Balance
<1>. QED BY <1>3, <1>4, <1>5 DEF TokenInv

\* A refill comes only while there is no token: it wakes the first waiter, or is free.
LEMMA RefillKeepsTokens ==
    ASSUME TokenInv, Refill, BucketInv'
    PROVE  TokenInv'
<1>1. call' = call /\ Got' = Got
  BY DEF Refill, Got
<1>2. CASE queue = <<>>
  <2>1. tokens' = tokens + 1 /\ UNCHANGED <<queue, woken>> /\ budget' = budget + 1
    BY <1>2 DEF Refill, Release
  <2>2. CallInv' /\ QueueInv'
    BY <1>1, <2>1 DEF TokenInv, CallInv, QueueInv, Waits, Asking
  <2>3. Balance'
    BY <1>1, <2>1, Numbers DEF Balance
  <2>. QED BY <2>2, <2>3 DEF TokenInv
<1>3. CASE queue # <<>>
  <2>. DEFINE h == Head(queue)
  <2>1. /\ queue' = Tail(queue) /\ tokens' = tokens
        /\ woken' = IF h = ORPHAN THEN woken ELSE woken \cup {h}
        /\ budget' = IF h = ORPHAN THEN budget ELSE budget + 1
    BY <1>3 DEF Refill, Release
  <2>2. /\ h = queue[1] /\ 1 \in DOMAIN queue /\ Tail(queue) \in Seq(Waiters)
        /\ \A i \in DOMAIN Tail(queue) : i + 1 \in DOMAIN queue /\ Tail(queue)[i] = queue[i + 1]
        /\ \A i \in DOMAIN Tail(queue) : Tail(queue)[i] # ORPHAN => Tail(queue)[i] # h
    BY <1>3, TailOfQueue DEF TokenInv
  <2>. HIDE DEF h
  <2>3. h # ORPHAN => h \in Callers /\ Waits(h) /\ h \notin woken
    BY <2>2 DEF TokenInv, QueueInv, Waits, Waiters
  <2>4. CallInv'
    BY <1>1, <2>1, <2>3 DEF TokenInv, CallInv, Asking, Waits
  <2>5. QueueInv'
    <3>1. \A d \in Callers : Waits(d) /\ d # h => Waits(d)'
      BY <1>1, <2>1 DEF Waits
    <3>2. \A i \in DOMAIN Tail(queue), d \in Callers : Tail(queue)[i] = d => Waits(d)'
      BY <2>2, <3>1, BucketAssumption DEF TokenInv, QueueInv
    <3>3. \A i, j \in DOMAIN Tail(queue) :
             Tail(queue)[i] = Tail(queue)[j] => i = j \/ Tail(queue)[i] = ORPHAN
      <4>. TAKE i, j \in DOMAIN Tail(queue)
      <4>1. i \in Nat /\ j \in Nat
        BY <2>2, LenProperties
      <4>. QED BY <2>2, <4>1 DEF TokenInv, QueueInv
    <3>. QED BY <2>1, <2>2, <3>2, <3>3 DEF QueueInv
  <2>6. Balance'
    <3>1. CASE h = ORPHAN
      BY <1>1, <2>1, <3>1, Numbers DEF Balance
    <3>2. CASE h # ORPHAN
      <4>1. Cardinality(woken') = Cardinality(woken) + 1
        BY <2>1, <2>3, <3>2, WokenCounts
      <4>. QED BY <1>1, <2>1, <3>2, <4>1, Numbers DEF Balance
    <3>. QED BY <3>1, <3>2
  <2>. QED BY <2>4, <2>5, <2>6 DEF TokenInv
<1>. QED BY <1>2, <1>3

\* Closing moves no token.
LEMMA CloseKeepsTokens ==
    ASSUME TokenInv, Close, BucketInv'
    PROVE  TokenInv'
  BY DEF Close, TokenInv, QueueInv, CallInv, Balance, Got, Waits, Asking

\* Whatever is asked for, cancelled, refilled or closed, and in whatever order,
\* every token is in the semaphore, in a caller's hand, spent or lost with an
\* orphan, and idle time saves up no more than Capacity (acquire, aclose,
\* _refill_loop).
THEOREM TokensAreConserved == BucketSpec => []RateIsKept
<1>1. BucketInit => BucketInv
  BY BucketAssumption DEF BucketInit, BucketInv, NoCall, Calls
<1>2. BucketInit => TokenInv
  <2>. SUFFICES ASSUME BucketInit PROVE TokenInv
    OBVIOUS
  <2>1. QueueInv /\ CallInv
    BY EmptySeq DEF BucketInit, QueueInv, CallInv, NoCall, Asking
  <2>2. [c \in Callers |-> call[c].got] = [c \in Callers |-> 0]
    BY DEF BucketInit, NoCall
  <2>3. Got = 0
    BY <2>2, SumOfZeros, BucketAssumption DEF Got
  <2>4. Balance
    BY <2>3, FS_EmptySet, BucketAssumption DEF BucketInit, Balance
  <2>. QED BY <1>1, <2>1, <2>4 DEF TokenInv
<1>3. TokenInv /\ BucketInv' /\ [BucketNext]_bucketVars => TokenInv'
  <2>. SUFFICES ASSUME TokenInv, BucketInv', [BucketNext]_bucketVars PROVE TokenInv'
    OBVIOUS
  <2>1. CASE UNCHANGED bucketVars
    BY <2>1 DEF bucketVars, TokenInv, BucketInv, QueueInv, CallInv, Balance, Got, Waits, Asking
  <2>2. CASE BucketNext
    BY <2>2, AcquireKeepsTokens, AskKeepsTokens, TakeKeepsTokens, GiveBackKeepsTokens,
       AbortKeepsTokens, CancelKeepsTokens, ReturnKeepsTokens, RefillKeepsTokens,
       CloseKeepsTokens DEF BucketNext
  <2>. QED BY <2>1, <2>2
<1>4. TokenInv => RateIsKept
  BY DEF TokenInv, BucketInv, Balance, Got, RateIsKept
<1>. QED BY <1>2, <1>3, <1>4, BucketInvHolds, PTL DEF BucketSpec

(***************************************************************************)
(* Observation arrivals                                                    *)
(***************************************************************************)

\* What the process has seen is what the table holds, once.
SeenInv ==
    /\ feed \subseteq Observations /\ seen \subseteq Observations
    /\ arrivals \in [Observations -> Nat]
    /\ \A o \in Observations : arrivals[o] = IF o \in seen THEN 1 ELSE 0

\* An answer adds the rows that the table has not.
LEMMA RecordKeepsSeenInv ==
    ASSUME SeenInv, NEW answer \in SUBSET feed, Record(answer)
    PROVE  SeenInv'
<1>1. feed' = feed /\ seen' = seen \cup answer
  BY DEF Record
<1>2. arrivals' = [o \in Observations |->
                     IF o \in answer \ seen THEN arrivals[o] + 1 ELSE arrivals[o]]
  BY DEF Record
<1>3. arrivals' \in [Observations -> Nat]
  BY <1>2 DEF SeenInv
<1>4. ASSUME NEW o \in Observations
      PROVE  arrivals'[o] = IF o \in seen' THEN 1 ELSE 0
  BY <1>1, <1>2 DEF SeenInv
<1> QED
  BY <1>1, <1>3, <1>4 DEF SeenInv

\* A restart leaves the table as it is.
LEMMA RestartKeepsSeenInv ==
    ASSUME SeenInv, Restart
    PROVE  SeenInv'
  BY DEF SeenInv, Restart, Recorded

\* No observation has two rows, for any set of observations and any order of
\* refusals, failures, lost commits and restarts (_poll_obs_arrivals).
THEOREM ArrivalsOnce == ObsSpec => []ArrivalsRecordedOnce
<1>1. ObsInit => SeenInv
  BY DEF ObsInit, SeenInv
<1>2. SeenInv /\ [ObsNext]_obsVars => SeenInv'
  <2> SUFFICES ASSUME SeenInv, [ObsNext]_obsVars PROVE SeenInv'
    OBVIOUS
  <2>1. ASSUME NEW o \in Observations, Publish(o) PROVE SeenInv'
    BY <2>1 DEF Publish, obsOnly, SeenInv
  <2>2. ASSUME NEW answer \in SUBSET feed, LoseCommit(answer) PROVE SeenInv'
    BY <2>2 DEF LoseCommit, obsOnly, SeenInv
  <2>3. ASSUME NEW answer \in SUBSET feed, Record(answer) PROVE SeenInv'
    BY <2>3, RecordKeepsSeenInv
  <2>4. CASE Restart
    BY <2>4, RestartKeepsSeenInv
  <2>5. CASE Skip \/ Request \/ Break
    BY <2>5 DEF Skip, Request, Break, obsOnly, SeenInv
  <2>6. CASE Refuse
    BY <2>6 DEF Refuse, SeenInv
  <2>7. CASE ObsTick
    BY <2>7 DEF ObsTick, SeenInv
  <2>8. CASE (Wake \/ Stop) /\ UNCHANGED <<feed, obsOnly>>
    BY <2>8 DEF obsOnly, SeenInv
  <2>9. CASE UNCHANGED obsVars
    BY <2>9 DEF obsVars, SeenInv
  <2> QED
    BY <2>1, <2>2, <2>3, <2>4, <2>5, <2>6, <2>7, <2>8, <2>9 DEF ObsNext
<1>3. SeenInv => ArrivalsRecordedOnce
  BY DEF SeenInv, ArrivalsRecordedOnce
<1> QED
  BY <1>1, <1>2, <1>3, PTL DEF ObsSpec

(***************************************************************************)
(* Outages.  While a streak of failures has raised no alarm, the time that *)
(* it has lasted and the longest time to the next answer are bounded:      *)
(* Remaining counts the sleep, the skipped runs that a refusal costs and   *)
(* the wait for the answer.  And what is left of a refusal's back-off,     *)
(* with the time since the refusal, is never less than what it is worth.   *)
(***************************************************************************)
Remaining ==
    IF loop = "done" THEN 0
    ELSE IF loop = "busy" THEN MaxBody - left
    ELSE (IF resume <= left THEN left ELSE resume + Interval) + MaxBody

StreakInv ==
    /\ {left, failures, lasted, outage} \subseteq Nat /\ alarmed \in BOOLEAN
    /\ loop \in {"body", "busy", "sleep", "done"}
    /\ failures = 0 => outage = 0 /\ ~alarmed
    /\ failures # 0 => outage = IF lasted + 1 <= Horizon THEN lasted + 1 ELSE Horizon
    /\ alarmed => lasted >= Threshold
    /\ failures # 0 /\ ~alarmed => lasted + Remaining < Threshold + MaxGap

RefusalInv ==
    /\ {resume, refusals, quiet, backoff} \subseteq Nat
    /\ loop = "body" => left = 0
    /\ loop = "busy" => left <= MaxBody /\ resume = 0
    /\ refusals <= BackoffLimit /\ backoff = Owed(refusals)
    /\ quiet + resume >= backoff

OutageInv == StreakInv /\ RefusalInv

\* A base that is doubled k times is a delay of at least k and one more.
LEMMA PowerTimes ==
    ASSUME NEW b \in Nat \ {0}, NEW k \in Nat
    PROVE  b * 2^k \in Nat \ {0} /\ k + 1 <= b * 2^k
<1>1. 2^k \in Nat /\ k + 1 <= 2^k
  BY PowerGrows
<1>2. \A p \in Nat : p <= b * p /\ b * p \in Nat
  OBVIOUS
<1>3. \A p \in Nat : k + 1 <= p => b * p \in Nat \ {0} /\ k + 1 <= b * p
  BY <1>2
<1>. QED BY <1>1, <1>3

\* The loop's own back-off ends (_failure_sleep).
LEMMA FailureSleepIsBounded ==
    ASSUME NEW n \in Nat
    PROVE  FailureSleep(n) \in Nat /\ FailureSleep(n) <= BackoffCap /\ BackoffCap \in Nat
<1>1. Multiplier * Interval \in Nat \ {0}
  BY RunnerAssumption
<1>2. BackoffCap \in Nat \ {0}
  BY <1>1, MinOfTwo, RunnerAssumption DEF BackoffCap
<1>3. Min({RecoverySleep, BackoffCap}) \in Nat \ {0} /\ Min({RecoverySleep, BackoffCap}) <= BackoffCap
  BY <1>2, MinOfTwo, RunnerAssumption
<1>. DEFINE base == Min({RecoverySleep, BackoffCap})
<1>4. CASE n > AfterN
  <2>1. n - AfterN \in Nat
    BY <1>4, RunnerAssumption
  <2>2. base * 2^(n - AfterN) \in Nat
    BY <1>3, <2>1, PowerTimes
  <2>3. FailureSleep(n) = Min({base * 2^(n - AfterN), BackoffCap})
    BY <1>4 DEF FailureSleep
  <2>. HIDE DEF base
  <2>. QED BY <1>2, <2>2, <2>3, MinOfTwo
<1>5. CASE ~(n > AfterN)
  BY <1>2, <1>3, <1>5 DEF FailureSleep
<1>. QED BY <1>4, <1>5

\* What the n-th refusal in a row is worth, and the next one (state.backoff).
LEMMA OwedDoubles ==
    ASSUME NEW n \in Nat, n <= BackoffLimit
    PROVE  /\ Owed(n) \in Nat /\ Owed(n) <= BackoffLimit
           /\ Owed(Min({n + 1, BackoffLimit})) =
                IF Owed(n) = 0 THEN BackoffStart ELSE Min({2 * Owed(n), BackoffLimit})
<1>1. BackoffStart \in Nat \ {0} /\ BackoffLimit \in Nat \ {0} /\ BackoffStart <= BackoffLimit
  BY ObsAssumption
<1>2. ASSUME NEW k \in Nat
      PROVE  /\ BackoffStart * 2^k \in Nat \ {0} /\ k + 1 <= BackoffStart * 2^k
             /\ Owed(k + 1) = IF BackoffStart * 2^k <= BackoffLimit
                              THEN BackoffStart * 2^k ELSE BackoffLimit
  <2>1. BackoffStart * 2^k \in Nat \ {0} /\ k + 1 <= BackoffStart * 2^k
    BY <1>1, PowerTimes
  <2>2. Owed(k + 1) = Min({BackoffStart * 2^k, BackoffLimit})
    <3>1. k + 1 # 0 /\ (k + 1) - 1 = k
      OBVIOUS
    <3>. QED BY <3>1 DEF Owed
  <2>. QED BY <1>1, <2>1, <2>2, MinOfTwo
<1>3. CASE n = 0
  <2>1. Owed(n) = 0
    BY <1>3 DEF Owed
  <2>2. Min({n + 1, BackoffLimit}) = 1
    BY <1>1, <1>3, MinOfTwo
  <2>3. Owed(1) = BackoffStart
    <3>1. BackoffStart * 2^0 = BackoffStart
      BY <1>1
    <3>2. Owed(1) = Min({BackoffStart * 2^0, BackoffLimit})
      BY DEF Owed
    <3>. QED BY <1>1, <3>1, <3>2, MinOfTwo
  <2>. QED BY <1>1, <2>1, <2>2, <2>3
<1>4. CASE n # 0
  <2>. DEFINE x == BackoffStart * 2^(n - 1)
  <2>1. n - 1 \in Nat /\ (n - 1) + 1 = n
    BY <1>4
  <2>2. x \in Nat \ {0} /\ n <= x /\ Owed(n) = IF x <= BackoffLimit THEN x ELSE BackoffLimit
    BY <1>2, <2>1
  <2>3. 2^n = 2 * 2^(n - 1) /\ 2^(n - 1) \in Nat
    BY <2>1, PowerDoubles, PowerIsCount
  <2>4. BackoffStart * 2^n = 2 * x
    <3>1. \A p \in Nat : BackoffStart * (2 * p) = 2 * (BackoffStart * p)
      BY <1>1
    <3>. QED BY <2>3, <3>1
  <2>5. Owed(n + 1) = IF 2 * x <= BackoffLimit THEN 2 * x ELSE BackoffLimit
    BY <1>2, <2>4
  <2>. HIDE DEF x
  <2>6. CASE n = BackoffLimit
    <3>1. Min({n + 1, BackoffLimit}) = n
      BY <1>1, <2>6, MinOfTwo
    <3>2. Owed(n) = BackoffLimit
      BY <2>2, <2>6
    <3>3. Min({2 * BackoffLimit, BackoffLimit}) = BackoffLimit
      BY <1>1, MinOfTwo
    <3>. QED BY <1>1, <3>1, <3>2, <3>3
  <2>7. CASE n # BackoffLimit
    <3>1. Min({n + 1, BackoffLimit}) = n + 1
      BY <1>1, <2>7, MinOfTwo
    <3>2. Owed(n) \in Nat \ {0} /\ Owed(n) <= BackoffLimit
      BY <1>1, <2>2
    <3>3. Min({2 * Owed(n), BackoffLimit}) =
             IF 2 * Owed(n) <= BackoffLimit THEN 2 * Owed(n) ELSE BackoffLimit
      BY <1>1, <3>2, MinOfTwo
    <3>. QED BY <1>1, <2>2, <2>5, <3>1, <3>2, <3>3
  <2>. QED BY <2>6, <2>7
<1>. QED BY <1>3, <1>4

\* The bounds that the steps need, without Min and Max.
LEMMA GapBounds ==
    /\ {BackoffLimit, Interval, BackoffCap, MaxBody, MaxGap, Threshold, Horizon} \subseteq Nat
    /\ BackoffLimit + Interval + MaxBody <= MaxGap /\ BackoffCap + MaxBody <= MaxGap
    /\ Horizon > Threshold + MaxGap /\ Threshold > 0 /\ Interval > 0
<1>1. BackoffCap \in Nat
  BY FailureSleepIsBounded
<1>2. BackoffLimit + Interval \in Nat
  BY ObsAssumption, RunnerAssumption
<1>3. Max({BackoffLimit + Interval, BackoffCap}) =
        IF BackoffLimit + Interval >= BackoffCap THEN BackoffLimit + Interval ELSE BackoffCap
  BY <1>1, <1>2, MaxOfTwo
<1>. QED BY <1>1, <1>2, <1>3, HorizonAssumption, ObsAssumption, RunnerAssumption DEF MaxGap

\* An age grows by one, up to the horizon at which it is capped.
LEMMA OlderIsLater ==
    ASSUME NEW t \in Nat
    PROVE  Older(t) = IF t + 1 <= Horizon THEN t + 1 ELSE Horizon
  BY MinOfTwo, GapBounds DEF Older

\* A failure: the streak starts or goes on, and if it raises no alarm then the
\* next answer comes within MaxGap of it.
LEMMA FailureKeepsStreak ==
    ASSUME OutageInv, loop = "busy", Failed, resume' \in Nat, resume' <= BackoffLimit
    PROVE  /\ StreakInv' /\ loop' = "sleep"
<1>1. /\ loop' = "sleep" /\ left' = FailureSleep(failures')
      /\ lasted' = IF failures = 0 THEN 0 ELSE lasted
      /\ alarmed' = ((failures # 0 /\ alarmed) \/ lasted' >= Threshold)
  BY DEF Failed, Sleep
<1>2. failures' \in Nat \ {0}
  <2>1. MaxFailures \in Nat \ {0}
    <3>1. Multiplier * Interval \in Nat \ {0}
      BY RunnerAssumption
    <3>2. BackoffCap \in Nat \ {0}
      BY <3>1, MinOfTwo, RunnerAssumption DEF BackoffCap
    <3>. QED BY <3>2, RunnerAssumption DEF MaxFailures
  <2>2. failures' = Min({failures + 1, MaxFailures}) /\ failures \in Nat
    BY DEF Failed, OutageInv, StreakInv
  <2>. QED BY <2>1, <2>2, MinOfTwo
<1>3. outage' = IF outage >= 1 THEN outage ELSE 1
  <2>1. outage' = Max({outage, 1}) /\ outage \in Nat
    BY DEF Failed, OutageInv, StreakInv
  <2>. QED BY <2>1, MaxOfTwo
<1>4. left' \in Nat /\ left' <= BackoffCap
  BY <1>1, <1>2, FailureSleepIsBounded
<1>5. {lasted, outage} \subseteq Nat /\ alarmed \in BOOLEAN
  BY DEF OutageInv, StreakInv
<1>6. lasted' \in Nat /\ outage' \in Nat /\ alarmed' \in BOOLEAN
  BY <1>1, <1>3, <1>5
<1>7. outage' = IF lasted' + 1 <= Horizon THEN lasted' + 1 ELSE Horizon
  BY <1>1, <1>3, <1>5, GapBounds DEF OutageInv, StreakInv
<1>8. alarmed' => lasted' >= Threshold
  BY <1>1 DEF OutageInv, StreakInv
<1>9. ~alarmed' => lasted' + Remaining' < Threshold + MaxGap
  <2>1. Remaining' = (IF resume' <= left' THEN left' ELSE resume' + Interval) + MaxBody
    BY <1>1 DEF Remaining
  <2>2. Remaining' \in Nat /\ Remaining' <= MaxGap
    BY <1>4, <2>1, GapBounds
  <2>3. ~alarmed' => lasted' < Threshold
    <3>1. lasted' >= Threshold => alarmed'
      BY <1>1
    <3>. QED BY <1>6, <3>1, GapBounds
  <2>. QED BY <1>6, <2>2, <2>3, GapBounds
<1>. QED BY <1>1, <1>2, <1>4, <1>6, <1>7, <1>8, <1>9 DEF StreakInv

\* A refusal doubles what the loop owes, and is a failure.
LEMMA RefuseKeepsOutageInv == OutageInv /\ Refuse => OutageInv'
<1>. SUFFICES ASSUME OutageInv, Refuse PROVE OutageInv'
  OBVIOUS
<1>1. refusals \in Nat /\ refusals <= BackoffLimit /\ backoff = Owed(refusals) /\ quiet \in Nat
  BY DEF OutageInv, RefusalInv
<1>2. /\ loop = "busy" /\ Failed
      /\ backoff' = IF backoff = 0 THEN BackoffStart ELSE Min({2 * backoff, BackoffLimit})
      /\ resume' = backoff' /\ quiet' = 0
      /\ refusals' = Min({refusals + 1, BackoffLimit})
  BY DEF Refuse
<1>3. refusals' \in Nat /\ refusals' <= BackoffLimit
  BY <1>1, <1>2, MinOfTwo, ObsAssumption
<1>4. backoff' = Owed(refusals')
  BY <1>1, <1>2, OwedDoubles
<1>5. backoff' \in Nat /\ backoff' <= BackoffLimit
  BY <1>3, <1>4, OwedDoubles
<1>6. StreakInv' /\ loop' = "sleep"
  BY <1>2, <1>5, FailureKeepsStreak
<1>7. RefusalInv'
  BY <1>2, <1>3, <1>4, <1>5, <1>6 DEF RefusalInv
<1>. QED BY <1>6, <1>7 DEF OutageInv

\* Any other failure leaves what is owed as it is.
LEMMA BreakKeepsOutageInv == OutageInv /\ loop = "busy" /\ Failed /\ UNCHANGED obsOnly => OutageInv'
<1>. SUFFICES ASSUME OutageInv, loop = "busy", Failed, UNCHANGED obsOnly PROVE OutageInv'
  OBVIOUS
<1>1. UNCHANGED <<backoff, resume, refusals, quiet>>
  BY DEF obsOnly
<1>2. resume' \in Nat /\ resume' <= BackoffLimit
  BY <1>1, GapBounds DEF OutageInv, RefusalInv
<1>3. StreakInv' /\ loop' = "sleep"
  BY <1>2, FailureKeepsStreak
<1>4. RefusalInv'
  BY <1>1, <1>3 DEF OutageInv, RefusalInv
<1>. QED BY <1>3, <1>4 DEF OutageInv

\* A run that is skipped neither fails nor succeeds.
LEMMA SkipKeepsOutageInv == OutageInv /\ Skip => OutageInv'
<1>. SUFFICES ASSUME OutageInv, Skip PROVE OutageInv'
  OBVIOUS
<1>1. /\ loop = "body" /\ resume > 0 /\ loop' = "sleep" /\ left' = Interval
      /\ UNCHANGED <<failures, lasted, alarmed, stop, outage>>
      /\ UNCHANGED <<backoff, resume, refusals, quiet>>
  BY DEF Skip, Skipped, Sleep, obsOnly
<1>2. left = 0 /\ resume \in Nat
  BY <1>1 DEF OutageInv, RefusalInv
<1>3. Remaining' <= Remaining /\ Remaining \in Nat /\ Remaining' \in Nat
  BY <1>1, <1>2, GapBounds DEF Remaining
<1>4. StreakInv'
  BY <1>1, <1>3, GapBounds DEF OutageInv, StreakInv
<1>5. RefusalInv'
  BY <1>1, GapBounds DEF OutageInv, RefusalInv
<1>. QED BY <1>4, <1>5 DEF OutageInv

\* A request goes out only when what was owed has passed.
LEMMA RequestKeepsOutageInv == OutageInv /\ Request => OutageInv'
<1>. SUFFICES ASSUME OutageInv, Request PROVE OutageInv'
  OBVIOUS
<1>1. /\ loop = "body" /\ resume = 0 /\ loop' = "busy"
      /\ UNCHANGED <<left, failures, lasted, alarmed, stop, outage>>
      /\ UNCHANGED <<backoff, resume, refusals, quiet>>
  BY DEF Request, obsOnly
<1>2. left = 0
  BY <1>1 DEF OutageInv, RefusalInv
<1>3. Remaining' = Remaining
  BY <1>1, <1>2, GapBounds DEF Remaining
<1>4. StreakInv'
  BY <1>1, <1>3 DEF OutageInv, StreakInv
<1>5. RefusalInv'
  BY <1>1, <1>2, GapBounds DEF OutageInv, RefusalInv
<1>. QED BY <1>4, <1>5 DEF OutageInv

\* A loop that starts over has no outage.
LEMMA FreshKeepsOutageInv ==
    ASSUME loop' \in {"body", "sleep"}, left' = (IF loop' = "body" THEN 0 ELSE Interval),
           failures' = 0, lasted' = 0, alarmed' = FALSE, outage' = 0,
           backoff' = 0, resume' = 0, refusals' = 0, quiet' \in Nat
    PROVE  OutageInv'
<1>1. Owed(0) = 0
  BY DEF Owed
<1>2. left' \in Nat /\ 0 \in Nat /\ FALSE \in BOOLEAN
  BY GapBounds
<1>3. StreakInv'
  BY <1>2 DEF StreakInv
<1>4. quiet' + resume' >= backoff' /\ refusals' <= BackoffLimit
  <2>1. \A q \in Nat : q + 0 >= 0
    OBVIOUS
  <2>2. quiet' + 0 >= 0
    BY <2>1
  <2>3. 0 <= BackoffLimit
    BY ObsAssumption
  <2>. QED BY <2>2, <2>3
<1>5. {resume', refusals', quiet', backoff'} \subseteq Nat
  BY <1>2
<1>6. RefusalInv'
  BY <1>1, <1>4, <1>5 DEF RefusalInv
<1>. QED BY <1>3, <1>6 DEF OutageInv

\* Time passes for every outage alike.
LEMMA TickKeepsOutageInv == OutageInv /\ ObsTick => OutageInv'
<1>. SUFFICES ASSUME OutageInv, ObsTick PROVE OutageInv'
  OBVIOUS
<1>1. /\ \/ loop = "sleep" /\ left > 0 /\ left' = left - 1
         \/ loop = "busy" /\ left < MaxBody /\ left' = left + 1
      /\ lasted' = IF failures = 0 THEN 0 ELSE Older(lasted)
      /\ outage' = IF outage = 0 THEN 0 ELSE Older(outage)
      /\ UNCHANGED <<loop, failures, alarmed>>
      /\ quiet' = Older(quiet) /\ UNCHANGED <<backoff, refusals>>
      /\ resume' = Max({resume, 1}) - 1
  BY DEF ObsTick, RunnerTick
<1>2. {left, failures, lasted, outage, resume, refusals, quiet, backoff} \subseteq Nat
  BY DEF OutageInv, StreakInv, RefusalInv
<1>3. resume' = IF resume >= 1 THEN resume - 1 ELSE 0
  BY <1>1, <1>2, MaxOfTwo
<1>4. /\ quiet' = IF quiet + 1 <= Horizon THEN quiet + 1 ELSE Horizon
      /\ Older(lasted) = IF lasted + 1 <= Horizon THEN lasted + 1 ELSE Horizon
      /\ Older(outage) = IF outage + 1 <= Horizon THEN outage + 1 ELSE Horizon
  BY <1>1, <1>2, OlderIsLater
<1>5. backoff <= BackoffLimit
  BY OwedDoubles DEF OutageInv, RefusalInv
<1>6. RefusalInv'
  <2>1. quiet' + resume' >= backoff' /\ quiet' \in Nat /\ resume' \in Nat
    BY <1>1, <1>2, <1>3, <1>4, <1>5, GapBounds DEF OutageInv, RefusalInv
  <2>2. loop = "busy" => resume' = 0 /\ left' <= MaxBody
    BY <1>1, <1>2, <1>3, GapBounds DEF OutageInv, RefusalInv
  <2>3. left' \in Nat /\ loop # "body"
    BY <1>1, <1>2
  <2>. QED BY <1>1, <1>2, <2>1, <2>2, <2>3 DEF OutageInv, RefusalInv
<1>7. failures # 0 => Remaining' + 1 <= Remaining /\ Remaining' \in Nat
  <2>1. CASE loop = "sleep"
    BY <1>1, <1>2, <1>3, <2>1, GapBounds DEF Remaining
  <2>2. CASE loop = "busy"
    BY <1>1, <1>2, <1>3, <2>2, GapBounds DEF Remaining
  <2>. QED BY <1>1, <2>1, <2>2
<1>8. StreakInv'
  <2>1. CASE failures = 0
    BY <1>1, <1>2, <2>1 DEF OutageInv, StreakInv
  <2>2. CASE failures # 0
    <3>1. /\ lasted' = IF lasted + 1 <= Horizon THEN lasted + 1 ELSE Horizon
          /\ outage = IF lasted + 1 <= Horizon THEN lasted + 1 ELSE Horizon
      BY <1>1, <1>4, <2>2 DEF OutageInv, StreakInv
    <3>2. outage' = IF lasted' + 1 <= Horizon THEN lasted' + 1 ELSE Horizon
      BY <1>1, <1>2, <1>4, <3>1, GapBounds
    <3>3. alarmed => lasted' >= Threshold
      BY <1>2, <3>1, GapBounds DEF OutageInv, StreakInv
    <3>4. ~alarmed => lasted' + Remaining' < Threshold + MaxGap
      <4>1. ~alarmed => lasted + Remaining < Threshold + MaxGap
        BY <2>2 DEF OutageInv, StreakInv
      <4>2. lasted' <= lasted + 1 /\ lasted' \in Nat
        BY <1>2, <3>1, GapBounds
      <4>3. Remaining' \in Nat /\ Remaining' + 1 <= Remaining
        BY <1>7, <2>2
      <4>4. Remaining \in Int
        BY <1>1, <1>2, GapBounds DEF Remaining
      <4>5. lasted + Remaining < Threshold + MaxGap => lasted' + Remaining' < Threshold + MaxGap
        <5>1. lasted \in Nat /\ Threshold + MaxGap \in Nat
          BY <1>2, GapBounds
        <5>2. \A a, b, c, d \in Int : a <= b + 1 /\ c + 1 <= d => a + c <= b + d
          OBVIOUS
        <5>3. lasted' + Remaining' <= lasted + Remaining
          <6>1. lasted' \in Int /\ lasted \in Int /\ Remaining' \in Int /\ Remaining \in Int
            BY <4>2, <4>3, <4>4, <5>1
          <6>. QED BY <4>2, <4>3, <6>1, <5>2
        <5>4. \A a, b, c \in Int : a <= b /\ b < c => a < c
          OBVIOUS
        <5>5. lasted' + Remaining' \in Int /\ lasted + Remaining \in Int /\ Threshold + MaxGap \in Int
          BY <4>2, <4>3, <4>4, <5>1
        <5>. QED BY <5>3, <5>4, <5>5
      <4>. QED BY <4>1, <4>5
    <3>5. {left', failures', lasted', outage'} \subseteq Nat /\ alarmed' \in BOOLEAN
      BY <1>1, <1>2, <3>1, <3>2, GapBounds DEF OutageInv, StreakInv
    <3>. QED BY <1>1, <2>2, <3>2, <3>3, <3>4, <3>5 DEF OutageInv, StreakInv
  <2>. QED BY <2>1, <2>2
<1>. QED BY <1>6, <1>8 DEF OutageInv

\* The loop that wakes, or is stopped, changes no outage.
LEMMA WakeKeepsOutageInv == OutageInv /\ (Wake \/ Stop) /\ UNCHANGED obsOnly => OutageInv'
<1>. SUFFICES ASSUME OutageInv, Wake \/ Stop, UNCHANGED obsOnly PROVE OutageInv'
  OBVIOUS
<1>1. UNCHANGED <<backoff, resume, refusals, quiet>>
  BY DEF obsOnly
<1>2. {left, resume} \subseteq Nat
  BY DEF OutageInv, StreakInv, RefusalInv
<1>3. CASE Wake
  <2>1. /\ loop = "sleep" /\ (left = 0 \/ stop) /\ left' = 0
        /\ loop' = IF stop THEN "done" ELSE "body"
        /\ UNCHANGED <<failures, lasted, alarmed, outage>>
    BY <1>3 DEF Wake
  <2>2. Remaining' <= Remaining /\ Remaining \in Nat /\ Remaining' \in Nat
    BY <1>1, <1>2, <2>1, GapBounds DEF Remaining
  <2>3. StreakInv'
    BY <2>1, <2>2, GapBounds DEF OutageInv, StreakInv
  <2>4. RefusalInv'
    BY <1>1, <2>1 DEF OutageInv, RefusalInv
  <2>. QED BY <2>3, <2>4 DEF OutageInv
<1>4. CASE Stop
  BY <1>1, <1>4 DEF Stop, OutageInv, StreakInv, RefusalInv, Remaining
<1>. QED BY <1>3, <1>4

\* An outage is alarmed when it has lasted, and not before, and a service that
\* refuses is left alone for as long as the refusal is worth, for any sleeps,
\* thresholds and back-offs that a deployment configures, and any order of
\* refusals, failures, skips, restarts and ticks (run_loop, _poll_obs_arrivals).
THEOREM OutagesHandled == ObsSpec => OutagesAreHandled
<1>1. ObsInit => OutageInv
  <2>. SUFFICES ASSUME ObsInit PROVE OutageInv
    OBVIOUS
  <2>1. Owed(0) = 0
    BY DEF Owed
  <2>2. StreakInv
    <3>1. 0 \in Nat /\ FALSE \in BOOLEAN
      OBVIOUS
    <3>. QED BY <3>1 DEF ObsInit, RunnerInit, StreakInv
  <2>3. RefusalInv
    BY <2>1, GapBounds DEF ObsInit, RunnerInit, RefusalInv
  <2>. QED BY <2>2, <2>3 DEF OutageInv
<1>2. OutageInv /\ [ObsNext]_obsVars => OutageInv'
  <2>. SUFFICES ASSUME OutageInv, [ObsNext]_obsVars PROVE OutageInv'
    OBVIOUS
  <2>1. ASSUME NEW o \in Observations, Publish(o) PROVE OutageInv'
    BY <2>1 DEF Publish, runnerVars, obsOnly, OutageInv, StreakInv, RefusalInv, Remaining
  <2>2. ASSUME NEW answer \in SUBSET feed, LoseCommit(answer) PROVE OutageInv'
    BY <2>2, BreakKeepsOutageInv DEF LoseCommit
  <2>3. ASSUME NEW answer \in SUBSET feed, Record(answer) PROVE OutageInv'
    <3>1. /\ loop' = "sleep" /\ left' = Interval /\ failures' = 0 /\ lasted' = 0
          /\ alarmed' = FALSE /\ outage' = 0 /\ backoff' = 0 /\ resume' = 0 /\ refusals' = 0
      BY <2>3 DEF Record, Succeeded, Sleep
    <3>2. quiet' \in Nat
      BY <2>3 DEF Record, OutageInv, RefusalInv
    <3>. QED BY <3>1, <3>2, FreshKeepsOutageInv
  <2>4. CASE Restart
    <3>1. /\ loop' = "body" /\ left' = 0 /\ failures' = 0 /\ lasted' = 0
          /\ alarmed' = FALSE /\ outage' = 0 /\ backoff' = 0 /\ resume' = 0 /\ refusals' = 0
          /\ quiet' = Horizon
      BY <2>4 DEF Restart
    <3>2. quiet' \in Nat
      BY <3>1, GapBounds
    <3>. QED BY <3>1, <3>2, FreshKeepsOutageInv
  <2>5. CASE Skip
    BY <2>5, SkipKeepsOutageInv
  <2>6. CASE Request
    BY <2>6, RequestKeepsOutageInv
  <2>7. CASE Refuse
    BY <2>7, RefuseKeepsOutageInv
  <2>8. CASE Break
    BY <2>8, BreakKeepsOutageInv DEF Break
  <2>9. CASE ObsTick
    BY <2>9, TickKeepsOutageInv
  <2>10. CASE (Wake \/ Stop) /\ UNCHANGED <<feed, obsOnly>>
    BY <2>10, WakeKeepsOutageInv
  <2>11. CASE UNCHANGED obsVars
    BY <2>11 DEF obsVars, runnerVars, OutageInv, StreakInv, RefusalInv, Remaining
  <2>. QED BY <2>1, <2>2, <2>3, <2>4, <2>5, <2>6, <2>7, <2>8, <2>9, <2>10, <2>11 DEF ObsNext
<1>3. OutageInv => AlarmsAreRight
  <2>. SUFFICES ASSUME OutageInv PROVE AlarmsAreRight
    OBVIOUS
  <2>1. failures # 0 => Remaining \in Nat
    BY GapBounds DEF OutageInv, StreakInv, RefusalInv, Remaining
  <2>. QED BY <2>1, GapBounds DEF OutageInv, StreakInv, AlarmsAreRight
<1>4. OutageInv /\ [ObsNext]_obsVars
        => [loop = "body" /\ loop' = "busy" => quiet >= Owed(refusals)]_obsVars
  <2>. SUFFICES ASSUME OutageInv, ObsNext, loop = "body", loop' = "busy"
                PROVE  quiet >= Owed(refusals)
    OBVIOUS
  <2>1. resume = 0
    BY DEF ObsNext, Publish, Skip, Skipped, Sleep, Request, Refuse, Break, LoseCommit, Record,
           Restart, ObsTick, RunnerTick, Wake, Stop, runnerVars
  <2>. QED BY <2>1 DEF OutageInv, RefusalInv
<1>. QED BY <1>1, <1>2, <1>3, <1>4, PTL DEF ObsSpec, OutagesAreHandled, RefusedStaysAway

(***************************************************************************)
(* Caps.  The exposure of a market, an event, a series and in all are sums *)
(* over the open trades in some set of markets.  An evaluation adds what   *)
(* it fills to its own copy of the exposure, so the copy is never less     *)
(* than what the trades would amount to.                                   *)
(***************************************************************************)
Rows == [market : Markets, cost : Nat]

\* What trade i of T adds to the exposure of some markets.
Weight(T, among, i) ==
    IF /\ i \in DOMAIN T
       /\ pnl[i] = 0 /\ DateOf[EventOf[T[i].market]] + ExposureDays >= day
       /\ T[i].market \in among
    THEN T[i].cost ELSE 0

Amount(T, among) == SumFunction([i \in 1..MaxTrades |-> Weight(T, among, i)])

TradesInv ==
    /\ trades \in Seq(Rows) /\ Len(trades) <= MaxTrades
    /\ pnl \in [1..MaxTrades -> Nat] /\ day \in Nat

\* The exposure that an evaluation keeps.
Exposures == [market : [Markets -> Nat], event : [Events -> Nat],
              series : [Series -> Nat], aggregate : Nat]

Capped(x) ==
    /\ \A m \in Markets : x.market[m] <= MarketCap
    /\ \A e \in Events  : x.event[e] <= EventCap
    /\ \A s \in Series  : x.series[s] <= SeriesCap
    /\ x.aggregate <= AggregateCap

Covers(x, T) ==
    /\ \A m \in Markets : Amount(T, {m}) <= x.market[m]
    /\ \A e \in Events  : Amount(T, MarketsOf(e)) <= x.event[e]
    /\ \A s \in Series  : Amount(T, MarketsIn(s)) <= x.series[s]
    /\ Amount(T, Markets) <= x.aggregate

\* The weight of a row is what it cost, or nothing.
LEMMA WeightType ==
    ASSUME TradesInv, NEW T \in Seq(Rows), NEW among, NEW i
    PROVE  Weight(T, among, i) \in Nat
<1>1. i \in DOMAIN T => T[i] \in Rows
  BY LenProperties, ElementOfSeq
<1>2. i \in DOMAIN T => T[i].cost \in Nat
  BY <1>1 DEF Rows
<1>. QED BY <1>2 DEF Weight

\* An amount of any rows is a number.
LEMMA AmountType ==
    ASSUME TradesInv, NEW T \in Seq(Rows), NEW among
    PROVE  Amount(T, among) \in Nat
<1>. DEFINE f == [i \in 1..MaxTrades |-> Weight(T, among, i)]
            z == [i \in 1..MaxTrades |-> 0]
<1>1. \A i \in 1..MaxTrades : f[i] \in Nat
  BY WeightType
<1>2. f \in [1..MaxTrades -> Int] /\ z \in [1..MaxTrades -> Int]
  BY <1>1
<1>3. \A i \in 1..MaxTrades : z[i] <= f[i]
  BY <1>1
<1>4. IsFiniteSet(1..MaxTrades)
  BY FS_Interval, PaperAssumption
<1>5. SumFunction(z) = 0
  BY <1>4, SumOfZeros
<1>6. Amount(T, among) = SumFunction(f)
  BY DEF Amount
<1>. HIDE DEF f, z
<1>7. SumFunction(f) \in Int /\ SumFunction(z) <= SumFunction(f)
  BY <1>2, <1>3, <1>4, SumType, SumGrows
<1>. QED BY <1>5, <1>6, <1>7

\* One more row adds its cost to the sums it is in, or nothing.
LEMMA AppendAdds ==
    ASSUME TradesInv, NEW T \in Seq(Rows), NEW row \in Rows, Len(T) < MaxTrades, NEW among
    PROVE  Amount(Append(T, row), among) <=
              Amount(T, among) + (IF row.market \in among THEN row.cost ELSE 0)
<1>. DEFINE U == Append(T, row)
            k == Len(T) + 1
            f == [i \in 1..MaxTrades |-> Weight(T, among, i)]
            g == [i \in 1..MaxTrades |-> Weight(U, among, i)]
<1>1. /\ U \in Seq(Rows) /\ Len(U) = Len(T) + 1 /\ U[k] = row
      /\ \A i \in 1..Len(T) : U[i] = T[i]
  BY AppendProperties
<1>2. Len(T) \in Nat /\ DOMAIN T = 1..Len(T) /\ DOMAIN U = 1..(Len(T) + 1)
  BY <1>1, LenProperties
<1>3. k \in 1..MaxTrades /\ k \notin DOMAIN T
  BY <1>2, PaperAssumption
<1>. HIDE DEF U
<1>4. f \in [1..MaxTrades -> Int] /\ g \in [1..MaxTrades -> Int]
  BY <1>1, WeightType
<1>5. \A i \in (1..MaxTrades) \ {k} : g[i] = f[i]
  <2>. TAKE i \in (1..MaxTrades) \ {k}
  <2>1. i \in DOMAIN U <=> i \in DOMAIN T
    BY <1>2
  <2>2. i \in DOMAIN T => U[i] = T[i]
    BY <1>1, <1>2
  <2>. QED BY <2>1, <2>2 DEF Weight
<1>6. f[k] = 0
  BY <1>3 DEF Weight
<1>7. g[k] <= IF row.market \in among THEN row.cost ELSE 0
  <2>1. row.cost \in Nat
    BY DEF Rows
  <2>2. g[k] = Weight(U, among, k)
    BY <1>3
  <2>. QED BY <1>1, <2>1, <2>2 DEF Weight
<1>8. IsFiniteSet(1..MaxTrades)
  BY FS_Interval, PaperAssumption
<1>9. Amount(T, among) = SumFunction(f) /\ Amount(U, among) = SumFunction(g)
  BY DEF Amount
<1>10. f[k] \in Int /\ g[k] \in Int
  BY <1>3, <1>4
<1>. HIDE DEF f, g, k
<1>11. SumFunction(g) = SumFunction(f) + (g[k] - f[k]) /\ SumFunction(f) \in Int
  BY <1>3, <1>4, <1>5, <1>8, SumChanges, SumType
<1>12. Amount(U, among) = Amount(T, among) + g[k] /\ Amount(T, among) \in Int
  BY <1>6, <1>9, <1>10, <1>11
<1>13. row.cost \in Nat
  BY DEF Rows
<1>. QED BY <1>7, <1>10, <1>12, <1>13 DEF U

\* The exposure is made of these sums.
LEMMA CostIsAmount == \A among : CostOf(among) = Amount(trades, among)
<1>. TAKE among
<1>1. \A i \in 1..MaxTrades : (IF i \in Open(among) THEN trades[i].cost ELSE 0)
                                 = Weight(trades, among, i)
  BY DEF Open, Weight, EventOfTrade
<1>2. [i \in 1..MaxTrades |-> IF i \in Open(among) THEN trades[i].cost ELSE 0]
        = [i \in 1..MaxTrades |-> Weight(trades, among, i)]
  BY <1>1
<1>. QED BY <1>2 DEF CostOf, Amount

\* What the gates see as exposure are such amounts.
LEMMA ExposureAmounts ==
    ASSUME TradesInv
    PROVE  /\ Exposure \in Exposures
           /\ Covers(Exposure, trades)
           /\ Capped(Exposure) <=> CapsHold
<1>1. \A among : CostOf(among) = Amount(trades, among)
  BY CostIsAmount
<1>2. \A among : Amount(trades, among) \in Nat
  BY AmountType DEF TradesInv
<1>3. Exposure \in Exposures
  BY <1>1, <1>2 DEF Exposure, Exposures
<1>4. /\ \A m \in Markets : Exposure.market[m] = Amount(trades, {m})
      /\ \A e \in Events : Exposure.event[e] = Amount(trades, MarketsOf(e))
      /\ \A s \in Series : Exposure.series[s] = Amount(trades, MarketsIn(s))
      /\ Exposure.aggregate = Amount(trades, Markets)
  BY <1>1 DEF Exposure
<1>5. Covers(Exposure, trades)
  BY <1>2, <1>4 DEF Covers
<1>6. Capped(Exposure) <=> CapsHold
  BY DEF Capped, CapsHold
<1>. QED BY <1>3, <1>5, <1>6

\* An intent, of one market.
IntentsOfOne == [market : Markets, asked : 1..MarketCap, cost : 0..MarketCap]

\* One value of a function is raised.
LEMMA RaiseOne ==
    ASSUME NEW S, NEW f \in [S -> Nat], NEW d \in S, NEW c \in Nat,
           NEW g, g = [f EXCEPT ![d] = @ + c]
    PROVE  /\ g \in [S -> Nat]
           /\ \A s \in S : g[s] = f[s] + (IF s = d THEN c ELSE 0)
<1>1. f[d] + c \in Nat
  OBVIOUS
<1>2. \A s \in S : f[s] \in Nat
  OBVIOUS
<1>. QED BY <1>1, <1>2

\* An intent that is filled keeps the copy above the trades and under the caps.
LEMMA OverlayCovers ==
    ASSUME TradesInv, NEW x \in Exposures, NEW T \in Seq(Rows), NEW i \in IntentsOfOne,
           i.cost <= i.asked, WithinCaps(x, i), Capped(x)
    PROVE  LET row == [market |-> i.market, cost |-> i.cost]
               y   == Overlaid(x, i)
           IN  /\ row \in Rows /\ Append(T, row) \in Seq(Rows)
               /\ y \in Exposures /\ Capped(y)
               /\ Len(T) < MaxTrades /\ Covers(x, T) => Covers(y, Append(T, row))
<1>. DEFINE row == [market |-> i.market, cost |-> i.cost]
            e   == EventOf[i.market]
            y   == Overlaid(x, i)
            U   == Append(T, row)
<1>1. i.market \in Markets /\ e \in Events /\ SeriesOf[e] \in Series
  BY DEF IntentsOfOne, Events, Series
<1>2. i.cost \in Nat /\ i.asked \in Nat /\ MarketCap \in Nat
  BY PaperAssumption DEF IntentsOfOne
<1>3. row \in Rows /\ row.market = i.market /\ row.cost = i.cost
  BY <1>1, <1>2 DEF Rows
<1>4. U \in Seq(Rows)
  BY <1>3, AppendProperties
<1>5. /\ x.market \in [Markets -> Nat] /\ x.event \in [Events -> Nat]
      /\ x.series \in [Series -> Nat] /\ x.aggregate \in Nat
  BY DEF Exposures
<1>8. y = [market    |-> [x.market EXCEPT ![i.market] = @ + i.cost],
           event     |-> [x.event EXCEPT ![e] = @ + i.cost],
           series    |-> [x.series EXCEPT ![SeriesOf[e]] = @ + i.cost],
           aggregate |-> x.aggregate + i.cost]
  BY DEF Overlaid
<1>9. /\ y.market \in [Markets -> Nat] /\ y.event \in [Events -> Nat]
      /\ y.series \in [Series -> Nat] /\ y.aggregate = x.aggregate + i.cost
      /\ \A m \in Markets : y.market[m] = x.market[m] + (IF m = i.market THEN i.cost ELSE 0)
      /\ \A d \in Events : y.event[d] = x.event[d] + (IF d = e THEN i.cost ELSE 0)
      /\ \A s \in Series : y.series[s] = x.series[s] + (IF s = SeriesOf[e] THEN i.cost ELSE 0)
  <2>1. /\ y.market = [x.market EXCEPT ![i.market] = @ + i.cost]
        /\ y.event = [x.event EXCEPT ![e] = @ + i.cost]
        /\ y.series = [x.series EXCEPT ![SeriesOf[e]] = @ + i.cost]
        /\ y.aggregate = x.aggregate + i.cost
    BY <1>8
  <2>. HIDE DEF e, y
  <2>2. /\ y.market \in [Markets -> Nat]
        /\ \A m \in Markets : y.market[m] = x.market[m] + (IF m = i.market THEN i.cost ELSE 0)
    <3>1. x.market \in [Markets -> Nat] /\ i.market \in Markets /\ i.cost \in Nat
      BY <1>1, <1>2, <1>5
    <3>2. y.market = [x.market EXCEPT ![i.market] = @ + i.cost]
      BY <2>1
    <3>. QED BY <3>1, <3>2, RaiseOne
  <2>3. /\ y.event \in [Events -> Nat]
        /\ \A d \in Events : y.event[d] = x.event[d] + (IF d = e THEN i.cost ELSE 0)
    <3>1. x.event \in [Events -> Nat] /\ e \in Events /\ i.cost \in Nat
      BY <1>1, <1>2, <1>5
    <3>2. y.event = [x.event EXCEPT ![e] = @ + i.cost]
      BY <2>1
    <3>. QED BY <3>1, <3>2, RaiseOne
  <2>4. /\ y.series \in [Series -> Nat]
        /\ \A s \in Series : y.series[s] = x.series[s] + (IF s = SeriesOf[e] THEN i.cost ELSE 0)
    <3>. DEFINE f == x.series
                r == SeriesOf[e]
                c == i.cost
    <3>1. f \in [Series -> Nat] /\ r \in Series /\ c \in Nat
      BY <1>1, <1>2, <1>5
    <3>2. y.series = [f EXCEPT ![r] = @ + c]
      BY <2>1
    <3>. HIDE DEF f, r, c
    <3>3. /\ y.series \in [Series -> Nat]
          /\ \A s \in Series : y.series[s] = f[s] + (IF s = r THEN c ELSE 0)
      BY <3>1, <3>2, RaiseOne
    <3>. QED BY <3>3 DEF f, r, c
  <2>. QED BY <2>1, <2>2, <2>3, <2>4
<1>11. y \in Exposures
  <2>1. y = [market |-> y.market, event |-> y.event, series |-> y.series,
             aggregate |-> y.aggregate]
    BY <1>8
  <2>2. x.aggregate + i.cost \in Nat
    BY <1>2, <1>5
  <2>. HIDE DEF e, y
  <2>. QED BY <1>9, <2>1, <2>2 DEF Exposures
<1>12. Capped(y)
  <2>1. /\ x.market[i.market] + i.asked <= MarketCap
        /\ x.event[e] + i.asked <= EventCap
        /\ x.series[SeriesOf[e]] + i.asked <= SeriesCap
        /\ x.aggregate + i.asked <= AggregateCap
    BY DEF WithinCaps
  <2>2. {EventCap, SeriesCap, AggregateCap} \subseteq Nat
    BY PaperAssumption
  <2>. HIDE DEF e, y
  <2>3. \A v, cap \in Nat : v + i.asked <= cap => v + i.cost <= cap
    BY <1>2
  <2>4. \A m \in Markets : y.market[m] <= MarketCap
    <3>. TAKE m \in Markets
    <3>1. x.market[m] \in Nat /\ x.market[m] <= MarketCap
      BY <1>5 DEF Capped
    <3>2. CASE m = i.market
      <4>1. y.market[m] = x.market[m] + i.cost /\ x.market[m] + i.asked <= MarketCap
        BY <1>9, <2>1, <3>2
      <4>. QED BY <1>2, <2>2, <2>3, <3>1, <4>1
    <3>3. CASE m # i.market
      <4>1. y.market[m] = x.market[m] + 0
        BY <1>9, <3>3
      <4>. QED BY <3>1, <4>1
    <3>. QED BY <3>2, <3>3
  <2>5. \A d \in Events : y.event[d] <= EventCap
    <3>. TAKE d \in Events
    <3>1. x.event[d] \in Nat /\ x.event[d] <= EventCap
      BY <1>5 DEF Capped
    <3>2. CASE d = e
      <4>1. y.event[d] = x.event[d] + i.cost /\ x.event[d] + i.asked <= EventCap
        BY <1>9, <2>1, <3>2
      <4>. QED BY <1>2, <2>2, <2>3, <3>1, <4>1
    <3>3. CASE d # e
      <4>1. y.event[d] = x.event[d] + 0
        BY <1>9, <3>3
      <4>. QED BY <3>1, <4>1
    <3>. QED BY <3>2, <3>3
  <2>6. \A s \in Series : y.series[s] <= SeriesCap
    <3>. TAKE s \in Series
    <3>1. x.series[s] \in Nat /\ x.series[s] <= SeriesCap
      BY <1>5 DEF Capped
    <3>2. CASE s = SeriesOf[e]
      <4>1. y.series[s] = x.series[s] + i.cost /\ x.series[s] + i.asked <= SeriesCap
        BY <1>9, <2>1, <3>2
      <4>. QED BY <1>2, <2>2, <2>3, <3>1, <4>1
    <3>3. CASE s # SeriesOf[e]
      <4>1. y.series[s] = x.series[s] + 0
        BY <1>9, <3>3
      <4>. QED BY <3>1, <4>1
    <3>. QED BY <3>2, <3>3
  <2>7. y.aggregate <= AggregateCap
    BY <1>2, <1>5, <1>9, <2>1, <2>2, <2>3
  <2>. QED BY <2>4, <2>5, <2>6, <2>7 DEF Capped
<1>10. ASSUME Len(T) < MaxTrades, Covers(x, T) PROVE Covers(y, U)
  <2>1. \A among : /\ Amount(T, among) \in Nat /\ Amount(U, among) \in Nat
                   /\ Amount(U, among) <=
                        Amount(T, among) + (IF i.market \in among THEN i.cost ELSE 0)
    BY <1>3, <1>4, <1>10, AmountType, AppendAdds
  <2>2. \A m \in Markets : i.market \in {m} <=> m = i.market
    OBVIOUS
  <2>3. \A d \in Events : i.market \in MarketsOf(d) <=> d = e
    BY <1>1 DEF MarketsOf
  <2>4. \A s \in Series : i.market \in MarketsIn(s) <=> s = SeriesOf[e]
    BY <1>1 DEF MarketsIn
  <2>. HIDE DEF e, y, U, row
  <2>5. \A m \in Markets : Amount(U, {m}) <= y.market[m]
    <3>. TAKE m \in Markets
    <3>1. Amount(T, {m}) <= x.market[m] /\ x.market[m] \in Nat
      BY <1>5, <1>10 DEF Covers
    <3>2. y.market[m] = x.market[m] + (IF m = i.market THEN i.cost ELSE 0)
      BY <1>9
    <3>3. /\ Amount(T, {m}) \in Int /\ Amount(U, {m}) \in Int /\ i.cost \in Int
          /\ Amount(U, {m}) <= Amount(T, {m}) + (IF m = i.market THEN i.cost ELSE 0)
      BY <1>2, <2>1, <2>2
    <3>. QED BY <3>1, <3>2, <3>3
  <2>6. \A d \in Events : Amount(U, MarketsOf(d)) <= y.event[d]
    <3>. TAKE d \in Events
    <3>1. Amount(T, MarketsOf(d)) <= x.event[d] /\ x.event[d] \in Nat
      BY <1>5, <1>10 DEF Covers
    <3>2. y.event[d] = x.event[d] + (IF d = e THEN i.cost ELSE 0)
      BY <1>9
    <3>. QED BY <1>2, <2>1, <2>3, <3>1, <3>2
  <2>7. \A s \in Series : Amount(U, MarketsIn(s)) <= y.series[s]
    <3>. TAKE s \in Series
    <3>1. Amount(T, MarketsIn(s)) <= x.series[s] /\ x.series[s] \in Nat
      BY <1>5, <1>10 DEF Covers
    <3>2. y.series[s] = x.series[s] + (IF s = SeriesOf[e] THEN i.cost ELSE 0)
      BY <1>9
    <3>. QED BY <1>2, <2>1, <2>4, <3>1, <3>2
  <2>8. Amount(U, Markets) <= y.aggregate
    <3>1. Amount(T, Markets) <= x.aggregate
      BY <1>10 DEF Covers
    <3>. QED BY <1>1, <1>2, <1>5, <1>9, <2>1, <3>1
  <2>. QED BY <2>5, <2>6, <2>7, <2>8 DEF Covers
<1>. QED BY <1>3, <1>4, <1>10, <1>11, <1>12

\* What the intents so far have come to.
Sound(a) ==
    /\ a \in [exposure : Exposures, rows : Seq(Rows)]
    /\ Capped(a.exposure)
    /\ Len(trades) + Len(a.rows) <= MaxTrades => Covers(a.exposure, trades \o a.rows)

\* Considering an intent, booked or refused, leaves a plan under the caps.
LEMMA ConsiderSound ==
    ASSUME TradesInv, NEW a, Sound(a), NEW i \in IntentsOfOne, i.cost <= i.asked
    PROVE  Sound(Consider(a, i))
<1>. DEFINE row == [market |-> i.market, cost |-> i.cost]
            y   == Overlaid(a.exposure, i)
            r   == Append(a.rows, row)
<1>1. a.exposure \in Exposures /\ a.rows \in Seq(Rows) /\ Capped(a.exposure)
  BY DEF Sound
<1>2. CASE ~(i.cost > 0 /\ WithinCaps(a.exposure, i))
  BY <1>2 DEF Consider
<1>3. CASE i.cost > 0 /\ WithinCaps(a.exposure, i)
  <2>1. Consider(a, i) = [exposure |-> y, rows |-> r]
    BY <1>3 DEF Consider
  <2>2. trades \in Seq(Rows) /\ trades \o a.rows \in Seq(Rows)
        /\ Len(trades \o a.rows) = Len(trades) + Len(a.rows)
    BY <1>1, ConcatProperties DEF TradesInv
  <2>3. /\ row \in Rows /\ y \in Exposures /\ Capped(y)
        /\ Len(trades \o a.rows) < MaxTrades /\ Covers(a.exposure, trades \o a.rows)
             => Covers(y, Append(trades \o a.rows, row))
    BY <1>1, <1>3, <2>2, OverlayCovers
  <2>4. r \in Seq(Rows) /\ Len(r) = Len(a.rows) + 1
    BY <1>1, <2>3, AppendProperties
  <2>5. Append(trades \o a.rows, row) = trades \o r
    <3>1. trades \in Seq(Rows) /\ <<row>> \in Seq(Rows)
      BY <2>3 DEF TradesInv
    <3>2. Append(trades \o a.rows, row) = (trades \o a.rows) \o <<row>> /\ r = a.rows \o <<row>>
      BY <1>1, <2>2, <2>3, AppendIsConcat
    <3>. HIDE DEF row, r
    <3>3. (trades \o a.rows) \o <<row>> = trades \o (a.rows \o <<row>>)
      <4>1. \A u, v, w \in Seq(Rows) : (u \o v) \o w = u \o (v \o w)
        BY ConcatAssociative
      <4>. DEFINE last == <<row>>
      <4>2. last \in Seq(Rows)
        BY <3>1
      <4>. HIDE DEF last
      <4>3. (trades \o a.rows) \o last = trades \o (a.rows \o last)
        BY <1>1, <3>1, <4>1, <4>2
      <4>. QED BY <4>3 DEF last
    <3>. QED BY <3>2, <3>3 DEF r
  <2>6. Len(trades) \in Nat /\ Len(a.rows) \in Nat
    BY <1>1, <2>2, LenProperties
  <2>. HIDE DEF row, y, r
  <2>7. Len(trades) + Len(r) <= MaxTrades => Covers(y, trades \o r)
    <3>. SUFFICES ASSUME Len(trades) + Len(r) <= MaxTrades PROVE Covers(y, trades \o r)
      OBVIOUS
    <3>1. Len(trades) + Len(a.rows) < MaxTrades /\ Len(trades) + Len(a.rows) <= MaxTrades
      <4>. DEFINE l == Len(trades)
                  n == Len(a.rows)
      <4>1. l \in Int /\ n \in Int /\ l + (n + 1) <= MaxTrades /\ MaxTrades \in Int
        BY <2>4, <2>6, PaperAssumption
      <4>. HIDE DEF l, n
      <4>2. l + n < MaxTrades /\ l + n <= MaxTrades
        BY <4>1
      <4>. QED BY <4>2 DEF l, n
    <3>. QED BY <2>2, <2>3, <2>5, <3>1 DEF Sound
  <2>. QED BY <2>1, <2>3, <2>4, <2>7 DEF Sound
<1>. QED BY <1>2, <1>3

\* The evaluation as a whole, for any number of intents.
LEMMA ConsideredSound ==
    ASSUME TradesInv, CapsHold, NEW intents \in Intents
    PROVE  Sound(Considered(intents))
<1>1. PICK n \in 1..MaxIntents : intents \in [1..n -> IntentsOfOne]
  BY DEF Intents, IntentsOfOne
<1>2. n \in Nat /\ Len(intents) = n /\ \A k \in 1..n : intents[k] \in IntentsOfOne
  BY <1>1, PaperAssumption
<1>3. \A k \in 1..n : intents[k].cost <= intents[k].asked
  BY <1>1 DEF Intents
<1>. DEFINE X      == {a \in [exposure : Exposures, rows : Seq(Rows)] : Sound(a)}
            first  == [exposure |-> Exposure, rows |-> <<>>]
            step   == [k \in 1..n |-> [a \in X |-> Consider(a, intents[k])]]
            Runs(h) == h = [k \in 0..Len(intents) |->
                              IF k = 0 THEN first ELSE Consider(h[k - 1], intents[k])]
<1>4. first \in X
  <2>1. Exposure \in Exposures /\ Covers(Exposure, trades) /\ Capped(Exposure)
    BY ExposureAmounts
  <2>2. <<>> \in Seq(Rows)
    BY EmptySeq
  <2>3. trades \o <<>> = trades
    BY ConcatEmptySeq DEF TradesInv
  <2>. QED BY <2>1, <2>2, <2>3 DEF Sound
<1>5. step \in [1..n -> [X -> X]]
  <2>1. ASSUME NEW k \in 1..n, NEW a \in X PROVE Consider(a, intents[k]) \in X
    <3>1. Sound(Consider(a, intents[k]))
      BY <1>2, <1>3, ConsiderSound
    <3>. QED BY <3>1 DEF Sound
  <2>. HIDE DEF X
  <2>. QED BY <2>1
<1>6. \E h : Runs(h)
  <2>. HIDE DEF X, first, step
  <2>1. PICK g \in [0..n -> X] : Unrolls(g, first, step, n)
    BY <1>2, <1>4, <1>5, UnrollsExists
  <2>2. ASSUME NEW k \in 0..n, k # 0 PROVE g[k] = Consider(g[k - 1], intents[k])
    <3>1. k \in 1..n /\ k - 1 \in 0..n
      BY <1>2, <2>2
    <3>2. g[k] = step[k][g[k - 1]] /\ g[k - 1] \in X
      BY <2>1, <3>1 DEF Unrolls
    <3>. QED BY <3>1, <3>2 DEF step
  <2>3. Runs(g)
    BY <1>2, <2>1, <2>2 DEF Unrolls
  <2>. QED BY <2>3
<1>7. ASSUME NEW h, Runs(h) PROVE \A k \in 0..n : h[k] \in X
  <2>. DEFINE Bad == {k \in 0..n : h[k] \notin X}
  <2>1. Bad \in SUBSET Nat
    OBVIOUS
  <2>. HIDE DEF Bad
  <2>2. Bad = {}
    <3>. SUFFICES ASSUME Bad # {} PROVE FALSE
      OBVIOUS
    <3>1. PICK k \in Bad : \A j \in Bad : k <= j
      BY <2>1, LeastNatural
    <3>2. k \in 0..n /\ h[k] \notin X
      BY <3>1 DEF Bad
    <3>. HIDE DEF X, first
    <3>3. k # 0
      BY <1>2, <1>4, <1>7, <3>2
    <3>4. k \in 1..n /\ k - 1 \in 0..n /\ ~(k <= k - 1)
      BY <1>2, <3>2, <3>3
    <3>5. h[k - 1] \in X
      BY <3>1, <3>4 DEF Bad
    <3>6. h[k] = Consider(h[k - 1], intents[k])
      BY <1>2, <1>7, <3>2, <3>3
    <3>7. step[k][h[k - 1]] \in X
      BY <1>5, <3>4, <3>5
    <3>8. step[k][h[k - 1]] = Consider(h[k - 1], intents[k])
      BY <3>4, <3>5
    <3>. QED BY <3>2, <3>6, <3>7, <3>8
  <2>. QED BY <2>2 DEF Bad
<1>. DEFINE after == CHOOSE h : Runs(h)
<1>8. Considered(intents) = after[Len(intents)]
  BY DEF Considered
<1>9. Runs(after)
  <2>. HIDE DEF Runs
  <2>. QED BY <1>6
<1>. HIDE DEF Runs, X, after
<1>10. after[n] \in X
  BY <1>2, <1>7, <1>9
<1>. QED BY <1>2, <1>8, <1>10 DEF X

\* The caps, in terms of the sums.
CapsOf(T) ==
    /\ \A m \in Markets : Amount(T, {m}) <= MarketCap
    /\ \A e \in Events  : Amount(T, MarketsOf(e)) <= EventCap
    /\ \A s \in Series  : Amount(T, MarketsIn(s)) <= SeriesCap
    /\ Amount(T, Markets) <= AggregateCap

\* The caps in terms of amounts.
LEMMA CapsAreAmounts == CapsHold <=> CapsOf(trades)
<1>1. \A among : CostOf(among) = Amount(trades, among)
  BY CostIsAmount
<1>2. /\ \A m \in Markets : Exposure.market[m] = Amount(trades, {m})
      /\ \A e \in Events : Exposure.event[e] = Amount(trades, MarketsOf(e))
      /\ \A s \in Series : Exposure.series[s] = Amount(trades, MarketsIn(s))
      /\ Exposure.aggregate = Amount(trades, Markets)
  BY <1>1 DEF Exposure
<1>. QED BY <1>2 DEF CapsHold, CapsOf

\* Every amount of the table is a number.
LEMMA AmountsType == TradesInv => \A among : Amount(trades, among) \in Nat
  BY AmountType DEF TradesInv

\* As open as before or less: the sums over fewer or older trades.
LEMMA FewerOpen ==
    ASSUME TradesInv, TradesInv', CapsHold, trades' = trades,
           \A i \in 1..MaxTrades : pnl'[i] = 0 => pnl[i] = 0, day <= day'
    PROVE  CapsHold'
<1>1. ASSUME NEW among PROVE Amount(trades, among)' <= Amount(trades, among)
  <2>. DEFINE f == [i \in 1..MaxTrades |-> Weight(trades, among, i)]
              g == [i \in 1..MaxTrades |-> Weight(trades, among, i)']
  <2>1. \A i \in 1..MaxTrades : Weight(trades, among, i)' \in Nat
    <3>. TAKE i \in 1..MaxTrades
    <3>1. i \in DOMAIN trades => trades[i] \in Rows
      BY LenProperties, ElementOfSeq DEF TradesInv
    <3>2. i \in DOMAIN trades => trades[i].cost \in Nat
      BY <3>1 DEF Rows
    <3>. QED BY <3>2 DEF Weight
  <2>2. f \in [1..MaxTrades -> Int] /\ g \in [1..MaxTrades -> Int]
    BY <2>1, WeightType DEF TradesInv
  <2>3. \A i \in 1..MaxTrades : g[i] <= f[i]
    <3>. TAKE i \in 1..MaxTrades
    <3>1. CASE i \notin DOMAIN trades
      BY <3>1 DEF Weight
    <3>2. CASE i \in DOMAIN trades
      <4>0. trades[i] \in Rows
        BY <3>2, LenProperties, ElementOfSeq DEF TradesInv
      <4>1. trades[i].market \in Markets /\ trades[i].cost \in Nat
        BY <4>0 DEF Rows
      <4>2. EventOf[trades[i].market] \in Events
        BY <4>1 DEF Events
      <4>3. DateOf[EventOf[trades[i].market]] \in Nat /\ ExposureDays \in Nat
        BY <4>2, PaperAssumption
      <4>4. DateOf[EventOf[trades[i].market]] + ExposureDays >= day'
              => DateOf[EventOf[trades[i].market]] + ExposureDays >= day
        BY <4>3 DEF TradesInv
      <4>. QED BY <4>1, <4>4 DEF Weight
    <3>. QED BY <3>1, <3>2
  <2>4. Amount(trades, among)' = SumFunction(g) /\ Amount(trades, among) = SumFunction(f)
    BY DEF Amount
  <2>5. IsFiniteSet(1..MaxTrades)
    BY FS_Interval, PaperAssumption
  <2>. HIDE DEF f, g
  <2>. QED BY <2>2, <2>3, <2>4, <2>5, SumGrows
<1>2. \A among : Amount(trades, among)' \in Nat /\ Amount(trades, among) \in Nat
  <2>1. TradesInv' => (\A among : Amount(trades, among) \in Nat)'
    BY AmountsType, PTL
  <2>. QED BY <2>1, AmountsType
<1>3. CapsOf(trades)
  BY CapsAreAmounts
<1>4. CapsOf(trades)'
  <2>1. {EventCap, SeriesCap, AggregateCap, MarketCap} \subseteq Nat
    BY PaperAssumption
  <2>2. \A among : \A cap \in Nat : Amount(trades, among) <= cap => Amount(trades, among)' <= cap
    BY <1>1, <1>2
  <2>. QED BY <1>3, <2>1, <2>2 DEF CapsOf
<1>5. CapsHold' <=> CapsOf(trades)'
  BY CapsAreAmounts, PTL
<1>. QED BY <1>4, <1>5

\* A whole evaluation books no more than the caps allow.
LEMMA EvaluateKeepsCaps ==
    ASSUME TradesInv, CapsHold, NEW intents \in Intents, Evaluate(intents)
    PROVE  TradesInv' /\ CapsHold'
<1>. DEFINE a == Considered(intents)
<1>1. a.exposure \in Exposures /\ a.rows \in Seq(Rows) /\ Capped(a.exposure)
      /\ Len(trades) + Len(a.rows) <= MaxTrades /\ Covers(a.exposure, trades \o a.rows)
  BY ConsideredSound DEF Sound, Evaluate
<1>2. trades' = trades \o a.rows /\ UNCHANGED <<pnl, day>>
  BY DEF Evaluate
<1>. HIDE DEF a
<1>3. trades' \in Seq(Rows) /\ Len(trades') = Len(trades) + Len(a.rows)
  BY <1>1, <1>2, ConcatProperties DEF TradesInv
<1>4. TradesInv'
  BY <1>1, <1>2, <1>3 DEF TradesInv
<1>6. \A among : Amount(trades \o a.rows, among) \in Nat
  BY <1>2, <1>3, AmountType
<1>7. CapsOf(trades)'
  <2>1. \A u, v, cap \in Nat : u <= v /\ v <= cap => u <= cap
    OBVIOUS
  <2>2. {EventCap, SeriesCap, AggregateCap, MarketCap} \subseteq Nat
    BY PaperAssumption
  <2>3. /\ \A m \in Markets : a.exposure.market[m] \in Nat
        /\ \A e \in Events : a.exposure.event[e] \in Nat
        /\ \A s \in Series : a.exposure.series[s] \in Nat
        /\ a.exposure.aggregate \in Nat
    BY <1>1 DEF Exposures
  <2>4. /\ \A m \in Markets : Amount(trades \o a.rows, {m}) <= MarketCap
        /\ \A e \in Events  : Amount(trades \o a.rows, MarketsOf(e)) <= EventCap
        /\ \A s \in Series  : Amount(trades \o a.rows, MarketsIn(s)) <= SeriesCap
        /\ Amount(trades \o a.rows, Markets) <= AggregateCap
    BY <1>1, <1>6, <2>1, <2>2, <2>3 DEF Capped, Covers
  <2>5. \A among : Amount(trades, among)' = Amount(trades \o a.rows, among)
    BY <1>2 DEF Amount, Weight
  <2>6. \A m \in Markets : Amount(trades, {m})' <= MarketCap
    BY <2>4, <2>5
  <2>7. \A e \in Events : Amount(trades, MarketsOf(e))' <= EventCap
    BY <2>4, <2>5
  <2>8. \A s \in Series : Amount(trades, MarketsIn(s))' <= SeriesCap
    BY <2>4, <2>5
  <2>9. Amount(trades, Markets)' <= AggregateCap
    BY <2>4, <2>5
  <2>. QED BY <2>6, <2>7, <2>8, <2>9 DEF CapsOf
<1>8. CapsHold' <=> CapsOf(trades)'
  BY CapsAreAmounts, PTL
<1>. QED BY <1>4, <1>7, <1>8

\* Whatever is evaluated, filled in part, settled or left to age, what is open
\* exceeds no cap, for any caps, markets and number of intents
\* (evaluate_strategies, open_exposures).
THEOREM CapsAreKept == PaperSpec => []CapsHold
<1>. DEFINE CapInv == TradesInv /\ CapsHold
<1>1. PaperInit => CapInv
  <2>. SUFFICES ASSUME PaperInit PROVE TradesInv /\ CapsHold
    OBVIOUS
  <2>1. TradesInv
    BY EmptySeq, PaperAssumption DEF PaperInit, TradesInv
  <2>2. \A among : Amount(trades, among) = 0
    <3>. TAKE among
    <3>1. [i \in 1..MaxTrades |-> Weight(trades, among, i)] = [i \in 1..MaxTrades |-> 0]
      BY DEF PaperInit, Weight
    <3>2. IsFiniteSet(1..MaxTrades)
      BY FS_Interval, PaperAssumption
    <3>. QED BY <3>1, <3>2, SumOfZeros DEF Amount
  <2>3. CapsOf(trades)
    BY <2>2, PaperAssumption DEF CapsOf
  <2>. QED BY <2>1, <2>3, CapsAreAmounts
<1>2. CapInv /\ [PaperNext]_paperVars => CapInv'
  <2>. SUFFICES ASSUME TradesInv, CapsHold, [PaperNext]_paperVars PROVE TradesInv' /\ CapsHold'
    OBVIOUS
  <2>1. ASSUME NEW intents \in Intents, Evaluate(intents) PROVE TradesInv' /\ CapsHold'
    BY <2>1, EvaluateKeepsCaps
  <2>2. CASE NextDay
    <3>1. trades' = trades /\ pnl' = pnl /\ day' = day + 1
      BY <2>2 DEF NextDay
    <3>2. TradesInv' /\ day <= day'
      BY <3>1 DEF TradesInv
    <3>. QED BY <3>1, <3>2, FewerOpen
  <2>3. ASSUME NEW s \in Settlers, Book(s) PROVE TradesInv' /\ CapsHold'
    <3>1. /\ trades' = trades /\ day' = day
          /\ pnl' = [i \in DOMAIN pnl |-> IF i \in Settled(s) THEN pnl[i] + 1 ELSE pnl[i]]
      BY <2>3 DEF Book
    <3>2. TradesInv' /\ day <= day' /\ \A i \in 1..MaxTrades : pnl'[i] = 0 => pnl[i] = 0
      <4>1. pnl' \in [1..MaxTrades -> Nat] /\ \A i \in 1..MaxTrades : pnl'[i] = 0 => pnl[i] = 0
        BY <3>1 DEF TradesInv
      <4>. QED BY <3>1, <4>1 DEF TradesInv
    <3>. QED BY <3>1, <3>2, FewerOpen
  <2>4. ASSUME UNCHANGED <<trades, pnl, day>> PROVE TradesInv' /\ CapsHold'
    <3>1. TradesInv' /\ day <= day' /\ \A i \in 1..MaxTrades : pnl'[i] = 0 => pnl[i] = 0
      BY <2>4 DEF TradesInv
    <3>. QED BY <2>4, <3>1, FewerOpen
  <2>5. \/ \E intents \in Intents : Evaluate(intents)
        \/ NextDay
        \/ \E s \in Settlers : Book(s)
        \/ UNCHANGED <<trades, pnl, day>>
    BY DEF PaperNext, PublishHigh, Want, Enter, Fail, FetchHigh, FetchNothing, Die, paperVars
  <2>. QED BY <2>1, <2>2, <2>3, <2>4, <2>5
<1>. QED BY <1>1, <1>2, PTL DEF PaperSpec

(***************************************************************************)
(* Settlement                                                              *)
(***************************************************************************)

IsRun(r) == "pc" \in DOMAIN r /\ "eligible" \in DOMAIN r

\* A run that has read the unsettled trades holds the lock, and what it read
\* is still unsettled.
LockInv ==
    /\ pnl \in [1..MaxTrades -> {0, 1}]
    /\ DOMAIN settler = Settlers
    /\ \A s \in Settlers : IsRun(settler[s])
    /\ \A s \in Settlers : settler[s].pc = "fetch" =>
          /\ lock = s
          /\ \A i \in settler[s].eligible : pnl[i] = 0

\* A settler that enters has the lock, and sees what no other is about to book.
LEMMA EnterKeepsLockInv ==
    ASSUME LockInv, NEW s \in Settlers, Enter(s)
    PROVE  LockInv'
<1> DEFINE asof == IF s = LOOP THEN settler[s].asof ELSE day
<1>1. settler' = [settler EXCEPT ![s] = Started(asof)] /\ lock' = s /\ pnl' = pnl
  BY DEF Enter
<1>2. settler'[s] = Started(asof) /\ DOMAIN settler' = Settlers
  BY <1>1 DEF LockInv
<1>5. ASSUME NEW q \in Settlers PROVE IsRun(settler'[q])
  <2>1. IsRun(Started(asof))
    BY DEF IsRun, Started
  <2>2. q # s => settler'[q] = settler[q]
    BY <1>1 DEF LockInv
  <2> QED
    BY <1>2, <2>1, <2>2 DEF LockInv
<1>3. \A i \in Started(asof).eligible : pnl[i] = 0
  BY DEF Started, Eligible
<1>4. ASSUME NEW q \in Settlers, q # s PROVE settler'[q].pc # "fetch"
  <2>1. settler'[q] = settler[q]
    BY <1>1, <1>4 DEF LockInv
  <2>2. lock # q
    BY PaperAssumption DEF Enter
  <2> QED
    BY <2>1, <2>2 DEF LockInv
<1> QED
  BY <1>1, <1>2, <1>3, <1>4, <1>5 DEF LockInv

\* When the run that fetches ends, no run fetches.
LEMMA OthersIdle ==
    ASSUME LockInv, NEW s \in Settlers, settler[s].pc = "fetch",
           settler' = [settler EXCEPT ![s] = NoRun], NEW q \in Settlers
    PROVE  IsRun(settler'[q]) /\ settler'[q].pc # "fetch"
<1>1. CASE q = s
  <2>1. settler'[q] = NoRun
    BY <1>1 DEF LockInv
  <2> QED
    BY <2>1 DEF IsRun, NoRun
<1>2. CASE q # s
  <2>1. settler'[q] = settler[q]
    BY <1>2 DEF LockInv
  <2> QED
    BY <1>2, <2>1 DEF LockInv
<1> QED
  BY <1>1, <1>2

\* The settler that has the lock books only what was not booked.
LEMMA BookKeepsLockInv ==
    ASSUME LockInv, NEW s \in Settlers, Book(s)
    PROVE  LockInv'
<1>1. /\ settler[s].pc = "fetch"
      /\ pnl' = [i \in DOMAIN pnl |-> IF i \in Settled(s) THEN pnl[i] + 1 ELSE pnl[i]]
      /\ settler' = [settler EXCEPT ![s] = NoRun]
  BY DEF Book
<1>2. ASSUME NEW i \in Settled(s) PROVE pnl[i] = 0
  BY <1>1 DEF LockInv, Settled
<1>3. pnl' \in [1..MaxTrades -> {0, 1}]
  BY <1>1, <1>2 DEF LockInv
<1>4. DOMAIN settler' = Settlers
  BY <1>1 DEF LockInv
<1>5. ASSUME NEW q \in Settlers
      PROVE  IsRun(settler'[q]) /\ settler'[q].pc # "fetch"
  BY <1>1, OthersIdle
<1> QED
  BY <1>3, <1>4, <1>5 DEF LockInv

\* A settler that fails lets go of the lock.
LEMMA FailKeepsLockInv ==
    ASSUME LockInv, NEW s \in Settlers, Fail(s)
    PROVE  LockInv'
<1>1. settler[s].pc = "fetch" /\ settler' = [settler EXCEPT ![s] = NoRun] /\ pnl' = pnl
  BY DEF Fail
<1>2. DOMAIN settler' = Settlers
  BY <1>1 DEF LockInv
<1>3. ASSUME NEW q \in Settlers
      PROVE  IsRun(settler'[q]) /\ settler'[q].pc # "fetch"
  BY <1>1, OthersIdle
<1> QED
  BY <1>1, <1>2, <1>3 DEF LockInv

\* A request changes nothing of what its run has read from the table.
LEMMA FetchKeepsLockInv ==
    ASSUME LockInv, NEW s \in Settlers, NEW e, FetchHigh(s, e) \/ FetchNothing(s, e)
    PROVE  LockInv'
<1>1. lock' = lock /\ pnl' = pnl /\ DOMAIN settler' = Settlers
  BY DEF LockInv, FetchHigh, FetchNothing
<1> DEFINE run == settler[s]
           asked == [run EXCEPT !.ask = @ \ {e}]
           found == [run EXCEPT !.ask = @ \ {e}, !.observed = @ \cup {e}]
<1>2. \/ settler' = [settler EXCEPT ![s] = found]
      \/ settler' = [settler EXCEPT ![s] = asked]
  BY DEF FetchHigh, FetchNothing
<1>3. ASSUME NEW q \in Settlers
      PROVE  /\ IsRun(settler'[q])
             /\ settler'[q].pc = settler[q].pc
             /\ settler'[q].eligible = settler[q].eligible
  <2>1. IsRun(settler[q])
    BY DEF LockInv
  <2>2. CASE q = s
    BY <1>2, <2>1, <2>2 DEF LockInv, IsRun
  <2>3. CASE q # s
    BY <1>2, <2>1, <2>3 DEF LockInv
  <2> QED
    BY <2>2, <2>3
<1> QED
  BY <1>1, <1>3 DEF LockInv

\* No trade has two rows of P&L, for any number of trades, of runs that a
\* signal asks for, and of failures and restarts (reconcile_lock).
THEOREM TradesSettledOnce == PaperSpec => []SettledOnce
<1>1. PaperInit => LockInv
  BY DEF PaperInit, Boot, Wanting, NoRun, LockInv, IsRun
<1>2. LockInv /\ [PaperNext]_paperVars => LockInv'
  <2> SUFFICES ASSUME LockInv, [PaperNext]_paperVars PROVE LockInv'
    OBVIOUS
  <2>1. ASSUME NEW intents \in Intents, Evaluate(intents) PROVE LockInv'
    BY <2>1 DEF Evaluate, LockInv
  <2>2. CASE NextDay
    BY <2>2 DEF NextDay, LockInv
  <2>3. ASSUME NEW e \in Events, PublishHigh(e) PROVE LockInv'
    BY <2>3 DEF PublishHigh, LockInv
  <2>4. ASSUME NEW s \in Settlers, Want(s) PROVE LockInv'
    BY <2>4 DEF Want, Wanting, NoRun, LockInv, IsRun
  <2>5. ASSUME NEW s \in Settlers, Enter(s) PROVE LockInv'
    BY <2>5, EnterKeepsLockInv
  <2>6. ASSUME NEW s \in Settlers, Book(s) PROVE LockInv'
    BY <2>6, BookKeepsLockInv
  <2>7. ASSUME NEW s \in Settlers, Fail(s) PROVE LockInv'
    BY <2>7, FailKeepsLockInv
  <2>8. ASSUME NEW s \in Settlers, NEW e \in Events,
               FetchHigh(s, e) \/ FetchNothing(s, e)
        PROVE  LockInv'
    BY <2>8, FetchKeepsLockInv
  <2>9. CASE Die
    BY <2>9 DEF Die, Boot, Wanting, NoRun, LockInv, IsRun
  <2>10. CASE UNCHANGED paperVars
    BY <2>10 DEF paperVars, LockInv
  <2> QED
    BY <2>1, <2>2, <2>3, <2>4, <2>5, <2>6, <2>7, <2>8, <2>9, <2>10 DEF PaperNext
<1>3. LockInv => SettledOnce
  BY DEF LockInv, SettledOnce
<1> QED
  BY <1>1, <1>2, <1>3, PTL DEF PaperSpec
===============================================================================
