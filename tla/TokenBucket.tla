----------------------------- MODULE TokenBucket -----------------------------
(***************************************************************************)
(* The rate limiter of the venue clients (bot/execution/token_bucket.py):  *)
(* tokens in a semaphore, a task that refills it, calls that take their    *)
(* cost one token at a time, and a close that must wake every waiter.      *)
(* Each token is waited for by a task of its own, which survives when the  *)
(* call is cancelled (asyncio.wait does not cancel what it waits for) and  *)
(* then takes a token for nobody.                                          *)
(***************************************************************************)
EXTENDS Integers, FiniteSets, Sequences, SequencesExt

CONSTANTS
    Callers,    \* tasks that call acquire
    ORPHAN,     \* a waiter whose call was cancelled
    Capacity,
    MaxOrphans  \* bound on the waiters left behind at a time

ASSUME BucketAssumption ==
    /\ Capacity \in Nat \ {0}
    /\ MaxOrphans \in Nat
    /\ ORPHAN \notin Callers /\ IsFiniteSet(Callers)

VARIABLES
    tokens,     \* value of the semaphore
    queue,      \* its waiters, first come first served
    woken,      \* callers whose waiter holds a token and has not resumed
    closed,
    call,       \* the acquire of each caller
    budget      \* history: Capacity, plus refills, minus tokens spent or lost

bucketVars == <<tokens, queue, woken, closed, call, budget>>

NoCall == [pc |-> "idle", cost |-> 0, got |-> 0]

BucketInit ==
    /\ tokens = Capacity
    /\ queue = <<>>
    /\ woken = {}
    /\ closed = FALSE
    /\ call = [c \in Callers |-> NoCall]
    /\ budget = Capacity

\* Semaphore.locked: nothing left, or somebody waits for it.
Locked == tokens = 0 \/ queue # <<>>

\* Semaphore.release: to the first waiter; a token that an orphan takes is lost.
Release ==
    IF queue = <<>>
    THEN /\ tokens' = tokens + 1
         /\ UNCHANGED <<queue, woken>>
    ELSE /\ queue' = Tail(queue)
         /\ woken' = IF Head(queue) = ORPHAN THEN woken ELSE woken \cup {Head(queue)}
         /\ UNCHANGED tokens

Ended(c, how) == call' = [call EXCEPT ![c] = [NoCall EXCEPT !.pc = how]]

\* acquire(cost) is called: refused at once when the bucket is closed.
Acquire(c, cost) ==
    /\ call[c].pc = "idle"
    /\ IF closed
       THEN Ended(c, "closed")
       ELSE call' = [call EXCEPT ![c] = [pc |-> "ask", cost |-> cost, got |-> 0]]
    /\ UNCHANGED <<tokens, queue, woken, closed, budget>>

\* The task that waits for the next token starts.
Ask(c) ==
    /\ call[c].pc = "ask"
    /\ call' = [call EXCEPT ![c].pc = "wait"]
    /\ IF Locked
       THEN /\ queue' = Append(queue, c)
            /\ UNCHANGED <<tokens, woken>>
       ELSE /\ tokens' = tokens - 1
            /\ woken' = woken \cup {c}
            /\ UNCHANGED queue
    /\ UNCHANGED <<closed, budget>>

\* Mutant: the last token is enough, whether or not the bucket has closed.
TakeUnchecked(c) ==
    /\ call[c].pc = "wait" /\ c \in woken
    /\ woken' = woken \ {c}
    /\ IF call[c].got + 1 = call[c].cost
       THEN /\ Ended(c, "granted")
            /\ budget' = budget - call[c].cost
       ELSE /\ call' = [call EXCEPT ![c].pc = "ask", ![c].got = @ + 1]
            /\ UNCHANGED budget
    /\ UNCHANGED <<tokens, queue, closed>>

\* The call resumes with its token: the last one it needs, one of several, or
\* one to give back because the bucket has closed meanwhile.
Take(c) ==
    /\ call[c].pc = "wait" /\ c \in woken /\ ~closed
    /\ woken' = woken \ {c}
    /\ IF call[c].got + 1 = call[c].cost
       THEN /\ Ended(c, "granted")
            /\ budget' = budget - call[c].cost
       ELSE /\ call' = [call EXCEPT ![c].pc = "ask", ![c].got = @ + 1]
            /\ UNCHANGED budget
    /\ UNCHANGED <<tokens, queue, closed>>

GiveBack(c) ==
    /\ call[c].pc = "wait" /\ c \in woken /\ closed
    /\ IF queue = <<>>
       THEN /\ tokens' = tokens + 1
            /\ woken' = woken \ {c}
            /\ UNCHANGED queue
       ELSE /\ queue' = Tail(queue)
            /\ woken' = (woken \ {c}) \cup ({Head(queue)} \ {ORPHAN})
            /\ UNCHANGED tokens
    /\ Ended(c, "closed")
    /\ budget' = budget - call[c].got
                 - (IF queue # <<>> /\ Head(queue) = ORPHAN THEN 1 ELSE 0)
    /\ UNCHANGED closed

\* The waiter of a call that gives up leaves the queue (deque.remove).
Leave(c) == \E i \in DOMAIN queue : queue[i] = c /\ queue' = RemoveAt(queue, i)

\* Mutant: every call that ends on close releases, token or not.
AbortReleasing(c) ==
    /\ call[c].pc = "wait" /\ c \notin woken /\ closed
    /\ Leave(c)
    /\ tokens' = tokens + 1
    /\ Ended(c, "closed")
    /\ budget' = budget - call[c].got
    /\ UNCHANGED <<woken, closed>>

\* The call resumes because the bucket has closed; its waiter is cancelled.
Abort(c) ==
    /\ call[c].pc = "wait" /\ c \notin woken /\ closed
    /\ Leave(c)
    /\ Ended(c, "closed")
    /\ budget' = budget - call[c].got
    /\ UNCHANGED <<tokens, woken, closed>>

\* The caller is cancelled while it waits: its waiter stays behind.
Cancel(c) ==
    /\ call[c].pc = "wait"
    /\ Cardinality({i \in DOMAIN queue : queue[i] = ORPHAN}) < MaxOrphans
    /\ queue' = [i \in DOMAIN queue |-> IF queue[i] = c THEN ORPHAN ELSE queue[i]]
    /\ woken' = woken \ {c}
    /\ Ended(c, "cancelled")
    /\ budget' = budget - call[c].got - (IF c \in woken THEN 1 ELSE 0)
    /\ UNCHANGED <<tokens, closed>>

\* The caller goes on, and may call again.
Return(c) ==
    /\ call[c].pc \in {"granted", "closed", "cancelled"}
    /\ call' = [call EXCEPT ![c] = NoCall]
    /\ UNCHANGED <<tokens, queue, woken, closed, budget>>

\* _refill_loop: one token an interval, and only while there is none.
Refill ==
    /\ ~closed
    /\ Locked
    /\ Release
    /\ budget' = IF queue # <<>> /\ Head(queue) = ORPHAN THEN budget ELSE budget + 1
    /\ UNCHANGED <<closed, call>>

\* aclose: no more refills.
Close ==
    /\ ~closed
    /\ closed' = TRUE
    /\ UNCHANGED <<tokens, queue, woken, call, budget>>

BucketNext ==
    \/ \E c \in Callers :
        \/ \E cost \in 1..Capacity : Acquire(c, cost)
        \/ Ask(c) \/ Take(c) \/ GiveBack(c) \/ Abort(c) \/ Cancel(c) \/ Return(c)
    \/ Refill
    \/ Close

BucketSpec == BucketInit /\ [][BucketNext]_bucketVars

-----------------------------------------------------------------------------
(* Properties *)

Asking(c) == call[c].pc \in {"ask", "wait"}

\* The rate holds: no path through acquire, cancellation or close makes a
\* token or loses one that budget does not say (release on close only when
\* the token was won), and idle time never saves up more than Capacity.
RateIsKept ==
    /\ tokens \in Nat /\ (~closed => tokens <= Capacity)
    /\ budget = tokens + Cardinality(woken) + SumFunction([c \in Callers |-> call[c].got])

\* Once aclose has run no call is let through, not even one whose last token
\* was in its hand (the second test of _closed_event in acquire).
NothingAfterClose ==
    [][\A c \in Callers : call'[c].pc = "granted" => call[c].pc = "granted" \/ ~closed]_bucketVars

\* Nobody waits for ever: every call is granted, refused or cancelled, though
\* the refill pauses whenever a token is free and orphans take tokens too.
AcquiresEnd == \A c \in Callers : Asking(c) ~> ~Asking(c)
=============================================================================
