----------------------------- MODULE RateLimiter -----------------------------
(***************************************************************************)
(* http_client.py: the TokenBucket every GET of the collector goes         *)
(* through, and the retry loop behind it.  The callers are the tasks of    *)
(* main.py (discovery, metadata, settlements) that share one client.       *)
(*                                                                         *)
(* Time advances in units of 1/rate second, so that one token accrues per  *)
(* unit; the code's floats are integers here.                              *)
(*                                                                         *)
(*   now          time.monotonic()                                         *)
(*   tokens, lastRefill   TokenBucket._tokens, _last_refill                *)
(*   queue        callers waiting for TokenBucket._lock, in order          *)
(*   sleeper      the caller asleep inside the lock, or None               *)
(*   call[c]      where caller c is, since when (or until when, asleep),   *)
(*                and how often it has sent its request                    *)
(*                                                                         *)
(* Auxiliary: paid, the tokens taken so far; mark, the values of now and   *)
(* paid at some arbitrary moment; and late, the time that passed while     *)
(* something was due: a punctual event loop has none.                      *)
(***************************************************************************)
EXTENDS Integers, Sequences, FiniteSets

CONSTANTS Callers, None,
          Burst,         \* tokens a full bucket holds
          Cost,          \* tokens of a GET
          MaxAttempts,   \* _MAX_RETRIES, attempts of a request answered 429
          MaxTime,       \* bound on now
          MaxLate        \* bound on late, how far the event loop lags in all

ASSUME CallersAssumption == IsFiniteSet(Callers) /\ None \notin Callers
ASSUME NumbersAssumption == /\ Burst \in Nat /\ Cost \in Nat \ {0} /\ Cost <= Burst
                            /\ MaxAttempts \in Nat \ {0} /\ MaxTime \in Nat
                            /\ MaxLate \in Nat

VARIABLES now, tokens, lastRefill, queue, sleeper, call, paid, mark, late

bucket == <<tokens, lastRefill>>
vars == <<now, bucket, queue, sleeper, call, paid, mark, late>>

Smaller(a, b) == IF a <= b THEN a ELSE b

Resting == [pc |-> "idle", at |-> 0, tries |-> 0]

Init ==
    /\ now = 0 /\ tokens = Burst /\ lastRefill = 0
    /\ queue = <<>> /\ sleeper = None
    /\ call = [c \in Callers |-> Resting]
    /\ paid = 0 /\ mark = [now |-> 0, paid |-> 0] /\ late = 0

------------------------------------------------------------------------------
\* Slip: the lock serves the last caller first.
GetLast(c) ==
    /\ call[c].pc = "idle"
    /\ call' = [call EXCEPT ![c] = [pc |-> "queued", at |-> now, tries |-> 0]]
    /\ queue' = <<c>> \o queue
    /\ UNCHANGED <<now, bucket, sleeper, paid, mark, late>>

\* get(): the caller queues for the lock (asyncio.Lock is first come, first served).
Get(c) ==
    /\ call[c].pc = "idle"
    /\ call' = [call EXCEPT ![c] = [pc |-> "queued", at |-> now, tries |-> 0]]
    /\ queue' = Append(queue, c)
    /\ UNCHANGED <<now, bucket, sleeper, paid, mark, late>>

\* Slip: the bucket has no capacity.
RefilledWithoutBurst == tokens + (now - lastRefill)

\* Tokens after the refill at the head of acquire().
Refilled == Smaller(Burst, tokens + (now - lastRefill))

\* Caller c has paid for its request and sends it.
Send(c) ==
    /\ paid' = paid + Cost
    /\ call' = [call EXCEPT ![c] = [pc |-> "sent", at |-> now, tries |-> 1]]

\* acquire() with enough tokens: the lock is taken and released without an await.
Acquire(c) ==
    /\ queue # <<>> /\ Head(queue) = c /\ sleeper = None
    /\ Refilled >= Cost
    /\ tokens' = Refilled - Cost
    /\ lastRefill' = now
    /\ queue' = Tail(queue)
    /\ Send(c)
    /\ UNCHANGED <<now, sleeper, mark, late>>

\* acquire() with too few: sleep, holding the lock, for the missing ones.
AcquireShort(c) ==
    /\ queue # <<>> /\ Head(queue) = c /\ sleeper = None
    /\ Refilled < Cost
    /\ tokens' = Refilled
    /\ lastRefill' = now
    /\ queue' = Tail(queue)
    /\ sleeper' = c
    /\ call' = [call EXCEPT ![c] = [@ EXCEPT !.pc = "asleep", !.at = now + (Cost - Refilled)]]
    /\ UNCHANGED <<now, paid, mark, late>>

\* Slip: whoever wakes leaves the cost it did not wait for in the bucket.
WakeKeepingTokens(c) ==
    /\ sleeper = c /\ now >= call[c].at
    /\ tokens' = Cost
    /\ sleeper' = None
    /\ Send(c)
    /\ UNCHANGED <<now, lastRefill, queue, mark, late>>

\* The sleep is over: the bucket is emptied, and the time slept stays uncounted in
\* _last_refill.
Wake(c) ==
    /\ sleeper = c /\ now >= call[c].at
    /\ tokens' = 0
    /\ sleeper' = None
    /\ Send(c)
    /\ UNCHANGED <<now, lastRefill, queue, mark, late>>

\* The request is answered, with data or with an error other than 429; or the
\* last attempt was answered 429, and the error is raised.
Answered(c) ==
    /\ call[c].pc = "sent"
    /\ call' = [call EXCEPT ![c] = Resting]
    /\ UNCHANGED <<now, bucket, queue, sleeper, paid, mark, late>>

\* 429: jitter and exponential backoff, unless this was the last attempt.
TooMany(c) ==
    /\ call[c].pc = "sent" /\ call[c].tries < MaxAttempts
    /\ call' = [call EXCEPT ![c].pc = "backoff", ![c].at = now]
    /\ UNCHANGED <<now, bucket, queue, sleeper, paid, mark, late>>

\* tenacity sends the request again; acquire() is not part of what it retries.
Retry(c) ==
    /\ call[c].pc = "backoff" /\ now > call[c].at
    /\ call' = [call EXCEPT ![c].pc = "sent", ![c].at = now, ![c].tries = @ + 1]
    /\ UNCHANGED <<now, bucket, queue, sleeper, paid, mark, late>>

Granting(c) == Acquire(c) \/ AcquireShort(c) \/ Wake(c)
Calling(c) == Get(c) \/ Answered(c) \/ TooMany(c) \/ Retry(c)

\* Something the event loop would run now: a sleep that is over, or a free lock.
Due == IF sleeper = None THEN queue # <<>> ELSE now >= call[sleeper].at

Tick ==
    /\ now < MaxTime
    /\ now' = now + 1
    /\ late' = IF Due THEN late + 1 ELSE late
    /\ late' <= MaxLate
    /\ UNCHANGED <<bucket, queue, sleeper, call, paid, mark>>

\* An observer starts to measure here (auxiliary).
Mark ==
    /\ mark' = [now |-> now, paid |-> paid]
    /\ UNCHANGED <<now, bucket, queue, sleeper, call, paid, late>>

Next ==
    \/ \E c \in Callers : Granting(c) \/ Calling(c)
    \/ Tick \/ Mark

Spec == Init /\ [][Next]_vars

------------------------------------------------------------------------------
(* Properties *)

\* Every variable has its type, and a request that backs off has an attempt left.
TypeOK ==
    /\ now \in Nat /\ lastRefill \in 0 .. now
    /\ tokens \in 0 .. Burst
    /\ queue \in Seq(Callers)
    /\ sleeper \in Callers \cup {None}
    /\ call \in [Callers -> [pc : {"idle", "queued", "asleep", "sent", "backoff"},
                             at : Nat, tries : 0 .. MaxAttempts]]
    /\ \A c \in Callers : call[c].pc = "backoff" => call[c].tries < MaxAttempts
    /\ paid \in Nat /\ late \in Nat
    /\ mark \in [now : 0 .. now, paid : 0 .. paid]

Since == [time |-> now - mark.now, paid |-> paid - mark.paid]

\* Over any interval, GETs take at most the burst, one more GET, and TWO tokens per
\* unit of time: acquire() counts the time a caller slept once for that caller and
\* again at the next refill.
RateBound == Since.paid <= Burst + Cost + 2 * Since.time

\* What the module says of itself (http_client.py line 4: "200 tokens/s, burst = 400"):
\* from the start, at most the burst and one token per unit of time.
AdvertisedRate == paid <= Burst + now

\* The n-th in the queue has waited no longer than every caller before it can sleep
\* once, and the event loop was late: first come, first served, whatever is retried.
BoundedWait ==
    \A n \in DOMAIN queue :
        now - call[queue[n]].at <= (Cardinality(Callers) - n) * Cost + late

------------------------------------------------------------------------------
(* What the proof of RateBound adds to it (RateLimiterProofs) *)

\* The sleeper sleeps until its missing tokens have accrued.
SleepsForCost ==
    sleeper # None => /\ call[sleeper].pc = "asleep"
                      /\ call[sleeper].at = lastRefill + (Cost - tokens)
                      /\ tokens < Cost

\* What could be taken at once counts as taken.  While a caller sleeps, its time is
\* charged twice, unless nothing was taken since the mark.
Budget ==
    /\ sleeper = None => Since.paid + Refilled <= Burst + Cost + 2 * Since.time
    /\ sleeper # None =>
         \/ Since.paid = 0
         \/ Since.paid + tokens + 2 * (now - lastRefill) <= Burst + Cost + 2 * Since.time

BudgetInv == TypeOK /\ SleepsForCost /\ Budget

------------------------------------------------------------------------------
(* What the proof of BoundedWait adds to it (RateLimiterProofs) *)

\* The sleep the lock still holds up: none when it is over or the lock is free.
StillAsleep == IF Due \/ sleeper = None THEN 0 ELSE call[sleeper].at - now

\* A caller stands in the queue once, and only while it waits there.
QueuedOnce ==
    /\ \A n \in DOMAIN queue : call[queue[n]].pc = "queued"
    /\ \A m, n \in DOMAIN queue : queue[m] = queue[n] => m = n

\* BoundedWait, with the rest of the sleep counted as waited already: time that
\* passes for the sleeper costs those behind it nothing more.
WaitPaidAhead ==
    \A n \in DOMAIN queue :
        now - call[queue[n]].at + StillAsleep <= (Cardinality(Callers) - n) * Cost + late

WaitInv == BudgetInv /\ QueuedOnce /\ WaitPaidAhead
=============================================================================
