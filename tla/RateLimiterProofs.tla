-------------------------- MODULE RateLimiterProofs --------------------------
(***************************************************************************)
(* Theorems about RateLimiter, for every number of callers, every burst,   *)
(* cost and number of attempts, and however late the event loop runs.      *)
(***************************************************************************)
EXTENDS RateLimiter, SequenceTheorems, FiniteSetTheorems, TLAPS

\* Constants and state, as integers.
LEMMA Numbers ==
    ASSUME TypeOK
    PROVE  /\ Burst \in Nat /\ Cost \in Nat /\ Cost > 0 /\ Cost <= Burst
           /\ now \in Nat /\ lastRefill \in Nat /\ lastRefill <= now
           /\ tokens \in Nat /\ tokens <= Burst /\ paid \in Nat /\ late \in Nat
           /\ mark.now \in Nat /\ mark.now <= now
           /\ mark.paid \in Nat /\ mark.paid <= paid
           /\ Refilled \in Nat /\ Refilled <= Burst /\ tokens <= Refilled
           /\ Refilled <= tokens + (now - lastRefill)
BY NumbersAssumption DEF TypeOK, Refilled, Smaller

LEMMA InitBudget == Init => BudgetInv
<1> SUFFICES ASSUME Init PROVE BudgetInv
  OBVIOUS
<1>1. TypeOK
  BY NumbersAssumption, EmptySeq DEF Init, TypeOK, Resting
<1>2. SleepsForCost
  BY DEF Init, SleepsForCost
<1>3. Refilled <= Burst /\ Since.paid = 0 /\ Since.time = 0
  BY <1>1, Numbers DEF Init, Since
<1>4. Budget
  BY <1>1, <1>3, Numbers DEF Init, Budget
<1> QED BY <1>1, <1>2, <1>4 DEF BudgetInv

\* The head of the queue is a caller, and the rest of the queue callers.
LEMMA QueueHead ==
    ASSUME TypeOK, queue # <<>>
    PROVE  Head(queue) \in Callers /\ Tail(queue) \in Seq(Callers)
BY HeadTailProperties DEF TypeOK

LEMMA SendTyped ==
    ASSUME TypeOK, NEW c \in Callers, Send(c)
    PROVE  /\ paid' \in Nat /\ paid' = paid + Cost
           /\ call' \in [Callers -> [pc : {"idle", "queued", "asleep", "sent", "backoff"},
                                     at : Nat, tries : 0 .. MaxAttempts]]
           /\ \A d \in Callers : call'[d].pc = "backoff" => call'[d].tries < MaxAttempts
BY Numbers, NumbersAssumption DEF TypeOK, Send

LEMMA MarkTyped ==
    ASSUME TypeOK, NEW p \in Nat, paid <= p
    PROVE  mark \in [now : 0 .. now, paid : 0 .. p]
BY Numbers DEF TypeOK

\* Entering the lock: with enough tokens, or to sleep for the missing ones.
LEMMA AcquireBudget ==
    ASSUME BudgetInv, NEW c \in Callers, Acquire(c)
    PROVE  BudgetInv'
<1> USE DEF BudgetInv
<1>1. TypeOK'
  <2>1. now' \in Nat /\ lastRefill' \in 0 .. now' /\ tokens' \in 0 .. Burst
    BY SMTT(30), Numbers DEF Acquire
  <2>2. queue' \in Seq(Callers) /\ sleeper' \in Callers \cup {None}
    BY QueueHead DEF Acquire
  <2>3. mark' \in [now : 0 .. now', paid : 0 .. paid']
    <3>1. mark' = mark /\ now' = now /\ paid' = paid + Cost
      BY DEF Acquire, Send
    <3> QED BY <3>1, MarkTyped, Numbers
  <2> QED BY <2>1, <2>2, <2>3, SendTyped DEF Acquire, TypeOK
<1>2. sleeper' = None
  BY DEF Acquire
<1>3. Refilled' = Refilled - Cost
  BY Numbers DEF Acquire, Refilled, Smaller
<1>4. Since'.paid = Since.paid + Cost /\ Since'.time = Since.time
  BY SMTT(30), Numbers DEF Since, Acquire, Send
<1>5. Since.paid \in Int /\ Since.time \in Int
  BY Numbers DEF Since
<1>6. Since.paid + Refilled <= Burst + Cost + 2 * Since.time
  BY DEF Acquire, Budget
<1>7. Budget'
  BY <1>2, <1>3, <1>4, <1>5, <1>6, Numbers DEF Budget
<1> QED BY <1>1, <1>2, <1>7 DEF SleepsForCost

LEMMA AcquireShortBudget ==
    ASSUME BudgetInv, NEW c \in Callers, AcquireShort(c)
    PROVE  BudgetInv'
<1> USE DEF BudgetInv
<1>1. TypeOK'
  <2>1. now + (Cost - Refilled) \in Nat
    BY Numbers DEF AcquireShort
  <2>2. call' \in [Callers -> [pc : {"idle", "queued", "asleep", "sent", "backoff"},
                               at : Nat, tries : 0 .. MaxAttempts]]
        /\ \A d \in Callers : call'[d].pc = "backoff" => call'[d].tries < MaxAttempts
    BY <2>1 DEF AcquireShort, TypeOK
  <2>3. now' \in Nat /\ lastRefill' \in 0 .. now' /\ tokens' \in 0 .. Burst
    BY Numbers DEF AcquireShort
  <2>4. queue' \in Seq(Callers) /\ sleeper' \in Callers \cup {None}
    BY QueueHead DEF AcquireShort
  <2> QED BY <2>2, <2>3, <2>4 DEF AcquireShort, TypeOK
<1>2. SleepsForCost'
  <2>1. /\ sleeper' = c /\ lastRefill' = now /\ tokens' = Refilled /\ Refilled < Cost
        /\ call'[c].pc = "asleep" /\ call'[c].at = now + (Cost - Refilled)
    BY DEF AcquireShort, TypeOK
  <2> QED BY <2>1, Numbers DEF SleepsForCost
<1>3. Since' = Since /\ Since.paid \in Int /\ Since.time \in Int
  <2>1. now' = now /\ paid' = paid /\ mark' = mark
    BY DEF AcquireShort
  <2>2. Since.paid \in Int /\ Since.time \in Int
    BY Numbers DEF Since
  <2> QED BY <2>1, <2>2 DEF Since
<1>4. Since.paid + Refilled <= Burst + Cost + 2 * Since.time
  BY DEF AcquireShort, Budget
<1>5. sleeper' # None /\ tokens' = Refilled /\ now' - lastRefill' = 0
  BY Numbers, CallersAssumption DEF AcquireShort
<1>6. Since'.paid + tokens' + 2 * (now' - lastRefill') <= Burst + Cost + 2 * Since'.time
  BY <1>3, <1>4, <1>5, Numbers
<1>7. Budget'
  BY <1>5, <1>6 DEF Budget
<1> QED BY <1>1, <1>2, <1>7

\* Leaving the sleep: the time since the last refill is at least the missing tokens.
LEMMA WakeBudget ==
    ASSUME BudgetInv, NEW c \in Callers, Wake(c)
    PROVE  BudgetInv'
<1> USE DEF BudgetInv
<1>1. TypeOK'
  <2>1. now' \in Nat /\ lastRefill' \in 0 .. now' /\ tokens' \in 0 .. Burst
    BY Numbers DEF Wake
  <2>2. queue' \in Seq(Callers) /\ sleeper' \in Callers \cup {None}
    BY DEF Wake, TypeOK
  <2>3. mark' \in [now : 0 .. now', paid : 0 .. paid']
    <3>1. mark' = mark /\ now' = now /\ paid' = paid + Cost
      BY DEF Wake, Send
    <3> QED BY <3>1, MarkTyped, Numbers
  <2> QED BY <2>1, <2>2, <2>3, SendTyped DEF Wake, TypeOK
<1>2. sleeper' = None
  BY DEF Wake
<1>3. now - lastRefill >= Cost - tokens /\ tokens < Cost
  BY Numbers, CallersAssumption DEF Wake, SleepsForCost
<1>4. /\ Refilled' <= Burst /\ Refilled' <= now - lastRefill /\ Refilled' \in Nat
  BY Numbers DEF Wake, Refilled, Smaller
<1>5. Since'.paid = Since.paid + Cost /\ Since'.time = Since.time
      /\ Since.paid \in Int /\ Since.time \in Nat
  BY Numbers DEF Since, Wake, Send
<1>6. \/ Since.paid = 0
      \/ Since.paid + tokens + 2 * (now - lastRefill) <= Burst + Cost + 2 * Since.time
  BY CallersAssumption DEF Wake, Budget
<1>7. Since.paid + Cost + Refilled' <= Burst + Cost + 2 * Since.time
  BY <1>3, <1>4, <1>5, <1>6, Numbers
<1>8. Budget'
  BY <1>2, <1>5, <1>7 DEF Budget
<1> QED BY <1>1, <1>2, <1>8 DEF SleepsForCost

\* Calls outside the lock, the clock and the observer leave the bucket alone.
LEMMA CallingBudget ==
    ASSUME BudgetInv, NEW c \in Callers, Calling(c)
    PROVE  BudgetInv'
<1> USE DEF BudgetInv
<1>1. TypeOK'
  <2>1. CASE Get(c)
    BY <2>1, NumbersAssumption DEF TypeOK, Get, bucket
  <2>2. CASE Answered(c)
    BY <2>2, NumbersAssumption DEF TypeOK, Answered, Resting, bucket
  <2>3. CASE TooMany(c)
    BY <2>3 DEF TypeOK, TooMany, bucket
  <2>4. CASE Retry(c)
    <3>1. call[c].tries + 1 \in 0 .. MaxAttempts
      <4>1. call[c].tries \in 0 .. MaxAttempts /\ call[c].tries < MaxAttempts
        BY <2>4 DEF TypeOK, Retry
      <4> QED BY <4>1, NumbersAssumption
    <3>2. /\ call' \in [Callers -> [pc : {"idle", "queued", "asleep", "sent", "backoff"},
                                    at : Nat, tries : 0 .. MaxAttempts]]
          /\ \A d \in Callers : call'[d].pc = "backoff" => call'[d].tries < MaxAttempts
      <4> DEFINE r == [call[c] EXCEPT !.pc = "sent", !.at = now, !.tries = @ + 1]
      <4>1. call' = [call EXCEPT ![c] = r]
        BY <2>4 DEF TypeOK, Retry
      <4>2. r \in [pc : {"idle", "queued", "asleep", "sent", "backoff"},
                   at : Nat, tries : 0 .. MaxAttempts] /\ r.pc = "sent"
        BY <3>1 DEF TypeOK
      <4> HIDE DEF r
      <4> QED BY <4>1, <4>2 DEF TypeOK
    <3> QED BY <2>4, <3>2 DEF TypeOK, Retry, bucket
  <2> QED BY <2>1, <2>2, <2>3, <2>4 DEF Calling
<1>2. /\ UNCHANGED <<now, tokens, lastRefill, sleeper, paid, mark>>
      /\ sleeper # None => call'[sleeper] = call[sleeper]
  BY DEF Calling, Get, Answered, TooMany, Retry, bucket, SleepsForCost, TypeOK
<1>3. SleepsForCost'
  BY <1>2 DEF SleepsForCost
<1>4. Budget'
  BY <1>2 DEF Budget, Since, Refilled, Smaller
<1> QED BY <1>1, <1>3, <1>4

LEMMA TickBudget == ASSUME BudgetInv, Tick PROVE BudgetInv'
<1> USE DEF BudgetInv
<1>1. TypeOK'
  BY Numbers DEF TypeOK, Tick, bucket
<1>2. SleepsForCost'
  BY DEF SleepsForCost, Tick, bucket
<1>3. Refilled' <= Refilled + 1 /\ Refilled' \in Nat
  BY Numbers DEF Refilled, Smaller, Tick, bucket
<1>4. Since'.paid = Since.paid /\ Since'.time = Since.time + 1
      /\ Since.paid \in Int /\ Since.time \in Int
  BY Numbers DEF Since, Tick
<1>5. Budget'
  BY <1>3, <1>4, Numbers DEF Budget, Tick, bucket
<1> QED BY <1>1, <1>2, <1>5

LEMMA MarkBudget == ASSUME BudgetInv, Mark PROVE BudgetInv'
<1> USE DEF BudgetInv
<1>1. TypeOK'
  BY Numbers DEF TypeOK, Mark, bucket
<1>2. SleepsForCost'
  BY DEF SleepsForCost, Mark, bucket
<1>3. Since'.paid = 0 /\ Since'.time = 0
  BY Numbers DEF Since, Mark
<1>4. Budget'
  BY <1>1, <1>3, Numbers DEF Budget, Mark, bucket, Refilled, Smaller
<1> QED BY <1>1, <1>2, <1>4

LEMMA NextBudget == BudgetInv /\ [Next]_vars => BudgetInv'
<1> SUFFICES ASSUME BudgetInv, [Next]_vars PROVE BudgetInv'
  OBVIOUS
<1>1. CASE \E c \in Callers : Granting(c) \/ Calling(c)
  BY <1>1, AcquireBudget, AcquireShortBudget, WakeBudget, CallingBudget DEF Granting
<1>2. CASE Tick \/ Mark
  BY <1>2, TickBudget, MarkBudget
<1>3. CASE UNCHANGED vars
  BY <1>3 DEF vars, bucket, BudgetInv, TypeOK, SleepsForCost, Budget, Since, Refilled, Smaller
<1> QED BY <1>1, <1>2, <1>3 DEF Next

\* Types are kept: in particular the bucket never goes below zero nor above its burst.
THEOREM LimiterTyped == Spec => []TypeOK
<1>1. Init => BudgetInv
  BY InitBudget
<1>2. BudgetInv /\ [Next]_vars => BudgetInv'
  BY NextBudget
<1>3. BudgetInv => TypeOK
  BY DEF BudgetInv
<1> QED BY <1>1, <1>2, <1>3, PTL DEF Spec

\* Over every interval the requests that were granted took at most Burst + Cost tokens
\* plus two per unit of time, however many callers share the client.
THEOREM RateIsBounded == Spec => []RateBound
<1>1. Init => BudgetInv
  BY InitBudget
<1>2. BudgetInv /\ [Next]_vars => BudgetInv'
  BY NextBudget
<1>3. BudgetInv => RateBound
  <2> SUFFICES ASSUME BudgetInv PROVE RateBound
    OBVIOUS
  <2>1. Since.paid \in Int /\ Since.time \in Nat
    BY Numbers DEF BudgetInv, Since
  <2> QED BY <2>1, Numbers DEF BudgetInv, Budget, RateBound
<1> QED BY <1>1, <1>2, <1>3, PTL DEF Spec

-----------------------------------------------------------------------------
(* BoundedWait *)

\* What the places of the queue hold, and the sums of the bound, as integers.
LEMMA Places ==
    ASSUME TypeOK
    PROVE  /\ Len(queue) \in Nat /\ DOMAIN queue = 1 .. Len(queue)
           /\ \A n \in DOMAIN queue : /\ n \in Nat /\ n >= 1 /\ n <= Len(queue)
                                      /\ queue[n] \in Callers
                                      /\ call[queue[n]].at \in Nat
           /\ Cardinality(Callers) \in Nat
<1>1. queue \in Seq(Callers)
  BY DEF TypeOK
<1>2. Len(queue) \in Nat /\ DOMAIN queue = 1 .. Len(queue)
  BY <1>1
<1>3. \A n \in DOMAIN queue : queue[n] \in Callers
  BY <1>1
<1>4. \A c \in Callers : call[c].at \in Nat
  BY DEF TypeOK
<1>5. Cardinality(Callers) \in Nat
  BY CallersAssumption, FS_CardinalityType
<1> QED BY <1>2, <1>3, <1>4, <1>5

\* The rest of a sleep is at most the whole of the longest.
LEMMA SleepIsShort ==
    BudgetInv => /\ StillAsleep \in Nat /\ StillAsleep <= Cost
                 /\ sleeper = None => StillAsleep = 0
<1> SUFFICES ASSUME BudgetInv
             PROVE  /\ StillAsleep \in Nat /\ StillAsleep <= Cost
                    /\ sleeper = None => StillAsleep = 0
  OBVIOUS
<1>1. CASE sleeper = None
  BY <1>1, Numbers DEF StillAsleep, BudgetInv
<1>2. CASE sleeper # None
  <2>1. call[sleeper].at = lastRefill + (Cost - tokens)
    BY <1>2 DEF BudgetInv, SleepsForCost
  <2>2. Due <=> now >= call[sleeper].at
    BY <1>2 DEF Due
  <2> QED BY <1>2, <2>1, <2>2, Numbers DEF StillAsleep, BudgetInv
<1> QED BY <1>1, <1>2

\* A set of callers that do not wait is not longer than what the queue leaves over.
LEMMA RoomForOthers ==
    ASSUME TypeOK, QueuedOnce, NEW S \in SUBSET Callers,
           \A c \in S : call[c].pc # "queued"
    PROVE  IsFiniteSet(S) /\ Cardinality(S) \in Nat /\ Len(queue) + Cardinality(S) <= Cardinality(Callers)
<1> DEFINE T == Callers \ S
           f == [n \in 1 .. Len(queue) |-> queue[n]]
<1>1. IsFiniteSet(S) /\ Cardinality(S) \in Nat /\ IsFiniteSet(T) /\ Cardinality(T) \in Nat
  BY CallersAssumption, FS_Subset, FS_CardinalityType
<1>2. Cardinality(S) + Cardinality(T) = Cardinality(Callers)
  <2>0. Cardinality(Callers) \in Nat
    BY Places
  <2>1. S \union T = Callers /\ S \intersect T = {}
    OBVIOUS
  <2>2. Cardinality({}) = 0
    BY FS_EmptySet
  <2>3. Cardinality(S \union T) = Cardinality(S) + Cardinality(T) - Cardinality(S \intersect T)
    BY <1>1, FS_Union
  <2>4. Cardinality(Callers) = Cardinality(S) + Cardinality(T) - 0
    BY <2>1, <2>2, <2>3
  <2>5. Cardinality(S) \in Nat /\ Cardinality(T) \in Nat
    BY <1>1
  <2> HIDE DEF T
  <2> QED BY <2>4, <2>5
<1>3. f \in [1 .. Len(queue) -> T]
  BY Places DEF QueuedOnce
<1>4. IsFiniteSet(1 .. Len(queue)) /\ Cardinality(1 .. Len(queue)) = Len(queue)
  <2>1. Len(queue) \in Int /\ 1 \in Int
    BY Places
  <2>2. IsFiniteSet(1 .. Len(queue))
        /\ Cardinality(1 .. Len(queue)) = IF 1 > Len(queue) THEN 0 ELSE Len(queue) - 1 + 1
    BY <2>1, FS_Interval
  <2> QED BY <2>2, Places
<1>5. ~(Cardinality(T) < Len(queue))
  <2>1. SUFFICES ASSUME Cardinality(T) < Len(queue) PROVE FALSE
    OBVIOUS
  <2>2. PICK x, y \in 1 .. Len(queue) : x # y /\ f[x] = f[y]
    <3> HIDE DEF f, T
    <3> QED BY <1>1, <1>3, <1>4, <2>1, FS_PigeonHole
  <2> QED BY <2>2, Places DEF QueuedOnce
<1> QED BY <1>1, <1>2, <1>5, Places

\* The head leaves the queue, and what holds at each place holds one place nearer.
LEMMA HeadLeaves ==
    ASSUME TypeOK, QueuedOnce, queue # <<>>, queue' = Tail(queue),
           NEW c \in Callers, Head(queue) = c,
           \A d \in Callers : d # c => call'[d] = call[d]
    PROVE  /\ QueuedOnce'
           /\ \A n \in DOMAIN queue' : /\ n \in Nat /\ n + 1 \in DOMAIN queue
                                       /\ call'[queue'[n]] = call[queue[n + 1]]
<1>1. /\ Len(queue') = Len(queue) - 1 /\ queue' \in Seq(Callers)
      /\ \A i \in 1 .. Len(queue') : queue'[i] = queue[i + 1]
  BY HeadTailProperties DEF TypeOK
<1>2. DOMAIN queue' = 1 .. Len(queue') /\ Head(queue) = queue[1]
  BY <1>1
<1>3. ASSUME NEW n \in DOMAIN queue'
      PROVE  /\ n \in Nat /\ n + 1 \in DOMAIN queue /\ n + 1 # 1
             /\ queue'[n] = queue[n + 1] /\ queue[n + 1] # c /\ queue[n + 1] \in Callers
             /\ call'[queue'[n]] = call[queue[n + 1]]
  <2>1. n \in Nat /\ n + 1 \in DOMAIN queue /\ 1 \in DOMAIN queue /\ n + 1 # 1
        /\ queue'[n] = queue[n + 1]
    BY <1>1, <1>2, Places
  <2>2. queue[n + 1] # queue[1]
    BY <2>1 DEF QueuedOnce
  <2>3. queue[n + 1] \in Callers
    BY <2>1, Places
  <2> QED BY <1>2, <2>1, <2>2, <2>3
<1>4. QueuedOnce'
  <2>1. \A n \in DOMAIN queue' : call'[queue'[n]].pc = "queued"
    BY <1>3 DEF QueuedOnce
  <2>2. ASSUME NEW m \in DOMAIN queue', NEW n \in DOMAIN queue', queue'[m] = queue'[n] PROVE m = n
    <3>1. m + 1 = n + 1
      BY <1>3, <2>2 DEF QueuedOnce
    <3> QED BY <1>3, <3>1
  <2> QED BY <2>1, <2>2 DEF QueuedOnce
<1> QED BY <1>3, <1>4

\* One place nearer to the lock, a caller may still wait for one Cost less.
LEMMA OneCostLess ==
    ASSUME TypeOK, NEW n \in Nat
    PROVE  /\ (Cardinality(Callers) - n) * Cost
                = (Cardinality(Callers) - (n + 1)) * Cost + Cost
           /\ (Cardinality(Callers) - n) * Cost \in Int
<1>1. Cardinality(Callers) - n \in Int /\ Cost \in Int
      /\ Cardinality(Callers) - (n + 1) = (Cardinality(Callers) - n) - 1
  BY SMTT(30), Numbers, Places
<1>2. \A k, c \in Int : k * c \in Int /\ k * c = (k - 1) * c + c
  OBVIOUS
<1> QED BY <1>1, <1>2

\* A caller is served: those behind it have one caller less before them, whether
\* it took its tokens or sleeps for them.
LEMMA ServingKeepsWait ==
    ASSUME WaitInv, BudgetInv', NEW c \in Callers, Acquire(c) \/ AcquireShort(c)
    PROVE  WaitInv'
<1>1. /\ queue # <<>> /\ queue' = Tail(queue) /\ Head(queue) = c /\ sleeper = None
      /\ now' = now /\ late' = late
      /\ \A d \in Callers : d # c => call'[d] = call[d]
  BY DEF Acquire, AcquireShort, Send, WaitInv, BudgetInv, TypeOK
<1>2. /\ QueuedOnce'
      /\ \A n \in DOMAIN queue' : /\ n \in Nat /\ n + 1 \in DOMAIN queue
                                  /\ call'[queue'[n]] = call[queue[n + 1]]
  BY <1>1, HeadLeaves DEF WaitInv, BudgetInv
<1>3. StillAsleep = 0 /\ StillAsleep' \in Nat /\ StillAsleep' <= Cost
  <2>1. (StillAsleep \in Nat /\ StillAsleep <= Cost)'
    BY SleepIsShort, PTL
  <2> QED BY <1>1, <2>1, SleepIsShort DEF WaitInv
<1>4. WaitPaidAhead'
  <2> SUFFICES ASSUME NEW n \in DOMAIN queue'
               PROVE  now' - call'[queue'[n]].at + StillAsleep'
                        <= (Cardinality(Callers) - n) * Cost + late'
    BY DEF WaitPaidAhead
  <2>1. n \in Nat /\ n + 1 \in DOMAIN queue /\ call'[queue'[n]] = call[queue[n + 1]]
    BY <1>2
  <2>2. now - call[queue[n + 1]].at + StillAsleep
          <= (Cardinality(Callers) - (n + 1)) * Cost + late
    BY <2>1 DEF WaitInv, WaitPaidAhead
  <2>3. /\ (Cardinality(Callers) - n) * Cost
              = (Cardinality(Callers) - (n + 1)) * Cost + Cost
        /\ (Cardinality(Callers) - n) * Cost \in Int
        /\ (Cardinality(Callers) - (n + 1)) * Cost \in Int
    BY <2>1, OneCostLess DEF WaitInv, BudgetInv
  <2>4. call[queue[n + 1]].at \in Nat /\ now \in Nat /\ late \in Nat /\ Cost \in Nat
    BY <2>1, Places, Numbers DEF WaitInv, BudgetInv
  <2> DEFINE here == (Cardinality(Callers) - n) * Cost
             behind == (Cardinality(Callers) - (n + 1)) * Cost
             since == call[queue[n + 1]].at
  <2>5. here = behind + Cost /\ behind \in Int /\ now - since + StillAsleep <= behind + late
    BY <2>2, <2>3
  <2>6. since \in Nat
    BY <2>4
  <2> HIDE DEF here, behind, since
  <2>7. now - since + StillAsleep' <= here + late
    <3>1. PICK rest \in Nat : rest = StillAsleep' /\ rest <= Cost
      BY <1>3
    <3>2. now - since <= behind + late
      BY <1>3, <2>4, <2>5, <2>6
    <3>3. /\ here = behind + Cost /\ behind \in Int /\ now \in Nat /\ late \in Nat
          /\ Cost \in Nat /\ rest <= Cost
      BY <2>4, <2>5, <3>1
    <3>4. now - since + rest <= here + late
      BY <2>6, <3>2, <3>3
    <3> QED BY <3>1, <3>4
  <2> QED BY <1>1, <2>1, <2>7 DEF here, since
<1> QED BY <1>2, <1>4 DEF WaitInv

\* A caller joins: the bound of its place covers the sleep before it, since the
\* sleeper, like itself, is one of the callers and does not stand before it.
LEMMA GetKeepsWait ==
    ASSUME WaitInv, BudgetInv', NEW c \in Callers, Get(c)
    PROVE  WaitInv'
<1> USE DEF WaitInv
<1>1. /\ TypeOK /\ call[c].pc = "idle" /\ queue' = Append(queue, c)
      /\ now' = now /\ late' = late /\ sleeper' = sleeper
      /\ \A d \in Callers : d # c => call'[d] = call[d]
      /\ call'[c].pc = "queued" /\ call'[c].at = now
  BY DEF Get, BudgetInv, TypeOK
<1>2. /\ DOMAIN queue' = 1 .. (Len(queue) + 1)
      /\ \A i \in DOMAIN queue : queue'[i] = queue[i]
      /\ queue'[Len(queue) + 1] = c
  <2>1. queue \in Seq(Callers)
    BY <1>1 DEF TypeOK
  <2>2. /\ queue' \in Seq(Callers) /\ Len(queue') = Len(queue) + 1
        /\ \A i \in 1 .. Len(queue) : queue'[i] = queue[i]
        /\ queue'[Len(queue) + 1] = c
    BY <1>1, <2>1, AppendProperties
  <2> QED BY <1>1, <2>2, Places
<1>3. ASSUME NEW n \in DOMAIN queue', n # Len(queue) + 1
      PROVE  /\ n \in DOMAIN queue /\ queue'[n] = queue[n] /\ queue[n] \in Callers
             /\ queue[n] # c /\ call'[queue'[n]] = call[queue[n]]
  <2>1. n \in DOMAIN queue
    BY <1>1, <1>2, <1>3, Places
  <2>2. queue'[n] = queue[n] /\ queue[n] \in Callers
    BY <1>1, <1>2, <2>1, Places
  <2>3. queue[n] # c
    BY <1>1, <2>1 DEF QueuedOnce
  <2> QED BY <1>1, <2>1, <2>2, <2>3
<1>4. QueuedOnce'
  <2>1. \A n \in DOMAIN queue' : call'[queue'[n]].pc = "queued"
    BY <1>1, <1>2, <1>3 DEF QueuedOnce
  <2>2. \A m, n \in DOMAIN queue' : queue'[m] = queue'[n] => m = n
    BY <1>2, <1>3 DEF QueuedOnce
  <2> QED BY <2>1, <2>2 DEF QueuedOnce
<1>5. StillAsleep' = StillAsleep
  <2>1. CASE sleeper = None
    BY <1>1, <2>1 DEF StillAsleep
  <2>2. CASE sleeper # None
    <3>1. sleeper \in Callers /\ call[sleeper].pc = "asleep"
      BY <2>2 DEF BudgetInv, TypeOK, SleepsForCost
    <3>2. call'[sleeper] = call[sleeper]
      BY <1>1, <3>1
    <3> QED BY <1>1, <2>2, <3>2 DEF StillAsleep, Due
  <2> QED BY <2>1, <2>2
<1>6. StillAsleep <= (Cardinality(Callers) - (Len(queue) + 1)) * Cost + late
  <2>0. /\ StillAsleep \in Nat /\ StillAsleep <= Cost /\ Cost \in Nat /\ late \in Nat
        /\ Len(queue) \in Nat /\ Cardinality(Callers) \in Nat
    BY SleepIsShort, Numbers, Places DEF BudgetInv
  <2> DEFINE room == Cardinality(Callers) - (Len(queue) + 1)
  <2>1. CASE sleeper = None
    <3>1. Len(queue) + Cardinality({c}) <= Cardinality(Callers) /\ Cardinality({c}) = 1
      BY <1>1, RoomForOthers, FS_Singleton
    <3>2. room \in Nat
      BY <2>0, <3>1
    <3>3. room * Cost \in Nat
      BY <2>0, <3>2
    <3>4. StillAsleep = 0
      BY <2>1, SleepIsShort
    <3> QED BY <2>0, <3>3, <3>4
  <2>2. CASE sleeper # None
    <3>1. sleeper \in Callers /\ call[sleeper].pc = "asleep"
      BY <2>2 DEF BudgetInv, TypeOK, SleepsForCost
    <3>2. Cardinality({c, sleeper}) = 2
      <4>1. c # sleeper /\ {c, sleeper} = {c} \union {sleeper}
        BY <1>1, <3>1
      <4>2. IsFiniteSet({c}) /\ Cardinality({c}) = 1
        BY FS_Singleton
      <4>3. Cardinality({c} \union {sleeper}) = 1 + 1
        BY <4>1, <4>2, FS_AddElement
      <4> QED BY <4>1, <4>3
    <3>3. Len(queue) + Cardinality({c, sleeper}) <= Cardinality(Callers)
      BY <1>1, <3>1, RoomForOthers
    <3>4. room \in Nat /\ room >= 1
      BY <2>0, <3>2, <3>3
    <3>5. room * Cost >= Cost /\ room * Cost \in Nat
      <4>1. room - 1 \in Nat
        BY <3>4
      <4>2. (room - 1) * Cost \in Nat
        BY <2>0, <4>1
      <4>3. room * Cost = (room - 1) * Cost + Cost
        <5> HIDE DEF room
        <5> QED BY <2>0, <3>4
      <4> QED BY <2>0, <4>2, <4>3
    <3> HIDE DEF room
    <3>6. StillAsleep <= room * Cost + late
      BY <2>0, <3>5
    <3> QED BY <3>6 DEF room
  <2> QED BY <2>1, <2>2
<1>7. WaitPaidAhead'
  <2> SUFFICES ASSUME NEW n \in DOMAIN queue'
               PROVE  now' - call'[queue'[n]].at + StillAsleep'
                        <= (Cardinality(Callers) - n) * Cost + late'
    BY DEF WaitPaidAhead
  <2>1. CASE n = Len(queue) + 1
    <3>1. now' - call'[queue'[n]].at = 0
      BY SMTT(30), <1>1, <1>2, <2>1, Numbers
    <3>2. StillAsleep \in Nat
      BY SleepIsShort
    <3> QED BY <1>1, <1>5, <1>6, <2>1, <3>1, <3>2
  <2>2. CASE n # Len(queue) + 1
    <3>1. n \in DOMAIN queue /\ call'[queue'[n]] = call[queue[n]]
      BY <1>3, <2>2
    <3>2. now - call[queue[n]].at + StillAsleep <= (Cardinality(Callers) - n) * Cost + late
      BY <3>1 DEF WaitPaidAhead
    <3> QED BY <1>1, <1>5, <3>1, <3>2
  <2> QED BY <2>1, <2>2
<1> QED BY <1>4, <1>7

\* A step that leaves the queue and the calls of its members alone, in which what
\* has been waited and what is left of the sleep grow by no more than late does.
LEMMA OthersKeepWait ==
    ASSUME WaitInv, BudgetInv', UNCHANGED queue, late' \in Int,
           \A c \in Callers : call[c].pc = "queued" => call'[c] = call[c],
           now' + StillAsleep' - late' <= now + StillAsleep - late
    PROVE  WaitInv'
<1>1. \A n \in DOMAIN queue : queue[n] \in Callers /\ call'[queue[n]] = call[queue[n]]
  BY Places DEF WaitInv, QueuedOnce, BudgetInv
<1>2. QueuedOnce'
  BY <1>1 DEF WaitInv, QueuedOnce
<1>3. StillAsleep' \in Int /\ StillAsleep \in Int
  <2>1. (StillAsleep \in Nat)'
    BY SleepIsShort, PTL
  <2> QED BY <2>1, SleepIsShort DEF WaitInv
<1>4. now' \in Int /\ now \in Int /\ late \in Int
  BY Numbers DEF WaitInv, BudgetInv, TypeOK
<1>5. WaitPaidAhead'
  <2> SUFFICES ASSUME NEW n \in DOMAIN queue
               PROVE  now' - call[queue[n]].at + StillAsleep'
                        <= (Cardinality(Callers) - n) * Cost + late'
    BY <1>1 DEF WaitPaidAhead
  <2>1. now - call[queue[n]].at + StillAsleep <= (Cardinality(Callers) - n) * Cost + late
    BY DEF WaitInv, WaitPaidAhead
  <2>2. n \in Nat /\ call[queue[n]].at \in Nat
    BY Places DEF WaitInv, BudgetInv
  <2>3. (Cardinality(Callers) - n) * Cost \in Int
    BY <2>2, OneCostLess DEF WaitInv, BudgetInv
  <2> DEFINE room == (Cardinality(Callers) - n) * Cost
             since == call[queue[n]].at
  <2>4. room \in Int /\ since \in Nat /\ now - since + StillAsleep <= room + late
    BY <2>1, <2>2, <2>3
  <2> HIDE DEF room, since
  <2>5. now' - since + StillAsleep' <= room + late'
    <3>1. PICK t, r, l \in Int : t = now' /\ r = StillAsleep' /\ l = late'
      BY <1>3, <1>4
    <3>2. PICK t0, r0, l0 \in Int : t0 = now /\ r0 = StillAsleep /\ l0 = late
      BY <1>3, <1>4
    <3>3. t + r - l <= t0 + r0 - l0
      BY <3>1, <3>2
    <3>4. t0 - since + r0 <= room + l0
      BY <2>4, <3>2
    <3>5. t - since + r <= room + l
      BY <2>4, <3>3, <3>4
    <3> QED BY <3>1, <3>5
  <2> QED BY <2>5 DEF room, since
<1> QED BY <1>2, <1>5 DEF WaitInv

LEMMA TickKeepsWait == ASSUME WaitInv, BudgetInv', Tick PROVE WaitInv'
<1>1. /\ now' = now + 1 /\ now \in Nat /\ late \in Nat
      /\ late' = IF Due THEN late + 1 ELSE late
      /\ UNCHANGED <<queue, sleeper, call>>
  BY Numbers DEF Tick, WaitInv, BudgetInv
<1>2. CASE queue = <<>>
  BY <1>1, <1>2 DEF WaitInv, QueuedOnce, WaitPaidAhead
<1>3. CASE queue # <<>>
  <2>1. StillAsleep \in Nat
    BY SleepIsShort DEF WaitInv
  <2>2. CASE Due
    <3>1. StillAsleep = 0 /\ late' = late + 1
      BY <1>1, <2>2 DEF StillAsleep
    <3>2. StillAsleep' = 0
      <4>1. CASE sleeper = None
        BY <1>1, <4>1 DEF StillAsleep
      <4>2. CASE sleeper # None
        <5>1. now >= call[sleeper].at /\ call[sleeper].at \in Int
          BY SMTT(30), <2>2, <4>2 DEF Due, WaitInv, BudgetInv, TypeOK
        <5>2. Due'
          BY <1>1, <4>2, <5>1 DEF Due
        <5> QED BY <5>2 DEF StillAsleep
      <4> QED BY <4>1, <4>2
    <3>3. now' + StillAsleep' - late' <= now + StillAsleep - late /\ late' \in Int
      BY <1>1, <3>1, <3>2
    <3> QED BY <1>1, <3>3, OthersKeepWait
  <2>3. CASE ~Due
    <3>1. sleeper # None /\ ~(now >= call[sleeper].at) /\ late' = late
      BY <1>1, <1>3, <2>3 DEF Due
    <3>2. call[sleeper].at \in Nat
      BY <3>1 DEF WaitInv, BudgetInv, TypeOK
    <3>3. StillAsleep = call[sleeper].at - now
      BY <2>3, <3>1 DEF StillAsleep
    <3>4. StillAsleep' = IF now + 1 >= call[sleeper].at THEN 0 ELSE call[sleeper].at - (now + 1)
      BY <1>1, <3>1 DEF StillAsleep, Due
    <3>5. now' + StillAsleep' - late' <= now + StillAsleep - late /\ late' \in Int
      BY <1>1, <3>1, <3>2, <3>3, <3>4
    <3> QED BY <1>1, <3>5, OthersKeepWait
  <2> QED BY <2>2, <2>3
<1> QED BY <1>2, <1>3

LEMMA NextWait == WaitInv /\ [Next]_vars => WaitInv'
<1> SUFFICES ASSUME WaitInv, [Next]_vars PROVE WaitInv'
  OBVIOUS
<1>1. BudgetInv'
  BY NextBudget DEF WaitInv
<1>2. /\ now \in Nat /\ late \in Nat /\ StillAsleep \in Nat
  BY Numbers, SleepIsShort DEF WaitInv, BudgetInv
<1>3. ASSUME UNCHANGED <<now, late, queue>>, StillAsleep' = StillAsleep \/ StillAsleep' = 0,
             \A c \in Callers : call[c].pc = "queued" => call'[c] = call[c]
      PROVE  WaitInv'
  <2>1. late' \in Int /\ now' + StillAsleep' - late' <= now + StillAsleep - late
    BY <1>2, <1>3
  <2> QED BY <1>1, <1>3, <2>1, OthersKeepWait
<1>4. ASSUME NEW c \in Callers, Granting(c) PROVE WaitInv'
  <2>1. CASE Acquire(c) \/ AcquireShort(c)
    BY <1>1, <2>1, ServingKeepsWait
  <2>2. CASE Wake(c)
    <3>1. StillAsleep' = 0
      BY <2>2 DEF Wake, StillAsleep
    <3>2. call[c].pc = "asleep"
      BY <2>2, CallersAssumption DEF Wake, WaitInv, BudgetInv, SleepsForCost
    <3>3. \A d \in Callers : call[d].pc = "queued" => call'[d] = call[d]
      BY <2>2, <3>2 DEF Wake, Send, WaitInv, BudgetInv, TypeOK
    <3> QED BY <1>3, <2>2, <3>1, <3>3 DEF Wake
  <2> QED BY <1>4, <2>1, <2>2 DEF Granting
<1>5. ASSUME NEW c \in Callers, Calling(c) PROVE WaitInv'
  <2>1. CASE Get(c)
    BY <1>1, <2>1, GetKeepsWait
  <2>2. CASE Answered(c) \/ TooMany(c) \/ Retry(c)
    <3>1. /\ call[c].pc \in {"sent", "backoff"} /\ UNCHANGED <<now, late, queue, sleeper>>
          /\ \A d \in Callers : d # c => call'[d] = call[d]
      BY <2>2 DEF Answered, TooMany, Retry, WaitInv, BudgetInv, TypeOK
    <3>2. sleeper # None => sleeper \in Callers /\ call[sleeper].pc = "asleep"
      BY DEF WaitInv, BudgetInv, TypeOK, SleepsForCost
    <3>3. sleeper # None => call'[sleeper] = call[sleeper]
      BY <3>1, <3>2
    <3>4. StillAsleep' = StillAsleep
      BY <3>1, <3>3 DEF StillAsleep, Due
    <3> QED BY <1>3, <3>1, <3>4
  <2> QED BY <1>5, <2>1, <2>2 DEF Calling
<1>6. CASE Tick
  BY <1>1, <1>6, TickKeepsWait
<1>7. CASE Mark \/ UNCHANGED vars
  <2>1. UNCHANGED <<now, late, queue, sleeper, call>>
    BY <1>7 DEF Mark, vars
  <2> QED BY <1>3, <2>1 DEF StillAsleep, Due
<1> QED BY <1>4, <1>5, <1>6, <1>7 DEF Next

\* Whoever stands in the queue has waited at most one longest sleep for every
\* caller that can be before it, and for the lag of the event loop: retries, which
\* take no turn, never add to it.
THEOREM WaitIsBounded == Spec => []BoundedWait
<1>1. Init => WaitInv
  <2> SUFFICES ASSUME Init PROVE WaitInv
    OBVIOUS
  <2>1. DOMAIN queue = {}
    BY DEF Init
  <2> QED BY <2>1, InitBudget DEF WaitInv, QueuedOnce, WaitPaidAhead
<1>2. WaitInv => BoundedWait
  <2> SUFFICES ASSUME WaitInv, NEW n \in DOMAIN queue
               PROVE  now - call[queue[n]].at <= (Cardinality(Callers) - n) * Cost + late
    BY DEF BoundedWait
  <2>1. now - call[queue[n]].at + StillAsleep <= (Cardinality(Callers) - n) * Cost + late
    BY DEF WaitInv, WaitPaidAhead
  <2>2. StillAsleep \in Nat /\ now \in Nat /\ late \in Nat /\ n \in Nat /\ call[queue[n]].at \in Nat
    BY SleepIsShort, Numbers, Places DEF WaitInv, BudgetInv
  <2>3. (Cardinality(Callers) - n) * Cost \in Int
    BY <2>2, OneCostLess DEF WaitInv, BudgetInv
  <2> QED BY <2>1, <2>2, <2>3
<1> QED BY <1>1, <1>2, NextWait, PTL DEF Spec
=============================================================================
