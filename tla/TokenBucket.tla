----------------------------- MODULE TokenBucket -----------------------------
(***************************************************************************)
(* The rate limiter of src/llm/base.py over a clock that may step back.    *)
(* The clock is read when a token is asked for, and nowhere else.          *)
(***************************************************************************)
EXTENDS Integers, Sequences

CONSTANTS
  Capacity,          \* TokenBucket.capacity
  RefillRate,        \* TokenBucket.refill_per_second
  MaxClock, MaxBack  \* bounds: the clock, and how often it steps back

ASSUME BucketAssumption ==
  /\ Capacity \in Nat \ {0} /\ RefillRate \in Nat \ {0}
  /\ MaxClock \in Nat /\ MaxBack \in Nat

VARIABLES
  now,     \* the clock
  back,    \* how often it stepped back
  bucket,  \* [tokens, last]: last = 0 before the first call
  ahead,   \* history: how far the clock moved forward, in all
  spent    \* history: ahead at each token taken

time == <<now, back, ahead>>
limiter == <<time, bucket, spent>>

Full == [tokens |-> Capacity, last |-> 0]

\* Time that counts towards a refill.
Elapsed == IF bucket.last = 0 \/ now <= bucket.last THEN 0 ELSE now - bucket.last

\* Tokens that come with time.
Brings(steps) == RefillRate * steps

\* Mutant: a long silence fills the bucket beyond its capacity.
_refill_unbounded == bucket.tokens + Brings(Elapsed)

\* The tokens after a refill.
_refill ==
  IF bucket.tokens + Brings(Elapsed) > Capacity THEN Capacity
  ELSE bucket.tokens + Brings(Elapsed)

Granted == _refill >= 1

\* take(): the mark moves to the present, be it back, granted or not.
take ==
  /\ bucket' = [tokens |-> IF Granted THEN _refill - 1 ELSE _refill, last |-> now]
  /\ spent' = IF Granted THEN Append(spent, ahead) ELSE spent
  /\ UNCHANGED time

Advance ==
  /\ now < MaxClock
  /\ now' = now + 1 /\ ahead' = ahead + 1
  /\ UNCHANGED <<back, bucket, spent>>

StepBack ==
  /\ back < MaxBack /\ now > 1
  /\ now' = now - 1 /\ back' = back + 1
  /\ UNCHANGED <<ahead, bucket, spent>>

\* Another process has a bucket of its own.
Restart == bucket' = Full /\ spent' = <<>> /\ UNCHANGED time

BucketInit == now = 1 /\ back = 0 /\ ahead = 0 /\ bucket = Full /\ spent = <<>>
BucketNext == take \/ Advance \/ StepBack \/ Restart
BucketSpec == BucketInit /\ [][BucketNext]_limiter

\* Over any stretch of calls the provider is asked no more often than the
\* capacity of the bucket and what the clock moved forward allow, however it
\* steps back in between: a bucket never stores more than it holds
\* (TokenBucket._refill, take).
CallsWithinBudget ==
  \A i, j \in DOMAIN spent :
    i <= j => j - i + 1 <= Capacity + Brings(spent[j] - spent[i])
=============================================================================
