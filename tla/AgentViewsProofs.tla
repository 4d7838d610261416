-------------------------- MODULE AgentViewsProofs --------------------------
(***************************************************************************)
(* The rate limiter, the cache of answers and the opinions of a cycle, for *)
(* any universe, news, stack of providers, sequence of versions of the     *)
(* schemas, and whatever the vendors answer.                               *)
(*                                                                         *)
(* The clock moves, a version is released and the next agent is asked only *)
(* between completions: what is known when a completion begins is known    *)
(* when it ends.                                                           *)
(***************************************************************************)
EXTENDS AgentViews, FiniteSetTheorems, SequenceTheorems, TLAPS

-----------------------------------------------------------------------------
(* The rate limiter.                                                       *)

\* The state of the bucket, and what its history is made of.
BucketTypeOK ==
  /\ now \in Nat /\ now >= 1 /\ back \in Nat /\ ahead \in Nat
  /\ bucket \in [tokens : 0..Capacity, last : Nat]
  /\ spent \in Seq(Nat)

\* From any token taken to the present: those taken since, those left and
\* those a refill would bring are covered.
Covered ==
  \A i \in DOMAIN spent :
    Len(spent) - i + 1 + bucket.tokens + Brings(Elapsed)
      <= Capacity + Brings(ahead - spent[i])

BucketIInv == BucketTypeOK /\ Covered /\ CallsWithinBudget

\* More time brings more tokens, and a step more one refill more.
LEMMA BringsInt == \A a \in Int : Brings(a) \in Int /\ (a >= 0 => Brings(a) >= 0)
  BY BucketAssumption DEF Brings

LEMMA BringsMore == \A a, b \in Int : a <= b => Brings(a) <= Brings(b)
  BY BucketAssumption DEF Brings

LEMMA BringsStep == \A a \in Int : Brings(a + 1) = Brings(a) + RefillRate
  BY BucketAssumption DEF Brings

\* What is counted stays covered when no more is left, or the refill grows no
\* faster than the cover.
LEMMA Slackens ==
  ASSUME NEW n \in Int, NEW t \in Int, NEW u \in Int, NEW c \in Int, NEW p \in Int,
         NEW q \in Int, n + t <= c + p, u <= t + q
  PROVE  n + u <= c + (p + q)
  OBVIOUS

LEMMA Refilled ==
  ASSUME NEW n \in Int, NEW t \in Int, NEW r \in Int, NEW u \in Int, NEW c \in Int,
         NEW p \in Int, n + t + r <= c + p, u <= t + r
  PROVE  n + u + 0 <= c + p
  OBVIOUS

LEMMA ElapsedInNat == BucketTypeOK => Elapsed \in Nat
  BY DEF BucketTypeOK, Elapsed

LEMMA BucketInitially == BucketInit => BucketIInv
  BY BucketAssumption DEF Brings, BucketInit, BucketIInv, BucketTypeOK, Covered, CallsWithinBudget, Full

\* A token taken is one of those counted on.
LEMMA Taking == BucketIInv /\ take => BucketIInv'
  <1> SUFFICES ASSUME BucketIInv, take PROVE BucketIInv'
    OBVIOUS
  <1> USE BucketAssumption
  <1>0. PICK r \in Nat : r = Brings(Elapsed)
    <2>1. Elapsed \in Int /\ Elapsed >= 0
      BY ElapsedInNat DEF BucketIInv
    <2> QED BY <2>1, BringsInt
  <1>1. r \in Nat /\ Capacity \in Nat
    OBVIOUS
  <1>2. _refill \in 0..Capacity /\ _refill <= bucket.tokens + r
    BY <1>0 DEF _refill, BucketIInv, BucketTypeOK
  <1>3. Elapsed' = 0
    BY DEF take, Elapsed, BucketIInv, BucketTypeOK, time
  <1>4. BucketTypeOK'
    BY <1>2 DEF take, BucketTypeOK, BucketIInv, Granted, time
  <1>5. Brings(Elapsed') = 0
    BY <1>3 DEF Brings
  <1>8. ASSUME NEW i \in DOMAIN spent
        PROVE  /\ Brings(ahead - spent[i]) \in Int
               /\ Len(spent) - i + 1 + _refill + 0 <= Capacity + Brings(ahead - spent[i])
    <2>1. /\ spent[i] \in Nat /\ i \in Nat /\ Len(spent) \in Nat /\ ahead \in Nat
          /\ bucket.tokens \in Nat
      BY DEF BucketIInv, BucketTypeOK
    <2>2. PICK p \in Int : p = Brings(ahead - spent[i])
      <3>1. ahead - spent[i] \in Int
        BY <2>1
      <3> QED BY <3>1, BringsInt
    <2>3. Len(spent) - i + 1 + bucket.tokens + r <= Capacity + p
      BY <1>0, <2>2 DEF Covered, BucketIInv
    <2>4. PICK n \in Int : n = Len(spent) - i + 1
      BY <2>1
    <2>5. n + bucket.tokens + r <= Capacity + p
      BY <2>3, <2>4
    <2>6. n + _refill + 0 <= Capacity + p
      BY <1>1, <1>2, <2>1, <2>5, Refilled
    <2> QED BY <2>2, <2>4, <2>6
  <1>6. CASE ~Granted
    <2>1. spent' = spent /\ ahead' = ahead /\ bucket'.tokens = _refill
      BY <1>6 DEF take, time
    <2>2. Covered'
      BY <1>5, <1>8, <2>1 DEF Covered
    <2>3. CallsWithinBudget'
      BY <2>1 DEF CallsWithinBudget, BucketIInv
    <2> QED BY <1>4, <2>2, <2>3 DEF BucketIInv
  <1>7. CASE Granted
    <2>1. /\ spent' = Append(spent, ahead) /\ ahead' = ahead
          /\ bucket'.tokens = _refill - 1
      BY <1>7 DEF take, time
    <2>2. /\ Len(spent') = Len(spent) + 1 /\ Len(spent) \in Nat
          /\ DOMAIN spent' = 1..(Len(spent) + 1) /\ DOMAIN spent = 1..Len(spent)
          /\ spent'[Len(spent) + 1] = ahead
          /\ \A i \in DOMAIN spent : spent'[i] = spent[i] /\ spent[i] \in Nat
      BY <2>1 DEF BucketIInv, BucketTypeOK
    <2>3. _refill >= 1 /\ ahead \in Nat /\ bucket.tokens \in Nat
      BY <1>7 DEF Granted, BucketIInv, BucketTypeOK
    <2>5. Brings(ahead - ahead) = 0
      BY <2>3 DEF Brings
    <2>6. Covered'
      <3> SUFFICES ASSUME NEW i \in DOMAIN spent'
                   PROVE  Len(spent') - i + 1 + bucket'.tokens + Brings(Elapsed')
                            <= Capacity + Brings(ahead' - spent'[i])
        BY DEF Covered
      <3>0. /\ i \in 1..(Len(spent) + 1) /\ Len(spent') = Len(spent) + 1
            /\ bucket'.tokens = _refill - 1 /\ ahead' = ahead /\ Brings(Elapsed') = 0
        BY <1>5, <2>1, <2>2
      <3> SUFFICES (Len(spent) + 1) - i + 1 + (_refill - 1) + 0
                     <= Capacity + Brings(ahead - spent'[i])
        BY <3>0
      <3>1. CASE i = Len(spent) + 1
        BY <1>2, <2>2, <2>3, <2>5, <3>1
      <3>2. CASE i \in DOMAIN spent
        BY <1>2, <1>8, <2>2, <3>2
      <3> QED BY <2>2, <3>0, <3>1, <3>2
    <2>7. CallsWithinBudget'
      <3> SUFFICES ASSUME NEW i \in 1..(Len(spent) + 1), NEW j \in 1..(Len(spent) + 1), i <= j
                   PROVE  j - i + 1 <= Capacity + Brings(spent'[j] - spent'[i])
        BY <2>1, <2>2 DEF CallsWithinBudget
      <3>1. CASE j \in DOMAIN spent
        <4>1. i \in DOMAIN spent /\ spent'[i] = spent[i] /\ spent'[j] = spent[j]
          BY <2>2, <3>1
        <4> QED BY <3>1, <4>1 DEF CallsWithinBudget, BucketIInv
      <3>2. CASE j = Len(spent) + 1 /\ i = j
        BY <2>2, <2>5, <3>2
      <3>3. CASE j = Len(spent) + 1 /\ i \in DOMAIN spent
        <4>1. PICK p \in Int : /\ p = Brings(ahead - spent[i])
                              /\ Len(spent) - i + 1 + _refill + 0 <= Capacity + p
          BY <1>8, <3>3
        <4>2. spent'[j] - spent'[i] = ahead - spent[i]
          BY <2>2, <3>3
        <4>3. j - i + 1 <= Capacity + p
          <5>1. PICK n \in Int : n = Len(spent) - i + 1
            BY <2>2
          <5>2. j - i + 1 = n + 1
            BY <2>2, <3>3, <5>1
          <5> QED BY <1>2, <2>3, <4>1, <5>1, <5>2
        <4> QED BY <4>1, <4>2, <4>3
      <3> QED BY <2>2, <3>1, <3>2, <3>3
    <2> QED BY <1>4, <2>6, <2>7 DEF BucketIInv
  <1> QED BY <1>6, <1>7

\* Time that passes may bring a refill, and is counted when it does.
LEMMA Advancing == BucketIInv /\ Advance => BucketIInv'
  <1> SUFFICES ASSUME BucketIInv, Advance PROVE BucketIInv'
    OBVIOUS
  <1> USE BucketAssumption
  <1>1. BucketTypeOK' /\ CallsWithinBudget'
    BY DEF Advance, BucketIInv, BucketTypeOK, CallsWithinBudget
  <1>2. Elapsed \in Int /\ Elapsed' \in Int /\ Elapsed' <= Elapsed + 1
    BY DEF Advance, BucketIInv, BucketTypeOK, Elapsed
  <1>3. PICK d \in Int : d = Brings(Elapsed)
    BY <1>2, BringsInt
  <1>4. PICK e \in Int : e = Brings(Elapsed') /\ e <= d + RefillRate
    <2>1. PICK a \in Int, b \in Int : a = Elapsed /\ b = Elapsed' /\ b <= a + 1
      BY <1>2
    <2>2. Brings(b) \in Int /\ Brings(a) = d /\ Brings(b) <= Brings(a + 1)
      BY <1>3, <2>1, BringsInt, BringsMore
    <2>3. Brings(a + 1) = d + RefillRate
      BY <2>2, BringsStep
    <2> QED BY <2>1, <2>2, <2>3
  <1>5. ASSUME NEW i \in DOMAIN spent
        PROVE  Len(spent) - i + 1 + bucket.tokens + e <= Capacity + Brings((ahead + 1) - spent[i])
    <2>1. /\ Len(spent) \in Nat /\ i \in Nat /\ spent[i] \in Nat /\ ahead \in Nat
          /\ bucket.tokens \in Nat
      BY DEF BucketIInv, BucketTypeOK
    <2>2. PICK q \in Int : q = ahead - spent[i] /\ q + 1 = (ahead + 1) - spent[i]
      BY <2>1
    <2>3. Brings(q) \in Int /\ Brings(q + 1) = Brings(q) + RefillRate
      BY BringsInt, BringsStep
    <2>4. Len(spent) - i + 1 + bucket.tokens + d <= Capacity + Brings(q)
      BY <1>3, <2>2 DEF Covered, BucketIInv
    <2>5. PICK p \in Int : p = Brings(q)
      BY <2>3
    <2>6. e <= d + RefillRate
      BY <1>4
    <2>7. Len(spent) - i + 1 + bucket.tokens + e <= Capacity + (p + RefillRate)
      <3>1. Len(spent) - i + 1 + bucket.tokens + d <= Capacity + p
        BY <2>4, <2>5
      <3>2. PICK n \in Int : n = Len(spent) - i + 1 + bucket.tokens
        BY <2>1
      <3> QED BY <2>6, <3>1, <3>2, Slackens
    <2>8. Brings((ahead + 1) - spent[i]) = p + RefillRate
      BY <2>2, <2>3, <2>5
    <2> QED BY <2>7, <2>8
  <1>6. Covered'
    BY <1>4, <1>5 DEF Covered, Advance
  <1> QED BY <1>1, <1>6 DEF BucketIInv

\* A clock that steps back brings no refill, and forgets none.
LEMMA SteppingBack == BucketIInv /\ StepBack => BucketIInv'
  <1> SUFFICES ASSUME BucketIInv, StepBack PROVE BucketIInv'
    OBVIOUS
  <1> USE BucketAssumption
  <1>1. BucketTypeOK' /\ CallsWithinBudget'
    BY DEF StepBack, BucketIInv, BucketTypeOK, CallsWithinBudget
  <1>2. Elapsed \in Int /\ Elapsed' \in Int /\ Elapsed' <= Elapsed
    BY DEF StepBack, BucketIInv, BucketTypeOK, Elapsed
  <1>3. PICK d \in Int, e \in Int : d = Brings(Elapsed) /\ e = Brings(Elapsed') /\ e <= d
    <2>1. PICK a \in Int, b \in Int : a = Elapsed /\ b = Elapsed' /\ b <= a
      BY <1>2
    <2>2. Brings(a) \in Int /\ Brings(b) \in Int /\ Brings(b) <= Brings(a)
      BY <2>1, BringsInt, BringsMore
    <2> QED BY <2>1, <2>2
  <1>4. ASSUME NEW i \in DOMAIN spent
        PROVE  Len(spent) - i + 1 + bucket.tokens + e <= Capacity + Brings(ahead - spent[i])
    <2>1. /\ Len(spent) \in Nat /\ i \in Nat /\ spent[i] \in Nat /\ ahead \in Nat
          /\ bucket.tokens \in Nat
      BY DEF BucketIInv, BucketTypeOK
    <2>2. PICK p \in Int : p = Brings(ahead - spent[i])
      <3>1. ahead - spent[i] \in Int
        BY <2>1
      <3> QED BY <3>1, BringsInt
    <2>3. Len(spent) - i + 1 + bucket.tokens + d <= Capacity + p
      BY <1>3, <2>2 DEF Covered, BucketIInv
    <2>4. e <= d
      BY <1>3
    <2>5. Len(spent) - i + 1 + bucket.tokens + e <= Capacity + p
      <3>1. PICK n \in Int : n = Len(spent) - i + 1 + bucket.tokens
        BY <2>1
      <3>2. n + e <= Capacity + (p + 0)
        BY <2>3, <2>4, <3>1, Slackens
      <3>3. p + 0 = p
        OBVIOUS
      <3> QED BY <3>1, <3>2, <3>3
    <2> QED BY <2>2, <2>5
  <1>5. Covered'
    BY <1>3, <1>4 DEF Covered, StepBack
  <1> QED BY <1>1, <1>5 DEF BucketIInv

LEMMA Restarting == BucketIInv /\ Restart => BucketIInv'
  BY BucketAssumption
  DEF Restart, BucketIInv, BucketTypeOK, Covered, CallsWithinBudget, Full, time

LEMMA BucketKept == BucketIInv /\ [BucketNext]_limiter => BucketIInv'
  <1> SUFFICES ASSUME BucketIInv, [BucketNext]_limiter PROVE BucketIInv'
    OBVIOUS
  <1>1. CASE UNCHANGED limiter
    BY <1>1 DEF limiter, time, BucketIInv, BucketTypeOK, Covered, CallsWithinBudget, Elapsed
  <1> QED BY <1>1, Taking, Advancing, SteppingBack, Restarting DEF BucketNext

\* Whatever its capacity and rate, and however the clock moves, over no stretch
\* of calls does the bucket grant more than it holds and is refilled with.
THEOREM BudgetIsKept == BucketSpec => []CallsWithinBudget
  <1>1. BucketIInv => CallsWithinBudget
    BY DEF BucketIInv
  <1> QED BY <1>1, BucketInitially, BucketKept, PTL DEF BucketSpec

-----------------------------------------------------------------------------
(* The inductive invariant.                                                *)

\* A view an agent can make an opinion of.
ViewOK(view) ==
  /\ view.stance \in Stances /\ view.conviction \in Convictions
  /\ view.cites \in Seq(ToSet(view.cites))
  /\ view.model = "null" => view.stance = "NEUTRAL" /\ view.conviction = 1

\* What no wrapper catches.
Uncaught == Unexpected \cup {Forbidden}

\* The completion in progress.
CallOK ==
  \/ call = Idle
  \/ call \in [state : {"try", "request"}, prompt : Questions, attempt : Nat, at : Nat]
  \/ call \in [state : {"failed"}, prompt : Questions]
  \/ call \in [state : {"raised"}, prompt : Questions, cause : Uncaught]
  \/ /\ call.state = "answered" /\ call = Answered(call.prompt, call.view)
     /\ call.prompt \in Questions /\ ViewOK(call.view)

StackOK == stack \in Stacks /\ release \in 1..Len(Catalogues) /\ CallOK

\* A file is one of this stack, named for the question it answers, and while
\* the models are asked there is none that would have answered it.
FilesOK ==
  /\ \A c \in cached :
       /\ c.key = [provider |-> stack.selected, schema |-> Schema(c.about),
                   shape |-> c.key.shape, user |-> c.about]
       /\ ViewOK(c.view)
  /\ call.state = "request" /\ stack.caching => Cached(call.prompt) = {}

CycleOK ==
  /\ cycle = [phase |-> cycle.phase, as_of |-> cycle.as_of, todo |-> cycle.todo,
              opinions |-> cycle.opinions, heard |-> cycle.heard,
              events |-> cycle.events, cause |-> cycle.cause]
  /\ cycle.phase \in {"idle", "asking", "done", "aborted"}

\* A completion is that of the agent whose turn it is.
InTurn ==
  call # Idle => /\ cycle.phase = "asking" /\ cycle.todo # <<>>
                 /\ call.prompt = TheirPrompt /\ ~Silent

\* The opinion of one agent, in a cycle of day d: made of the view that was
\* heard, if one was, and NEUTRAL and on record if it was asked in vain.
Earned(asked, d, opinions, heard, events) ==
  /\ opinions[asked].stance \in Stances /\ opinions[asked].conviction \in Convictions
  /\ \A view \in heard[asked] :
       ViewOK(view) /\ opinions[asked] = Opinion(view, Prompt(asked, d))
  /\ heard[asked] = {} =>
       /\ opinions[asked] = NEUTRAL
       /\ Shown(asked, d) # {} <=> Event("AGENT_UNAVAILABLE", asked) \in events

\* The first k agents have been asked, in order, and nobody else.
AskedUpTo(k) ==
  /\ cycle.todo = SubSeq(Asks, k + 1, Len(Asks))
  /\ DOMAIN cycle.opinions = {Asks[i] : i \in 1..k}
  /\ DOMAIN cycle.heard = {Asks[i] : i \in 1..k}
  /\ \A i \in 1..k :
       Earned(Asks[i], cycle.as_of, cycle.opinions, cycle.heard, cycle.events)
  /\ \A i \in (k + 1)..Len(Asks) : Event("AGENT_UNAVAILABLE", Asks[i]) \notin cycle.events

Progress ==
  /\ cycle.phase # "idle" =>
       cycle.as_of \in Days /\ \E k \in 0..Len(Asks) : AskedUpTo(k)
  /\ cycle.phase = "done" => cycle.todo = <<>>
  /\ cycle.phase = "aborted" => cycle.cause \in Uncaught

IInv == BucketIInv /\ StackOK /\ FilesOK /\ CycleOK /\ InTurn /\ Progress
-----------------------------------------------------------------------------
(* The agents that are asked.                                              *)

LEMMA Joined ==
  ASSUME NEW A, NEW B, NEW s \in Seq(A), NEW t \in Seq(B)
  PROVE  /\ s \o t \in Seq(A \cup B) /\ Len(s \o t) = Len(s) + Len(t)
         /\ \A i \in 1..Len(s) : (s \o t)[i] = s[i]
         /\ \A i \in 1..Len(t) : (s \o t)[i + Len(s)] = t[i]
<1>1. s \in Seq(A \cup B) /\ t \in Seq(A \cup B)
  OBVIOUS
<1>2. /\ s \o t \in Seq(A \cup B) /\ Len(s \o t) = Len(s) + Len(t)
      /\ \A i \in 1..Len(s) + Len(t) :
           (s \o t)[i] = IF i <= Len(s) THEN s[i] ELSE t[i - Len(s)]
  BY <1>1, ConcatProperties
<1>3. \A i \in 1..Len(t) : (s \o t)[i + Len(s)] = t[i]
  <2> TAKE i \in 1..Len(t)
  <2>1. /\ i + Len(s) \in 1..Len(s) + Len(t) /\ ~(i + Len(s) <= Len(s))
        /\ (i + Len(s)) - Len(s) = i
    OBVIOUS
  <2> QED
    BY <1>2, <2>1
<1>4. \A i \in 1..Len(s) : (s \o t)[i] = s[i]
  BY <1>2
<1> QED
  BY <1>2, <1>3, <1>4

\* Who is asked, and that nobody is asked twice.
LEMMA AsksAre ==
  /\ Asks \in Seq(ToSet(Asks)) /\ Len(Asks) \in Nat
  /\ ToSet(Asks) = {Asks[i] : i \in 1..Len(Asks)}
  /\ \A asked \in ToSet(Asks) :
       /\ asked = <<asked[1], asked[2]>>
       /\ \/ asked = <<"macro", Everything>>
          \/ asked[1] \in {"research", "fundamental"} /\ asked[2] \in ToSet(Symbols)
  /\ \A i, j \in 1..Len(Asks) : Asks[i] = Asks[j] => i = j
  /\ \A symbol \in ToSet(Symbols) :
       <<"research", symbol>> \in ToSet(Asks) /\ <<"fundamental", symbol>> \in ToSet(Asks)
  /\ macro_signals # NoSignals => <<"macro", Everything>> \in ToSet(Asks)
<1> DEFINE first == IF macro_signals = NoSignals THEN <<>> ELSE << <<"macro", Everything>> >>
           m == IF macro_signals = NoSignals THEN 0 ELSE 1
           n == Len(Symbols)
           each(i) == IF i % 2 = 1 THEN <<"research", Symbols[(i + 1) \div 2]>>
                      ELSE <<"fundamental", Symbols[i \div 2]>>
           rest == [i \in 1..2 * n |-> each(i)]
<1>1. /\ n \in Nat /\ DOMAIN Symbols = 1..n
      /\ \A i \in 1..n : Symbols[i] \in ToSet(Symbols)
      /\ \A i, j \in 1..n : Symbols[i] = Symbols[j] => i = j
      /\ \A symbol \in ToSet(Symbols) : \E i \in 1..n : symbol = Symbols[i]
  BY ViewsAssumption DEF IsInjective, ToSet
<1>2. /\ first \in Seq({<<"macro", Everything>>}) /\ Len(first) = m /\ m \in {0, 1}
      /\ m = 1 <=> macro_signals # NoSignals
      /\ m = 1 => first[1] = <<"macro", Everything>>
  <2>1. CASE macro_signals = NoSignals
    BY <2>1
  <2>2. CASE macro_signals # NoSignals
    BY <2>2
  <2> QED
    BY <2>1, <2>2
<1>3. rest \in Seq({each(i) : i \in 1..2 * n}) /\ Len(rest) = 2 * n
  <2> DEFINE E == {each(i) : i \in 1..2 * n}
  <2>1. 2 * n \in Nat
    BY <1>1
  <2>2. rest \in [1..2 * n -> E]
    OBVIOUS
  <2>3. rest \in Seq(E) /\ Len(rest) = 2 * n
    <3> HIDE DEF E, rest, n
    <3> QED
      BY <2>1, <2>2
  <2> QED
    BY <2>3
<1>4. Asks = first \o rest
  BY DEF Asks
<1> HIDE DEF first, m, rest
<1>5. /\ Asks \in Seq({<<"macro", Everything>>} \cup {each(i) : i \in 1..2 * n})
      /\ Len(Asks) = m + 2 * n
      /\ m = 1 => Asks[1] = <<"macro", Everything>>
      /\ \A i \in 1..2 * n : Asks[i + m] = rest[i]
  <2> DEFINE A == {<<"macro", Everything>>}
             E == {each(i) : i \in 1..2 * n}
  <2>1. first \in Seq(A) /\ rest \in Seq(E)
    BY <1>2, <1>3
  <2>2. /\ Asks \in Seq(A \cup E) /\ Len(Asks) = Len(first) + Len(rest)
        /\ \A i \in 1..Len(first) : Asks[i] = first[i]
        /\ \A i \in 1..Len(rest) : Asks[i + Len(first)] = rest[i]
    <3> HIDE DEF A, E
    <3> QED
      BY <1>4, <2>1, Joined
  <2>3. /\ Asks \in Seq(A \cup E)
        /\ Len(Asks) = m + 2 * n
        /\ m = 1 => Asks[1] = <<"macro", Everything>>
        /\ \A i \in 1..2 * n : Asks[i + m] = rest[i]
    <3> HIDE DEF A, E, each, n
    <3> QED
      BY <1>2, <1>3, <2>2
  <2> QED
    BY <2>3
<1>6. \A i \in 1..2 * n : rest[i] = each(i)
  BY DEF rest
<1> HIDE DEF n
<1>7. ASSUME NEW i \in 1..2 * n
      PROVE  \E k \in 1..n : \/ i = 2 * k - 1 /\ each(i) = <<"research", Symbols[k]>>
                             \/ i = 2 * k /\ each(i) = <<"fundamental", Symbols[k]>>
  <2>1. CASE i % 2 = 1
    <3>1. (i + 1) \div 2 \in 1..n /\ i = 2 * ((i + 1) \div 2) - 1
      BY <1>1, <2>1
    <3> QED
      BY <2>1, <3>1
  <2>2. CASE i % 2 # 1
    <3>1. i \div 2 \in 1..n /\ i = 2 * (i \div 2)
      BY <1>1, <2>2
    <3> QED
      BY <2>2, <3>1
  <2> QED
    BY <2>1, <2>2
<1>8. \A k \in 1..n : /\ 2 * k - 1 \in 1..2 * n /\ each(2 * k - 1) = <<"research", Symbols[k]>>
                      /\ 2 * k \in 1..2 * n /\ each(2 * k) = <<"fundamental", Symbols[k]>>
  <2> TAKE k \in 1..n
  <2>1. /\ k \in Nat /\ 2 * k - 1 \in 1..2 * n /\ 2 * k \in 1..2 * n
        /\ (2 * k - 1) % 2 = 1 /\ ((2 * k - 1) + 1) \div 2 = k
        /\ (2 * k) % 2 # 1 /\ (2 * k) \div 2 = k
    BY <1>1
  <2> QED
    BY <2>1
<1> HIDE DEF each
<1>9. ASSUME NEW i \in 1..Len(Asks)
      PROVE  \/ /\ i = 1 /\ m = 1
                /\ Asks[i] = <<"macro", Everything>>
             \/ /\ i - m \in 1..2 * n
                /\ Asks[i] = each(i - m)
  <2>1. i - m \in 1..2 * n \/ (i = 1 /\ m = 1)
    BY <1>1, <1>2, <1>5
  <2>2. ASSUME i - m \in 1..2 * n PROVE Asks[i] = each(i - m)
    <3>1. (i - m) + m = i
      BY <1>2
    <3> QED
      BY <1>5, <1>6, <2>2, <3>1
  <2> QED
    BY <1>5, <2>1, <2>2
<1>10. Len(Asks) \in Nat /\ DOMAIN Asks = 1..Len(Asks)
  BY <1>5
<1>11. ToSet(Asks) = {Asks[i] : i \in 1..Len(Asks)}
  BY <1>10 DEF ToSet
<1>12. Asks \in Seq(ToSet(Asks))
  BY <1>5, <1>10, <1>11
<1>13. ASSUME NEW asked \in ToSet(Asks)
       PROVE  /\ asked = <<asked[1], asked[2]>>
              /\ \/ asked = <<"macro", Everything>>
                 \/ asked[1] \in {"research", "fundamental"} /\ asked[2] \in ToSet(Symbols)
  <2>1. PICK i \in 1..Len(Asks) : asked = Asks[i]
    BY <1>11
  <2>2. CASE asked = <<"macro", Everything>>
    BY <2>2
  <2>3. CASE i - m \in 1..2 * n /\ asked = each(i - m)
    <3>1. PICK k \in 1..n : each(i - m) \in {<<"research", Symbols[k]>>, <<"fundamental", Symbols[k]>>}
      BY <1>7, <2>3
    <3> QED
      BY <1>1, <2>3, <3>1
  <2> QED
    BY <1>9, <2>1, <2>2, <2>3
<1>14. ASSUME NEW i \in 1..Len(Asks), NEW j \in 1..Len(Asks), Asks[i] = Asks[j]
       PROVE  i = j
  <2>1. \A k \in 1..2 * n : each(k) # <<"macro", Everything>>
    <3> TAKE k \in 1..2 * n
    <3>1. PICK x \in 1..n : each(k) \in {<<"research", Symbols[x]>>, <<"fundamental", Symbols[x]>>}
      BY <1>7
    <3> QED
      BY <3>1
  <2>2. CASE Asks[i] = <<"macro", Everything>>
    BY <1>9, <2>1, <2>2, <1>14
  <2>3. CASE Asks[i] # <<"macro", Everything>>
    <3>1. /\ i - m \in 1..2 * n /\ Asks[i] = each(i - m)
          /\ j - m \in 1..2 * n /\ Asks[j] = each(j - m)
      BY <1>9, <1>14, <2>3
    <3>2. i - m = j - m
      <4> DEFINE x == i - m y == j - m
      <4>1. x \in 1..2 * n /\ y \in 1..2 * n /\ each(x) = each(y)
        BY <1>14, <3>1
      <4> HIDE DEF x, y
      <4>2. PICK k \in 1..n : \/ x = 2 * k - 1 /\ each(x) = <<"research", Symbols[k]>>
                              \/ x = 2 * k /\ each(x) = <<"fundamental", Symbols[k]>>
        BY <1>7, <4>1
      <4>3. PICK l \in 1..n : \/ y = 2 * l - 1 /\ each(y) = <<"research", Symbols[l]>>
                              \/ y = 2 * l /\ each(y) = <<"fundamental", Symbols[l]>>
        BY <1>7, <4>1
      <4>4. Symbols[k] = Symbols[l]
        BY <4>1, <4>2, <4>3
      <4>5. k = l
        BY <1>1, <4>4
      <4>6. x = y
        BY <4>1, <4>2, <4>3, <4>5
      <4> QED
        BY <4>6 DEF x, y
    <3> QED
      BY <1>2, <3>2
  <2> QED
    BY <2>2, <2>3
<1>15. ASSUME NEW symbol \in ToSet(Symbols)
       PROVE  <<"research", symbol>> \in ToSet(Asks) /\ <<"fundamental", symbol>> \in ToSet(Asks)
  <2>1. PICK k \in 1..n : symbol = Symbols[k]
    BY <1>1
  <2>2. ASSUME NEW i \in 1..2 * n
        PROVE  i + m \in 1..Len(Asks) /\ Asks[i + m] = each(i)
    <3>1. Len(Asks) = m + 2 * n /\ m \in {0, 1} /\ n \in Nat
      BY <1>1, <1>2, <1>5
    <3>2. i + m \in 1..Len(Asks)
      BY <3>1
    <3> QED
      BY <1>5, <1>6, <3>2
  <2>3. \A i \in 1..2 * n : each(i) \in ToSet(Asks)
    BY <1>11, <2>2
  <2> QED
    BY <1>8, <2>1, <2>3
<1>16. macro_signals # NoSignals => <<"macro", Everything>> \in ToSet(Asks)
  <2>1. macro_signals # NoSignals => m = 1 /\ 1 \in 1..Len(Asks) /\ Asks[1] = <<"macro", Everything>>
    BY <1>1, <1>2, <1>5
  <2> QED
    BY <1>11, <2>1
<1> QED
  BY <1>10, <1>11, <1>12, <1>13, <1>14, <1>15, <1>16

\* A question names its agent and its symbol; the agent fixes the schema.
LEMMA QuestionsAre ==
  ASSUME NEW asked \in ToSet(Asks), NEW d
  PROVE  /\ Prompt(asked, d).agent = asked[1] /\ Prompt(asked, d).symbol = asked[2]
         /\ Prompt(asked, d).shown = Shown(asked, d)
         /\ Schema(Prompt(asked, d)) \in Requested
         /\ d \in Days => Prompt(asked, d) \in Questions
<1>1. /\ Prompt(asked, d).agent = asked[1] /\ Prompt(asked, d).symbol = asked[2]
      /\ Prompt(asked, d).shown = Shown(asked, d)
  BY DEF Prompt
<1>2. asked[1] \in {"macro", "research", "fundamental"}
  BY AsksAre
<1>3. Schema(Prompt(asked, d)) \in Requested
  BY <1>1, <1>2 DEF Schema, Requested
<1>4. d \in Days => Prompt(asked, d) \in Questions
  BY DEF Questions
<1> QED
  BY <1>1, <1>3, <1>4
-----------------------------------------------------------------------------
(* An opinion is concluded.                                                *)

LEMMA EventsDiffer ==
  ASSUME NEW a \in ToSet(Asks), NEW b \in ToSet(Asks), NEW code, NEW word,
         Event(code, a) = Event(word, b)
  PROVE  code = word /\ a = b
<1>1. /\ code = word /\ a[1] = b[1] /\ a[2] = b[2]
  BY DEF Event
<1> QED
  BY <1>1, AsksAre

\* The next agent's turn.
LEMMA NextTurn ==
  ASSUME NEW k \in 0..Len(Asks), AskedUpTo(k), cycle.todo # <<>>
  PROVE  /\ k + 1 \in 1..Len(Asks) /\ k \in Nat /\ Asked = Asks[k + 1] /\ Asked \in ToSet(Asks)
         /\ Tail(cycle.todo) = SubSeq(Asks, k + 2, Len(Asks))
<1>1. Len(Asks) \in Nat /\ Asks \in Seq(ToSet(Asks))
  BY AsksAre
<1>2. k + 1 \in 1..Len(Asks)
  <2>1. k + 1 > Len(Asks) => SubSeq(Asks, k + 1, Len(Asks)) = <<>>
    BY <1>1, SubSeqEmpty
  <2> QED
    BY <1>1, <2>1 DEF AskedUpTo
<1>3. Len(Asks) \in (k + 1)..Len(Asks) /\ (k + 1) + 1 = k + 2
  BY <1>1, <1>2
<1>4. /\ Head(cycle.todo) = Asks[k + 1]
      /\ Tail(cycle.todo) = SubSeq(Asks, k + 2, Len(Asks))
  BY <1>1, <1>2, <1>3, HeadTailOfSubSeq DEF AskedUpTo
<1>5. Asks[k + 1] \in ToSet(Asks)
  BY <1>2, AsksAre
<1> QED
  BY <1>2, <1>4, <1>5 DEF Asked

LEMMA Concluding ==
  ASSUME CycleOK, Progress, cycle.phase = "asking", cycle.todo # <<>>,
         NEW opinion, NEW heard, NEW events, Conclude(opinion, heard, events),
         opinion.stance \in Stances, opinion.conviction \in Convictions,
         \A view \in heard : ViewOK(view) /\ opinion = Opinion(view, TheirPrompt),
         heard = {} =>
           /\ opinion = NEUTRAL
           /\ Shown(Asked, cycle.as_of) # {} <=> Event("AGENT_UNAVAILABLE", Asked) \in events,
         \A a \in ToSet(Asks) : Event("AGENT_UNAVAILABLE", a) \in events => a = Asked
  PROVE  CycleOK' /\ Progress'
<1> DEFINE c == [cycle EXCEPT !.todo = Tail(@), !.opinions = With(@, Asked, opinion),
                   !.heard = With(@, Asked, heard), !.events = @ \cup events]
           unavailable(a) == Event("AGENT_UNAVAILABLE", a)
           d == cycle.as_of
<1>1. /\ cycle' = c
      /\ c = [phase |-> "asking", as_of |-> d, todo |-> Tail(cycle.todo),
              opinions |-> With(cycle.opinions, Asked, opinion),
              heard |-> With(cycle.heard, Asked, heard),
              events |-> cycle.events \cup events, cause |-> cycle.cause]
  <2>1. cycle' = c
    BY DEF Conclude
  <2>2. c = [phase |-> cycle.phase, as_of |-> d, todo |-> Tail(cycle.todo),
             opinions |-> With(cycle.opinions, Asked, opinion),
             heard |-> With(cycle.heard, Asked, heard),
             events |-> cycle.events \cup events, cause |-> cycle.cause]
    <3> DEFINE a == Asked
    <3> HIDE DEF a
    <3>1. c = [cycle EXCEPT !.todo = Tail(cycle.todo),
                 !.opinions = With(cycle.opinions, a, opinion),
                 !.heard = With(cycle.heard, a, heard),
                 !.events = cycle.events \cup events]
      BY DEF a
    <3> HIDE DEF c
    <3> QED
      BY <3>1 DEF CycleOK, a
  <2> HIDE DEF c
  <2> QED
    BY <2>1, <2>2
<1> HIDE DEF c
<1>2. CycleOK'
  BY <1>1 DEF CycleOK
<1>3. /\ d \in Days
      /\ \E k \in 0..Len(Asks) : AskedUpTo(k)
  BY DEF Progress
<1>4. PICK k \in 0..Len(Asks) : AskedUpTo(k)
  BY <1>3
<1>5. /\ k + 1 \in 1..Len(Asks) /\ k \in Nat /\ Asked = Asks[k + 1] /\ Asked \in ToSet(Asks)
      /\ Tail(cycle.todo) = SubSeq(Asks, k + 2, Len(Asks))
  BY <1>4, NextTurn
<1>6. /\ Len(Asks) \in Nat
      /\ \A i, j \in 1..Len(Asks) : Asks[i] = Asks[j] => i = j
      /\ \A i \in 1..Len(Asks) : Asks[i] \in ToSet(Asks)
  BY AsksAre
<1>7. Asked \notin {Asks[i] : i \in 1..k}
  <2> SUFFICES ASSUME NEW i \in 1..k, Asked = Asks[i] PROVE FALSE
    OBVIOUS
  <2>1. i \in 1..Len(Asks) /\ i # k + 1
    BY <1>5, <1>6
  <2> QED
    BY <1>5, <1>6, <2>1
<1>8. {Asks[i] : i \in 1..(k + 1)} = {Asks[i] : i \in 1..k} \cup {Asked}
  <2>1. \A i : i \in 1..(k + 1) <=> i \in 1..k \/ i = k + 1
    BY <1>5
  <2> QED
    BY <1>5, <2>1
<1>9. /\ DOMAIN c.opinions = {Asks[i] : i \in 1..(k + 1)} /\ c.opinions[Asked] = opinion
      /\ \A a \in {Asks[i] : i \in 1..k} : c.opinions[a] = cycle.opinions[a]
  <2>1. DOMAIN cycle.opinions = {Asks[i] : i \in 1..k}
    BY <1>4 DEF AskedUpTo
  <2>2. c.opinions = With(cycle.opinions, Asked, opinion)
    BY <1>1
  <2>3. Asked \notin DOMAIN cycle.opinions
    BY <1>7, <2>1
  <2>4. /\ DOMAIN c.opinions = DOMAIN cycle.opinions \cup {Asked} /\ c.opinions[Asked] = opinion
        /\ \A a \in DOMAIN cycle.opinions : c.opinions[a] = cycle.opinions[a]
    BY ONLY <2>2, <2>3 DEF With
  <2> QED
    BY <1>8, <2>1, <2>4
<1>10. /\ DOMAIN c.heard = {Asks[i] : i \in 1..(k + 1)} /\ c.heard[Asked] = heard
       /\ \A a \in {Asks[i] : i \in 1..k} : c.heard[a] = cycle.heard[a]
  <2>1. DOMAIN cycle.heard = {Asks[i] : i \in 1..k}
    BY <1>4 DEF AskedUpTo
  <2>2. c.heard = With(cycle.heard, Asked, heard)
    BY <1>1
  <2>3. Asked \notin DOMAIN cycle.heard
    BY <1>7, <2>1
  <2>4. /\ DOMAIN c.heard = DOMAIN cycle.heard \cup {Asked} /\ c.heard[Asked] = heard
        /\ \A a \in DOMAIN cycle.heard : c.heard[a] = cycle.heard[a]
    BY ONLY <2>2, <2>3 DEF With
  <2> QED
    BY <1>8, <2>1, <2>4
<1>11. /\ \A i \in 1..k : unavailable(Asks[i]) \in c.events <=> unavailable(Asks[i]) \in cycle.events
       /\ unavailable(Asked) \in c.events <=> unavailable(Asked) \in events
       /\ \A i \in (k + 2)..Len(Asks) : unavailable(Asks[i]) \notin c.events
  <2>1. \A i \in 1..k : Asks[i] \in ToSet(Asks) /\ Asks[i] # Asked
    <3>1. \A i \in 1..k : i \in 1..Len(Asks)
      BY <1>5, <1>6
    <3> QED
      BY <1>6, <1>7, <3>1
  <2>2. \A i \in (k + 2)..Len(Asks) : /\ Asks[i] \in ToSet(Asks) /\ Asks[i] # Asked
                                      /\ i \in (k + 1)..Len(Asks)
    <3>1. \A i \in (k + 2)..Len(Asks) : /\ i \in 1..Len(Asks) /\ i # k + 1
                                        /\ i \in (k + 1)..Len(Asks)
      BY <1>5, <1>6
    <3> QED
      BY <1>5, <1>6, <3>1
  <2>3. unavailable(Asked) \notin cycle.events
    <3>1. k + 1 \in (k + 1)..Len(Asks)
      BY <1>5, <1>6
    <3> QED
      BY <1>4, <1>5, <3>1 DEF AskedUpTo
  <2>4. c.events = cycle.events \cup events
    BY <1>1
  <2>5. \A i \in (k + 1)..Len(Asks) : unavailable(Asks[i]) \notin cycle.events
    BY <1>4 DEF AskedUpTo
  <2> HIDE DEF unavailable, c
  <2>6. \A a \in ToSet(Asks) : unavailable(a) \in events => a = Asked
    BY DEF unavailable
  <2> QED
    BY <2>1, <2>2, <2>3, <2>4, <2>5, <2>6
<1>12. ASSUME NEW i \in 1..(k + 1)
       PROVE  Earned(Asks[i], d, c.opinions, c.heard, c.events)
  <2>1. CASE i \in 1..k
    <3>1. Earned(Asks[i], d, cycle.opinions, cycle.heard, cycle.events)
      BY <1>4, <2>1 DEF AskedUpTo
    <3>2. /\ c.opinions[Asks[i]] = cycle.opinions[Asks[i]]
          /\ c.heard[Asks[i]] = cycle.heard[Asks[i]]
          /\ unavailable(Asks[i]) \in c.events <=> unavailable(Asks[i]) \in cycle.events
      BY <1>9, <1>10, <1>11, <2>1
    <3> QED
      BY <3>1, <3>2 DEF Earned
  <2>2. CASE i = k + 1
    <3>1. Asks[i] = Asked
      BY <1>5, <2>2
    <3>2. Earned(Asked, d, c.opinions, c.heard, c.events)
      BY <1>9, <1>10, <1>11 DEF Earned, TheirPrompt
    <3> QED
      BY <3>1, <3>2
  <2> QED
    BY <1>5, <2>1, <2>2
<1>13. /\ c.todo = SubSeq(Asks, (k + 1) + 1, Len(Asks)) /\ c.as_of = d /\ c.phase = "asking"
  <2>1. (k + 1) + 1 = k + 2
    BY <1>5
  <2> QED
    BY <1>1, <1>5, <2>1
<1>14. \A i \in ((k + 1) + 1)..Len(Asks) : unavailable(Asks[i]) \notin c.events
  <2>1. (k + 1) + 1 = k + 2
    BY <1>5
  <2> QED
    BY <1>11, <2>1
<1>15. AskedUpTo(k + 1)'
  BY <1>1, <1>9, <1>10, <1>12, <1>13, <1>14 DEF AskedUpTo
<1>16. k + 1 \in 0..Len(Asks)
  BY <1>5
<1>17. Progress'
  BY <1>1, <1>3, <1>13, <1>15, <1>16 DEF Progress
<1> QED
  BY <1>2, <1>17
-----------------------------------------------------------------------------
(* A completion goes on.                                                   *)

\* A state of a completion of one question, and that it is under way.
CallIs(c, prompt) ==
  /\ c.prompt = prompt /\ c.state \in {"try", "request", "answered", "failed", "raised"}
  /\ \/ c \in [state : {"try", "request"}, prompt : Questions, attempt : Nat, at : Nat]
     \/ c \in [state : {"failed"}, prompt : Questions]
     \/ c \in [state : {"raised"}, prompt : Questions, cause : Uncaught]
     \/ /\ c.state = "answered" /\ c = Answered(c.prompt, c.view)
        /\ c.prompt \in Questions /\ ViewOK(c.view)

LEMMA CallForms ==
  ASSUME NEW prompt \in Questions
  PROVE  /\ CallIs(Calling(prompt), prompt) /\ Calling(prompt).state = "try"
         /\ CallIs(Failed(prompt), prompt) /\ Failed(prompt).state = "failed"
         /\ \A cause \in Uncaught : /\ CallIs(Raised(prompt, cause), prompt)
                                     /\ Raised(prompt, cause).state = "raised"
         /\ \A view : ViewOK(view) => /\ CallIs(Answered(prompt, view), prompt)
                                      /\ Answered(prompt, view).state = "answered"
                                      /\ Answered(prompt, view).view = view
<1>1. CallIs(Calling(prompt), prompt) /\ Calling(prompt).state = "try"
  BY DEF Calling, CallIs
<1>2. CallIs(Failed(prompt), prompt) /\ Failed(prompt).state = "failed"
  BY DEF Failed, CallIs
<1>3. ASSUME NEW cause \in Uncaught
      PROVE  CallIs(Raised(prompt, cause), prompt) /\ Raised(prompt, cause).state = "raised"
  BY DEF Raised, CallIs
<1>4. ASSUME NEW view, ViewOK(view)
      PROVE  /\ CallIs(Answered(prompt, view), prompt)
             /\ Answered(prompt, view).state = "answered"
             /\ Answered(prompt, view).view = view
  BY <1>4 DEF Answered, CallIs
<1> QED
  BY <1>1, <1>2, <1>3, <1>4

\* A completion under way asks what it asked, and is on.
LEMMA CallUnderWay ==
  /\ \A prompt : CallIs(call, prompt) => CallOK /\ call # Idle /\ call.prompt = prompt
  /\ CallOK /\ call # Idle => CallIs(call, call.prompt)
  /\ Idle.state = "idle"
<1>1. Idle.state = "idle"
  BY DEF Idle
<1>2. ASSUME NEW prompt, CallIs(call, prompt)
      PROVE  CallOK /\ call # Idle /\ call.prompt = prompt
  <2>1. call # Idle
    BY <1>1, <1>2 DEF CallIs
  <2> QED
    BY <1>2, <2>1 DEF CallIs, CallOK
<1>3. ASSUME CallOK, call # Idle PROVE CallIs(call, call.prompt)
  BY <1>3 DEF CallOK, CallIs
<1> QED
  BY <1>1, <1>2, <1>3

\* The neutral answer to a question, or none.
LEMMA NullReplies ==
  ASSUME release \in 1..Len(Catalogues), NEW prompt \in Questions
  PROVE  \/ NullReply(prompt) = Failed(prompt)
         \/ \E view : ViewOK(view) /\ NullReply(prompt) = Answered(prompt, view)
<1>1. PICK asked \in ToSet(Asks), d \in Days : prompt = Prompt(asked, d)
  BY DEF Questions
<1>2. Schema(prompt) \in Requested
  BY <1>1, QuestionsAre
<1>3. release \in DOMAIN Catalogues
  BY ProvidersAssumption
<1>4. \/ NullView(prompt) = Unanswerable
      \/ NullView(prompt).stance = "NEUTRAL" /\ NullView(prompt).conviction = NULL_CONVICTION
  BY <1>2, <1>3, ProvidersAssumption DEF NullView
<1>5. CASE NullView(prompt) = Unanswerable
  BY <1>5 DEF NullReply
<1>6. CASE NullView(prompt) # Unanswerable
  <2> DEFINE view == [model |-> "null", stance |-> NullView(prompt).stance,
                      conviction |-> NullView(prompt).conviction,
                      cites |-> <<>>, echoed |-> TRUE]
  <2>1. NullReply(prompt) = Answered(prompt, view)
    BY <1>6 DEF NullReply
  <2>2. ViewOK(view)
    BY <1>4, <1>6 DEF ViewOK, Stances, Convictions, NULL_CONVICTION, ToSet
  <2> QED
    BY <2>1, <2>2
<1> QED
  BY <1>5, <1>6

\* What is found in the cache depends on the files and the versions only.
LEMMA SameFiles ==
  ASSUME UNCHANGED <<stack, release, cached>>, NEW prompt
  PROVE  Cached(prompt)' = Cached(prompt)
BY DEF Cached, cache_key, Fits

\* A step of a completion: the question stays, the files keep their names, and
\* no model is asked what a file answers.
LEMMA StepGoesOn ==
  ASSUME StackOK, FilesOK, Step
  PROVE  /\ call # Idle /\ CallIs(call', call.prompt)
         /\ StackOK' /\ FilesOK' /\ UNCHANGED <<stack, release, limiter>>
<1> DEFINE p == call.prompt
           same == UNCHANGED <<stack, release, limiter>>
<1>1. call.state \in {"try", "request"} /\ same
  BY DEF Step, Hit, Miss, Respond, RespondNull, Fail
<1>2. call # Idle
  BY <1>1, CallUnderWay
<1>3. /\ call \in [state : {"try", "request"}, prompt : Questions, attempt : Nat, at : Nat]
      /\ p \in Questions
  BY <1>1, <1>2 DEF StackOK, CallOK
<1>4. release \in 1..Len(Catalogues)
  BY DEF StackOK
<1>5. ASSUME NEW view, ViewOK(view), call' = Answered(p, view)
      PROVE  CallIs(call', p) /\ call'.state = "answered" /\ call'.view = view
  BY <1>3, <1>5, CallForms
<1>6. ASSUME call' = NullReply(p)
      PROVE  /\ CallIs(call', p) /\ call'.state \in {"answered", "failed"}
             /\ call'.state = "answered" => ViewOK(call'.view)
  <2>1. CASE NullReply(p) = Failed(p)
    BY <1>3, <1>6, <2>1, CallForms
  <2>2. CASE \E view : ViewOK(view) /\ NullReply(p) = Answered(p, view)
    BY <1>5, <1>6, <2>2
  <2> QED
    BY <1>3, <1>4, <2>1, <2>2, NullReplies
<1>7. ASSUME NEW view, ViewOK(view),
             cached' = IF stack.caching THEN Put(p, view) ELSE cached
      PROVE  \A c \in cached' : /\ c.key = [provider |-> stack.selected, schema |-> Schema(c.about),
                                            shape |-> c.key.shape, user |-> c.about]
                                /\ ViewOK(c.view)
  <2>1. ASSUME NEW c \in cached', c \notin cached
        PROVE  /\ c.key = [provider |-> stack.selected, schema |-> Schema(c.about),
                           shape |-> c.key.shape, user |-> c.about]
               /\ ViewOK(c.view)
    <3>1. c = [key |-> cache_key(p), view |-> view, about |-> p,
               written |-> Catalogues[release]]
      BY <1>7, <2>1 DEF Put
    <3>2. c.key = cache_key(p) /\ c.about = p /\ c.view = view
      BY <3>1
    <3>3. cache_key(p) = [provider |-> stack.selected, schema |-> Schema(p),
                          shape |-> cache_key(p).shape, user |-> p]
      BY DEF cache_key
    <3> QED
      BY <1>7, <3>2, <3>3
  <2> QED
    BY <2>1 DEF FilesOK
<1>8. ASSUME CallIs(call', p), call'.state # "request",
             \A c \in cached' : /\ c.key = [provider |-> stack.selected, schema |-> Schema(c.about),
                                            shape |-> c.key.shape, user |-> c.about]
                                /\ ViewOK(c.view)
      PROVE  StackOK' /\ FilesOK'
  <2>1. CallOK'
    BY <1>8 DEF CallIs, CallOK
  <2>2. StackOK'
    BY <1>1, <2>1 DEF StackOK
  <2>3. FilesOK'
    BY <1>1, <1>8 DEF FilesOK
  <2> QED
    BY <2>2, <2>3
<1>9. ASSUME UNCHANGED cached
      PROVE  \A c \in cached' : /\ c.key = [provider |-> stack.selected, schema |-> Schema(c.about),
                                            shape |-> c.key.shape, user |-> c.about]
                                /\ ViewOK(c.view)
  BY <1>9 DEF FilesOK
<1>10. ASSUME NEW s \in {"try", "request"}, NEW n \in Nat, NEW x \in Nat,
              call' = [call EXCEPT !.state = s, !.attempt = n, !.at = x]
       PROVE  CallIs(call', p) /\ call'.state = s
  BY <1>3, <1>10 DEF CallIs
<1>11. CASE Hit
  <2>1. PICK c \in Cached(p) : call' = Answered(p, c.view)
    BY <1>11 DEF Hit
  <2>2. c \in cached /\ ViewOK(c.view)
    BY <2>1 DEF Cached, FilesOK
  <2>3. CallIs(call', p) /\ call'.state = "answered" /\ UNCHANGED cached
    BY <1>5, <1>11, <2>1, <2>2 DEF Hit
  <2> QED
    BY <1>1, <1>2, <1>8, <1>9, <2>3
<1>12. CASE Miss
  <2>1. call' = [call EXCEPT !.state = "request", !.attempt = call.attempt, !.at = 1]
    BY <1>3, <1>12 DEF Miss
  <2>2. CallIs(call', p) /\ call'.state = "request" /\ call'.prompt = p /\ UNCHANGED cached
    <3>1. call.attempt \in Nat /\ 1 \in Nat
      BY <1>3
    <3> QED
      BY <1>10, <1>12, <2>1, <3>1 DEF Miss, CallIs
  <2>3. CallOK'
    BY <2>2 DEF CallIs, CallOK
  <2>4. stack.caching => Cached(p)' = {}
    BY <1>1, <1>12, <2>2, SameFiles DEF Miss
  <2>5. StackOK'
    BY <1>1, <2>3 DEF StackOK
  <2>6. FilesOK'
    BY <1>1, <1>9, <2>2, <2>4 DEF FilesOK
  <2> QED
    BY <1>1, <1>2, <2>2, <2>5, <2>6
<1>13. CASE RespondNull
  <2>1. /\ call' = NullReply(p)
        /\ cached' = IF stack.caching /\ call'.state = "answered"
                     THEN Put(p, call'.view) ELSE cached
    BY <1>13 DEF RespondNull
  <2>2. /\ CallIs(call', p) /\ call'.state # "request"
        /\ call'.state = "answered" => ViewOK(call'.view)
    BY <1>6, <2>1
  <2>3. \A c \in cached' : /\ c.key = [provider |-> stack.selected, schema |-> Schema(c.about),
                                       shape |-> c.key.shape, user |-> c.about]
                           /\ ViewOK(c.view)
    <3>1. CASE call'.state = "answered"
      BY <1>7, <2>1, <2>2, <3>1
    <3>2. CASE call'.state # "answered"
      BY <1>9, <2>1, <3>2
    <3> QED
      BY <3>1, <3>2
  <2> QED
    BY <1>1, <1>2, <1>8, <2>2, <2>3
<1>14. CASE \E view \in Views(p) : Respond(view)
  <2>1. PICK view \in Views(p) : Respond(view)
    BY <1>14
  <2>2. ViewOK(view)
    BY <1>3, ViewsAssumption DEF ViewOK
  <2>3. /\ call' = Answered(p, view)
        /\ cached' = IF stack.caching THEN Put(p, view) ELSE cached
    BY <2>1 DEF Respond
  <2>4. CallIs(call', p) /\ call'.state # "request"
    BY <1>5, <2>2, <2>3
  <2> QED
    BY <1>1, <1>2, <1>7, <1>8, <2>2, <2>3, <2>4
<1>15. CASE \E outcome \in Unavailable \cup Nonsense \cup Unexpected : Fail(outcome)
  <2>1. /\ call.state = "request" /\ UNCHANGED cached
        /\ \/ call' = [call EXCEPT !.at = @ + 1]
           \/ call' = [call EXCEPT !.state = "try", !.attempt = @ + 1]
           \/ call' = NullReply(p)
           \/ call' = Failed(p)
           \/ \E cause \in Uncaught : call' = Raised(p, cause)
    BY <1>15 DEF Fail, Fallback, Uncaught
  <2>2. CASE call' = [call EXCEPT !.at = @ + 1]
    <3>1. call' = [call EXCEPT !.state = "request", !.attempt = call.attempt, !.at = call.at + 1]
      BY <1>3, <2>1, <2>2
    <3>2. CallIs(call', p) /\ call'.state = "request" /\ call'.prompt = p
      <4>1. call.attempt \in Nat /\ call.at + 1 \in Nat
        BY <1>3
      <4> QED
        BY <1>10, <3>1, <4>1 DEF CallIs
    <3>3. CallOK'
      BY <3>2 DEF CallIs, CallOK
    <3>4. stack.caching => Cached(p)' = {}
      <4>1. UNCHANGED <<stack, release, cached>>
        BY <1>1, <2>1
      <4>2. stack.caching => Cached(p) = {}
        BY <2>1 DEF FilesOK
      <4> QED
        BY <3>2, <4>1, <4>2, SameFiles
    <3>5. StackOK'
      BY <1>1, <3>3 DEF StackOK
    <3>6. FilesOK'
      BY <1>1, <1>9, <2>1, <3>2, <3>4 DEF FilesOK
    <3> QED
      BY <1>1, <1>2, <3>2, <3>5, <3>6
  <2>3. CASE call' = [call EXCEPT !.state = "try", !.attempt = @ + 1]
    <3>1. call' = [call EXCEPT !.state = "try", !.attempt = call.attempt + 1, !.at = call.at]
      BY <1>3, <2>3
    <3>2. call.attempt + 1 \in Nat /\ call.at \in Nat
      BY <1>3
    <3>3. CallIs(call', p) /\ call'.state # "request"
      BY <1>10, <3>1, <3>2
    <3> QED
      BY <1>1, <1>2, <1>8, <1>9, <2>1, <3>3
  <2>4. CASE \/ call' \in {NullReply(p), Failed(p)}
              \/ \E cause \in Uncaught : call' = Raised(p, cause)
    <3>1. CallIs(call', p) /\ call'.state # "request"
      BY <1>3, <1>6, <2>4, CallForms
    <3> QED
      BY <1>1, <1>2, <1>8, <1>9, <2>1, <3>1
  <2> QED
    BY <2>1, <2>2, <2>3, <2>4
<1> QED
  BY <1>11, <1>12, <1>13, <1>14, <1>15 DEF Step
-----------------------------------------------------------------------------
(* The invariant is kept.                                                  *)

\* The limiter takes steps of its own only.
LEMMA LimiterGoesOn == Next => [BucketNext]_limiter
<1> SUFFICES ASSUME Next PROVE [BucketNext]_limiter
  OBVIOUS
<1>1. CASE \E as_of \in Days : Begin(as_of)
  BY <1>1 DEF Begin, providers
<1>2. CASE Ask
  BY <1>2 DEF Ask, Complete, BucketNext
<1>3. CASE Skip
  BY <1>3 DEF Skip, providers
<1>4. CASE Hear \/ Degrade \/ Abort
  BY <1>4 DEF Hear, Degrade, Abort
<1>5. CASE Finish
  BY <1>5 DEF Finish, providers
<1>6. CASE Step
  BY <1>6 DEF Step, Hit, Miss, Respond, RespondNull, Fail
<1>7. CASE Clock
  BY <1>7 DEF Clock, BucketNext
<1>8. CASE Release
  BY <1>8 DEF Release, NextRelease, BucketNext
<1> QED
  BY <1>1, <1>2, <1>3, <1>4, <1>5, <1>6, <1>7, <1>8 DEF Next

LEMMA OpinionTypes ==
  ASSUME NEW view, ViewOK(view), NEW prompt
  PROVE  /\ Opinion(view, prompt).stance \in Stances
         /\ Opinion(view, prompt).conviction \in Convictions
BY DEF ViewOK, Opinion, research_opinion, NEUTRAL, Stances, Convictions

\* An answer is not on record as a failure.
LEMMA AuditedIsOther ==
  ASSUME NEW view, NEW prompt, NEW a
  PROVE  Event("AGENT_UNAVAILABLE", a) \notin Audited(view, prompt)
BY DEF Audited, Event

\* Nothing but the cycle moves on.
LEMMA Frame ==
  ASSUME UNCHANGED cycle, CycleOK, Progress
  PROVE  CycleOK' /\ Progress'
BY DEF CycleOK, Progress, AskedUpTo

\* The agent whose turn it is asks one of the questions.
LEMMA TheirQuestion ==
  ASSUME Progress, cycle.phase = "asking", cycle.todo # <<>>
  PROVE  /\ Asked \in ToSet(Asks) /\ TheirPrompt = Prompt(Asked, cycle.as_of)
         /\ TheirPrompt \in Questions /\ TheirPrompt.shown = Shown(Asked, cycle.as_of)
         /\ TheirPrompt.agent = Asked[1] /\ TheirPrompt.symbol = Asked[2]
<1>1. PICK k \in 0..Len(Asks) : AskedUpTo(k)
  BY DEF Progress
<1>2. Asked \in ToSet(Asks) /\ cycle.as_of \in Days
  BY <1>1, NextTurn DEF Progress
<1> QED
  BY <1>2, QuestionsAre DEF TheirPrompt

\* When no completion is under way any version of the stack will do.
LEMMA AtRest ==
  ASSUME StackOK, FilesOK, call' = Idle, UNCHANGED <<stack, cached>>,
         release' \in 1..Len(Catalogues)
  PROVE  StackOK' /\ FilesOK' /\ InTurn'
<1>1. call'.state = "idle"
  BY DEF Idle
<1>2. StackOK'
  BY DEF StackOK, CallOK
<1>3. FilesOK'
  BY <1>1 DEF FilesOK
<1>4. InTurn'
  BY DEF InTurn
<1> QED
  BY <1>2, <1>3, <1>4

LEMMA BeginKeeps ==
  ASSUME IInv, NEW as_of \in Days, Begin(as_of)
  PROVE  StackOK' /\ FilesOK' /\ CycleOK' /\ InTurn' /\ Progress'
<1>1. call = Idle
  BY DEF IInv, InTurn, Begin
<1>2. StackOK' /\ FilesOK' /\ InTurn'
  BY <1>1, AtRest DEF IInv, StackOK, Begin, providers
<1>3. cycle' = [phase |-> "asking", as_of |-> as_of, todo |-> Asks,
                opinions |-> <<>>, heard |-> <<>>, events |-> {}, cause |-> ""]
  BY DEF Begin, Fresh
<1>4. CycleOK'
  BY <1>3 DEF CycleOK
<1>5. /\ 0 \in 0..Len(Asks) /\ Asks = SubSeq(Asks, 0 + 1, Len(Asks))
      /\ {Asks[i] : i \in 1..0} = {} /\ 1..0 = {}
  BY AsksAre, SubSeqFull
<1>6. AskedUpTo(0)'
  <2>1. cycle'.todo = Asks /\ cycle'.events = {} /\ cycle'.opinions = <<>> /\ cycle'.heard = <<>>
    BY <1>3
  <2>2. DOMAIN <<>> = {}
    OBVIOUS
  <2> QED
    BY <1>5, <2>1, <2>2 DEF AskedUpTo
<1>7. Progress'
  BY <1>3, <1>5, <1>6 DEF Progress
<1> QED
  BY <1>2, <1>4, <1>7

LEMMA AskKeeps ==
  ASSUME IInv, Ask
  PROVE  StackOK' /\ FilesOK' /\ CycleOK' /\ InTurn' /\ Progress'
<1>1. /\ cycle.phase = "asking" /\ cycle.todo # <<>> /\ ~Silent
      /\ UNCHANGED <<cycle, stack, release, cached>>
      /\ call' \in {Raised(TheirPrompt, Forbidden), Calling(TheirPrompt),
                    NullReply(TheirPrompt)}
  BY DEF Ask, Complete, Fallback
<1>2. TheirPrompt \in Questions
  BY <1>1, TheirQuestion DEF IInv
<1>3. CallIs(call', TheirPrompt) /\ call'.state # "request"
  <2>1. Forbidden \in Uncaught
    BY DEF Uncaught
  <2> QED
    BY <1>1, <1>2, <2>1, CallForms, NullReplies DEF IInv, StackOK
<1>4. CallOK' /\ call'.prompt = TheirPrompt
  BY <1>3 DEF CallIs, CallOK
<1>5. StackOK' /\ FilesOK'
  BY <1>1, <1>3, <1>4 DEF IInv, StackOK, FilesOK
<1>6. InTurn'
  BY <1>1, <1>4 DEF InTurn, TheirPrompt, Asked, Silent
<1> QED
  BY <1>1, <1>5, <1>6, Frame DEF IInv

LEMMA StepKeeps ==
  ASSUME IInv, Step, UNCHANGED <<cycle, cycles>>
  PROVE  StackOK' /\ FilesOK' /\ CycleOK' /\ InTurn' /\ Progress'
<1>1. call # Idle /\ CallIs(call', call.prompt) /\ StackOK' /\ FilesOK'
  BY StepGoesOn DEF IInv
<1>2. call'.prompt = call.prompt
  BY <1>1 DEF CallIs
<1>3. InTurn'
  BY <1>1, <1>2 DEF IInv, InTurn, TheirPrompt, Asked, Silent
<1> QED
  BY <1>1, <1>3, Frame DEF IInv

LEMMA SkipKeeps ==
  ASSUME IInv, Skip
  PROVE  StackOK' /\ FilesOK' /\ CycleOK' /\ InTurn' /\ Progress'
<1>1. /\ cycle.phase = "asking" /\ cycle.todo # <<>> /\ Silent
      /\ Conclude(NEUTRAL, {}, {}) /\ UNCHANGED <<stack, release, cached, call>>
  BY DEF Skip, providers
<1>2. call' = Idle /\ release' \in 1..Len(Catalogues)
  BY <1>1 DEF IInv, InTurn, StackOK
<1>3. Shown(Asked, cycle.as_of) = {}
  BY <1>1, TheirQuestion DEF IInv, Silent
<1>4. NEUTRAL.stance \in Stances /\ NEUTRAL.conviction \in Convictions
  BY DEF NEUTRAL, Stances, Convictions
<1>5. CycleOK' /\ Progress'
  BY <1>1, <1>3, <1>4, Concluding DEF IInv
<1>6. StackOK' /\ FilesOK' /\ InTurn'
  BY <1>1, <1>2, AtRest DEF IInv
<1> QED
  BY <1>5, <1>6

LEMMA HearKeeps ==
  ASSUME IInv, Hear
  PROVE  StackOK' /\ FilesOK' /\ CycleOK' /\ InTurn' /\ Progress'
<1> DEFINE v == call.view p == call.prompt
<1>1. /\ call.state = "answered" /\ Conclude(Opinion(v, p), {v}, Audited(v, p))
      /\ call' = Idle /\ UNCHANGED <<stack, release, cached>>
  BY DEF Hear
<1>2. call # Idle /\ release \in 1..Len(Catalogues)
  BY <1>1, CallUnderWay DEF IInv, StackOK
<1>3. ViewOK(v)
  BY <1>1, <1>2 DEF IInv, StackOK, CallOK
<1>4. cycle.phase = "asking" /\ cycle.todo # <<>> /\ p = TheirPrompt
  BY <1>2 DEF IInv, InTurn
<1>5. CycleOK' /\ Progress'
  <2>1. Opinion(v, p).stance \in Stances /\ Opinion(v, p).conviction \in Convictions
    BY <1>3, OpinionTypes
  <2>2. \A view \in {v} : ViewOK(view) /\ Opinion(v, p) = Opinion(view, TheirPrompt)
    BY <1>3, <1>4
  <2>3. \A a \in ToSet(Asks) : Event("AGENT_UNAVAILABLE", a) \in Audited(v, p) => a = Asked
    BY AuditedIsOther
  <2> HIDE DEF v, p
  <2> QED
    BY <1>1, <1>4, <2>1, <2>2, <2>3, Concluding DEF IInv
<1>6. StackOK' /\ FilesOK' /\ InTurn'
  BY <1>1, <1>2, AtRest DEF IInv
<1> QED
  BY <1>5, <1>6

LEMMA DegradeKeeps ==
  ASSUME IInv, Degrade
  PROVE  StackOK' /\ FilesOK' /\ CycleOK' /\ InTurn' /\ Progress'
<1> DEFINE E == {Event("AGENT_UNAVAILABLE", Asked)}
<1>1. /\ call.state = "failed" /\ Conclude(NEUTRAL, {}, E)
      /\ call' = Idle /\ UNCHANGED <<stack, release, cached>>
  BY DEF Degrade
<1>2. call # Idle /\ release \in 1..Len(Catalogues)
  BY <1>1, CallUnderWay DEF IInv, StackOK
<1>3. cycle.phase = "asking" /\ cycle.todo # <<>> /\ ~Silent
  BY <1>2 DEF IInv, InTurn
<1>4. Shown(Asked, cycle.as_of) # {} /\ Asked \in ToSet(Asks)
  BY <1>3, TheirQuestion DEF IInv, Silent
<1>5. NEUTRAL.stance \in Stances /\ NEUTRAL.conviction \in Convictions
  BY DEF NEUTRAL, Stances, Convictions
<1>6. CycleOK' /\ Progress'
  <2>1. Event("AGENT_UNAVAILABLE", Asked) \in E
    OBVIOUS
  <2>2. \A a \in ToSet(Asks) : Event("AGENT_UNAVAILABLE", a) \in E => a = Asked
    BY <1>4, EventsDiffer
  <2> HIDE DEF E
  <2> QED
    BY <1>1, <1>3, <1>4, <1>5, <2>1, <2>2, Concluding DEF IInv
<1>7. StackOK' /\ FilesOK' /\ InTurn'
  BY <1>1, <1>2, AtRest DEF IInv
<1> QED
  BY <1>6, <1>7

LEMMA EndKeeps ==
  ASSUME IInv, Abort \/ Finish
  PROVE  StackOK' /\ FilesOK' /\ CycleOK' /\ InTurn' /\ Progress'
<1>1. CASE Abort
  <2>1. /\ cycle' = [cycle EXCEPT !.phase = "aborted", !.cause = call.cause]
        /\ call.state = "raised" /\ call' = Idle /\ UNCHANGED <<stack, release, cached>>
    BY <1>1 DEF Abort
  <2>2. call # Idle /\ release \in 1..Len(Catalogues)
    BY <2>1, CallUnderWay DEF IInv, StackOK
  <2>3. call.cause \in Uncaught /\ cycle.phase = "asking"
    BY <2>1, <2>2 DEF IInv, StackOK, CallOK, InTurn
  <2>4. /\ CycleOK' /\ cycle'.phase = "aborted" /\ cycle'.cause = call.cause
        /\ cycle'.as_of = cycle.as_of /\ cycle'.todo = cycle.todo
        /\ cycle'.opinions = cycle.opinions /\ cycle'.heard = cycle.heard
        /\ cycle'.events = cycle.events
    BY <2>1 DEF IInv, CycleOK
  <2>5. Progress'
    <3>1. cycle.as_of \in Days /\ \E k \in 0..Len(Asks) : AskedUpTo(k)
      BY <2>3 DEF IInv, Progress
    <3>2. ASSUME NEW k \in 0..Len(Asks), AskedUpTo(k) PROVE AskedUpTo(k)'
      BY <2>4, <3>2 DEF AskedUpTo
    <3> QED
      BY <2>3, <2>4, <3>1, <3>2 DEF Progress
  <2>6. StackOK' /\ FilesOK' /\ InTurn'
    BY <2>1, <2>2, AtRest DEF IInv
  <2> QED
    BY <2>4, <2>5, <2>6
<1>2. CASE Finish
  <2>1. /\ cycle.phase = "asking" /\ cycle.todo = <<>>
        /\ cycle' = [cycle EXCEPT !.phase = "done"] /\ UNCHANGED <<stack, release, cached, call>>
    BY <1>2 DEF Finish, providers
  <2>2. call = Idle /\ release \in 1..Len(Catalogues)
    BY <2>1 DEF IInv, InTurn, StackOK
  <2>3. /\ CycleOK' /\ cycle'.phase = "done" /\ cycle'.todo = cycle.todo
        /\ cycle'.as_of = cycle.as_of /\ cycle'.opinions = cycle.opinions
        /\ cycle'.heard = cycle.heard /\ cycle'.events = cycle.events
    BY <2>1 DEF IInv, CycleOK
  <2>4. Progress'
    <3>1. cycle.as_of \in Days /\ \E k \in 0..Len(Asks) : AskedUpTo(k)
      BY <2>1 DEF IInv, Progress
    <3>2. ASSUME NEW k \in 0..Len(Asks), AskedUpTo(k) PROVE AskedUpTo(k)'
      BY <2>3, <3>2 DEF AskedUpTo
    <3> QED
      BY <2>1, <2>3, <3>1, <3>2 DEF Progress
  <2>5. StackOK' /\ FilesOK' /\ InTurn'
    BY <2>1, <2>2, AtRest DEF IInv
  <2> QED
    BY <2>3, <2>4, <2>5
<1> QED
  BY <1>1, <1>2

\* Time passes and versions change between completions.
LEMMA WorldKeeps ==
  ASSUME IInv, (Clock /\ UNCHANGED <<cycle, cycles>>) \/ Release
  PROVE  StackOK' /\ FilesOK' /\ CycleOK' /\ InTurn' /\ Progress'
<1>1. CASE Clock /\ UNCHANGED <<cycle, cycles>>
  <2>1. call' = Idle /\ release' \in 1..Len(Catalogues) /\ UNCHANGED <<stack, cached, cycle>>
    BY <1>1 DEF IInv, StackOK, Clock
  <2> QED
    BY <2>1, AtRest, Frame DEF IInv
<1>2. CASE Release
  <2>1. call' = Idle /\ UNCHANGED <<stack, cached, cycle>>
    BY <1>2 DEF IInv, InTurn, Release, NextRelease
  <2>2. release' \in 1..Len(Catalogues)
    <3>1. Len(Catalogues) \in Nat
      BY ProvidersAssumption
    <3> QED
      BY <1>2, <3>1 DEF IInv, StackOK, Release, NextRelease
  <2> QED
    BY <2>1, <2>2, AtRest, Frame DEF IInv
<1> QED
  BY <1>1, <1>2

LEMMA Initially == Init => IInv
<1> SUFFICES ASSUME Init PROVE IInv
  OBVIOUS
<1>1. /\ call = Idle /\ cached = {} /\ stack \in Stacks /\ release = 1 /\ BucketInit
      /\ cycle = Resting
  BY DEF Init, ProvidersInit
<1>2. Len(Catalogues) \in Nat /\ Len(Catalogues) >= 1
  BY ProvidersAssumption
<1>3. StackOK
  BY <1>1, <1>2 DEF StackOK, CallOK
<1>4. FilesOK
  BY <1>1 DEF FilesOK, Idle
<1>5. CycleOK /\ cycle.phase = "idle"
  BY <1>1 DEF CycleOK, Resting, Fresh
<1>6. InTurn /\ Progress
  BY <1>1, <1>5 DEF InTurn, Progress
<1> QED
  BY <1>1, <1>3, <1>4, <1>5, <1>6, BucketInitially DEF IInv

LEMMA NextKeeps == IInv /\ [Next]_vars => IInv'
<1> SUFFICES ASSUME IInv, [Next]_vars PROVE IInv'
  OBVIOUS
<1>1. BucketIInv'
  <2>1. [BucketNext]_limiter
    BY LimiterGoesOn DEF vars, providers
  <2> QED
    BY <2>1, BucketKept DEF IInv
<1>2. CASE Next
  BY <1>1, <1>2, BeginKeeps, AskKeeps, SkipKeeps, HearKeeps, DegradeKeeps, EndKeeps,
     StepKeeps, WorldKeeps DEF Next, IInv
<1>3. CASE UNCHANGED vars
  <2>1. UNCHANGED <<stack, release, cached, call, cycle>>
    BY <1>3 DEF vars, providers
  <2>2. CallOK' /\ StackOK'
    BY <2>1 DEF IInv, StackOK, CallOK
  <2>3. FilesOK'
    <3>1. Cached(call.prompt)' = Cached(call.prompt)
      BY <2>1 DEF Cached, cache_key, Fits
    <3> QED
      BY <2>1, <3>1 DEF IInv, FilesOK
  <2>4. InTurn'
    BY <2>1 DEF IInv, InTurn, TheirPrompt, Asked, Silent
  <2> QED
    BY <1>1, <2>1, <2>2, <2>3, <2>4, Frame DEF IInv
<1> QED
  BY <1>2, <1>3

\* The inductive invariant of the pipeline, its provider stack and its cache
\* holds throughout.
THEOREM Invariance == Spec => []IInv
BY Initially, NextKeeps, PTL DEF Spec

\* The provider stack of a run of cycles asks no more often than its bucket
\* allows, across failures, retries, releases and a clock that steps back.
THEOREM CyclesKeepTheBudget == Spec => []CallsWithinBudget
<1>1. IInv => CallsWithinBudget
  BY DEF IInv, BucketIInv
<1> QED
  BY <1>1, Invariance, PTL

-----------------------------------------------------------------------------
(* Opinions.                                                               *)

\* The news an agent is shown are those of the decision day and of the days
\* before it that count: to cite only what was shown is to be grounded.
LEMMA EarnedIsGrounded ==
  ASSUME NEW asked \in ToSet(Asks), cycle.as_of \in Days, NEW view, ViewOK(view)
  PROVE  Opinion(view, Prompt(asked, cycle.as_of)) =
           IF Grounded(view, Prompt(asked, cycle.as_of))
           THEN [stance |-> view.stance, conviction |-> view.conviction]
           ELSE NEUTRAL
<1> DEFINE d == cycle.as_of
           p == Prompt(asked, d)
<1>1. p.agent = asked[1] /\ p.symbol = asked[2] /\ p.shown = Shown(asked, d)
  BY QuestionsAre
<1>2. CASE asked[1] # "research"
  BY <1>1, <1>2 DEF Opinion, Grounded
<1>3. CASE asked[1] = "research"
  <2>1. asked[2] \in ToSet(Symbols)
    BY <1>3, AsksAre
  <2>2. p.shown = visible_headlines(asked[2], d)
    BY <1>1, <1>3 DEF Shown
  <2>3. Uncited(view) <=> ~(Len(view.cites) >= minimum_citations)
    <3>1. Len(view.cites) \in Nat
      BY DEF ViewOK
    <3> QED
      BY <3>1, ViewsAssumption DEF Uncited
  <2>4. \A h \in Headlines[asked[2]] :
          h \in visible_headlines(asked[2], d) <=> h.published \in (d - LOOKBACK)..d
    <3> TAKE h \in Headlines[asked[2]]
    <3>1. h.published \in Nat /\ d \in Nat /\ LOOKBACK \in Nat
      BY <2>1, ViewsAssumption
    <3> QED
      BY <3>1 DEF visible_headlines
  <2>5. Invented(view, p) = {} <=>
          \A url \in ToSet(view.cites) : \E h \in Headlines[asked[2]] :
            h.url = url /\ h.published \in (d - LOOKBACK)..d
    <3>1. Invented(view, p) = {} <=> \A url \in ToSet(view.cites) : \E h \in p.shown : h.url = url
      BY DEF Invented
    <3>2. visible_headlines(asked[2], d) \subseteq Headlines[asked[2]]
      BY DEF visible_headlines
    <3> QED
      BY <2>2, <2>4, <3>1, <3>2
  <2>6. Grounded(view, p) <=> ~Uncited(view) /\ Invented(view, p) = {}
    <3> HIDE DEF p
    <3> QED
      BY <1>1, <1>3, <2>3, <2>5 DEF Grounded
  <2>7. Opinion(view, p) = IF Grounded(view, p)
                           THEN [stance |-> view.stance, conviction |-> view.conviction]
                           ELSE NEUTRAL
    <3> HIDE DEF p
    <3> QED
      BY <1>1, <1>3, <2>6 DEF Opinion, research_opinion
  <2> QED
    BY <2>7
<1> QED
  BY <1>2, <1>3

\* The tilt of opinions of the right type stays within the table's largest,
\* and there is none where nobody has a view.
LEMMA TiltsAreBounded ==
  ASSUME NEW opinions,
         \A agent \in Agents : opinions[agent].stance \in Stances
                               /\ opinions[agent].conviction \in Convictions
  PROVE  /\ aggregate(opinions) <= mapping.max_absolute_tilt * WeightUnits
         /\ -aggregate(opinions) <= mapping.max_absolute_tilt * WeightUnits
         /\ (\A agent \in Agents : opinions[agent].stance = "NEUTRAL") => aggregate(opinions) = 0
<1> DEFINE at(agent) == contribution(agent, opinions[agent])
           limit == mapping.max_absolute_tilt * WeightUnits
           total == at("fundamental") + at("macro") + at("research")
<1>1. ASSUME NEW agent \in Agents
      PROVE  /\ at(agent) \in Int
             /\ opinions[agent].stance = "NEUTRAL" => at(agent) = 0
  <2> DEFINE s == opinions[agent].stance
             c == opinions[agent].conviction
             w == mapping.weights[agent]
             t == mapping.tilts[s][c]
  <2>1. s \in Stances /\ c \in Convictions
    OBVIOUS
  <2>2. w \in Int /\ t \in Int
    BY <2>1, MappingAssumption DEF mapping_from_document
  <2>3. s = "NEUTRAL" => t = 0
    BY <2>1, MappingAssumption DEF mapping_from_document
  <2>4. at(agent) = w * t
    BY DEF contribution
  <2> HIDE DEF s, c, w, t, at
  <2>5. w * t \in Int /\ (t = 0 => w * t = 0)
    BY <2>2
  <2> QED
    BY <2>3, <2>4, <2>5 DEF s
<1>2. limit \in Nat
  <2>1. mapping.max_absolute_tilt \in Nat /\ WeightUnits \in Nat
    BY MappingAssumption DEF mapping_from_document
  <2> QED
    BY <2>1
<1>3. aggregate(opinions) = IF total > limit THEN limit
                            ELSE IF total < -limit THEN -limit ELSE total
  BY DEF aggregate, Clamped
<1>4. "fundamental" \in Agents /\ "macro" \in Agents /\ "research" \in Agents
  BY DEF Agents
<1>5. /\ at("fundamental") \in Int /\ at("macro") \in Int /\ at("research") \in Int
  BY <1>1, <1>4
<1>6. (\A agent \in Agents : opinions[agent].stance = "NEUTRAL") => total = 0
  <2> HIDE DEF at
  <2> QED
    BY <1>1, <1>4
<1>7. total \in Int
  <2> HIDE DEF at
  <2> QED
    BY <1>5
<1> HIDE DEF total, limit
<1>8. aggregate(opinions) <= limit /\ -aggregate(opinions) <= limit
  BY <1>2, <1>3, <1>7
<1>9. total = 0 => aggregate(opinions) = 0
  BY <1>2, <1>3
<1> QED
  BY <1>6, <1>8, <1>9 DEF limit

\* As many agents have been asked as are off the list.
LEMMA AskedAre ==
  ASSUME NEW k \in 0..Len(Asks), AskedUpTo(k)
  PROVE  Len(cycle.todo) = Len(Asks) - k /\ Len(Asks) \in Nat
<1>1. Len(Asks) \in Nat /\ Asks \in Seq(ToSet(Asks)) /\ k \in Nat /\ k <= Len(Asks)
  BY AsksAre
<1>2. Asks \in Seq(ToSet(Asks)) /\ k + 1 \in Int /\ k + 1 \in 1..(Len(Asks) + 1)
  BY <1>1
<1>3. \A i \in (k + 1)..Len(Asks) : Asks[i] \in ToSet(Asks)
  BY <1>1, AsksAre
<1>4. Len(SubSeq(Asks, k + 1, Len(Asks))) =
        IF k + 1 <= Len(Asks) THEN Len(Asks) - (k + 1) + 1 ELSE 0
  BY <1>1, <1>2, <1>3, SubSeqProperties
<1> QED
  BY <1>1, <1>4 DEF AskedUpTo

\* At any time each agent whose turn was has an opinion, and nobody else: the
\* one that was heard if news of the day bear it out, NEUTRAL if not or if an
\* outage was answered for it, and NEUTRAL and on record if its stack failed.  A
\* cycle ends early only by an exception no wrapper knows; of one that ends in
\* time nobody was left out, and the tilts are bounded.
THEOREM OpinionsEarned == Spec => []OpinionsAreEarned
<1>1. IInv => OpinionsAreEarned
  <2> SUFFICES ASSUME IInv, cycle.phase # "idle"
               PROVE  OpinionsAreEarned
    BY DEF OpinionsAreEarned
  <2> DEFINE d == cycle.as_of
  <2>1. /\ d \in Days
        /\ \E k \in 0..Len(Asks) : AskedUpTo(k)
        /\ cycle.phase = "done" => cycle.todo = <<>>
        /\ cycle.phase = "aborted" => cycle.cause \in Unexpected \cup {Forbidden}
    BY DEF IInv, Progress, Uncaught
  <2>2. PICK k \in 0..Len(Asks) : AskedUpTo(k)
    BY <2>1
  <2>3. Len(Asks) - Len(cycle.todo) = k /\ k \in Nat /\ k <= Len(Asks) /\ Len(Asks) \in Nat
    <3>1. Len(cycle.todo) = Len(Asks) - k /\ Len(Asks) \in Nat
      BY <2>2, AskedAre
    <3> QED
      BY <3>1
  <2>4. DOMAIN cycle.opinions = {Asks[i] : i \in 1..(Len(Asks) - Len(cycle.todo))}
    BY <2>2, <2>3 DEF AskedUpTo
  <2>5. ASSUME NEW asked \in DOMAIN cycle.opinions
        PROVE  /\ asked \in ToSet(Asks)
               /\ Earned(asked, d, cycle.opinions, cycle.heard, cycle.events)
    <3>1. PICK i \in 1..k : asked = Asks[i]
      BY <2>2 DEF AskedUpTo
    <3>2. i \in 1..Len(Asks)
      BY <2>3
    <3> QED
      BY <2>2, <3>1, <3>2, AsksAre DEF AskedUpTo
  <2>6. ASSUME NEW asked \in DOMAIN cycle.opinions
        PROVE  LET prompt == Prompt(asked, cycle.as_of)
                   opinion == cycle.opinions[asked]
               IN /\ \A view \in cycle.heard[asked] :
                       /\ opinion = IF Grounded(view, prompt)
                                    THEN [stance |-> view.stance, conviction |-> view.conviction]
                                    ELSE NEUTRAL
                       /\ view.model = "null" => opinion = NEUTRAL
                  /\ cycle.heard[asked] = {} =>
                       /\ opinion = NEUTRAL
                       /\ prompt.shown # {} <=> Event("AGENT_UNAVAILABLE", asked) \in cycle.events
    <3>1. Earned(asked, d, cycle.opinions, cycle.heard, cycle.events) /\ asked \in ToSet(Asks)
      BY <2>5
    <3>2. Prompt(asked, d).shown = Shown(asked, d)
      BY <3>1, QuestionsAre
    <3>3. ASSUME NEW view \in cycle.heard[asked]
          PROVE  /\ cycle.opinions[asked] =
                      IF Grounded(view, Prompt(asked, d))
                      THEN [stance |-> view.stance, conviction |-> view.conviction]
                      ELSE NEUTRAL
                 /\ view.model = "null" => cycle.opinions[asked] = NEUTRAL
      <4>1. ViewOK(view) /\ cycle.opinions[asked] = Opinion(view, Prompt(asked, d))
        BY <3>1 DEF Earned
      <4>2. cycle.opinions[asked] =
              IF Grounded(view, Prompt(asked, d))
              THEN [stance |-> view.stance, conviction |-> view.conviction]
              ELSE NEUTRAL
        BY <2>1, <3>1, <4>1, EarnedIsGrounded
      <4> QED
        BY <4>1, <4>2 DEF ViewOK, NEUTRAL
    <3> QED
      BY <3>1, <3>2, <3>3 DEF Earned
  <2>7. ASSUME cycle.phase = "done", NEW symbol \in ToSet(Symbols)
        PROVE  /\ tilts[symbol] <= mapping.max_absolute_tilt * WeightUnits
               /\ -tilts[symbol] <= mapping.max_absolute_tilt * WeightUnits
               /\ (\A agent \in Agents : OpinionsOn(symbol, cycle.opinions)[agent].stance = "NEUTRAL")
                    => tilts[symbol] = 0
    <3> DEFINE on == OpinionsOn(symbol, cycle.opinions)
    <3>1. tilts[symbol] = aggregate(on)
      BY DEF tilts
    <3>2. ToSet(Asks) = DOMAIN cycle.opinions
      <4>1. cycle.todo = <<>> /\ Len(<<>>) = 0
        BY <2>1, <2>7
      <4>2. Len(Asks) - Len(cycle.todo) = Len(Asks)
        BY <2>3, <4>1
      <4> QED
        BY <2>4, <4>2, AsksAre
    <3>3. ASSUME NEW agent \in Agents
          PROVE  on[agent].stance \in Stances /\ on[agent].conviction \in Convictions
      <4>1. \/ on[agent] = NEUTRAL
            \/ \E asked \in ToSet(Asks) : on[agent] = cycle.opinions[asked]
        BY AsksAre DEF OpinionsOn, Agents
      <4>2. NEUTRAL.stance \in Stances /\ NEUTRAL.conviction \in Convictions
        BY DEF NEUTRAL, Stances, Convictions
      <4> QED
        BY <2>5, <3>2, <4>1, <4>2 DEF Earned
    <3> HIDE DEF on
    <3>4. /\ aggregate(on) <= mapping.max_absolute_tilt * WeightUnits
          /\ -aggregate(on) <= mapping.max_absolute_tilt * WeightUnits
          /\ (\A agent \in Agents : on[agent].stance = "NEUTRAL") => aggregate(on) = 0
      BY <3>3, TiltsAreBounded
    <3> QED
      BY <3>1, <3>4 DEF on
  <2> QED
    BY <2>1, <2>4, <2>6, <2>7 DEF OpinionsAreEarned
<1> QED
  BY <1>1, Invariance, PTL

-----------------------------------------------------------------------------
(* The cache.                                                              *)

\* With the cache in front an answered question is answered from its file, the
\* same for ever; nobody is asked what a readable file answers, and a file goes
\* only when the running version cannot read it.
THEOREM AnswersAreKept == Spec => AnswersStand
<1> DEFINE files(prompt) == {c \in cached : c.about = prompt /\ c.key.provider = stack.selected
                                           /\ Fits(c, Schema(prompt))}
           Stand == stack.caching =>
             /\ (call.state = "try" /\ call'.state = "answered") =>
                  \E c \in files(call.prompt) : c.view = call'.view
             /\ (call.state = "try" /\ call'.state = "request") =>
                  \A c \in files(call.prompt) :
                    c.key.shape # Shape(Catalogues[release], Schema(call.prompt))
             /\ \A c \in cached : c \in cached' \/ ~Fits(c, c.key.schema)
<1>1. ASSUME IInv, [Next]_vars, stack.caching PROVE Stand
  <2> DEFINE p == call.prompt
  <2>1. \A c \in cached : c.key = [provider |-> stack.selected, schema |-> Schema(c.about),
                                   shape |-> c.key.shape, user |-> c.about]
    BY <1>1 DEF IInv, FilesOK
  <2>2. CASE Hit
    <3>1. PICK c \in Cached(p) : call' = Answered(p, c.view)
      BY <2>2 DEF Hit
    <3>2. c \in cached /\ c.key = cache_key(p) /\ Fits(c, Schema(p))
      BY <3>1 DEF Cached
    <3>3. c.about = p /\ c.key.provider = stack.selected
      <4>1. c.key.user = c.about /\ c.key.provider = stack.selected
        <5>1. c.key = [provider |-> stack.selected, schema |-> Schema(c.about),
                       shape |-> c.key.shape, user |-> c.about]
          BY <2>1, <3>2
        <5> QED
          BY <5>1
      <4>2. cache_key(p).user = p
        BY DEF cache_key
      <4> QED
        BY <3>2, <4>1, <4>2
    <3>4. call'.view = c.view /\ call'.state = "answered" /\ cached' = cached
      BY <2>2, <3>1 DEF Answered, Hit
    <3> QED
      BY <3>2, <3>3, <3>4
  <2>3. CASE Miss
    <3>1. call'.state \notin {"answered"} /\ cached' = cached /\ Cached(p) = {}
      <4>1. call' = [call EXCEPT !.state = "request", !.at = 1] /\ call.state = "try"
        BY <2>3 DEF Miss
      <4>2. call \in [state : {"try", "request"}, prompt : Questions, attempt : Nat, at : Nat]
        BY <1>1, <4>1, CallUnderWay DEF IInv, StackOK, CallOK
      <4> QED
        BY <1>1, <2>3, <4>1, <4>2 DEF Miss
    <3>2. ASSUME NEW c \in files(p)
          PROVE  c.key.shape # Shape(Catalogues[release], Schema(p))
      <4>1. c \in cached /\ c.about = p /\ Fits(c, Schema(p)) /\ c.key # cache_key(p)
        BY <3>1, <3>2 DEF Cached
      <4>2. c.key = [provider |-> stack.selected, schema |-> Schema(p),
                     shape |-> c.key.shape, user |-> p]
        BY <2>1, <4>1
      <4> QED
        BY <4>1, <4>2 DEF cache_key
    <3> QED
      BY <3>1, <3>2
  <2>4. CASE call.state = "request" /\ Step
    <3>1. Cached(p) = {}
      BY <1>1, <2>4 DEF IInv, FilesOK
    <3>2. ASSUME NEW c \in cached, c \notin cached' PROVE ~Fits(c, c.key.schema)
      <4>1. \E view : cached' = Put(p, view)
        BY <2>4, <3>2 DEF Step, Hit, Miss, Respond, RespondNull, Fail
      <4>2. c.key = cache_key(p)
        BY <3>2, <4>1 DEF Put
      <4>3. c.key.schema = Schema(p)
        BY <4>2 DEF cache_key
      <4> QED
        BY <3>1, <4>2, <4>3 DEF Cached
    <3> QED
      BY <2>4, <3>2
  <2>5. CASE ~Step
    <3>1. cached' = cached
      BY <1>1, <2>5 DEF Next, Begin, Ask, Complete, Skip, Hear, Degrade, Abort, Finish,
         Clock, Release, NextRelease, vars, providers
    <3>2. call.state = "try" => call' = call
      <4> SUFFICES ASSUME call.state = "try" PROVE call' = call
        OBVIOUS
      <4>1. call # Idle
        BY CallUnderWay
      <4>2. cycle.phase = "asking" /\ cycle.todo # <<>> /\ ~Silent
        BY <1>1, <4>1 DEF IInv, InTurn
      <4> QED
        BY <1>1, <2>5, <4>1, <4>2 DEF Next, Begin, Ask, Complete, Skip, Hear, Degrade, Abort,
           Finish, Clock, Release, NextRelease, vars, providers
    <3> QED
      BY <3>1, <3>2
  <2>6. Step => Hit \/ Miss \/ call.state = "request"
    BY DEF Step, RespondNull, Respond, Fail
  <2> QED
    BY <2>2, <2>3, <2>4, <2>5, <2>6
<1>2. ASSUME IInv, [Next]_vars PROVE [Stand]_vars
  BY <1>1, <1>2
<1> QED
  BY <1>2, Invariance, PTL DEF Spec, AnswersStand
=============================================================================
