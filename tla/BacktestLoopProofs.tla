------------------------- MODULE BacktestLoopProofs -------------------------
(***************************************************************************)
(* A backtest decides on what was known, on schedule, on aligned rows and  *)
(* with the drawdown its report will show, and its folds tile the time:    *)
(* for any recording, symbols, spans, window and rebalance interval.       *)
(***************************************************************************)
EXTENDS BacktestLoop, Arithmetic

-----------------------------------------------------------------------------
(* A fold over a sequence goes through its elements in order.              *)

LEMMA GreatestIsIn ==
  ASSUME NEW m \in Nat, NEW S \in SUBSET (1..m), S # {}
  PROVE  Max(S) \in S /\ \A y \in S : y <= Max(S)
<1> DEFINE B == {b \in Nat : \A y \in S : y <= b}
<1>1. B # {} /\ B \in SUBSET Nat
  <2>1. m \in B
    OBVIOUS
  <2> QED
    BY <2>1
<1>2. PICK b \in B : \A c \in B : b <= c
  <2> HIDE DEF B
  <2> QED
    BY <1>1, SmallestNat
<1>3. b \in S
  <2>1. SUFFICES ASSUME b \notin S PROVE FALSE
    OBVIOUS
  <2>2. PICK y \in S : TRUE
    OBVIOUS
  <2>3. b - 1 \in B
    BY <1>2, <2>1, <2>2
  <2> QED
    BY <1>2, <2>3
<1>4. \A y \in S : b >= y
  BY <1>2
<1> QED
  BY <1>3, <1>4 DEF Max

\* g tells what the fold of seq is over each subset of the first m places.
Folds(g, op, base, seq, m) ==
  g = [S \in SUBSET (1..m) |->
         IF S = {} THEN base ELSE op[<<g[S \ {Max(S)}], seq[Max(S)]>>]]

LEMMA FoldsExtend ==
  ASSUME NEW m \in Nat, NEW n \in Nat, n = m + 1,
         NEW f, NEW op, NEW base, NEW seq, Folds(f, op, base, seq, m)
  PROVE  \E g : Folds(g, op, base, seq, n)
<1> DEFINE g == [S \in SUBSET (1..n) |->
                   IF n \in S THEN op[<<f[S \ {n}], seq[n]>>] ELSE f[S]]
<1>0. \A S \in SUBSET (1..m) :
        f[S] = IF S = {} THEN base ELSE op[<<f[S \ {Max(S)}], seq[Max(S)]>>]
  BY DEF Folds
<1>1. ASSUME NEW S \in SUBSET (1..n)
      PROVE  g[S] = IF S = {} THEN base ELSE op[<<g[S \ {Max(S)}], seq[Max(S)]>>]
  <2>1. CASE n \in S
    <3>1. Max(S) \in S /\ \A y \in S : y <= Max(S)
      <4>1. n \in Nat /\ S \in SUBSET (1..n) /\ S # {}
        BY <2>1
      <4> QED
        BY ONLY <4>1, GreatestIsIn
    <3>2. Max(S) = n
      <4>1. Max(S) \in 1..n /\ n <= Max(S)
        BY ONLY <2>1, <3>1, S \in SUBSET (1..n)
      <4> QED
        BY ONLY <4>1, n \in Nat
    <3>3. S \ {n} \in SUBSET (1..n) /\ n \notin S \ {n}
      OBVIOUS
    <3>4. g[S \ {n}] = f[S \ {n}]
      BY <3>3
    <3> QED
      BY <2>1, <3>2, <3>4
  <2>2. CASE n \notin S
    <3>1. S \in SUBSET (1..m)
      BY <2>2
    <3>2. CASE S = {}
      <4>1. g[S] = f[S]
        BY <2>2
      <4>2. f[S] = base
        BY <1>0, <3>1, <3>2
      <4> QED
        BY <3>2, <4>1, <4>2
    <3>3. CASE S # {}
      <4>1. Max(S) \in S
        BY <3>1, <3>3, GreatestIsIn
      <4>2. g[S \ {Max(S)}] = f[S \ {Max(S)}]
        BY <2>2
      <4>3. f[S] = op[<<f[S \ {Max(S)}], seq[Max(S)]>>]
        BY <1>0, <3>1, <3>3
      <4>4. g[S] = f[S]
        BY <2>2
      <4> HIDE DEF g
      <4> QED
        BY <3>3, <4>2, <4>3, <4>4
    <3> QED
      BY <3>2, <3>3
  <2> QED
    BY <2>1, <2>2
<1> HIDE DEF g
<1>2. g = [S \in SUBSET (1..n) |-> g[S]]
  BY DEF g
<1>3. g = [S \in SUBSET (1..n) |->
             IF S = {} THEN base ELSE op[<<g[S \ {Max(S)}], seq[Max(S)]>>]]
  BY <1>1, <1>2
<1>4. Folds(g, op, base, seq, n)
  BY <1>3 DEF Folds
<1> QED
  BY <1>4

LEMMA FoldsExist ==
  ASSUME NEW m \in Nat, NEW op, NEW base, NEW seq
  PROVE  \E g : Folds(g, op, base, seq, m)
<1> DEFINE B == {n \in Nat : ~ \E g : Folds(g, op, base, seq, n)}
<1>1. ASSUME B # {} PROVE FALSE
  <2>1. PICK n \in B : \A k \in B : n <= k
    <3>1. B \in SUBSET Nat
      OBVIOUS
    <3> HIDE DEF B
    <3> QED
      BY <1>1, <3>1, SmallestNat
  <2>2. n # 0
    <3> DEFINE g == [S \in SUBSET (1..0) |-> base]
    <3>1. g = [S \in SUBSET (1..0) |->
                 IF S = {} THEN base ELSE op[<<g[S \ {Max(S)}], seq[Max(S)]>>]]
      OBVIOUS
    <3>2. Folds(g, op, base, seq, 0)
      BY <3>1 DEF Folds
    <3> QED
      BY <2>1, <3>2
  <2>3. n - 1 \in Nat /\ n - 1 \notin B
    BY <2>1, <2>2
  <2>4. \E g : Folds(g, op, base, seq, n)
    <3>1. PICK f : Folds(f, op, base, seq, n - 1)
      BY <2>3
    <3>2. n = (n - 1) + 1
      BY <2>1
    <3> QED
      BY <2>1, <2>3, <3>1, <3>2, FoldsExtend
  <2> QED
    BY <2>1, <2>4
<1> QED
  BY <1>1

\* Every value of a fold is of the type its step returns.
LEMMA FoldsTyped ==
  ASSUME NEW A, NEW E, NEW op \in [A \X E -> A], NEW base \in A, NEW seq \in Seq(E),
         NEW g, Folds(g, op, base, seq, Len(seq))
  PROVE  \A S \in SUBSET (1..Len(seq)) : g[S] \in A
<1> DEFINE places == 1..Len(seq)
           B == {S \in SUBSET places : g[S] \notin A}
<1>0. IsFiniteSet(places) /\ Len(seq) \in Nat
  BY FS_Interval
<1>1. ASSUME B # {} PROVE FALSE
  <2>1. PICK S \in B : \A U \in B : U \subseteq S => U = S
    <3>1. B \in SUBSET (SUBSET places)
      OBVIOUS
    <3> HIDE DEF B, places
    <3> QED
      BY <1>0, <1>1, <3>1, SmallestSet
  <2>0. \A U \in SUBSET (1..Len(seq)) :
          g[U] = IF U = {} THEN base ELSE op[<<g[U \ {Max(U)}], seq[Max(U)]>>]
    BY DEF Folds
  <2>2. S # {}
    BY <2>0, <2>1
  <2>3. Max(S) \in S
    BY <1>0, <2>1, <2>2, GreatestIsIn
  <2>4. g[S \ {Max(S)}] \in A /\ seq[Max(S)] \in E
    BY <2>1, <2>3
  <2>5. g[S] = op[<<g[S \ {Max(S)}], seq[Max(S)]>>]
    BY <2>0, <2>1, <2>2
  <2> QED
    BY <2>1, <2>4, <2>5
<1> QED
  BY <1>1

\* The first i places, the last of which is i.
LEMMA FirstPlaces ==
  ASSUME NEW i \in Nat \ {0}
  PROVE  Max(1..i) = i /\ (1..i) \ {Max(1..i)} = 1..(i - 1)
<1> DEFINE S == 1..i
<1>0. S \in SUBSET (1..i) /\ S # {}
  OBVIOUS
<1>1. Max(S) \in S /\ \A y \in S : y <= Max(S)
  <2> HIDE DEF S
  <2> QED
    BY <1>0, GreatestIsIn
<1>2. Max(S) = i
  BY <1>1
<1> QED
  BY <1>2

-----------------------------------------------------------------------------
(* The folds in closed form.                                               *)

LEMMA RoundsDownTo ==
  ASSUME NEW a \in Int, NEW n \in Nat \ {0}, NEW q \in Int, q * n <= a, a < q * n + n
  PROVE  a \div n = q
<1> DEFINE p == a \div n
<1>1. p \in Int /\ p * n <= a /\ a < p * n + n
  BY RoundedDown
<1> HIDE DEF p
<1>2. (p + 1) * n = p * n + n /\ (q + 1) * n = q * n + n
  BY <1>1
<1>3. p <= q
  <2>1. SUFFICES ASSUME q + 1 <= p PROVE FALSE
    BY <1>1
  <2>2. (q + 1) * n <= p * n
    BY <1>1, <2>1, ProductIsMonotone
  <2>3. q * n \in Int /\ p * n \in Int
    BY <1>1
  <2> QED
    BY ONLY <1>1, <1>2, <2>2, <2>3, a \in Int, n \in Nat, a < q * n + n, q * n <= a
<1>4. q <= p
  <2>1. SUFFICES ASSUME p + 1 <= q PROVE FALSE
    BY <1>1
  <2>2. (p + 1) * n <= q * n
    BY <1>1, <2>1, ProductIsMonotone
  <2>3. q * n \in Int /\ p * n \in Int
    BY <1>1
  <2> QED
    BY ONLY <1>1, <1>2, <2>2, <2>3, a \in Int, n \in Nat, a < q * n + n, q * n <= a
<1> QED
  BY <1>1, <1>3, <1>4 DEF p

AskedSpans == [start : Nat, end : Nat, estimation : Nat \ {0}, trade : Nat \ {0}]

\* How many trading spans there are from c on, and the i-th of them.
Trading(s, c) == IF c >= s.end THEN 0 ELSE (s.end - c - 1) \div s.trade + 1

Cut(s, t) == IF t < s.end THEN t ELSE s.end
Nth(s, c, i) ==
  Window((c + (i - 1) * s.trade) - s.estimation, c + (i - 1) * s.trade,
         Cut(s, c + i * s.trade))
WindowsFrom(s, c) == [i \in 1..Trading(s, c) |-> Nth(s, c, i)]

LEMMA TradingIs ==
  ASSUME NEW s \in AskedSpans, NEW c \in Nat
  PROVE  /\ c >= s.end => Trading(s, c) = 0
         /\ c < s.end /\ c + s.trade < s.end => Trading(s, c) = Trading(s, c + s.trade) + 1
         /\ c < s.end /\ ~(c + s.trade < s.end) => Trading(s, c) = 1
         /\ Trading(s, c) \in Nat
<1>1. s.end \in Nat /\ s.trade \in Nat \ {0}
  BY DEF AskedSpans
<1> DEFINE n == s.trade
           a == s.end - c - 1
<1>2. CASE c >= s.end
  BY <1>1, <1>2 DEF Trading
<1>3. CASE c < s.end /\ c + n < s.end
  <2> DEFINE b == s.end - (c + n) - 1
             q == b \div n
  <2>1. a \in Nat /\ b \in Nat /\ a = b + n
    BY <1>1, <1>3
  <2>2. q \in Int /\ q * n <= b /\ b < q * n + n
    <3>1. b \in Int /\ n \in Nat \ {0}
      BY <1>1, <2>1
    <3> HIDE DEF b, n
    <3> QED
      BY <3>1, RoundedDown
  <2>3. Trading(s, c) = a \div n + 1 /\ Trading(s, c + n) = q + 1
    BY <1>1, <1>3 DEF Trading
  <2>7. a \div n \in Nat
    BY <1>1, <2>1, QuotientIsNat
  <2> HIDE DEF a, b, q, n
  <2>4. n \in Nat \ {0}
    BY <1>1 DEF n
  <2>5. (q + 1) * n = q * n + n
    BY <2>2, <2>4
  <2>6. a \div n = q + 1
    BY <2>1, <2>2, <2>4, <2>5, RoundsDownTo
  <2> QED
    BY <1>1, <1>3, <2>2, <2>3, <2>6, <2>7 DEF n
<1>4. CASE c < s.end /\ ~(c + n < s.end)
  <2>1. a \in Nat /\ a < n
    BY <1>1, <1>4
  <2>2. Trading(s, c) = a \div n + 1
    BY <1>1, <1>4 DEF Trading
  <2> HIDE DEF a, n
  <2>3. n \in Nat \ {0}
    BY <1>1 DEF n
  <2>4. a \div n = 0
    BY <2>1, <2>3, RoundsDownTo
  <2> QED
    BY <1>1, <1>4, <2>2, <2>4 DEF n
<1> QED
  BY <1>1, <1>2, <1>3, <1>4

LEMMA WindowsUnfold ==
  ASSUME NEW s \in AskedSpans, NEW c \in Nat
  PROVE  WindowsFrom(s, c) =
           IF c >= s.end THEN <<>>
           ELSE <<Window(c - s.estimation, c, Cut(s, c + s.trade))>>
                  \o WindowsFrom(s, Cut(s, c + s.trade))
<1>1. s.end \in Nat /\ s.trade \in Nat \ {0} /\ s.estimation \in Nat
  BY DEF AskedSpans
<1>2. CASE c >= s.end
  <2>1. Trading(s, c) = 0
    BY <1>2, TradingIs
  <2> QED
    BY <1>2, <2>1 DEF WindowsFrom
<1>3. CASE c < s.end
  <2> DEFINE stop == Cut(s, c + s.trade)
             rest == WindowsFrom(s, stop)
             w == Window(c - s.estimation, c, stop)
  <2>1. stop \in Nat
    BY <1>1 DEF Cut
  <2>2. Trading(s, stop) \in Nat /\ Trading(s, c) = Trading(s, stop) + 1
    <3>1. CASE c + s.trade < s.end
      BY <1>1, <1>3, <2>1, <3>1, TradingIs DEF Cut
    <3>2. CASE ~(c + s.trade < s.end)
      <4>1. stop = s.end
        BY <3>2 DEF Cut
      <4>2. Trading(s, stop) = 0 /\ Trading(s, c) = 1
        BY <1>1, <1>3, <2>1, <3>2, <4>1, TradingIs
      <4> QED
        BY <4>2
    <3> QED
      BY <3>1, <3>2
  <2>3. Nth(s, c, 1) = w
    <3>1. (1 - 1) * s.trade = 0 /\ 1 * s.trade = s.trade
      BY <1>1
    <3> QED
      BY <1>1, <3>1 DEF Nth
  <2>4. ASSUME NEW i \in 1..Trading(s, stop)
        PROVE  Nth(s, c, i + 1) = Nth(s, stop, i)
    <3>1. stop = c + s.trade
      <4>1. SUFFICES ASSUME ~(c + s.trade < s.end) PROVE FALSE
        BY DEF Cut
      <4>2. stop = s.end
        BY <4>1 DEF Cut
      <4>3. Trading(s, stop) = 0
        BY <1>1, <2>1, <4>2, TradingIs
      <4> QED
        BY <4>3
    <3> HIDE DEF stop
    <3>2. i \in Nat
      BY <2>2
    <3>3. /\ (i + 1 - 1) * s.trade = s.trade + (i - 1) * s.trade
          /\ (i + 1) * s.trade = s.trade + i * s.trade
          /\ (i - 1) * s.trade \in Int /\ i * s.trade \in Int
      BY <1>1, <3>2
    <3>4. /\ c + (i + 1 - 1) * s.trade = stop + (i - 1) * s.trade
          /\ c + (i + 1) * s.trade = stop + i * s.trade
      <4> DEFINE x == (i - 1) * s.trade
                 y == i * s.trade
      <4> HIDE DEF x, y
      <4>1. x \in Int /\ y \in Int /\ (i + 1 - 1) * s.trade = s.trade + x
              /\ (i + 1) * s.trade = s.trade + y
        BY <3>3 DEF x, y
      <4>2. c + (s.trade + x) = stop + x /\ c + (s.trade + y) = stop + y
        BY <1>1, <3>1, <4>1
      <4> QED
        BY <4>1, <4>2 DEF x, y
    <3> QED
      BY <3>4 DEF Nth
  <2>5. WindowsFrom(s, c) = <<w>> \o rest
    <3> HIDE DEF w, stop
    <3>1. Len(rest) = Trading(s, stop) /\ rest \in Seq({Nth(s, stop, i) : i \in 1..Trading(s, stop)})
      BY <2>2 DEF WindowsFrom
    <3>2. <<w>> \o rest = [i \in 1..(1 + Len(rest)) |-> IF i <= 1 THEN <<w>>[i] ELSE rest[i - 1]]
      BY <3>1
    <3>3. \A i \in 1..Trading(s, c) :
            Nth(s, c, i) = IF i <= 1 THEN <<w>>[i] ELSE rest[i - 1]
      <4> SUFFICES ASSUME NEW i \in 1..Trading(s, c)
                   PROVE  Nth(s, c, i) = IF i <= 1 THEN <<w>>[i] ELSE rest[i - 1]
        OBVIOUS
      <4>1. CASE i = 1
        BY <2>3, <4>1
      <4>2. CASE i # 1
        <5>1. i - 1 \in 1..Trading(s, stop) /\ (i - 1) + 1 = i /\ ~(i <= 1)
          BY <2>2, <4>2
        <5>2. Nth(s, c, (i - 1) + 1) = Nth(s, stop, i - 1)
          BY <2>4, <5>1
        <5>3. rest[i - 1] = Nth(s, stop, i - 1)
          BY <5>1 DEF WindowsFrom
        <5> QED
          BY <5>1, <5>2, <5>3
      <4> QED
        BY <4>1, <4>2
    <3>4. Trading(s, c) = 1 + Len(rest)
      BY <2>2, <3>1
    <3> HIDE DEF rest
    <3> QED
      BY <3>2, <3>3, <3>4 DEF WindowsFrom
  <2> QED
    BY <1>1, <1>3, <2>5
<1> QED
  BY <1>1, <1>2, <1>3

\* The recursion of rolling_windows has this solution, and no other.
LEMMA WindowsAre ==
  ASSUME NEW s \in AskedSpans
  PROVE  rolling_windows(s) = WindowsFrom(s, s.start + s.estimation)
<1> DEFINE Follows(g) ==
      g = [c \in Nat |->
             IF c >= s.end THEN <<>>
             ELSE <<Window(c - s.estimation, c, Cut(s, c + s.trade))>>
                    \o g[Cut(s, c + s.trade)]]
<1>1. s.end \in Nat /\ s.trade \in Nat \ {0} /\ s.estimation \in Nat /\ s.start \in Nat
  BY DEF AskedSpans
<1>2. rolling_windows(s) = (CHOOSE g : Follows(g))[s.start + s.estimation]
  BY DEF rolling_windows, Cut
<1>3. \E g : Follows(g)
  <2> DEFINE f == [c \in Nat |-> WindowsFrom(s, c)]
  <2>1. ASSUME NEW c \in Nat
        PROVE  f[c] = IF c >= s.end THEN <<>>
                      ELSE <<Window(c - s.estimation, c, Cut(s, c + s.trade))>>
                             \o f[Cut(s, c + s.trade)]
    <3>1. Cut(s, c + s.trade) \in Nat
      BY <1>1 DEF Cut
    <3>2. f[Cut(s, c + s.trade)] = WindowsFrom(s, Cut(s, c + s.trade))
      BY <3>1
    <3> QED
      BY <3>2, WindowsUnfold
  <2> HIDE DEF f
  <2>2. f = [c \in Nat |-> f[c]]
    BY DEF f
  <2>3. Follows(f)
    BY <2>1, <2>2
  <2> QED
    BY <2>3
<1> DEFINE g == CHOOSE f : Follows(f)
<1>4. Follows(g)
  <2> HIDE DEF Follows
  <2> QED
    BY <1>3
<1>5. \A c \in Nat :
        g[c] = IF c >= s.end THEN <<>>
               ELSE <<Window(c - s.estimation, c, Cut(s, c + s.trade))>>
                      \o g[Cut(s, c + s.trade)]
  <2> HIDE DEF g
  <2> QED
    BY <1>4
<1> HIDE DEF g
<1> DEFINE B == {n \in Nat : \E c \in Nat : c + n = s.end /\ g[c] # WindowsFrom(s, c)}
<1>6. ASSUME B # {} PROVE FALSE
  <2>1. PICK n \in B : \A k \in B : n <= k
    <3>1. B \in SUBSET Nat
      OBVIOUS
    <3> HIDE DEF B
    <3> QED
      BY <1>6, <3>1, SmallestNat
  <2>2. PICK c \in Nat : c + n = s.end /\ g[c] # WindowsFrom(s, c)
    BY <2>1
  <2>3. c < s.end
    <3>1. SUFFICES ASSUME c >= s.end PROVE FALSE
      BY <1>1, <2>2
    <3>2. g[c] = <<>> /\ WindowsFrom(s, c) = <<>>
      BY <1>5, <3>1, WindowsUnfold
    <3> QED
      BY <2>2, <3>2
  <2> DEFINE stop == Cut(s, c + s.trade)
             k == s.end - stop
  <2>4. stop \in Nat /\ c < stop /\ stop <= s.end
    BY <1>1, <2>3 DEF Cut
  <2>5. g[stop] # WindowsFrom(s, stop)
    <3>0. ~(c >= s.end)
      BY <1>1, <2>3
    <3>1. g[c] = <<Window(c - s.estimation, c, stop)>> \o g[stop]
      BY <1>5, <3>0
    <3>2. WindowsFrom(s, c)
            = <<Window(c - s.estimation, c, stop)>> \o WindowsFrom(s, stop)
      BY <3>0, WindowsUnfold
    <3> QED
      BY <2>2, <3>1, <3>2
  <2>6. k \in Nat /\ k < n /\ stop + k = s.end
    BY <1>1, <2>2, <2>4
  <2>7. k \in B
    <3> HIDE DEF stop, k
    <3> QED
      BY <2>4, <2>5, <2>6
  <2>8. n <= k
    <3> HIDE DEF B, k, g, stop
    <3> QED
      BY ONLY <2>1, <2>7
  <2> QED
    BY <1>1, <2>2, <2>6, <2>8
<1>7. ASSUME NEW c \in Nat PROVE g[c] = WindowsFrom(s, c)
  <2>1. CASE c >= s.end
    BY <1>5, <2>1, WindowsUnfold
  <2>2. CASE c < s.end
    <3>1. s.end - c \in Nat /\ c + (s.end - c) = s.end
      BY <1>1, <2>2
    <3>2. s.end - c \notin B
      BY <1>6
    <3> QED
      BY <3>1, <3>2
  <2> QED
    BY <1>1, <2>1, <2>2
<1>8. s.start + s.estimation \in Nat
  BY <1>1
<1> QED
  BY <1>2, <1>7, <1>8 DEF g

\* A window is made of instants.
LEMMA WindowTypes ==
  ASSUME NEW s \in AskedSpans, NEW i \in DOMAIN rolling_windows(s)
  PROVE  LET w == rolling_windows(s)[i] c == s.start + s.estimation IN
         /\ i \in 1..Trading(s, c)
         /\ w.trade_start = c + (i - 1) * s.trade
         /\ w.trade_end = Cut(s, c + i * s.trade)
         /\ w.estimation_end = w.trade_start
         /\ w.estimation_start = w.trade_start - s.estimation
         /\ (i - 1) * s.trade \in Nat
<1>1. s.trade \in Nat \ {0} /\ s.estimation \in Nat /\ s.start \in Nat
  BY DEF AskedSpans
<1> DEFINE c == s.start + s.estimation
<1>2. rolling_windows(s) = WindowsFrom(s, c)
  BY WindowsAre
<1>3. i \in 1..Trading(s, c) /\ rolling_windows(s)[i] = Nth(s, c, i)
  BY <1>2 DEF WindowsFrom
<1>4. c \in Nat /\ Trading(s, c) \in Nat
  BY <1>1, TradingIs
<1>5. i - 1 \in Nat
  BY <1>3, <1>4
<1>6. (i - 1) * s.trade \in Nat
  BY <1>1, <1>5, ProductIsNat
<1> HIDE DEF c
<1> QED
  BY <1>3, <1>6 DEF c, Nth, Window

LEMMA WindowsInOrder ==
  ASSUME NEW s \in AskedSpans
  PROVE  DOMAIN rolling_windows(s) = 1..Len(rolling_windows(s)) /\ Len(rolling_windows(s)) \in Nat
<1> DEFINE c == s.start + s.estimation
<1>1. c \in Nat
  BY DEF AskedSpans
<1>2. rolling_windows(s) = WindowsFrom(s, c) /\ Trading(s, c) \in Nat
  BY <1>1, WindowsAre, TradingIs
<1> HIDE DEF c
<1> QED
  BY <1>2 DEF WindowsFrom

-----------------------------------------------------------------------------
(* What the bars of a stamp do.                                            *)

PriceBooks == UNION {[D -> Nat] : D \in SUBSET STRING}
Accounts == [cash : Nat, positions : [Symbols -> Nat]]
Histories == [Symbols -> Seq(Nat)]
Decisions ==
  [stamp : Nat, session : Nat, note : {"history", "optimizer", "vetoed", "executed"},
   drawdown : Int \X Int, seen : Histories, rows : Seq([Symbols -> Nat \X Nat])]

Loops ==
  [clock : Int, account : Accounts, prices : PriceBooks, history : Histories,
   equity : Seq(Int), peak_equity : Int, drawdown : Int \X Int, bars_seen : Nat,
   last_rebalance_index : Int, pending : Seq(Events),
   current_stamp : Nat \cup {NoStamp}, cycles : Seq(Decisions)]

\* What a loop may be while the bars of a stamp are applied to l.
Stages(l) ==
  [clock : {l.current_stamp}, account : {l.account}, prices : PriceBooks,
   history : Histories, equity : {l.equity}, peak_equity : {l.peak_equity},
   drawdown : {l.drawdown}, bars_seen : {l.bars_seen},
   last_rebalance_index : {l.last_rebalance_index}, pending : {l.pending},
   current_stamp : {l.current_stamp}, cycles : {l.cycles}]

LEMMA PricesAre ==
  ASSUME NEW p \in PriceBooks
  PROVE  /\ DOMAIN p \in SUBSET STRING
         /\ \A s \in DOMAIN p : p[s] \in Nat
BY DEF PriceBooks

LEMMA ArePrices ==
  ASSUME NEW D \in SUBSET STRING, NEW p \in [D -> Nat]
  PROVE  p \in PriceBooks
BY DEF PriceBooks

LEMMA PriceSet ==
  ASSUME NEW p \in PriceBooks, NEW x \in STRING, NEW v \in Nat
  PROVE  [s \in DOMAIN p \cup {x} |-> IF s = x THEN v ELSE p[s]] \in PriceBooks
<1> DEFINE D == DOMAIN p \cup {x}
           q == [s \in D |-> IF s = x THEN v ELSE p[s]]
<1>1. D \in SUBSET STRING /\ \A s \in DOMAIN p : p[s] \in Nat
  BY PricesAre
<1>2. q \in [D -> Nat]
  BY <1>1
<1> HIDE DEF D, q
<1>3. q \in PriceBooks
  BY <1>1, <1>2, ArePrices
<1> QED
  BY <1>3 DEF q, D

LEMMA WithBarIs ==
  ASSUME NEW l, NEW a \in Stages(l), NEW e \in Events
  PROVE  /\ WithBar(a, e) \in Stages(l)
         /\ \A s \in Symbols :
              WithBar(a, e).history[s]
                = IF IsBar(e) /\ e.symbol = s THEN Append(a.history[s], e.stamp)
                  ELSE a.history[s]
         /\ DOMAIN WithBar(a, e).prices
              = IF IsBar(e) THEN DOMAIN a.prices \cup {e.symbol} ELSE DOMAIN a.prices
<1>1. CASE ~IsBar(e)
  BY <1>1 DEF WithBar
<1>2. CASE IsBar(e)
  <2> DEFINE p == [s \in DOMAIN a.prices \cup {e.symbol} |->
                     IF s = e.symbol THEN e.price ELSE a.prices[s]]
             h == IF e.symbol \in Symbols
                  THEN [a.history EXCEPT ![e.symbol] = Append(a.history[e.symbol], e.stamp)]
                  ELSE a.history
  <2>1. WithBar(a, e) = [a EXCEPT !.prices = p, !.history = h]
    BY <1>2 DEF WithBar
  <2>2. a.prices \in PriceBooks /\ a.history \in Histories
    BY DEF Stages
  <2>3. e.symbol \in STRING /\ e.stamp \in Nat /\ e.price \in Nat
    BY DEF Events
  <2>4. p \in PriceBooks
    <3> DEFINE b == a.prices x == e.symbol v == e.price
    <3>1. b \in PriceBooks /\ x \in STRING /\ v \in Nat
      BY <2>2, <2>3
    <3> HIDE DEF b, x, v
    <3>2. [s \in DOMAIN b \cup {x} |-> IF s = x THEN v ELSE b[s]] \in PriceBooks
      BY <3>1, PriceSet
    <3> QED
      BY <3>2 DEF b, x, v
  <2>5. /\ h \in Histories
        /\ \A s \in Symbols :
             h[s] = IF e.symbol = s THEN Append(a.history[s], e.stamp) ELSE a.history[s]
    BY <2>2, <2>3 DEF Histories
  <2>6. DOMAIN p = DOMAIN a.prices \cup {e.symbol}
    OBVIOUS
  <2> HIDE DEF p, h
  <2>7. [a EXCEPT !.prices = p, !.history = h] \in Stages(l)
    BY <2>4, <2>5 DEF Stages
  <2>8. /\ [a EXCEPT !.prices = p, !.history = h].prices = p
        /\ [a EXCEPT !.prices = p, !.history = h].history = h
    BY DEF Stages
  <2> QED
    BY <1>2, <2>1, <2>5, <2>6, <2>7, <2>8
<1> QED
  BY <1>1, <1>2

\* The loop after each of the pending events.
LEMMA AppliedInOrder ==
  ASSUME NEW l \in Loops
  PROVE  \E h : /\ h[0] = [l EXCEPT !.clock = l.current_stamp]
                /\ \A i \in 1..Len(l.pending) : h[i] = WithBar(h[i - 1], l.pending[i])
                /\ \A i \in 0..Len(l.pending) : h[i] \in Stages(l)
                /\ h[Len(l.pending)] = Applied(l)
<1> DEFINE base == [l EXCEPT !.clock = l.current_stamp]
           seq == l.pending
           m == Len(seq)
           op == [p \in Stages(l) \X Events |-> WithBar(p[1], p[2])]
           Solves(g) == g = [S \in SUBSET (1..m) |->
                               IF S = {} THEN base
                               ELSE WithBar(g[S \ {Max(S)}], seq[Max(S)])]
<1>1. seq \in Seq(Events) /\ m \in Nat /\ DOMAIN seq = 1..m
  BY DEF Loops
<1>2. base \in Stages(l)
  BY DEF Loops, Stages
<1>3. op \in [Stages(l) \X Events -> Stages(l)]
  BY WithBarIs
<1>4. Applied(l) = (CHOOSE g : Solves(g))[1..m]
  BY <1>1 DEF Applied, FoldLeft, MapThenFoldSet
<1>0. seq \in Seq(Events) /\ Len(seq) = m
  BY <1>1
<1> HIDE DEF base, seq, m
<1>5. \E g : Solves(g) /\ \A S \in SUBSET (1..m) : g[S] \in Stages(l)
  <2> HIDE DEF op
  <2>1. PICK g : Folds(g, op, base, seq, m)
    BY <1>1, FoldsExist
  <2>2. \A S \in SUBSET (1..m) : g[S] \in Stages(l)
    BY <1>0, <1>2, <1>3, <2>1, FoldsTyped
  <2>3. ASSUME NEW S \in SUBSET (1..m)
        PROVE  g[S] = IF S = {} THEN base ELSE WithBar(g[S \ {Max(S)}], seq[Max(S)])
    <3>1. g[S] = IF S = {} THEN base ELSE op[<<g[S \ {Max(S)}], seq[Max(S)]>>]
      <4>1. \A T \in SUBSET (1..m) :
              g[T] = IF T = {} THEN base ELSE op[<<g[T \ {Max(T)}], seq[Max(T)]>>]
        BY <2>1 DEF Folds
      <4> QED
        BY <4>1
    <3>2. CASE S # {}
      <4>1. Max(S) \in S
        BY <1>1, <3>2, GreatestIsIn
      <4>2. seq[Max(S)] \in Events /\ g[S \ {Max(S)}] \in Stages(l)
        <5>1. Max(S) \in 1..m /\ S \ {Max(S)} \in SUBSET (1..m)
          BY <4>1
        <5> QED
          BY <1>1, <2>2, <5>1
      <4>3. op[<<g[S \ {Max(S)}], seq[Max(S)]>>] = WithBar(g[S \ {Max(S)}], seq[Max(S)])
        BY <4>2 DEF op
      <4> QED
        BY <3>1, <3>2, <4>3
    <3> QED
      BY <3>1, <3>2
  <2>4. g = [S \in SUBSET (1..m) |-> g[S]]
    BY <2>1 DEF Folds
  <2>5. Solves(g)
    BY <2>3, <2>4
  <2> HIDE DEF Solves
  <2> QED
    BY <2>2, <2>5
<1> DEFINE g == CHOOSE f : Solves(f)
<1>6. Solves(g)
  <2> HIDE DEF Solves
  <2> QED
    BY <1>5
<1>7. \A S \in SUBSET (1..m) :
        g[S] = IF S = {} THEN base ELSE WithBar(g[S \ {Max(S)}], seq[Max(S)])
  <2> HIDE DEF g
  <2> QED
    BY <1>6
<1> HIDE DEF g, Solves
<1> DEFINE h == [i \in 0..m |-> g[1..i]]
<1>8. h[0] = base
  <2>1. h[0] = g[1..0]
    BY <1>1
  <2>2. 1..0 = {} /\ {} \in SUBSET (1..m)
    OBVIOUS
  <2>3. g[{}] = base
    BY <1>7, <2>2
  <2> QED
    BY <2>1, <2>2, <2>3
<1>9. ASSUME NEW i \in 1..m PROVE h[i] = WithBar(h[i - 1], seq[i])
  <2>1. i \in Nat \ {0} /\ i - 1 \in 0..m /\ i \in 0..m /\ i \in 1..i
    BY <1>1
  <2>4. 1..i \in SUBSET (1..m) /\ 1..i # {}
    <3>1. \A x \in 1..i : x \in 1..m
      BY <1>1, <2>1
    <3> QED
      BY <2>1, <3>1
  <2>2. Max(1..i) = i /\ (1..i) \ {Max(1..i)} = 1..(i - 1)
    BY <2>1, FirstPlaces
  <2>3. g[1..i] = WithBar(g[1..(i - 1)], seq[i])
    BY <1>7, <2>2, <2>4
  <2> QED
    BY <2>1, <2>3
<1> HIDE DEF h
<1> DEFINE B == {i \in Nat : i <= m /\ h[i] \notin Stages(l)}
<1>10. ASSUME B # {} PROVE FALSE
  <2>1. PICK i \in B : \A k \in B : i <= k
    <3>1. B \in SUBSET Nat
      OBVIOUS
    <3> HIDE DEF B
    <3> QED
      BY <1>10, <3>1, SmallestNat
  <2>2. i # 0
    BY <1>2, <1>8, <2>1
  <2>3. i - 1 \in Nat /\ i - 1 \notin B /\ i \in 1..m
    BY <1>1, <2>1, <2>2
  <2>4. h[i - 1] \in Stages(l) /\ seq[i] \in Events
    BY <1>1, <2>3
  <2>6. WithBar(h[i - 1], seq[i]) \in Stages(l)
    BY <2>4, WithBarIs
  <2>5. h[i] \in Stages(l)
    BY <1>9, <2>3, <2>6
  <2> QED
    BY <2>1, <2>5
<1>11. \A i \in 0..m : h[i] \in Stages(l)
  BY <1>1, <1>10
<1>12. Applied(l) = h[m]
  BY <1>1, <1>4 DEF h, g
<1> QED
  BY <1>8, <1>9, <1>11, <1>12 DEF base, seq, m

\* One of the first i pending events is a bar of s.
Printed(l, s, i) == \E j \in 1..i : IsBar(l.pending[j]) /\ l.pending[j].symbol = s

\* What is pending is of one stamp and has one bar of a symbol.
OneStamp(l) ==
  /\ \A i \in DOMAIN l.pending : l.pending[i].stamp = l.current_stamp
  /\ \A i, j \in DOMAIN l.pending : i < j =>
       ~ /\ IsBar(l.pending[i]) /\ IsBar(l.pending[j])
         /\ l.pending[i].symbol = l.pending[j].symbol

LEMMA AppliedIs ==
  ASSUME NEW l \in Loops, OneStamp(l)
  PROVE  /\ Applied(l) \in Stages(l)
         /\ \A s \in Symbols :
              /\ Applied(l).history[s]
                   = IF Printed(l, s, Len(l.pending))
                     THEN Append(l.history[s], l.current_stamp) ELSE l.history[s]
              /\ Printed(l, s, Len(l.pending)) \/ s \in DOMAIN l.prices
                   => s \in DOMAIN Applied(l).prices
<1> DEFINE m == Len(l.pending)
           Good(a, i) ==
             \A s \in Symbols :
               /\ a.history[s]
                    = IF Printed(l, s, i)
                      THEN Append(l.history[s], l.current_stamp) ELSE l.history[s]
               /\ Printed(l, s, i) \/ s \in DOMAIN l.prices => s \in DOMAIN a.prices
<1>1. PICK h : /\ h[0] = [l EXCEPT !.clock = l.current_stamp]
               /\ \A i \in 1..m : h[i] = WithBar(h[i - 1], l.pending[i])
               /\ \A i \in 0..m : h[i] \in Stages(l)
               /\ h[m] = Applied(l)
  BY AppliedInOrder
<1>2. m \in Nat /\ DOMAIN l.pending = 1..m /\ l.pending \in Seq(Events)
  BY DEF Loops
<1>3. Good(h[0], 0)
  <2>1. \A s : ~Printed(l, s, 0)
    BY DEF Printed
  <2>2. h[0].history = l.history /\ h[0].prices = l.prices
    BY <1>1 DEF Loops
  <2> QED
    BY <2>1, <2>2
<1>4. ASSUME NEW i \in 1..m, Good(h[i - 1], i - 1) PROVE Good(h[i], i)
  <2> DEFINE a == h[i - 1] e == l.pending[i]
  <2>1. a \in Stages(l) /\ e \in Events /\ h[i] = WithBar(a, e)
    BY <1>1, <1>2
  <2>2. i \in 1..i /\ i - 1 \in Nat /\ \A j \in 1..i : j = i \/ j \in 1..(i - 1)
    BY <1>2
  <2>3. \A j \in 1..(i - 1) : j \in 1..i /\ j < i /\ j \in DOMAIN l.pending
    BY <1>2
  <2>4. e.stamp = l.current_stamp
    BY <1>2 DEF OneStamp
  <2>5. ASSUME NEW s \in Symbols
        PROVE  Printed(l, s, i) <=> Printed(l, s, i - 1) \/ (IsBar(e) /\ e.symbol = s)
    BY <2>2, <2>3 DEF Printed
  <2>6. ASSUME NEW s \in Symbols, Printed(l, s, i - 1)
        PROVE  ~ (IsBar(e) /\ e.symbol = s)
    <3>1. PICK j \in 1..(i - 1) : IsBar(l.pending[j]) /\ l.pending[j].symbol = s
      BY <2>6 DEF Printed
    <3> QED
      BY <1>2, <2>3, <3>1 DEF OneStamp
  <2> HIDE DEF a, e
  <2>7. ASSUME NEW s \in Symbols
        PROVE  /\ h[i].history[s]
                    = IF Printed(l, s, i)
                      THEN Append(l.history[s], l.current_stamp) ELSE l.history[s]
               /\ Printed(l, s, i) \/ s \in DOMAIN l.prices => s \in DOMAIN h[i].prices
    <3>1. /\ a.history[s]
               = IF Printed(l, s, i - 1)
                 THEN Append(l.history[s], l.current_stamp) ELSE l.history[s]
          /\ Printed(l, s, i - 1) \/ s \in DOMAIN l.prices => s \in DOMAIN a.prices
      BY <1>4 DEF a
    <3>2. /\ h[i].history[s]
               = IF IsBar(e) /\ e.symbol = s THEN Append(a.history[s], e.stamp)
                 ELSE a.history[s]
          /\ DOMAIN h[i].prices
               = IF IsBar(e) THEN DOMAIN a.prices \cup {e.symbol} ELSE DOMAIN a.prices
      <4>1. /\ WithBar(a, e).history[s]
                 = IF IsBar(e) /\ e.symbol = s THEN Append(a.history[s], e.stamp)
                   ELSE a.history[s]
            /\ DOMAIN WithBar(a, e).prices
                 = IF IsBar(e) THEN DOMAIN a.prices \cup {e.symbol} ELSE DOMAIN a.prices
        BY <2>1, WithBarIs
      <4> QED
        BY <2>1, <4>1
    <3> QED
      BY <2>4, <2>5, <2>6, <3>1, <3>2
  <2> QED
    BY <2>7
<1> HIDE DEF Good, m
<1> DEFINE B == {i \in Nat : i <= m /\ ~Good(h[i], i)}
<1>5. ASSUME B # {} PROVE FALSE
  <2>1. PICK i \in B : \A k \in B : i <= k
    <3>1. B \in SUBSET Nat
      OBVIOUS
    <3> HIDE DEF B
    <3> QED
      BY <1>5, <3>1, SmallestNat
  <2>2. i # 0
    BY <1>3, <2>1
  <2>3. i - 1 \in Nat /\ i - 1 \notin B /\ i \in 1..m
    BY <1>2, <2>1, <2>2
  <2>4. Good(h[i - 1], i - 1)
    BY <1>2, <2>3
  <2> QED
    BY <1>4, <2>1, <2>3, <2>4
<1>6. Good(h[m], m)
  BY <1>2, <1>5
<1>7. m \in 0..m
  BY <1>2
<1> QED
  BY <1>1, <1>6, <1>7 DEF Good, m

-----------------------------------------------------------------------------
(* What the loop knows, and what it is gathering.                          *)

SourceOK(src) ==
  /\ src \in Seq(Events)
  /\ \A i, j \in DOMAIN src : i < j =>
       /\ src[i].stamp <= src[j].stamp
       /\ ~ /\ IsBar(src[i]) /\ IsBar(src[j])
            /\ src[i].symbol = src[j].symbol
            /\ src[i].stamp = src[j].stamp

\* The events the fold w is given; the stamps of its bars of s.
Mine(src, w) == {i \in DOMAIN src : InStream(src[i], w)}
BarsOf(src, w, s) ==
  {src[i].stamp : i \in {j \in Mine(src, w) : IsBar(src[j]) /\ src[j].symbol = s}}

Increasing(h) == \A i, j \in DOMAIN h : i < j => h[i] < h[j]

\* The histories hold the bars up to t, each once and in order.
Knows(src, w, history, t) ==
  \A s \in Symbols : /\ Increasing(history[s])
                     /\ Range(history[s]) = {v \in BarsOf(src, w, s) : v <= t}

\* What is pending are the events of the current stamp among the first n - 1.
Gathered(src, w, l, n) ==
  /\ \A i \in Mine(src, w) : i < n => src[i].stamp <= l.current_stamp
  /\ l.pending # <<>> =>
       Range(l.pending)
         = {src[i] : i \in {j \in Mine(src, w) : j < n /\ src[j].stamp = l.current_stamp}}
  /\ OneStamp(l)

\* No event of the current stamp is still to come.
Complete(src, w, l, n) ==
  \A i \in Mine(src, w) : i >= n => src[i].stamp > l.current_stamp

LEMMA SourceIs == ASSUME NEW src \in Sources PROVE SourceOK(src)
BY SourcesAssumption DEF SourceOK

LEMMA Appended ==
  ASSUME NEW h \in Seq(Nat), NEW t \in Nat, Increasing(h), \A v \in Range(h) : v < t
  PROVE  /\ Increasing(Append(h, t))
         /\ Range(Append(h, t)) = Range(h) \cup {t}
         /\ Append(h, t) \in Seq(Nat)
<1> DEFINE g == Append(h, t) m == Len(h)
<1>1. /\ m \in Nat /\ DOMAIN h = 1..m /\ DOMAIN g = 1..(m + 1) /\ g[m + 1] = t
      /\ \A i \in 1..m : g[i] = h[i] /\ h[i] \in Nat
      /\ g \in Seq(Nat)
  OBVIOUS
<1> HIDE DEF g, m
<1>2. \A i \in 1..m : h[i] < t
  BY <1>1 DEF Range
<1>3. Increasing(g)
  <2> SUFFICES ASSUME NEW i \in 1..(m + 1), NEW j \in 1..(m + 1), i < j
               PROVE  g[i] < g[j]
    BY <1>1 DEF Increasing
  <2>1. i \in 1..m
    BY <1>1
  <2>2. CASE j = m + 1
    BY <1>1, <1>2, <2>1, <2>2
  <2>3. CASE j # m + 1
    <3>1. j \in 1..m
      BY <1>1, <2>3
    <3> QED
      BY <1>1, <2>1, <3>1 DEF Increasing
  <2> QED
    BY <2>2, <2>3
<1>4. Range(g) = Range(h) \cup {t}
  <2>1. ASSUME NEW v \in Range(g) PROVE v \in Range(h) \cup {t}
    <3>1. PICK i \in 1..(m + 1) : g[i] = v
      BY <1>1 DEF Range
    <3>2. CASE i = m + 1
      BY <1>1, <3>1, <3>2
    <3>3. CASE i # m + 1
      <4>1. i \in 1..m
        BY <1>1, <3>3
      <4> QED
        BY <1>1, <3>1, <4>1 DEF Range
    <3> QED
      BY <3>2, <3>3
  <2>2. ASSUME NEW v \in Range(h) PROVE v \in Range(g)
    <3>1. PICK i \in 1..m : h[i] = v
      BY <1>1 DEF Range
    <3>2. i \in 1..(m + 1)
      BY <1>1
    <3> QED
      BY <1>1, <3>1, <3>2 DEF Range
  <2>3. t \in Range(g)
    <3>1. m + 1 \in 1..(m + 1)
      BY <1>1
    <3> QED
      BY <1>1, <3>1 DEF Range
  <2> QED
    BY <2>1, <2>2, <2>3
<1> QED
  BY <1>1, <1>3, <1>4 DEF g

LEMMA FlushKnows ==
  ASSUME NEW src, SourceOK(src), NEW w, NEW n \in Nat, NEW l \in Loops,
         l.pending # <<>>, Gathered(src, w, l, n), Complete(src, w, l, n),
         Knows(src, w, l.history, l.current_stamp - 1)
  PROVE  /\ l.current_stamp \in Nat
         /\ Knows(src, w, Applied(l).history, l.current_stamp)
<1> DEFINE m == Len(l.pending) cs == l.current_stamp q == l.pending
<1>1. /\ m \in Nat \ {0} /\ DOMAIN q = 1..m /\ q \in Seq(Events)
      /\ l.history \in Histories /\ cs \in Nat \cup {NoStamp}
  BY DEF Loops
<1>2. OneStamp(l)
  BY DEF Gathered
<1>3. cs \in Nat
  <2>1. 1 \in DOMAIN q /\ q[1] \in Events
    BY <1>1
  <2>2. q[1].stamp = cs
    BY <1>2, <2>1 DEF OneStamp
  <2> QED
    BY <2>1, <2>2 DEF Events
<1>4. Mine(src, w) \in SUBSET Nat /\ \A i \in Mine(src, w) : src[i].stamp \in Nat
  <2>1. \A i \in DOMAIN src : i \in Nat /\ src[i] \in Events
    BY DEF SourceOK
  <2> QED
    BY <2>1 DEF Mine, Events
<1>5. ASSUME NEW s \in Symbols
      PROVE  Printed(l, s, m) <=> cs \in BarsOf(src, w, s)
  <2>1. Range(q) = {src[i] : i \in {j \in Mine(src, w) : j < n /\ src[j].stamp = cs}}
    BY DEF Gathered
  <2>2. ASSUME Printed(l, s, m) PROVE cs \in BarsOf(src, w, s)
    <3>1. PICK j \in 1..m : IsBar(q[j]) /\ q[j].symbol = s
      BY <2>2 DEF Printed
    <3>2. q[j] \in Range(q)
      BY <1>1 DEF Range
    <3>3. PICK i \in Mine(src, w) : src[i].stamp = cs /\ src[i] = q[j]
      BY <2>1, <3>2
    <3> QED
      BY <3>1, <3>3 DEF BarsOf
  <2>3. ASSUME cs \in BarsOf(src, w, s) PROVE Printed(l, s, m)
    <3>1. PICK i \in Mine(src, w) : IsBar(src[i]) /\ src[i].symbol = s /\ src[i].stamp = cs
      BY <2>3 DEF BarsOf
    <3>2. i < n
      BY <1>3, <1>4, <3>1 DEF Complete
    <3>3. src[i] \in Range(q)
      BY <2>1, <3>1, <3>2
    <3>4. PICK j \in 1..m : q[j] = src[i]
      BY <1>1, <3>3 DEF Range
    <3> QED
      BY <3>1, <3>4 DEF Printed
  <2> QED
    BY <2>2, <2>3
<1>6. ASSUME NEW s \in Symbols
      PROVE  /\ Increasing(Applied(l).history[s])
             /\ Range(Applied(l).history[s]) = {v \in BarsOf(src, w, s) : v <= cs}
  <2> DEFINE h == l.history[s]
  <2>1. h \in Seq(Nat)
    BY <1>1 DEF Histories
  <2>2. Increasing(h) /\ Range(h) = {v \in BarsOf(src, w, s) : v <= cs - 1}
    BY DEF Knows
  <2>3. BarsOf(src, w, s) \in SUBSET Nat
    BY <1>4 DEF BarsOf
  <2>4. Applied(l).history[s] = IF Printed(l, s, m) THEN Append(h, cs) ELSE h
    BY <1>2, AppliedIs
  <2> HIDE DEF h, cs, m
  <2>5. CASE Printed(l, s, m)
    <3>1. \A v \in Range(h) : v < cs
      BY <1>3, <2>2, <2>3
    <3>2. Increasing(Append(h, cs)) /\ Range(Append(h, cs)) = Range(h) \cup {cs}
      BY <1>3, <2>1, <2>2, <3>1, Appended
    <3>3. cs \in BarsOf(src, w, s)
      BY <1>5, <2>5
    <3>4. Range(h) \cup {cs} = {v \in BarsOf(src, w, s) : v <= cs}
      BY <1>3, <2>2, <2>3, <3>3
    <3> QED
      BY <2>4, <2>5, <3>2, <3>4
  <2>6. CASE ~Printed(l, s, m)
    <3>1. cs \notin BarsOf(src, w, s)
      BY <1>5, <2>6
    <3>2. Range(h) = {v \in BarsOf(src, w, s) : v <= cs}
      BY <1>3, <2>2, <2>3, <3>1
    <3> QED
      BY <2>2, <2>4, <2>6, <3>2
  <2> QED
    BY <2>5, <2>6
<1> QED
  BY <1>3, <1>6 DEF Knows

-----------------------------------------------------------------------------
(* What a flush does.                                                      *)

\* Every symbol that has printed has a price.
Priced(l) == \A s \in Symbols : l.history[s] # <<>> => s \in DOMAIN l.prices

Enough(history) == \A s \in Symbols : Len(history[s]) > EstimationWindow

\* f is l with the book marked.
Marks(l, f) ==
  LET value == total_value(l.account, f.prices) IN
  /\ value \in Nat
  /\ f.bars_seen = l.bars_seen + 1
  /\ f.equity = Append(l.equity, value)
  /\ f.peak_equity = IF value > l.peak_equity THEN value ELSE l.peak_equity
  /\ f.drawdown = <<f.peak_equity - value, f.peak_equity>>

\* f is l with a decision made, f is l without one.
Decides(l, f) ==
  /\ f.last_rebalance_index = f.bars_seen
  /\ \E c \in Decisions :
       /\ f.cycles = Append(l.cycles, c)
       /\ c.stamp = l.current_stamp /\ c.session = f.bars_seen /\ c.note # "history"
       /\ c.drawdown = f.drawdown /\ c.seen = f.history
       /\ c.rows = [i \in 1..EstimationWindow |-> Row(f.history, i)]

Waits(l, f) ==
  /\ f.last_rebalance_index = l.last_rebalance_index
  /\ f.account = l.account
  /\ f.cycles = l.cycles

LEMMA Parameters ==
  /\ IsFiniteSet(Symbols) /\ Cardinality(Symbols) >= 2
  /\ InitialCash \in Nat \ {0} /\ RebalanceEvery \in Nat \ {0}
  /\ EstimationWindow \in Nat \ {0}
  /\ RebalanceEvery <= LongAgo /\ LongAgo \in Nat
  /\ Holdings \subseteq [Symbols -> Nat] /\ Costs \subseteq Nat
BY BacktestAssumption DEF LongAgo

LEMMA WorthIsNat ==
  ASSUME NEW cash \in Nat, NEW q \in [Symbols -> Nat], NEW p \in PriceBooks,
         Symbols \subseteq DOMAIN p
  PROVE  total_value([cash |-> cash, positions |-> q], p) \in Nat
<1> DEFINE f == [s \in Symbols |-> IF q[s] = 0 THEN 0 ELSE q[s] * p[s]]
<1>1. \A s \in Symbols : f[s] \in Nat
  <2> SUFFICES ASSUME NEW s \in Symbols PROVE f[s] \in Nat
    OBVIOUS
  <2>1. q[s] \in Nat /\ p[s] \in Nat
    BY PricesAre
  <2>2. q[s] * p[s] \in Nat
    BY <2>1, ProductIsNat
  <2> QED
    BY <2>2
<1> HIDE DEF f
<1>2. Total(f, Symbols) \in Nat
  BY <1>1, Parameters, SumIsNat
<1> QED
  BY <1>2 DEF total_value, f, Total

\* Before it holds anything, the book is worth its cash.
LEMMA WorthOfCash ==
  ASSUME NEW cash \in Nat, NEW p
  PROVE  total_value([cash |-> cash, positions |-> [s \in Symbols |-> 0]], p) = cash
<1> DEFINE f == [s \in Symbols |-> 0]
<1>1. \A s \in Symbols : f[s] \in Int /\ f[s] = 0 * f[s]
  OBVIOUS
<1> HIDE DEF f
<1>0. IsFiniteSet(Symbols) /\ 0 \in Int
  BY Parameters
<1>2. Total(f, Symbols) = 0 * Total(f, Symbols)
  BY ONLY <1>0, <1>1, SumTimes
<1>5. Total(f, Symbols) \in Int
  BY ONLY <1>0, <1>1, SumIsInt
<1>3. Total(f, Symbols) = 0
  BY <1>2, <1>5
<1>4. total_value([cash |-> cash, positions |-> [s \in Symbols |-> 0]], p)
        = cash + Total(f, Symbols)
  <2>1. f = [s \in Symbols |-> IF [x \in Symbols |-> 0][s] = 0 THEN 0
                               ELSE [x \in Symbols |-> 0][s] * p[s]]
    BY DEF f
  <2> QED
    BY <2>1 DEF total_value, Total
<1> QED
  BY <1>3, <1>4

LEMMA MarkedIs ==
  ASSUME NEW l \in Loops, NEW a \in Stages(l), Symbols \subseteq DOMAIN a.prices
  PROVE  /\ Marked(a) \in Loops
         /\ Marks(l, Marked(a)) /\ Waits(l, Marked(a))
         /\ Marked(a).prices = a.prices /\ Marked(a).history = a.history
         /\ Marked(a).pending = l.pending
         /\ Marked(a).current_stamp = l.current_stamp
<1> DEFINE value == total_value(a.account, a.prices)
           peak == IF value > a.peak_equity THEN value ELSE a.peak_equity
           f == [a EXCEPT !.bars_seen = a.bars_seen + 1,
                          !.equity = Append(a.equity, value),
                          !.peak_equity = peak, !.drawdown = <<peak - value, peak>>]
<1>1. Marked(a) = f
  BY DEF Marked
<1>2. /\ a.account = l.account /\ a.prices \in PriceBooks /\ l.account \in Accounts
      /\ a.peak_equity = l.peak_equity /\ l.peak_equity \in Int
      /\ a.bars_seen = l.bars_seen /\ l.bars_seen \in Nat
      /\ a.equity = l.equity /\ l.equity \in Seq(Int)
  BY DEF Stages, Loops
<1>3. value \in Nat
  <2>1. /\ l.account = [cash |-> l.account.cash, positions |-> l.account.positions]
        /\ l.account.cash \in Nat /\ l.account.positions \in [Symbols -> Nat]
    BY <1>2 DEF Accounts
  <2> QED
    BY <1>2, <2>1, WorthIsNat
<1> HIDE DEF value
<1>4. peak \in Int
  BY <1>2, <1>3
<1> HIDE DEF peak
<1>5. f \in Loops
  <2>1. Append(l.equity, value) \in Seq(Int) /\ <<peak - value, peak>> \in Int \X Int
          /\ l.bars_seen + 1 \in Nat
    BY <1>2, <1>3, <1>4
  <2> QED
    <3>1. l.current_stamp \in Int
      BY DEF Loops, NoStamp
    <3>2. a \in Loops
      BY <3>1 DEF Loops, Stages
    <3> QED
      BY <1>2, <1>4, <2>1, <3>2 DEF Loops
<1>6. /\ f.bars_seen = l.bars_seen + 1 /\ f.equity = Append(l.equity, value)
      /\ f.peak_equity = peak /\ f.drawdown = <<peak - value, peak>>
      /\ f.prices = a.prices /\ f.history = a.history /\ f.pending = l.pending
      /\ f.current_stamp = l.current_stamp
      /\ f.last_rebalance_index = l.last_rebalance_index /\ f.account = l.account
      /\ f.cycles = l.cycles
  BY <1>2 DEF Stages
<1> HIDE DEF f
<1>7. Marks(l, f) /\ Waits(l, f)
  BY <1>2, <1>3, <1>6 DEF Marks, Waits, value, peak
<1> QED
  BY <1>1, <1>5, <1>6, <1>7

LEMMA RowsAre ==
  ASSUME NEW history \in Histories, Enough(history), NEW i \in 1..EstimationWindow
  PROVE  Row(history, i) \in [Symbols -> Nat \X Nat]
<1> SUFFICES ASSUME NEW s \in Symbols
             PROVE  <<history[s][Len(history[s]) - i], history[s][Len(history[s]) + 1 - i]>>
                      \in Nat \X Nat
  BY DEF Row, Histories
<1> DEFINE h == history[s] n == Len(h)
<1>1. h \in Seq(Nat) /\ n \in Nat /\ n > EstimationWindow
  BY DEF Histories, Enough
<1> HIDE DEF h, n
<1>2. n - i \in 1..n /\ n + 1 - i \in 1..n
  BY <1>1, Parameters
<1>3. n = Len(h)
  BY DEF n
<1>4. h[n - i] \in Nat /\ h[n + 1 - i] \in Nat
  BY <1>1, <1>2, <1>3
<1> QED
  BY <1>4 DEF h, n

\* With enough history of every symbol, all of them are usable.
LEMMA AllUsable ==
  ASSUME NEW m \in Loops, Enough(m.history), Symbols \subseteq DOMAIN m.prices
  PROVE  /\ Usable(m) = Symbols
         /\ Observations(m) = [i \in 1..EstimationWindow |-> Row(m.history, i)]
<1>1. Usable(m) = Symbols
  BY DEF Usable, Enough
<1>2. [s \in Symbols |-> m.history[s]] = m.history
  BY DEF Loops, Histories
<1> QED
  BY <1>1, <1>2 DEF Observations

LEMMA RecordedIs ==
  ASSUME NEW m \in Loops, Enough(m.history), Symbols \subseteq DOMAIN m.prices,
         m.current_stamp \in Nat,
         NEW note \in {"optimizer", "vetoed", "executed"}, NEW account \in Accounts
  PROVE  LET f == Recorded(m, note, account) IN
         /\ f \in Loops /\ Decides(m, f)
         /\ f.prices = m.prices /\ f.history = m.history
         /\ f.pending = m.pending /\ f.current_stamp = m.current_stamp
         /\ f.bars_seen = m.bars_seen /\ f.equity = m.equity
         /\ f.peak_equity = m.peak_equity /\ f.drawdown = m.drawdown
<1> DEFINE rows == [i \in 1..EstimationWindow |-> Row(m.history, i)]
           c == [stamp |-> m.current_stamp, session |-> m.bars_seen, note |-> note,
                 drawdown |-> m.drawdown, seen |-> m.history, rows |-> rows]
           f == [m EXCEPT !.last_rebalance_index = m.bars_seen, !.account = account,
                          !.cycles = Append(m.cycles, c)]
<1>1. note # "history" /\ note \in {"history", "optimizer", "vetoed", "executed"}
  OBVIOUS
<1>2. Observations(m) = rows
  BY AllUsable
<1>3. Recorded(m, note, account) = f
  BY <1>1, <1>2 DEF Recorded, CycleRecord
<1>4. /\ m.history \in Histories /\ m.bars_seen \in Nat /\ m.drawdown \in Int \X Int
      /\ m.cycles \in Seq(Decisions)
  BY DEF Loops
<1>5. rows \in Seq([Symbols -> Nat \X Nat])
  BY <1>4, RowsAre, Parameters
<1> HIDE DEF rows
<1>6. c \in Decisions
  BY <1>1, <1>4, <1>5 DEF Decisions
<1>7. /\ c.stamp = m.current_stamp /\ c.session = m.bars_seen /\ c.note # "history"
      /\ c.drawdown = m.drawdown /\ c.seen = m.history /\ c.rows = rows
  BY <1>1
<1> HIDE DEF c
<1>8. Append(m.cycles, c) \in Seq(Decisions)
  BY <1>4, <1>6
<1>9. f \in Loops
  <2> DEFINE cycles == Append(m.cycles, c) session == m.bars_seen
             g == [m EXCEPT !.last_rebalance_index = session, !.account = account,
                            !.cycles = cycles]
  <2>1. cycles \in Seq(Decisions) /\ session \in Int
    BY <1>4, <1>8
  <2> HIDE DEF cycles, session
  <2>2. g \in Loops
    BY <2>1 DEF Loops
  <2> QED
    BY <2>2 DEF cycles, session
<1>10. /\ f.prices = m.prices /\ f.history = m.history
       /\ f.pending = m.pending /\ f.current_stamp = m.current_stamp
       /\ f.bars_seen = m.bars_seen /\ f.equity = m.equity
       /\ f.peak_equity = m.peak_equity /\ f.drawdown = m.drawdown
       /\ f.last_rebalance_index = m.bars_seen
       /\ f.cycles = Append(m.cycles, c)
  BY DEF Loops
<1> HIDE DEF f
<1>11. Decides(m, f)
  BY <1>6, <1>7, <1>10 DEF Decides, rows
<1> QED
  BY <1>3, <1>9, <1>10, <1>11

\* Whatever the executor reports is an account.
LEMMA ReportsAre ==
  ASSUME NEW m \in Loops, Symbols \subseteq DOMAIN m.prices,
         NEW account \in Reports(m), account.cash >= 0
  PROVE  account \in Accounts
<1>1. PICK q \in Holdings, cost \in Costs :
        account = [cash |-> total_value(m.account, m.prices) - cost
                             - total_value([cash |-> 0, positions |-> q], m.prices),
                   positions |-> q]
  BY DEF Reports
<1>2. q \in [Symbols -> Nat] /\ cost \in Nat
  BY Parameters
<1>3. m.prices \in PriceBooks /\ m.account \in Accounts
  BY DEF Loops
<1>4. /\ m.account = [cash |-> m.account.cash, positions |-> m.account.positions]
      /\ m.account.cash \in Nat /\ m.account.positions \in [Symbols -> Nat]
  BY <1>3 DEF Accounts
<1>5. total_value([cash |-> m.account.cash, positions |-> m.account.positions], m.prices)
        \in Nat
  BY <1>3, <1>4, WorthIsNat
<1>6. total_value([cash |-> 0, positions |-> q], m.prices) \in Nat
  BY <1>2, <1>3, WorthIsNat
<1>7. total_value(m.account, m.prices) \in Nat
  BY <1>4, <1>5
<1>8. account.cash \in Nat /\ account.positions = q
  BY <1>1, <1>2, <1>6, <1>7
<1>9. account = [cash |-> account.cash, positions |-> account.positions]
  BY <1>1
<1> QED
  BY <1>2, <1>8, <1>9 DEF Accounts

\* A flush applies the pending bars; once every symbol has printed it marks the
\* book, and decides when there is history enough and the interval is over.
LEMMA FlushedIs ==
  ASSUME NEW l \in Loops, l.current_stamp \in Nat, OneStamp(l), Priced(l), NEW f \in Flushed(l)
  PROVE  /\ f \in Loops /\ Priced(f)
         /\ f.history = Applied(l).history
         /\ f.pending = l.pending /\ f.current_stamp = l.current_stamp
         /\ ~Counts(f) =>
              /\ Waits(l, f)
              /\ f.bars_seen = l.bars_seen /\ f.equity = l.equity
              /\ f.peak_equity = l.peak_equity /\ f.drawdown = l.drawdown
         /\ Counts(f) =>
              /\ Marks(l, f)
              /\ IF /\ Enough(f.history)
                    /\ f.bars_seen - l.last_rebalance_index >= RebalanceEvery
                 THEN Decides(l, f) ELSE Waits(l, f)
<1> DEFINE a == Applied(l) m == Marked(a)
<1>1. /\ a \in Stages(l)
      /\ \A s \in Symbols :
           /\ a.history[s] = IF Printed(l, s, Len(l.pending))
                             THEN Append(l.history[s], l.current_stamp) ELSE l.history[s]
           /\ Printed(l, s, Len(l.pending)) \/ s \in DOMAIN l.prices
                => s \in DOMAIN a.prices
  BY AppliedIs
<1> HIDE DEF a
<1>2. \A s \in Symbols : a.history[s] # <<>> => s \in DOMAIN a.prices
  BY <1>1 DEF Priced
<1>3. a \in Loops
  <2>1. l.current_stamp \in Int
    BY DEF Loops, NoStamp
  <2> QED
    BY <1>1, <2>1 DEF Loops, Stages
<1>4. CASE ~Counts(a)
  <2>1. f = a
    BY <1>4 DEF Flushed, a
  <2> QED
    BY <1>1, <1>2, <1>3, <1>4, <2>1 DEF Stages, Waits, Priced, a
<1>5. CASE Counts(a)
  <2>1. Symbols \subseteq DOMAIN a.prices
    BY <1>2, <1>5 DEF Counts
  <2>2. /\ m \in Loops /\ Marks(l, m) /\ Waits(l, m)
        /\ m.prices = a.prices /\ m.history = a.history
        /\ m.pending = l.pending /\ m.current_stamp = l.current_stamp
    BY <1>1, <2>1, MarkedIs
  <2> HIDE DEF m
  <2>3. Counts(m) /\ Priced(m)
    BY <1>2, <1>5, <2>2 DEF Counts, Priced
  <2>4. Ready(m) <=> Enough(m.history)
    BY DEF Ready, Enough
  <2>5. Due(m) <=> m.bars_seen - l.last_rebalance_index >= RebalanceEvery
    BY <2>2 DEF Due, Waits
  <2>6. CASE ~(Ready(m) /\ Due(m))
    <3>1. f = m
      BY <1>5, <2>6 DEF Flushed, a, m
    <3> QED
      BY <2>2, <2>3, <2>4, <2>5, <2>6, <3>1 DEF a
  <2>7. CASE Ready(m) /\ Due(m)
    <3>1. f \in Rebalanced(m)
      BY <1>5, <2>7 DEF Flushed, a, m
    <3>2. Usable(m) = Symbols /\ ~(Cardinality(Usable(m)) < 2)
      <4>1. Usable(m) = Symbols
        BY <2>1, <2>2, <2>4, <2>7, AllUsable
      <4>2. Cardinality(Symbols) \in Nat
        BY Parameters, FS_CardinalityType
      <4> QED
        BY <4>1, <4>2, Parameters
    <3>3. PICK note \in {"optimizer", "vetoed", "executed"}, account \in Accounts :
            f = Recorded(m, note, account)
      <4>1. m.account \in Accounts
        BY <2>2 DEF Loops
      <4>2. CASE \E note \in {"optimizer", "vetoed"} : f = Recorded(m, note, m.account)
        BY <4>1, <4>2
      <4>3. CASE \E account \in {x \in Reports(m) : x.cash >= 0} :
                   f = Recorded(m, "executed", account)
        BY <2>1, <2>2, <4>3, ReportsAre
      <4> QED
        BY <3>1, <3>2, <4>2, <4>3 DEF Rebalanced
    <3>4. /\ f \in Loops /\ Decides(m, f)
          /\ f.prices = m.prices /\ f.history = m.history
          /\ f.pending = m.pending /\ f.current_stamp = m.current_stamp
          /\ f.bars_seen = m.bars_seen /\ f.equity = m.equity
          /\ f.peak_equity = m.peak_equity /\ f.drawdown = m.drawdown
      <4>1. Symbols \subseteq DOMAIN m.prices /\ m.current_stamp \in Nat /\ Enough(m.history)
        BY <2>1, <2>2, <2>4, <2>7
      <4> QED
        BY <2>2, <3>3, <4>1, RecordedIs
    <3>5. Counts(f) /\ Priced(f)
      BY <2>3, <3>4 DEF Counts, Priced
    <3>6. Marks(l, f)
      BY <2>2, <3>4 DEF Marks
    <3>7. Decides(l, f)
      BY <2>2, <3>4 DEF Decides, Waits
    <3>8. /\ Enough(f.history)
          /\ f.bars_seen - l.last_rebalance_index >= RebalanceEvery
      BY <2>4, <2>5, <2>7, <3>4
    <3> QED
      BY <2>2, <3>4, <3>5, <3>6, <3>7, <3>8 DEF a
  <2> QED
    BY <2>6, <2>7
<1> QED
  BY <1>4, <1>5

-----------------------------------------------------------------------------
(* The inductive invariant of a fold.                                      *)

\* The last instant whose events are applied.
Until(l) == IF l.pending = <<>> THEN l.current_stamp ELSE l.current_stamp - 1

\* A decision was made on what was known at its stamp, with history enough.
Decided(src, w, l) ==
  \A c \in Range(l.cycles) :
    /\ Knows(src, w, c.seen, c.stamp)
    /\ c.note # "history"
    /\ Enough(c.seen)
    /\ c.rows = [i \in 1..EstimationWindow |-> Row(c.seen, i)]

\* p is the highest of the first n values of a curve.
Peak(curve, n, p) ==
  /\ \E i \in 1..n : curve[i] = p
  /\ \A i \in 1..n : curve[i] <= p

\* The book starts with the initial cash; peak and drawdown are those of the
\* curve so far, and what a decision was shown those of its session.
Booked(l) ==
  /\ l.bars_seen = Len(l.equity)
  /\ l.bars_seen = 0 =>
       /\ l.account = [cash |-> InitialCash, positions |-> [s \in Symbols |-> 0]]
       /\ l.peak_equity = InitialCash
  /\ l.bars_seen > 0 =>
       /\ l.equity[1] = InitialCash
       /\ Peak(l.equity, l.bars_seen, l.peak_equity)
  /\ \A c \in Range(l.cycles) :
       /\ c.session \in 1..l.bars_seen
       /\ \E p \in Int : /\ c.drawdown = <<p - l.equity[c.session], p>>
                         /\ Peak(l.equity, c.session, p)

\* The sessions up to t at which every symbol has a full window.
StampsOf(src, w, t) == {src[i].stamp : i \in {j \in Mine(src, w) : src[j].stamp <= t}}
SessionsOf(src, w, t) ==
  {u \in StampsOf(src, w, t) :
     \A s \in Symbols : Cardinality({v \in BarsOf(src, w, s) : v <= u}) > EstimationWindow}

\* After ready sessions and decisions, gap sessions have passed since the last.
Timed(l, ready) ==
  IF ready = 0
  THEN l.cycles = <<>> /\ l.last_rebalance_index = -LongAgo
  ELSE LET gap == l.bars_seen - l.last_rebalance_index IN
       /\ Enough(l.history)
       /\ l.cycles # <<>>
       /\ gap \in 0..(RebalanceEvery - 1)
       /\ ready = (Len(l.cycles) - 1) * RebalanceEvery + gap + 1

Sound(src, w, l, n) ==
  /\ l \in Loops
  /\ Gathered(src, w, l, n)
  /\ Knows(src, w, l.history, Until(l))
  /\ Priced(l)
  /\ Decided(src, w, l)
  /\ Booked(l)
  /\ Timed(l, Cardinality(SessionsOf(src, w, Until(l))))

LEMMA RangeOfAppend ==
  ASSUME NEW T, NEW q \in Seq(T), NEW e \in T
  PROVE  Range(Append(q, e)) = Range(q) \cup {e}
<1> DEFINE g == Append(q, e) m == Len(q)
<1>1. /\ m \in Nat /\ DOMAIN q = 1..m /\ DOMAIN g = 1..(m + 1) /\ g[m + 1] = e
      /\ \A i \in 1..m : g[i] = q[i]
  OBVIOUS
<1> HIDE DEF g, m
<1>2. ASSUME NEW v \in Range(g) PROVE v \in Range(q) \cup {e}
  <2>1. PICK i \in 1..(m + 1) : g[i] = v
    BY <1>1 DEF Range
  <2>2. CASE i = m + 1
    BY <1>1, <2>1, <2>2
  <2>3. CASE i # m + 1
    <3>1. i \in 1..m
      BY <1>1, <2>3
    <3> QED
      BY <1>1, <2>1, <3>1 DEF Range
  <2> QED
    BY <2>2, <2>3
<1>3. ASSUME NEW v \in Range(q) PROVE v \in Range(g)
  <2>1. PICK i \in 1..m : q[i] = v
    BY <1>1 DEF Range
  <2>2. i \in 1..(m + 1)
    BY <1>1
  <2> QED
    BY <1>1, <2>1, <2>2 DEF Range
<1>4. e \in Range(g)
  <2>1. m + 1 \in 1..(m + 1)
    BY <1>1
  <2> QED
    BY <1>1, <2>1 DEF Range
<1> QED
  BY <1>2, <1>3, <1>4 DEF g

\* An increasing history is as long as it has stamps.
LEMMA IncreasingCounts ==
  ASSUME NEW h \in Seq(Nat), Increasing(h)
  PROVE  IsFiniteSet(Range(h)) /\ Cardinality(Range(h)) = Len(h)
<1> DEFINE m == Len(h)
<1>1. m \in Nat /\ DOMAIN h = 1..m /\ \A i \in 1..m : h[i] \in Nat
  OBVIOUS
<1>2. h \in [1..m -> Range(h)]
  BY <1>1 DEF Range
<1>3. \A i, j \in 1..m : h[i] = h[j] => i = j
  BY <1>1 DEF Increasing
<1>4. \A v \in Range(h) : \E i \in 1..m : h[i] = v
  BY <1>1 DEF Range
<1>5. h \in Bijection(1..m, Range(h))
  <2> HIDE DEF m
  <2> QED
    BY <1>2, <1>3, <1>4 DEF Bijection, Injection, Surjection, IsInjective
<1>6. IsFiniteSet(1..m) /\ Cardinality(1..m) = m
  <2> HIDE DEF m
  <2>1. Cardinality(1..m) = IF 1 > m THEN 0 ELSE m - 1 + 1
    BY <1>1, FS_Interval
  <2> QED
    BY <1>1, <2>1, FS_Interval
<1> HIDE DEF m
<1>7. ExistsBijection(1..m, Range(h))
  BY <1>5 DEF ExistsBijection
<1>8. IsFiniteSet(Range(h)) /\ Cardinality(Range(h)) = Cardinality(1..m)
  BY <1>6, <1>7, FS_Bijection
<1> QED
  BY <1>6, <1>8 DEF m

LEMMA StampsAreFinite ==
  ASSUME NEW src, SourceOK(src), NEW w, NEW t \in Int
  PROVE  /\ StampsOf(src, w, t) \in SUBSET Nat
         /\ IsFiniteSet(SessionsOf(src, w, t))
         /\ Cardinality(SessionsOf(src, w, t)) \in Nat
<1>1. \A i \in Mine(src, w) : src[i].stamp \in Nat
  <2>1. \A i \in DOMAIN src : src[i] \in Events
    BY DEF SourceOK
  <2> QED
    BY <2>1 DEF Mine, Events
<1>2. StampsOf(src, w, t) \subseteq 0..t
  BY <1>1 DEF StampsOf
<1>3. IsFiniteSet(0..t)
  BY FS_Interval
<1>4. SessionsOf(src, w, t) \subseteq 0..t
  BY <1>2 DEF SessionsOf
<1>5. IsFiniteSet(SessionsOf(src, w, t))
  BY <1>3, <1>4, FS_Subset
<1> QED
  BY <1>2, <1>5, FS_CardinalityType

\* Between two instants without an event nothing is learnt.
LEMMA NothingBetween ==
  ASSUME NEW src, SourceOK(src), NEW w, NEW t \in Int, NEW u \in Int, t <= u,
         \A i \in Mine(src, w) : src[i].stamp <= t \/ src[i].stamp > u
  PROVE  /\ \A history : Knows(src, w, history, t) => Knows(src, w, history, u)
         /\ SessionsOf(src, w, t) = SessionsOf(src, w, u)
<1>1. \A i \in Mine(src, w) : src[i].stamp \in Nat
  <2>1. \A i \in DOMAIN src : src[i] \in Events
    BY DEF SourceOK
  <2> QED
    BY <2>1 DEF Mine, Events
<1>2. \A i \in Mine(src, w) : src[i].stamp <= t <=> src[i].stamp <= u
  BY <1>1
<1>3. \A s : {v \in BarsOf(src, w, s) : v <= t} = {v \in BarsOf(src, w, s) : v <= u}
  BY <1>2 DEF BarsOf
<1>4. StampsOf(src, w, t) = StampsOf(src, w, u)
  BY <1>2 DEF StampsOf
<1> QED
  BY <1>3, <1>4 DEF Knows, SessionsOf

LEMMA FreshSound ==
  ASSUME NEW src, SourceOK(src), NEW w, NEW start \in Int
  PROVE  Sound(src, w, Fresh(start), 1)
<1> DEFINE l == Fresh(start)
<1>1. l \in Loops
  <2>1. [s \in {} |-> 0] \in PriceBooks
    <3>1. [s \in {} |-> 0] \in [{} -> Nat] /\ {} \in SUBSET STRING
      OBVIOUS
    <3> QED
      BY <3>1 DEF PriceBooks
  <2>2. [s \in Symbols |-> <<>>] \in Histories
    BY DEF Histories
  <2>3. [cash |-> InitialCash, positions |-> [s \in Symbols |-> 0]] \in Accounts
    BY Parameters DEF Accounts
  <2>4. <<0, 1>> \in Int \X Int /\ -LongAgo \in Int /\ InitialCash \in Int
    BY Parameters
  <2> QED
    BY <2>1, <2>2, <2>3, <2>4 DEF Fresh, Loops
<1>2. /\ l.pending = <<>> /\ l.current_stamp = NoStamp /\ l.cycles = <<>>
      /\ l.history = [s \in Symbols |-> <<>>] /\ l.bars_seen = 0 /\ l.equity = <<>>
      /\ l.account = [cash |-> InitialCash, positions |-> [s \in Symbols |-> 0]]
      /\ l.peak_equity = InitialCash /\ l.last_rebalance_index = -LongAgo
  BY DEF Fresh
<1> HIDE DEF l
<1>3. \A i \in Mine(src, w) : i \in Nat /\ i >= 1 /\ src[i].stamp \in Nat
  <2>1. \A i \in DOMAIN src : src[i] \in Events /\ i \in Nat /\ i >= 1
    BY DEF SourceOK
  <2> QED
    BY <2>1 DEF Mine, Events
<1>4. Gathered(src, w, l, 1)
  <2>1. \A i \in Mine(src, w) : ~(i < 1)
    BY <1>3
  <2>2. DOMAIN l.pending = {}
    BY <1>2
  <2> QED
    BY <1>2, <2>1, <2>2 DEF Gathered, OneStamp
<1>5. Until(l) = -1
  BY <1>2 DEF Until, NoStamp
<1>6. Knows(src, w, l.history, -1)
  <2>1. \A s : \A v \in BarsOf(src, w, s) : v \in Nat
    BY <1>3 DEF BarsOf
  <2>2. \A s \in Symbols : Range(l.history[s]) = {} /\ Increasing(l.history[s])
    BY <1>2 DEF Range, Increasing
  <2>3. \A s : {v \in BarsOf(src, w, s) : v <= -1} = {}
    BY <2>1
  <2> QED
    BY <2>2, <2>3 DEF Knows
<1>7. Priced(l)
  BY <1>2 DEF Priced
<1>8. Range(l.cycles) = {}
  BY <1>2 DEF Range
<1>9. Decided(src, w, l) /\ Booked(l)
  BY <1>2, <1>8 DEF Decided, Booked
<1>10. Cardinality(SessionsOf(src, w, -1)) = 0
  <2>1. StampsOf(src, w, -1) = {}
    BY <1>3 DEF StampsOf
  <2>2. SessionsOf(src, w, -1) = {}
    BY <2>1 DEF SessionsOf
  <2> QED
    BY <2>2, FS_EmptySet
<1>11. Timed(l, 0)
  BY <1>2 DEF Timed
<1> QED
  BY <1>1, <1>4, <1>5, <1>6, <1>7, <1>9, <1>10, <1>11 DEF Sound, l

LEMMA SkipSound ==
  ASSUME NEW src, SourceOK(src), NEW w, NEW l, NEW n \in Nat, Sound(src, w, l, n),
         n \notin Mine(src, w)
  PROVE  Sound(src, w, l, n + 1)
<1>1. \A i \in Mine(src, w) : i \in Nat /\ (i < n + 1 <=> i < n)
  <2>1. \A i \in DOMAIN src : i \in Nat
    BY DEF SourceOK
  <2> QED
    BY <2>1 DEF Mine
<1>2. Gathered(src, w, l, n + 1)
  BY <1>1 DEF Sound, Gathered
<1> QED
  BY <1>2 DEF Sound

\* What is pending is not empty and of a stamp that is told.
LEMMA PendingStamp ==
  ASSUME NEW src, SourceOK(src), NEW w, NEW l, NEW n \in Nat, Sound(src, w, l, n),
         l.pending # <<>>
  PROVE  /\ l.current_stamp \in Nat
         /\ \E i \in Mine(src, w) : i < n /\ src[i].stamp = l.current_stamp
<1>1. l.pending \in Seq(Events) /\ l.pending # <<>>
  BY DEF Sound, Loops
<1>2. 1 \in DOMAIN l.pending /\ l.pending[1] \in Events
  BY <1>1
<1>3. l.pending[1].stamp = l.current_stamp
  BY <1>2 DEF Sound, Gathered, OneStamp
<1>4. l.pending[1] \in Range(l.pending)
  BY <1>2 DEF Range
<1> QED
  BY <1>2, <1>3, <1>4 DEF Sound, Gathered, Events

LEMMA SourceFacts ==
  ASSUME NEW src, SourceOK(src), NEW w
  PROVE  /\ \A i \in Mine(src, w) : /\ i \in Nat /\ i \in DOMAIN src
                                    /\ src[i] \in Events /\ src[i].stamp \in Nat
         /\ \A i, j \in Mine(src, w) : i <= j => src[i].stamp <= src[j].stamp
<1>1. \A i \in DOMAIN src : i \in Nat /\ src[i] \in Events /\ src[i].stamp \in Nat
  <2>1. \A i \in DOMAIN src : i \in Nat /\ src[i] \in Events
    BY DEF SourceOK
  <2> QED
    BY <2>1 DEF Events
<1>2. \A i, j \in DOMAIN src : i <= j => i = j \/ i < j
  BY <1>1
<1>3. \A i, j \in DOMAIN src : i <= j => src[i].stamp <= src[j].stamp
  BY <1>1, <1>2 DEF SourceOK
<1> QED
  BY <1>1, <1>3 DEF Mine

LEMMA TakenIs ==
  ASSUME NEW l \in Loops, NEW e \in Events
  PROVE  LET f == Taken(l, e) IN
         /\ f \in Loops
         /\ f.pending = Append(l.pending, e) /\ f.current_stamp = e.stamp
         /\ f.history = l.history /\ f.prices = l.prices /\ f.account = l.account
         /\ f.equity = l.equity /\ f.peak_equity = l.peak_equity
         /\ f.bars_seen = l.bars_seen /\ f.cycles = l.cycles
         /\ f.last_rebalance_index = l.last_rebalance_index
         /\ f.pending # <<>>
<1> DEFINE q == Append(l.pending, e) t == e.stamp
           f == [l EXCEPT !.current_stamp = t, !.pending = q]
<1>1. Taken(l, e) = f
  BY DEF Taken
<1>2. q \in Seq(Events) /\ t \in Nat \cup {NoStamp} /\ q # <<>>
  <2>1. l.pending \in Seq(Events)
    BY DEF Loops
  <2>2. q \in Seq(Events) /\ Len(q) = Len(l.pending) + 1 /\ Len(l.pending) \in Nat
    BY <2>1
  <2>3. t \in Nat
    BY DEF Events
  <2>4. q # <<>>
    <3> HIDE DEF q
    <3> QED
      BY <2>2
  <2> QED
    BY <2>2, <2>3, <2>4
<1> HIDE DEF q, t
<1>3. f \in Loops
  BY <1>2 DEF Loops
<1>4. /\ f.pending = q /\ f.current_stamp = t
      /\ f.history = l.history /\ f.prices = l.prices /\ f.account = l.account
      /\ f.equity = l.equity /\ f.peak_equity = l.peak_equity
      /\ f.bars_seen = l.bars_seen /\ f.cycles = l.cycles
      /\ f.last_rebalance_index = l.last_rebalance_index
  BY DEF Loops
<1> QED
  BY <1>1, <1>2, <1>3, <1>4 DEF q, t

\* Taking an event changes nothing but what is pending.
LEMMA TakenStands ==
  ASSUME NEW src, NEW w, NEW l \in Loops, NEW e \in Events, NEW r,
         Priced(l), Decided(src, w, l), Booked(l), Timed(l, r)
  PROVE  /\ Priced(Taken(l, e)) /\ Decided(src, w, Taken(l, e))
         /\ Booked(Taken(l, e)) /\ Timed(Taken(l, e), r)
<1> DEFINE f == Taken(l, e)
<1>1. /\ f.history = l.history /\ f.prices = l.prices /\ f.account = l.account
      /\ f.equity = l.equity /\ f.peak_equity = l.peak_equity
      /\ f.bars_seen = l.bars_seen /\ f.cycles = l.cycles
      /\ f.last_rebalance_index = l.last_rebalance_index
  BY TakenIs
<1> HIDE DEF f
<1>2. Priced(f)
  BY <1>1 DEF Priced
<1>3. Decided(src, w, f)
  BY <1>1 DEF Decided
<1>4. Booked(f)
  BY <1>1 DEF Booked
<1>5. Timed(f, r)
  BY <1>1 DEF Timed
<1> QED
  BY <1>2, <1>3, <1>4, <1>5 DEF f

\* The first event of a stamp, after all earlier stamps were flushed.
LEMMA TakeFirst ==
  ASSUME NEW src, SourceOK(src), NEW w, NEW l, NEW n \in Mine(src, w),
         Sound(src, w, l, n), l.pending = <<>>, l.current_stamp < src[n].stamp
  PROVE  Sound(src, w, Taken(l, src[n]), n + 1)
<1> DEFINE e == src[n] f == Taken(l, e) cs == l.current_stamp
<1>1. /\ l \in Loops /\ e \in Events /\ e.stamp \in Nat /\ n \in Nat
      /\ cs \in Int /\ cs < e.stamp
  BY SourceFacts DEF Sound, Loops, NoStamp
<1>2. /\ f \in Loops /\ f.pending = Append(l.pending, e) /\ f.current_stamp = e.stamp
      /\ f.history = l.history /\ f.pending # <<>>
  BY <1>1, TakenIs
<1>3. f.pending = <<e>>
  BY <1>2
<1>4. /\ \A i \in Mine(src, w) : i < n => src[i].stamp <= cs
      /\ \A i \in Mine(src, w) : i >= n => src[i].stamp >= e.stamp
  BY <1>1, SourceFacts DEF Sound, Gathered
<1>5. \A i \in Mine(src, w) : i \in Nat /\ src[i].stamp \in Nat /\ (i < n + 1 <=> i < n \/ i = n)
  <2>1. \A i \in Mine(src, w) : i \in Nat /\ src[i].stamp \in Nat
    BY SourceFacts
  <2>2. \A i, k \in Nat : i < k + 1 <=> i < k \/ i = k
    OBVIOUS
  <2> QED
    BY <1>1, <2>1, <2>2
<1> HIDE DEF f, e, cs
<1>6. Gathered(src, w, f, n + 1)
  <2>1. \A i \in Mine(src, w) : i < n + 1 => src[i].stamp <= e.stamp
    BY <1>1, <1>4, <1>5 DEF e
  <2>2. Range(f.pending) = {e}
    BY <1>3 DEF Range
  <2>3. ASSUME NEW i \in Mine(src, w)
        PROVE  i < n + 1 /\ src[i].stamp = e.stamp <=> i = n
    BY <1>1, <1>4, <1>5 DEF e
  <2>4. {j \in Mine(src, w) : j < n + 1 /\ src[j].stamp = e.stamp} = {n}
    BY <2>3
  <2>5. OneStamp(f)
    BY <1>2, <1>3 DEF OneStamp
  <2> QED
    BY <1>2, <2>1, <2>2, <2>4, <2>5 DEF Gathered, e
<1>7. Until(l) = cs /\ Until(f) = e.stamp - 1
  BY <1>2 DEF Until, cs
<1>8. /\ Knows(src, w, l.history, e.stamp - 1)
      /\ SessionsOf(src, w, cs) = SessionsOf(src, w, e.stamp - 1)
  <2>1. \A i \in Mine(src, w) : src[i].stamp <= cs \/ src[i].stamp > e.stamp - 1
    BY <1>1, <1>4, <1>5
  <2>2. cs <= e.stamp - 1 /\ e.stamp - 1 \in Int
    BY <1>1
  <2>3. Knows(src, w, l.history, cs)
    BY <1>7 DEF Sound
  <2> QED
    BY <1>1, <2>1, <2>2, <2>3, NothingBetween
<1>9. /\ Priced(l) /\ Decided(src, w, l) /\ Booked(l)
      /\ Timed(l, Cardinality(SessionsOf(src, w, e.stamp - 1)))
  BY <1>7, <1>8 DEF Sound
<1>10. /\ Priced(f) /\ Decided(src, w, f) /\ Booked(f)
       /\ Timed(f, Cardinality(SessionsOf(src, w, e.stamp - 1)))
  BY <1>1, <1>9, TakenStands DEF f
<1>11. Sound(src, w, f, n + 1)
  BY <1>2, <1>6, <1>7, <1>8, <1>10 DEF Sound
<1> QED
  BY <1>11 DEF f, e

\* One more event of the stamp that is gathered.
LEMMA TakeNext ==
  ASSUME NEW src, SourceOK(src), NEW w, NEW l, NEW n \in Mine(src, w),
         Sound(src, w, l, n), l.pending # <<>>, l.current_stamp = src[n].stamp
  PROVE  Sound(src, w, Taken(l, src[n]), n + 1)
<1> DEFINE e == src[n] f == Taken(l, e) cs == l.current_stamp q == l.pending
<1>1. /\ l \in Loops /\ e \in Events /\ n \in Nat /\ n \in DOMAIN src /\ cs \in Nat /\ cs = e.stamp
      /\ q \in Seq(Events)
  BY SourceFacts DEF Sound, Loops
<1>2. /\ f \in Loops /\ f.pending = Append(q, e) /\ f.current_stamp = cs
      /\ f.history = l.history /\ f.pending # <<>>
  BY <1>1, TakenIs
<1>3. /\ \A i \in Mine(src, w) : i < n => src[i].stamp <= cs
      /\ Range(q) = {src[i] : i \in {j \in Mine(src, w) : j < n /\ src[j].stamp = cs}}
      /\ OneStamp(l)
  BY DEF Sound, Gathered
<1>4. \A i \in Mine(src, w) : i \in Nat /\ i \in DOMAIN src /\ (i < n + 1 <=> i < n \/ i = n)
  <2>1. \A i \in Mine(src, w) : i \in Nat /\ i \in DOMAIN src
    BY SourceFacts
  <2>2. \A i \in Nat : i < n + 1 <=> i < n \/ i = n
    BY <1>1
  <2> QED
    BY ONLY <2>1, <2>2
<1> HIDE DEF f
<1>5. Gathered(src, w, f, n + 1)
  <2>1. \A i \in Mine(src, w) : i < n + 1 => src[i].stamp <= cs
    BY <1>1, <1>3, <1>4
  <2>2. Range(f.pending) = Range(q) \cup {e}
    BY <1>1, <1>2, RangeOfAppend
  <2>3. {src[i] : i \in {j \in Mine(src, w) : j < n + 1 /\ src[j].stamp = cs}}
          = {src[i] : i \in {j \in Mine(src, w) : j < n /\ src[j].stamp = cs}} \cup {e}
    BY <1>1, <1>4
  <2>4. OneStamp(f)
    <3> DEFINE m == Len(q) g == Append(q, e)
    <3>1. /\ m \in Nat /\ DOMAIN q = 1..m /\ DOMAIN g = 1..(m + 1) /\ g[m + 1] = e
          /\ \A i \in 1..m : g[i] = q[i]
      BY <1>1
    <3> HIDE DEF m, g
    <3>2. \A i \in 1..(m + 1) : i \in 1..m \/ i = m + 1
      BY <3>1
    <3>3. ASSUME NEW i \in 1..m, IsBar(q[i]), IsBar(e), q[i].symbol = e.symbol
          PROVE  FALSE
      <4>1. q[i] \in Range(q) /\ q[i].stamp = cs
        BY <1>3, <3>1 DEF Range, OneStamp
      <4>2. PICK j \in Mine(src, w) : j < n /\ src[j] = q[i]
        BY <1>3, <4>1
      <4>3. j \in DOMAIN src /\ j < n
        BY <1>4, <4>2
      <4> QED
        BY <1>1, <3>3, <4>1, <4>2, <4>3 DEF SourceOK
    <3>4. \A i \in 1..(m + 1) : g[i].stamp = cs
      BY <1>1, <1>3, <3>1, <3>2 DEF OneStamp
    <3>5. ASSUME NEW i \in 1..(m + 1), NEW j \in 1..(m + 1), i < j,
                 IsBar(g[i]), IsBar(g[j]), g[i].symbol = g[j].symbol
          PROVE  FALSE
      <4>1. i \in 1..m /\ g[i] = q[i]
        BY <3>1, <3>5
      <4>2. CASE j = m + 1
        BY <3>1, <3>3, <3>5, <4>1, <4>2
      <4>3. CASE j \in 1..m
        <5>1. g[j] = q[j] /\ i \in DOMAIN q /\ j \in DOMAIN q
          BY <3>1, <4>1, <4>3
        <5> QED
          BY <1>3, <3>5, <4>1, <5>1 DEF OneStamp
      <4> QED
        BY <3>2, <4>2, <4>3
    <3>6. f.pending = g
      BY <1>2 DEF g
    <3> QED
      BY <1>2, <3>1, <3>4, <3>5, <3>6 DEF OneStamp
  <2> QED
    BY <1>2, <1>3, <2>1, <2>2, <2>3, <2>4 DEF Gathered
<1>6. Until(l) = cs - 1 /\ Until(f) = cs - 1
  BY <1>2 DEF Until
<1>7. /\ Priced(l) /\ Decided(src, w, l) /\ Booked(l)
      /\ Timed(l, Cardinality(SessionsOf(src, w, cs - 1)))
      /\ Knows(src, w, l.history, cs - 1)
  BY <1>6 DEF Sound
<1>8. /\ Priced(f) /\ Decided(src, w, f) /\ Booked(f)
      /\ Timed(f, Cardinality(SessionsOf(src, w, cs - 1)))
  BY <1>1, <1>7, TakenStands DEF f
<1>9. Sound(src, w, f, n + 1)
  BY <1>2, <1>5, <1>6, <1>7, <1>8 DEF Sound
<1> QED
  BY <1>9 DEF f

\* After a flush, with nothing pending.
Emptied(f) == [f EXCEPT !.pending = <<>>]

LEMMA EmptiedIs ==
  ASSUME NEW l \in Loops, l.current_stamp \in Nat, OneStamp(l), Priced(l), NEW g \in Flushed(l)
  PROVE  LET f == Emptied(g) IN
         /\ f \in Loops /\ Priced(f)
         /\ f.history = Applied(l).history
         /\ f.pending = <<>> /\ f.current_stamp = l.current_stamp
         /\ ~Counts(f) =>
              /\ Waits(l, f)
              /\ f.bars_seen = l.bars_seen /\ f.equity = l.equity
              /\ f.peak_equity = l.peak_equity /\ f.drawdown = l.drawdown
         /\ Counts(f) =>
              /\ Marks(l, f)
              /\ IF /\ Enough(f.history)
                    /\ f.bars_seen - l.last_rebalance_index >= RebalanceEvery
                 THEN Decides(l, f) ELSE Waits(l, f)
<1> DEFINE f == Emptied(g)
<1>1. /\ g \in Loops /\ Priced(g)
      /\ g.history = Applied(l).history
      /\ g.pending = l.pending /\ g.current_stamp = l.current_stamp
      /\ ~Counts(g) =>
           /\ Waits(l, g)
           /\ g.bars_seen = l.bars_seen /\ g.equity = l.equity
           /\ g.peak_equity = l.peak_equity /\ g.drawdown = l.drawdown
      /\ Counts(g) =>
           /\ Marks(l, g)
           /\ IF /\ Enough(g.history)
                 /\ g.bars_seen - l.last_rebalance_index >= RebalanceEvery
              THEN Decides(l, g) ELSE Waits(l, g)
  BY FlushedIs
<1>2. f \in Loops
  <2>1. <<>> \in Seq(Events)
    OBVIOUS
  <2> QED
    BY <1>1, <2>1 DEF Emptied, Loops
<1>3. /\ f.pending = <<>> /\ f.current_stamp = g.current_stamp
      /\ f.history = g.history /\ f.prices = g.prices /\ f.account = g.account
      /\ f.equity = g.equity /\ f.peak_equity = g.peak_equity /\ f.drawdown = g.drawdown
      /\ f.bars_seen = g.bars_seen /\ f.cycles = g.cycles
      /\ f.last_rebalance_index = g.last_rebalance_index
  BY <1>1 DEF Emptied, Loops
<1> HIDE DEF f
<1>4. (Counts(f) <=> Counts(g)) /\ Priced(f)
  BY <1>1, <1>3 DEF Counts, Priced
<1>5. Marks(l, f) <=> Marks(l, g)
  BY <1>3 DEF Marks
<1>6. Waits(l, f) <=> Waits(l, g)
  BY <1>3 DEF Waits
<1>7. Decides(l, f) <=> Decides(l, g)
  BY <1>3 DEF Decides
<1>8. Enough(f.history) <=> Enough(g.history)
  BY <1>3
<1> QED
  BY <1>1, <1>2, <1>3, <1>4, <1>5, <1>6, <1>7, <1>8 DEF f

LEMMA EnoughCounts ==
  ASSUME NEW f \in Loops, Enough(f.history)
  PROVE  Counts(f)
<1> SUFFICES ASSUME NEW s \in Symbols PROVE f.history[s] # <<>>
  BY DEF Counts
<1>1. Len(f.history[s]) > EstimationWindow
  BY DEF Enough
<1>2. EstimationWindow \in Nat
  BY Parameters
<1>3. f.history[s] = <<>> => Len(f.history[s]) = 0
  OBVIOUS
<1> QED
  BY <1>1, <1>2, <1>3

LEMMA EnoughStays ==
  ASSUME NEW l \in Loops, OneStamp(l), l.current_stamp \in Nat, Enough(l.history)
  PROVE  Enough(Applied(l).history)
<1> SUFFICES ASSUME NEW s \in Symbols
             PROVE  Len(Applied(l).history[s]) > EstimationWindow
  BY DEF Enough
<1>1. Applied(l).history[s] = IF Printed(l, s, Len(l.pending))
                              THEN Append(l.history[s], l.current_stamp) ELSE l.history[s]
  BY AppliedIs
<1> DEFINE h == l.history[s] t == l.current_stamp
<1>2. h \in Seq(Nat) /\ Len(h) > EstimationWindow /\ EstimationWindow \in Nat
  BY Parameters DEF Loops, Histories, Enough
<1> HIDE DEF h
<1>3. Len(Append(h, t)) = Len(h) + 1 /\ Len(h) \in Nat
  BY <1>2
<1> QED
  BY <1>1, <1>2, <1>3 DEF h

\* A stamp is a ready session when every history is long enough after it.
LEMMA SessionsGrow ==
  ASSUME NEW src, SourceOK(src), NEW w, NEW t \in Nat, NEW history \in Histories,
         Knows(src, w, history, t), \E i \in Mine(src, w) : src[i].stamp = t
  PROVE  /\ SessionsOf(src, w, t)
              = IF Enough(history) THEN SessionsOf(src, w, t - 1) \cup {t}
                ELSE SessionsOf(src, w, t - 1)
         /\ t \notin SessionsOf(src, w, t - 1)
<1> DEFINE Full(u) == \A s \in Symbols :
                        Cardinality({v \in BarsOf(src, w, s) : v <= u}) > EstimationWindow
<1>1. Full(t) <=> Enough(history)
  <2>1. ASSUME NEW s \in Symbols
        PROVE  Cardinality({v \in BarsOf(src, w, s) : v <= t}) = Len(history[s])
    <3>1. history[s] \in Seq(Nat)
      BY DEF Histories
    <3>2. Increasing(history[s]) /\ Range(history[s]) = {v \in BarsOf(src, w, s) : v <= t}
      BY DEF Knows
    <3> QED
      BY <3>1, <3>2, IncreasingCounts
  <2> QED
    BY <2>1 DEF Enough
<1> HIDE DEF Full
<1>2. \A i \in Mine(src, w) : src[i].stamp \in Nat
  BY SourceFacts
<1>3. \A u : u \in StampsOf(src, w, t) <=> u \in StampsOf(src, w, t - 1) \/ u = t
  BY <1>2 DEF StampsOf
<1>4. t \notin StampsOf(src, w, t - 1)
  BY <1>2 DEF StampsOf
<1>5. \A x : SessionsOf(src, w, x) = {u \in StampsOf(src, w, x) : Full(u)}
  BY DEF SessionsOf, Full
<1> QED
  BY <1>1, <1>3, <1>4, <1>5

LEMMA TimedAfter ==
  ASSUME NEW l \in Loops, NEW f \in Loops, NEW r \in Nat, Timed(l, r),
         Enough(l.history) => Enough(f.history),
         ~Counts(f) => Waits(l, f) /\ f.bars_seen = l.bars_seen,
         Counts(f) =>
           /\ f.bars_seen = l.bars_seen + 1
           /\ IF /\ Enough(f.history)
                 /\ f.bars_seen - l.last_rebalance_index >= RebalanceEvery
              THEN Decides(l, f) ELSE Waits(l, f)
  PROVE  Timed(f, IF Enough(f.history) THEN r + 1 ELSE r)
<1>1. /\ l.bars_seen \in Nat /\ f.bars_seen \in Nat
      /\ l.last_rebalance_index \in Int /\ f.last_rebalance_index \in Int
      /\ l.cycles \in Seq(Decisions) /\ f.cycles \in Seq(Decisions)
      /\ Len(l.cycles) \in Nat
  <2>1. l.cycles \in Seq(Decisions) /\ f.cycles \in Seq(Decisions)
    BY DEF Loops
  <2>2. Len(l.cycles) \in Nat
    BY <2>1
  <2> QED
    BY <2>1, <2>2 DEF Loops
<1>2. CASE ~Enough(f.history)
  <2>1. ~Enough(l.history)
    BY <1>2
  <2>2. r = 0 /\ l.cycles = <<>> /\ l.last_rebalance_index = -LongAgo
    BY <2>1 DEF Timed
  <2>3. Waits(l, f)
    BY <1>2
  <2> QED
    BY <1>2, <2>2, <2>3 DEF Timed, Waits
<1>3. CASE Enough(f.history)
  <2>1. Counts(f)
    BY <1>3, EnoughCounts
  <2>2. f.bars_seen = l.bars_seen + 1
    BY <2>1
  <2>3. r + 1 # 0
    OBVIOUS
  <2> DEFINE since == f.bars_seen - l.last_rebalance_index
             k == Len(l.cycles)
             gap == l.bars_seen - l.last_rebalance_index
  <2>4. CASE r = 0
    <3>1. l.cycles = <<>> /\ l.last_rebalance_index = -LongAgo
      BY <2>4 DEF Timed
    <3>2. since >= RebalanceEvery
      BY <1>1, <3>1, Parameters
    <3>3. Decides(l, f)
      BY <1>3, <2>1, <3>2
    <3>4. PICK c \in Decisions : f.cycles = Append(l.cycles, c)
      BY <3>3 DEF Decides
    <3>5. f.cycles = <<c>>
      BY <3>1, <3>4
    <3>6. Len(f.cycles) = 1 /\ f.cycles # <<>>
      BY <3>5
    <3>7. f.bars_seen - f.last_rebalance_index = 0
      BY <1>1, <3>3 DEF Decides
    <3>8. 0 \in 0..(RebalanceEvery - 1) /\ r + 1 = (1 - 1) * RebalanceEvery + 0 + 1
      BY <2>4, Parameters
    <3> QED
      BY <1>3, <2>3, <3>6, <3>7, <3>8 DEF Timed
  <2>5. CASE r # 0
    <3>1. /\ l.cycles # <<>> /\ gap \in 0..(RebalanceEvery - 1)
          /\ r = (k - 1) * RebalanceEvery + gap + 1
      BY <2>5 DEF Timed
    <3>2. since = gap + 1
      BY <1>1, <2>2
    <3>3. RebalanceEvery \in Nat \ {0} /\ gap \in Int /\ (k - 1) * RebalanceEvery \in Int
      BY <1>1, <3>1, Parameters
    <3>8. 0 \in 0..(RebalanceEvery - 1)
      BY <3>3
    <3>4. CASE since >= RebalanceEvery
      <4>1. Decides(l, f)
        BY <1>3, <2>1, <3>4
      <4>2. PICK c \in Decisions : f.cycles = Append(l.cycles, c)
        BY <4>1 DEF Decides
      <4>3. Len(f.cycles) = k + 1
        BY <1>1, <4>2
      <4>4. f.cycles # <<>>
        <5>1. Len(<<>>) = 0
          OBVIOUS
        <5> QED
          BY <1>1, <4>3, <5>1
      <4>5. f.bars_seen - f.last_rebalance_index = 0
        BY <1>1, <4>1 DEF Decides
      <4>6. gap = RebalanceEvery - 1
        BY <3>1, <3>2, <3>3, <3>4
      <4>7. (k + 1 - 1) * RebalanceEvery = (k - 1) * RebalanceEvery + RebalanceEvery
        <5>1. k \in Nat
          BY <1>1
        <5> HIDE DEF k
        <5> QED
          BY <3>3, <5>1
      <4> HIDE DEF gap, k, since
      <4>8. r + 1 = (k + 1 - 1) * RebalanceEvery + 0 + 1
        <5> DEFINE x == (k - 1) * RebalanceEvery y == (k + 1 - 1) * RebalanceEvery
        <5>1. r = x + gap + 1 /\ x \in Int /\ y = x + RebalanceEvery
          BY <3>1, <3>3, <4>7
        <5> HIDE DEF x, y
        <5>2. r + 1 = y + 0 + 1
          BY <3>3, <4>6, <5>1
        <5> QED
          BY <5>2 DEF y
      <4>9. r + 1 = (Len(f.cycles) - 1) * RebalanceEvery
                      + (f.bars_seen - f.last_rebalance_index) + 1
        <5>1. Len(f.cycles) - 1 = k + 1 - 1
          BY <1>1, <4>3 DEF k
        <5> QED
          BY ONLY <4>5, <4>8, <5>1
      <4>10. f.bars_seen - f.last_rebalance_index \in 0..(RebalanceEvery - 1)
        BY ONLY <3>8, <4>5
      <4> QED
        BY <1>3, <2>3, <4>4, <4>9, <4>10 DEF Timed
    <3>5. CASE ~(since >= RebalanceEvery)
      <4>1. Waits(l, f)
        BY <1>3, <2>1, <3>5
      <4>2. f.cycles = l.cycles /\ f.bars_seen - f.last_rebalance_index = since
        BY <4>1 DEF Waits
      <4> HIDE DEF gap, since
      <4>3. since \in 0..(RebalanceEvery - 1)
        BY <3>1, <3>2, <3>3, <3>5
      <4>4. r + 1 = (k - 1) * RebalanceEvery + since + 1
        <5> DEFINE x == (k - 1) * RebalanceEvery
        <5>1. r = x + gap + 1 /\ x \in Int
          BY <3>1, <3>3
        <5> HIDE DEF x
        <5>2. r + 1 = x + since + 1
          BY <3>2, <3>3, <5>1
        <5> QED
          BY <5>2 DEF x
      <4> QED
        BY <1>3, <2>3, <3>1, <4>2, <4>3, <4>4 DEF Timed
    <3> QED
      BY <3>4, <3>5
  <2> QED
    BY <1>3, <2>4, <2>5
<1> QED
  BY <1>2, <1>3

LEMMA DecidedAfter ==
  ASSUME NEW src, NEW w, NEW l \in Loops, NEW f \in Loops, Decided(src, w, l),
         Knows(src, w, f.history, l.current_stamp),
         Waits(l, f) \/ (Decides(l, f) /\ Enough(f.history))
  PROVE  Decided(src, w, f)
<1>1. CASE Waits(l, f)
  BY <1>1 DEF Waits, Decided
<1>2. CASE Decides(l, f) /\ Enough(f.history)
  <2>1. PICK c \in Decisions :
          /\ f.cycles = Append(l.cycles, c)
          /\ c.stamp = l.current_stamp /\ c.session = f.bars_seen /\ c.note # "history"
          /\ c.drawdown = f.drawdown /\ c.seen = f.history
          /\ c.rows = [i \in 1..EstimationWindow |-> Row(f.history, i)]
    BY <1>2 DEF Decides
  <2>2. l.cycles \in Seq(Decisions)
    BY DEF Loops
  <2>3. Range(f.cycles) = Range(l.cycles) \cup {c}
    BY <2>1, <2>2, RangeOfAppend
  <2>4. /\ Knows(src, w, c.seen, c.stamp) /\ c.note # "history" /\ Enough(c.seen)
        /\ c.rows = [i \in 1..EstimationWindow |-> Row(c.seen, i)]
    BY <1>2, <2>1
  <2> QED
    BY <2>3, <2>4 DEF Decided
<1> QED
  BY <1>1, <1>2

LEMMA BookedAfter ==
  ASSUME NEW l \in Loops, NEW f \in Loops, Booked(l), Marks(l, f),
         Waits(l, f) \/ Decides(l, f)
  PROVE  Booked(f)
<1> DEFINE v == total_value(l.account, f.prices) b == l.bars_seen e == l.equity
           g == Append(e, v) p == l.peak_equity
           high == IF v > p THEN v ELSE p
<1>1. /\ v \in Nat /\ f.bars_seen = b + 1 /\ f.equity = g /\ f.peak_equity = high
      /\ f.drawdown = <<high - v, high>>
  BY DEF Marks
<1>2. b \in Nat /\ e \in Seq(Int) /\ p \in Int /\ b = Len(e)
  BY DEF Loops, Booked
<1>3. b = 0 => v = InitialCash /\ p = InitialCash
  <2> SUFFICES ASSUME b = 0 PROVE v = InitialCash /\ p = InitialCash
    OBVIOUS
  <2>1. /\ l.account = [cash |-> InitialCash, positions |-> [s \in Symbols |-> 0]]
        /\ p = InitialCash
    BY DEF Booked
  <2>2. InitialCash \in Nat
    BY Parameters
  <2> QED
    BY <2>1, <2>2, WorthOfCash
<1>4. b > 0 => e[1] = InitialCash /\ Peak(e, b, p)
  BY DEF Booked
<1>5. \A c \in Range(l.cycles) :
        /\ c.session \in 1..b
        /\ \E x \in Int : c.drawdown = <<x - e[c.session], x>> /\ Peak(e, c.session, x)
  BY DEF Booked
<1> HIDE DEF v, p
<1>6. /\ Len(g) = b + 1 /\ g[b + 1] = v
      /\ \A i \in 1..b : g[i] = e[i] /\ e[i] \in Int
  BY <1>1, <1>2
<1> HIDE DEF b, e, g
<1>7. \A i \in 1..(b + 1) : i \in 1..b \/ i = b + 1
  BY <1>2
<1>8. high \in Int /\ v <= high /\ p <= high /\ (high = v \/ high = p)
  BY <1>1, <1>2
<1> HIDE DEF high
<1>9. g[1] = InitialCash
  <2>1. CASE b = 0
    BY <1>3, <1>6, <2>1
  <2>2. CASE b # 0
    <3>1. b > 0 /\ 1 \in 1..b
      BY <1>2, <2>2
    <3> QED
      BY <1>4, <1>6, <3>1
  <2> QED
    BY <2>1, <2>2
<1>10. Peak(g, b + 1, high)
  <2>1. \A i \in 1..(b + 1) : g[i] <= high
    <3> SUFFICES ASSUME NEW i \in 1..(b + 1) PROVE g[i] <= high
      OBVIOUS
    <3>1. CASE i = b + 1
      BY <1>6, <1>8, <3>1
    <3>2. CASE i \in 1..b
      <4>1. b > 0
        BY <1>2, <3>2
      <4>2. e[i] <= p
        BY <1>4, <3>2, <4>1 DEF Peak
      <4> QED
        BY <1>2, <1>6, <1>8, <3>2, <4>2
    <3> QED
      BY <1>7, <3>1, <3>2
  <2>2. \E i \in 1..(b + 1) : g[i] = high
    <3>1. b + 1 \in 1..(b + 1)
      BY <1>2
    <3>2. CASE high = v
      BY <1>6, <3>1, <3>2
    <3>3. CASE high = p
      <4>1. CASE b = 0
        BY <1>3, <1>6, <3>1, <3>3, <4>1
      <4>2. CASE b # 0
        <5>1. b > 0
          BY <1>2, <4>2
        <5>2. PICK i \in 1..b : e[i] = p
          BY <1>4, <5>1 DEF Peak
        <5>3. i \in 1..(b + 1)
          BY <1>2
        <5> QED
          BY <1>6, <3>3, <5>2, <5>3
      <4> QED
        BY <4>1, <4>2
    <3> QED
      BY <1>8, <3>2, <3>3
  <2> QED
    BY <2>1, <2>2 DEF Peak
<1>11. ASSUME NEW c \in Range(l.cycles)
       PROVE  /\ c.session \in 1..(b + 1)
              /\ \E x \in Int : c.drawdown = <<x - g[c.session], x>> /\ Peak(g, c.session, x)
  <2>1. PICK x \in Int : c.drawdown = <<x - e[c.session], x>> /\ Peak(e, c.session, x)
    BY <1>5
  <2>2. c.session \in 1..b /\ c.session \in 1..(b + 1)
    BY <1>2, <1>5
  <2>3. \A i \in 1..c.session : i \in 1..b
    BY <1>2, <2>2
  <2>4. Peak(g, c.session, x)
    BY <1>6, <2>1, <2>3 DEF Peak
  <2> QED
    BY <1>6, <2>1, <2>2, <2>4
<1>12. ASSUME NEW c \in Range(f.cycles)
       PROVE  /\ c.session \in 1..(b + 1)
              /\ \E x \in Int : c.drawdown = <<x - g[c.session], x>> /\ Peak(g, c.session, x)
  <2>1. CASE Waits(l, f)
    BY <1>11, <2>1 DEF Waits
  <2>2. CASE Decides(l, f)
    <3>1. PICK d \in Decisions :
            /\ f.cycles = Append(l.cycles, d)
            /\ d.session = f.bars_seen /\ d.drawdown = f.drawdown
      BY <2>2 DEF Decides
    <3>2. l.cycles \in Seq(Decisions)
      BY DEF Loops
    <3>3. c \in Range(l.cycles) \/ c = d
      BY <3>1, <3>2, RangeOfAppend
    <3>4. CASE c = d
      <4>1. c.session = b + 1 /\ c.drawdown = <<high - g[b + 1], high>>
        BY <1>1, <1>6, <3>1, <3>4
      <4>2. b + 1 \in 1..(b + 1)
        BY <1>2
      <4> QED
        BY <1>8, <1>10, <4>1, <4>2
    <3> QED
      BY <1>11, <3>3, <3>4
  <2> QED
    BY <2>1, <2>2
<1>13. f.bars_seen = b + 1 /\ f.equity = g /\ f.peak_equity = high /\ b + 1 # 0
  BY <1>1, <1>2
<1> QED
  BY <1>6, <1>9, <1>10, <1>12, <1>13 DEF Booked

LEMMA FlushSound ==
  ASSUME NEW src, SourceOK(src), NEW w, NEW l, NEW n \in Nat, Sound(src, w, l, n),
         l.pending # <<>>, Complete(src, w, l, n), NEW g \in Flushed(l)
  PROVE  /\ Sound(src, w, Emptied(g), n)
         /\ Emptied(g).pending = <<>> /\ Emptied(g).current_stamp = l.current_stamp
<1> DEFINE f == Emptied(g) cs == l.current_stamp r == Cardinality(SessionsOf(src, w, cs - 1))
<1>1. /\ cs \in Nat
      /\ \E i \in Mine(src, w) : src[i].stamp = cs
  BY PendingStamp
<1>2. l \in Loops /\ OneStamp(l) /\ Priced(l) /\ Booked(l) /\ Decided(src, w, l)
  BY DEF Sound, Gathered
<1>3. Until(l) = cs - 1
  BY DEF Until
<1>4. Knows(src, w, l.history, cs - 1) /\ Timed(l, r)
  BY <1>3 DEF Sound
<1>5. /\ f \in Loops /\ Priced(f)
      /\ f.history = Applied(l).history
      /\ f.pending = <<>> /\ f.current_stamp = cs
      /\ ~Counts(f) =>
           /\ Waits(l, f)
           /\ f.bars_seen = l.bars_seen /\ f.equity = l.equity
           /\ f.peak_equity = l.peak_equity /\ f.drawdown = l.drawdown
      /\ Counts(f) =>
           /\ Marks(l, f)
           /\ IF /\ Enough(f.history)
                 /\ f.bars_seen - l.last_rebalance_index >= RebalanceEvery
              THEN Decides(l, f) ELSE Waits(l, f)
  BY <1>1, <1>2, EmptiedIs
<1> HIDE DEF f
<1>6. Knows(src, w, f.history, cs)
  BY <1>2, <1>4, <1>5, FlushKnows DEF Sound
<1>7. Gathered(src, w, f, n)
  <2>1. OneStamp(f)
    BY <1>5 DEF OneStamp
  <2> QED
    BY <1>5, <2>1 DEF Sound, Gathered
<1>8. Until(f) = cs
  BY <1>5 DEF Until
<1>9. Decided(src, w, f)
  <2>1. Waits(l, f) \/ (Decides(l, f) /\ Enough(f.history))
    BY <1>5
  <2> QED
    BY <1>2, <1>5, <1>6, <2>1, DecidedAfter
<1>10. Booked(f)
  <2>1. CASE Counts(f)
    <3>1. Marks(l, f) /\ (Waits(l, f) \/ Decides(l, f))
      BY <1>5, <2>1
    <3> QED
      BY <1>2, <1>5, <3>1, BookedAfter
  <2>2. CASE ~Counts(f)
    BY <1>2, <1>5, <2>2 DEF Booked, Waits
  <2> QED
    BY <2>1, <2>2
<1>11. Timed(f, IF Enough(f.history) THEN r + 1 ELSE r)
  <2>1. r \in Nat
    BY <1>1, StampsAreFinite
  <2>2. Enough(l.history) => Enough(f.history)
    BY <1>1, <1>2, <1>5, EnoughStays
  <2>3. Counts(f) => f.bars_seen = l.bars_seen + 1
    BY <1>5 DEF Marks
  <2> HIDE DEF r
  <2> QED
    BY <1>2, <1>4, <1>5, <2>1, <2>2, <2>3, TimedAfter
<1>12. Cardinality(SessionsOf(src, w, cs)) = IF Enough(f.history) THEN r + 1 ELSE r
  <2>1. f.history \in Histories
    BY <1>5 DEF Loops
  <2>2. /\ SessionsOf(src, w, cs)
             = IF Enough(f.history) THEN SessionsOf(src, w, cs - 1) \cup {cs}
               ELSE SessionsOf(src, w, cs - 1)
        /\ cs \notin SessionsOf(src, w, cs - 1)
    BY <1>1, <1>6, <2>1, SessionsGrow
  <2>3. IsFiniteSet(SessionsOf(src, w, cs - 1))
    BY <1>1, StampsAreFinite
  <2> QED
    BY <2>2, <2>3, FS_AddElement
<1>13. Sound(src, w, f, n)
  BY <1>5, <1>6, <1>7, <1>8, <1>9, <1>10, <1>11, <1>12 DEF Sound
<1> QED
  BY <1>5, <1>13 DEF f

-----------------------------------------------------------------------------
(* The inductive invariant.                                                *)

\* The fold that runs is sound; nothing is pending only before its first event
\* and after its last.
Running ==
  /\ Sound(source, Windows[fold], loop, next)
  /\ loop.pending = <<>> => loop.current_stamp = NoStamp \/ next > Len(source)

IInv ==
  /\ source \in Sources
  /\ span \in AskedSpans
  /\ fold \in 0..Len(Windows)
  /\ next \in 1..(Len(source) + 1)
  /\ fold = 0 => loop = Fresh(span.start)
  /\ fold > 0 => Running

LEMMA Lengths ==
  ASSUME IInv
  PROVE  /\ SourceOK(source) /\ source \in Seq(Events)
         /\ Len(source) \in Nat /\ DOMAIN source = 1..Len(source)
         /\ Len(Windows) \in Nat /\ DOMAIN Windows = 1..Len(Windows)
<1>1. SourceOK(source) /\ source \in Seq(Events)
  BY SourceIs DEF IInv, SourceOK
<1>2. Len(Windows) \in Nat /\ DOMAIN Windows = 1..Len(Windows)
  BY WindowsInOrder DEF IInv, Windows
<1> QED
  BY <1>1, <1>2

LEMMA Initially == Init => IInv
<1> SUFFICES ASSUME Init PROVE IInv
  OBVIOUS
<1>1. source \in Sources /\ span \in AskedSpans
  BY SpansAssumption DEF Init, AskedSpans
<1>2. Len(Windows) \in Nat
  BY <1>1, WindowsInOrder DEF Windows
<1>3. Len(source) \in Nat
  <2>1. SourceOK(source)
    BY <1>1, SourceIs
  <2> QED
    BY <2>1 DEF SourceOK
<1> QED
  BY <1>1, <1>2, <1>3 DEF Init, IInv

LEMMA StartFoldKeeps == IInv /\ StartFold => IInv'
<1> SUFFICES ASSUME IInv, StartFold PROVE IInv'
  OBVIOUS
<1>1. Windows' = Windows
  BY DEF StartFold, Windows
<1>2. fold + 1 \in DOMAIN Windows /\ fold + 1 \in Nat \ {0} /\ fold + 1 \in 0..Len(Windows)
  BY Lengths DEF IInv, StartFold
<1> DEFINE w == Windows[fold + 1]
<1>3. Start(w) \in Int
  <2>1. /\ w.estimation_start = w.trade_start - span.estimation
        /\ w.trade_start = span.start + span.estimation + (fold + 1 - 1) * span.trade
        /\ (fold + 1 - 1) * span.trade \in Nat
    BY <1>2, WindowTypes DEF IInv, Windows
  <2>2. span.start \in Nat /\ span.estimation \in Nat
    BY DEF IInv, AskedSpans
  <2> DEFINE x == (fold + 1 - 1) * span.trade
  <2>3. x \in Nat /\ w.trade_start = span.start + span.estimation + x
    BY <2>1
  <2> HIDE DEF x, w
  <2> QED
    BY <2>1, <2>2, <2>3 DEF Start
<1>4. Sound(source, w, Fresh(Start(w)), 1)
  BY <1>3, Lengths, FreshSound
<1>5. Fresh(Start(w)).current_stamp = NoStamp
  BY DEF Fresh
<1>6. /\ source' = source /\ span' = span /\ fold' = fold + 1 /\ next' = 1
      /\ loop' = Fresh(Start(w))
  BY DEF StartFold
<1>7. Running'
  BY <1>1, <1>4, <1>5, <1>6 DEF Running
<1>8. 1 \in 1..(Len(source) + 1)
  BY Lengths
<1> QED
  BY <1>1, <1>2, <1>6, <1>7, <1>8 DEF IInv

LEMMA StreamingRuns ==
  ASSUME IInv, Streaming
  PROVE  /\ Sound(source, Windows[fold], loop, next)
         /\ loop.pending = <<>> => loop.current_stamp = NoStamp
         /\ next \in DOMAIN source /\ next \in Nat /\ next + 1 \in 1..(Len(source) + 1)
         /\ fold > 0
<1>1. fold > 0 /\ next <= Len(source) /\ next \in Nat
  BY Lengths DEF IInv, Streaming
<1>2. ~(next > Len(source)) /\ next \in DOMAIN source /\ next + 1 \in 1..(Len(source) + 1)
  BY <1>1, Lengths DEF IInv
<1> QED
  BY <1>1, <1>2 DEF IInv, Running

LEMMA SkipKeeps == IInv /\ Skip => IInv'
<1> SUFFICES ASSUME IInv, Skip PROVE IInv'
  OBVIOUS
<1>1. /\ source' = source /\ span' = span /\ fold' = fold /\ loop' = loop
      /\ next' = next + 1 /\ Windows' = Windows
      /\ Streaming /\ ~InStream(source[next], Windows[fold])
  BY DEF Skip, Windows
<1>2. next \notin Mine(source, Windows[fold])
  BY <1>1 DEF Mine
<1>3. Sound(source, Windows[fold], loop, next + 1)
  BY <1>1, <1>2, Lengths, StreamingRuns, SkipSound
<1>4. Running'
  BY <1>1, <1>3, StreamingRuns DEF Running
<1> QED
  BY <1>1, <1>4, StreamingRuns DEF IInv

LEMMA ReceiveKeeps == IInv /\ Receive => IInv'
<1> SUFFICES ASSUME IInv, Receive PROVE IInv'
  OBVIOUS
<1> DEFINE e == source[next] w == Windows[fold] cs == loop.current_stamp
<1>1. /\ source' = source /\ span' = span /\ fold' = fold
      /\ next' = next + 1 /\ Windows' = Windows
      /\ Streaming /\ InStream(e, w)
      /\ IF cs \in {NoStamp, e.stamp} THEN loop' = Taken(loop, e)
         ELSE \E l \in Flushed(loop) : loop' = Taken([l EXCEPT !.pending = <<>>], e)
  BY DEF Receive, Windows
<1>2. /\ Sound(source, w, loop, next) /\ next \in DOMAIN source /\ next \in Nat
      /\ loop.pending = <<>> => cs = NoStamp
      /\ next + 1 \in 1..(Len(source) + 1) /\ fold > 0
  BY <1>1, StreamingRuns
<1>3. next \in Mine(source, w)
  BY <1>1, <1>2 DEF Mine
<1>4. SourceOK(source) /\ e \in Events /\ e.stamp \in Nat
  BY <1>3, Lengths, SourceFacts
<1> HIDE DEF w
<1>5. /\ Sound(source, w, loop', next + 1)
      /\ loop'.pending # <<>>
  <2>1. CASE loop.pending = <<>>
    <3>1. cs = NoStamp /\ cs < e.stamp /\ loop' = Taken(loop, e)
      BY <1>1, <1>2, <1>4, <2>1 DEF NoStamp
    <3>2. loop \in Loops
      BY <1>2 DEF Sound
    <3> QED
      BY <1>2, <1>3, <1>4, <2>1, <3>1, <3>2, TakeFirst, TakenIs
  <2>2. CASE loop.pending # <<>> /\ cs = e.stamp
    <3>1. loop' = Taken(loop, e) /\ loop \in Loops
      BY <1>1, <1>2, <2>2 DEF Sound
    <3> QED
      BY <1>2, <1>3, <1>4, <2>2, <3>1, TakeNext, TakenIs
  <2>3. CASE loop.pending # <<>> /\ cs # e.stamp
    <3>1. cs \in Nat /\ \E i \in Mine(source, w) : i < next /\ source[i].stamp = cs
      BY <1>2, <1>4, <2>3, PendingStamp
    <3>2. cs < e.stamp
      <4>1. PICK i \in Mine(source, w) : i < next /\ source[i].stamp = cs
        BY <3>1
      <4>2. i \in Nat
        BY <1>4, SourceFacts
      <4>3. cs <= e.stamp
        BY <1>2, <1>3, <1>4, <4>1, <4>2, SourceFacts
      <4> QED
        BY <1>4, <2>3, <3>1, <4>3
    <3>3. Complete(source, w, loop, next)
      <4> SUFFICES ASSUME NEW i \in Mine(source, w), i >= next
                   PROVE  source[i].stamp > cs
        BY DEF Complete
      <4>1. i \in Nat /\ source[i].stamp \in Nat
        BY <1>4, SourceFacts
      <4>2. source[i].stamp >= e.stamp
        BY <1>2, <1>3, <1>4, <4>1, SourceFacts
      <4> QED
        BY <1>4, <3>1, <3>2, <4>1, <4>2
    <3>4. cs \notin {NoStamp, e.stamp}
      BY <2>3, <3>1 DEF NoStamp
    <3>5. PICK l \in Flushed(loop) : loop' = Taken([l EXCEPT !.pending = <<>>], e)
      BY <1>1, <3>4
    <3> DEFINE f == Emptied(l)
    <3>6. /\ Sound(source, w, f, next) /\ f.pending = <<>> /\ f.current_stamp = cs
      BY <1>2, <1>4, <2>3, <3>3, FlushSound
    <3>7. loop' = Taken(f, e) /\ f \in Loops
      BY <3>5, <3>6 DEF Emptied, Sound
    <3> HIDE DEF f
    <3> QED
      BY <1>3, <1>4, <3>2, <3>6, <3>7, TakeFirst, TakenIs
  <2> QED
    BY <2>1, <2>2, <2>3
<1>6. Running'
  BY <1>1, <1>5 DEF Running, w
<1> QED
  BY <1>1, <1>2, <1>6 DEF IInv

LEMMA FinishKeeps == IInv /\ Finish => IInv'
<1> SUFFICES ASSUME IInv, Finish PROVE IInv'
  OBVIOUS
<1> DEFINE w == Windows[fold]
<1>1. PICK l \in Flushed(loop) :
        /\ source' = source /\ span' = span /\ fold' = fold /\ next' = next
        /\ Windows' = Windows /\ loop' = Emptied(l)
        /\ fold > 0 /\ next > Len(source) /\ loop.pending # <<>>
  BY DEF Finish, Windows, Emptied
<1>2. Sound(source, w, loop, next) /\ SourceOK(source) /\ next \in Nat
  BY <1>1, Lengths DEF IInv, Running
<1>3. Complete(source, w, loop, next)
  <2>1. \A i \in Mine(source, w) : i \in DOMAIN source
    BY DEF Mine
  <2>2. \A i \in DOMAIN source : ~(i >= next)
    BY <1>1, <1>2, Lengths
  <2> QED
    BY <2>1, <2>2 DEF Complete
<1>4. Sound(source, w, Emptied(l), next)
  BY <1>1, <1>2, <1>3, FlushSound
<1>5. Running'
  BY <1>1, <1>4 DEF Running
<1> QED
  BY <1>1, <1>5 DEF IInv

LEMMA NextKeeps == IInv /\ [Next]_vars => IInv'
<1>1. IInv /\ UNCHANGED vars => IInv'
  BY DEF IInv, Running, vars, Windows
<1> QED
  BY <1>1, StartFoldKeeps, SkipKeeps, ReceiveKeeps, FinishKeeps DEF Next

LEMMA Invariance == Spec => []IInv
BY Initially, NextKeeps, PTL DEF Spec

-----------------------------------------------------------------------------
(* What the invariant says of the decisions.                               *)

LEMMA BarsAre ==
  ASSUME NEW w, NEW s
  PROVE  Bars(w, s) = BarsOf(source, w, s)
BY DEF Bars, BarsOf, Mine

LEMMA StampsAre ==
  ASSUME NEW w, NEW t
  PROVE  StampsUpTo(w, t) = StampsOf(source, w, t)
BY DEF StampsUpTo, StampsOf, Mine

LEMMA DecisionsRun ==
  ASSUME IInv, NEW c \in Range(loop.cycles)
  PROVE  fold > 0 /\ Running /\ c \in Decisions
<1>1. fold > 0
  <2>1. SUFFICES ASSUME fold = 0 PROVE FALSE
    BY Lengths DEF IInv
  <2>2. loop.cycles = <<>>
    BY <2>1 DEF IInv, Fresh
  <2>3. DOMAIN loop.cycles = {}
    BY <2>2
  <2> QED
    BY <2>3 DEF Range
<1>2. Running
  BY <1>1 DEF IInv
<1>3. loop.cycles \in Seq(Decisions)
  BY <1>2 DEF Running, Sound, Loops
<1>4. \A q \in Seq(Decisions) : \A x \in Range(q) : x \in Decisions
  BY DEF Range
<1> QED
  BY <1>1, <1>2, <1>3, <1>4

\* Whatever the recording, a decision knows the bars up to its stamp, all of
\* them, and nothing of what comes later in it.
THEOREM NoLookAhead == Spec => []DecidesOnWhatIsKnown
<1>1. IInv => DecidesOnWhatIsKnown
  <2> SUFFICES ASSUME IInv, NEW c \in Range(loop.cycles), NEW s \in Symbols
               PROVE  Range(c.seen[s]) = {t \in Bars(Windows[fold], s) : t <= c.stamp}
    BY DEF DecidesOnWhatIsKnown
  <2>1. Knows(source, Windows[fold], c.seen, c.stamp)
    BY DecisionsRun DEF Running, Sound, Decided
  <2> QED
    BY <2>1, BarsAre DEF Knows
<1> QED
  BY <1>1, Invariance, PTL

-----------------------------------------------------------------------------
(* Rows of observations.                                                   *)

\* Two histories that both hold every bar of either from a on end alike.
LEMMA SameEnds ==
  ASSUME NEW g \in Seq(Nat), NEW h \in Seq(Nat), Increasing(g), Increasing(h),
         NEW i \in Nat, i < Len(g), i < Len(h), g[Len(g) - i] <= h[Len(h) - i],
         \A v \in Range(g) : v >= g[Len(g) - i] => v \in Range(h),
         \A v \in Range(h) : v >= g[Len(g) - i] => v \in Range(g)
  PROVE  \A k \in 0..i : g[Len(g) - k] = h[Len(h) - k]
<1> DEFINE m == Len(g) n == Len(h)
           B == {k \in Nat : k <= i /\ g[m - k] # h[n - k]}
<1>1. /\ m \in Nat /\ n \in Nat /\ i < m /\ i < n
      /\ DOMAIN g = 1..m /\ DOMAIN h = 1..n
      /\ \A j \in 1..m : g[j] \in Nat
      /\ \A j \in 1..n : h[j] \in Nat
  <2>1. m \in Nat /\ n \in Nat /\ i < m /\ i < n
    OBVIOUS
  <2>2. DOMAIN g = 1..m /\ \A j \in 1..m : g[j] \in Nat
    OBVIOUS
  <2>3. DOMAIN h = 1..n /\ \A j \in 1..n : h[j] \in Nat
    OBVIOUS
  <2> QED
    BY <2>1, <2>2, <2>3
<1>2. /\ g[m - i] <= h[n - i]
      /\ \A v \in Range(g) : v >= g[m - i] => v \in Range(h)
      /\ \A v \in Range(h) : v >= g[m - i] => v \in Range(g)
  OBVIOUS
<1> HIDE DEF m, n
<1>3. ASSUME B # {} PROVE FALSE
  <2>1. PICK k \in B : \A j \in B : k <= j
    <3>1. B \in SUBSET Nat
      OBVIOUS
    <3> HIDE DEF B
    <3> QED
      BY <1>3, <3>1, SmallestNat
  <2> DEFINE p == g[m - k] q == h[n - k] a == g[m - i] b == h[n - i]
  <2>2. /\ k \in Nat /\ k <= i /\ p # q
        /\ m - k \in 1..m /\ n - k \in 1..n /\ m - i \in 1..m /\ n - i \in 1..n
    BY <1>1, <2>1
  <2>3. \A j \in Nat : j < k => g[m - j] = h[n - j]
    BY <2>1, <2>2
  <2>4. /\ p \in Nat /\ q \in Nat /\ a \in Nat /\ b \in Nat
        /\ p \in Range(g) /\ q \in Range(h)
    BY <1>1, <2>2 DEF Range
  <2>5. /\ \A j \in 1..m : (j < m - k => g[j] < p) /\ (j > m - k => g[j] > p)
        /\ \A j \in 1..n : (j < n - k => h[j] < q) /\ (j > n - k => h[j] > q)
    <3>1. ASSUME NEW j \in 1..m PROVE (j < m - k => g[j] < p) /\ (j > m - k => p < g[j])
      BY <1>1, <2>2 DEF Increasing
    <3>2. ASSUME NEW j \in 1..n PROVE (j < n - k => h[j] < q) /\ (j > n - k => q < h[j])
      BY <1>1, <2>2 DEF Increasing
    <3>3. (\A j \in 1..m : g[j] \in Nat) /\ (\A j \in 1..n : h[j] \in Nat)
      BY <1>1
    <3> HIDE DEF p, q
    <3> QED
      BY <2>4, <3>1, <3>2, <3>3
  <2>6. p >= a /\ q >= b
    <3>1. /\ m - i = m - k \/ m - i < m - k
          /\ n - i = n - k \/ n - i < n - k
      BY <1>1, <2>2
    <3>2. m - i < m - k => a < p
      BY <2>2, <2>5
    <3>3. n - i < n - k => b < q
      BY <2>2, <2>5
    <3>4. (m - i = m - k => a = p) /\ (n - i = n - k => b = q)
      OBVIOUS
    <3> HIDE DEF p, q, a, b
    <3> QED
      BY <2>4, <3>1, <3>2, <3>3, <3>4
  <2>7. p \in Range(h) /\ q \in Range(g)
    <3>1. a <= b
      BY <1>2
    <3>2. /\ \A v \in Range(g) : v >= a => v \in Range(h)
          /\ \A v \in Range(h) : v >= a => v \in Range(g)
      BY <1>2
    <3> HIDE DEF p, q, a, b
    <3>3. q >= a
      BY <2>4, <2>6, <3>1
    <3> QED
      BY <2>4, <2>6, <3>2, <3>3
  <2>8. PICK x \in 1..n : h[x] = p
    BY <1>1, <2>7 DEF Range
  <2>9. PICK y \in 1..m : g[y] = q
    BY <1>1, <2>7 DEF Range
  <2>10. x # n - k /\ y # m - k
    BY <2>2, <2>8, <2>9
  \* The later of the two is met again among those that are alike.
  <2>11. CASE p > q
    <3>1. x > n - k
      <4> HIDE DEF p, q
      <4> QED
        BY <1>1, <2>2, <2>4, <2>5, <2>8, <2>10, <2>11
    <3>2. n - x \in Nat /\ n - x < k /\ n - (n - x) = x
      BY <1>1, <2>2, <3>1
    <3>3. g[m - (n - x)] = p
      BY <2>3, <2>8, <3>2
    <3>4. m - (n - x) \in 1..m /\ m - (n - x) > m - k
      BY <1>1, <2>2, <3>2
    <3>5. g[m - (n - x)] > p
      BY <2>5, <3>4
    <3> HIDE DEF p
    <3> QED
      BY <2>4, <3>3, <3>5
  <2>12. CASE p < q
    <3>1. y > m - k
      <4> HIDE DEF p, q
      <4> QED
        BY <1>1, <2>2, <2>4, <2>5, <2>9, <2>10, <2>12
    <3>2. m - y \in Nat /\ m - y < k /\ m - (m - y) = y
      BY <1>1, <2>2, <3>1
    <3>3. h[n - (m - y)] = q
      BY <2>3, <2>9, <3>2
    <3>4. n - (m - y) \in 1..n /\ n - (m - y) > n - k
      BY <1>1, <2>2, <3>2
    <3>5. h[n - (m - y)] > q
      BY <2>5, <3>4
    <3> HIDE DEF q
    <3> QED
      BY <2>4, <3>3, <3>5
  <2> HIDE DEF p, q
  <2> QED
    BY <2>2, <2>4, <2>11, <2>12
<1>4. \A k \in 0..i : g[m - k] = h[n - k]
  <2> SUFFICES ASSUME NEW k \in 0..i, g[m - k] # h[n - k] PROVE k \in B
    BY <1>3
  <2> QED
    OBVIOUS
<1> QED
  BY <1>4 DEF m, n

LEMMA AlikeFromFirst ==
  ASSUME NEW src, NEW w, NEW t, NEW history \in Histories, Knows(src, w, history, t),
         Enough(history), NEW i \in 1..EstimationWindow,
         NEW r \in Symbols, NEW s \in Symbols,
         NEW a, a = Row(history, i)[r][1], a <= Row(history, i)[s][1],
         \A v \in StampsOf(src, w, t) : v >= a => v \in BarsOf(src, w, r)
                                             /\ v \in BarsOf(src, w, s)
  PROVE  Row(history, i)[r] = Row(history, i)[s]
<1> DEFINE g == history[r] h == history[s]
<1>1. /\ g \in Seq(Nat) /\ h \in Seq(Nat)
      /\ Len(g) > EstimationWindow /\ Len(h) > EstimationWindow
      /\ DOMAIN history = Symbols
  BY DEF Histories, Enough
<1>2. /\ Increasing(g) /\ Range(g) = {v \in BarsOf(src, w, r) : v <= t}
      /\ Increasing(h) /\ Range(h) = {v \in BarsOf(src, w, s) : v <= t}
  BY DEF Knows
<1>3. \A x : \A v \in BarsOf(src, w, x) : v <= t => v \in StampsOf(src, w, t)
  BY DEF BarsOf, StampsOf
<1>4. /\ Row(history, i)[r] = <<g[Len(g) - i], g[Len(g) + 1 - i]>>
      /\ Row(history, i)[s] = <<h[Len(h) - i], h[Len(h) + 1 - i]>>
  BY <1>1 DEF Row
<1> HIDE DEF g, h
<1>5. a = g[Len(g) - i] /\ a <= h[Len(h) - i]
  BY <1>4
<1>6. /\ \A v \in Range(g) : v >= a => v \in Range(h)
      /\ \A v \in Range(h) : v >= a => v \in Range(g)
  BY <1>2, <1>3
<1>7. /\ i \in Nat /\ i < Len(g) /\ i < Len(h) /\ i - 1 \in 0..i /\ i \in 0..i
      /\ Len(g) \in Nat /\ Len(h) \in Nat
  <2>1. Len(g) \in Nat /\ Len(h) \in Nat
    BY <1>1
  <2>2. EstimationWindow \in Nat
    BY Parameters
  <2>3. i \in Nat /\ i >= 1 /\ i <= EstimationWindow
    BY <2>2
  <2>4. Len(g) > EstimationWindow /\ Len(h) > EstimationWindow
    BY <1>1
  <2> QED
    BY ONLY <2>1, <2>2, <2>3, <2>4
<1>8. \A k \in 0..i : g[Len(g) - k] = h[Len(h) - k]
  BY <1>1, <1>2, <1>5, <1>6, <1>7, SameEnds
<1>9. Len(g) + 1 - i = Len(g) - (i - 1) /\ Len(h) + 1 - i = Len(h) - (i - 1)
  BY <1>7
<1> QED
  BY <1>4, <1>7, <1>8, <1>9

\* The rows of observations pair returns of the same days, however late a
\* symbol started, unless a symbol misses a session inside the window.
THEOREM RowsAreAligned == Spec => []AlignedWithoutGaps
<1>1. IInv => AlignedWithoutGaps
  <2> SUFFICES ASSUME IInv, NEW c \in Range(loop.cycles), NEW i \in DOMAIN c.rows
               PROVE  LET row == c.rows[i]
                          first == CHOOSE t \in {row[s][1] : s \in DOMAIN row} :
                                     \A s \in DOMAIN row : t <= row[s][1]
                          within == {t \in StampsUpTo(Windows[fold], c.stamp) : t >= first}
                      IN (\A s \in DOMAIN row : within \subseteq Bars(Windows[fold], s))
                           => \A r, s \in DOMAIN row : row[r] = row[s]
    BY DEF AlignedWithoutGaps
  <2> DEFINE W == Windows[fold]
             row == c.rows[i]
             firsts == {row[s][1] : s \in DOMAIN row}
             first == CHOOSE t \in firsts : \A s \in DOMAIN row : t <= row[s][1]
             within == {t \in StampsUpTo(W, c.stamp) : t >= first}
  <2>1. /\ Knows(source, W, c.seen, c.stamp) /\ Enough(c.seen) /\ c.seen \in Histories
        /\ c.rows = [j \in 1..EstimationWindow |-> Row(c.seen, j)]
    BY DecisionsRun DEF Running, Sound, Decided, Decisions
  <2>2. i \in 1..EstimationWindow /\ row = Row(c.seen, i)
    BY <2>1
  <2>3. row \in [Symbols -> Nat \X Nat]
    BY <2>1, <2>2, RowsAre
  <2> HIDE DEF row, W
  <2>4. /\ first \in firsts
        /\ \A s \in DOMAIN row : first <= row[s][1]
    <3>1. Symbols # {}
      BY Parameters, FS_EmptySet
    <3>2. firsts \in SUBSET Nat /\ firsts # {} /\ \A s \in DOMAIN row : row[s][1] \in firsts
      BY <2>3, <3>1
    <3> HIDE DEF firsts
    <3>3. PICK t \in firsts : \A u \in firsts : t <= u
      BY <3>2, SmallestNat
    <3>4. \A s \in DOMAIN row : t <= row[s][1]
      BY <3>2, <3>3
    <3> QED
      BY <3>3, <3>4
  <2>5. PICK r \in Symbols : first = row[r][1]
    BY <2>3, <2>4
  <2> HIDE DEF first
  <2>6. ASSUME \A s \in DOMAIN row : within \subseteq Bars(W, s), NEW s \in Symbols
        PROVE  row[r] = row[s]
    <3>1. \A v \in StampsOf(source, W, c.stamp) :
            v >= first => v \in BarsOf(source, W, r) /\ v \in BarsOf(source, W, s)
      <4>1. within \subseteq Bars(W, r) /\ within \subseteq Bars(W, s)
        BY <2>3, <2>6
      <4> QED
        BY <4>1, BarsAre, StampsAre
    <3>2. first = Row(c.seen, i)[r][1] /\ first <= Row(c.seen, i)[s][1]
      BY <2>2, <2>3, <2>4, <2>5
    <3> QED
      BY <2>1, <2>2, <3>1, <3>2, AlikeFromFirst
  <2>7. (\A s \in DOMAIN row : within \subseteq Bars(W, s))
          => \A q, s \in DOMAIN row : row[q] = row[s]
    BY <2>3, <2>6
  <2> QED
    BY <2>7 DEF row, W, first
<1> QED
  BY <1>1, Invariance, PTL

-----------------------------------------------------------------------------
(* The rebalance clock.                                                    *)

LEMMA ReadySessionsAre ==
  ASSUME NEW w, NEW t
  PROVE  ReadySessions(w, t) = SessionsOf(source, w, t)
BY BarsAre, StampsAre DEF ReadySessions, SessionsOf

\* No event lies between the last stamp flushed and what the loop has applied.
LEMMA LastFlushedIs ==
  ASSUME IInv, Running
  PROVE  ReadySessions(Windows[fold], LastFlushed)
           = SessionsOf(source, Windows[fold], Until(loop))
<1> DEFINE W == Windows[fold] cs == loop.current_stamp
           Stamps == StampsUpTo(W, cs)
<1>1. CASE loop.pending = <<>>
  BY <1>1, ReadySessionsAre DEF LastFlushed, Until
<1>2. CASE loop.pending # <<>>
  <2>1. cs \in Nat
    <3>1. SourceOK(source) /\ next \in Nat
      BY Lengths DEF IInv
    <3>2. Sound(source, W, loop, next)
      BY DEF Running
    <3> HIDE DEF W
    <3> QED
      BY <1>2, <3>1, <3>2, PendingStamp
  <2>2. /\ SourceOK(source)
        /\ \A i \in Mine(source, W) : source[i].stamp \in Nat
    BY Lengths, SourceFacts
  <2>3. Stamps = {source[i].stamp : i \in {j \in Mine(source, W) : source[j].stamp <= cs}}
    BY DEF StampsUpTo, Mine
  <2>4. Until(loop) = cs - 1
    BY <1>2 DEF Until
  <2> DEFINE earlier == {t \in Stamps : t < cs}
             last == LastFlushed
  <2>5. last = IF \E t \in Stamps : t < cs
               THEN CHOOSE t \in Stamps : t < cs /\ \A u \in Stamps : u < cs => u <= t
               ELSE NoStamp
    BY <1>2 DEF LastFlushed
  <2> HIDE DEF W, cs, last
  <2>6. /\ last \in Int /\ last <= cs - 1
        /\ \A i \in Mine(source, W) : source[i].stamp <= last \/ source[i].stamp > cs - 1
    <3>1. CASE \E t \in Stamps : t < cs
      <4> DEFINE B == {b \in Nat : \E t \in earlier : b = cs - t}
      <4>1. B \in SUBSET Nat
        OBVIOUS
      <4>2. Stamps \in SUBSET Nat
        BY <2>2, <2>3
      <4>3. B # {}
        <5>1. PICK t \in Stamps : t < cs
          BY <3>1
        <5>2. t \in earlier /\ cs - t \in Nat
          BY <2>1, <4>2, <5>1
        <5> QED
          BY <5>2
      <4>4. PICK b \in B : \A x \in B : b <= x
        <5> HIDE DEF B
        <5> QED
          BY <4>1, <4>3, SmallestNat
      <4>5. PICK t \in earlier : b = cs - t
        BY <4>4
      <4>6. \A u \in Stamps : u < cs => u <= t
        <5> SUFFICES ASSUME NEW u \in Stamps, u < cs PROVE u <= t
          OBVIOUS
        <5>1. u \in Nat /\ t \in Nat
          BY <4>2
        <5>2. cs - u \in B
          BY <2>1, <5>1
        <5>3. cs - t <= cs - u
          BY <4>4, <4>5, <5>2
        <5> QED
          BY <2>1, <5>1, <5>3
      <4> HIDE DEF Stamps
      <4>7. last \in Stamps /\ last < cs /\ \A u \in Stamps : u < cs => u <= last
        BY <2>5, <3>1, <4>5, <4>6
      <4>8. last \in Nat
        BY <4>2, <4>7
      <4>9. \A i \in Mine(source, W) : source[i].stamp < cs => source[i].stamp \in Stamps
        BY <2>1, <2>2, <2>3
      <4>10. \A i \in Mine(source, W) : source[i].stamp < cs => source[i].stamp <= last
        BY <4>7, <4>9
      <4> QED
        BY <2>1, <2>2, <4>7, <4>8, <4>10
    <3>2. CASE ~ \E t \in Stamps : t < cs
      <4>1. last = -1
        BY <2>5, <3>2 DEF NoStamp
      <4>2. \A i \in Mine(source, W) : source[i].stamp <= cs => source[i].stamp \in Stamps
        BY <2>3
      <4> HIDE DEF Stamps
      <4>3. \A i \in Mine(source, W) : ~(source[i].stamp < cs)
        BY <2>1, <2>2, <3>2, <4>2
      <4> QED
        BY <2>1, <2>2, <4>1, <4>3
    <3> QED
      BY <3>1, <3>2
  <2> HIDE DEF Stamps
  <2>7. SessionsOf(source, W, last) = SessionsOf(source, W, cs - 1)
    BY <2>1, <2>2, <2>6, NothingBetween
  <2> QED
    BY <2>4, <2>7, ReadySessionsAre DEF W, last
<1> QED
  BY <1>1, <1>2

LEMMA DecisionsCount ==
  ASSUME NEW l \in Loops, NEW r \in Nat, Timed(l, r)
  PROVE  Len(l.cycles) = (r + RebalanceEvery - 1) \div RebalanceEvery
<1> DEFINE n == RebalanceEvery k == Len(l.cycles) a == r + n - 1
           gap == l.bars_seen - l.last_rebalance_index
<1>1. n \in Nat \ {0} /\ k \in Nat /\ a \in Int
  <2>1. l.cycles \in Seq(Decisions)
    BY DEF Loops
  <2>2. k \in Nat
    BY <2>1
  <2> QED
    BY <2>2, Parameters
<1>2. CASE r = 0
  <2>1. k = 0
    BY <1>2 DEF Timed
  <2>2. 0 * n <= a /\ a < 0 * n + n
    BY <1>1, <1>2
  <2> HIDE DEF a, n, k
  <2>3. a \div n = 0
    BY <1>1, <2>2, RoundsDownTo
  <2> QED
    BY <2>1, <2>3 DEF a, n, k
<1>3. CASE r # 0
  <2>1. r = (k - 1) * n + gap + 1 /\ gap \in 0..(n - 1)
    BY <1>3 DEF Timed
  <2> HIDE DEF n, k, gap
  <2>2. (k - 1) * n + n = k * n /\ k * n \in Int /\ (k - 1) * n \in Int
    BY <1>1
  <2> DEFINE x == (k - 1) * n y == k * n
  <2>3. x \in Int /\ y \in Int /\ x + n = y /\ r = x + gap + 1
    BY <2>1, <2>2
  <2> HIDE DEF x, y
  <2>4. y <= a /\ a < y + n
    BY <1>1, <2>1, <2>3
  <2>5. k * n <= a /\ a < k * n + n
    BY <2>4 DEF y
  <2> HIDE DEF a
  <2>6. a \div n = k
    BY <1>1, <2>5, RoundsDownTo
  <2> QED
    BY <2>6 DEF a, n, k
<1> QED
  BY <1>2, <1>3

\* From the first session with a full window of every symbol a decision is made
\* on each RebalanceEvery-th session, and none finds too little history.
THEOREM DecidesOnSchedule == Spec => []RebalancesOnSchedule
<1>1. IInv => RebalancesOnSchedule
  <2> SUFFICES ASSUME IInv, fold > 0
               PROVE  LET ready == Cardinality(ReadySessions(Windows[fold], LastFlushed)) IN
                      /\ Len(loop.cycles) = (ready + RebalanceEvery - 1) \div RebalanceEvery
                      /\ \A c \in Range(loop.cycles) : c.note # "history"
    BY DEF RebalancesOnSchedule
  <2> DEFINE W == Windows[fold]
             ready == Cardinality(ReadySessions(W, LastFlushed))
  <2>1. Running
    BY DEF IInv
  <2>2. loop \in Loops /\ SourceOK(source)
    BY <2>1, Lengths DEF Running, Sound
  <2>3. Until(loop) \in Int
    BY <2>2 DEF Until, Loops, NoStamp
  <2>4. ready = Cardinality(SessionsOf(source, W, Until(loop)))
    BY <2>1, LastFlushedIs
  <2>5. Timed(loop, Cardinality(SessionsOf(source, W, Until(loop))))
    BY <2>1 DEF Running, Sound
  <2> HIDE DEF W, ready
  <2>6. ready \in Nat /\ Timed(loop, ready)
    BY <2>2, <2>3, <2>4, <2>5, StampsAreFinite
  <2>7. Len(loop.cycles) = (ready + RebalanceEvery - 1) \div RebalanceEvery
    BY <2>2, <2>6, DecisionsCount
  <2>8. \A c \in Range(loop.cycles) : c.note # "history"
    BY <2>1 DEF Running, Sound, Decided
  <2> QED
    BY <2>7, <2>8 DEF W, ready
<1> QED
  BY <1>1, Invariance, PTL

-----------------------------------------------------------------------------
(* Drawdowns.                                                              *)

\* a/b <= c/d and c/d <= e/f give a/b <= e/f.
LEMMA QuotientsAreOrdered ==
  ASSUME NEW a \in Int, NEW b \in Nat \ {0}, NEW c \in Int, NEW d \in Nat \ {0},
         NEW e \in Int, NEW f \in Nat \ {0}, a * d <= c * b, c * f <= e * d
  PROVE  a * f <= e * b
<1>1. a * d \in Int /\ c * b \in Int /\ c * f \in Int /\ e * d \in Int
  OBVIOUS
<1>2. (a * d) * f <= (c * b) * f /\ (c * f) * b <= (e * d) * b
  BY <1>1, ProductIsMonotone
<1>3. (a * d) * f = (a * f) * d /\ (c * b) * f = (c * f) * b /\ (e * d) * b = (e * b) * d
  OBVIOUS
<1>4. a * f \in Int /\ e * b \in Int
  OBVIOUS
<1>5. (a * f) * d \in Int /\ (c * f) * b \in Int /\ (e * b) * d \in Int
  OBVIOUS
<1> DEFINE x == (a * f) * d y == (c * f) * b z == (e * b) * d
<1>6. x <= y /\ y <= z /\ x \in Int /\ y \in Int /\ z \in Int
  BY <1>2, <1>3, <1>5
<1> HIDE DEF x, y, z
<1>7. x <= z
  BY <1>6
<1>8. (a * f) * d <= (e * b) * d
  BY <1>7 DEF x, z
<1> QED
  BY ONLY <1>4, <1>8, d \in Nat \ {0}, Cancels

\* What max_drawdown keeps while it goes through a curve.
Declines == [peak : Int, worst : Int \X Int]

LEMMA DeeperIs ==
  ASSUME NEW acc \in Declines, NEW value \in Int
  PROVE  LET peak == IF value > acc.peak THEN value ELSE acc.peak IN
         /\ Deeper(acc, value) \in Declines
         /\ Deeper(acc, value).peak = peak
         /\ Deeper(acc, value).worst
              = IF (peak - value) * acc.worst[2] > acc.worst[1] * peak
                THEN <<peak - value, peak>> ELSE acc.worst
<1> DEFINE peak == IF value > acc.peak THEN value ELSE acc.peak
           worse == (peak - value) * acc.worst[2] > acc.worst[1] * peak
           worst == IF worse THEN <<peak - value, peak>> ELSE acc.worst
<1>1. peak \in Int /\ acc.worst \in Int \X Int
  BY DEF Declines
<1>2. Deeper(acc, value) = [peak |-> peak, worst |-> worst]
  BY DEF Deeper
<1> HIDE DEF peak, worse
<1>3. worst \in Int \X Int
  BY <1>1
<1> HIDE DEF worst
<1>4. [peak |-> peak, worst |-> worst] \in Declines
  BY <1>1, <1>3 DEF Declines
<1> QED
  BY <1>2, <1>4 DEF peak, worst, worse

LEMMA DeeperInOrder ==
  ASSUME NEW curve \in Seq(Int), curve # <<>>
  PROVE  \E h : /\ h[0] = [peak |-> curve[1], worst |-> <<0, 1>>]
                /\ \A i \in 1..Len(curve) : h[i] = Deeper(h[i - 1], curve[i])
                /\ \A i \in 0..Len(curve) : h[i] \in Declines
                /\ h[Len(curve)].worst = max_drawdown(curve)
<1> DEFINE base == [peak |-> Head(curve), worst |-> <<0, 1>>]
           m == Len(curve)
           op == [p \in Declines \X Int |-> Deeper(p[1], p[2])]
           Solves(g) == g = [S \in SUBSET (1..m) |->
                               IF S = {} THEN base
                               ELSE Deeper(g[S \ {Max(S)}], curve[Max(S)])]
<1>1. /\ m \in Nat /\ m # 0 /\ DOMAIN curve = 1..m /\ Head(curve) = curve[1] /\ Len(curve) = m
      /\ \A i \in 1..m : curve[i] \in Int
  OBVIOUS
<1>2. base \in Declines
  BY <1>1 DEF Declines
<1>3. op \in [Declines \X Int -> Declines]
  BY DeeperIs
<1>4. max_drawdown(curve) = (CHOOSE g : Solves(g))[1..m].worst
  BY <1>1 DEF max_drawdown, FoldLeft, MapThenFoldSet
<1>0. base = [peak |-> curve[1], worst |-> <<0, 1>>]
  BY <1>1
<1> HIDE DEF base, m
<1>5. \E g : Solves(g) /\ \A S \in SUBSET (1..m) : g[S] \in Declines
  <2> HIDE DEF op
  <2>1. PICK g : Folds(g, op, base, curve, m)
    BY <1>1, FoldsExist
  <2>2. \A S \in SUBSET (1..m) : g[S] \in Declines
    BY <1>1, <1>2, <1>3, <2>1, FoldsTyped
  <2>3. ASSUME NEW S \in SUBSET (1..m)
        PROVE  g[S] = IF S = {} THEN base ELSE Deeper(g[S \ {Max(S)}], curve[Max(S)])
    <3>1. g[S] = IF S = {} THEN base ELSE op[<<g[S \ {Max(S)}], curve[Max(S)]>>]
      <4>1. \A T \in SUBSET (1..m) :
              g[T] = IF T = {} THEN base ELSE op[<<g[T \ {Max(T)}], curve[Max(T)]>>]
        BY <2>1 DEF Folds
      <4> QED
        BY <4>1
    <3>2. CASE S # {}
      <4>1. Max(S) \in S
        BY <1>1, <3>2, GreatestIsIn
      <4>2. curve[Max(S)] \in Int /\ g[S \ {Max(S)}] \in Declines
        <5>1. Max(S) \in 1..m /\ S \ {Max(S)} \in SUBSET (1..m)
          BY <4>1
        <5> QED
          BY <1>1, <2>2, <5>1
      <4>3. op[<<g[S \ {Max(S)}], curve[Max(S)]>>] = Deeper(g[S \ {Max(S)}], curve[Max(S)])
        BY <4>2 DEF op
      <4> QED
        BY <3>1, <3>2, <4>3
    <3> QED
      BY <3>1, <3>2
  <2>4. g = [S \in SUBSET (1..m) |-> g[S]]
    BY <2>1 DEF Folds
  <2>5. Solves(g)
    BY <2>3, <2>4
  <2> HIDE DEF Solves
  <2> QED
    BY <2>2, <2>5
<1> DEFINE g == CHOOSE f : Solves(f)
<1>6. Solves(g)
  <2> HIDE DEF Solves
  <2> QED
    BY <1>5
<1>7. \A S \in SUBSET (1..m) :
        g[S] = IF S = {} THEN base ELSE Deeper(g[S \ {Max(S)}], curve[Max(S)])
  <2> HIDE DEF g
  <2> QED
    BY <1>6
<1> HIDE DEF g, Solves
<1> DEFINE h == [i \in 0..m |-> g[1..i]]
<1>8. h[0] = base
  <2>1. h[0] = g[1..0]
    BY <1>1
  <2>2. 1..0 = {} /\ {} \in SUBSET (1..m)
    OBVIOUS
  <2>3. g[{}] = base
    BY <1>7, <2>2
  <2> QED
    BY <2>1, <2>2, <2>3
<1>9. ASSUME NEW i \in 1..m PROVE h[i] = Deeper(h[i - 1], curve[i])
  <2>1. i \in Nat \ {0} /\ i - 1 \in 0..m /\ i \in 0..m /\ i \in 1..i
    BY <1>1
  <2>4. 1..i \in SUBSET (1..m) /\ 1..i # {}
    <3>1. \A x \in 1..i : x \in 1..m
      BY <1>1, <2>1
    <3> QED
      BY <2>1, <3>1
  <2>2. Max(1..i) = i /\ (1..i) \ {Max(1..i)} = 1..(i - 1)
    BY <2>1, FirstPlaces
  <2>3. g[1..i] = Deeper(g[1..(i - 1)], curve[i])
    BY <1>7, <2>2, <2>4
  <2> QED
    BY <2>1, <2>3
<1> HIDE DEF h
<1> DEFINE B == {i \in Nat : i <= m /\ h[i] \notin Declines}
<1>10. ASSUME B # {} PROVE FALSE
  <2>1. PICK i \in B : \A k \in B : i <= k
    <3>1. B \in SUBSET Nat
      OBVIOUS
    <3> HIDE DEF B
    <3> QED
      BY <1>10, <3>1, SmallestNat
  <2>2. i # 0
    BY <1>2, <1>8, <2>1
  <2>3. i - 1 \in Nat /\ i - 1 \notin B /\ i \in 1..m
    BY <1>1, <2>1, <2>2
  <2>4. h[i - 1] \in Declines /\ curve[i] \in Int
    BY <1>1, <2>3
  <2>6. Deeper(h[i - 1], curve[i]) \in Declines
    BY <2>4, DeeperIs
  <2>5. h[i] \in Declines
    BY <1>9, <2>3, <2>6
  <2> QED
    BY <2>1, <2>5
<1>11. \A i \in 0..m : h[i] \in Declines
  BY <1>1, <1>10
<1>12. max_drawdown(curve) = h[m].worst
  BY <1>1, <1>4 DEF h, g
<1> QED
  BY <1>0, <1>8, <1>9, <1>11, <1>12 DEF m

\* The highest value so far, and no decline so far is deeper than the worst.
Declined(curve, i, acc) ==
  /\ i = 0 => acc.peak = curve[1]
  /\ i > 0 => Peak(curve, i, acc.peak)
  /\ acc.worst[2] > 0
  /\ \A n \in 1..i, p \in Int :
       Peak(curve, n, p) => Quotient(<<p - curve[n], p>>, acc.worst)

LEMMA PeakGrows ==
  ASSUME NEW curve \in Seq(Int), NEW i \in 1..Len(curve), NEW q \in Int,
         IF i = 1 THEN q = curve[1] ELSE Peak(curve, i - 1, q)
  PROVE  Peak(curve, i, IF curve[i] > q THEN curve[i] ELSE q)
<1> DEFINE p == IF curve[i] > q THEN curve[i] ELSE q m == Len(curve)
<1>1. m \in Nat /\ \A j \in 1..m : curve[j] \in Int
  OBVIOUS
<1> HIDE DEF m
<1>2. i \in 1..m /\ i \in Nat /\ curve[i] \in Int
  BY <1>1 DEF m
<1>3. p \in Int /\ p >= q /\ p >= curve[i] /\ (p = q \/ p = curve[i])
  BY <1>2
<1> HIDE DEF p
<1>4. CASE i = 1
  <2>1. \A j \in 1..i : j = 1
    BY <1>4
  <2>2. p = curve[1] /\ 1 \in 1..i
    BY <1>2, <1>3, <1>4
  <2> QED
    BY <1>2, <1>4, <2>1, <2>2 DEF Peak, p
<1>5. CASE i # 1
  <2>1. Peak(curve, i - 1, q)
    BY <1>5
  <2>2. \E j \in 1..i : curve[j] = p
    <3>1. PICK j \in 1..(i - 1) : curve[j] = q
      BY <2>1 DEF Peak
    <3>2. j \in 1..i /\ i \in 1..i
      BY <1>2, <3>1
    <3> QED
      BY <1>3, <3>1, <3>2
  <2>3. \A j \in 1..i : curve[j] <= p
    <3> SUFFICES ASSUME NEW j \in 1..i PROVE curve[j] <= p
      OBVIOUS
    <3>1. j \in 1..m /\ curve[j] \in Int
      BY <1>1, <1>2
    <3>2. CASE j = i
      BY <1>2, <1>3, <3>2
    <3>3. CASE j # i
      <4>1. j \in 1..(i - 1)
        BY <1>2, <3>1, <3>3
      <4>2. curve[j] <= q
        BY <2>1, <4>1 DEF Peak
      <4> QED
        BY <1>3, <3>1, <4>2
    <3> QED
      BY <3>2, <3>3
  <2> QED
    BY <2>2, <2>3 DEF Peak, p
<1> QED
  BY <1>4, <1>5

\* The highest of the first values of a curve that starts above zero.
LEMMA PeakIsOne ==
  ASSUME NEW curve \in Seq(Int), NEW n \in 1..Len(curve), curve[1] > 0,
         NEW p \in Int, Peak(curve, n, p)
  PROVE  /\ p > 0
         /\ \A q \in Int : Peak(curve, n, q) => q = p
<1>1. 1 \in 1..n /\ 1 \in 1..Len(curve)
  <2>1. Len(curve) \in Nat
    OBVIOUS
  <2> QED
    BY <2>1
<1>2. curve[1] \in Int /\ curve[1] <= p
  BY <1>1 DEF Peak
<1>3. \A q \in Int : Peak(curve, n, q) => q <= p /\ p <= q
  BY DEF Peak
<1> QED
  BY <1>2, <1>3

LEMMA DeeperKeeps ==
  ASSUME NEW curve \in Seq(Int), curve # <<>>, curve[1] > 0, NEW i \in 1..Len(curve),
         NEW acc \in Declines, Declined(curve, i - 1, acc)
  PROVE  Declined(curve, i, Deeper(acc, curve[i]))
<1> DEFINE m == Len(curve) v == curve[i] q == acc.peak a == acc.worst[1] b == acc.worst[2]
           peak == IF v > q THEN v ELSE q
           new == Deeper(acc, v)
           worse == (peak - v) * b > a * peak
<1>1. /\ m \in Nat /\ i \in 1..m /\ i \in Nat /\ v \in Int
      /\ \A j \in 1..m : curve[j] \in Int
  <2>1. m \in Nat /\ \A j \in 1..m : curve[j] \in Int
    OBVIOUS
  <2> QED
    BY <2>1
<1>2. q \in Int /\ a \in Int /\ b \in Nat \ {0} /\ acc.worst = <<a, b>>
  <2>1. q \in Int /\ a \in Int /\ b \in Int /\ acc.worst = <<a, b>>
    BY DEF Declines
  <2>2. b > 0
    BY DEF Declined
  <2> QED
    BY <2>1, <2>2
<1>3. new.peak = peak /\ new.worst = IF worse THEN <<peak - v, peak>> ELSE acc.worst
  BY <1>1, DeeperIs
<1>4. Peak(curve, i, peak)
  <2>1. IF i = 1 THEN q = curve[1] ELSE Peak(curve, i - 1, q)
    <3>1. i = 1 => i - 1 = 0
      OBVIOUS
    <3>2. i # 1 => i - 1 > 0
      BY <1>1
    <3> QED
      BY <3>1, <3>2 DEF Declined
  <2> QED
    BY <1>2, <2>1, PeakGrows
<1>5. peak \in Int
  BY <1>1, <1>2
<1> HIDE DEF m
<1>6. peak > 0 /\ \A p \in Int : Peak(curve, i, p) => p = peak
  <2> HIDE DEF peak
  <2> QED
    BY <1>4, <1>5, PeakIsOne
<1>7. \A n \in 1..(i - 1), p \in Int :
        Peak(curve, n, p) => Quotient(<<p - curve[n], p>>, acc.worst)
  BY DEF Declined
<1> HIDE DEF peak, v, q, a, b, new, worse
<1>8. new.worst[2] > 0
  BY <1>2, <1>3, <1>5, <1>6
<1>9. ASSUME NEW n \in 1..i, NEW p \in Int, Peak(curve, n, p)
      PROVE  Quotient(<<p - curve[n], p>>, new.worst)
  <2>1. CASE n = i
    <3>1. p = peak /\ curve[n] = v
      BY <1>6, <1>9, <2>1 DEF v
    <3>2. CASE worse
      BY <1>3, <3>1, <3>2 DEF Quotient
    <3>3. CASE ~worse
      <4> DEFINE x == (peak - v) * b y == a * peak
      <4>1. x \in Int /\ y \in Int
        BY <1>1, <1>2, <1>5
      <4>2. ~(x > y)
        BY <3>3 DEF worse
      <4> HIDE DEF x, y
      <4>3. x <= y
        BY <4>1, <4>2
      <4>4. (peak - v) * b <= a * peak
        BY <4>3 DEF x, y
      <4> QED
        BY <1>2, <1>3, <3>1, <3>3, <4>4 DEF Quotient
    <3> QED
      BY <3>2, <3>3
  <2>2. CASE n # i
    <3>1. n \in 1..(i - 1) /\ n \in 1..m
      BY <1>1, <2>2
    <3>2. Quotient(<<p - curve[n], p>>, acc.worst)
      BY <1>7, <1>9, <3>1
    <3>3. CASE ~worse
      BY <1>3, <3>2, <3>3
    <3>4. CASE worse
      <4> DEFINE d == p - curve[n] e == peak - v
      <4>1. p > 0
        BY <1>9, <3>1, PeakIsOne DEF m
      <4>2. d \in Int /\ e \in Int /\ p \in Nat \ {0} /\ peak \in Nat \ {0}
        <5>1. curve[n] \in Int
          BY <1>1, <3>1
        <5> QED
          BY <1>1, <1>5, <1>6, <4>1, <5>1
      <4>3. d * b <= a * p
        BY <1>2, <3>2 DEF Quotient
      <4>4. a * peak <= e * b
        <5> DEFINE x == (peak - v) * b y == a * peak
        <5>1. x \in Int /\ y \in Int
          BY <1>1, <1>2, <1>5
        <5>2. x > y
          BY <3>4 DEF worse
        <5> HIDE DEF x, y
        <5>3. y <= x
          BY <5>1, <5>2
        <5> QED
          BY <5>3 DEF x, y
      <4>5. d * peak <= e * p
        <5> HIDE DEF d, e
        <5> QED
          BY ONLY <1>2, <4>2, <4>3, <4>4, QuotientsAreOrdered
      <4> QED
        BY <1>3, <3>4, <4>5 DEF Quotient
    <3> QED
      BY <3>3, <3>4
  <2> QED
    BY <2>1, <2>2
<1>10. i # 0 /\ Peak(curve, i, new.peak)
  BY <1>1, <1>3, <1>4
<1> QED
  BY <1>8, <1>9, <1>10 DEF Declined, new, v

LEMMA DeepestDecline ==
  ASSUME NEW curve \in Seq(Int), NEW n \in 1..Len(curve), curve[1] > 0,
         NEW p \in Int, Peak(curve, n, p)
  PROVE  Quotient(<<p - curve[n], p>>, max_drawdown(curve))
<1> DEFINE m == Len(curve)
<1>1. m \in Nat /\ m # 0 /\ n \in 1..m /\ curve # <<>>
  <2>1. m \in Nat
    OBVIOUS
  <2>2. n \in 1..m /\ m # 0
    BY <2>1
  <2>3. curve = <<>> => m = 0
    OBVIOUS
  <2> QED
    BY <2>1, <2>2, <2>3
<1>2. PICK h : /\ h[0] = [peak |-> curve[1], worst |-> <<0, 1>>]
               /\ \A i \in 1..m : h[i] = Deeper(h[i - 1], curve[i])
               /\ \A i \in 0..m : h[i] \in Declines
               /\ h[m].worst = max_drawdown(curve)
  BY <1>1, DeeperInOrder
<1>3. Declined(curve, 0, h[0])
  BY <1>2 DEF Declined
<1>4. ASSUME NEW i \in 1..m, Declined(curve, i - 1, h[i - 1])
      PROVE  Declined(curve, i, h[i])
  <2>1. i - 1 \in 0..m
    BY <1>1
  <2>2. h[i - 1] \in Declines /\ h[i] = Deeper(h[i - 1], curve[i])
    BY <1>2, <2>1
  <2> QED
    BY <1>1, <1>4, <2>2, DeeperKeeps
<1> HIDE DEF m
<1> DEFINE B == {i \in Nat : i <= m /\ ~Declined(curve, i, h[i])}
<1>5. ASSUME B # {} PROVE FALSE
  <2>1. PICK i \in B : \A k \in B : i <= k
    <3>1. B \in SUBSET Nat
      OBVIOUS
    <3> HIDE DEF B
    <3> QED
      BY <1>5, <3>1, SmallestNat
  <2>2. i # 0
    BY <1>3, <2>1
  <2>3. i - 1 \in Nat /\ i - 1 \notin B /\ i \in 1..m
    BY <1>1, <2>1, <2>2
  <2>4. Declined(curve, i - 1, h[i - 1])
    BY <1>1, <2>1, <2>3
  <2>5. Declined(curve, i, h[i])
    BY <1>4, <2>3, <2>4
  <2> QED
    BY <2>1, <2>5
<1>6. Declined(curve, m, h[m])
  BY <1>1, <1>5
<1> QED
  BY <1>1, <1>2, <1>6 DEF Declined

\* The drawdown the breaker is shown is the one the report computes from the
\* curve up to that session, and never more than the worst it ends with.
THEOREM BreakerSeesTheReport == Spec => []BreakerSeesReportedDrawdown
<1>1. IInv => BreakerSeesReportedDrawdown
  <2> SUFFICES ASSUME IInv, NEW c \in Range(loop.cycles)
               PROVE  LET curve == SubSeq(loop.equity, 1, c.session)
                          peak == CHOOSE p \in Range(curve) : \A v \in Range(curve) : v <= p
                      IN /\ c.drawdown[1] * peak = (peak - Last(curve)) * c.drawdown[2]
                         /\ Quotient(c.drawdown, max_drawdown(loop.equity))
    BY DEF BreakerSeesReportedDrawdown
  <2> DEFINE equity == loop.equity
             n == c.session
             curve == SubSeq(equity, 1, n)
             peak == CHOOSE p \in Range(curve) : \A v \in Range(curve) : v <= p
  <2>1. loop \in Loops /\ Booked(loop) /\ c \in Decisions
    BY DecisionsRun DEF Running, Sound
  <2>2. /\ equity \in Seq(Int) /\ loop.bars_seen = Len(equity) /\ n \in 1..Len(equity)
    BY <2>1 DEF Booked, Loops
  <2>3. Len(equity) \in Nat /\ \A i \in 1..Len(equity) : equity[i] \in Int
    BY <2>2
  <2>4. equity[1] > 0
    <3>1. loop.bars_seen > 0
      BY <2>2, <2>3
    <3> QED
      BY <2>1, <3>1, Parameters DEF Booked
  <2>5. PICK p \in Int : c.drawdown = <<p - equity[n], p>> /\ Peak(equity, n, p)
    BY <2>1 DEF Booked
  <2> HIDE DEF equity, n
  <2>6. /\ Len(curve) = n /\ DOMAIN curve = 1..n /\ n \in Nat \ {0}
        /\ \A i \in 1..n : curve[i] = equity[i]
    BY <2>2, <2>3
  <2> HIDE DEF curve
  <2>7. Last(curve) = equity[n]
    BY <2>6 DEF Last
  <2>8. Range(curve) = {equity[i] : i \in 1..n}
    BY <2>6 DEF Range
  <2>9. Range(curve) \subseteq Int
    BY <2>2, <2>3, <2>8
  <2>10. p \in Range(curve) /\ \A v \in Range(curve) : v <= p
    BY <2>5, <2>8 DEF Peak
  <2>11. peak \in Range(curve) /\ \A v \in Range(curve) : v <= peak
    BY <2>10
  <2> HIDE DEF peak
  <2>12. peak = p
    BY <2>9, <2>10, <2>11
  <2>13. c.drawdown[1] * peak = (peak - Last(curve)) * c.drawdown[2]
    BY <2>5, <2>7, <2>12
  <2>14. Quotient(c.drawdown, max_drawdown(equity))
    BY <2>2, <2>4, <2>5, DeepestDecline
  <2> QED
    BY <2>13, <2>14 DEF peak, curve, equity, n
<1> QED
  BY <1>1, Invariance, PTL

=============================================================================
