------------------------------ MODULE Rational ------------------------------
(***************************************************************************)
(* Exact fractions: what Decimal and float64 stand for in src/cfa.  A      *)
(* fraction is <<numerator, denominator>> in lowest terms.  Square roots   *)
(* are not taken: a standard deviation is represented by its square, a     *)
(* ratio of a fraction and a root by its square with the sign kept.        *)
(***************************************************************************)
EXTENDS Integers, Sequences

Fractions == Int \X (Nat \ {0})

\* Euclid's algorithm.
gcd[p \in Nat \X Nat] == IF p[2] = 0 THEN p[1] ELSE gcd[<<p[2], p[1] % p[2]>>]
GCD(m, n) == gcd[<<m, n>>]
Abs(i) == IF i < 0 THEN -i ELSE i

Rationals == {a \in Fractions : GCD(Abs(a[1]), a[2]) = 1}

Q(n, d) == LET g == GCD(Abs(n), d) IN <<n \div g, d \div g>>
Whole(n) == <<n, 1>>
Zero == Whole(0)
One == Whole(1)

a ++ b ==
  LET g == GCD(a[2], b[2])
  IN Q(a[1] * (b[2] \div g) + b[1] * (a[2] \div g), a[2] * (b[2] \div g))
Minus(a) == <<-a[1], a[2]>>
a -- b == a ++ Minus(b)
a ** b ==
  LET g == GCD(Abs(a[1]), b[2])
      h == GCD(Abs(b[1]), a[2])
  IN <<(a[1] \div g) * (b[1] \div h), (a[2] \div h) * (b[2] \div g)>>
Reciprocal(a) == IF a[1] > 0 THEN <<a[2], a[1]>> ELSE <<-a[2], -a[1]>>
a // b == a ** Reciprocal(b)

Sign(i) == IF i < 0 THEN -1 ELSE IF i > 0 THEN 1 ELSE 0

\* The sign of the difference of a pair: by whole parts, then by what is left of
\* each, turned over.  No product of two large numbers is taken.
compare[p \in Fractions \X Fractions] ==
  LET whole(x) == x[1] \div x[2]
      rest(x) == x[1] % x[2]
      a == p[1]
      b == p[2]
  IN IF whole(a) # whole(b) THEN Sign(whole(a) - whole(b))
     ELSE IF rest(a) = 0 \/ rest(b) = 0 THEN Sign(rest(a) - rest(b))
     ELSE compare[<<<<b[2], rest(b)>>, <<a[2], rest(a)>>>>]

a \prec b == compare[<<a, b>>] = -1
a \preceq b == compare[<<a, b>>] # 1
Larger(a, b) == IF a \prec b THEN b ELSE a
Smaller(a, b) == IF a \prec b THEN a ELSE b
Square(a) == a ** a

\* The square of a / Sqrt(v), with the sign of a.
Ratio(a, v) == (IF a \prec Zero THEN Minus(a) ELSE a) ** (a // v)

\* A sequence whose terms are evaluated once.
Listed(s) == SubSeq(s, 1, Len(s))

\* Of a sequence of fractions.
Sum(s) == LET t[n \in 0..Len(s)] == IF n = 0 THEN Zero ELSE t[n - 1] ++ s[n] IN t[Len(s)]
Product(s) == LET t[n \in 0..Len(s)] == IF n = 0 THEN One ELSE t[n - 1] ** s[n] IN t[Len(s)]
Dot(x, y) == Sum([i \in 1..Len(x) |-> x[i] ** y[i]])
Power(a, k) == Product([i \in 1..k |-> a])
=============================================================================
