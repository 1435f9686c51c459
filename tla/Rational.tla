------------------------------ MODULE Rational ------------------------------
(***************************************************************************)
(* Exact fractions <<numerator, denominator>> in lowest terms, in place of *)
(* Python's Decimal: the 28 significant digits of its default context are  *)
(* taken to be enough, so no operation here rounds.                        *)
(***************************************************************************)
EXTENDS Integers

(* Denominators stay small in the models, so trying every divisor is cheap. *)
Gcd(n, d) ==
  CHOOSE k \in 1 .. d : /\ n % k = 0 /\ d % k = 0
                        /\ \A m \in k + 1 .. d : n % m # 0 \/ d % m # 0

Fraction(n, d) == LET g == Gcd(n, d) IN <<n \div g, d \div g>>

Whole(n)     == <<n, 1>>
Plus(a, b)   == Fraction(a[1] * b[2] + b[1] * a[2], a[2] * b[2])
Times(a, n)  == Fraction(a[1] * n, a[2])           \* n whole
Over(a, n)   == Fraction(a[1], a[2] * n)           \* n whole and positive
Minus(a, b)  == Plus(a, Times(b, -1))
AtMost(a, b) == a[1] * b[2] <= b[1] * a[2]
=============================================================================
