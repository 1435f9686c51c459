------------------------ MODULE EngineAccounting_proofs ------------------------
(***************************************************************************)
(* Proofs that the money of the reference engine adds up, for every tape,  *)
(* every set of actions, any fees and any slippage.                        *)
(***************************************************************************)
EXTENDS EngineAccounting, ReferenceEngine_proofs, SumTheorems

-----------------------------------------------------------------------------
(* Fractions.  The greatest common divisor exists, because 1 is a common    *)
(* divisor and none is above d.                                             *)
LEMMA GcdIs ==
  ASSUME NEW n \in Int, NEW d \in Nat \ {0}
  PROVE  /\ Gcd(n, d) \in 1 .. d /\ n % Gcd(n, d) = 0 /\ d % Gcd(n, d) = 0
         /\ \A m \in Gcd(n, d) + 1 .. d : n % m # 0 \/ d % m # 0
<1> DEFINE C == {k \in 1 .. d : n % k = 0 /\ d % k = 0}
           T == {d - k : k \in C}
<1>1. 1 \in C
  OBVIOUS
<1>2. T \subseteq Nat /\ T # {}
  BY <1>1
<1>3. PICK t \in T : \A u \in T : ~(<<u, t>> \in Smaller)
  BY <1>2, SmallerWellFounded, WFMin
<1>4. PICK k \in C : t = d - k
  OBVIOUS
<1>5. ASSUME NEW m \in k + 1 .. d PROVE n % m # 0 \/ d % m # 0
  <2>1. SUFFICES ASSUME m \in C PROVE FALSE
    BY <1>4
  <2>2. d - m \in T /\ d - m < t
    BY <1>4, <2>1
  <2>3. QED
    BY <1>2, <1>3, <2>2 DEF Smaller
<1>6. QED
  BY <1>4, <1>5 DEF Gcd

(* q is the fraction n / d.                                                 *)
Frac == Int \X (Nat \ {0})

Is(q, n, d) == q \in Frac /\ n \in Int /\ d \in Nat \ {0} /\ q[1] * d = n * q[2]

LEMMA Divides ==
  ASSUME NEW n \in Int, NEW g \in Nat \ {0}, n % g = 0
  PROVE  n \div g \in Int /\ (n \div g) * g = n
<1>1. n = g * (n \div g) + (n % g) /\ n \div g \in Int
  OBVIOUS
<1>2. QED
  BY <1>1

LEMMA FractionIs ==
  ASSUME NEW n \in Int, NEW d \in Nat \ {0}
  PROVE  Is(Fraction(n, d), n, d)
<1> DEFINE g == Gcd(n, d)
           a == n \div g
           b == d \div g
<1>1. g \in Nat \ {0} /\ n % g = 0 /\ d % g = 0
  BY GcdIs
<1>2. a \in Int /\ a * g = n /\ b \in Int /\ b * g = d
  <2>1. d \in Int
    OBVIOUS
  <2>2. QED
    BY <1>1, <2>1, Divides
<1> HIDE DEF g, a, b
<1>3. b > 0
  <2>1. b <= 0 => b * g <= 0
    BY <1>1, <1>2
  <2>2. QED
    BY <1>2, <2>1
<1>4. a * d = n * b
  <2>1. a * d = a * (b * g) /\ n * b = (a * g) * b
    BY <1>2
  <2>2. a * (b * g) = (a * g) * b
    BY <1>1, <1>2
  <2>3. QED
    BY <2>1, <2>2
<1>5. Fraction(n, d) = <<a, b>>
  BY DEF Fraction, g, a, b
<1>6. QED
  BY <1>2, <1>3, <1>4, <1>5 DEF Is, Frac

(* A fraction that is whole is written so.                                  *)
LEMMA FractionWhole ==
  ASSUME NEW w \in Int, NEW d \in Nat \ {0}
  PROVE  Fraction(w * d, d) = Whole(w)
<1> DEFINE g == Gcd(w * d, d)
<1>1. w * d \in Int /\ (w * d) % d = 0 /\ d % d = 0
  OBVIOUS
<1>2. g \in 1 .. d /\ \A m \in g + 1 .. d : (w * d) % m # 0 \/ d % m # 0
  BY <1>1, GcdIs
<1> HIDE DEF g
<1>3. g = d
  BY <1>1, <1>2
<1>4. (w * d) \div d = w /\ d \div d = 1
  OBVIOUS
<1>5. QED
  BY <1>3, <1>4 DEF Fraction, Whole, g

LEMMA Cancel ==
  ASSUME NEW a \in Int, NEW b \in Int, NEW k \in Nat \ {0}, a * k = b * k
  PROVE  a = b
  OBVIOUS

LEMMA WholeIs ==
  ASSUME NEW n \in Int, NEW d \in Nat \ {0}
  PROVE  Is(Whole(n), n * d, d)
  BY DEF Is, Frac, Whole

LEMMA IsScaled ==
  ASSUME NEW q, NEW n \in Int, NEW d, NEW k \in Nat \ {0}
  PROVE  /\ Is(q, n, d) => Is(q, n * k, d * k)
         /\ d \in Nat \ {0} /\ Is(q, n * k, d * k) => Is(q, n, d)
<1>1. ASSUME Is(q, n, d) PROVE Is(q, n * k, d * k)
  <2>1. d * k \in Nat \ {0} /\ n * k \in Int
    BY <1>1, PositiveProduct DEF Is
  <2>2. q[1] \in Int /\ q[2] \in Int /\ d \in Int
    BY <1>1 DEF Is, Frac
  <2>3. q[1] * (d * k) = (q[1] * d) * k /\ (n * k) * q[2] = (n * q[2]) * k
    BY <2>2
  <2>4. QED
    BY <1>1, <2>1, <2>3 DEF Is
<1>2. ASSUME d \in Nat \ {0}, Is(q, n * k, d * k) PROVE Is(q, n, d)
  <2>1. q[1] \in Int /\ q[2] \in Int /\ q \in Frac
    BY <1>2 DEF Is, Frac
  <2>2. q[1] * (d * k) = (q[1] * d) * k /\ (n * k) * q[2] = (n * q[2]) * k
    BY <1>2, <2>1
  <2>3. (q[1] * d) * k = (n * q[2]) * k
    BY <1>2, <2>2 DEF Is
  <2>4. q[1] * d \in Int /\ n * q[2] \in Int
    BY <1>2, <2>1
  <2>5. q[1] * d = n * q[2]
    BY <2>3, <2>4, Cancel
  <2>6. QED
    BY <1>2, <2>1, <2>5 DEF Is
<1>3. QED
  BY <1>1, <1>2

(* The same fraction, over another denominator.                             *)
LEMMA IsAlso ==
  ASSUME NEW q, NEW n, NEW d, NEW m \in Int, NEW e \in Nat \ {0}, Is(q, n, d), n * e = m * d
  PROVE  Is(q, m, e)
<1> DEFINE a == q[1]
           b == q[2]
<1>1. a \in Int /\ b \in Nat \ {0} /\ n \in Int /\ d \in Nat \ {0} /\ a * d = n * b
  BY DEF Is, Frac
<1> HIDE DEF a, b
<1>2. (a * e) * d = (m * b) * d
  <2>1. (a * e) * d = (a * d) * e /\ (n * b) * e = (n * e) * b /\ (m * d) * b = (m * b) * d
    BY <1>1
  <2>2. QED
    BY <1>1, <2>1
<1>3. a * e \in Int /\ m * b \in Int
  BY <1>1
<1>4. a * e = m * b
  BY <1>1, <1>2, <1>3, Cancel
<1>5. QED
  BY <1>4 DEF Is, a, b

LEMMA TimesIs ==
  ASSUME NEW q, NEW n, NEW d, Is(q, n, d), NEW k \in Int
  PROVE  Is(Times(q, k), n * k, d)
<1> DEFINE a == q[1]
           b == q[2]
<1>1. a \in Int /\ b \in Nat \ {0} /\ n \in Int /\ d \in Nat \ {0} /\ a * d = n * b
  BY DEF Is, Frac
<1>2. Is(Times(q, k), a * k, b)
  BY <1>1, FractionIs DEF Times
<1> HIDE DEF a, b
<1>3. (a * k) * d = (n * k) * b
  <2>1. (a * k) * d = (a * d) * k /\ (n * b) * k = (n * k) * b
    BY <1>1
  <2>2. QED
    BY <1>1, <2>1
<1>4. n * k \in Int
  BY <1>1
<1>5. QED
  BY <1>1, <1>2, <1>3, <1>4, IsAlso

LEMMA OverIs ==
  ASSUME NEW q, NEW n, NEW d, Is(q, n, d), NEW k \in Nat \ {0}
  PROVE  Is(Over(q, k), n, d * k)
<1> DEFINE a == q[1]
           b == q[2]
<1>1. a \in Int /\ b \in Nat \ {0} /\ n \in Int /\ d \in Nat \ {0} /\ a * d = n * b
  BY DEF Is, Frac
<1>2. Is(Over(q, k), a, b * k)
  <2>1. b * k \in Nat \ {0}
    BY <1>1, PositiveProduct
  <2>2. QED
    BY <1>1, <2>1, FractionIs DEF Over
<1> HIDE DEF a, b
<1>3. a * (d * k) = n * (b * k)
  <2>1. a * (d * k) = (a * d) * k /\ (n * b) * k = n * (b * k)
    BY <1>1
  <2>2. QED
    BY <1>1, <2>1
<1>4. d * k \in Nat \ {0}
  BY <1>1, PositiveProduct
<1>5. QED
  BY <1>1, <1>2, <1>3, <1>4, IsAlso

(* A sum over a common denominator, and a sum that is whole.                *)
LEMMA PlusIs ==
  ASSUME NEW p, NEW q, NEW n, NEW m, NEW d, Is(p, n, d), Is(q, m, d)
  PROVE  /\ Is(Plus(p, q), n + m, d)
         /\ \A w \in Int : n + m = w * d => Plus(p, q) = Whole(w)
<1> DEFINE a == p[1]
           b == p[2]
           e == q[1]
           f == q[2]
           x == a * f + e * b
           y == b * f
<1>1. /\ a \in Int /\ b \in Nat \ {0} /\ n \in Int /\ d \in Nat \ {0} /\ a * d = n * b
      /\ e \in Int /\ f \in Nat \ {0} /\ m \in Int /\ e * d = m * f
  BY DEF Is, Frac
<1>2. Plus(p, q) = Fraction(x, y)
  BY DEF Plus
<1> HIDE DEF a, b, e, f
<1>3. x \in Int /\ y \in Nat \ {0}
  BY <1>1, PositiveProduct
<1>4. x * d = (n + m) * y
  <2>1. x * d = (a * d) * f + (e * d) * b
    BY <1>1
  <2>2. (n + m) * y = (n * b) * f + (m * f) * b
    BY <1>1
  <2>3. QED
    BY <1>1, <2>1, <2>2
<1> HIDE DEF x, y
<1>5. Is(Plus(p, q), n + m, d)
  BY <1>1, <1>2, <1>3, <1>4, FractionIs, IsAlso
<1>6. ASSUME NEW w \in Int, n + m = w * d PROVE Plus(p, q) = Whole(w)
  <2>1. (n + m) * y = (w * y) * d /\ w * y \in Int
    BY <1>1, <1>3, <1>6
  <2>2. x = w * y
    BY <1>1, <1>3, <1>4, <2>1, Cancel
  <2>3. QED
    BY <1>2, <1>3, <2>2, FractionWhole
<1>7. QED
  BY <1>5, <1>6

LEMMA MinusIs ==
  ASSUME NEW p, NEW q, NEW n, NEW m, NEW d, Is(p, n, d), Is(q, m, d)
  PROVE  Is(Minus(p, q), n - m, d)
<1>1. n \in Int /\ m \in Int /\ -1 \in Int
  BY DEF Is
<1>2. Is(Times(q, -1), m * (-1), d)
  BY <1>1, TimesIs
<1>3. Is(Minus(p, q), n + m * (-1), d)
  BY <1>2, PlusIs DEF Minus
<1>4. n + m * (-1) = n - m
  BY <1>1
<1>5. QED
  BY <1>3, <1>4

(* Comparison with a whole number.                                          *)
LEMMA AtMostIs ==
  ASSUME NEW q, NEW n, NEW d, Is(q, n, d), NEW p \in Int
  PROVE  /\ AtMost(Whole(p), q) <=> p * d <= n
         /\ AtMost(q, Whole(p)) <=> n <= p * d
<1> DEFINE a == q[1]
           b == q[2]
<1>1. a \in Int /\ b \in Nat \ {0} /\ n \in Int /\ d \in Nat \ {0} /\ a * d = n * b
  BY DEF Is, Frac
<1>2. /\ AtMost(Whole(p), q) <=> p * b <= a
      /\ AtMost(q, Whole(p)) <=> a <= p * b
  BY <1>1 DEF AtMost, Whole
<1> HIDE DEF a, b
<1>3. p * b \in Int /\ p * d \in Int /\ (p * b) * d = (p * d) * b
  BY <1>1
<1>4. \A x, y \in Int, k \in Nat \ {0} : x <= y <=> x * k <= y * k
  OBVIOUS
<1>5. (p * b <= a <=> (p * b) * d <= a * d) /\ (p * d <= n <=> (p * d) * b <= n * b)
  BY <1>1, <1>3, <1>4
<1>6. (a <= p * b <=> a * d <= (p * b) * d) /\ (n <= p * d <=> n * b <= (p * d) * b)
  BY <1>1, <1>3, <1>4
<1>7. QED
  BY <1>1, <1>2, <1>3, <1>5, <1>6

-----------------------------------------------------------------------------
(* What a fill does to the average and the profit of its instrument: their  *)
(* balance, profit less the price paid for the position, loses what the     *)
(* fill costs.                                                              *)
Balance(q, average, realized, spent) ==
  /\ q = 0 => average = Zero
  /\ \E d \in Nat \ {0}, n, m \in Int :
       /\ Is(average, n, d) /\ Is(realized, m, d)
       /\ m - n * q = -(spent * d)

LEMMA SameSide ==
  ASSUME NEW old \in Int, NEW delta \in Int \ {0}, Opens(old, delta)
  PROVE  \E s \in {1, -1} : /\ old = s * Magnitude(old) /\ delta = s * Magnitude(delta)
                            /\ old + delta = s * Magnitude(old + delta)
                            /\ Magnitude(old + delta) = Magnitude(old) + Magnitude(delta)
<1>1. \/ old >= 0 /\ delta > 0
      \/ old <= 0 /\ delta < 0
  <2>1. old > 0 /\ delta < 0 => old * delta < 0
    OBVIOUS
  <2>2. old < 0 /\ delta > 0 => old * delta < 0
    OBVIOUS
  <2>3. QED
    BY <2>1, <2>2 DEF Opens
<1>2. CASE old >= 0 /\ delta > 0
  <2>1. Magnitude(old) = old /\ Magnitude(delta) = delta /\ Magnitude(old + delta) = old + delta
    BY <1>2 DEF Magnitude
  <2>2. QED
    BY <2>1
<1>3. CASE old <= 0 /\ delta < 0
  <2>1. Magnitude(old) = -old /\ Magnitude(delta) = -delta
        /\ Magnitude(old + delta) = -(old + delta)
    BY <1>3 DEF Magnitude
  <2>2. QED
    BY <2>1
<1>4. QED
  BY <1>1, <1>2, <1>3

LEMMA MagnitudeType ==
  ASSUME NEW q \in Int
  PROVE  Magnitude(q) \in Nat /\ (q # 0 => Magnitude(q) # 0)
  BY DEF Magnitude

LEMMA MeanIs ==
  ASSUME NEW old \in Int, NEW delta \in Int \ {0}, NEW price \in Nat \ {0},
         Magnitude(old + delta) # 0,
         NEW average, NEW n, NEW d, Is(average, n, d)
  PROVE  Is(MeanPrice(old, average, delta, price),
            n * Magnitude(old) + (Magnitude(delta) * price) * d, d * Magnitude(old + delta))
<1> DEFINE X == Magnitude(old)
           Y == Magnitude(delta)
           M == Magnitude(old + delta)
<1>1. X \in Int /\ Y * price \in Int /\ M \in Nat \ {0} /\ d \in Nat \ {0}
  <2>1. old + delta \in Int
    OBVIOUS
  <2>2. QED
    BY <2>1, MagnitudeType DEF Is
<1>2. MeanPrice(old, average, delta, price) = Over(Plus(Times(average, X), Whole(Y * price)), M)
  BY DEF MeanPrice
<1> HIDE DEF X, Y, M
<1>3. Is(Times(average, X), n * X, d)
  BY <1>1, TimesIs
<1>4. Is(Whole(Y * price), (Y * price) * d, d)
  BY <1>1, WholeIs
<1>5. Is(Plus(Times(average, X), Whole(Y * price)), n * X + (Y * price) * d, d)
  BY <1>3, <1>4, PlusIs
<1>6. Is(Over(Plus(Times(average, X), Whole(Y * price)), M), n * X + (Y * price) * d, d * M)
  BY <1>1, <1>5, OverIs
<1>7. QED
  BY <1>2, <1>6 DEF X, Y, M

(* A fill that adds to the position.                                        *)
LEMMA OpeningBalance ==
  ASSUME NEW old \in Int, NEW delta \in Int \ {0}, NEW price \in Nat \ {0}, NEW spent \in Int,
         NEW average, NEW realized, Balance(old, average, realized, spent), Opens(old, delta)
  PROVE  Balance(old + delta, MeanPrice(old, average, delta, price), realized,
                 spent + delta * price)
<1>1. PICK d \in Nat \ {0}, n \in Int, m \in Int :
        Is(average, n, d) /\ Is(realized, m, d) /\ m - n * old = -(spent * d)
  BY DEF Balance
<1> DEFINE X == Magnitude(old)
           Y == Magnitude(delta)
           M == Magnitude(old + delta)
           N == n * X + (Y * price) * d
<1>2. PICK s \in {1, -1} : old = s * X /\ delta = s * Y /\ old + delta = s * M /\ M = X + Y
  BY SameSide
<1>3. X \in Nat /\ Y \in Nat \ {0} /\ M \in Nat \ {0}
  BY <1>2, MagnitudeType
<1>4. Is(MeanPrice(old, average, delta, price), N, d * M)
  BY <1>1, <1>3, MeanIs
<1> HIDE DEF X, Y, M
<1>5. Is(realized, m * M, d * M)
  BY <1>1, <1>3, IsScaled
<1>6. N \in Int /\ m * M \in Int /\ d * M \in Nat \ {0}
  BY <1>1, <1>3, PositiveProduct
<1>7. m * M - N * (old + delta) = -((spent + delta * price) * (d * M))
  <2>1. m * M - N * (s * M) = (m - n * (s * X)) * M - (s * Y) * price * d * M
    BY <1>1, <1>2, <1>3
  <2>2. (m - n * (s * X)) * M = (-(spent * d)) * M
    BY <1>1, <1>2
  <2>3. (-(spent * d)) * M - delta * price * d * M = -((spent + delta * price) * (d * M))
    BY <1>1, <1>3
  <2>4. QED
    BY <1>2, <2>1, <2>2, <2>3
<1>8. old + delta # 0
  BY <1>2, <1>3
<1> HIDE DEF N
<1>9. QED
  BY <1>4, <1>5, <1>6, <1>7, <1>8 DEF Balance

(* A fill that reduces the position, closes it or turns it round.  Of the   *)
(* position, k is what it closes, with its sign.                            *)
Closed(old, delta) ==
  IF old + delta = 0 \/ old * (old + delta) < 0 THEN old ELSE -delta

LEMMA ClosedIs ==
  ASSUME NEW old \in Int, NEW delta \in Int \ {0}, ~Opens(old, delta)
  PROVE  LET c == IF Magnitude(old) < Magnitude(delta) THEN Magnitude(old) ELSE Magnitude(delta)
         IN  /\ c \in Nat
             /\ Closed(old, delta) = IF old > 0 THEN c ELSE -c
<1>1. \/ old > 0 /\ delta < 0
      \/ old < 0 /\ delta > 0
  <2>1. old > 0 /\ delta > 0 => old * delta > 0
    OBVIOUS
  <2>2. old < 0 /\ delta < 0 => old * delta > 0
    OBVIOUS
  <2>3. QED
    BY <2>1, <2>2 DEF Opens
<1> DEFINE new == old + delta
<1>2. new \in Int /\ new = old + delta
  OBVIOUS
<1> HIDE DEF new
<1>3. (old > 0 /\ new < 0 => old * new < 0) /\ (old < 0 /\ new > 0 => old * new < 0)
      /\ (old > 0 /\ new > 0 => old * new > 0) /\ (old < 0 /\ new < 0 => old * new > 0)
  BY <1>2
<1>4. CASE old > 0 /\ delta < 0
  <2>1. Closed(old, delta) = IF new <= 0 THEN old ELSE -delta
    BY <1>2, <1>3, <1>4 DEF Closed, new
  <2>2. QED
    BY <1>2, <1>4, <2>1 DEF Magnitude
<1>5. CASE old < 0 /\ delta > 0
  <2>1. Closed(old, delta) = IF new >= 0 THEN old ELSE -delta
    BY <1>2, <1>3, <1>5 DEF Closed, new
  <2>2. QED
    BY <1>2, <1>5, <2>1 DEF Magnitude
<1>6. QED
  BY <1>1, <1>4, <1>5

LEMMA RealizedIs ==
  ASSUME NEW old \in Int, NEW delta \in Int \ {0}, NEW price \in Nat \ {0}, ~Opens(old, delta),
         NEW average, NEW realized, NEW d, NEW n, NEW m, Is(average, n, d), Is(realized, m, d)
  PROVE  Is(RealizedAfter(old, average, delta, price, realized),
            m + (price * d - n) * Closed(old, delta), d)
<1> DEFINE c    == IF Magnitude(old) < Magnitude(delta) THEN Magnitude(old) ELSE Magnitude(delta)
           gain == Times(Minus(Whole(price), average), c)
           term == IF old > 0 THEN gain ELSE Times(gain, -1)
           x    == price * d - n
           k    == Closed(old, delta)
<1>1. RealizedAfter(old, average, delta, price, realized) = Plus(realized, term)
  BY DEF RealizedAfter
<1>2. c \in Nat /\ k = IF old > 0 THEN c ELSE -c
  BY ClosedIs
<1> HIDE DEF c, k
<1>3. d \in Nat \ {0} /\ n \in Int /\ m \in Int /\ price \in Int /\ x \in Int /\ c \in Int /\ -1 \in Int
  BY <1>2 DEF Is
<1>4. Is(Minus(Whole(price), average), x, d)
  <2>1. Is(Whole(price), price * d, d)
    BY <1>3, WholeIs
  <2>2. QED
    BY <2>1, MinusIs
<1> HIDE DEF x
<1>5. Is(gain, x * c, d)
  BY <1>3, <1>4, TimesIs
<1> HIDE DEF gain
<1>6. Is(term, x * k, d)
  <2>1. CASE old > 0
    BY <1>2, <1>5, <2>1
  <2>2. CASE ~(old > 0)
    <3>1. Is(Times(gain, -1), (x * c) * (-1), d)
      BY <1>3, <1>5, TimesIs
    <3>2. (x * c) * (-1) = x * (-c)
      BY <1>3
    <3>3. QED
      BY <1>2, <2>2, <3>1, <3>2
  <2>3. QED
    BY <2>1, <2>2
<1> HIDE DEF term
<1>7. QED
  BY <1>1, <1>6, PlusIs DEF x, k

LEMMA ClosingBalance ==
  ASSUME NEW old \in Int, NEW delta \in Int \ {0}, NEW price \in Nat \ {0}, NEW spent \in Int,
         NEW average, NEW realized, Balance(old, average, realized, spent), ~Opens(old, delta)
  PROVE  Balance(old + delta, AverageAfter(old, average, delta, price),
                 RealizedAfter(old, average, delta, price, realized), spent + delta * price)
<1>1. PICK d \in Nat \ {0}, n \in Int, m \in Int :
        Is(average, n, d) /\ Is(realized, m, d) /\ m - n * old = -(spent * d)
  BY DEF Balance
<1> DEFINE k  == Closed(old, delta)
           m2 == m + (price * d - n) * k
           r  == RealizedAfter(old, average, delta, price, realized)
           a  == AverageAfter(old, average, delta, price)
<1>2. Is(r, m2, d)
  BY <1>1, RealizedIs
<1>3. SUFFICES \E n2 \in Int :
        /\ old + delta = 0 => a = Zero
        /\ Is(a, n2, d)
        /\ m2 - n2 * (old + delta) = -((spent + delta * price) * d)
  <2> DEFINE new  == old + delta
             cost == spent + delta * price
  <2>1. m2 \in Int
    BY <1>2 DEF Is
  <2> HIDE DEF a, r, m2, new, cost
  <2>2. PICK n2 \in Int : (new = 0 => a = Zero) /\ Is(a, n2, d) /\ m2 - n2 * new = -(cost * d)
    BY <1>3 DEF new, cost
  <2>3. Balance(new, a, r, cost)
    BY <1>2, <2>1, <2>2 DEF Balance
  <2>4. QED
    BY <2>3 DEF a, r, new, cost
<1>4. CASE old + delta = 0
  <2>1. a = Zero /\ k = old /\ delta = -old
    BY <1>4 DEF AverageAfter, Closed
  <2>2. Is(a, 0, d)
    BY <2>1, WholeIs DEF Zero
  <2>3. m2 = (m - n * old) + price * d * old
    BY <2>1
  <2>4. m2 - 0 * (old + delta) = -((spent + delta * price) * d)
    BY <1>1, <2>1, <2>3
  <2>5. QED
    BY <2>1, <2>2, <2>4
<1>5. CASE old + delta # 0 /\ old * (old + delta) < 0
  <2>1. a = Whole(price) /\ k = old
    BY <1>5 DEF AverageAfter, Closed
  <2>2. Is(a, price * d, d) /\ price * d \in Int
    BY <2>1, WholeIs
  <2>3. m2 - (price * d) * (old + delta) = (m - n * old) - price * d * delta
    BY <2>1
  <2>4. m2 - (price * d) * (old + delta) = -((spent + delta * price) * d)
    BY <1>1, <2>3
  <2>5. QED
    BY <1>5, <2>2, <2>4
<1>6. CASE old + delta # 0 /\ ~(old * (old + delta) < 0)
  <2>1. a = average /\ k = -delta
    BY <1>6 DEF AverageAfter, Closed
  <2>2. m2 - n * (old + delta) = (m - n * old) - price * d * delta
    BY <2>1
  <2>3. m2 - n * (old + delta) = -((spent + delta * price) * d)
    BY <1>1, <2>2
  <2>4. QED
    BY <1>1, <1>6, <2>1, <2>3
<1>7. QED
  BY <1>4, <1>5, <1>6

(* The average stays between the prices of the fills that opened it.        *)
LEMMA MeanBetween ==
  ASSUME NEW old \in Int, NEW delta \in Int \ {0}, NEW price \in Nat \ {0}, Opens(old, delta),
         NEW average, NEW realized, NEW spent, Balance(old, average, realized, spent),
         NEW low \in Int, NEW high \in Int,
         old # 0 => AtMost(Whole(low), average) /\ AtMost(average, Whole(high))
  PROVE  LET mean == MeanPrice(old, average, delta, price)
         IN  /\ \/ AtMost(Whole(price), mean)
                \/ old # 0 /\ AtMost(Whole(low), mean)
             /\ \/ AtMost(mean, Whole(price))
                \/ old # 0 /\ AtMost(mean, Whole(high))
<1>1. PICK d \in Nat \ {0}, n \in Int : Is(average, n, d)
  BY DEF Balance
<1> DEFINE X == Magnitude(old)
           Y == Magnitude(delta)
           M == Magnitude(old + delta)
           N == n * X + (Y * price) * d
           D == d * M
           mean == MeanPrice(old, average, delta, price)
<1>2. M = X + Y /\ X \in Nat /\ Y \in Nat \ {0} /\ M \in Nat \ {0}
  BY SameSide, MagnitudeType
<1>3. old = 0 => X = 0
  BY DEF Magnitude
<1>4. Is(mean, N, D)
  BY <1>1, <1>2, MeanIs
<1> HIDE DEF X, Y, M, mean
<1>5. old # 0 => low * d <= n /\ n <= high * d
  BY <1>1, AtMostIs
<1>6. N \in Int /\ D \in Int
  BY <1>2
<1>7. \A a, b \in Int, k \in Nat : a <= b => a * k <= b * k
  OBVIOUS
<1>8. \A p \in Int : p * D = (p * d) * X + (p * d) * Y
  BY <1>1, <1>2
<1>9. (Y * price) * d = (price * d) * Y
  BY <1>1, <1>2
<1>10. price * D <= N \/ (old # 0 /\ low * D <= N)
  <2>1. CASE old = 0
    <3>1. N = (price * d) * Y /\ price * D = (price * d) * Y
      BY <1>2, <1>3, <1>8, <1>9, <2>1
    <3>2. QED
      BY <1>6, <3>1
  <2>2. CASE old # 0 /\ low <= price
    <3>1. low * d <= price * d
      BY <1>7, <2>2
    <3>2. (low * d) * X <= n * X /\ (low * d) * Y <= (price * d) * Y
      BY <1>2, <1>5, <1>7, <2>2, <3>1
    <3>3. QED
      BY <1>2, <1>8, <1>9, <2>2, <3>2
  <2>3. CASE old # 0 /\ price < low
    <3>1. price * d <= low * d
      BY <1>7, <2>3
    <3>2. price * d <= n
      BY <1>1, <1>5, <2>3, <3>1
    <3>3. (price * d) * X <= n * X
      BY <1>2, <1>7, <3>2
    <3>4. QED
      BY <1>2, <1>8, <1>9, <3>3
  <2>4. QED
    BY <2>1, <2>2, <2>3
<1>11. N <= price * D \/ (old # 0 /\ N <= high * D)
  <2>1. CASE old = 0
    <3>1. N = (price * d) * Y /\ price * D = (price * d) * Y
      BY <1>2, <1>3, <1>8, <1>9, <2>1
    <3>2. QED
      BY <1>6, <3>1
  <2>2. CASE old # 0 /\ price <= high
    <3>1. price * d <= high * d
      BY <1>7, <2>2
    <3>2. n * X <= (high * d) * X /\ (price * d) * Y <= (high * d) * Y
      BY <1>2, <1>5, <1>7, <2>2, <3>1
    <3>3. QED
      BY <1>2, <1>8, <1>9, <2>2, <3>2
  <2>3. CASE old # 0 /\ high < price
    <3>1. high * d <= price * d
      BY <1>7, <2>3
    <3>2. n <= price * d
      BY <1>1, <1>5, <2>3, <3>1
    <3>3. n * X <= (price * d) * X
      BY <1>2, <1>7, <3>2
    <3>4. QED
      BY <1>2, <1>8, <1>9, <3>3
  <2>4. QED
    BY <2>1, <2>2, <2>3
<1> HIDE DEF N, D
<1>12. QED
  BY <1>4, <1>10, <1>11, AtMostIs DEF mean

-----------------------------------------------------------------------------
(* Sums over the fills of some instruments, and what one more fill adds.    *)
Chosen(fs, I)       == {k \in DOMAIN fs : fs[k].instrument_id \in I}
Terms(fs, value, I) == [j \in Chosen(fs, I) |-> value[fs[j]]]
Tally(fs, value, I) == SumFunction(Terms(fs, value, I))

FeeOf    == [f \in Fill |-> f.fee]
AmountOf == [f \in Fill |-> Signed(f.side, f.quantity)]
CostOf   == [f \in Fill |-> Signed(f.side, f.quantity * f.price)]

LEMMA ValuesType ==
  FeeOf \in [Fill -> Int] /\ AmountOf \in [Fill -> Int] /\ CostOf \in [Fill -> Int]
<1>1. ASSUME NEW f \in Fill
      PROVE  f.fee \in Int /\ Signed(f.side, f.quantity) \in Int
             /\ Signed(f.side, f.quantity * f.price) \in Int
  <2>1. f.quantity \in Int /\ f.price \in Int /\ f.fee \in Int
    BY DEF Fill
  <2>2. f.quantity * f.price \in Int
    BY <2>1
  <2>3. QED
    BY <2>1, <2>2 DEF Signed
<1>2. QED
  BY <1>1 DEF FeeOf, AmountOf, CostOf

LEMMA TermsType ==
  ASSUME NEW fs \in Seq(Fill), NEW value \in [Fill -> Int], NEW I
  PROVE  /\ IsFiniteSet(Chosen(fs, I))
         /\ Terms(fs, value, I) \in [Chosen(fs, I) -> Int]
         /\ Tally(fs, value, I) \in Int
<1>1. Len(fs) \in Nat /\ DOMAIN fs = 1 .. Len(fs) /\ \A j \in DOMAIN fs : fs[j] \in Fill
  BY LenProperties, ElementOfSeq
<1>2. IsFiniteSet(Chosen(fs, I))
  <2>1. IsFiniteSet(1 .. Len(fs))
    BY <1>1, FS_Interval
  <2>2. Chosen(fs, I) \in SUBSET (1 .. Len(fs))
    BY <1>1 DEF Chosen
  <2>3. QED
    BY <2>1, <2>2, FS_Subset
<1>3. Terms(fs, value, I) \in [Chosen(fs, I) -> Int]
  BY <1>1 DEF Terms, Chosen
<1>4. QED
  BY <1>2, <1>3, SumType DEF Tally

LEMMA TallyAppend ==
  ASSUME NEW fs \in Seq(Fill), NEW f \in Fill, NEW value \in [Fill -> Int], NEW I
  PROVE  Tally(Append(fs, f), value, I) =
           Tally(fs, value, I) + (IF f.instrument_id \in I THEN value[f] ELSE 0)
<1> DEFINE n      == Len(fs) + 1
           more   == Append(fs, f)
           A      == Chosen(fs, I)
           before == Terms(fs, value, I)
           after  == Terms(more, value, I)
<1>1. /\ Len(fs) \in Nat /\ DOMAIN fs = 1 .. Len(fs) /\ DOMAIN more = 1 .. n
      /\ more[n] = f /\ \A j \in 1 .. Len(fs) : more[j] = fs[j]
  BY AppendProperties, LenProperties
<1>2. \A j \in DOMAIN fs : fs[j] \in Fill
  BY ElementOfSeq
<1>3. IsFiniteSet(A) /\ before \in [A -> Int] /\ Tally(fs, value, I) \in Int
  BY TermsType
<1> HIDE DEF more
<1>4. CASE f.instrument_id \in I
  <2>1. Chosen(more, I) = A \cup {n} /\ n \notin A
    BY <1>1, <1>4 DEF Chosen
  <2>2. OneMore(A, n, before, after) /\ after[n] = value[f]
    BY <1>1, <1>2, <1>3, <2>1 DEF OneMore, Terms, Chosen
  <2> HIDE DEF A, before, after, n
  <2>3. SumFunction(after) = SumFunction(before) + after[n]
    BY <2>2, SumOneMore
  <2>4. QED
    BY <1>4, <2>2, <2>3 DEF Tally, more, before, after
<1>5. CASE f.instrument_id \notin I
  <2>1. Chosen(more, I) = A
    BY <1>1, <1>5 DEF Chosen
  <2>2. after = before
    BY <1>1, <2>1 DEF Terms, Chosen
  <2> HIDE DEF A
  <2>3. QED
    BY <1>3, <1>5, <2>2 DEF Tally, more
<1>6. QED
  BY <1>4, <1>5

LEMMA TalliesAre ==
  ASSUME NEW fs \in Seq(Fill)
  PROVE  /\ SumFunction([j \in DOMAIN fs |-> fs[j].fee]) = Tally(fs, FeeOf, Instruments)
         /\ \A i \in Instruments :
              LET S == {j \in DOMAIN fs : fs[j].instrument_id = i}
              IN  /\ SumFunction([j \in S |-> Signed(fs[j].side, fs[j].quantity)])
                       = Tally(fs, AmountOf, {i})
                  /\ SumFunction([j \in S |-> Signed(fs[j].side, fs[j].quantity * fs[j].price)])
                       = Tally(fs, CostOf, {i})
<1>1. \A j \in DOMAIN fs : fs[j] \in Fill /\ fs[j].instrument_id \in Instruments
  <2>1. \A j \in DOMAIN fs : fs[j] \in Fill
    BY ElementOfSeq
  <2>2. \A f \in Fill : f.instrument_id \in Instruments
    BY DEF Fill
  <2>3. QED
    BY <2>1, <2>2
<1>2. {j \in DOMAIN fs : fs[j].instrument_id \in Instruments} = DOMAIN fs
  BY <1>1
<1>3. [j \in DOMAIN fs |-> FeeOf[fs[j]]] = [j \in DOMAIN fs |-> fs[j].fee]
  BY <1>1 DEF FeeOf
<1>4. ASSUME NEW i \in Instruments
      PROVE  LET S == {j \in DOMAIN fs : fs[j].instrument_id = i}
             IN  /\ SumFunction([j \in S |-> Signed(fs[j].side, fs[j].quantity)])
                      = Tally(fs, AmountOf, {i})
                 /\ SumFunction([j \in S |-> Signed(fs[j].side, fs[j].quantity * fs[j].price)])
                      = Tally(fs, CostOf, {i})
  <2> DEFINE S == {j \in DOMAIN fs : fs[j].instrument_id = i}
  <2>1. {j \in DOMAIN fs : fs[j].instrument_id \in {i}} = S
    OBVIOUS
  <2>2. [j \in S |-> AmountOf[fs[j]]] = [j \in S |-> Signed(fs[j].side, fs[j].quantity)]
    BY <1>1 DEF AmountOf
  <2>3. [j \in S |-> CostOf[fs[j]]] = [j \in S |-> Signed(fs[j].side, fs[j].quantity * fs[j].price)]
    BY <1>1 DEF CostOf
  <2>4. QED
    BY <2>1, <2>2, <2>3 DEF Tally, Terms, Chosen
<1>5. QED
  BY <1>2, <1>3, <1>4 DEF Tally, Terms, Chosen

LEMMA SumsType ==
  ASSUME fills \in Seq(Fill)
  PROVE  FeesPaid \in Int /\ \A i \in Instruments : Bought(i) \in Int /\ Spent(i) \in Int
<1>1. FeesPaid = Tally(fills, FeeOf, Instruments)
  BY TalliesAre DEF FeesPaid
<1>2. \A i \in Instruments :
         Bought(i) = Tally(fills, AmountOf, {i}) /\ Spent(i) = Tally(fills, CostOf, {i})
  BY TalliesAre DEF Bought, Spent, FillsOf
<1>3. QED
  BY <1>1, <1>2, TermsType, ValuesType

LEMMA FillAdds ==
  ASSUME fills \in Seq(Fill), NEW f \in Fill, fills' = Append(fills, f)
  PROVE  /\ FeesPaid' = FeesPaid + f.fee
         /\ \A i \in Instruments :
              IF f.instrument_id = i
              THEN /\ Bought(i)' = Bought(i) + Signed(f.side, f.quantity)
                   /\ Spent(i)' = Spent(i) + Signed(f.side, f.quantity * f.price)
              ELSE Bought(i)' = Bought(i) /\ Spent(i)' = Spent(i)
<1>1. fills' \in Seq(Fill)
  BY AppendProperties
<1>2. /\ FeesPaid = Tally(fills, FeeOf, Instruments)
      /\ \A i \in Instruments :
           Bought(i) = Tally(fills, AmountOf, {i}) /\ Spent(i) = Tally(fills, CostOf, {i})
  BY TalliesAre DEF FeesPaid, Bought, Spent, FillsOf
<1>3. /\ FeesPaid' = Tally(fills', FeeOf, Instruments)
      /\ \A i \in Instruments :
           Bought(i)' = Tally(fills', AmountOf, {i}) /\ Spent(i)' = Tally(fills', CostOf, {i})
  BY <1>1, TalliesAre DEF FeesPaid, Bought, Spent, FillsOf
<1>4. \A I : \A value \in [Fill -> Int] :
        Tally(fills', value, I) =
          Tally(fills, value, I) + (IF f.instrument_id \in I THEN value[f] ELSE 0)
  BY TallyAppend
<1>5. /\ f.instrument_id \in Instruments /\ FeeOf[f] = f.fee
      /\ AmountOf[f] = Signed(f.side, f.quantity)
      /\ CostOf[f] = Signed(f.side, f.quantity * f.price)
  <2>1. f.instrument_id \in Instruments
    BY DEF Fill
  <2>2. QED
    BY <2>1 DEF FeeOf, AmountOf, CostOf
<1>6. FeesPaid' = FeesPaid + f.fee
  BY <1>2, <1>3, <1>4, <1>5, ValuesType
<1>7. ASSUME NEW i \in Instruments
      PROVE  /\ Bought(i)' = Bought(i) + (IF f.instrument_id = i THEN AmountOf[f] ELSE 0)
             /\ Spent(i)' = Spent(i) + (IF f.instrument_id = i THEN CostOf[f] ELSE 0)
  <2>1. \A value \in [Fill -> Int] :
          Tally(fills', value, {i}) =
            Tally(fills, value, {i}) + (IF f.instrument_id = i THEN value[f] ELSE 0)
    BY <1>4
  <2>2. Tally(fills', AmountOf, {i}) =
          Tally(fills, AmountOf, {i}) + (IF f.instrument_id = i THEN AmountOf[f] ELSE 0)
    BY <2>1, ValuesType
  <2>3. Tally(fills', CostOf, {i}) =
          Tally(fills, CostOf, {i}) + (IF f.instrument_id = i THEN CostOf[f] ELSE 0)
    BY <2>1, ValuesType
  <2>4. QED
    BY <1>2, <1>3, <2>2, <2>3
<1>8. ASSUME NEW i \in Instruments
      PROVE  Bought(i) \in Int /\ Spent(i) \in Int
  BY SumsType
<1>9. QED
  BY <1>5, <1>6, <1>7, <1>8

-----------------------------------------------------------------------------
(* The invariant.  BalanceInv: the profit of an instrument, less the price  *)
(* paid for its position at the average, is what its fills have brought in. *)
BooksType ==
  average_prices \in [Instruments -> Frac] /\ realized_pnl \in [Instruments -> Frac]

BalanceInv ==
  \A i \in Instruments :
    Balance(quantities[i], average_prices[i], realized_pnl[i], Spent(i))

(* _snapshot has added up the positions that it has passed, and the         *)
(* snapshot the strategy is shown is of this account at these marks.        *)
Worth(i) == quantities[i] * marks[i]

ValueInv ==
  phase = "value" =>
    market_value = FeeDen * SumFunction([i \in Instruments |->
                                           IF i \in unvalued THEN 0 ELSE Worth(i)])

SnapshotInv ==
  phase = "act" =>
    snapshot.equity = cash + FeeDen * SumFunction([i \in Instruments |-> Worth(i)])

MoneyInv ==
  /\ BooksType /\ BalanceInv /\ FillsExplainAccount /\ AverageWithinFills
  /\ ValueInv /\ SnapshotInv

LEMMA FlatBalance == Balance(0, Zero, Zero, 0)
<1>1. PICK d \in Nat \ {0}, n \in Int : d = 1 /\ n = 0
  OBVIOUS
<1>2. Is(Zero, n, d)
  <2>1. Is(Whole(0), 0 * d, d)
    BY WholeIs
  <2>2. 0 * d = n
    BY <1>1
  <2>3. QED
    BY <2>1, <2>2 DEF Zero
<1>3. n - n * 0 = -(0 * d)
  <2>1. n - n * 0 = 0
    BY <1>1
  <2>2. -(0 * d) = 0
    OBVIOUS
  <2>3. QED
    BY <2>1, <2>2
<1>4. QED
  BY <1>2, <1>3 DEF Balance

LEMMA BooksStart == BooksInit => MoneyInv
<1> SUFFICES ASSUME BooksInit PROVE MoneyInv
  OBVIOUS
<1> USE DEF BooksInit
<1>1. /\ fills = <<>> /\ DOMAIN fills = {} /\ phase = "validate"
      /\ cash = InitialCash * CashUnit /\ quantities = [i \in Instruments |-> 0]
  BY DEF Init
<1>2. FeesPaid = 0 /\ \A i \in Instruments : Bought(i) = 0 /\ Spent(i) = 0
  <2>1. \A g \in [{} -> Int] : SumFunction(g) = 0
    BY SumEmpty
  <2>2. [j \in DOMAIN fills |-> fills[j].fee] \in [{} -> Int]
    BY <1>1
  <2>3. ASSUME NEW i \in Instruments
        PROVE  /\ [j \in FillsOf(i) |-> Signed(fills[j].side, fills[j].quantity)] \in [{} -> Int]
               /\ [j \in FillsOf(i) |-> Signed(fills[j].side, fills[j].quantity * fills[j].price)]
                     \in [{} -> Int]
    <3>1. FillsOf(i) = {}
      BY <1>1 DEF FillsOf
    <3>2. QED
      BY <3>1
  <2>4. QED
    BY <2>1, <2>2, <2>3 DEF FeesPaid, Bought, Spent
<1>3. Zero \in Frac
  BY DEF Zero, Whole, Frac
<1>4. BooksType
  BY <1>3 DEF InitBooks, BooksType
<1>5. BalanceInv
  BY <1>1, <1>2, FlatBalance DEF InitBooks, BalanceInv
<1>6. FillsExplainAccount
  <2>1. [i \in Instruments |-> Spent(i)] = [i \in Instruments |-> 0]
    BY <1>2
  <2>2. SumFunction([i \in Instruments |-> Spent(i)]) = 0
    BY <2>1, SumZeros, AccountAssumption
  <2>3. InitialCash * CashUnit \in Int /\ FeeDen \in Int
    BY ConstantsAssumption DEF CashUnit, PriceUnit
  <2>4. QED
    BY <1>1, <1>2, <2>2, <2>3 DEF FillsExplainAccount
<1>7. AverageWithinFills
  BY <1>1 DEF InitBooks, AverageWithinFills
<1>8. QED
  BY <1>1, <1>4, <1>5, <1>6, <1>7 DEF MoneyInv, ValueInv, SnapshotInv

(* A fill, as the account sees it.                                          *)
LEMMA FillIs ==
  ASSUME TypeInv, SettleFilled
  PROVE  \E f \in Fill :
           /\ fills' = Append(fills, f) /\ Last(fills') = f
           /\ f.instrument_id \in Instruments
           /\ quantities' = [quantities EXCEPT ![f.instrument_id] = @ + Signed(f.side, f.quantity)]
           /\ cash' = cash + CashDelta(f)
           /\ Signed(f.side, f.quantity) \in Int \ {0}
           /\ Signed(f.side, f.quantity * f.price) = Signed(f.side, f.quantity) * f.price
           /\ f.price \in Nat \ {0} /\ f.fee \in Nat
           /\ f.side = IF Signed(f.side, f.quantity) > 0 THEN "buy" ELSE "sell"
           /\ CashDelta(f) = -(FeeDen * (Signed(f.side, f.quantity) * f.price)) - f.fee
<1> DEFINE n == First(unsettled)
           o == pending[n]
           f == FillOf(n, o)
<1>1. /\ phase = "settle" /\ unsettled # {} /\ ~Satisfied(o)
      /\ fills' = Append(fills, f) /\ cash' = cash + CashDelta(f)
      /\ quantities' = [quantities EXCEPT ![o.instrument_id] = @ + Signed(f.side, f.quantity)]
  BY DEF SettleFilled
<1>2. n \in Nat /\ o \in Order
  BY <1>1, HeadOrder
<1>3. f \in Fill
  BY <1>1, <1>2, FillType
<1>4. f.instrument_id = o.instrument_id
  BY DEF FillOf
<1> HIDE DEF f
<1>5. f.side \in Side /\ f.quantity \in Nat \ {0} /\ f.price \in Nat \ {0} /\ f.fee \in Nat
      /\ f.instrument_id \in Instruments
  BY <1>3 DEF Fill
<1>6. fills \in Seq(Fill)
  BY DEF TypeInv, TypeOK
<1>7. Last(fills') = f
  BY <1>1, <1>3, <1>6, AppendProperties DEF Last
<1>8. Signed(f.side, f.quantity * f.price) = Signed(f.side, f.quantity) * f.price
  BY <1>5 DEF Signed
<1>9. /\ Signed(f.side, f.quantity) \in Int \ {0}
      /\ f.side = IF Signed(f.side, f.quantity) > 0 THEN "buy" ELSE "sell"
  BY <1>5 DEF Signed, Side
<1>10. CashDelta(f) = -(FeeDen * (Signed(f.side, f.quantity) * f.price)) - f.fee
  <2>1. FeeDen \in Int
    BY ConstantsAssumption
  <2>2. QED
    BY <1>5, <2>1 DEF CashDelta, Signed
<1>11. QED
  BY <1>1, <1>3, <1>4, <1>5, <1>7, <1>8, <1>9, <1>10

-----------------------------------------------------------------------------
(* The step that fills an order.                                          *)
(* Which side a position is on after a fill.                                *)
LEMMA SidesAre ==
  ASSUME NEW old \in Int, NEW delta \in Int \ {0}
  PROVE  /\ Opens(old, delta) =>
              /\ old + delta # 0 /\ (old + delta > 0 <=> delta > 0)
              /\ old # 0 => (old > 0 <=> delta > 0)
         /\ ~Opens(old, delta) /\ old * (old + delta) < 0 =>
              (old + delta > 0 <=> delta > 0)
         /\ ~Opens(old, delta) /\ ~(old * (old + delta) < 0) /\ old + delta # 0 =>
              old # 0 /\ (old + delta > 0 <=> old > 0)
<1>1. CASE old = 0
  BY <1>1 DEF Opens
<1>2. CASE old > 0 /\ delta > 0
  <2>1. old * delta > 0
    BY <1>2
  <2>2. QED
    BY <1>2, <2>1 DEF Opens
<1>3. CASE old < 0 /\ delta < 0
  <2>1. old * delta > 0
    <3>1. (-old) \in Nat \ {0} /\ (-delta) \in Nat \ {0}
      BY <1>3
    <3>2. (-old) * (-delta) \in Nat \ {0}
      BY <3>1, PositiveProduct
    <3>3. QED
      BY <3>2
  <2>2. QED
    BY <1>3, <2>1 DEF Opens
<1>4. CASE old > 0 /\ delta < 0
  <2>1. ~Opens(old, delta)
    <3>1. old * (-delta) \in Nat \ {0}
      BY <1>4, PositiveProduct
    <3>2. QED
      BY <1>4, <3>1 DEF Opens
  <2>2. old + delta > 0 => old * (old + delta) \in Nat \ {0}
    BY <1>4, PositiveProduct
  <2>3. old + delta < 0 => old * (-(old + delta)) \in Nat \ {0}
    BY <1>4, PositiveProduct
  <2>4. QED
    BY <1>4, <2>1, <2>2, <2>3
<1>5. CASE old < 0 /\ delta > 0
  <2>1. ~Opens(old, delta)
    <3>1. (-old) * delta \in Nat \ {0}
      BY <1>5, PositiveProduct
    <3>2. QED
      BY <1>5, <3>1 DEF Opens
  <2>2. old + delta > 0 => (-old) * (old + delta) \in Nat \ {0}
    BY <1>5, PositiveProduct
  <2>3. old + delta < 0 => (-old) * (-(old + delta)) \in Nat \ {0}
    BY <1>5, PositiveProduct
  <2>4. QED
    BY <1>5, <2>1, <2>2, <2>3
<1>6. QED
  BY <1>1, <1>2, <1>3, <1>4, <1>5

(* The average of the filled instrument stays between two of the prices.    *)
LEMMA FilledWithin ==
  ASSUME NEW old \in Int, NEW delta \in Int \ {0}, NEW price \in Nat \ {0},
         NEW average, NEW realized, NEW spent, Balance(old, average, realized, spent),
         NEW low \in Int, NEW high \in Int,
         old # 0 => AtMost(Whole(low), average) /\ AtMost(average, Whole(high)),
         old + delta # 0
  PROVE  LET new == AverageAfter(old, average, delta, price)
             Kept == old # 0 /\ (old + delta > 0 <=> old > 0)
             Added == old + delta > 0 <=> delta > 0
         IN  /\ \/ Added /\ AtMost(Whole(price), new)
                \/ Kept /\ AtMost(Whole(low), new)
             /\ \/ Added /\ AtMost(new, Whole(price))
                \/ Kept /\ AtMost(new, Whole(high))
<1>1. CASE Opens(old, delta)
  <2>1. AverageAfter(old, average, delta, price) = MeanPrice(old, average, delta, price)
    BY <1>1 DEF AverageAfter
  <2>2. QED
    BY <1>1, <2>1, MeanBetween, SidesAre
<1>2. CASE ~Opens(old, delta) /\ old * (old + delta) < 0
  <2>1. AverageAfter(old, average, delta, price) = Whole(price)
    BY <1>2 DEF AverageAfter
  <2>2. AtMost(Whole(price), Whole(price))
    BY DEF AtMost, Whole
  <2>3. QED
    BY <1>2, <2>1, <2>2, SidesAre
<1>3. CASE ~Opens(old, delta) /\ ~(old * (old + delta) < 0)
  <2>1. AverageAfter(old, average, delta, price) = average
    BY <1>3 DEF AverageAfter
  <2>2. QED
    BY <1>3, <2>1, SidesAre
<1>4. QED
  BY <1>1, <1>2, <1>3

LEMMA FilledBalance ==
  ASSUME NEW old \in Int, NEW delta \in Int \ {0}, NEW price \in Nat \ {0}, NEW spent \in Int,
         NEW average, NEW realized, Balance(old, average, realized, spent)
  PROVE  Balance(old + delta, AverageAfter(old, average, delta, price),
                 RealizedAfter(old, average, delta, price, realized), spent + delta * price)
<1>1. CASE Opens(old, delta)
  <2>1. /\ AverageAfter(old, average, delta, price) = MeanPrice(old, average, delta, price)
        /\ RealizedAfter(old, average, delta, price, realized) = realized
    BY <1>1 DEF AverageAfter, RealizedAfter
  <2>2. QED
    BY <1>1, <2>1, OpeningBalance
<1>2. QED
  BY <1>1, ClosingBalance

LEMMA FillStep ==
  ASSUME TypeInv, MoneyInv, SettleFilled, UpdatePosition(Last(fills'))
  PROVE  MoneyInv'
<1>1. PICK f \in Fill :
           /\ fills' = Append(fills, f) /\ Last(fills') = f
           /\ f.instrument_id \in Instruments
           /\ quantities' = [quantities EXCEPT ![f.instrument_id] = @ + Signed(f.side, f.quantity)]
           /\ cash' = cash + CashDelta(f)
           /\ Signed(f.side, f.quantity) \in Int \ {0}
           /\ Signed(f.side, f.quantity * f.price) = Signed(f.side, f.quantity) * f.price
           /\ f.price \in Nat \ {0} /\ f.fee \in Nat
           /\ f.side = IF Signed(f.side, f.quantity) > 0 THEN "buy" ELSE "sell"
           /\ CashDelta(f) = -(FeeDen * (Signed(f.side, f.quantity) * f.price)) - f.fee
  BY FillIs
<1> DEFINE i       == f.instrument_id
           delta   == Signed(f.side, f.quantity)
           price   == f.price
           old     == quantities[i]
           average == average_prices[i]
           real    == realized_pnl[i]
           newAverage  == AverageAfter(old, average, delta, price)
           newRealized == RealizedAfter(old, average, delta, price, real)
<1>2. /\ average_prices' = [average_prices EXCEPT ![i] = newAverage]
      /\ realized_pnl' = [realized_pnl EXCEPT ![i] = newRealized]
  BY <1>1 DEF UpdatePosition
<1>3. /\ quantities \in [Instruments -> Int] /\ fills \in Seq(Fill) /\ cash \in Int
      /\ average_prices \in [Instruments -> Frac] /\ realized_pnl \in [Instruments -> Frac]
      /\ i \in Instruments /\ old \in Int /\ delta \in Int \ {0} /\ price \in Nat \ {0}
  BY <1>1 DEF TypeInv, TypeOK, MoneyInv, BooksType
<1>4. /\ FeesPaid' = FeesPaid + f.fee
      /\ \A j \in Instruments :
           IF i = j
           THEN Bought(j)' = Bought(j) + delta /\ Spent(j)' = Spent(j) + delta * price
           ELSE Bought(j)' = Bought(j) /\ Spent(j)' = Spent(j)
  BY <1>1, <1>3, FillAdds
<1>5. /\ FeesPaid \in Int
      /\ \A j \in Instruments : Bought(j) \in Int /\ Spent(j) \in Int
  BY <1>3, SumsType
<1>6. Balance(old, average, real, Spent(i))
  BY <1>3 DEF MoneyInv, BalanceInv
<1> HIDE DEF delta, price, old, average, real, newAverage, newRealized
<1>7. Balance(old + delta, newAverage, newRealized, Spent(i) + delta * price)
  BY <1>3, <1>5, <1>6, FilledBalance DEF newAverage, newRealized
<1>8. BooksType'
  <2>1. newAverage \in Frac /\ newRealized \in Frac
    BY <1>7 DEF Balance, Is
  <2>2. QED
    BY <1>2, <1>3, <2>1 DEF BooksType
<1>9. quantities' = [quantities EXCEPT ![i] = old + delta]
  BY <1>1 DEF old, delta
<1>10. BalanceInv'
  <2>1. ASSUME NEW j \in Instruments
        PROVE  Balance(quantities[j], average_prices[j], realized_pnl[j], Spent(j))'
    <3>1. CASE j = i
      BY <3>1, <1>2, <1>3, <1>4, <1>7, <1>9
    <3>2. CASE j # i
      <4>1. /\ quantities'[j] = quantities[j] /\ average_prices'[j] = average_prices[j]
            /\ realized_pnl'[j] = realized_pnl[j] /\ Spent(j)' = Spent(j)
        BY <3>2, <1>2, <1>3, <1>4, <1>9
      <4>2. Balance(quantities[j], average_prices[j], realized_pnl[j], Spent(j))
        BY DEF MoneyInv, BalanceInv
      <4>3. QED
        BY <4>1, <4>2
    <3>3. QED
      BY <3>1, <3>2
  <2>2. QED
    BY <2>1 DEF BalanceInv
<1>11. FillsExplainAccount'
  <2> DEFINE g == [j \in Instruments |-> Spent(j)]
             h == [j \in Instruments |-> Spent(j)']
             c == delta * price
  <2>1. SumFunction(h) = SumFunction(g) + c
    <3>1. OneChanged(Instruments, i, c, g, h)
      BY <1>3, <1>4, <1>5, AccountAssumption DEF OneChanged
    <3>2. QED
      BY <3>1, SumOneChanged
  <2>2. SumFunction(g) \in Int
    <3>1. g \in [Instruments -> Int]
      BY <1>5
    <3>2. QED
      BY <3>1, SumType, AccountAssumption
  <2>3. c \in Int /\ FeeDen \in Int /\ InitialCash * CashUnit \in Int /\ f.fee \in Int
    BY <1>1, <1>3, ConstantsAssumption DEF CashUnit, PriceUnit
  <2>4. cash' = cash - FeeDen * c - f.fee
    <3>1. cash' = cash + (-(FeeDen * c) - f.fee)
      BY <1>1 DEF delta, price
    <3>2. FeeDen * c \in Int
      BY <2>3
    <3>3. QED
      BY <1>3, <2>3, <3>1, <3>2
  <2> HIDE DEF c
  <2>5. cash = InitialCash * CashUnit - FeesPaid - FeeDen * SumFunction(g)
    BY DEF MoneyInv, FillsExplainAccount
  <2> HIDE DEF g, h
  <2>6. cash' = InitialCash * CashUnit - FeesPaid' - FeeDen * SumFunction(h)
    <3>1. FeeDen * SumFunction(h) = FeeDen * SumFunction(g) + FeeDen * c
      BY <2>1, <2>2, <2>3
    <3>2. FeeDen * SumFunction(g) \in Int /\ FeeDen * c \in Int
      BY <2>2, <2>3
    <3>3. QED
      BY <1>4, <1>5, <2>3, <2>4, <2>5, <3>1, <3>2
  <2>7. \A j \in Instruments : quantities'[j] = Bought(j)'
    <3>1. \A j \in Instruments : quantities[j] = Bought(j)
      BY DEF MoneyInv, FillsExplainAccount
    <3>2. QED
      BY <3>1, <1>3, <1>4, <1>5, <1>9 DEF old
  <2>8. QED
    BY <2>6, <2>7 DEF FillsExplainAccount, h
<1>12. AverageWithinFills'
  <2>1. /\ DOMAIN fills = 1 .. Len(fills) /\ Len(fills) \in Nat
        /\ DOMAIN fills' = 1 .. Len(fills) + 1
        /\ fills'[Len(fills) + 1] = f
        /\ \A k \in DOMAIN fills : k \in DOMAIN fills' /\ fills'[k] = fills[k]
    BY <1>1, <1>3, AppendProperties
  <2>2. ASSUME NEW j \in Instruments, quantities[j] > 0 <=> quantities'[j] > 0
        PROVE  \A k \in Opening(j) : k \in Opening(j)' /\ fills'[k] = fills[k]
    BY <2>1, <2>2 DEF Opening
  <2>3. ASSUME quantities'[i] > 0 <=> delta > 0
        PROVE  Len(fills) + 1 \in Opening(i)' /\ fills'[Len(fills) + 1].price = price
    BY <1>1, <2>1, <2>3 DEF Opening, delta, price
  <2>4. ASSUME NEW j \in Instruments, quantities[j] # 0
        PROVE  \E low, high \in Opening(j) :
                  /\ AtMost(Whole(fills[low].price), average_prices[j])
                  /\ AtMost(average_prices[j], Whole(fills[high].price))
    BY <2>4 DEF MoneyInv, AverageWithinFills
  <2>5. ASSUME NEW j \in Instruments, j # i
        PROVE  IF quantities'[j] = 0 THEN average_prices'[j] = Zero
               ELSE \E low, high \in Opening(j)' :
                      /\ AtMost(Whole(fills'[low].price), average_prices'[j])
                      /\ AtMost(average_prices'[j], Whole(fills'[high].price))
    <3>1. quantities'[j] = quantities[j] /\ average_prices'[j] = average_prices[j]
      BY <2>5, <1>2, <1>3, <1>9
    <3>2. CASE quantities[j] = 0
      BY <3>1, <3>2 DEF MoneyInv, AverageWithinFills
    <3>3. CASE quantities[j] # 0
      BY <3>1, <3>3, <2>2, <2>4
    <3>4. QED
      BY <3>2, <3>3
  <2>6. IF quantities'[i] = 0 THEN average_prices'[i] = Zero
        ELSE \E low, high \in Opening(i)' :
               /\ AtMost(Whole(fills'[low].price), average_prices'[i])
               /\ AtMost(average_prices'[i], Whole(fills'[high].price))
    <3>1. quantities'[i] = old + delta /\ average_prices'[i] = newAverage
      BY <1>2, <1>3, <1>9
    <3>2. CASE old + delta = 0
      BY <3>1, <3>2, <1>7 DEF Balance
    <3>3. CASE old + delta # 0
      <4>1. PICK low \in Int, high \in Int :
               old # 0 =>
                 /\ AtMost(Whole(low), average) /\ AtMost(average, Whole(high))
                 /\ \E l \in Opening(i) : fills[l].price = low
                 /\ \E l \in Opening(i) : fills[l].price = high
        <5>1. CASE old = 0
          BY <5>1
        <5>2. CASE old # 0
          <6>1. PICK l, k \in Opening(i) :
                   /\ AtMost(Whole(fills[l].price), average)
                   /\ AtMost(average, Whole(fills[k].price))
            BY <5>2, <2>4, <1>3 DEF old, average
          <6>2. fills[l].price \in Int /\ fills[k].price \in Int
            <7>1. l \in DOMAIN fills /\ k \in DOMAIN fills
              BY DEF Opening
            <7>2. fills[l] \in Fill /\ fills[k] \in Fill
              BY <7>1, <1>3, <2>1, ElementOfSeq
            <7>3. QED
              BY <7>2 DEF Fill
          <6>3. QED
            BY <6>1, <6>2
        <5>3. QED
          BY <5>1, <5>2
      <4>2. /\ \/ (old + delta > 0 <=> delta > 0) /\ AtMost(Whole(price), newAverage)
               \/ old # 0 /\ (old + delta > 0 <=> old > 0) /\ AtMost(Whole(low), newAverage)
            /\ \/ (old + delta > 0 <=> delta > 0) /\ AtMost(newAverage, Whole(price))
               \/ old # 0 /\ (old + delta > 0 <=> old > 0) /\ AtMost(newAverage, Whole(high))
        BY <1>3, <1>6, <3>3, <4>1, FilledWithin DEF newAverage
      <4>3. /\ \E l \in Opening(i)' : AtMost(Whole(fills'[l].price), newAverage)
            /\ \E l \in Opening(i)' : AtMost(newAverage, Whole(fills'[l].price))
        <5>1. (old + delta > 0 <=> delta > 0) =>
                \E l \in Opening(i)' : fills'[l].price = price
          BY <2>3, <3>1
        <5>2. old # 0 /\ (old + delta > 0 <=> old > 0) =>
                /\ \E l \in Opening(i)' : fills'[l].price = low
                /\ \E l \in Opening(i)' : fills'[l].price = high
          BY <1>3, <2>2, <3>1, <4>1 DEF old
        <5>3. QED
          BY <4>2, <5>1, <5>2
      <4>4. QED
        BY <3>1, <3>3, <4>3
    <3>4. QED
      BY <3>2, <3>3
  <2>7. QED
    BY <2>5, <2>6 DEF AverageWithinFills
<1>13. phase' = "settle"
  BY DEF SettleFilled, programVars
<1>14. QED
  BY <1>8, <1>10, <1>11, <1>12, <1>13 DEF MoneyInv, ValueInv, SnapshotInv

-----------------------------------------------------------------------------
(* The steps that leave the account alone keep what is said of it.          *)
LEMMA AccountKept ==
  ASSUME MoneyInv, UNCHANGED <<cash, quantities, fills>>, UNCHANGED bookVars
  PROVE  /\ BooksType' /\ BalanceInv' /\ FillsExplainAccount' /\ AverageWithinFills'
<1>1. /\ BooksType /\ BalanceInv /\ FillsExplainAccount /\ AverageWithinFills
  BY DEF MoneyInv
<1>2. /\ fills' = fills /\ cash' = cash /\ quantities' = quantities
      /\ average_prices' = average_prices /\ realized_pnl' = realized_pnl
  BY DEF bookVars
<1>3. FeesPaid' = FeesPaid
      /\ \A i \in Instruments : Bought(i)' = Bought(i) /\ Spent(i)' = Spent(i)
  BY <1>2 DEF FeesPaid, Bought, Spent, FillsOf
<1>4. BalanceInv'
  BY <1>1, <1>2, <1>3 DEF BalanceInv
<1>5. FillsExplainAccount'
  <2>1. [i \in Instruments |-> Spent(i)'] = [i \in Instruments |-> Spent(i)]
    BY <1>3
  <2>2. QED
    BY <1>1, <1>2, <1>3, <2>1 DEF FillsExplainAccount
<1>6. AverageWithinFills'
  <2>1. \A i \in Instruments : Opening(i)' = Opening(i)
    BY <1>2 DEF Opening
  <2>2. QED
    BY <1>1, <1>2, <2>1 DEF AverageWithinFills
<1>7. QED
  BY <1>1, <1>2, <1>4, <1>5, <1>6 DEF BooksType

(* Before the first position is added up nothing is held that is not still  *)
(* to be added.                                                             *)
LEMMA EndSettlementStep ==
  ASSUME TypeInv, MoneyInv, EndSettlement, UNCHANGED bookVars
  PROVE  MoneyInv'
<1>1. /\ UNCHANGED <<cash, quantities, fills>> /\ marks' = marks
      /\ unvalued' = {i \in Instruments : quantities[i] # 0}
      /\ market_value' = 0 /\ phase' = "value"
  BY DEF EndSettlement, GoTo, accountVars
<1>2. BooksType' /\ BalanceInv' /\ FillsExplainAccount' /\ AverageWithinFills'
  BY <1>1, AccountKept
<1>3. ValueInv'
  <2> DEFINE term(i) == IF i \in unvalued THEN 0 ELSE Worth(i)
  <2>1. ASSUME NEW i \in Instruments
        PROVE  term(i)' = 0
    <3>1. quantities[i] \in Int /\ marks[i] \in Int
      BY DEF TypeInv, TypeOK
    <3>2. i \notin unvalued' => quantities[i] = 0
      BY <1>1
    <3>3. QED
      BY <1>1, <3>1, <3>2 DEF Worth
  <2>2. [i \in Instruments |-> term(i)'] = [i \in Instruments |-> 0]
    BY <2>1
  <2>3. SumFunction([i \in Instruments |-> term(i)']) = 0
    BY <2>2, SumZeros, AccountAssumption
  <2>4. FeeDen * 0 = 0
    BY ConstantsAssumption
  <2>5. QED
    BY <1>1, <2>3, <2>4 DEF ValueInv
<1>4. SnapshotInv'
  BY <1>1 DEF SnapshotInv
<1>5. QED
  BY <1>2, <1>3, <1>4 DEF MoneyInv

LEMMA ValuePositionStep ==
  ASSUME TypeInv, MoneyInv, ValuePosition, UNCHANGED bookVars
  PROVE  MoneyInv'
<1> DEFINE x == CHOOSE j \in unvalued : TRUE
<1>1. /\ UNCHANGED <<cash, quantities, fills>> /\ marks' = marks
      /\ phase = "value" /\ phase' = "value" /\ x \in unvalued
      /\ unvalued' = unvalued \ {x}
      /\ market_value' = market_value + quantities[x] * marks[x] * FeeDen
  BY DEF ValuePosition, programVars, accountVars
<1>2. BooksType' /\ BalanceInv' /\ FillsExplainAccount' /\ AverageWithinFills'
  BY <1>1, AccountKept
<1> HIDE DEF x
<1>3. /\ unvalued \subseteq Instruments /\ x \in Instruments /\ FeeDen \in Int
      /\ \A i \in Instruments : quantities[i] \in Int /\ marks[i] \in Int
  <2>1. unvalued \subseteq Instruments
    BY DEF TypeInv, TypeOK
  <2>2. \A i \in Instruments : quantities[i] \in Int /\ marks[i] \in Int
    BY DEF TypeInv, TypeOK
  <2>3. FeeDen \in Int
    BY ConstantsAssumption
  <2>4. QED
    BY <1>1, <2>1, <2>2, <2>3
<1>4. \A i \in Instruments : Worth(i) \in Int /\ Worth(i)' = Worth(i)
  BY <1>1, <1>3 DEF Worth
<1> DEFINE g == [i \in Instruments |-> IF i \in unvalued THEN 0 ELSE Worth(i)]
           h == [i \in Instruments |-> IF i \in unvalued' THEN 0 ELSE Worth(i)']
<1>5. OneChanged(Instruments, x, Worth(x), g, h)
  BY <1>1, <1>3, <1>4, AccountAssumption DEF OneChanged
<1>6. SumFunction(h) = SumFunction(g) + Worth(x)
  BY <1>5, SumOneChanged
<1>7. SumFunction(g) \in Int
  BY <1>3, <1>5, AccountAssumption, SumType DEF OneChanged
<1>8. market_value = FeeDen * SumFunction(g)
  BY <1>1 DEF MoneyInv, ValueInv
<1> HIDE DEF g, h
<1>9. market_value' = FeeDen * SumFunction(h)
  <2>1. market_value' = FeeDen * SumFunction(g) + Worth(x) * FeeDen
    BY <1>1, <1>8 DEF Worth
  <2>2. Worth(x) \in Int
    BY <1>3, <1>4
  <2>3. QED
    BY <1>3, <1>6, <1>7, <2>1, <2>2
<1>10. ValueInv'
  BY <1>9 DEF ValueInv, h
<1>11. SnapshotInv'
  BY <1>1 DEF SnapshotInv
<1>12. QED
  BY <1>2, <1>10, <1>11 DEF MoneyInv

LEMMA TakeSnapshotStep ==
  ASSUME TypeInv, MoneyInv, TakeSnapshot, UNCHANGED bookVars
  PROVE  MoneyInv'
<1>1. /\ UNCHANGED <<cash, quantities, fills>> /\ marks' = marks
      /\ phase = "value" /\ phase' = "act" /\ unvalued = {}
      /\ snapshot' = [cash |-> cash, equity |-> cash + market_value]
  BY DEF TakeSnapshot, GoTo, accountVars
<1>2. BooksType' /\ BalanceInv' /\ FillsExplainAccount' /\ AverageWithinFills'
  BY <1>1, AccountKept
<1>3. [i \in Instruments |-> IF i \in unvalued THEN 0 ELSE Worth(i)] =
      [i \in Instruments |-> Worth(i)]
  BY <1>1
<1>4. market_value = FeeDen * SumFunction([i \in Instruments |-> Worth(i)])
  BY <1>1, <1>3 DEF MoneyInv, ValueInv
<1>5. [i \in Instruments |-> Worth(i)'] = [i \in Instruments |-> Worth(i)]
  BY <1>1 DEF Worth
<1>6. SnapshotInv'
  BY <1>1, <1>4, <1>5 DEF SnapshotInv
<1>7. ValueInv'
  BY <1>1 DEF ValueInv
<1>8. QED
  BY <1>2, <1>6, <1>7 DEF MoneyInv

(* Every other step leaves the account, and the strategy's view of it, as   *)
(* they are.                                                                *)
Resting ==
  /\ UNCHANGED <<cash, quantities, fills>>
  /\ phase' # "value"
  /\ phase' = "act" => phase = "act" /\ UNCHANGED <<marks, snapshot>>

(* What the engine makes of an action, rejected or not, is one of them.     *)
LEMMA ActionRests ==
  ASSUME NEW a \in Action, Handle(a)
  PROVE  Resting
<1> USE DEF Resting, accountVars, valueVars, orderVars, programVars
<1>1. phase = "act" /\ ActionDone => Resting
  BY DEF ActionDone
<1>2. \A code : Reject(code) => Resting
  BY DEF Reject, Fail
<1>3. \A o : phase = "act" /\ Accept(o) => Resting
  BY <1>1 DEF Accept
<1>4. \A kind : Acting(a, kind) => phase = "act"
  BY DEF Acting
<1> HIDE DEF Resting
<1>5. CASE HandleNoOp(a) \/ HandlePrediction(a) \/ HandleCancel(a) \/ HandleReplace(a)
  BY <1>1, <1>4, <1>5 DEF HandleNoOp, HandlePrediction, HandleCancel, HandleReplace
<1>6. CASE RejectCancel(a) \/ RejectReplace(a) \/ RejectUnmarked(a) \/ RejectInstrument(a)
  BY <1>2, <1>6 DEF RejectCancel, RejectReplace, RejectUnmarked, RejectInstrument
<1>7. CASE HandleTarget(a)
  BY <1>2, <1>3, <1>4, <1>7 DEF HandleTarget, AcceptTarget, RejectTarget
<1>8. CASE HandleWeight(a)
  BY <1>2, <1>3, <1>4, <1>8 DEF HandleWeight, AcceptTarget, RejectTarget
<1>9. CASE HandleSubmit(a)
  BY <1>2, <1>3, <1>4, <1>9 DEF HandleSubmit
<1>10. QED
  BY <1>5, <1>6, <1>7, <1>8, <1>9 DEF Handle

LEMMA OtherSteps ==
  ASSUME TypeInv, Next, ~SettleFilled, ~EndSettlement, ~ValuePosition, ~TakeSnapshot
  PROVE  Resting \/ UNCHANGED vars
<1> USE DEF Resting, accountVars, valueVars, orderVars, programVars
<1>1. CASE \E code : phase \in {"validate", "loop", "act"} /\ Fail(code)
  BY <1>1 DEF Fail
<1>2. CASE RejectEmptyTape \/ RejectDisorder \/ StrategyRaises
  BY <1>1, <1>2 DEF RejectEmptyTape, RejectDisorder, StrategyRaises
<1>3. CASE Start \/ BeginEvent \/ EndEvent \/ Finish \/ Report
  BY <1>3 DEF Start, BeginEvent, EndEvent, Finish, Report, GoTo
<1>4. CASE SettleKept \/ SettleSatisfied
  BY <1>4 DEF SettleKept, SettleSatisfied
<1>5. CASE ExpireOrder
  BY <1>5 DEF ExpireOrder
<1>6. CASE \E a \in Actions : Handle(a)
  BY <1>6, ConstantsAssumption, ActionRests
<1>7. CASE Ended
  BY <1>7 DEF Ended
<1>8. QED
  BY <1>2, <1>3, <1>4, <1>5, <1>6, <1>7 DEF Next, Proceed, Settle

LEMMA RestingStep ==
  ASSUME MoneyInv, Resting, UNCHANGED bookVars
  PROVE  MoneyInv'
<1>1. BooksType' /\ BalanceInv' /\ FillsExplainAccount' /\ AverageWithinFills'
  BY AccountKept DEF Resting
<1>2. ValueInv'
  BY DEF Resting, ValueInv
<1>3. SnapshotInv'
  <2>1. CASE phase' = "act"
    <3>1. /\ quantities' = quantities /\ marks' = marks /\ snapshot' = snapshot /\ cash' = cash
      BY <2>1 DEF Resting
    <3>2. [i \in Instruments |-> Worth(i)'] = [i \in Instruments |-> Worth(i)]
      BY <3>1 DEF Worth
    <3>3. QED
      BY <2>1, <3>1, <3>2 DEF Resting, MoneyInv, SnapshotInv
  <2>2. QED
    BY <2>1 DEF SnapshotInv
<1>4. QED
  BY <1>1, <1>2, <1>3 DEF MoneyInv

LEMMA StutterStep ==
  ASSUME MoneyInv, UNCHANGED vars, UNCHANGED bookVars
  PROVE  MoneyInv'
<1> USE DEF vars, accountVars, valueVars, orderVars, programVars
<1>1. /\ UNCHANGED <<cash, quantities, fills>>
      /\ phase' = phase /\ marks' = marks /\ unvalued' = unvalued
      /\ market_value' = market_value /\ snapshot' = snapshot
  OBVIOUS
<1>2. BooksType' /\ BalanceInv' /\ FillsExplainAccount' /\ AverageWithinFills'
  BY <1>1, AccountKept
<1>3. /\ [i \in Instruments |-> Worth(i)'] = [i \in Instruments |-> Worth(i)]
      /\ [i \in Instruments |-> IF i \in unvalued' THEN 0 ELSE Worth(i)'] =
         [i \in Instruments |-> IF i \in unvalued THEN 0 ELSE Worth(i)]
  BY <1>1 DEF Worth
<1>4. ValueInv' /\ SnapshotInv'
  BY <1>1, <1>3 DEF MoneyInv, ValueInv, SnapshotInv
<1>5. QED
  BY <1>2, <1>4 DEF MoneyInv

LEMMA BooksStep ==
  ASSUME TypeInv, MoneyInv, [BooksNext]_<<vars, bookVars>>
  PROVE  TypeInv' /\ MoneyInv'
<1>1. CASE SettleFilled /\ UpdatePosition(Last(fills'))
  <2>1. Next
    BY <1>1 DEF Next, Proceed, Settle
  <2>2. QED
    BY <1>1, <2>1, FillStep, StepType
<1>2. CASE Next /\ ~Filling /\ UNCHANGED bookVars
  <2>1. TypeInv'
    BY <1>2, StepType
  <2>2. ~SettleFilled
    <3>1. SettleFilled => \E f \in Fill : fills' = Append(fills, f)
      BY FillIs
    <3>2. \A f \in Fill : Append(fills, f) # fills
      <4>1. fills \in Seq(Fill)
        BY DEF TypeInv, TypeOK
      <4>2. QED
        BY <4>1, AppendProperties
    <3>3. QED
      BY <1>2, <3>1, <3>2 DEF Filling
  <2>3. CASE EndSettlement
    BY <1>2, <2>1, <2>3, EndSettlementStep
  <2>4. CASE ValuePosition
    BY <1>2, <2>1, <2>4, ValuePositionStep
  <2>5. CASE TakeSnapshot
    BY <1>2, <2>1, <2>5, TakeSnapshotStep
  <2>6. CASE Resting \/ UNCHANGED vars
    BY <1>2, <2>1, <2>6, RestingStep, StutterStep
  <2>7. QED
    BY <1>2, <2>2, <2>3, <2>4, <2>5, <2>6, OtherSteps
<1>3. CASE UNCHANGED <<vars, bookVars>>
  BY <1>3, StutterStep, StepType
<1>4. QED
  BY <1>1, <1>2, <1>3 DEF BooksNext

-----------------------------------------------------------------------------
(* The equity of a snapshot.                                                *)

(* Whole fractions add up as their numbers do.                              *)
LEMMA PlusWhole ==
  ASSUME NEW a \in Int, NEW b \in Int
  PROVE  Plus(Whole(a), Whole(b)) = Whole(a + b)
<1>1. PICK d \in Nat \ {0}, x, y \in Int : d = 1 /\ x = a * d /\ y = b * d
  <2>1. 1 \in Nat \ {0} /\ a * 1 \in Int /\ b * 1 \in Int
    OBVIOUS
  <2>2. QED
    BY <2>1
<1>2. Is(Whole(a), x, d) /\ Is(Whole(b), y, d)
  BY <1>1, WholeIs
<1>3. \A p, q : Is(p, x, d) /\ Is(q, y, d) =>
                 \A w \in Int : x + y = w * d => Plus(p, q) = Whole(w)
  BY PlusIs
<1>4. x + y = (a + b) * d /\ a + b \in Int
  BY <1>1
<1>5. QED
  BY <1>2, <1>3, <1>4

LEMMA TimesWhole ==
  ASSUME NEW a \in Int, NEW k \in Int
  PROVE  Times(Whole(a), k) = Whole(a * k)
<1>1. Times(Whole(a), k) = Fraction(a * k, 1)
  BY DEF Times, Whole
<1>2. PICK w \in Int, d \in Nat \ {0} : w = a * k /\ d = 1
  OBVIOUS
<1>3. Fraction(w * d, d) = Whole(w)
  BY FractionWhole
<1>4. w * d = w
  BY <1>2
<1>5. QED
  BY <1>1, <1>2, <1>3, <1>4

AreWholes(S, g, k) == DOMAIN g = S /\ \A x \in S : g[x] = Whole(k[x])

LEMMA FoldOfWholes ==
  ASSUME NEW S, IsFiniteSet(S), NEW g, NEW k \in [S -> Int], AreWholes(S, g, k)
  PROVE  FoldFunction(Plus, Zero, g) = Whole(SumFunction(k))
<1> DEFINE Step(R) ==
             [s \in SUBSET S |-> IF s = {} THEN Zero ELSE Plus(g[Pick(s)], R[s \ {Pick(s)}])]
           iter == CHOOSE R : R = Step(R)
<1>1. FoldFunction(Plus, Zero, g) = iter[S]
  BY DEF FoldFunction, FoldFunctionOnSet, MapThenFoldSet, Pick, AreWholes
<1>2. PICK G : Additive(G, k, S)
  BY AdditiveExists
<1> DEFINE H == [T \in SUBSET S |-> Whole(G[T])]
<1>3. ASSUME NEW T \in SUBSET S, T # {}
      PROVE  Whole(G[T]) = Plus(g[Pick(T)], Whole(G[T \ {Pick(T)}]))
  <2> DEFINE x == Pick(T)
             U == T \ {x}
  <2>1. x \in S /\ x \notin U /\ U \in SUBSET S /\ U \cup {x} = T
    BY <1>3, PickIs
  <2> HIDE DEF x, U
  <2>2. G[U \cup {x}] = G[U] + k[x]
    BY <1>2, <2>1 DEF Additive
  <2>3. G[U] \in Int /\ k[x] \in Int
    BY <1>2, <2>1 DEF Additive
  <2>4. G[T] = k[x] + G[U]
    <3>1. G[T] = G[U] + k[x]
      BY <2>1, <2>2
    <3>2. QED
      BY <2>3, <3>1
  <2>5. Plus(Whole(k[x]), Whole(G[U])) = Whole(k[x] + G[U])
    BY <2>3, PlusWhole
  <2>6. Whole(G[T]) = Plus(g[x], Whole(G[U]))
    BY <2>1, <2>4, <2>5 DEF AreWholes
  <2>7. QED
    BY <2>6 DEF x, U
<1>4. H = Step(H)
  <2>1. ASSUME NEW T \in SUBSET S
        PROVE  H[T] = IF T = {} THEN Zero ELSE Plus(g[Pick(T)], H[T \ {Pick(T)}])
    <3>1. CASE T = {}
      BY <1>2, <3>1 DEF Additive, Zero
    <3>2. CASE T # {}
      <4>1. T \ {Pick(T)} \in SUBSET S
        OBVIOUS
      <4>2. QED
        BY <1>3, <3>2, <4>1
    <3>3. QED
      BY <3>1, <3>2
  <2> HIDE DEF H
  <2>2. H = [T \in SUBSET S |-> H[T]]
    BY DEF H
  <2>3. [T \in SUBSET S |-> H[T]] =
        [T \in SUBSET S |-> IF T = {} THEN Zero ELSE Plus(g[Pick(T)], H[T \ {Pick(T)}])]
    BY <2>1
  <2>4. QED
    BY <2>2, <2>3
<1>5. iter = Step(iter)
  <2> HIDE DEF H
  <2>1. QED
    BY <1>4
<1> HIDE DEF iter
<1> DEFINE Q == {T \in SUBSET S : iter[T] = Whole(G[T])}
<1>6. ASSUME NEW T \in SUBSET S, \A x \in T : T \ {x} \in Q
      PROVE  T \in Q
  <2>1. iter[T] = IF T = {} THEN Zero ELSE Plus(g[Pick(T)], iter[T \ {Pick(T)}])
    BY <1>5
  <2>2. T # {} => iter[T \ {Pick(T)}] = Whole(G[T \ {Pick(T)}])
    BY <1>6, PickIs
  <2>3. T = {} => Whole(G[T]) = Zero
    BY <1>2 DEF Additive, Zero
  <2>4. QED
    BY <1>3, <2>1, <2>2, <2>3
<1> HIDE DEF Q, H
<1>7. SUBSET S \subseteq Q
  BY <1>6, SmallerSubsets
<1>8. iter[S] = Whole(G[S])
  BY <1>7 DEF Q
<1>9. SumFunction(k) = G[S]
  BY <1>2, SumIs
<1>10. QED
  BY <1>1, <1>8, <1>9

(* The profit of an instrument is what its position is worth, less what was *)
(* spent on it: a whole number, whatever fractions its average took.        *)
LEMMA ProfitIs ==
  ASSUME NEW q \in Int, NEW mark \in Int, NEW spent \in Int,
         NEW average, NEW realized, Balance(q, average, realized, spent)
  PROVE  Plus(realized, Times(Minus(Whole(mark), average), q)) = Whole(q * mark - spent)
<1>1. PICK d \in Nat \ {0}, n, m \in Int :
        Is(average, n, d) /\ Is(realized, m, d) /\ m - n * q = -(spent * d)
  BY DEF Balance
<1>2. Is(Minus(Whole(mark), average), mark * d - n, d)
  BY WholeIs, MinusIs, <1>1
<1>3. Is(Times(Minus(Whole(mark), average), q), (mark * d - n) * q, d)
  BY <1>2, TimesIs
<1>4. m + (mark * d - n) * q = (q * mark - spent) * d
  <2>1. (mark * d - n) * q = (q * mark) * d - n * q
    OBVIOUS
  <2>2. (q * mark - spent) * d = (q * mark) * d - spent * d
    OBVIOUS
  <2>3. (q * mark) * d \in Int /\ n * q \in Int /\ spent * d \in Int
    OBVIOUS
  <2>4. QED
    BY <1>1, <2>1, <2>2, <2>3
<1>5. q * mark - spent \in Int
  OBVIOUS
<1>6. QED
  BY <1>1, <1>3, <1>4, <1>5, PlusIs

LEMMA EquityFollows == TypeInv /\ MoneyInv => EquityIdentity
<1> SUFFICES ASSUME TypeInv, MoneyInv, phase = "act"
             PROVE  Whole(snapshot.equity) =
                      Plus(Whole(InitialCash * CashUnit - FeesPaid),
                           Times(FoldFunction(Plus, Zero, [i \in Instruments |-> Profit(i)]),
                                 FeeDen))
  BY DEF EquityIdentity
<1>1. /\ fills \in Seq(Fill) /\ FeeDen \in Int /\ InitialCash * CashUnit \in Int
      /\ \A i \in Instruments : quantities[i] \in Int /\ marks[i] \in Int
  <2>1. fills \in Seq(Fill)
    BY DEF TypeInv, TypeOK
  <2>2. \A i \in Instruments : quantities[i] \in Int /\ marks[i] \in Int
    BY DEF TypeInv, TypeOK
  <2>3. FeeDen \in Int /\ InitialCash * CashUnit \in Int
    BY ConstantsAssumption DEF CashUnit, PriceUnit
  <2>4. QED
    BY <2>1, <2>2, <2>3
<1>2. FeesPaid \in Int /\ \A i \in Instruments : Spent(i) \in Int /\ Worth(i) \in Int
  BY <1>1, SumsType DEF Worth
<1> DEFINE f == [i \in Instruments |-> Worth(i)]
           s == [i \in Instruments |-> Spent(i)]
           k == [i \in Instruments |-> f[i] - s[i]]
           p == [i \in Instruments |-> Profit(i)]
<1>3. ASSUME NEW i \in Instruments
      PROVE  Profit(i) = Whole(Worth(i) - Spent(i))
  <2>1. Balance(quantities[i], average_prices[i], realized_pnl[i], Spent(i))
    BY DEF MoneyInv, BalanceInv
  <2>2. QED
    BY <1>1, <1>2, <2>1, ProfitIs DEF Profit, Unrealized, Worth
<1>4. /\ f \in [Instruments -> Int] /\ s \in [Instruments -> Int] /\ k \in [Instruments -> Int]
  BY <1>2
<1>5. FoldFunction(Plus, Zero, p) = Whole(SumFunction(k))
  <2>1. DOMAIN p = Instruments
    OBVIOUS
  <2>2. \A i \in Instruments : p[i] = Whole(k[i])
    BY <1>3
  <2> HIDE DEF p, k
  <2>3. AreWholes(Instruments, p, k)
    BY <2>1, <2>2 DEF AreWholes
  <2>4. QED
    BY <1>4, <2>3, FoldOfWholes, AccountAssumption
<1> HIDE DEF f, s
<1>6. SumFunction(k) = SumFunction(f) - SumFunction(s)
  BY <1>4, SumMinus, AccountAssumption
<1>7. SumFunction(f) \in Int /\ SumFunction(s) \in Int
  BY <1>4, SumType, AccountAssumption
<1>8. snapshot.equity = cash + FeeDen * SumFunction(f)
  BY DEF MoneyInv, SnapshotInv, f
<1>9. cash = InitialCash * CashUnit - FeesPaid - FeeDen * SumFunction(s)
  BY DEF MoneyInv, FillsExplainAccount, s
<1> HIDE DEF p, k
<1> DEFINE a == InitialCash * CashUnit - FeesPaid
           b == SumFunction(k) * FeeDen
<1>10. a \in Int /\ b \in Int
  BY <1>1, <1>2, <1>6, <1>7
<1>11. snapshot.equity = a + b
  <2>1. b = FeeDen * SumFunction(f) - FeeDen * SumFunction(s)
    BY <1>1, <1>6, <1>7
  <2>2. FeeDen * SumFunction(f) \in Int /\ FeeDen * SumFunction(s) \in Int
    BY <1>1, <1>7
  <2> HIDE DEF b
  <2>3. QED
    BY <1>1, <1>2, <1>8, <1>9, <2>1, <2>2
<1>12. Times(FoldFunction(Plus, Zero, p), FeeDen) = Whole(b)
  BY <1>1, <1>5, <1>6, <1>7, TimesWhole
<1> HIDE DEF a, b
<1>13. Whole(snapshot.equity) = Plus(Whole(a), Whole(b))
  BY <1>10, <1>11, PlusWhole
<1>14. QED
  BY <1>12, <1>13 DEF a, p

-----------------------------------------------------------------------------
(* The theorems.                                                            *)

(* The invariant holds of every run, whatever the strategy does.            *)
THEOREM BooksAreKept == BooksSpec => [](TypeInv /\ MoneyInv)
<1>1. BooksInit => TypeInv /\ MoneyInv
  BY InitType, BooksStart DEF BooksInit
<1>2. TypeInv /\ MoneyInv /\ [BooksNext]_<<vars, bookVars>> => (TypeInv /\ MoneyInv)'
  BY BooksStep
<1>3. QED
  BY <1>1, <1>2, PTL DEF BooksSpec

(* A position has an average price exactly when it is not flat, between two *)
(* of the prices at which it was built up on its side.                      *)
THEOREM AverageWithinItsFills == BooksSpec => []AverageWithinFills
<1>1. MoneyInv => AverageWithinFills
  BY DEF MoneyInv
<1>2. QED
  BY <1>1, BooksAreKept, PTL

(* Cash and positions are what the reported fills and their fees add up to. *)
THEOREM FillsExplainTheAccount == BooksSpec => []FillsExplainAccount
<1>1. MoneyInv => FillsExplainAccount
  BY DEF MoneyInv
<1>2. QED
  BY <1>1, BooksAreKept, PTL

(* Every snapshot's equity is the initial cash plus every profit, realized  *)
(* and unrealized, less every fee, to the last digit.                       *)
THEOREM EquityAddsUp == BooksSpec => []EquityIdentity
  BY EquityFollows, BooksAreKept, PTL
=============================================================================
