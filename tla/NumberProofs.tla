---------------------------- MODULE NumberProofs ----------------------------
(***************************************************************************)
(* The numbers and columns of Frames: fractions in lowest terms are the    *)
(* rational numbers, whatever the size of numerator and denominator, and a *)
(* column in another unit has its differences, averages and maxima in that *)
(* unit, and its quotients and comparisons in none.                        *)
(***************************************************************************)
EXTENDS Conditions, TLAPS, WellFoundedInduction

\* A set of natural numbers that is not empty has a smallest one.
LEMMA Smallest ==
    ASSUME NEW T \in SUBSET Nat, T # {}
    PROVE  \E x \in T : \A y \in T : x <= y
<1> DEFINE less == {pair \in Nat \X Nat : pair[1] < pair[2]}
<1>1. IsWellFoundedOn(less, Nat)
  BY NatLessThanWellFounded DEF OpToRel
<1>2. PICK x \in T : \A y \in T : ~ (<<y, x>> \in less)
  <2> HIDE DEF less
  <2>1. QED
    BY <1>1, WFMin
<1>3. ASSUME NEW y \in T PROVE x <= y
  <2>1. y \in Nat /\ x \in Nat /\ <<y, x>> \notin less
    BY <1>2
  <2>2. ~ (y < x)
    BY <2>1 DEF less
  <2>3. QED
    BY <2>1, <2>2
<1>4. QED
  BY <1>2, <1>3

-----------------------------------------------------------------------------
\* Euclid's algorithm.

\* g is what the algorithm computes for second arguments up to n.
Euclid(g, n) ==
    \A b \in 0 .. n : \A a \in Nat : g[b][a] = IF b = 0 THEN a ELSE g[a % b][b]

LEMMA Division ==
    ASSUME NEW a \in Int, NEW b \in Nat \ {0}
    PROVE  a = b * (a \div b) + (a % b) /\ a % b \in 0 .. (b - 1) /\ a \div b \in Int
OBVIOUS

LEMMA EuclidsAgree ==
    ASSUME NEW n \in Nat, NEW m \in Nat, NEW g, NEW h, Euclid(g, n), Euclid(h, m)
    PROVE  \A b \in (0 .. n) \cap (0 .. m) : \A a \in Nat : g[b][a] = h[b][a]
<1> DEFINE apart == {b \in (0 .. n) \cap (0 .. m) : \E a \in Nat : g[b][a] # h[b][a]}
<1> SUFFICES ASSUME apart # {} PROVE FALSE
  OBVIOUS
<1>1. PICK b \in apart : \A c \in apart : b <= c
  <2>1. apart \in SUBSET Nat
    OBVIOUS
  <2> HIDE DEF apart
  <2>2. QED
    BY <2>1, Smallest
<1>2. PICK a \in Nat : g[b][a] # h[b][a]
  OBVIOUS
<1>3. CASE b = 0
  BY <1>2, <1>3 DEF Euclid
<1>4. CASE b # 0
  <2>1. a % b \in (0 .. n) \cap (0 .. m) /\ ~ (b <= a % b)
    <3>1. b \in 0 .. n /\ b \in 0 .. m /\ b \in Nat \ {0} /\ a \in Int
      BY <1>4
    <3>2. a % b \in 0 .. (b - 1)
      BY ONLY <3>1, Division
    <3>3. QED
      BY <3>1, <3>2
  <2>2. a % b \notin apart
    BY <1>1, <2>1
  <2>3. g[a % b][b] = h[a % b][b]
    BY <2>1, <2>2
  <2>4. g[b][a] = g[a % b][b] /\ h[b][a] = h[a % b][b]
    BY <1>4 DEF Euclid
  <2>5. QED
    BY <1>2, <2>3, <2>4
<1>5. QED
  BY <1>3, <1>4

LEMMA EuclidExists ==
    ASSUME NEW n \in Nat
    PROVE  \E g : Euclid(g, n)
<1> DEFINE none == {m \in Nat : ~\E g : Euclid(g, m)}
<1> SUFFICES ASSUME none # {} PROVE FALSE
  OBVIOUS
<1>1. PICK m \in none : \A k \in none : m <= k
  <2>1. none \in SUBSET Nat
    OBVIOUS
  <2> HIDE DEF none
  <2>2. QED
    BY <2>1, Smallest
<1>2. CASE m = 0
  <2>1. Euclid([b \in {0} |-> [a \in Nat |-> a]], 0)
    BY DEF Euclid
  <2>2. QED
    BY <1>2, <2>1
<1>3. CASE m # 0
  <2>1. m - 1 \in Nat /\ ~ (m <= m - 1)
    BY <1>3
  <2>2. PICK g : Euclid(g, m - 1)
    BY <1>1, <2>1
  <2> DEFINE h == [b \in 0 .. m |-> [a \in Nat |-> IF b = m THEN g[a % m][m] ELSE g[b][a]]]
  <2>3. ASSUME NEW b \in 0 .. m, NEW a \in Nat
        PROVE  h[b][a] = IF b = 0 THEN a ELSE h[a % b][b]
    <3>1. CASE b = 0
      BY <1>3, <2>2, <3>1 DEF Euclid
    <3>2. CASE b # 0
      <4>1. a % b \in 0 .. (b - 1) /\ b \in Nat
        BY <3>2, Division
      <4>2. a % b \in 0 .. m /\ a % b # m
        BY <4>1
      <4>3. h[a % b][b] = g[a % b][b]
        BY <4>1, <4>2
      <4>4. CASE b = m
        BY <3>2, <4>3, <4>4
      <4>5. CASE b # m
        <5>1. b \in 0 .. (m - 1)
          BY <4>5
        <5>2. g[b][a] = g[a % b][b]
          BY <2>2, <3>2, <5>1 DEF Euclid
        <5>3. QED
          BY <3>2, <4>3, <4>5, <5>2
      <4>6. QED
        BY <4>4, <4>5
    <3>3. QED
      BY <3>1, <3>2
  <2>4. Euclid(h, m)
    <3> HIDE DEF h
    <3>1. QED
      BY <2>3 DEF Euclid
  <2>5. QED
    BY <2>4
<1>4. QED
  BY <1>2, <1>3

LEMMA GcdIs ==
    ASSUME NEW b \in Nat, NEW a \in Nat
    PROVE  Gcd[b][a] = IF b = 0 THEN a ELSE Gcd[a % b][b]
<1> DEFINE part(n) == CHOOSE g : Euclid(g, n)
           whole   == [n \in Nat |-> [m \in Nat |-> part(n)[n][m]]]
<1>1. \A n \in Nat : Euclid(part(n), n)
  BY EuclidExists
<1>2. ASSUME NEW n \in Nat, NEW m \in Nat
      PROVE  whole[n][m] = IF n = 0 THEN m ELSE whole[m % n][n]
  <2>1. part(n)[n][m] = IF n = 0 THEN m ELSE part(n)[m % n][n]
    <3> HIDE DEF part
    <3>1. QED
      BY <1>1 DEF Euclid
  <2>2. CASE n = 0
    BY <2>1, <2>2
  <2>3. CASE n # 0
    <3>1. m % n \in Nat /\ m % n \in (0 .. n) \cap (0 .. (m % n))
      BY <2>3, Division
    <3>2. part(n)[m % n][n] = part(m % n)[m % n][n]
      <4> HIDE DEF part
      <4>1. QED
        BY <1>1, <3>1, EuclidsAgree
    <3>3. QED
      BY <2>1, <2>3, <3>1, <3>2
  <2>4. QED
    BY <2>2, <2>3
<1>3. whole = [n \in Nat |-> [m \in Nat |-> IF n = 0 THEN m ELSE whole[m % n][n]]]
  <2> HIDE DEF part
  <2>1. \A n, m \in Nat : whole[n][m] = part(n)[n][m]
    OBVIOUS
  <2>2. \A n \in Nat : [m \in Nat |-> part(n)[n][m]] = [m \in Nat |-> IF n = 0 THEN m ELSE whole[m % n][n]]
    BY <1>2, <2>1
  <2>3. QED
    BY <2>2
<1>4. Gcd = [n \in Nat |-> [m \in Nat |-> IF n = 0 THEN m ELSE Gcd[m % n][n]]]
  <2> HIDE DEF whole
  <2>1. QED
    BY <1>3 DEF Gcd
<1>5. QED
  BY <1>4

\* The result divides both numbers.
LEMMA GcdDivides ==
    ASSUME NEW b \in Nat
    PROVE  \A a \in Nat : a # 0 \/ b # 0 =>
             Gcd[b][a] \in Nat \ {0} /\ \E k, l \in Nat : a = Gcd[b][a] * k /\ b = Gcd[b][a] * l
<1> DEFINE Good(m) == \A a \in Nat : a # 0 \/ m # 0 =>
             Gcd[m][a] \in Nat \ {0} /\ \E k, l \in Nat : a = Gcd[m][a] * k /\ m = Gcd[m][a] * l
           bad == {m \in Nat : ~Good(m)}
<1> SUFFICES ASSUME bad # {} PROVE FALSE
  OBVIOUS
<1>1. PICK m \in bad : \A n \in bad : m <= n
  <2>1. bad \in SUBSET Nat
    OBVIOUS
  <2> HIDE DEF bad
  <2>2. QED
    BY <2>1, Smallest
<1>2. m \in Nat /\ ~Good(m) /\ \A n \in Nat : n < m => Good(n)
  <2>1. m \in Nat /\ ~Good(m)
    OBVIOUS
  <2>2. ASSUME NEW n \in Nat, n < m PROVE Good(n)
    <3> HIDE DEF Good
    <3>1. QED
      BY <1>1, <2>1, <2>2
  <2>3. QED
    BY <2>1, <2>2
<1> HIDE DEF bad
<1>3. CASE m = 0
  <2>1. ASSUME NEW a \in Nat, a # 0
        PROVE  Gcd[0][a] \in Nat \ {0} /\ \E k, l \in Nat : a = Gcd[0][a] * k /\ 0 = Gcd[0][a] * l
    <3>1. Gcd[0][a] = a
      BY GcdIs
    <3>2. a = a * 1 /\ 0 = a * 0
      OBVIOUS
    <3>3. QED
      BY <2>1, <3>1, <3>2
  <2>2. QED
    BY <1>2, <1>3, <2>1
<1>4. CASE m # 0
  <2>1. ASSUME NEW a \in Nat
        PROVE  Gcd[m][a] \in Nat \ {0} /\ \E k, l \in Nat : a = Gcd[m][a] * k /\ m = Gcd[m][a] * l
    <3>1. PICK r, q : r = a % m /\ q = a \div m
      OBVIOUS
    <3>2. a = m * q + r /\ r \in 0 .. (m - 1) /\ q \in Nat
      <4>1. m \in Nat \ {0} /\ a \in Int
        BY <1>2, <1>4
      <4>2. a = m * q + r /\ r \in 0 .. (m - 1) /\ q \in Int
        BY ONLY <3>1, <4>1, Division
      <4>3. q \in Nat
        BY ONLY <3>1, <4>1, a \in Nat
      <4>4. QED
        BY <4>2, <4>3
    <3>3. r \in Nat /\ r < m
      BY <1>2, <3>2
    <3>4. Good(r)
      BY <1>2, <3>3
    <3>5. PICK g : g = Gcd[r][m]
      OBVIOUS
    <3>6. g \in Nat \ {0} /\ \E k, l \in Nat : m = g * k /\ r = g * l
      BY <1>2, <1>4, <3>4, <3>5
    <3>7. PICK k, l \in Nat : m = g * k /\ r = g * l
      BY <3>6
    <3>8. a = g * (k * q + l) /\ k * q + l \in Nat
      <4>1. a = (g * k) * q + g * l
        BY <3>2, <3>7
      <4>2. QED
        BY ONLY <3>2, <3>6, <4>1, k \in Nat, l \in Nat
    <3>9. Gcd[m][a] = g
      BY <1>2, <1>4, <3>1, <3>5, GcdIs
    <3>10. QED
      BY <3>6, <3>7, <3>8, <3>9
  <2>2. QED
    BY <1>2, <2>1
<1>5. QED
  BY <1>3, <1>4

LEMMA RemainderScales ==
    ASSUME NEW a \in Nat, NEW b \in Nat \ {0}, NEW k \in Nat \ {0}
    PROVE  k * b \in Nat \ {0} /\ k * a \in Nat /\ (k * a) % (k * b) = k * (a % b)
<1>1. PICK q, r : q = a \div b /\ r = a % b
  OBVIOUS
<1>2. a = b * q + r /\ r \in 0 .. (b - 1) /\ q \in Int
  BY <1>1, Division
<1>3. PICK kb, kr, ka : kb = k * b /\ kr = k * r /\ ka = k * a
  OBVIOUS
<1>4. kb \in Nat \ {0} /\ kr \in Nat /\ ka \in Nat /\ kr < kb
  BY <1>2, <1>3
<1>5. ka = kb * q + kr
  <2>1. k * (b * q + r) = (k * b) * q + k * r
    BY <1>2
  <2>2. QED
    BY <1>2, <1>3, <2>1
<1>6. kr = ka % kb
  BY ONLY <1>2, <1>4, <1>5
<1>7. QED
  BY <1>1, <1>3, <1>4, <1>6

LEMMA GcdScales ==
    ASSUME NEW k \in Nat \ {0}, NEW b \in Nat
    PROVE  \A a \in Nat : Gcd[k * b][k * a] = k * Gcd[b][a]
<1> DEFINE Good(m) == \A a \in Nat : Gcd[k * m][k * a] = k * Gcd[m][a]
           bad     == {m \in Nat : ~Good(m)}
<1> SUFFICES ASSUME bad # {} PROVE FALSE
  OBVIOUS
<1>1. PICK m \in bad : \A n \in bad : m <= n
  <2>1. bad \in SUBSET Nat
    OBVIOUS
  <2> HIDE DEF bad
  <2>2. QED
    BY <2>1, Smallest
<1>2. m \in Nat /\ ~Good(m) /\ \A n \in Nat : n < m => Good(n)
  <2>1. m \in Nat /\ ~Good(m)
    OBVIOUS
  <2>2. ASSUME NEW n \in Nat, n < m PROVE Good(n)
    <3> HIDE DEF Good
    <3>1. QED
      BY <1>1, <2>1, <2>2
  <2>3. QED
    BY <2>1, <2>2
<1> HIDE DEF bad
<1>3. CASE m = 0
  <2>1. ASSUME NEW a \in Nat PROVE Gcd[k * 0][k * a] = k * Gcd[0][a]
    <3>1. k * 0 = 0 /\ k * a \in Nat
      OBVIOUS
    <3>2. Gcd[0][k * a] = k * a /\ Gcd[0][a] = a
      BY <3>1, GcdIs
    <3>3. QED
      BY <3>1, <3>2
  <2>2. QED
    BY <1>2, <1>3, <2>1
<1>4. CASE m # 0
  <2>1. ASSUME NEW a \in Nat PROVE Gcd[k * m][k * a] = k * Gcd[m][a]
    <3>1. m \in Nat \ {0} /\ a \in Int
      BY <1>2, <1>4
    <3>2. k * m \in Nat \ {0} /\ k * a \in Nat /\ (k * a) % (k * m) = k * (a % m)
      BY <3>1, RemainderScales
    <3>3. a % m \in Nat /\ a % m < m
      <4>1. a % m \in 0 .. (m - 1)
        BY ONLY <3>1, Division
      <4>2. QED
        BY ONLY <3>1, <4>1
    <3>4. Gcd[k * (a % m)][k * m] = k * Gcd[a % m][m]
      <4>1. Good(a % m)
        BY <1>2, <3>3
      <4>2. QED
        BY <1>2, <4>1
    <3>5. Gcd[k * m][k * a] = Gcd[(k * a) % (k * m)][k * m]
      BY <3>2, GcdIs
    <3>6. Gcd[m][a] = Gcd[a % m][m]
      BY <3>1, GcdIs
    <3>7. QED
      BY <3>2, <3>4, <3>5, <3>6
  <2>2. QED
    BY <1>2, <2>1
<1>5. QED
  BY <1>3, <1>4

-----------------------------------------------------------------------------
\* Fractions.
LEMMA ExactDivision ==
    ASSUME NEW g \in Nat \ {0}, NEW u \in Int
    PROVE  (g * u) \div g = u
<1>1. PICK a : a = g * u
  OBVIOUS
<1>2. a \in Int /\ a = g * u + 0
  BY <1>1
<1>3. u = a \div g
  BY ONLY <1>2, g \in Nat \ {0}, u \in Int
<1>4. QED
  BY <1>1, <1>3

Sign(d) == IF d < 0 THEN -1 ELSE 1

\* What is left of numerator and denominator when the common factor is gone.
LEMMA FractionForm ==
    ASSUME NEW n \in Int, NEW d \in Int \ {0}
    PROVE  \E g \in Nat \ {0}, u \in Int, v \in Nat \ {0} :
             /\ g = Gcd[Size(d)][Size(n)]
             /\ Sign(d) * n = g * u /\ Sign(d) * d = g * v
             /\ Fraction(n, d) = <<u, v>>
<1>1. Size(n) \in Nat /\ Size(d) \in Nat \ {0} /\ Sign(d) * d = Size(d)
      /\ (Sign(d) * n = Size(n) \/ Sign(d) * n = -Size(n))
  BY DEF Size, Sign
<1>2. PICK g : g = Gcd[Size(d)][Size(n)]
  OBVIOUS
<1>3. g \in Nat \ {0} /\ \E k, l \in Nat : Size(n) = g * k /\ Size(d) = g * l
  BY <1>1, <1>2, GcdDivides
<1>4. PICK k, v \in Nat : Size(n) = g * k /\ Size(d) = g * v
  BY <1>3
<1>5. v # 0
  BY <1>1, <1>3, <1>4
<1>6. PICK u \in Int : Sign(d) * n = g * u
  <2>1. CASE Sign(d) * n = Size(n)
    BY <1>4, <2>1
  <2>2. CASE Sign(d) * n = -Size(n)
    <3>1. -(g * k) = g * (-k) /\ -k \in Int
      BY <1>3
    <3>2. QED
      BY <1>4, <2>2, <3>1
  <2>3. QED
    BY <1>1, <2>1, <2>2
<1>7. (Sign(d) * n) \div g = u /\ (Sign(d) * d) \div g = v
  <2>1. v \in Int /\ Sign(d) * d = g * v
    BY <1>1, <1>4
  <2>2. QED
    BY <1>3, <1>6, <2>1, ExactDivision
<1>8. Fraction(n, d) = <<u, v>>
  <2>1. Fraction(n, d) = <<(Sign(d) * n) \div g, (Sign(d) * d) \div g>>
    BY <1>2 DEF Fraction, Sign
  <2>2. QED
    BY <1>7, <2>1
<1>9. QED
  BY <1>1, <1>2, <1>3, <1>4, <1>5, <1>6, <1>8

\* A fraction in lowest terms is the same ratio, with a positive denominator.
LEMMA FractionIs ==
    ASSUME NEW n \in Int, NEW d \in Int \ {0}
    PROVE  \E u \in Int, v \in Nat \ {0} : Fraction(n, d) = <<u, v>> /\ u * d = n * v
<1>1. PICK g \in Nat \ {0}, u \in Int, v \in Nat \ {0} :
         /\ Sign(d) * n = g * u /\ Sign(d) * d = g * v
         /\ Fraction(n, d) = <<u, v>>
  BY FractionForm
<1>2. u * d = n * v
  <2>1. CASE Sign(d) = 1
    <3>1. n = g * u /\ d = g * v
      BY <1>1, <2>1
    <3>2. QED
      BY ONLY <3>1, g \in Nat, u \in Int, v \in Nat
  <2>2. CASE Sign(d) = -1
    <3>1. n = -(g * u) /\ d = -(g * v)
      BY <1>1, <2>2
    <3>2. QED
      BY ONLY <3>1, g \in Nat, u \in Int, v \in Nat
  <2>3. QED
    BY <2>1, <2>2 DEF Sign
<1>3. QED
  BY <1>1, <1>2

LEMMA ExtendedFraction ==
    ASSUME NEW n \in Int, NEW d \in Int \ {0}, NEW k \in Int \ {0}
    PROVE  Fraction(k * n, k * d) = Fraction(n, d)
<1>1. PICK g \in Nat \ {0}, u \in Int, v \in Nat \ {0} :
         /\ g = Gcd[Size(d)][Size(n)]
         /\ Sign(d) * n = g * u /\ Sign(d) * d = g * v
         /\ Fraction(n, d) = <<u, v>>
  BY FractionForm
<1>2. k * n \in Int /\ k * d \in Int \ {0}
  OBVIOUS
<1>3. PICK m \in Nat \ {0} : m = Size(k)
  BY DEF Size
<1>4. Size(n) \in Nat /\ Size(d) \in Nat
  BY DEF Size
<1>5. Size(k * n) = m * Size(n)
  BY <1>3 DEF Size
<1>6. Size(k * d) = m * Size(d)
  BY <1>3 DEF Size
<1>7. Gcd[Size(k * d)][Size(k * n)] = m * g
  <2>1. Gcd[m * Size(d)][m * Size(n)] = m * Gcd[Size(d)][Size(n)]
    BY ONLY <1>4, m \in Nat \ {0}, GcdScales
  <2>2. QED
    BY <1>1, <1>5, <1>6, <2>1
<1>8. Sign(k * d) * k = m * Sign(d)
  BY <1>3 DEF Size, Sign
<1>9. Sign(k * d) \in Int /\ Sign(d) \in Int
  BY DEF Sign
<1>10. Sign(k * d) * (k * n) = (m * g) * u /\ Sign(k * d) * (k * d) = (m * g) * v
  <2>1. PICK s, t \in Int : s = Sign(k * d) /\ t = Sign(d)
    BY <1>9
  <2>2. s * (k * n) = (s * k) * n /\ s * (k * d) = (s * k) * d
    BY ONLY <2>1, n \in Int, k \in Int, d \in Int
  <2>3. (m * t) * n = m * (t * n) /\ (m * t) * d = m * (t * d)
    BY ONLY <2>1, n \in Int, m \in Nat, d \in Int
  <2>4. m * (g * u) = (m * g) * u /\ m * (g * v) = (m * g) * v
    BY ONLY <1>1, m \in Nat
  <2>5. s * (k * n) = m * (t * n) /\ s * (k * d) = m * (t * d)
    BY <1>8, <2>1, <2>2, <2>3
  <2>6. QED
    BY <1>1, <2>1, <2>4, <2>5
<1>11. m * g \in Nat \ {0}
  OBVIOUS
<1>12. (Sign(k * d) * (k * n)) \div (m * g) = u /\ (Sign(k * d) * (k * d)) \div (m * g) = v
  BY <1>10, <1>11, ExactDivision
<1>13. Fraction(k * n, k * d) = <<(Sign(k * d) * (k * n)) \div (m * g), (Sign(k * d) * (k * d)) \div (m * g)>>
  BY <1>2, <1>7 DEF Fraction, Sign
<1>14. QED
  BY <1>1, <1>12, <1>13

\* Equal ratios are the same number.
LEMMA SameFraction ==
    ASSUME NEW n \in Int, NEW d \in Int \ {0}, NEW m \in Int, NEW e \in Int \ {0}, n * e = m * d
    PROVE  Fraction(n, d) = Fraction(m, e)
<1>1. Fraction(e * n, e * d) = Fraction(n, d) /\ Fraction(d * m, d * e) = Fraction(m, e)
  BY ExtendedFraction
<1>2. e * n = d * m /\ e * d = d * e
  OBVIOUS
<1>3. QED
  BY <1>1, <1>2

-----------------------------------------------------------------------------
\* The numbers there are, and what is computed of them.
Rational == {Fraction(n, d) : n \in Int, d \in Int \ {0}}
Numeric  == Rational \cup {NaN}

LEMMA RationalIs ==
    ASSUME NEW x \in Rational
    PROVE  /\ x[1] \in Int /\ x[2] \in Nat \ {0}
           /\ x = <<x[1], x[2]>> /\ x = Fraction(x[1], x[2])
           /\ x # NaN /\ x \in Number
<1>1. PICK n \in Int, d \in Int \ {0} : x = Fraction(n, d)
  BY DEF Rational
<1>2. PICK u \in Int, v \in Nat \ {0} : x = <<u, v>> /\ u * d = n * v
  BY <1>1, FractionIs
<1>3. Fraction(u, v) = Fraction(n, d)
  BY <1>2, SameFraction
<1>4. <<u, v>> # << >> /\ <<u, v>> \in Seq(Int)
  OBVIOUS
<1>5. QED
  BY <1>1, <1>2, <1>3, <1>4 DEF NaN, Number

LEMMA FractionTyped ==
    ASSUME NEW n \in Int, NEW d \in Int \ {0}
    PROVE  Fraction(n, d) \in Rational
BY DEF Rational

LEMMA QuotientTyped ==
    ASSUME NEW n \in Int, NEW d \in Int
    PROVE  Fraction(n, d) \in Numeric
BY FractionTyped DEF Numeric, Fraction

LEMMA NumIs ==
    ASSUME NEW n \in Int
    PROVE  Num(n) = Fraction(n, 1) /\ Num(n) \in Rational
<1>1. PICK g \in Nat \ {0}, u \in Int, v \in Nat \ {0} :
         Sign(1) * n = g * u /\ Sign(1) * 1 = g * v /\ Fraction(n, 1) = <<u, v>>
  <2>1. 1 \in Int \ {0}
    OBVIOUS
  <2>2. QED
    BY <2>1, FractionForm
<1>2. n = g * u /\ 1 = g * v
  BY <1>1 DEF Sign
<1>3. g = 1 /\ v = 1
  BY ONLY <1>2, g \in Nat \ {0}, v \in Nat \ {0}
<1>4. u = n
  BY <1>2, <1>3
<1>5. QED
  BY <1>1, <1>3, <1>4, FractionTyped DEF Num

LEMMA NumericParts ==
    ASSUME NEW x \in Numeric
    PROVE  x \in Number /\ (x = NaN \/ x \in Rational)
<1>1. NaN \in Number
  BY DEF NaN, Number
<1>2. QED
  BY <1>1, RationalIs DEF Numeric

\* The operators on fractions that need not be in lowest terms.
LEMMA PlusIs ==
    ASSUME NEW n \in Int, NEW d \in Int \ {0}, NEW m \in Int, NEW e \in Int \ {0}
    PROVE  Plus(Fraction(n, d), Fraction(m, e)) = Fraction(n * e + m * d, d * e)
<1>1. PICK p \in Int, q \in Nat \ {0} : Fraction(n, d) = <<p, q>> /\ p * d = n * q
  BY FractionIs
<1>2. PICK r \in Int, s \in Nat \ {0} : Fraction(m, e) = <<r, s>> /\ r * e = m * s
  BY FractionIs
<1>3. Plus(<<p, q>>, <<r, s>>) = Fraction(p * s + r * q, q * s)
  BY DEF Plus, NaN
<1>4. (p * s + r * q) * (d * e) = (n * e + m * d) * (q * s)
  <2>1. (p * s + r * q) * (d * e) = (p * d) * (s * e) + (r * e) * (q * d)
    OBVIOUS
  <2>2. (n * q) * (s * e) + (m * s) * (q * d) = (n * e + m * d) * (q * s)
    OBVIOUS
  <2>3. QED
    BY <1>1, <1>2, <2>1, <2>2
<1>5. /\ p * s + r * q \in Int /\ q * s \in Int \ {0}
      /\ n * e + m * d \in Int /\ d * e \in Int \ {0}
  OBVIOUS
<1>6. QED
  BY <1>1, <1>2, <1>3, <1>4, <1>5, SameFraction

LEMMA MinusIs ==
    ASSUME NEW n \in Int, NEW d \in Int \ {0}, NEW m \in Int, NEW e \in Int \ {0}
    PROVE  Minus(Fraction(n, d), Fraction(m, e)) = Fraction(n * e - m * d, d * e)
<1>1. PICK p \in Int, q \in Nat \ {0} : Fraction(n, d) = <<p, q>> /\ p * d = n * q
  BY FractionIs
<1>2. PICK r \in Int, s \in Nat \ {0} : Fraction(m, e) = <<r, s>> /\ r * e = m * s
  BY FractionIs
<1>3. Minus(<<p, q>>, <<r, s>>) = Fraction(p * s - r * q, q * s)
  BY DEF Minus, NaN
<1>4. (p * s - r * q) * (d * e) = (n * e - m * d) * (q * s)
  <2>1. (p * s - r * q) * (d * e) = (p * d) * (s * e) - (r * e) * (q * d)
    OBVIOUS
  <2>2. (n * q) * (s * e) - (m * s) * (q * d) = (n * e - m * d) * (q * s)
    OBVIOUS
  <2>3. QED
    BY <1>1, <1>2, <2>1, <2>2
<1>5. /\ p * s - r * q \in Int /\ q * s \in Int \ {0}
      /\ n * e - m * d \in Int /\ d * e \in Int \ {0}
  OBVIOUS
<1>6. QED
  BY <1>1, <1>2, <1>3, <1>4, <1>5, SameFraction

LEMMA TimesIs ==
    ASSUME NEW n \in Int, NEW d \in Int \ {0}, NEW m \in Int, NEW e \in Int \ {0}
    PROVE  Times(Fraction(n, d), Fraction(m, e)) = Fraction(n * m, d * e)
<1>1. PICK p \in Int, q \in Nat \ {0} : Fraction(n, d) = <<p, q>> /\ p * d = n * q
  BY FractionIs
<1>2. PICK r \in Int, s \in Nat \ {0} : Fraction(m, e) = <<r, s>> /\ r * e = m * s
  BY FractionIs
<1>3. Times(<<p, q>>, <<r, s>>) = Fraction(p * r, q * s)
  BY DEF Times, NaN
<1>4. (p * r) * (d * e) = (n * m) * (q * s)
  <2>1. (p * r) * (d * e) = (p * d) * (r * e)
    OBVIOUS
  <2>2. (n * q) * (m * s) = (n * m) * (q * s)
    OBVIOUS
  <2>3. QED
    BY <1>1, <1>2, <2>1, <2>2
<1>5. /\ p * r \in Int /\ q * s \in Int \ {0}
      /\ n * m \in Int /\ d * e \in Int \ {0}
  OBVIOUS
<1>6. QED
  BY <1>1, <1>2, <1>3, <1>4, <1>5, SameFraction

LEMMA OverIs ==
    ASSUME NEW n \in Int, NEW d \in Int \ {0}, NEW m \in Int, NEW e \in Int \ {0}
    PROVE  Over(Fraction(n, d), Fraction(m, e)) = Fraction(n * e, d * m)
<1>1. PICK p \in Int, q \in Nat \ {0} : Fraction(n, d) = <<p, q>> /\ p * d = n * q
  BY FractionIs
<1>2. PICK r \in Int, s \in Nat \ {0} : Fraction(m, e) = <<r, s>> /\ r * e = m * s
  BY FractionIs
<1>3. Over(<<p, q>>, <<r, s>>) = Fraction(p * s, q * r)
  BY DEF Over, NaN
<1>4. CASE m = 0
  <2>1. r = 0
    BY <1>2, <1>4
  <2>2. q * r = 0 /\ d * m = 0
    BY <1>4, <2>1
  <2>3. QED
    BY <1>1, <1>2, <1>3, <2>2 DEF Fraction
<1>5. CASE m # 0
  <2>1. r # 0
    BY <1>2, <1>5
  <2>2. (p * s) * (d * m) = (n * e) * (q * r)
    <3>1. (p * s) * (d * m) = (p * d) * (m * s)
      OBVIOUS
    <3>2. (n * q) * (r * e) = (n * e) * (q * r)
      OBVIOUS
    <3>3. QED
      BY <1>1, <1>2, <3>1, <3>2
  <2>3. /\ p * s \in Int /\ q * r \in Int \ {0}
        /\ n * e \in Int /\ d * m \in Int \ {0}
    BY <1>5, <2>1
  <2>4. QED
    BY <1>1, <1>2, <1>3, <2>2, <2>3, SameFraction
<1>6. QED
  BY <1>4, <1>5

LEMMA LessIs ==
    ASSUME NEW n \in Int, NEW d \in Nat \ {0}, NEW m \in Int, NEW e \in Nat \ {0}
    PROVE  Less(Fraction(n, d), Fraction(m, e)) <=> n * e < m * d
<1>0. d \in Int \ {0} /\ e \in Int \ {0}
  OBVIOUS
<1>1. PICK p \in Int, q \in Nat \ {0} : Fraction(n, d) = <<p, q>> /\ p * d = n * q
  BY <1>0, FractionIs
<1>2. PICK r \in Int, s \in Nat \ {0} : Fraction(m, e) = <<r, s>> /\ r * e = m * s
  BY <1>0, FractionIs
<1>3. Less(<<p, q>>, <<r, s>>) <=> p * s < r * q
  BY DEF Less, NaN
<1>4. (p * s) * (d * e) = (n * e) * (q * s) /\ (r * q) * (d * e) = (m * d) * (q * s)
  <2>1. (p * s) * (d * e) = (p * d) * (s * e) /\ (r * q) * (d * e) = (r * e) * (q * d)
    OBVIOUS
  <2>2. (n * q) * (s * e) = (n * e) * (q * s) /\ (m * s) * (q * d) = (m * d) * (q * s)
    OBVIOUS
  <2>3. QED
    BY <1>1, <1>2, <2>1, <2>2
<1>5. \A a, b \in Int, c \in Nat \ {0} : a * c < b * c <=> a < b
  OBVIOUS
<1>6. p * s < r * q <=> n * e < m * d
  <2>1. /\ p * s \in Int /\ r * q \in Int /\ n * e \in Int /\ m * d \in Int
        /\ d * e \in Nat \ {0} /\ q * s \in Nat \ {0}
    OBVIOUS
  <2>2. /\ (p * s) * (d * e) < (r * q) * (d * e) <=> p * s < r * q
        /\ (n * e) * (q * s) < (m * d) * (q * s) <=> n * e < m * d
    BY <1>5, <2>1
  <2>3. QED
    BY <1>4, <2>2
<1>7. QED
  BY <1>1, <1>2, <1>3, <1>6

-----------------------------------------------------------------------------
\* Another unit: every number times k.
Unit == {k \in Rational : k[1] > 0}

LEMMA OperatorsTyped ==
    ASSUME NEW x \in Numeric, NEW y \in Numeric
    PROVE  /\ Plus(x, y) \in Numeric /\ Minus(x, y) \in Numeric
           /\ Times(x, y) \in Numeric /\ Over(x, y) \in Numeric
<1>1. CASE NaN \in {x, y}
  BY <1>1 DEF Plus, Minus, Times, Over, Numeric
<1>2. CASE NaN \notin {x, y}
  <2>1. /\ x[1] \in Int /\ x[2] \in Nat \ {0}
        /\ y[1] \in Int /\ y[2] \in Nat \ {0}
    BY <1>2, NumericParts, RationalIs
  <2>2. /\ x[1] * y[2] + y[1] * x[2] \in Int /\ x[1] * y[2] - y[1] * x[2] \in Int
        /\ x[1] * y[1] \in Int /\ x[1] * y[2] \in Int
        /\ x[2] * y[2] \in Int /\ x[2] * y[1] \in Int
    BY <2>1
  <2>3. QED
    BY <1>2, <2>2, QuotientTyped DEF Plus, Minus, Times, Over
<1>3. QED
  BY <1>1, <1>2

\* What holds of NaN need not be said of it.
LEMMA OfNaN ==
    ASSUME NEW x \in Numeric
    PROVE  /\ Plus(NaN, x) = NaN /\ Plus(x, NaN) = NaN
           /\ Minus(NaN, x) = NaN /\ Minus(x, NaN) = NaN
           /\ Times(NaN, x) = NaN /\ Times(x, NaN) = NaN
           /\ Over(NaN, x) = NaN /\ Over(x, NaN) = NaN
           /\ ~Less(NaN, x) /\ ~Less(x, NaN)
BY DEF Plus, Minus, Times, Over, Less

LEMMA TimesTyped ==
    ASSUME NEW k \in Unit, NEW x \in Rational
    PROVE  /\ k \in Rational /\ k \in Numeric
           /\ Times(k, x) = Fraction(k[1] * x[1], k[2] * x[2])
           /\ k[1] \in Nat \ {0} /\ k[2] \in Nat \ {0} /\ k = Fraction(k[1], k[2])
           /\ Times(k, x) \in Rational /\ Times(k, x) # NaN
<1>1. k \in Rational /\ k \in Numeric /\ k[1] \in Int /\ k[1] > 0
  BY RationalIs DEF Unit, Numeric
<1>2. /\ x[1] \in Int /\ x[2] \in Nat \ {0} /\ x # NaN
      /\ k[2] \in Nat \ {0} /\ k # NaN /\ k = Fraction(k[1], k[2])
  BY <1>1, RationalIs
<1>3. Times(k, x) = Fraction(k[1] * x[1], k[2] * x[2])
  BY <1>2 DEF Times
<1>4. k[1] * x[1] \in Int /\ k[2] * x[2] \in Int \ {0}
  BY <1>1, <1>2
<1>5. Times(k, x) \in Rational
  BY <1>3, <1>4, FractionTyped
<1>6. QED
  BY <1>1, <1>2, <1>3, <1>5, RationalIs

LEMMA ScaleIsNumber ==
    ASSUME NEW k \in Unit, NEW x \in Numeric
    PROVE  Times(k, x) \in Numeric /\ (Times(k, x) = NaN <=> x = NaN)
<1>1. k \in Numeric
  BY DEF Unit, Numeric
<1>2. QED
  BY <1>1, NumericParts, TimesTyped, OfNaN, OperatorsTyped

\* Two numbers in another unit, as fractions.
Terms(k, x, y, a, b, n, d, m, e) ==
    /\ k = Fraction(a, b) /\ x = Fraction(n, d) /\ y = Fraction(m, e)
    /\ Times(k, x) = Fraction(a * n, b * d) /\ Times(k, y) = Fraction(a * m, b * e)

LEMMA InUnit ==
    ASSUME NEW k \in Unit, NEW x \in Rational, NEW y \in Rational
    PROVE  \E a, b, d, e \in Nat \ {0}, n, m \in Int : Terms(k, x, y, a, b, n, d, m, e)
<1>1. Terms(k, x, y, k[1], k[2], x[1], x[2], y[1], y[2])
  BY TimesTyped, RationalIs DEF Terms
<1>2. /\ k[1] \in Nat \ {0} /\ k[2] \in Nat \ {0} /\ x[2] \in Nat \ {0} /\ y[2] \in Nat \ {0}
      /\ x[1] \in Int /\ y[1] \in Int
  BY TimesTyped, RationalIs
<1>3. QED
  BY <1>1, <1>2

LEMMA ScalePlus ==
    ASSUME NEW k \in Unit, NEW x \in Numeric, NEW y \in Numeric
    PROVE  Plus(Times(k, x), Times(k, y)) = Times(k, Plus(x, y))
<1>0. k \in Numeric
  BY DEF Unit, Numeric
<1>1. CASE x \in Rational /\ y \in Rational
  <2>0. PICK a, b, d, e \in Nat \ {0}, n, m \in Int : Terms(k, x, y, a, b, n, d, m, e)
    BY <1>1, InUnit
  <2>1. /\ k = Fraction(a, b) /\ x = Fraction(n, d) /\ y = Fraction(m, e)
        /\ Times(k, x) = Fraction(a * n, b * d) /\ Times(k, y) = Fraction(a * m, b * e)
    BY <2>0 DEF Terms
  <2>2. /\ a * n \in Int /\ a * m \in Int /\ b * d \in Int \ {0} /\ b * e \in Int \ {0}
        /\ n * e + m * d \in Int /\ d * e \in Int \ {0}
        /\ b \in Int \ {0} /\ a \in Int /\ d \in Int \ {0} /\ e \in Int \ {0}
    OBVIOUS
  <2>3. Plus(Times(k, x), Times(k, y)) = Fraction((a * n) * (b * e) + (a * m) * (b * d), (b * d) * (b * e))
    BY <2>1, <2>2, PlusIs
  <2>4. Plus(x, y) = Fraction(n * e + m * d, d * e)
    BY <2>1, <2>2, PlusIs
  <2>5. Times(k, Plus(x, y)) = Fraction(a * (n * e + m * d), b * (d * e))
    BY <2>1, <2>2, <2>4, TimesIs
  <2>6. /\ (a * n) * (b * e) + (a * m) * (b * d) \in Int /\ (b * d) * (b * e) \in Int \ {0}
        /\ a * (n * e + m * d) \in Int /\ b * (d * e) \in Int \ {0}
    OBVIOUS
  <2>7. ((a * n) * (b * e) + (a * m) * (b * d)) * (b * (d * e)) = (a * (n * e + m * d)) * ((b * d) * (b * e))
    OBVIOUS
  <2>8. QED
    BY <2>3, <2>5, <2>6, <2>7, SameFraction
<1>2. CASE x = NaN \/ y = NaN
  <2>1. Times(k, x) \in Numeric /\ Times(k, y) \in Numeric
    BY ScaleIsNumber
  <2>2. QED
    BY <1>0, <1>2, <2>1, OfNaN
<1>3. QED
  BY <1>1, <1>2, NumericParts

LEMMA ScaleMinus ==
    ASSUME NEW k \in Unit, NEW x \in Numeric, NEW y \in Numeric
    PROVE  Minus(Times(k, x), Times(k, y)) = Times(k, Minus(x, y))
<1>0. k \in Numeric
  BY DEF Unit, Numeric
<1>1. CASE x \in Rational /\ y \in Rational
  <2>0. PICK a, b, d, e \in Nat \ {0}, n, m \in Int : Terms(k, x, y, a, b, n, d, m, e)
    BY <1>1, InUnit
  <2>1. /\ k = Fraction(a, b) /\ x = Fraction(n, d) /\ y = Fraction(m, e)
        /\ Times(k, x) = Fraction(a * n, b * d) /\ Times(k, y) = Fraction(a * m, b * e)
    BY <2>0 DEF Terms
  <2>2. /\ a * n \in Int /\ a * m \in Int /\ b * d \in Int \ {0} /\ b * e \in Int \ {0}
        /\ n * e - m * d \in Int /\ d * e \in Int \ {0}
        /\ b \in Int \ {0} /\ a \in Int /\ d \in Int \ {0} /\ e \in Int \ {0}
    OBVIOUS
  <2>3. Minus(Times(k, x), Times(k, y)) = Fraction((a * n) * (b * e) - (a * m) * (b * d), (b * d) * (b * e))
    BY <2>1, <2>2, MinusIs
  <2>4. Minus(x, y) = Fraction(n * e - m * d, d * e)
    BY <2>1, <2>2, MinusIs
  <2>5. Times(k, Minus(x, y)) = Fraction(a * (n * e - m * d), b * (d * e))
    BY <2>1, <2>2, <2>4, TimesIs
  <2>6. /\ (a * n) * (b * e) - (a * m) * (b * d) \in Int /\ (b * d) * (b * e) \in Int \ {0}
        /\ a * (n * e - m * d) \in Int /\ b * (d * e) \in Int \ {0}
    OBVIOUS
  <2>7. ((a * n) * (b * e) - (a * m) * (b * d)) * (b * (d * e)) = (a * (n * e - m * d)) * ((b * d) * (b * e))
    OBVIOUS
  <2>8. QED
    BY <2>3, <2>5, <2>6, <2>7, SameFraction
<1>2. CASE x = NaN \/ y = NaN
  <2>1. Times(k, x) \in Numeric /\ Times(k, y) \in Numeric
    BY ScaleIsNumber
  <2>2. QED
    BY <1>0, <1>2, <2>1, OfNaN
<1>3. QED
  BY <1>1, <1>2, NumericParts

\* Factors may change places.
LEMMA ScaleTimes ==
    ASSUME NEW k \in Unit, NEW x \in Numeric, NEW y \in Numeric
    PROVE  Times(x, Times(k, y)) = Times(k, Times(x, y))
<1>0. k \in Numeric
  BY DEF Unit, Numeric
<1>1. CASE x \in Rational /\ y \in Rational
  <2>0. PICK a, b, d, e \in Nat \ {0}, n, m \in Int : Terms(k, x, y, a, b, n, d, m, e)
    BY <1>1, InUnit
  <2>1. /\ k = Fraction(a, b) /\ x = Fraction(n, d) /\ y = Fraction(m, e)
        /\ Times(k, x) = Fraction(a * n, b * d) /\ Times(k, y) = Fraction(a * m, b * e)
    BY <2>0 DEF Terms
  <2>2. /\ a * m \in Int /\ b * e \in Int \ {0}
        /\ n * m \in Int /\ d * e \in Int \ {0}
        /\ b \in Int \ {0} /\ a \in Int /\ d \in Int \ {0} /\ e \in Int \ {0}
    OBVIOUS
  <2>3. Times(x, Times(k, y)) = Fraction(n * (a * m), d * (b * e))
    BY <2>1, <2>2, TimesIs
  <2>4. Times(x, y) = Fraction(n * m, d * e)
    BY <2>1, <2>2, TimesIs
  <2>5. Times(k, Times(x, y)) = Fraction(a * (n * m), b * (d * e))
    BY <2>1, <2>2, <2>4, TimesIs
  <2>6. n * (a * m) = a * (n * m) /\ d * (b * e) = b * (d * e)
    OBVIOUS
  <2>7. QED
    BY <2>3, <2>5, <2>6
<1>2. CASE x = NaN \/ y = NaN
  <2>1. Times(k, y) \in Numeric
    BY ScaleIsNumber
  <2>2. QED
    BY <1>0, <1>2, <2>1, OfNaN
<1>3. QED
  BY <1>1, <1>2, NumericParts

\* A number of the unit over one without is of the unit.
LEMMA ScaleOver ==
    ASSUME NEW k \in Unit, NEW x \in Numeric, NEW y \in Numeric
    PROVE  Over(Times(k, x), y) = Times(k, Over(x, y))
<1>0. k \in Numeric
  BY DEF Unit, Numeric
<1>1. CASE x \in Rational /\ y \in Rational
  <2>0. PICK a, b, d, e \in Nat \ {0}, n, m \in Int : Terms(k, x, y, a, b, n, d, m, e)
    BY <1>1, InUnit
  <2>1. /\ k = Fraction(a, b) /\ x = Fraction(n, d) /\ y = Fraction(m, e)
        /\ Times(k, x) = Fraction(a * n, b * d) /\ Times(k, y) = Fraction(a * m, b * e)
    BY <2>0 DEF Terms
  <2>2. /\ a * n \in Int /\ b * d \in Int \ {0} /\ n * e \in Int
        /\ b \in Int \ {0} /\ a \in Int /\ d \in Int \ {0} /\ e \in Int \ {0}
    OBVIOUS
  <2>3. Over(Times(k, x), y) = Fraction((a * n) * e, (b * d) * m) /\ Over(x, y) = Fraction(n * e, d * m)
    BY <2>1, <2>2, OverIs
  <2>4. CASE m = 0
    <3>1. (b * d) * m = 0 /\ d * m = 0
      BY <2>4
    <3>2. QED
      BY <1>0, <2>3, <3>1, OfNaN DEF Fraction
  <2>5. CASE m # 0
    <3>1. d * m \in Int \ {0}
      BY <2>5
    <3>2. Times(k, Over(x, y)) = Fraction(a * (n * e), b * (d * m))
      BY <2>1, <2>2, <2>3, <3>1, TimesIs
    <3>3. (a * n) * e = a * (n * e) /\ (b * d) * m = b * (d * m)
      OBVIOUS
    <3>4. QED
      BY <2>3, <3>2, <3>3
  <2>6. QED
    BY <2>4, <2>5
<1>2. CASE x = NaN \/ y = NaN
  <2>1. Times(k, x) \in Numeric
    BY ScaleIsNumber
  <2>2. QED
    BY <1>0, <1>2, <2>1, OfNaN
<1>3. QED
  BY <1>1, <1>2, NumericParts

\* A quotient of two numbers of the same unit has none.
LEMMA ScaleRatio ==
    ASSUME NEW k \in Unit, NEW x \in Numeric, NEW y \in Numeric
    PROVE  Over(Times(k, x), Times(k, y)) = Over(x, y)
<1>0. k \in Numeric
  BY DEF Unit, Numeric
<1>1. CASE x \in Rational /\ y \in Rational
  <2>0. PICK a, b, d, e \in Nat \ {0}, n, m \in Int : Terms(k, x, y, a, b, n, d, m, e)
    BY <1>1, InUnit
  <2>1. /\ k = Fraction(a, b) /\ x = Fraction(n, d) /\ y = Fraction(m, e)
        /\ Times(k, x) = Fraction(a * n, b * d) /\ Times(k, y) = Fraction(a * m, b * e)
    BY <2>0 DEF Terms
  <2>2. /\ a * n \in Int /\ b * d \in Int \ {0} /\ a * m \in Int /\ b * e \in Int \ {0} /\ n * e \in Int
        /\ d \in Int \ {0} /\ e \in Int \ {0}
    OBVIOUS
  <2>3. /\ Over(Times(k, x), Times(k, y)) = Fraction((a * n) * (b * e), (b * d) * (a * m))
        /\ Over(x, y) = Fraction(n * e, d * m)
    BY <2>1, <2>2, OverIs
  <2>4. CASE m = 0
    <3>1. (b * d) * (a * m) = 0 /\ d * m = 0
      BY <2>4
    <3>2. QED
      BY <2>3, <3>1 DEF Fraction
  <2>5. CASE m # 0
    <3>1. d * m \in Int \ {0} /\ a * b \in Int \ {0}
      BY <2>5
    <3>2. (a * n) * (b * e) = (a * b) * (n * e) /\ (b * d) * (a * m) = (a * b) * (d * m)
      OBVIOUS
    <3>3. Fraction((a * b) * (n * e), (a * b) * (d * m)) = Fraction(n * e, d * m)
      BY <2>2, <3>1, ExtendedFraction
    <3>4. QED
      BY <2>3, <3>2, <3>3
  <2>6. QED
    BY <2>4, <2>5
<1>2. CASE x = NaN \/ y = NaN
  <2>1. Times(k, x) \in Numeric /\ Times(k, y) \in Numeric
    BY ScaleIsNumber
  <2>2. QED
    BY <1>0, <1>2, <2>1, OfNaN
<1>3. QED
  BY <1>1, <1>2, NumericParts

\* Nor does the unit decide which of two numbers is greater, or whether they are equal.
LEMMA ScaleLess ==
    ASSUME NEW k \in Unit, NEW x \in Numeric, NEW y \in Numeric
    PROVE  Less(Times(k, x), Times(k, y)) <=> Less(x, y)
<1>0. k \in Numeric
  BY DEF Unit, Numeric
<1>1. CASE x \in Rational /\ y \in Rational
  <2>0. PICK a, b, d, e \in Nat \ {0}, n, m \in Int : Terms(k, x, y, a, b, n, d, m, e)
    BY <1>1, InUnit
  <2>1. /\ k = Fraction(a, b) /\ x = Fraction(n, d) /\ y = Fraction(m, e)
        /\ Times(k, x) = Fraction(a * n, b * d) /\ Times(k, y) = Fraction(a * m, b * e)
    BY <2>0 DEF Terms
  <2>2. /\ a * n \in Int /\ b * d \in Nat \ {0} /\ a * m \in Int /\ b * e \in Nat \ {0}
        /\ n * e \in Int /\ m * d \in Int /\ a * b \in Nat \ {0}
    OBVIOUS
  <2>3. Less(Times(k, x), Times(k, y)) <=> (a * n) * (b * e) < (a * m) * (b * d)
    BY <2>1, <2>2, LessIs
  <2>4. Less(x, y) <=> n * e < m * d
    BY <2>1, LessIs
  <2>5. (a * n) * (b * e) = (n * e) * (a * b) /\ (a * m) * (b * d) = (m * d) * (a * b)
    OBVIOUS
  <2>6. \A p, q \in Int, c \in Nat \ {0} : p * c < q * c <=> p < q
    OBVIOUS
  <2>7. (n * e) * (a * b) < (m * d) * (a * b) <=> n * e < m * d
    BY <2>2, <2>6
  <2>8. QED
    BY <2>3, <2>4, <2>5, <2>7
<1>2. CASE x = NaN \/ y = NaN
  <2>1. Times(k, x) \in Numeric /\ Times(k, y) \in Numeric
    BY ScaleIsNumber
  <2>2. QED
    BY <1>0, <1>2, <2>1, OfNaN
<1>3. QED
  BY <1>1, <1>2, NumericParts

LEMMA ScaleEqual ==
    ASSUME NEW k \in Unit, NEW x \in Numeric, NEW y \in Numeric
    PROVE  Times(k, x) = Times(k, y) <=> x = y
<1>1. CASE x \in Rational /\ y \in Rational /\ Times(k, x) = Times(k, y)
  <2>0. PICK a, b, d, e \in Nat \ {0}, n, m \in Int : Terms(k, x, y, a, b, n, d, m, e)
    BY <1>1, InUnit
  <2>1. /\ k = Fraction(a, b) /\ x = Fraction(n, d) /\ y = Fraction(m, e)
        /\ Times(k, x) = Fraction(a * n, b * d) /\ Times(k, y) = Fraction(a * m, b * e)
    BY <2>0 DEF Terms
  <2>2. /\ a * n \in Int /\ b * d \in Int \ {0} /\ a * m \in Int /\ b * e \in Int \ {0}
    OBVIOUS
  <2>3. PICK u \in Int, v \in Nat \ {0} :
          Fraction(a * n, b * d) = <<u, v>> /\ u * (b * d) = (a * n) * v
    BY <2>2, FractionIs
  <2>4. PICK r \in Int, s \in Nat \ {0} :
          Fraction(a * m, b * e) = <<r, s>> /\ r * (b * e) = (a * m) * s
    BY <2>2, FractionIs
  <2>5. u = r /\ v = s
    BY <1>1, <2>1, <2>3, <2>4
  <2>6. (n * e) * (a * v) = (m * d) * (a * v)
    <3>1. (n * e) * (a * v) = ((a * n) * v) * e /\ (m * d) * (a * v) = ((a * m) * v) * d
      OBVIOUS
    <3>2. (u * (b * d)) * e = (u * (b * e)) * d
      OBVIOUS
    <3>3. QED
      BY <2>3, <2>4, <2>5, <3>1, <3>2
  <2>7. n * e = m * d
    <3>1. \A p, q \in Int, c \in Nat \ {0} : p * c = q * c => p = q
      OBVIOUS
    <3>2. n * e \in Int /\ m * d \in Int /\ a * v \in Nat \ {0}
      OBVIOUS
    <3>3. QED
      BY <2>6, <3>1, <3>2
  <2>8. d \in Int \ {0} /\ e \in Int \ {0}
    OBVIOUS
  <2>9. QED
    BY <2>1, <2>7, <2>8, SameFraction
<1>2. CASE x = NaN \/ y = NaN
  BY <1>2, ScaleIsNumber
<1>3. QED
  BY <1>1, <1>2, NumericParts

LEMMA ScaleZero ==
    ASSUME NEW k \in Unit
    PROVE  Times(k, Num(0)) = Num(0) /\ Num(0) \in Numeric
<1>1. /\ k[1] \in Nat \ {0} /\ k[2] \in Int \ {0} /\ k = Fraction(k[1], k[2])
      /\ Num(0) \in Rational /\ Num(0) = Fraction(0, 1)
  BY TimesTyped, NumIs
<1>2. k[1] * 0 = 0 /\ k[2] * 1 = k[2] /\ 0 * k[2] = 0 * 1 /\ 1 \in Int \ {0} /\ k[1] \in Int
  BY <1>1
<1>3. Times(k, Num(0)) = Fraction(0, k[2])
  <2>1. PICK a \in Int, b \in Int \ {0} : a = k[1] /\ b = k[2]
    BY <1>1, <1>2
  <2>2. Times(Fraction(a, b), Fraction(0, 1)) = Fraction(a * 0, b * 1)
    BY TimesIs
  <2>3. QED
    BY <1>1, <1>2, <2>1, <2>2
<1>4. Fraction(0, k[2]) = Fraction(0, 1)
  BY <1>1, <1>2, SameFraction
<1>5. QED
  BY <1>1, <1>3, <1>4 DEF Numeric

-----------------------------------------------------------------------------
\* What is accumulated along a sequence.
Accumulates(f, step, first, s, n) ==
    \A m \in 0 .. n : f[m] = IF m = 0 THEN first ELSE step[f[m - 1]][s[m]]

LEMMA AccumulationExists ==
    ASSUME NEW step, NEW first, NEW s, NEW n \in Nat
    PROVE  \E f : Accumulates(f, step, first, s, n)
<1> DEFINE none == {m \in Nat : ~\E f : Accumulates(f, step, first, s, m)}
<1> SUFFICES ASSUME none # {} PROVE FALSE
  OBVIOUS
<1>1. PICK m \in none : \A k \in none : m <= k
  <2>1. none \in SUBSET Nat
    OBVIOUS
  <2> HIDE DEF none
  <2>2. QED
    BY <2>1, Smallest
<1>2. CASE m = 0
  <2>1. Accumulates([k \in {0} |-> first], step, first, s, 0)
    BY DEF Accumulates
  <2>2. QED
    BY <1>2, <2>1
<1>3. CASE m # 0
  <2>1. m - 1 \in Nat /\ ~ (m <= m - 1)
    BY <1>3
  <2>2. PICK f : Accumulates(f, step, first, s, m - 1)
    BY <1>1, <2>1
  <2> DEFINE h == [k \in 0 .. m |-> IF k = m THEN step[f[m - 1]][s[m]] ELSE f[k]]
  <2>3. ASSUME NEW k \in 0 .. m
        PROVE  h[k] = IF k = 0 THEN first ELSE step[h[k - 1]][s[k]]
    <3>1. CASE k = m
      <4>1. k - 1 \in 0 .. m /\ k - 1 # m
        BY <1>3, <3>1
      <4>2. QED
        BY <1>3, <3>1, <4>1
    <3>2. CASE k # m
      <4>1. k \in 0 .. (m - 1)
        BY <3>2
      <4>2. f[k] = IF k = 0 THEN first ELSE step[f[k - 1]][s[k]]
        BY <2>2, <4>1 DEF Accumulates
      <4>3. k # 0 => k - 1 \in 0 .. m /\ k - 1 # m
        BY <4>1
      <4>4. QED
        BY <3>2, <4>2, <4>3
    <3>3. QED
      BY <3>1, <3>2
  <2>4. Accumulates(h, step, first, s, m)
    <3> HIDE DEF h
    <3>1. QED
      BY <2>3 DEF Accumulates
  <2>5. QED
    BY <2>4
<1>4. QED
  BY <1>2, <1>3

LEMMA AccumulatedIs ==
    ASSUME NEW step, NEW first, NEW s, Len(s) \in Nat
    PROVE  \E f : /\ Accumulates(f, step, first, s, Len(s))
                  /\ Accumulated(step, first, s) = f[Len(s)]
<1> DEFINE n == Len(s)
           Solves(f) == f = [m \in 0 .. n |-> IF m = 0 THEN first ELSE step[f[m - 1]][s[m]]]
<1>1. PICK f : Accumulates(f, step, first, s, n)
  BY AccumulationExists
<1> DEFINE g == [m \in 0 .. n |-> f[m]]
<1>2. Solves(g)
  <2>1. \A m \in 0 .. n : f[m] = IF m = 0 THEN first ELSE step[g[m - 1]][s[m]]
    <3>1. ASSUME NEW m \in 0 .. n PROVE f[m] = IF m = 0 THEN first ELSE step[g[m - 1]][s[m]]
      <4>1. m # 0 => m - 1 \in 0 .. n
        OBVIOUS
      <4>2. QED
        BY <1>1, <4>1 DEF Accumulates
    <3>2. QED
      BY <3>1
  <2>2. QED
    BY <2>1
<1> HIDE DEF g
<1>3. PICK h : h = CHOOSE e : Solves(e)
  OBVIOUS
<1>4. Solves(h)
  BY <1>2, <1>3
<1>5. Accumulated(step, first, s) = h[n]
  BY <1>3 DEF Accumulated
<1>6. Accumulates(h, step, first, s, n)
  <2>1. ASSUME NEW m \in 0 .. n PROVE h[m] = IF m = 0 THEN first ELSE step[h[m - 1]][s[m]]
    BY <1>4
  <2>2. QED
    BY <2>1 DEF Accumulates
<1>7. QED
  BY <1>5, <1>6

\* The step does not mind the unit; then what is accumulated is of the unit.
StepScales(step, k, s, r) ==
    \A m \in 1 .. Len(s), v \in Numeric :
      /\ step[v][s[m]] \in Numeric
      /\ step[Times(k, v)][r[m]] = Times(k, step[v][s[m]])

LEMMA AccumulationScales ==
    ASSUME NEW k \in Unit, NEW step, NEW first \in Numeric, NEW s, NEW r,
           Len(s) \in Nat, Len(r) = Len(s), StepScales(step, k, s, r)
    PROVE  /\ Accumulated(step, first, s) \in Numeric
           /\ Accumulated(step, Times(k, first), r) = Times(k, Accumulated(step, first, s))
<1>1. PICK n \in Nat : n = Len(s)
  OBVIOUS
<1>2. PICK f : Accumulates(f, step, first, s, n) /\ Accumulated(step, first, s) = f[n]
  BY <1>1, AccumulatedIs
<1>3. PICK g : /\ Accumulates(g, step, Times(k, first), r, n)
               /\ Accumulated(step, Times(k, first), r) = g[n]
  <2>1. \A start : \E g : Accumulates(g, step, start, r, n) /\ Accumulated(step, start, r) = g[n]
    BY <1>1, AccumulatedIs
  <2>2. QED
    BY <2>1
<1> DEFINE wrong == {m \in Nat : m <= n /\ ~(f[m] \in Numeric /\ g[m] = Times(k, f[m]))}
<1>4. wrong = {}
  <2> SUFFICES ASSUME wrong # {} PROVE FALSE
    OBVIOUS
  <2>1. PICK m \in wrong : \A j \in wrong : m <= j
    <3>1. wrong \in SUBSET Nat
      OBVIOUS
    <3> HIDE DEF wrong
    <3>2. QED
      BY <3>1, Smallest
  <2>2. m \in Nat /\ m <= n /\ ~(f[m] \in Numeric /\ g[m] = Times(k, f[m]))
    OBVIOUS
  <2>3. CASE m = 0
    <3>1. f[0] = first /\ g[0] = Times(k, first)
      BY <1>2, <1>3 DEF Accumulates
    <3>2. QED
      BY <2>2, <2>3, <3>1
  <2>4. CASE m # 0
    <3>1. /\ m \in 0 .. n /\ m \in 1 .. Len(s) /\ m - 1 \in Nat
          /\ m - 1 <= n /\ ~(m <= m - 1)
      BY <1>1, <2>2, <2>4
    <3>2. m - 1 \notin wrong
      BY <2>1, <3>1
    <3>3. f[m - 1] \in Numeric /\ g[m - 1] = Times(k, f[m - 1])
      BY <3>1, <3>2
    <3>4. f[m] = step[f[m - 1]][s[m]] /\ g[m] = step[g[m - 1]][r[m]]
      BY <1>2, <1>3, <2>4, <3>1 DEF Accumulates
    <3>5. QED
      BY <2>2, <3>1, <3>3, <3>4 DEF StepScales
  <2>5. QED
    BY <2>3, <2>4
<1>5. f[n] \in Numeric /\ g[n] = Times(k, f[n])
  BY <1>4
<1>6. QED
  BY <1>2, <1>3, <1>5

-----------------------------------------------------------------------------
\* Columns of n numbers, and their sums and means.
Column(x, n)  == DOMAIN x = 1 .. n /\ \A i \in 1 .. n : x[i] \in Numeric
Scaled(x, k)  == [i \in DOMAIN x |-> Times(k, x[i])]

LEMMA ScaledIs ==
    ASSUME NEW n \in Nat, NEW x, Column(x, n), NEW k \in Unit
    PROVE  /\ DOMAIN Scaled(x, k) = 1 .. n /\ DOMAIN x = 1 .. n /\ Column(Scaled(x, k), n)
           /\ \A i \in 1 .. n : Scaled(x, k)[i] = Times(k, x[i]) /\ x[i] \in Numeric
BY ScaleIsNumber DEF Column, Scaled

LEMMA WindowIs ==
    ASSUME NEW n \in Nat, NEW x, Column(x, n), NEW k \in Unit,
           NEW i \in 1 .. n, NEW period \in Nat, period <= i
    PROVE  /\ Column(Window(x, i, period), period) /\ Len(Window(x, i, period)) = period
           /\ Len(Window(Scaled(x, k), i, period)) = period
           /\ Window(Scaled(x, k), i, period) = Scaled(Window(x, i, period), k)
<1>1. \A j \in 1 .. period : i - period + j \in 1 .. n
  OBVIOUS
<1>2. \A j \in 1 .. period : x[i - period + j] \in Numeric
  BY <1>1 DEF Column
<1>3. \A j \in 1 .. period : Scaled(x, k)[i - period + j] = Times(k, x[i - period + j])
  BY <1>1, ScaledIs
<1>4. Column(Window(x, i, period), period)
  BY <1>2 DEF Column, Window
<1>5. Len(Window(x, i, period)) = period /\ Len(Window(Scaled(x, k), i, period)) = period
  BY DEF Window
<1>6. Window(Scaled(x, k), i, period) = Scaled(Window(x, i, period), k)
  BY <1>3 DEF Window, Scaled
<1>7. QED
  BY <1>4, <1>5, <1>6

LEMMA TotalScales ==
    ASSUME NEW n \in Nat, NEW s, Column(s, n), Len(s) = n, NEW k \in Unit, Len(Scaled(s, k)) = n
    PROVE  Total(s) \in Numeric /\ Total(Scaled(s, k)) = Times(k, Total(s))
<1> DEFINE step == [x \in Number |-> [y \in Number |-> Plus(x, y)]]
<1>1. \A v, w \in Numeric : step[v][w] = Plus(v, w)
  BY NumericParts
<1>2. ASSUME NEW m \in 1 .. n, NEW v \in Numeric
      PROVE  step[v][s[m]] \in Numeric /\ step[Times(k, v)][Scaled(s, k)[m]] = Times(k, step[v][s[m]])
  <2> HIDE DEF step
  <2>1. s[m] \in Numeric /\ Scaled(s, k)[m] = Times(k, s[m])
    BY ScaledIs
  <2>2. Times(k, s[m]) \in Numeric /\ Times(k, v) \in Numeric
    BY <2>1, ScaleIsNumber
  <2>3. step[v][s[m]] = Plus(v, s[m]) /\ step[Times(k, v)][Times(k, s[m])] = Plus(Times(k, v), Times(k, s[m]))
    BY <1>1, <2>1, <2>2
  <2>4. QED
    BY <2>1, <2>3, ScalePlus, OperatorsTyped
<1> HIDE DEF step
<1>3. Num(0) \in Numeric /\ Times(k, Num(0)) = Num(0)
  BY ScaleZero
<1>4. /\ Accumulated(step, Num(0), s) \in Numeric
      /\ Accumulated(step, Times(k, Num(0)), Scaled(s, k)) = Times(k, Accumulated(step, Num(0), s))
  <2>1. PICK r : r = Scaled(s, k)
    OBVIOUS
  <2>2. Len(s) \in Nat /\ Len(r) = Len(s)
    BY <2>1
  <2>3. StepScales(step, k, s, r)
    BY <1>2, <2>1 DEF StepScales
  <2>4. QED
    BY <1>3, <2>1, <2>2, <2>3, AccumulationScales
<1>5. Total(s) = Accumulated(step, Num(0), s) /\ Total(Scaled(s, k)) = Accumulated(step, Num(0), Scaled(s, k))
  BY DEF Total, step
<1>6. QED
  BY <1>3, <1>4, <1>5

LEMMA MeanScales ==
    ASSUME NEW n \in Nat, NEW s, Column(s, n), Len(s) = n, NEW k \in Unit, Len(Scaled(s, k)) = n
    PROVE  Mean(s) \in Numeric /\ Mean(Scaled(s, k)) = Times(k, Mean(s))
<1>1. Num(n) \in Numeric
  BY NumIs DEF Numeric
<1>2. Total(s) \in Numeric /\ Total(Scaled(s, k)) = Times(k, Total(s))
  BY TotalScales
<1>3. QED
  BY <1>1, <1>2, ScaleOver, OperatorsTyped DEF Mean

LEMMA FullScales ==
    ASSUME NEW n \in Nat, NEW x, Column(x, n), NEW k \in Unit, NEW i \in 1 .. n, NEW period \in Nat
    PROVE  /\ Full(Scaled(x, k), i, period) <=> Full(x, i, period)
           /\ Full(x, i, period) => period <= i
<1>1. \A j : j \in DOMAIN Scaled(x, k) /\ Scaled(x, k)[j] # NaN <=> j \in DOMAIN x /\ x[j] # NaN
  BY ScaledIs, ScaleIsNumber
<1>2. Full(Scaled(x, k), i, period) <=> Full(x, i, period)
  BY <1>1 DEF Full
<1>3. ASSUME Full(x, i, period), ~(period <= i) PROVE FALSE
  <2>1. i - period + 1 \in (i - period + 1) .. i
    BY <1>3
  <2>2. i - period + 1 \in DOMAIN x
    BY <1>3, <2>1 DEF Full
  <2>3. i - period + 1 \in 1 .. n
    BY <2>2 DEF Column
  <2>4. QED
    BY <1>3, <2>3
<1>4. QED
  BY <1>2, <1>3

LEMMA RollingMeanScales ==
    ASSUME NEW n \in Nat, NEW x, Column(x, n), NEW k \in Unit, NEW period \in Nat
    PROVE  /\ Column(RollingMean(x, period), n)
           /\ RollingMean(Scaled(x, k), period) = Scaled(RollingMean(x, period), k)
<1>1. DOMAIN x = 1 .. n /\ DOMAIN Scaled(x, k) = 1 .. n
  BY ScaledIs
<1> DEFINE mean(y, i) == IF Full(y, i, period) THEN Mean(Window(y, i, period)) ELSE NaN
<1>2. ASSUME NEW i \in 1 .. n
      PROVE  mean(x, i) \in Numeric /\ mean(Scaled(x, k), i) = Times(k, mean(x, i))
  <2>1. CASE Full(x, i, period)
    <3>1. period <= i /\ Full(Scaled(x, k), i, period)
      BY <2>1, FullScales
    <3>2. PICK w : w = Window(x, i, period)
      OBVIOUS
    <3>3. /\ Column(w, period) /\ Len(w) = period /\ Len(Scaled(w, k)) = period
          /\ Window(Scaled(x, k), i, period) = Scaled(w, k)
      BY <3>1, <3>2, WindowIs
    <3>4. Mean(w) \in Numeric /\ Mean(Scaled(w, k)) = Times(k, Mean(w))
      BY <3>3, MeanScales
    <3>5. QED
      BY <2>1, <3>1, <3>2, <3>3, <3>4
  <2>2. CASE ~Full(x, i, period)
    <3>1. ~Full(Scaled(x, k), i, period)
      BY <2>2, FullScales
    <3>2. NaN \in Numeric
      BY DEF Numeric
    <3>3. QED
      BY <2>2, <3>1, <3>2, ScaleIsNumber
  <2>3. QED
    BY <2>1, <2>2
<1>3. /\ RollingMean(x, period) = [i \in 1 .. n |-> mean(x, i)]
      /\ RollingMean(Scaled(x, k), period) = [i \in 1 .. n |-> mean(Scaled(x, k), i)]
  BY <1>1 DEF RollingMean
<1> HIDE DEF mean
<1>4. QED
  BY <1>2, <1>3 DEF Column, Scaled

-----------------------------------------------------------------------------
\* The highest of a window, and what changes from row to row.
LEMMA LessOrders ==
    ASSUME NEW x \in Rational, NEW y \in Rational, NEW z \in Rational
    PROVE  ~Less(x, x) /\ (~Less(x, z) /\ Less(x, y) => ~Less(y, z))
<1>1. PICK a, b, c \in Int, p, q, r \in Nat \ {0} :
         a = x[1] /\ p = x[2] /\ b = y[1] /\ q = y[2] /\ c = z[1] /\ r = z[2]
  BY RationalIs
<1>2. /\ Less(x, x) <=> a * p < a * p
      /\ Less(x, z) <=> a * r < c * p
      /\ Less(x, y) <=> a * q < b * p
      /\ Less(y, z) <=> b * r < c * q
  BY <1>1, RationalIs DEF Less
<1>3. ASSUME a * q < b * p, b * r < c * q PROVE a * r < c * p
  <2>1. \A u, v \in Int, w \in Nat \ {0} : u * w < v * w <=> u < v
    OBVIOUS
  <2>2. a * q \in Int /\ b * p \in Int /\ b * r \in Int /\ c * q \in Int /\ a * r \in Int /\ c * p \in Int
    OBVIOUS
  <2>3. (a * q) * r < (b * p) * r /\ (b * r) * p < (c * q) * p
    BY <1>3, <2>1, <2>2
  <2>4. /\ (a * q) * r = (a * r) * q /\ (b * p) * r = (b * r) * p /\ (c * q) * p = (c * p) * q
        /\ (a * r) * q \in Int /\ (b * r) * p \in Int /\ (c * p) * q \in Int
    OBVIOUS
  <2>5. (a * r) * q < (c * p) * q
    BY <2>3, <2>4
  <2>6. QED
    BY <2>1, <2>2, <2>5
<1>4. ~(a * p < a * p)
  OBVIOUS
<1>5. QED
  BY <1>2, <1>3, <1>4

LEMMA TopExists ==
    ASSUME NEW n \in Nat \ {0}, NEW s, DOMAIN s = 1 .. n, \A i \in 1 .. n : s[i] \in Rational
    PROVE  Tops(s) # {}
<1> DEFINE Top(j, m) == \A k \in 1 .. m : ~Less(s[j], s[k])
           none      == {m \in Nat : m \in 1 .. n /\ ~\E j \in 1 .. m : Top(j, m)}
<1>1. none = {}
  <2> SUFFICES ASSUME none # {} PROVE FALSE
    OBVIOUS
  <2>1. PICK m \in none : \A k \in none : m <= k
    <3>1. none \in SUBSET Nat
      OBVIOUS
    <3> HIDE DEF none
    <3>2. QED
      BY <3>1, Smallest
  <2>2. m \in Nat /\ m \in 1 .. n /\ ~\E j \in 1 .. m : Top(j, m)
    OBVIOUS
  <2>3. \A i \in 1 .. n : s[i] \in Rational
    OBVIOUS
  <2>4. CASE m = 1
    <3>1. ~Less(s[1], s[1])
      BY <2>2, <2>3, <2>4, LessOrders
    <3>2. QED
      BY <2>2, <2>4, <3>1
  <2>5. CASE m # 1
    <3>1. m - 1 \in Nat /\ m - 1 \in 1 .. n /\ ~(m <= m - 1)
      BY <2>2, <2>5
    <3>2. m - 1 \notin none
      BY <2>1, <3>1
    <3>3. PICK j \in 1 .. (m - 1) : Top(j, m - 1)
      BY <3>1, <3>2
    <3>4. \A k \in 1 .. m : k = m \/ k \in 1 .. (m - 1)
      OBVIOUS
    <3>5. s[j] \in Rational /\ s[m] \in Rational /\ j \in 1 .. m /\ m \in 1 .. m
      BY <2>2, <2>3
    <3>6. CASE ~Less(s[j], s[m])
      <4>1. Top(j, m)
        BY <3>3, <3>4, <3>6
      <4>2. QED
        BY <2>2, <3>5, <4>1
    <3>7. CASE Less(s[j], s[m])
      <4>1. ASSUME NEW k \in 1 .. m PROVE ~Less(s[m], s[k])
        <5>1. CASE k = m
          BY <3>5, <5>1, LessOrders
        <5>2. CASE k \in 1 .. (m - 1)
          <6>1. ~Less(s[j], s[k]) /\ s[k] \in Rational
            BY <2>2, <2>3, <3>3, <5>2
          <6>2. QED
            BY <3>5, <3>7, <6>1, LessOrders
        <5>3. QED
          BY <3>4, <5>1, <5>2
      <4>2. QED
        BY <2>2, <3>5, <4>1
    <3>8. QED
      BY <3>6, <3>7
  <2>6. QED
    BY <2>4, <2>5
<1>2. PICK j \in 1 .. n : Top(j, n)
  <2>1. n \in Nat /\ n \in 1 .. n
    OBVIOUS
  <2>2. n \notin none
    <3> HIDE DEF none
    <3>1. QED
      BY <1>1
  <2>3. QED
    BY <2>1, <2>2
<1>3. QED
  BY <1>2 DEF Tops

LEMMA HighestScales ==
    ASSUME NEW n \in Nat \ {0}, NEW s, Column(s, n), \A i \in 1 .. n : s[i] # NaN, NEW k \in Unit
    PROVE  Highest(s) \in Numeric /\ Highest(Scaled(s, k)) = Times(k, Highest(s))
<1>1. DOMAIN s = 1 .. n /\ \A i \in 1 .. n : s[i] \in Rational /\ s[i] \in Numeric
  BY NumericParts DEF Column
<1>2. /\ DOMAIN Scaled(s, k) = 1 .. n
      /\ \A i \in 1 .. n : Scaled(s, k)[i] = Times(k, s[i])
  BY ScaledIs
<1>3. \A i, j \in 1 .. n : Less(Scaled(s, k)[i], Scaled(s, k)[j]) <=> Less(s[i], s[j])
  BY <1>1, <1>2, ScaleLess
<1>4. Tops(Scaled(s, k)) = Tops(s)
  BY <1>1, <1>2, <1>3 DEF Tops
<1>5. PICK j : j = CHOOSE i \in Tops(s) : TRUE
  OBVIOUS
<1>6. j \in 1 .. n
  <2>1. Tops(s) # {}
    BY <1>1, TopExists
  <2>2. QED
    BY <1>1, <1>5, <2>1 DEF Tops
<1>7. Highest(s) = s[j] /\ Highest(Scaled(s, k)) = Scaled(s, k)[j]
  BY <1>4, <1>5 DEF Highest
<1>8. QED
  BY <1>1, <1>2, <1>6, <1>7

LEMMA RollingMaxScales ==
    ASSUME NEW n \in Nat, NEW x, Column(x, n), NEW k \in Unit, NEW period \in Nat \ {0}
    PROVE  /\ Column(RollingMax(x, period), n)
           /\ RollingMax(Scaled(x, k), period) = Scaled(RollingMax(x, period), k)
<1>1. DOMAIN x = 1 .. n /\ DOMAIN Scaled(x, k) = 1 .. n
  BY ScaledIs
<1> DEFINE highest(y, i) == IF Full(y, i, period) THEN Highest(Window(y, i, period)) ELSE NaN
<1>2. ASSUME NEW i \in 1 .. n
      PROVE  highest(x, i) \in Numeric /\ highest(Scaled(x, k), i) = Times(k, highest(x, i))
  <2>1. CASE Full(x, i, period)
    <3>1. period <= i /\ Full(Scaled(x, k), i, period)
      BY <2>1, FullScales
    <3>2. PICK w : w = Window(x, i, period)
      OBVIOUS
    <3>3. Column(w, period) /\ Window(Scaled(x, k), i, period) = Scaled(w, k)
      BY <3>1, <3>2, WindowIs
    <3>4. \A j \in 1 .. period : w[j] # NaN
      <4>1. \A j \in 1 .. period : i - period + j \in (i - period + 1) .. i
        OBVIOUS
      <4>2. \A j \in 1 .. period : x[i - period + j] # NaN
        BY <2>1, <4>1 DEF Full
      <4>3. QED
        BY <3>2, <4>2 DEF Window
    <3>5. Highest(w) \in Numeric /\ Highest(Scaled(w, k)) = Times(k, Highest(w))
      BY <3>3, <3>4, HighestScales
    <3>6. QED
      BY <2>1, <3>1, <3>2, <3>3, <3>5
  <2>2. CASE ~Full(x, i, period)
    <3>1. ~Full(Scaled(x, k), i, period)
      BY <2>2, FullScales
    <3>2. NaN \in Numeric
      BY DEF Numeric
    <3>3. QED
      BY <2>2, <3>1, <3>2, ScaleIsNumber
  <2>3. QED
    BY <2>1, <2>2
<1>3. /\ RollingMax(x, period) = [i \in 1 .. n |-> highest(x, i)]
      /\ RollingMax(Scaled(x, k), period) = [i \in 1 .. n |-> highest(Scaled(x, k), i)]
  BY <1>1 DEF RollingMax
<1> HIDE DEF highest
<1>4. QED
  BY <1>2, <1>3 DEF Column, Scaled

LEMMA DifferenceScales ==
    ASSUME NEW n \in Nat, NEW x, NEW y, Column(x, n), Column(y, n), NEW k \in Unit
    PROVE  /\ Column(Difference(x, y), n)
           /\ Difference(Scaled(x, k), Scaled(y, k)) = Scaled(Difference(x, y), k)
<1>1. \A i \in 1 .. n : /\ Minus(x[i], y[i]) \in Numeric
                         /\ Minus(Times(k, x[i]), Times(k, y[i])) = Times(k, Minus(x[i], y[i]))
  BY ScaleMinus, OperatorsTyped DEF Column
<1>2. QED
  BY <1>1 DEF Difference, Scaled, Column

LEMMA ShiftScales ==
    ASSUME NEW n \in Nat, NEW x, Column(x, n), NEW k \in Unit, NEW m \in Int
    PROVE  Column(Shift(x, m), n) /\ Shift(Scaled(x, k), m) = Scaled(Shift(x, m), k)
<1>1. NaN \in Numeric /\ Times(k, NaN) = NaN
  BY ScaleIsNumber DEF Numeric
<1>2. QED
  BY <1>1 DEF Shift, Scaled, Column

LEMMA QuotientScales ==
    ASSUME NEW n \in Nat, NEW x, NEW y, Column(x, n), Column(y, n), NEW k \in Unit
    PROVE  /\ Column(Quotient(x, y), n)
           /\ Quotient(Scaled(x, k), Scaled(y, k)) = Quotient(x, y)
<1>1. \A i \in 1 .. n : /\ Over(x[i], y[i]) \in Numeric
                         /\ Over(Times(k, x[i]), Times(k, y[i])) = Over(x[i], y[i])
  BY ScaleRatio, OperatorsTyped DEF Column
<1>2. QED
  BY <1>1 DEF Quotient, Scaled, Column

-----------------------------------------------------------------------------
\* Exponential averages.
LEMMA SmoothedScales ==
    ASSUME NEW n \in Nat, NEW s, Column(s, n), Len(s) = n, NEW k \in Unit, Len(Scaled(s, k)) = n,
           NEW alpha \in Numeric
    PROVE  Smoothed(s, alpha) \in Numeric /\ Smoothed(Scaled(s, k), alpha) = Times(k, Smoothed(s, alpha))
<1> DEFINE step == Smoothing(alpha)
<1>1. \A v, w \in Numeric : step[v][w] = IF w = NaN THEN v ELSE IF v = NaN THEN w ELSE Weighted(alpha, v, w)
  BY NumericParts DEF Smoothing
<1>2. ASSUME NEW v \in Numeric, NEW w \in Numeric
      PROVE  /\ Weighted(alpha, v, w) \in Numeric
             /\ Weighted(alpha, Times(k, v), Times(k, w)) = Times(k, Weighted(alpha, v, w))
  <2>1. PICK rest : rest = Minus(Num(1), alpha)
    OBVIOUS
  <2>2. rest \in Numeric
    <3>1. Num(1) \in Numeric
      BY NumIs DEF Numeric
    <3>2. QED
      BY <2>1, <3>1, OperatorsTyped
  <2>3. Times(alpha, w) \in Numeric /\ Times(rest, v) \in Numeric
    BY <2>2, OperatorsTyped
  <2>4. Times(alpha, Times(k, w)) = Times(k, Times(alpha, w)) /\ Times(rest, Times(k, v)) = Times(k, Times(rest, v))
    BY <2>2, ScaleTimes
  <2>5. QED
    BY <2>1, <2>3, <2>4, ScalePlus, OperatorsTyped DEF Weighted
<1>3. ASSUME NEW m \in 1 .. n, NEW v \in Numeric
      PROVE  step[v][s[m]] \in Numeric /\ step[Times(k, v)][Scaled(s, k)[m]] = Times(k, step[v][s[m]])
  <2> HIDE DEF step
  <2>1. PICK w \in Numeric : w = s[m] /\ Scaled(s, k)[m] = Times(k, w)
    BY ScaledIs
  <2>2. /\ Times(k, w) \in Numeric /\ Times(k, v) \in Numeric
        /\ Times(k, w) = NaN <=> w = NaN
        /\ Times(k, v) = NaN <=> v = NaN
    BY ScaleIsNumber
  <2>3. QED
    BY <1>1, <1>2, <2>1, <2>2
<1> HIDE DEF step
<1>4. PICK r : r = Scaled(s, k)
  OBVIOUS
<1>5. StepScales(step, k, s, r) /\ Len(s) \in Nat /\ Len(r) = Len(s)
  BY <1>3, <1>4 DEF StepScales
<1>6. NaN \in Numeric /\ Times(k, NaN) = NaN
  BY ScaleIsNumber DEF Numeric
<1>7. Accumulated(step, NaN, s) \in Numeric /\ Accumulated(step, Times(k, NaN), r) = Times(k, Accumulated(step, NaN, s))
  BY <1>5, <1>6, AccumulationScales
<1>8. QED
  BY <1>4, <1>6, <1>7 DEF Smoothed, step

LEMMA EwmScales ==
    ASSUME NEW n \in Nat, NEW x, Column(x, n), NEW k \in Unit, NEW alpha \in Numeric, NEW least
    PROVE  Column(Ewm(x, alpha, least), n) /\ Ewm(Scaled(x, k), alpha, least) = Scaled(Ewm(x, alpha, least), k)
<1>1. DOMAIN x = 1 .. n /\ DOMAIN Scaled(x, k) = 1 .. n
  BY ScaledIs
<1> DEFINE mean(y, i) == IF NumbersIn(Window(y, i, i)) >= least THEN Smoothed(Window(y, i, i), alpha) ELSE NaN
<1>2. ASSUME NEW i \in 1 .. n
      PROVE  mean(x, i) \in Numeric /\ mean(Scaled(x, k), i) = Times(k, mean(x, i))
  <2>1. PICK w : w = Window(x, i, i)
    OBVIOUS
  <2>2. /\ Column(w, i) /\ Len(w) = i /\ Len(Scaled(w, k)) = i
        /\ Window(Scaled(x, k), i, i) = Scaled(w, k)
    BY <2>1, WindowIs
  <2>3. NumbersIn(Scaled(w, k)) = NumbersIn(w)
    <3>1. /\ DOMAIN Scaled(w, k) = DOMAIN w
          /\ \A j \in DOMAIN w : Scaled(w, k)[j] # NaN <=> w[j] # NaN
      BY <2>2, ScaledIs, ScaleIsNumber
    <3>2. {j \in DOMAIN Scaled(w, k) : Scaled(w, k)[j] # NaN} = {j \in DOMAIN w : w[j] # NaN}
      BY <3>1
    <3>3. QED
      BY <3>2 DEF NumbersIn
  <2>4. Smoothed(w, alpha) \in Numeric /\ Smoothed(Scaled(w, k), alpha) = Times(k, Smoothed(w, alpha))
    BY <2>2, SmoothedScales
  <2>5. NaN \in Numeric /\ Times(k, NaN) = NaN
    BY ScaleIsNumber DEF Numeric
  <2>6. QED
    BY <2>1, <2>2, <2>3, <2>4, <2>5
<1>3. /\ Ewm(x, alpha, least) = [i \in 1 .. n |-> mean(x, i)]
      /\ Ewm(Scaled(x, k), alpha, least) = [i \in 1 .. n |-> mean(Scaled(x, k), i)]
  BY <1>1 DEF Ewm
<1> HIDE DEF mean
<1>4. QED
  BY <1>2, <1>3 DEF Column, Scaled

-----------------------------------------------------------------------------
\* Comparisons.
LEMMA CompareScales ==
    ASSUME NEW k \in Unit, NEW x \in Numeric, NEW y \in Numeric, NEW op
    PROVE  Compare(Times(k, x), op, Times(k, y)) <=> Compare(x, op, y)
<1>1. /\ Less(Times(k, x), Times(k, y)) <=> Less(x, y)
      /\ Less(Times(k, y), Times(k, x)) <=> Less(y, x)
      /\ Times(k, x) = Times(k, y) <=> x = y
      /\ Times(k, x) = NaN <=> x = NaN
  BY ScaleLess, ScaleEqual, ScaleIsNumber
<1>2. QED
  BY <1>1 DEF Compare

LEMMA ComparesScale ==
    ASSUME NEW n \in Nat, NEW x, NEW y, Column(x, n), Column(y, n), NEW k \in Unit, NEW op
    PROVE  Compares(Scaled(x, k), op, Scaled(y, k)) = Compares(x, op, y)
<1>1. \A i \in 1 .. n : Compare(Scaled(x, k)[i], op, Scaled(y, k)[i]) <=> Compare(x[i], op, y[i])
  BY CompareScales, ScaledIs
<1>2. DOMAIN Scaled(x, k) = 1 .. n /\ DOMAIN x = 1 .. n
  BY ScaledIs
<1>3. \A i \in 1 .. n : Compare(Scaled(x, k)[i], op, Scaled(y, k)[i]) = Compare(x[i], op, y[i])
  BY <1>1 DEF Compare
<1>4. QED
  BY <1>2, <1>3 DEF Compares

LEMMA MeetsScales ==
    ASSUME NEW n \in Nat, NEW x, Column(x, n), NEW k \in Unit, NEW op
    PROVE  Meets(Scaled(x, k), op, 0) = Meets(x, op, 0)
<1>1. Num(0) \in Numeric /\ Times(k, Num(0)) = Num(0)
  BY ScaleZero
<1>2. \A i \in 1 .. n : Compare(Scaled(x, k)[i], op, Num(0)) <=> Compare(x[i], op, Num(0))
  BY <1>1, CompareScales, ScaledIs
<1>3. DOMAIN Scaled(x, k) = 1 .. n /\ DOMAIN x = 1 .. n
  BY ScaledIs
<1>4. \A i \in 1 .. n : Compare(Scaled(x, k)[i], op, Num(0)) = Compare(x[i], op, Num(0))
  BY <1>2 DEF Compare
<1>5. QED
  BY <1>3, <1>4 DEF Meets

LEMMA CrossesScales ==
    ASSUME NEW n \in Nat, NEW x, Column(x, n), NEW k \in Unit, NEW was, NEW is
    PROVE  Crosses(Scaled(x, k), was, is, 0) = Crosses(x, was, is, 0)
<1>1. Column(Shift(x, 1), n) /\ Shift(Scaled(x, k), 1) = Scaled(Shift(x, 1), k)
  BY ShiftScales
<1>2. QED
  BY <1>1, MeetsScales DEF Crosses

LEMMA PercentScales ==
    ASSUME NEW n \in Nat, NEW x, NEW y, Column(x, n), Column(y, n), NEW k \in Unit
    PROVE  Percent(Scaled(x, k), Scaled(y, k)) = Percent(x, y)
<1>1. Num(100) \in Numeric
  BY NumIs DEF Numeric
<1>2. ASSUME NEW i \in 1 .. n
      PROVE  Over(Times(Num(100), Minus(Scaled(y, k)[i], Scaled(x, k)[i])), Scaled(x, k)[i])
               = Over(Times(Num(100), Minus(y[i], x[i])), x[i])
  <2>1. PICK v, w \in Numeric : /\ v = x[i] /\ Scaled(x, k)[i] = Times(k, v)
                                /\ w = y[i] /\ Scaled(y, k)[i] = Times(k, w)
    BY ScaledIs
  <2>2. Minus(Times(k, w), Times(k, v)) = Times(k, Minus(w, v)) /\ Minus(w, v) \in Numeric
    BY ScaleMinus, OperatorsTyped
  <2>3. /\ Times(Num(100), Times(k, Minus(w, v))) = Times(k, Times(Num(100), Minus(w, v)))
        /\ Times(Num(100), Minus(w, v)) \in Numeric
    BY <1>1, <2>2, ScaleTimes, OperatorsTyped
  <2>4. Over(Times(k, Times(Num(100), Minus(w, v))), Times(k, v)) = Over(Times(Num(100), Minus(w, v)), v)
    BY <2>3, ScaleRatio
  <2>5. QED
    BY <2>1, <2>2, <2>3, <2>4
<1>3. DOMAIN Scaled(x, k) = 1 .. n /\ DOMAIN x = 1 .. n
  BY ScaledIs
<1>4. QED
  BY <1>2, <1>3 DEF Percent

-----------------------------------------------------------------------------
\* The indicators.
LEMMA DiffScales ==
    ASSUME NEW n \in Nat, NEW x, Column(x, n), NEW k \in Unit
    PROVE  Column(Diff(x), n) /\ Diff(Scaled(x, k)) = Scaled(Diff(x), k)
<1>1. Column(Shift(x, 1), n) /\ Shift(Scaled(x, k), 1) = Scaled(Shift(x, 1), k)
  BY ShiftScales
<1>2. QED
  BY <1>1, DifferenceScales DEF Diff

LEMMA ScaledBy ==
    ASSUME NEW n \in Nat, NEW k \in Unit, NEW u, NEW v,
           u = [i \in 1 .. n |-> u[i]], v = [i \in 1 .. n |-> v[i]],
           \A i \in 1 .. n : u[i] \in Numeric /\ v[i] = Times(k, u[i])
    PROVE  Column(u, n) /\ v = Scaled(u, k)
BY DEF Column, Scaled

LEMMA RisesScale ==
    ASSUME NEW n \in Nat, NEW x, Column(x, n), NEW k \in Unit
    PROVE  /\ Column(Rises(x), n) /\ Rises(Scaled(x, k)) = Scaled(Rises(x), k)
           /\ Column(Falls(x), n) /\ Falls(Scaled(x, k)) = Scaled(Falls(x), k)
<1>1. PICK d : d = Diff(x) /\ Column(d, n) /\ Diff(Scaled(x, k)) = Scaled(d, k)
  BY DiffScales
<1>2. Num(0) \in Numeric /\ Times(k, Num(0)) = Num(0) /\ Num(-1) \in Numeric
  BY ScaleZero, NumIs DEF Numeric
<1>3. DOMAIN x = 1 .. n /\ DOMAIN Scaled(x, k) = 1 .. n
  BY ScaledIs
<1> DEFINE up(v)   == IF Less(v, Num(0)) THEN Num(0) ELSE v
           down(v) == IF Less(Num(0), v) THEN Num(0) ELSE Times(Num(-1), v)
<1>4. ASSUME NEW v \in Numeric
      PROVE  /\ up(v) \in Numeric /\ up(Times(k, v)) = Times(k, up(v))
             /\ down(v) \in Numeric /\ down(Times(k, v)) = Times(k, down(v))
  <2>1. /\ Less(Times(k, v), Num(0)) <=> Less(v, Num(0))
        /\ Less(Num(0), Times(k, v)) <=> Less(Num(0), v)
    BY <1>2, ScaleLess
  <2>2. Times(Num(-1), Times(k, v)) = Times(k, Times(Num(-1), v)) /\ Times(Num(-1), v) \in Numeric
    BY <1>2, ScaleTimes, OperatorsTyped
  <2>3. QED
    BY <1>2, <2>1, <2>2
<1>5. /\ Rises(x) = [i \in 1 .. n |-> up(d[i])] /\ Falls(x) = [i \in 1 .. n |-> down(d[i])]
      /\ Rises(Scaled(x, k)) = [i \in 1 .. n |-> up(Scaled(d, k)[i])]
      /\ Falls(Scaled(x, k)) = [i \in 1 .. n |-> down(Scaled(d, k)[i])]
  BY <1>1, <1>3 DEF Rises, Falls
<1>6. \A i \in 1 .. n : d[i] \in Numeric /\ Scaled(d, k)[i] = Times(k, d[i])
  BY <1>1, ScaledIs
<1>7. \A i \in 1 .. n : /\ up(d[i]) \in Numeric /\ up(Scaled(d, k)[i]) = Times(k, up(d[i]))
                         /\ down(d[i]) \in Numeric /\ down(Scaled(d, k)[i]) = Times(k, down(d[i]))
  <2> HIDE DEF up, down
  <2>1. QED
    BY <1>4, <1>6
<1>8. PICK a, b : a = Rises(x) /\ b = Rises(Scaled(x, k))
  OBVIOUS
<1>9. PICK e, f : e = Falls(x) /\ f = Falls(Scaled(x, k))
  OBVIOUS
<1>10. /\ a = [i \in 1 .. n |-> a[i]] /\ b = [i \in 1 .. n |-> b[i]]
       /\ \A i \in 1 .. n : a[i] = up(d[i]) /\ b[i] = up(Scaled(d, k)[i])
  BY <1>5, <1>8
<1>11. /\ e = [i \in 1 .. n |-> e[i]] /\ f = [i \in 1 .. n |-> f[i]]
       /\ \A i \in 1 .. n : e[i] = down(d[i]) /\ f[i] = down(Scaled(d, k)[i])
  BY <1>5, <1>9
<1> HIDE DEF up, down
<1>12. \A i \in 1 .. n : /\ a[i] \in Numeric /\ b[i] = Times(k, a[i])
                          /\ e[i] \in Numeric /\ f[i] = Times(k, e[i])
  BY <1>7, <1>10, <1>11
<1>13. Column(a, n) /\ b = Scaled(a, k)
  BY <1>10, <1>12, ScaledBy
<1>14. Column(e, n) /\ f = Scaled(e, k)
  BY <1>11, <1>12, ScaledBy
<1>15. QED
  BY <1>8, <1>9, <1>13, <1>14

LEMMA StrengthScales ==
    ASSUME NEW n \in Nat, NEW x, NEW y, Column(x, n), Column(y, n), NEW k \in Unit
    PROVE  Strength(Scaled(x, k), Scaled(y, k)) = Strength(x, y)
<1>1. Num(100) \in Numeric
  BY NumIs DEF Numeric
<1>2. ASSUME NEW i \in 1 .. n
      PROVE  Over(Times(Num(100), Scaled(x, k)[i]), Plus(Scaled(x, k)[i], Scaled(y, k)[i]))
               = Over(Times(Num(100), x[i]), Plus(x[i], y[i]))
  <2>1. PICK v, w \in Numeric : /\ v = x[i] /\ Scaled(x, k)[i] = Times(k, v)
                                /\ w = y[i] /\ Scaled(y, k)[i] = Times(k, w)
    BY ScaledIs
  <2>2. Plus(Times(k, v), Times(k, w)) = Times(k, Plus(v, w)) /\ Plus(v, w) \in Numeric
    BY ScalePlus, OperatorsTyped
  <2>3. Times(Num(100), Times(k, v)) = Times(k, Times(Num(100), v)) /\ Times(Num(100), v) \in Numeric
    BY <1>1, ScaleTimes, OperatorsTyped
  <2>4. Over(Times(k, Times(Num(100), v)), Times(k, Plus(v, w))) = Over(Times(Num(100), v), Plus(v, w))
    BY <2>2, <2>3, ScaleRatio
  <2>5. QED
    BY <2>1, <2>2, <2>3, <2>4
<1>3. DOMAIN Scaled(x, k) = 1 .. n /\ DOMAIN x = 1 .. n
  BY ScaledIs
<1>4. QED
  BY <1>2, <1>3 DEF Strength

LEMMA RsiScales ==
    ASSUME NEW n \in Nat, NEW x, Column(x, n), NEW k \in Unit, NEW period \in Int
    PROVE  Rsi(Scaled(x, k), period) = Rsi(x, period)
<1>1. PICK alpha \in Numeric : alpha = Fraction(1, period)
  BY QuotientTyped
<1>2. PICK up, down : /\ up = Rises(x) /\ Column(up, n) /\ Rises(Scaled(x, k)) = Scaled(up, k)
                      /\ down = Falls(x) /\ Column(down, n) /\ Falls(Scaled(x, k)) = Scaled(down, k)
  BY RisesScale
<1>3. /\ Column(Ewm(up, alpha, period), n)
      /\ Ewm(Scaled(up, k), alpha, period) = Scaled(Ewm(up, alpha, period), k)
      /\ Column(Ewm(down, alpha, period), n)
      /\ Ewm(Scaled(down, k), alpha, period) = Scaled(Ewm(down, alpha, period), k)
  BY <1>2, EwmScales
<1>4. /\ Rsi(x, period) = Strength(Ewm(up, alpha, period), Ewm(down, alpha, period))
      /\ Rsi(Scaled(x, k), period) = Strength(Ewm(Scaled(up, k), alpha, period), Ewm(Scaled(down, k), alpha, period))
  BY <1>1, <1>2 DEF Rsi
<1>5. QED
  BY <1>3, <1>4, StrengthScales

LEMMA EmaScales ==
    ASSUME NEW n \in Nat, NEW x, Column(x, n), NEW k \in Unit, NEW span \in Int
    PROVE  Column(Ema(x, span), n) /\ Ema(Scaled(x, k), span) = Scaled(Ema(x, span), k)
<1>1. Fraction(2, span + 1) \in Numeric
  BY QuotientTyped
<1>2. QED
  BY <1>1, EwmScales DEF Ema

LEMMA HistogramScales ==
    ASSUME NEW n \in Nat, NEW x, Column(x, n), NEW k \in Unit, NEW c,
           c.fast \in Int, c.slow \in Int, c.signal \in Int
    PROVE  Column(Histogram(c, x), n) /\ Histogram(c, Scaled(x, k)) = Scaled(Histogram(c, x), k)
<1>1. Column(MacdLine(c, x), n) /\ MacdLine(c, Scaled(x, k)) = Scaled(MacdLine(c, x), k)
  <2>1. /\ Column(Ema(x, c.fast), n) /\ Ema(Scaled(x, k), c.fast) = Scaled(Ema(x, c.fast), k)
        /\ Column(Ema(x, c.slow), n) /\ Ema(Scaled(x, k), c.slow) = Scaled(Ema(x, c.slow), k)
    BY EmaScales
  <2>2. QED
    BY <2>1, DifferenceScales DEF MacdLine
<1>2. PICK line : line = MacdLine(c, x)
  OBVIOUS
<1>3. PICK alpha \in Numeric : alpha = Fraction(2, c.signal + 1)
  BY QuotientTyped
<1>4. /\ Column(Ewm(line, alpha, c.signal), n)
      /\ Ewm(Scaled(line, k), alpha, c.signal) = Scaled(Ewm(line, alpha, c.signal), k)
  BY <1>1, <1>2, EwmScales
<1>5. /\ SignalLine(c, x) = Ewm(line, alpha, c.signal)
      /\ SignalLine(c, Scaled(x, k)) = Ewm(Scaled(line, k), alpha, c.signal)
  BY <1>1, <1>2, <1>3 DEF SignalLine
<1>6. QED
  BY <1>1, <1>2, <1>4, <1>5, DifferenceScales DEF Histogram

-----------------------------------------------------------------------------
\* Conditions.  A column of another frame is the same, or the same in another unit.
Kin(x, y, n) == y = x \/ \E k \in Unit : Column(x, n) /\ y = Scaled(x, k)

PriceColumns  == {"adj_open", "adj_high", "adj_low", "adj_close",
                  "next_open", "next_close", "adj_next_open", "adj_next_close"}
VolumeColumns == {"adj_volume", "next_volume"}

\* A frame whose adjusted prices are in one other unit, and its adjusted volumes
\* in one of theirs: what a corporate action leaves of it.
Readjusted(df, eg, n) ==
    \E k, l \in Unit :
      /\ DOMAIN df = DOMAIN eg /\ FrameColumns \subseteq DOMAIN df
      /\ \A col \in PriceColumns : Column(df[col], n) /\ eg[col] = Scaled(df[col], k)
      /\ \A col \in VolumeColumns : Column(df[col], n) /\ eg[col] = Scaled(df[col], l)
      /\ \A col \in DOMAIN df \ (PriceColumns \cup VolumeColumns) : eg[col] = df[col]

\* The condition compares prices with prices: its parameters are whole numbers, and
\* those it compares a difference of adjusted prices with are 0.
ParameterKeys ==
    {"period", "ma_period", "short_period", "mid_period", "long_period", "fast", "slow", "signal"}

Relative(c) ==
    /\ \A key \in ParameterKeys \cap Reads(c.type) : Filled(c)[key] \in Int
    /\ "index_col" \in Reads(c.type) => Filled(c).index_col \notin PriceColumns \cup VolumeColumns
    /\ c.type = "macd_histogram" =>
         Filled(c).value = 0 \/ Filled(c).price_field \notin PriceColumns \cup VolumeColumns

LEMMA KinColumns ==
    ASSUME NEW n \in Nat, NEW df, NEW eg, Readjusted(df, eg, n), NEW col \in FrameColumns
    PROVE  Kin(df[col], eg[col], n)
BY DEF Readjusted, Kin

LEMMA PriceVsMaScales ==
    ASSUME NEW n \in Nat, NEW df, NEW eg, NEW c, Kin(df[c.price_field], eg[c.price_field], n),
           c.ma_period \in Nat
    PROVE  PriceVsMa(eg, c) = PriceVsMa(df, c)
<1>1. CASE eg[c.price_field] = df[c.price_field]
  BY <1>1 DEF PriceVsMa
<1>2. ASSUME NEW k \in Unit, Column(df[c.price_field], n), eg[c.price_field] = Scaled(df[c.price_field], k)
      PROVE  PriceVsMa(eg, c) = PriceVsMa(df, c)
  BY <1>2, RollingMeanScales, ComparesScale DEF PriceVsMa, MovingAverage
<1>3. QED
  BY <1>1, <1>2 DEF Kin

LEMMA MaCrossScales ==
    ASSUME NEW n \in Nat, NEW df, NEW eg, NEW c, Kin(df[c.price_field], eg[c.price_field], n),
           c.short_period \in Nat, c.long_period \in Nat
    PROVE  MaCross(eg, c) = MaCross(df, c)
<1>1. CASE eg[c.price_field] = df[c.price_field]
  BY <1>1 DEF MaCross
<1>2. ASSUME NEW k \in Unit, NEW x, x = df[c.price_field], Column(x, n), eg[c.price_field] = Scaled(x, k)
      PROVE  MaCross(eg, c) = MaCross(df, c)
  <2> DEFINE spread(y) == Difference(MovingAverage(y, c.short_period), MovingAverage(y, c.long_period))
  <2>1. Column(spread(x), n) /\ spread(Scaled(x, k)) = Scaled(spread(x), k)
    BY <1>2, RollingMeanScales, DifferenceScales DEF MovingAverage
  <2>2. /\ MaCross(df, c) = IF c.direction = "golden_cross" THEN Crosses(spread(x), "<=", ">", 0)
                                                            ELSE Crosses(spread(x), ">=", "<", 0)
        /\ MaCross(eg, c) = IF c.direction = "golden_cross" THEN Crosses(spread(Scaled(x, k)), "<=", ">", 0)
                                                            ELSE Crosses(spread(Scaled(x, k)), ">=", "<", 0)
    BY <1>2 DEF MaCross
  <2> HIDE DEF spread
  <2>3. QED
    BY <2>1, <2>2, CrossesScales
<1>3. QED
  BY <1>1, <1>2 DEF Kin

LEMMA MaAlignmentScales ==
    ASSUME NEW n \in Nat, NEW df, NEW eg, NEW c, Kin(df[c.price_field], eg[c.price_field], n),
           c.short_period \in Nat, c.mid_period \in Nat, c.long_period \in Nat
    PROVE  MaAlignment(eg, c) = MaAlignment(df, c)
<1>1. CASE eg[c.price_field] = df[c.price_field]
  BY <1>1 DEF MaAlignment
<1>2. ASSUME NEW k \in Unit, NEW x, x = df[c.price_field], Column(x, n), eg[c.price_field] = Scaled(x, k)
      PROVE  MaAlignment(eg, c) = MaAlignment(df, c)
  <2> DEFINE ma(y, period) == MovingAverage(y, period)
             op            == IF c.direction = "bullish" THEN ">" ELSE "<"
  <2>1. \A period \in Nat : Column(ma(x, period), n) /\ ma(Scaled(x, k), period) = Scaled(ma(x, period), k)
    BY <1>2, RollingMeanScales DEF MovingAverage
  <2>2. \A y, f : y = f[c.price_field] =>
          MaAlignment(f, c) = Both(Compares(ma(y, c.short_period), op, ma(y, c.mid_period)),
                                   Compares(ma(y, c.mid_period), op, ma(y, c.long_period)))
    BY DEF MaAlignment
  <2> HIDE DEF ma, op
  <2>3. /\ Compares(ma(Scaled(x, k), c.short_period), op, ma(Scaled(x, k), c.mid_period))
             = Compares(ma(x, c.short_period), op, ma(x, c.mid_period))
        /\ Compares(ma(Scaled(x, k), c.mid_period), op, ma(Scaled(x, k), c.long_period))
             = Compares(ma(x, c.mid_period), op, ma(x, c.long_period))
    BY <2>1, ComparesScale
  <2>4. QED
    BY <1>2, <2>2, <2>3
<1>3. QED
  BY <1>1, <1>2 DEF Kin

LEMMA NewHighBreakoutScales ==
    ASSUME NEW n \in Nat, NEW df, NEW eg, NEW c, Kin(df[c.field], eg[c.field], n), c.period \in Nat \ {0}
    PROVE  NewHighBreakout(eg, c) = NewHighBreakout(df, c)
<1>1. CASE eg[c.field] = df[c.field]
  BY <1>1 DEF NewHighBreakout
<1>2. ASSUME NEW k \in Unit, NEW x, x = df[c.field], Column(x, n), eg[c.field] = Scaled(x, k)
      PROVE  NewHighBreakout(eg, c) = NewHighBreakout(df, c)
  <2>1. Column(Shift(x, 1), n) /\ Shift(Scaled(x, k), 1) = Scaled(Shift(x, 1), k)
    BY <1>2, ShiftScales
  <2>2. /\ Column(RollingMax(Shift(x, 1), c.period), n)
        /\ RollingMax(Scaled(Shift(x, 1), k), c.period) = Scaled(RollingMax(Shift(x, 1), c.period), k)
    BY <2>1, RollingMaxScales
  <2>3. QED
    BY <1>2, <2>1, <2>2, ComparesScale DEF NewHighBreakout
<1>3. QED
  BY <1>1, <1>2 DEF Kin

LEMMA ChangeScales ==
    ASSUME NEW n \in Nat, NEW x, NEW y, Kin(x, y, n), NEW period \in Int
    PROVE  Change(y, period) = Change(x, period)
<1>1. ASSUME NEW k \in Unit, Column(x, n), y = Scaled(x, k) PROVE Change(y, period) = Change(x, period)
  BY <1>1, ShiftScales, PercentScales DEF Change
<1>2. QED
  BY <1>1 DEF Kin

LEMMA VolumeRatioScales ==
    ASSUME NEW n \in Nat, NEW df, NEW eg, NEW c, Kin(df[c.volume_field], eg[c.volume_field], n),
           c.period \in Nat
    PROVE  VolumeRatio(eg, c) = VolumeRatio(df, c)
<1>1. CASE eg[c.volume_field] = df[c.volume_field]
  BY <1>1 DEF VolumeRatio
<1>2. ASSUME NEW k \in Unit, NEW x, x = df[c.volume_field], Column(x, n), eg[c.volume_field] = Scaled(x, k)
      PROVE  VolumeRatio(eg, c) = VolumeRatio(df, c)
  <2>1. Quotient(Scaled(x, k), MovingAverage(Scaled(x, k), c.period)) = Quotient(x, MovingAverage(x, c.period))
    BY <1>2, RollingMeanScales, QuotientScales DEF MovingAverage
  <2>2. QED
    BY <1>2, <2>1 DEF VolumeRatio
<1>3. QED
  BY <1>1, <1>2 DEF Kin

LEMMA RsiKin ==
    ASSUME NEW n \in Nat, NEW x, NEW y, Kin(x, y, n), NEW period \in Int
    PROVE  Rsi(y, period) = Rsi(x, period)
BY RsiScales DEF Kin

LEMMA MacdCrossScales ==
    ASSUME NEW n \in Nat, NEW df, NEW eg, NEW c, Kin(df[c.price_field], eg[c.price_field], n),
           c.fast \in Int, c.slow \in Int, c.signal \in Int
    PROVE  MacdCross(eg, c) = MacdCross(df, c)
<1>1. CASE eg[c.price_field] = df[c.price_field]
  BY <1>1 DEF MacdCross
<1>2. ASSUME NEW k \in Unit, NEW x, x = df[c.price_field], Column(x, n), eg[c.price_field] = Scaled(x, k)
      PROVE  MacdCross(eg, c) = MacdCross(df, c)
  <2>1. Column(Histogram(c, x), n) /\ Histogram(c, Scaled(x, k)) = Scaled(Histogram(c, x), k)
    BY <1>2, HistogramScales
  <2>2. QED
    BY <1>2, <2>1, CrossesScales DEF MacdCross
<1>3. QED
  BY <1>1, <1>2 DEF Kin

LEMMA MacdHistogramScales ==
    ASSUME NEW n \in Nat, NEW df, NEW eg, NEW c, Kin(df[c.price_field], eg[c.price_field], n),
           c.fast \in Int, c.slow \in Int, c.signal \in Int,
           c.value = 0 \/ eg[c.price_field] = df[c.price_field]
    PROVE  MacdHistogram(eg, c) = MacdHistogram(df, c)
<1>1. CASE eg[c.price_field] = df[c.price_field]
  BY <1>1 DEF MacdHistogram
<1>2. ASSUME NEW k \in Unit, NEW x, x = df[c.price_field], Column(x, n), eg[c.price_field] = Scaled(x, k),
             c.value = 0
      PROVE  MacdHistogram(eg, c) = MacdHistogram(df, c)
  <2>1. Column(Histogram(c, x), n) /\ Histogram(c, Scaled(x, k)) = Scaled(Histogram(c, x), k)
    BY <1>2, HistogramScales
  <2>2. QED
    BY <1>2, <2>1, MeetsScales DEF MacdHistogram
<1>3. QED
  BY <1>1, <1>2 DEF Kin

LEMMA GapPctScales ==
    ASSUME NEW n \in Nat, NEW df, NEW eg, Readjusted(df, eg, n), NEW c
    PROVE  GapPct(eg, c) = GapPct(df, c)
<1>1. PICK k \in Unit : \A col \in PriceColumns : Column(df[col], n) /\ eg[col] = Scaled(df[col], k)
  BY DEF Readjusted
<1>2. /\ Column(df.adj_close, n) /\ eg.adj_close = Scaled(df.adj_close, k)
      /\ Column(df.adj_open, n) /\ eg.adj_open = Scaled(df.adj_open, k)
  BY <1>1 DEF PriceColumns
<1>3. Percent(PreviousClose(eg), eg.adj_open) = Percent(PreviousClose(df), df.adj_open)
  BY <1>2, ShiftScales, PercentScales DEF PreviousClose
<1>4. QED
  BY <1>3 DEF GapPct

LEMMA BullishCandleScales ==
    ASSUME NEW n \in Nat, NEW df, NEW eg, Readjusted(df, eg, n), NEW c
    PROVE  BullishCandle(eg, c) = BullishCandle(df, c)
<1>1. PICK k \in Unit : \A col \in PriceColumns : Column(df[col], n) /\ eg[col] = Scaled(df[col], k)
  BY DEF Readjusted
<1> DEFINE body(f)  == Difference(f.adj_close, f.adj_open)
           range(f) == Difference(f.adj_high, f.adj_low)
           share(b, r) == [i \in DOMAIN b |-> Over(Times(Num(100), b[i]), r[i])]
<1>2. /\ Column(body(df), n) /\ body(eg) = Scaled(body(df), k)
      /\ Column(range(df), n) /\ range(eg) = Scaled(range(df), k)
  <2>1. /\ Column(df.adj_close, n) /\ eg.adj_close = Scaled(df.adj_close, k)
        /\ Column(df.adj_open, n) /\ eg.adj_open = Scaled(df.adj_open, k)
        /\ Column(df.adj_high, n) /\ eg.adj_high = Scaled(df.adj_high, k)
        /\ Column(df.adj_low, n) /\ eg.adj_low = Scaled(df.adj_low, k)
    BY <1>1 DEF PriceColumns
  <2>2. QED
    BY <2>1, DifferenceScales
<1>3. \A f : BullishCandle(f, c) = Both(Meets(body(f), ">", 0), Meets(share(body(f), range(f)), ">=", c.min_body_pct))
  BY DEF BullishCandle
<1>4. PICK b, r : b = body(df) /\ r = range(df)
  OBVIOUS
<1> HIDE DEF body, range
<1>5. share(Scaled(b, k), Scaled(r, k)) = share(b, r)
  <2>1. Num(100) \in Numeric
    BY NumIs DEF Numeric
  <2>2. ASSUME NEW i \in 1 .. n
        PROVE  Over(Times(Num(100), Scaled(b, k)[i]), Scaled(r, k)[i]) = Over(Times(Num(100), b[i]), r[i])
    <3>1. PICK v, w \in Numeric : /\ v = b[i] /\ Scaled(b, k)[i] = Times(k, v)
                                  /\ w = r[i] /\ Scaled(r, k)[i] = Times(k, w)
      BY <1>2, <1>4, ScaledIs
    <3>2. Times(Num(100), Times(k, v)) = Times(k, Times(Num(100), v)) /\ Times(Num(100), v) \in Numeric
      BY <2>1, ScaleTimes, OperatorsTyped
    <3>3. Over(Times(k, Times(Num(100), v)), Times(k, w)) = Over(Times(Num(100), v), w)
      BY <3>2, ScaleRatio
    <3>4. QED
      BY <3>1, <3>2, <3>3
  <2>3. DOMAIN Scaled(b, k) = 1 .. n /\ DOMAIN b = 1 .. n
    BY <1>2, <1>4, ScaledIs
  <2>4. QED
    BY <2>2, <2>3
<1> HIDE DEF share
<1>6. Meets(body(eg), ">", 0) = Meets(body(df), ">", 0)
  BY <1>2, MeetsScales
<1>7. QED
  BY <1>2, <1>3, <1>4, <1>5, <1>6

\* The types, and the keys each of them reads.
LEMMA TypesAre ==
    TimeseriesTypes =
      {"price_vs_ma", "ma_cross", "ma_alignment", "new_high_breakout", "gap_pct", "momentum_return",
       "price_change_pct", "bullish_candle", "volume_ratio", "avg_trading_value",
       "market_index_filter", "rsi_level", "rsi_cross", "macd_cross", "macd_histogram"}
BY DEF TimeseriesTypes, Defaults

LEMMA ReadsAre ==
    /\ {"price_field", "ma_period"} \subseteq Reads("price_vs_ma")
    /\ {"price_field", "short_period", "long_period"} \subseteq Reads("ma_cross")
    /\ {"price_field", "short_period", "mid_period", "long_period"} \subseteq Reads("ma_alignment")
    /\ {"field", "period"} \subseteq Reads("new_high_breakout")
    /\ {"price_field", "period"} \subseteq Reads("momentum_return")
    /\ "price_field" \in Reads("price_change_pct")
    /\ {"volume_field", "period"} \subseteq Reads("volume_ratio")
    /\ "period" \in Reads("avg_trading_value")
    /\ "index_col" \in Reads("market_index_filter")
    /\ \A type \in {"rsi_level", "rsi_cross"} : {"price_field", "period"} \subseteq Reads(type)
    /\ \A type \in {"macd_cross", "macd_histogram"} :
         {"price_field", "fast", "slow", "signal"} \subseteq Reads(type)
BY DEF Reads, Defaults, MustHave

LEMMA FilledKeepsType ==
    ASSUME NEW c, "type" \in DOMAIN c
    PROVE  Filled(c).type = c.type
BY DEF Filled

LEMMA RelativeParameters ==
    ASSUME NEW c, "type" \in DOMAIN c, ~Raises(c), Relative(c)
    PROVE  /\ c.type \in TimeseriesTypes
           /\ \A key \in ColumnKeys \cap Reads(c.type) : Filled(c)[key] \in FrameColumns
           /\ \A key \in ParameterKeys \cap Reads(c.type) : Filled(c)[key] \in Int
           /\ c.type # "avg_trading_value" =>
                \A key \in {"period", "ma_period", "short_period"} \cap Reads(c.type) :
                  Filled(c)[key] \in Nat \ {0}
           /\ c.type = "ma_cross" => Filled(c).long_period \in Nat
           /\ c.type = "ma_alignment" => Filled(c).mid_period \in Nat /\ Filled(c).long_period \in Nat
<1>1. c.type \in TimeseriesTypes /\ ~Refused(Filled(c)) /\ Filled(c).type = c.type
  BY FilledKeepsType DEF Raises
<1>2. PICK d : d = Filled(c)
  OBVIOUS
<1>3. \A key \in ParameterKeys \cap Reads(c.type) : d[key] \in Int
  BY <1>2 DEF Relative
<1>4. \A key \in ColumnKeys \cap Reads(c.type) : d[key] \in FrameColumns
  BY <1>1, <1>2 DEF Refused
<1>5. ASSUME c.type # "avg_trading_value", NEW key \in {"period", "ma_period", "short_period"} \cap Reads(c.type)
      PROVE  d[key] \in Nat \ {0}
  <2>1. ~(d[key] < 1)
    BY <1>1, <1>2, <1>5 DEF Refused
  <2>2. d[key] \in Int
    BY <1>3 DEF ParameterKeys
  <2>3. QED
    BY <2>1, <2>2
<1>6. ASSUME c.type = "ma_cross" PROVE d.long_period \in Nat
  <2>1. ~(d.short_period >= d.long_period)
    BY <1>1, <1>2, <1>6 DEF Refused
  <2>2. d.short_period \in Nat \ {0} /\ d.long_period \in Int
    BY <1>3, <1>5, <1>6, ReadsAre DEF ParameterKeys
  <2>3. QED
    BY <2>1, <2>2
<1>7. ASSUME c.type = "ma_alignment" PROVE d.mid_period \in Nat /\ d.long_period \in Nat
  <2>1. d.short_period < d.mid_period /\ d.mid_period < d.long_period
    BY <1>1, <1>2, <1>7 DEF Refused
  <2>2. d.short_period \in Nat \ {0} /\ d.mid_period \in Int /\ d.long_period \in Int
    BY <1>3, <1>5, <1>7, ReadsAre DEF ParameterKeys
  <2>3. QED
    BY <2>1, <2>2
<1>8. QED
  BY <1>1, <1>2, <1>3, <1>4, <1>5, <1>6, <1>7

\* A condition that compares prices with prices says the same of a frame whatever
\* the unit of its adjusted prices and that of its adjusted volumes: a corporate
\* action, which changes both units, changes no verdict.
THEOREM ConditionsAreRelative ==
    ASSUME NEW n \in Nat, NEW df, NEW eg, Readjusted(df, eg, n),
           NEW c, "type" \in DOMAIN c, ~Raises(c), Relative(c)
    PROVE  Evaluate(eg, c) = Evaluate(df, c)
<1> DEFINE d == Filled(c)
<1>0. d.type = c.type
  BY FilledKeepsType
<1>1. /\ c.type \in TimeseriesTypes
      /\ \A key \in ColumnKeys \cap Reads(c.type) : d[key] \in FrameColumns
      /\ \A key \in ParameterKeys \cap Reads(c.type) : d[key] \in Int
      /\ c.type # "avg_trading_value" =>
           \A key \in {"period", "ma_period", "short_period"} \cap Reads(c.type) : d[key] \in Nat \ {0}
      /\ c.type = "ma_cross" => d.long_period \in Nat
      /\ c.type = "ma_alignment" => d.mid_period \in Nat /\ d.long_period \in Nat
  BY RelativeParameters
<1>2. \A f : Evaluate(f, c) =
         CASE d.type = "price_vs_ma" -> PriceVsMa(f, d)
           [] d.type = "ma_cross" -> MaCross(f, d)
           [] d.type = "ma_alignment" -> MaAlignment(f, d)
           [] d.type = "new_high_breakout" -> NewHighBreakout(f, d)
           [] d.type = "gap_pct" -> GapPct(f, d)
           [] d.type = "momentum_return" -> MomentumReturn(f, d)
           [] d.type = "price_change_pct" -> PriceChangePct(f, d)
           [] d.type = "bullish_candle" -> BullishCandle(f, d)
           [] d.type = "volume_ratio" -> VolumeRatio(f, d)
           [] d.type = "avg_trading_value" -> AvgTradingValue(f, d)
           [] d.type = "market_index_filter" -> MarketIndexFilter(f, d)
           [] d.type = "rsi_level" -> RsiLevel(f, d)
           [] d.type = "rsi_cross" -> RsiCross(f, d)
           [] d.type = "macd_cross" -> MacdCross(f, d)
           [] d.type = "macd_histogram" -> MacdHistogram(f, d)
  BY DEF Evaluate
<1>3. "index_col" \in Reads(c.type) => d.index_col \notin PriceColumns \cup VolumeColumns
  BY DEF Relative
<1>4. c.type = "macd_histogram" => d.value = 0 \/ d.price_field \notin PriceColumns \cup VolumeColumns
  BY DEF Relative
<1> HIDE DEF d
<1>5. \A key \in ColumnKeys \cap Reads(c.type) : Kin(df[d[key]], eg[d[key]], n)
  BY <1>1, KinColumns
<1>6. /\ DOMAIN df = DOMAIN eg /\ FrameColumns \subseteq DOMAIN df
      /\ \A col \in DOMAIN df \ (PriceColumns \cup VolumeColumns) : eg[col] = df[col]
  BY DEF Readjusted
<1>7. eg.close = df.close /\ eg.volume = df.volume
  BY <1>6 DEF FrameColumns, PriceColumns, VolumeColumns
<1>8. CASE c.type = "price_vs_ma"
  <2>1. Kin(df[d.price_field], eg[d.price_field], n) /\ d.ma_period \in Nat
    BY <1>1, <1>5, <1>8, ReadsAre DEF ColumnKeys
  <2>2. QED
    BY <1>0, <1>2, <1>8, <2>1, PriceVsMaScales
<1>9. CASE c.type = "ma_cross"
  <2>1. Kin(df[d.price_field], eg[d.price_field], n) /\ d.short_period \in Nat /\ d.long_period \in Nat
    BY <1>1, <1>5, <1>9, ReadsAre DEF ColumnKeys
  <2>2. QED
    BY <1>0, <1>2, <1>9, <2>1, MaCrossScales
<1>10. CASE c.type = "ma_alignment"
  <2>1. /\ Kin(df[d.price_field], eg[d.price_field], n)
        /\ d.short_period \in Nat /\ d.mid_period \in Nat /\ d.long_period \in Nat
    BY <1>1, <1>5, <1>10, ReadsAre DEF ColumnKeys
  <2>2. QED
    BY <1>0, <1>2, <1>10, <2>1, MaAlignmentScales
<1>11. CASE c.type = "new_high_breakout"
  <2>1. Kin(df[d.field], eg[d.field], n) /\ d.period \in Nat \ {0}
    BY <1>1, <1>5, <1>11, ReadsAre DEF ColumnKeys
  <2>2. QED
    BY <1>0, <1>2, <1>11, <2>1, NewHighBreakoutScales
<1>12. CASE c.type = "gap_pct"
  BY <1>0, <1>2, <1>12, GapPctScales
<1>13. CASE c.type = "momentum_return"
  <2>1. Kin(df[d.price_field], eg[d.price_field], n) /\ d.period \in Int
    BY <1>1, <1>5, <1>13, ReadsAre DEF ColumnKeys
  <2>2. Change(eg[d.price_field], d.period) = Change(df[d.price_field], d.period)
    BY <2>1, ChangeScales
  <2>3. QED
    BY <1>0, <1>2, <1>13, <2>2 DEF MomentumReturn
<1>14. CASE c.type = "price_change_pct"
  <2>1. Kin(df[d.price_field], eg[d.price_field], n)
    BY <1>5, <1>14, ReadsAre DEF ColumnKeys
  <2>2. Change(eg[d.price_field], 1) = Change(df[d.price_field], 1)
    BY <2>1, ChangeScales
  <2>3. QED
    BY <1>0, <1>2, <1>14, <2>2 DEF PriceChangePct
<1>15. CASE c.type = "bullish_candle"
  BY <1>0, <1>2, <1>15, BullishCandleScales
<1>16. CASE c.type = "volume_ratio"
  <2>1. Kin(df[d.volume_field], eg[d.volume_field], n) /\ d.period \in Nat
    BY <1>1, <1>5, <1>16, ReadsAre DEF ColumnKeys
  <2>2. QED
    BY <1>0, <1>2, <1>16, <2>1, VolumeRatioScales
<1>17. CASE c.type = "avg_trading_value"
  <2>1. AvgTradingValue(eg, d) = AvgTradingValue(df, d)
    BY <1>7 DEF AvgTradingValue
  <2>2. QED
    BY <1>0, <1>2, <1>17, <2>1
<1>18. CASE c.type = "market_index_filter"
  <2>1. d.index_col \in DOMAIN df => eg[d.index_col] = df[d.index_col]
    BY <1>3, <1>6, <1>18, ReadsAre
  <2>2. MarketIndexFilter(eg, d) = MarketIndexFilter(df, d)
    BY <1>6, <1>7, <2>1 DEF MarketIndexFilter
  <2>3. QED
    BY <1>0, <1>2, <1>18, <2>2
<1>19. CASE c.type = "rsi_level"
  <2>1. Kin(df[d.price_field], eg[d.price_field], n) /\ d.period \in Int
    BY <1>1, <1>5, <1>19, ReadsAre DEF ColumnKeys
  <2>2. Rsi(eg[d.price_field], d.period) = Rsi(df[d.price_field], d.period)
    BY <2>1, RsiKin
  <2>3. QED
    BY <1>0, <1>2, <1>19, <2>2 DEF RsiLevel
<1>20. CASE c.type = "rsi_cross"
  <2>1. Kin(df[d.price_field], eg[d.price_field], n) /\ d.period \in Int
    BY <1>1, <1>5, <1>20, ReadsAre DEF ColumnKeys
  <2>2. Rsi(eg[d.price_field], d.period) = Rsi(df[d.price_field], d.period)
    BY <2>1, RsiKin
  <2>3. QED
    BY <1>0, <1>2, <1>20, <2>2 DEF RsiCross
<1>21. ASSUME c.type \in {"macd_cross", "macd_histogram"}
       PROVE  /\ Kin(df[d.price_field], eg[d.price_field], n)
              /\ d.fast \in Int /\ d.slow \in Int /\ d.signal \in Int
              /\ d.price_field \in DOMAIN df
  <2>1. {"price_field", "fast", "slow", "signal"} \subseteq Reads(c.type)
    BY <1>21, ReadsAre
  <2>2. QED
    BY <1>1, <1>5, <1>6, <2>1 DEF ColumnKeys, ParameterKeys
<1>22. CASE c.type = "macd_cross"
  <2>1. MacdCross(eg, d) = MacdCross(df, d)
    BY <1>21, <1>22, MacdCrossScales
  <2>2. QED
    BY <1>0, <1>2, <1>22, <2>1
<1>23. CASE c.type = "macd_histogram"
  <2>1. d.value = 0 \/ eg[d.price_field] = df[d.price_field]
    BY <1>4, <1>6, <1>21, <1>23
  <2>2. MacdHistogram(eg, d) = MacdHistogram(df, d)
    BY <1>21, <1>23, <2>1, MacdHistogramScales
  <2>3. QED
    BY <1>0, <1>2, <1>23, <2>2
<1>24. QED
  BY <1>1, <1>8, <1>9, <1>10, <1>11, <1>12, <1>13, <1>14, <1>15, <1>16, <1>17, <1>18, <1>19,
     <1>20, <1>22, <1>23, TypesAre
=============================================================================
