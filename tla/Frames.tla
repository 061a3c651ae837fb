------------------------------- MODULE Frames -------------------------------
(***************************************************************************)
(* The part of pandas that strategy/indicators.py and the conditions use.  *)
(* A number is a fraction in lowest terms, so that means and quotients are *)
(* exact; NaN is the empty sequence.  A column gives each row a number, or *)
(* a truth value.                                                          *)
(***************************************************************************)
EXTENDS Integers, Sequences, FiniteSets, Functions

Gcd[b \in Nat] == [a \in Nat |-> IF b = 0 THEN a ELSE Gcd[a % b][b]]

Size(n) == IF n < 0 THEN -n ELSE n

NaN == << >>

\* 0/0 is NaN; a quotient of anything else by zero does not occur.
Fraction(n, d) ==
    LET g    == Gcd[Size(d)][Size(n)]
        sign == IF d < 0 THEN -1 ELSE 1
    IN  IF d = 0 THEN NaN ELSE <<(sign * n) \div g, (sign * d) \div g>>

Num(n) == <<n, 1>>
Number == Seq(Int)

\* Whatever is computed of NaN is NaN.
Plus(x, y)  == IF NaN \in {x, y} THEN NaN ELSE Fraction(x[1] * y[2] + y[1] * x[2], x[2] * y[2])
Minus(x, y) == IF NaN \in {x, y} THEN NaN ELSE Fraction(x[1] * y[2] - y[1] * x[2], x[2] * y[2])
Times(x, y) == IF NaN \in {x, y} THEN NaN ELSE Fraction(x[1] * y[1], x[2] * y[2])
Over(x, y)  == IF NaN \in {x, y} THEN NaN ELSE Fraction(x[1] * y[2], x[2] * y[1])

\* Every comparison with NaN is false.
Less(x, y) == NaN \notin {x, y} /\ x[1] * y[2] < y[1] * x[2]

-----------------------------------------------------------------------------
\* Columns, row by row.
Constantly(value, rows) == [i \in rows |-> value]

Both(p, q)       == [i \in DOMAIN p |-> p[i] /\ q[i]]
Difference(x, y) == [i \in DOMAIN x |-> Minus(x[i], y[i])]
Quotient(x, y)   == [i \in DOMAIN x |-> Over(x[i], y[i])]
Shift(x, n)      == [i \in DOMAIN x |-> IF i - n \in DOMAIN x THEN x[i - n] ELSE NaN]
Diff(x)          == Difference(x, Shift(x, 1))

\* What comes of the entries of s, taken one after the other.
Accumulated(step, first, s) ==
    LET after[n \in 0 .. Len(s)] == IF n = 0 THEN first ELSE step[after[n - 1]][s[n]]
    IN  after[Len(s)]

Total(s) == Accumulated([x \in Number |-> [y \in Number |-> Plus(x, y)]], Num(0), s)
Mean(s)  == Over(Total(s), Num(Len(s)))

Tops(s)    == {j \in DOMAIN s : \A k \in DOMAIN s : ~Less(s[j], s[k])}
Highest(s) == s[CHOOSE j \in Tops(s) : TRUE]

\* rolling(period, min_periods=period): a row whose window is not full of
\* numbers has none itself.
Window(x, i, period) == [j \in 1 .. period |-> x[i - period + j]]
Full(x, i, period)   == \A j \in (i - period + 1) .. i : j \in DOMAIN x /\ x[j] # NaN

RollingMean(x, period) ==
    [i \in DOMAIN x |-> IF Full(x, i, period) THEN Mean(Window(x, i, period)) ELSE NaN]

RollingMax(x, period) ==
    [i \in DOMAIN x |-> IF Full(x, i, period) THEN Highest(Window(x, i, period)) ELSE NaN]

\* ewm(alpha, adjust=False, min_periods): starts at the first number, and shows
\* nothing before it has seen minPeriods of them.
Weighted(alpha, before, value) == Plus(Times(alpha, value), Times(Minus(Num(1), alpha), before))

Smoothing(alpha) ==
    [before \in Number |-> [value \in Number |->
        CASE value = NaN  -> before
          [] before = NaN -> value
          [] OTHER        -> Weighted(alpha, before, value)]]

Smoothed(past, alpha) == Accumulated(Smoothing(alpha), NaN, past)

NumbersIn(past) == Cardinality({i \in DOMAIN past : past[i] # NaN})

Ewm(x, alpha, minPeriods) ==
    [i \in DOMAIN x |->
       IF NumbersIn(Window(x, i, i)) >= minPeriods THEN Smoothed(Window(x, i, i), alpha) ELSE NaN]
=============================================================================
