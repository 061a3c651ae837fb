------------------------------ MODULE Amounts ------------------------------
(***************************************************************************)
(* Lemmas about amounts.                                                   *)
(*                                                                         *)
(* Sums over finite sets: MapThenSumSet adds up in an order of its own,    *)
(* and what it gives does not depend on the order.  The inductions are     *)
(* over the least number of members of a set that would be an exception.   *)
(*                                                                         *)
(* Prices, costs and proceeds of Execution: natural numbers whatever the   *)
(* ticks, the fee, the tax of the date and the slippage are.               *)
(***************************************************************************)
EXTENDS Execution, FiniteSetsExt, TLAPS, FiniteSetTheorems, WellFoundedInduction

\* The member that is added next, and the equation of the sum over the subsets
\* of S of the values of f.
Pick(T)        == CHOOSE x \in T : TRUE
Adds(g, f, S)  == g = [T \in SUBSET S |-> IF T = {} THEN 0 ELSE f[Pick(T)] + g[T \ {Pick(T)}]]
Total(f, S)    == (CHOOSE g : Adds(g, f, S))[S]

\* The least member of a nonempty set of numbers.
LEMMA LeastNatural ==
    ASSUME NEW T \in SUBSET Nat, T # {}
    PROVE  Min(T) \in T /\ \A y \in T : Min(T) <= y
<1> DEFINE less == {pair \in Nat \X Nat : pair[1] < pair[2]}
<1>1. IsWellFoundedOn(less, Nat)
  BY NatLessThanWellFounded DEF OpToRel
<1> HIDE DEF less
<1>2. PICK x \in T : \A y \in T : ~ (<<y, x>> \in less)
  BY <1>1, WFMin
<1>3. ASSUME NEW y \in T PROVE x <= y
  <2>1. ~ (<<y, x>> \in less) /\ x \in Nat /\ y \in Nat
    BY <1>2
  <2>2. ~ (y < x)
    BY <2>1 DEF less
  <2>3. QED
    BY <2>1, <2>2
<1>4. QED
  BY <1>3 DEF Min

\* A set of finite sets with a member has one with the fewest members.
LEMMA Smallest ==
    ASSUME NEW X, X # {}, \A T \in X : IsFiniteSet(T)
    PROVE  \E T \in X : \A U \in X : Cardinality(T) <= Cardinality(U)
<1> DEFINE sizes == {Cardinality(T) : T \in X}
<1>1. sizes \in SUBSET Nat /\ sizes # {}
  BY FS_CardinalityType
<1>2. Min(sizes) \in sizes /\ \A n \in sizes : Min(sizes) <= n
  <2> HIDE DEF sizes
  <2>1. QED
    BY <1>1, LeastNatural
<1>3. QED
  BY <1>2

\* Taking a member out makes a finite set smaller.
LEMMA OneLess ==
    ASSUME NEW T, IsFiniteSet(T), NEW x \in T
    PROVE  IsFiniteSet(T \ {x}) /\ ~(Cardinality(T) <= Cardinality(T \ {x}))
<1>1. IsFiniteSet(T \ {x}) /\ Cardinality(T \ {x}) = Cardinality(T) - 1
  BY FS_RemoveElement
<1>2. Cardinality(T) \in Nat
  BY FS_CardinalityType
<1>3. QED
  BY <1>1, <1>2

LEMMA Picked == ASSUME NEW T, T # {} PROVE Pick(T) \in T
  BY DEF Pick

\* Two solutions of the equation agree where both are defined.
LEMMA AddsAgree ==
    ASSUME NEW f, NEW e, NEW S, NEW R, NEW g, NEW h, IsFiniteSet(S),
           Adds(g, f, S), Adds(h, e, R), \A x \in S \cap R : f[x] = e[x]
    PROVE  \A T \in SUBSET (S \cap R) : g[T] = h[T]
<1> DEFINE X == {T \in SUBSET (S \cap R) : g[T] # h[T]}
<1> SUFFICES ASSUME X # {} PROVE FALSE
  OBVIOUS
<1>1. \A T \in X : IsFiniteSet(T)
  BY FS_Subset
<1>2. PICK T \in X : \A U \in X : Cardinality(T) <= Cardinality(U)
  <2> HIDE DEF X
  <2>1. QED
    BY <1>1, Smallest
<1>3. T \in SUBSET S /\ T \in SUBSET R /\ g[T] # h[T] /\ IsFiniteSet(T)
  BY <1>1, <1>2
<1>4. T # {}
  BY <1>3 DEF Adds
<1> DEFINE p == Pick(T)
<1>5. p \in T
  BY <1>4, Picked
<1>6. g[T] = f[p] + g[T \ {p}] /\ h[T] = e[p] + h[T \ {p}] /\ f[p] = e[p]
  BY <1>3, <1>4, <1>5 DEF Adds
<1>7. g[T \ {p}] # h[T \ {p}]
  BY <1>3, <1>6
<1> HIDE DEF p
<1>8. T \ {p} \in X
  BY <1>3, <1>7
<1>9. QED
  BY <1>2, <1>3, <1>5, <1>8, OneLess

\* The equation has a solution.
LEMMA AddsExists ==
    ASSUME NEW f, NEW S, IsFiniteSet(S)
    PROVE  \E g : Adds(g, f, S)
<1> DEFINE X == {T \in SUBSET S : ~\E g : Adds(g, f, T)}
<1> SUFFICES ASSUME X # {} PROVE FALSE
  OBVIOUS
<1>1. \A T \in X : IsFiniteSet(T)
  BY FS_Subset
<1>2. PICK T \in X : \A U \in X : Cardinality(T) <= Cardinality(U)
  <2> HIDE DEF X
  <2>1. QED
    BY <1>1, Smallest
<1>3. IsFiniteSet(T) /\ T \in SUBSET S
  BY <1>1, <1>2
<1> DEFINE part(U) == CHOOSE g : Adds(g, f, U)
<1>4. ASSUME NEW x \in T, NEW U \in SUBSET (T \ {x})
      PROVE  IsFiniteSet(U) /\ Adds(part(U), f, U)
  <2>1. IsFiniteSet(U) /\ Cardinality(U) <= Cardinality(T \ {x})
    BY <1>3, <1>4, OneLess, FS_Subset
  <2>2. ~(Cardinality(T) <= Cardinality(U))
    <3>1. /\ Cardinality(U) \in Nat /\ Cardinality(T) \in Nat
          /\ Cardinality(T \ {x}) = Cardinality(T) - 1
      BY <1>3, <2>1, FS_CardinalityType, FS_RemoveElement
    <3>2. QED
      BY <2>1, <3>1
  <2>3. U \notin X
    BY <1>2, <2>2
  <2>4. QED
    BY <1>3, <2>1, <2>3
<1> DEFINE whole == [U \in SUBSET T |-> IF U = {} THEN 0
                                        ELSE f[Pick(U)] + part(U \ {Pick(U)})[U \ {Pick(U)}]]
<1>5. ASSUME NEW U \in SUBSET T, U # {}
      PROVE  part(U \ {Pick(U)})[U \ {Pick(U)}] = whole[U \ {Pick(U)}]
  <2> DEFINE p == Pick(U)
             V == U \ {p}
  <2>1. p \in U /\ p \in T /\ V \in SUBSET (T \ {p})
    BY <1>5, Picked
  <2>2. IsFiniteSet(V) /\ Adds(part(V), f, V)
    BY <1>4, <2>1
  <2> HIDE DEF p, V, part
  <2>3. CASE V = {}
    <3>1. part(V)[V] = 0
      BY <2>2, <2>3 DEF Adds
    <3>2. whole[V] = 0
      BY <2>3
    <3>3. QED
      BY <3>1, <3>2 DEF V, p
  <2>4. CASE V # {}
    <3> DEFINE q == Pick(V)
               W == V \ {q}
    <3>1. q \in V /\ W \in SUBSET (T \ {p})
      BY <2>1, <2>4, Picked
    <3>2. Adds(part(W), f, W)
      BY <1>4, <2>1, <3>1
    <3>3. part(V)[V] = f[q] + part(V)[W]
      BY <2>2, <2>4 DEF Adds
    <3>4. whole[V] = f[q] + part(W)[W]
      BY <2>1, <2>4
    <3> HIDE DEF q, W
    <3>5. W \in SUBSET V
      BY DEF W
    <3>6. part(V)[W] = part(W)[W]
      <4>1. W \in SUBSET (V \cap W)
        BY <3>5
      <4>2. QED
        BY <2>2, <3>2, <4>1, AddsAgree
    <3>7. QED
      BY <3>3, <3>4, <3>6 DEF V, p
  <2>5. QED
    BY <2>3, <2>4
<1>6. Adds(whole, f, T)
  <2> HIDE DEF part
  <2>1. whole = [U \in SUBSET T |-> IF U = {} THEN 0 ELSE f[Pick(U)] + whole[U \ {Pick(U)}]]
    BY <1>5
  <2> HIDE DEF whole
  <2>2. QED
    BY <2>1 DEF Adds
<1>7. QED
  BY <1>2, <1>6

\* What a solution gives for the whole set is the total.
LEMMA TotalIs ==
    ASSUME NEW f, NEW S, IsFiniteSet(S), NEW e, NEW R, NEW g, Adds(g, e, R), S \subseteq R,
           \A x \in S : f[x] = e[x]
    PROVE  g[S] = Total(f, S)
<1> DEFINE h == CHOOSE g1 : Adds(g1, f, S)
<1>1. Adds(h, f, S)
  BY AddsExists
<1>2. Total(f, S) = h[S]
  BY DEF Total
<1> HIDE DEF h
<1>3. S \in SUBSET (S \cap R)
  OBVIOUS
<1>4. QED
  BY <1>1, <1>2, <1>3, AddsAgree

\* Equal values have equal totals.
THEOREM TotalOfEqual ==
    ASSUME NEW f, NEW e, NEW S, IsFiniteSet(S), \A x \in S : f[x] = e[x]
    PROVE  Total(f, S) = Total(e, S)
<1>1. PICK g : Adds(g, e, S)
  BY AddsExists
<1>2. g[S] = Total(f, S) /\ g[S] = Total(e, S)
  BY <1>1, TotalIs
<1>3. QED
  BY <1>2

THEOREM TotalOfNone ==
    ASSUME NEW f
    PROVE  Total(f, {}) = 0
<1>1. PICK g : Adds(g, f, {})
  BY AddsExists, FS_EmptySet
<1>2. g[{}] = 0
  BY <1>1 DEF Adds
<1>3. QED
  BY <1>1, <1>2, TotalIs, FS_EmptySet

\* A total of integers is one.
LEMMA AddsTyped ==
    ASSUME NEW f, NEW S, IsFiniteSet(S), \A x \in S : f[x] \in Int, NEW g, Adds(g, f, S)
    PROVE  \A T \in SUBSET S : g[T] \in Int
<1> DEFINE X == {T \in SUBSET S : g[T] \notin Int}
<1> SUFFICES ASSUME X # {} PROVE FALSE
  OBVIOUS
<1>1. \A T \in X : IsFiniteSet(T)
  BY FS_Subset
<1>2. PICK T \in X : \A U \in X : Cardinality(T) <= Cardinality(U)
  <2> HIDE DEF X
  <2>1. QED
    BY <1>1, Smallest
<1>3. T \in SUBSET S /\ g[T] \notin Int /\ IsFiniteSet(T)
  BY <1>1, <1>2
<1>4. T # {}
  BY <1>3 DEF Adds
<1> DEFINE p == Pick(T)
<1>5. p \in T
  BY <1>4, Picked
<1>6. g[T] = f[p] + g[T \ {p}] /\ f[p] \in Int
  BY <1>3, <1>4, <1>5 DEF Adds
<1> HIDE DEF p
<1>7. T \ {p} \in X
  BY <1>3, <1>6
<1>8. QED
  BY <1>2, <1>3, <1>5, <1>7, OneLess

\* Whatever member is taken out first, the rest is the same.
LEMMA AnyFirst ==
    ASSUME NEW f, NEW S, IsFiniteSet(S), \A x \in S : f[x] \in Int, NEW g, Adds(g, f, S)
    PROVE  \A T \in SUBSET S : \A x \in T : g[T] = f[x] + g[T \ {x}]
<1> DEFINE X == {T \in SUBSET S : \E x \in T : g[T] # f[x] + g[T \ {x}]}
<1> SUFFICES ASSUME X # {} PROVE FALSE
  OBVIOUS
<1>1. \A T \in X : IsFiniteSet(T)
  BY FS_Subset
<1>2. PICK T \in X : \A U \in X : Cardinality(T) <= Cardinality(U)
  <2> HIDE DEF X
  <2>1. QED
    BY <1>1, Smallest
<1>3. T \in SUBSET S /\ IsFiniteSet(T) /\ \E x \in T : g[T] # f[x] + g[T \ {x}]
  BY <1>1, <1>2
<1>4. PICK x \in T : g[T] # f[x] + g[T \ {x}]
  BY <1>3
<1> DEFINE p == Pick(T)
<1>5. p \in T
  BY <1>4, Picked
<1>6. g[T] = f[p] + g[T \ {p}]
  BY <1>3, <1>5 DEF Adds
<1>7. p # x
  BY <1>4, <1>6
<1> HIDE DEF p
<1>8. T \ {p} \notin X /\ T \ {x} \notin X
  BY <1>2, <1>3, <1>4, <1>5, OneLess
<1>9. T \ {p} \in SUBSET S /\ x \in T \ {p} /\ T \ {x} \in SUBSET S /\ p \in T \ {x}
  BY <1>3, <1>4, <1>5, <1>7
<1>10. g[T \ {p}] = f[x] + g[(T \ {p}) \ {x}]
  BY <1>8, <1>9
<1>11. g[T \ {x}] = f[p] + g[(T \ {x}) \ {p}]
  BY <1>8, <1>9
<1>12. (T \ {p}) \ {x} = (T \ {x}) \ {p}
  OBVIOUS
<1>13. /\ f[x] \in Int /\ f[p] \in Int /\ g[(T \ {p}) \ {x}] \in Int
  <2>1. (T \ {p}) \ {x} \in SUBSET S
    BY <1>3
  <2>2. QED
    BY <1>3, <1>4, <1>5, <2>1, AddsTyped
<1> DEFINE c == g[(T \ {p}) \ {x}]
<1>14. f[p] + (f[x] + c) = f[x] + (f[p] + c)
  <2> HIDE DEF c
  <2>1. c \in Int
    BY <1>13 DEF c
  <2>2. QED
    BY <1>13, <2>1
<1>15. g[T] = f[p] + (f[x] + c) /\ f[x] + g[T \ {x}] = f[x] + (f[p] + c)
  BY <1>6, <1>10, <1>11, <1>12
<1> HIDE DEF c
<1>16. QED
  BY <1>4, <1>14, <1>15

THEOREM TotalTyped ==
    ASSUME NEW f, NEW S, IsFiniteSet(S), \A x \in S : f[x] \in Int
    PROVE  Total(f, S) \in Int
<1>1. PICK g : Adds(g, f, S)
  BY AddsExists
<1>2. g[S] \in Int
  BY <1>1, AddsTyped
<1>3. QED
  BY <1>1, <1>2, TotalIs

\* A new member adds its value.
THEOREM TotalOfOneMore ==
    ASSUME NEW f, NEW S, IsFiniteSet(S), NEW x, x \notin S, \A y \in S \cup {x} : f[y] \in Int
    PROVE  Total(f, S \cup {x}) = Total(f, S) + f[x]
<1> DEFINE R == S \cup {x}
<1>1. IsFiniteSet(R)
  BY FS_AddElement
<1>2. PICK g : Adds(g, f, R)
  BY <1>1, AddsExists
<1>3. g[R] = f[x] + g[R \ {x}] /\ R \ {x} = S
  <2>1. R \in SUBSET R /\ x \in R /\ R \ {x} = S
    OBVIOUS
  <2> HIDE DEF R
  <2>2. QED
    BY <1>1, <1>2, <2>1, AnyFirst
<1>4. g[R] = Total(f, R) /\ g[S] = Total(f, S)
  <2>1. S \subseteq R
    OBVIOUS
  <2> HIDE DEF R
  <2>2. QED
    BY <1>1, <1>2, <2>1, TotalIs
<1>5. Total(f, S) \in Int
  BY TotalTyped
<1>6. f[x] + Total(f, S) = Total(f, S) + f[x]
  BY <1>5
<1>7. QED
  BY <1>3, <1>4, <1>6

\* Also when the values were given by another function before.
THEOREM TotalOfNewMember ==
    ASSUME NEW f, NEW e, NEW S, IsFiniteSet(S), NEW x, x \notin S, \A y \in S : f[y] = e[y],
           \A y \in S \cup {x} : e[y] \in Int
    PROVE  Total(f, S) \in Int /\ Total(e, S \cup {x}) = Total(f, S) + e[x]
<1>1. Total(f, S) = Total(e, S)
  BY TotalOfEqual
<1>2. Total(e, S) \in Int
  BY TotalTyped
<1>3. QED
  BY <1>1, <1>2, TotalOfOneMore

\* SumFunction of the community modules is such a sum, of all values or, of a
\* function that was cut to S, of those of S.
LEMMA SumIsTotal ==
    ASSUME NEW f
    PROVE  SumFunction(f) = Total(f, DOMAIN f)
  BY DEF SumFunction, SumFunctionOnSet, FoldFunctionOnSet, MapThenFoldSet, Total, Adds, Pick

THEOREM SumOfSome ==
    ASSUME NEW f, NEW S, IsFiniteSet(S), NEW e, DOMAIN e = S, \A x \in S : e[x] = f[x]
    PROVE  SumFunction(e) = Total(f, S)
  BY SumIsTotal, TotalOfEqual

\* A sum of amounts is an amount.
THEOREM TotalOfAmounts ==
    ASSUME NEW f, NEW S, IsFiniteSet(S), \A x \in S : f[x] \in Nat
    PROVE  Total(f, S) \in Nat
<1> DEFINE X == {T \in SUBSET S : Total(f, T) \notin Nat}
<1> SUFFICES ASSUME X # {} PROVE FALSE
  OBVIOUS
<1>1. \A T \in SUBSET S : IsFiniteSet(T)
  BY FS_Subset
<1>2. PICK T \in X : \A U \in X : Cardinality(T) <= Cardinality(U)
  <2> HIDE DEF X
  <2>1. \A U \in X : IsFiniteSet(U)
    BY <1>1 DEF X
  <2>2. QED
    BY <2>1, Smallest
<1>3. T \in SUBSET S /\ Total(f, T) \notin Nat /\ IsFiniteSet(T)
  BY <1>1, <1>2
<1>4. T # {}
  BY <1>3, TotalOfNone
<1>5. PICK x \in T : TRUE
  BY <1>4
<1> DEFINE R == T \ {x}
<1>6. /\ R \in SUBSET S /\ T = R \cup {x} /\ x \notin R /\ f[x] \in Nat /\ IsFiniteSet(R)
      /\ \A y \in R \cup {x} : f[y] \in Int
  BY <1>1, <1>3, <1>5
<1>7. R \notin X
  <2> HIDE DEF X
  <2>1. QED
    BY <1>2, <1>3, <1>5, OneLess
<1>8. Total(f, R) \in Nat
  BY <1>6, <1>7
<1> HIDE DEF X, R
<1>9. Total(f, R \cup {x}) = Total(f, R) + f[x]
  BY <1>6, TotalOfOneMore
<1>10. QED
  BY <1>3, <1>6, <1>8, <1>9

\* Losses and gains add up to the whole.
THEOREM TotalOfSigns ==
    ASSUME NEW f, NEW S, IsFiniteSet(S), \A x \in S : f[x] \in Int
    PROVE  Total(f, S) = Total(f, {x \in S : f[x] > 0}) + Total(f, {x \in S : f[x] < 0})
<1> DEFINE Up(T)   == {x \in T : f[x] > 0}
           Down(T) == {x \in T : f[x] < 0}
           X       == {T \in SUBSET S : Total(f, T) # Total(f, Up(T)) + Total(f, Down(T))}
<1> SUFFICES ASSUME X # {} PROVE FALSE
  OBVIOUS
<1>1. \A T \in SUBSET S : IsFiniteSet(T)
  BY FS_Subset
<1>2. PICK T \in X : \A U \in X : Cardinality(T) <= Cardinality(U)
  <2> HIDE DEF X
  <2>1. \A U \in X : IsFiniteSet(U)
    BY <1>1 DEF X
  <2>2. QED
    BY <2>1, Smallest
<1>3. T \in SUBSET S /\ Total(f, T) # Total(f, Up(T)) + Total(f, Down(T)) /\ IsFiniteSet(T)
  BY <1>1, <1>2
<1>4. T # {}
  <2>1. SUFFICES ASSUME T = {} PROVE FALSE
    OBVIOUS
  <2>2. Up(T) = {} /\ Down(T) = {}
    BY <2>1
  <2>3. Total(f, {}) = 0
    BY TotalOfNone
  <2>4. QED
    BY <1>3, <2>1, <2>2, <2>3
<1>5. PICK x \in T : TRUE
  BY <1>4
<1> DEFINE R == T \ {x}
<1>6. R \in SUBSET S /\ T = R \cup {x} /\ x \notin R /\ x \in S /\ f[x] \in Int
  BY <1>3, <1>5
<1>7. Total(f, R) = Total(f, Up(R)) + Total(f, Down(R))
  <2>1. R \notin X
    <3> HIDE DEF X
    <3>1. QED
      BY <1>2, <1>3, <1>5, OneLess
  <2>2. QED
    BY <1>6, <2>1
<1>8. ASSUME NEW A, A \in {R, Up(R), Down(R)}
      PROVE  /\ Total(f, A) \in Int
             /\ Total(f, A \cup {x}) = Total(f, A) + f[x]
  <2>1. A \in SUBSET S /\ x \notin A
    BY <1>6, <1>8
  <2>2. IsFiniteSet(A) /\ \A y \in A \cup {x} : f[y] \in Int
    BY <1>1, <1>6, <2>1
  <2>3. QED
    BY <2>1, <2>2, TotalTyped, TotalOfOneMore
<1> DEFINE up == Up(R)
           down == Down(R)
<1>9. /\ Up(T) = IF f[x] > 0 THEN up \cup {x} ELSE up
      /\ Down(T) = IF f[x] < 0 THEN down \cup {x} ELSE down
  BY <1>6
<1>10. /\ Total(f, R) \in Int /\ Total(f, up) \in Int /\ Total(f, down) \in Int
       /\ Total(f, T) = Total(f, R) + f[x]
       /\ Total(f, up \cup {x}) = Total(f, up) + f[x]
       /\ Total(f, down \cup {x}) = Total(f, down) + f[x]
  BY <1>6, <1>8
<1> HIDE DEF X, R, up, down, Up, Down
<1>11. Total(f, R) = Total(f, up) + Total(f, down)
  BY <1>7 DEF up, down
<1>12. PICK v, r, u, d : v = f[x] /\ r = Total(f, R) /\ u = Total(f, up) /\ d = Total(f, down)
  OBVIOUS
<1>13. /\ v \in Int /\ r \in Int /\ u \in Int /\ d \in Int /\ r = u + d
       /\ Total(f, T) = r + v
       /\ Total(f, Up(T)) = IF v > 0 THEN u + v ELSE u
       /\ Total(f, Down(T)) = IF v < 0 THEN d + v ELSE d
  BY <1>6, <1>9, <1>10, <1>11, <1>12
<1>14. r + v = (IF v > 0 THEN u + v ELSE u) + (IF v < 0 THEN d + v ELSE d)
  BY ONLY <1>13
<1>15. QED
  BY <1>3, <1>13, <1>14

-----------------------------------------------------------------------------
(* Prices, costs and proceeds. *)

LEMMA Division ==
    ASSUME NEW n \in Int, NEW u \in Nat \ {0}
    PROVE  /\ n \div u \in Int /\ n % u \in 0..(u - 1)
           /\ n = u * (n \div u) + (n % u)
<1>1. n \div u \in Int
  OBVIOUS
<1>2. n % u \in 0..(u - 1)
  OBVIOUS
<1>3. n = u * (n \div u) + (n % u)
  OBVIOUS
<1>4. QED
  BY <1>1, <1>2, <1>3

\* Rounding to the won is off by half a won at most, and keeps amounts amounts.
LEMMA HalfAWon ==
    ASSUME NEW n \in Int, NEW d \in Nat \ {0}
    PROVE  /\ RoundKrw(n, d) \in Int
           /\ 2 * (d * RoundKrw(n, d)) - 2 * n \in (-d)..d
           /\ n >= 0 => RoundKrw(n, d) >= 0
<1> DEFINE r == RoundKrw(n, d)
           u == 2 * d
           m == 2 * n + d
<1>1. m \in Int /\ u \in Nat \ {0} /\ r = m \div u
  BY DEF RoundKrw
<1> HIDE DEF r, u, m
<1>2. r \in Int /\ m % u \in 0..(u - 1) /\ m = u * r + (m % u)
  BY <1>1, Division
<1> DEFINE p == d * r
<1>3. p \in Int /\ u * r = 2 * p
  BY <1>2 DEF u
<1>4. r < 0 => p <= -d
  <2>1. ASSUME r < 0 PROVE d * (-1 - r) >= 0 /\ d * (-1 - r) = -d - p
    <3>1. -1 - r \in Nat
      BY <1>2, <2>1
    <3>2. QED
      BY <1>2, <3>1
  <2>2. QED
    BY <1>3, <2>1
<1> HIDE DEF p
<1>5. m = 2 * n + d /\ u = 2 * d
  BY DEF m, u
<1>6. 2 * p - 2 * n \in (-d)..d /\ (n >= 0 => r >= 0)
  BY <1>2, <1>3, <1>4, <1>5
<1>7. QED
  BY <1>2, <1>6 DEF r, p

\* A finite set of numbers has a largest one.
LEMMA Largest ==
    ASSUME NEW S \in SUBSET Int, IsFiniteSet(S), S # {}
    PROVE  \E x \in S : \A y \in S : y <= x
<1> DEFINE from(x) == {y \in S : x <= y}
           X == {from(x) : x \in S}
<1>1. X # {} /\ \A T \in X : IsFiniteSet(T)
  <2>1. ASSUME NEW x \in S PROVE IsFiniteSet(from(x))
    <3>1. from(x) \subseteq S
      OBVIOUS
    <3> HIDE DEF from
    <3>2. QED
      BY <3>1, FS_Subset
  <2> HIDE DEF from
  <2>2. QED
    BY <2>1
<1>2. PICK T \in X : \A U \in X : Cardinality(T) <= Cardinality(U)
  <2> HIDE DEF X
  <2>1. QED
    BY <1>1, Smallest
<1>3. PICK x \in S : T = from(x)
  BY <1>2
<1>4. ASSUME NEW z \in S, ~(z <= x) PROVE FALSE
  <2>1. IsFiniteSet(T) /\ x \in T
    <3>1. x \in T
      BY <1>3
    <3> HIDE DEF X
    <3>2. IsFiniteSet(T)
      BY <1>1
    <3>3. QED
      BY <3>1, <3>2
  <2>2. from(z) \subseteq T \ {x} /\ from(z) \in X
    <3>1. ASSUME NEW y \in S, z <= y PROVE x <= y /\ y # x
      <4>1. x \in Int /\ y \in Int /\ z \in Int
        OBVIOUS
      <4>2. QED
        BY ONLY <1>4, <3>1, <4>1
    <3>2. from(z) \in X
      OBVIOUS
    <3> HIDE DEF X
    <3>3. QED
      BY <1>3, <3>1, <3>2
  <2> HIDE DEF from, X
  <2>3. IsFiniteSet(T \ {x}) /\ ~(Cardinality(T) <= Cardinality(T \ {x}))
    BY <2>1, OneLess
  <2>4. Cardinality(from(z)) <= Cardinality(T \ {x})
    BY <2>2, <2>3, FS_Subset
  <2>5. Cardinality(T) <= Cardinality(from(z))
    BY <1>2, <2>2
  <2>6. /\ Cardinality(T) \in Nat /\ Cardinality(T \ {x}) \in Nat
        /\ Cardinality(from(z)) \in Nat
    BY <2>1, <2>2, <2>3, FS_CardinalityType, FS_Subset
  <2>7. QED
    BY <2>3, <2>4, <2>5, <2>6
<1>5. QED
  BY <1>4

LEMMA TaxRateIsARate ==
    ASSUME NEW date \in Int
    PROVE  TaxRate(date) \in 0..249
<1> DEFINE started == {from \in DOMAIN TaxRates : from <= date}
<1>1. CASE started = {}
  BY <1>1 DEF TaxRate
<1>2. CASE started # {}
  <2>1. IsFiniteSet(started) /\ started \in SUBSET Int
    BY RatesAssumption, FS_Subset
  <2>2. \E from \in started : \A f \in started : f <= from
    <3> HIDE DEF started
    <3>1. QED
      BY <1>2, <2>1, Largest
  <2>3. (CHOOSE from \in started : \A f \in started : f <= from) \in DOMAIN TaxRates
    BY <2>2
  <2>4. QED
    BY <1>2, <2>3, RatesAssumption DEF TaxRate
<1>3. QED
  BY <1>1, <1>2

\* A sale never costs more than it brings in.
LEMMA SaleBringsIn ==
    ASSUME NEW price \in Nat, NEW q \in Nat, NEW date \in Int
    PROVE  SellProceeds(price, q, date) \in Nat
<1> DEFINE gross == price * q
           tax   == TaxRate(date)
<1>1. gross \in Nat
  OBVIOUS
<1>2. tax \in 0..249 /\ FeeRate \in 0..249
  BY TaxRateIsARate, RatesAssumption
<1>3. SellProceeds(price, q, date)
        = gross - RoundKrw(gross * FeeRate, 1000) - RoundKrw(gross * tax, 1000)
  BY DEF SellProceeds
<1> HIDE DEF gross, tax
<1>4. ASSUME NEW rate \in 0..249
      PROVE  RoundKrw(gross * rate, 1000) \in Int /\ 2000 * RoundKrw(gross * rate, 1000) <= 498 * gross + 1000
  <2> DEFINE n == gross * rate
             r == RoundKrw(n, 1000)
  <2>1. n \in Int
    BY <1>1
  <2>2. n <= 249 * gross
    <3>1. gross * (249 - rate) >= 0 /\ gross * (249 - rate) = 249 * gross - n
      BY <1>1
    <3>2. QED
      BY <1>1, <2>1, <3>1
  <2> HIDE DEF n
  <2>3. r \in Int /\ 2 * (1000 * r) - 2 * n \in (-1000)..1000
    <3>1. PICK d \in Nat \ {0} : d = 1000
      OBVIOUS
    <3>2. RoundKrw(n, d) \in Int /\ 2 * (d * RoundKrw(n, d)) - 2 * n \in (-d)..d
      BY <2>1, HalfAWon
    <3>3. QED
      BY <2>1, <3>1, <3>2
  <2> HIDE DEF r
  <2>4. r \in Int /\ 2000 * r <= 498 * gross + 1000
    BY <1>1, <2>1, <2>2, <2>3
  <2>5. QED
    BY <2>4 DEF n, r
<1> DEFINE a == RoundKrw(gross * FeeRate, 1000)
           b == RoundKrw(gross * tax, 1000)
<1>5. a \in Int /\ b \in Int /\ 2000 * a <= 498 * gross + 1000 /\ 2000 * b <= 498 * gross + 1000
  BY <1>2, <1>4
<1> HIDE DEF a, b
<1>6. gross - a - b \in Nat
  BY <1>1, <1>5
<1>7. QED
  BY <1>3, <1>6 DEF a, b

\* A purchase costs an amount.
LEMMA BuyCostIsANumber ==
    ASSUME NEW price \in Int, NEW q \in Int
    PROVE  BuyCost(price, q) \in Int
<1>1. price * q \in Int /\ price * q * FeeRate \in Int
  BY RatesAssumption
<1>2. RoundKrw(price * q * FeeRate, 1000) \in Int
  BY <1>1 DEF RoundKrw
<1>3. QED
  BY <1>1, <1>2 DEF BuyCost

LEMMA BuyCostIsAnAmount ==
    ASSUME NEW price \in Nat, NEW q \in Nat
    PROVE  BuyCost(price, q) \in Nat
<1> DEFINE gross == price * q
           n     == gross * FeeRate
<1>1. gross \in Nat /\ n \in Nat
  <2>1. gross \in Nat
    OBVIOUS
  <2> HIDE DEF gross
  <2>2. QED
    BY <2>1, RatesAssumption
<1>2. BuyCost(price, q) = gross + RoundKrw(n, 1000)
  BY DEF BuyCost
<1> HIDE DEF gross, n
<1>3. PICK d \in Nat \ {0} : d = 1000
  OBVIOUS
<1>4. RoundKrw(n, d) \in Nat
  BY <1>1, HalfAWon
<1>5. QED
  BY <1>1, <1>2, <1>3, <1>4

\* A part of an amount is an amount.
LEMMA QuotientIsAnAmount ==
    ASSUME NEW n \in Nat, NEW u \in Nat \ {0}
    PROVE  n \div u \in Nat
<1> DEFINE q == n \div u
<1>1. q \in Int /\ n % u \in 0..(u - 1) /\ n = u * q + (n % u)
  BY Division
<1> HIDE DEF q
<1>2. ASSUME q < 0 PROVE FALSE
  <2>1. -1 - q \in Nat
    BY <1>1, <1>2
  <2>2. u * (-1 - q) >= 0 /\ u * (-1 - q) = -u - u * q /\ u * q \in Int
    BY <1>1, <2>1
  <2>3. QED
    BY <1>1, <2>2
<1>3. QED
  BY <1>1, <1>2 DEF q

\* An amount rounded to a tick is an amount.
LEMMA RoundedToTick ==
    ASSUME NEW n \in Int, NEW d \in Nat \ {0}, NEW side
    PROVE  /\ RoundToTick(n, d, side) \in Int
           /\ n \in Nat => RoundToTick(n, d, side) \in Nat
<1> DEFINE tick == TickSize(n \div d)
           unit == d * tick
           k    == IF TickRounding = "nearest" THEN RoundHalfEven(n, unit)
                   ELSE IF side = "buy" THEN (n + unit - 1) \div unit ELSE n \div unit
<1>1. tick \in Nat \ {0}
  BY DEF TickSize
<1>2. RoundToTick(n, d, side) = tick * k
  BY DEF RoundToTick
<1> HIDE DEF tick
<1>3. unit \in Nat \ {0}
  BY <1>1
<1> HIDE DEF unit
<1>4. n \div unit \in Int /\ (n + unit - 1) \div unit \in Int
  BY <1>3
<1>5. RoundHalfEven(n, unit) \in {n \div unit, (n \div unit) + 1}
  BY DEF RoundHalfEven
<1>6. k \in Int
  BY <1>4, <1>5
<1>7. ASSUME n \in Nat PROVE k \in Nat
  <2>1. n + unit - 1 \in Nat
    BY <1>3, <1>7
  <2>2. n \div unit \in Nat /\ (n + unit - 1) \div unit \in Nat
    BY <1>3, <1>7, <2>1, QuotientIsAnAmount
  <2>3. QED
    BY <1>5, <2>2
<1> HIDE DEF k
<1>8. QED
  BY <1>1, <1>2, <1>6, <1>7

\* Prices with slippage are prices.
LEMMA BuyPriceIsANumber ==
    ASSUME NEW won \in Int
    PROVE  BuyPrice(won) \in Int /\ (won \in Nat => BuyPrice(won) \in Nat)
<1> DEFINE n == won * (1000 + Slippage)
<1>1. n \in Int /\ (won \in Nat => n \in Nat)
  BY RatesAssumption
<1>2. BuyPrice(won) = RoundToTick(n, 1000, "buy")
  BY DEF BuyPrice
<1> HIDE DEF n
<1>3. PICK d \in Nat \ {0} : d = 1000
  OBVIOUS
<1>4. RoundToTick(n, d, "buy") \in Int /\ (n \in Nat => RoundToTick(n, d, "buy") \in Nat)
  BY <1>1, RoundedToTick
<1>5. QED
  BY <1>1, <1>2, <1>3, <1>4

LEMMA SellPriceIsAnAmount ==
    ASSUME NEW cent \in Nat
    PROVE  SellPrice(cent) \in Nat
<1> DEFINE n == cent * (1000 - Slippage)
<1>1. n \in Nat
  <2>1. 1000 - Slippage \in Nat
    BY RatesAssumption
  <2>2. QED
    BY <2>1
<1>2. SellPrice(cent) = RoundToTick(n, 100000, "sell")
  BY DEF SellPrice
<1> HIDE DEF n
<1>3. PICK d \in Nat \ {0} : d = 100000
  OBVIOUS
<1>4. RoundToTick(n, d, "sell") \in Nat
  BY <1>1, RoundedToTick
<1>5. QED
  BY <1>2, <1>3, <1>4

=============================================================================
