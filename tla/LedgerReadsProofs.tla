------------------------- MODULE LedgerReadsProofs -------------------------
(***************************************************************************)
(* Amounts, listings, reconciliations and calls, for every width of the    *)
(* machine word, page size, number of writers and instant: arithmetic is   *)
(* exact, an amount has one text and a text one amount, the pages of a     *)
(* listing keep the order of the keys and lose no old entry, the balance   *)
(* is the sum of the ledger, and a provider is answered with its own.      *)
(***************************************************************************)
EXTENDS MCLedgerReads, FiniteSetTheorems, TLAPS

(* Arithmetic.                                                             *)

\* A number the word holds is itself.
LEMMA WrapInRange == \A n \in Words : Wrap(n) = n
<1> SUFFICES ASSUME NEW n \in Words PROVE Wrap(n) = n
  OBVIOUS
<1> DEFINE m == 2 * (MaxInt + 1)
<1>1. n - MinInt \in 0..(m - 1) /\ m \in Nat \ {0}
  BY MoneyAssumption DEF Words, MinInt
<1>2. \A a \in Nat, d \in Nat \ {0} : a < d => a % d = a
  BY Z3
<1>3. (n - MinInt) % m = n - MinInt
  BY <1>1, <1>2
<1>4. QED BY <1>3, MoneyAssumption DEF Wrap, Words, MinInt

\* A sum of two amounts is the true sum, or refused when no word holds it.
LEMMA AddIsExact == \A a, b \in Words : Exact(Add(a, b), a + b)
<1> SUFFICES ASSUME NEW a \in Words, NEW b \in Words PROVE Exact(Add(a, b), a + b)
  OBVIOUS
<1>1. a \in Int /\ b \in Int /\ MaxInt \in Nat /\ MinInt = -MaxInt - 1
  BY MoneyAssumption DEF Words, MinInt
<1>2. b > 0 => Wrap(MaxInt - b) = MaxInt - b
  BY <1>1, WrapInRange DEF Words
<1>3. b < 0 => Wrap(MinInt - b) = MinInt - b
  BY <1>1, WrapInRange DEF Words
<1>4. a + b \in Words => Wrap(a + b) = a + b
  BY WrapInRange
<1>5. ((b > 0 /\ a > Wrap(MaxInt - b)) \/ (b < 0 /\ a < Wrap(MinInt - b))) <=> a + b \notin Words
  BY <1>1, <1>2, <1>3 DEF Words
<1>6. QED BY <1>4, <1>5 DEF Exact, Add

\* A difference of two amounts is the true one, or refused when no word holds
\* it: the smallest amount, which has no negation, included.
LEMMA SubtractIsExact == \A a, b \in Words : Exact(Subtract(a, b), a - b)
<1> SUFFICES ASSUME NEW a \in Words, NEW b \in Words PROVE Exact(Subtract(a, b), a - b)
  OBVIOUS
<1>1. a \in Int /\ b \in Int /\ MaxInt \in Nat /\ MinInt = -MaxInt - 1
  BY MoneyAssumption DEF Words, MinInt
<1>2. b < 0 => Wrap(MaxInt + b) = MaxInt + b
  BY <1>1, WrapInRange DEF Words
<1>3. b > 0 => Wrap(MinInt + b) = MinInt + b
  BY <1>1, WrapInRange DEF Words
<1>4. a - b \in Words => Wrap(a - b) = a - b
  BY WrapInRange
<1>5. ((b < 0 /\ a > Wrap(MaxInt + b)) \/ (b > 0 /\ a < Wrap(MinInt + b))) <=> a - b \notin Words
  BY <1>1, <1>2, <1>3 DEF Words
<1>6. QED BY <1>4, <1>5 DEF Exact, Subtract

\* The negation of every amount but the smallest.
LEMMA NegateIsExact == \A a \in Words : Exact(Negate(a), -a)
<1> SUFFICES ASSUME NEW a \in Words PROVE Exact(Negate(a), -a)
  OBVIOUS
<1>1. a \in Int /\ MaxInt \in Nat /\ MinInt = -MaxInt - 1
  BY MoneyAssumption DEF Words, MinInt
<1>2. a = MinInt <=> -a \notin Words
  BY <1>1 DEF Words
<1>3. -a \in Words => Wrap(-a) = -a
  BY WrapInRange
<1>4. QED BY <1>2, <1>3 DEF Exact, Negate

\* Dividing the limit tells whether a product exceeds it.
LEMMA QuotientBounds ==
  ASSUME NEW n \in Nat, NEW f \in Nat \ {0}, NEW a \in Int
  PROVE  a > n \div f <=> a * f > n
<1> DEFINE q == n \div f
<1>1. q \in Nat /\ q * f <= n /\ n < q * f + f
  BY Z3
<1>2. CASE a > q
  <2>1. a >= q + 1
    BY <1>1, <1>2
  <2>2. a * f >= (q + 1) * f
    BY <1>1, <2>1, Z3
  <2>3. (q + 1) * f = q * f + f
    BY <1>1, Z3
  <2>4. a * f \in Int /\ q * f \in Int /\ (q + 1) * f \in Int
    BY <1>1, Z3
  <2>5. a * f > n
    BY <1>1, <2>2, <2>3, <2>4
  <2>6. QED BY <1>2, <2>5
<1>3. CASE ~ (a > q)
  <2>1. a * f <= q * f
    BY <1>1, <1>3, Z3
  <2>2. a * f \in Int /\ q * f \in Int
    BY <1>1, Z3
  <2>3. ~ (a * f > n)
    BY <1>1, <2>1, <2>2
  <2>4. QED BY <1>3, <2>3
<1>4. QED BY <1>2, <1>3

\* A product with a positive factor is the true one, or refused when no word
\* holds it.
LEMMA MultiplyIsExact ==
  ASSUME NEW a \in Words, NEW f \in Nat \ {0}
  PROVE  Exact(Multiply(a, f), a * f)
<1>1. a \in Int /\ MaxInt \in Nat /\ MinInt = -MaxInt - 1 /\ MaxInt + 1 \in Nat
  BY MoneyAssumption DEF Words, MinInt
<1>2. a * f \in Int
  BY <1>1, Z3
<1>3. a > Quotient(MaxInt, f) <=> a * f > MaxInt
  BY <1>1, QuotientBounds DEF Quotient
<1>4. a < Quotient(MinInt, f) <=> a * f < MinInt
  <2>1. Quotient(MinInt, f) = -((MaxInt + 1) \div f)
    BY <1>1 DEF Quotient
  <2>2. -a > (MaxInt + 1) \div f <=> (-a) * f > MaxInt + 1
    BY <1>1, QuotientBounds
  <2>3. (-a) * f = -(a * f)
    BY <1>1, Z3
  <2>4. (MaxInt + 1) \div f \in Int
    BY <1>1, Z3
  <2>5. QED BY <1>1, <1>2, <2>1, <2>2, <2>3, <2>4
<1>5. a = 0 => a * f = 0 /\ 0 \in Words
  BY <1>1, Z3 DEF Words
<1>6. a * f \in Words => Wrap(a * f) = a * f
  BY WrapInRange
<1>7. (a > Quotient(MaxInt, f) \/ a < Quotient(MinInt, f)) <=> a * f \notin Words
  BY <1>1, <1>2, <1>3, <1>4 DEF Words
<1>8. QED BY <1>5, <1>6, <1>7 DEF Exact, Multiply

\* The arithmetic of amounts is exact for every word and every base.
THEOREM ArithmeticIsExactHolds == ArithmeticIsExact
<1>1. Base \in Nat \ {0} /\ MinorPerUnit \in Nat \ {0}
  BY MoneyAssumption, Z3 DEF MinorPerUnit
<1>2. QED
  BY <1>1, AddIsExact, SubtractIsExact, MultiplyIsExact, NegateIsExact
     DEF ArithmeticIsExact, ArithmeticIsExactFor

-----------------------------------------------------------------------------
(* Induction, and the sums of a ledger.                                    *)

\* A set of naturals with 0 and every successor has them all: what makes
\* induction over lengths possible.
LEMMA Induction ==
  ASSUME NEW S \in SUBSET Nat, 0 \in S, \A n \in S : n + 1 \in S
  PROVE  \A n \in Nat : n \in S
<1> SUFFICES ASSUME Nat \ S # {} PROVE FALSE
  OBVIOUS
<1>1. IsWellFoundedOn({ss \in Nat \X Nat : ss[1] < ss[2]}, Nat)
  BY NatLessThanWellFounded, Zenon DEF OpToRel
<1>2. PICK x \in Nat \ S : \A y \in Nat \ S : <<y, x>> \notin {ss \in Nat \X Nat : ss[1] < ss[2]}
  BY <1>1, WFMin, Nat \ S \subseteq Nat, Zenon
<1>3. x # 0 /\ x - 1 \in Nat /\ x - 1 < x /\ (x - 1) + 1 = x
  OBVIOUS
<1>4. x - 1 \in S
  BY <1>2, <1>3
<1>5. QED BY <1>3, <1>4

\* A computation that goes through a list from an initial value, as a function
\* of the number of elements it has seen.
Computes(f, n, V, v, step) ==
  f \in [0..n -> V] /\ f[0] = v /\ \A k \in 1..n : f[k] = step[k][f[k - 1]]

\* Such a function exists whatever a step does.
LEMMA Computation ==
  ASSUME NEW V, NEW n \in Nat, NEW v \in V, NEW step \in [Nat -> [V -> V]]
  PROVE  \E f : Computes(f, n, V, v, step)
<1> DEFINE Good(m, f) == f \in [0..m -> V] /\ f[0] = v /\ \A k \in 1..m : f[k] = step[k][f[k - 1]]
           S == {m \in Nat : \E f : Good(m, f)}
<1>1. 0 \in S
  <2>1. Good(0, [k \in 0..0 |-> v])
    OBVIOUS
  <2>2. QED BY <2>1
<1>2. ASSUME NEW m \in S PROVE m + 1 \in S
  <2>1. PICK f : Good(m, f)
    OBVIOUS
  <2> DEFINE g == [k \in 0..(m + 1) |-> IF k = m + 1 THEN step[m + 1][f[m]] ELSE f[k]]
  <2>2. step[m + 1][f[m]] \in V
    BY <2>1
  <2>3. g \in [0..(m + 1) -> V] /\ g[0] = v
    BY <2>1, <2>2
  <2>4. ASSUME NEW k \in 1..(m + 1) PROVE g[k] = step[k][g[k - 1]]
    <3>1. k - 1 \in 0..m /\ g[k - 1] = f[k - 1]
      OBVIOUS
    <3>2. CASE k = m + 1
      BY <3>1, <3>2
    <3>3. CASE k # m + 1
      BY <2>1, <3>1, <3>3
    <3>4. QED BY <3>2, <3>3
  <2>5. Good(m + 1, g)
    BY <2>3, <2>4
  <2>6. m + 1 \in Nat
    OBVIOUS
  <2> HIDE DEF Good, g
  <2>7. QED BY <2>5, <2>6
<1>3. n \in S
  <2> HIDE DEF S
  <2>1. QED BY <1>1, <1>2, Induction DEF S
<1>4. QED BY <1>3 DEF Computes

\* The running sums of a ledger.
LEMMA RunningSums ==
  ASSUME NEW es \in Seq(Entry)
  PROVE  \E f \in [0..Len(es) -> Int] :
           f[0] = 0 /\ \A k \in 1..Len(es) : f[k] = f[k - 1] + es[k].delta
<1>1. Len(es) \in Nat /\ \A k \in 1..Len(es) : es[k] \in Entry
  OBVIOUS
<1>2. \A e \in Entry : e.delta \in Int
  BY MoneyAssumption DEF Entry, Words, MinInt
<1> DEFINE delta == [k \in Nat |-> IF k \in 1..Len(es) THEN es[k].delta ELSE 0]
           step == [k \in Nat |-> [total \in Int |-> total + delta[k]]]
<1>3. delta \in [Nat -> Int] /\ \A k \in 1..Len(es) : delta[k] = es[k].delta
  BY <1>1, <1>2
<1> HIDE DEF delta
<1>4. step \in [Nat -> [Int -> Int]]
  BY <1>3
<1>5. PICK f \in [0..Len(es) -> Int] :
        f[0] = 0 /\ \A k \in 1..Len(es) : f[k] = step[k][f[k - 1]]
  <2> HIDE DEF step
  <2> HIDE DEF step
  <2>1. 0 \in Int
    OBVIOUS
  <2>2. \E f : Computes(f, Len(es), Int, 0, step)
    BY <1>1, <1>4, <2>1, Computation, Zenon
  <2>3. QED BY <2>2 DEF Computes
<1>6. ASSUME NEW k \in 1..Len(es) PROVE f[k] = f[k - 1] + es[k].delta
  <2>1. f[k - 1] \in Int /\ k \in Nat
    BY <1>1
  <2>2. QED BY <1>3, <1>5, <2>1
<1>7. QED BY <1>5, <1>6

\* SumOf is well defined: it is the last of the running sums.
LEMMA SumDefined ==
  ASSUME NEW es \in Seq(Entry)
  PROVE  \E f \in [0..Len(es) -> Int] :
           /\ SumOf(es) = f[Len(es)]
           /\ f[0] = 0 /\ \A k \in 1..Len(es) : f[k] = f[k - 1] + es[k].delta
<1> DEFINE sums[k \in 0..Len(es)] == IF k = 0 THEN 0 ELSE sums[k - 1] + es[k].delta
<1>1. SumOf(es) = sums[Len(es)]
  BY DEF SumOf
<1>2. sums = [k \in 0..Len(es) |-> IF k = 0 THEN 0 ELSE sums[k - 1] + es[k].delta]
  <2> HIDE DEF sums
  <2>1. PICK f \in [0..Len(es) -> Int] :
          f[0] = 0 /\ \A k \in 1..Len(es) : f[k] = f[k - 1] + es[k].delta
    BY RunningSums
  <2>2. f = [k \in 0..Len(es) |-> IF k = 0 THEN 0 ELSE f[k - 1] + es[k].delta]
    BY <2>1
  <2>3. QED BY <2>2, Zenon DEF sums
<1> HIDE DEF sums
<1>3. Len(es) \in Nat /\ \A k \in 1..Len(es) : k - 1 \in 0..Len(es) /\ k \in 0..Len(es) /\ k # 0
  OBVIOUS
<1>4. sums[0] = 0 /\ \A k \in 1..Len(es) : sums[k] = sums[k - 1] + es[k].delta
  BY <1>2, <1>3
<1>5. \A k \in 1..Len(es) : es[k].delta \in Int
  <2>1. \A e \in Entry : e.delta \in Int
    BY MoneyAssumption DEF Entry, Words, MinInt
  <2>2. QED BY <2>1
<1>6. \A k \in Nat : k \in {j \in Nat : j <= Len(es) => sums[j] \in Int}
  <2> DEFINE S == {j \in Nat : j <= Len(es) => sums[j] \in Int}
  <2>1. 0 \in S
    BY <1>4
  <2>2. ASSUME NEW j \in S PROVE j + 1 \in S
    BY <1>3, <1>4, <1>5
  <2> HIDE DEF S
  <2>3. S \subseteq Nat
    BY DEF S
  <2>4. \A j \in Nat : j \in S
    BY <2>1, <2>2, <2>3, Induction
  <2>5. QED BY <2>4 DEF S
<1>7. sums \in [0..Len(es) -> Int]
  BY <1>2, <1>3, <1>6
<1>8. QED BY <1>1, <1>4, <1>7

\* The empty ledger sums to nothing, and an entry adds its movement.
LEMMA SumAppend ==
  /\ SumOf(<<>>) = 0
  /\ \A es \in Seq(Entry), e \in Entry :
       SumOf(es) \in Int /\ SumOf(Append(es, e)) = SumOf(es) + e.delta
<1>1. SumOf(<<>>) = 0
  <2>1. <<>> \in Seq(Entry) /\ Len(<<>>) = 0
    OBVIOUS
  <2>2. PICK f \in [0..Len(<<>>) -> Int] : SumOf(<<>>) = f[Len(<<>>)] /\ f[0] = 0
    BY <2>1, SumDefined
  <2>3. QED BY <2>1, <2>2
<1>2. ASSUME NEW es \in Seq(Entry), NEW e \in Entry
      PROVE  SumOf(es) \in Int /\ SumOf(Append(es, e)) = SumOf(es) + e.delta
  <2> DEFINE more == Append(es, e)
             n == Len(es)
  <2>1. /\ more \in Seq(Entry) /\ n \in Nat /\ Len(more) = n + 1
        /\ more[n + 1] = e /\ \A k \in 1..n : more[k] = es[k]
    OBVIOUS
  <2>2. PICK f \in [0..n -> Int] :
          /\ SumOf(es) = f[n]
          /\ f[0] = 0 /\ \A k \in 1..n : f[k] = f[k - 1] + es[k].delta
    BY SumDefined
  <2>3. PICK g \in [0..Len(more) -> Int] :
          /\ SumOf(more) = g[Len(more)]
          /\ g[0] = 0 /\ \A k \in 1..Len(more) : g[k] = g[k - 1] + more[k].delta
    BY <2>1, SumDefined
  <2> HIDE DEF more, n
  <2>4. \A k \in Nat : k \in {j \in Nat : j <= n => g[j] = f[j]}
    <3> DEFINE S == {j \in Nat : j <= n => g[j] = f[j]}
    <3>1. 0 \in S
      BY <2>2, <2>3
    <3>2. ASSUME NEW j \in S PROVE j + 1 \in S
      <4>1. CASE j + 1 <= n
        <5>1. j + 1 \in 1..n /\ j + 1 \in 1..Len(more) /\ (j + 1) - 1 = j
          BY <2>1, <4>1
        <5>2. g[j + 1] = g[j] + more[j + 1].delta /\ f[j + 1] = f[j] + es[j + 1].delta
          BY <2>2, <2>3, <5>1
        <5>3. g[j] = f[j] /\ more[j + 1] = es[j + 1]
          BY <2>1, <4>1, <5>1
        <5>4. g[j + 1] = f[j + 1]
          BY <5>2, <5>3
        <5>5. QED BY <5>4
      <4>2. QED BY <2>1, <4>1
    <3> HIDE DEF S
    <3>3. S \subseteq Nat
      BY DEF S
    <3>4. \A j \in Nat : j \in S
      BY <3>1, <3>2, <3>3, Induction
    <3>5. QED BY <3>4 DEF S
  <2>5. g[n + 1] = g[n] + e.delta
    <3>1. n + 1 \in 1..Len(more) /\ (n + 1) - 1 = n
      BY <2>1
    <3>2. g[n + 1] = g[(n + 1) - 1] + more[n + 1].delta
      BY <2>3, <3>1
    <3>3. QED BY <2>1, <3>1, <3>2
  <2>6. SumOf(more) = SumOf(es) + e.delta /\ SumOf(es) \in Int
    BY <2>1, <2>2, <2>3, <2>4, <2>5
  <2>7. QED BY <2>6 DEF more
<1>3. QED BY <1>1, <1>2

-----------------------------------------------------------------------------
(* The order of the keys.                                                  *)

\* Before orders entries strictly, and any two that do not share their id.
LEMMA KeyOrder ==
  /\ \A e \in Entry : e.at \in Int /\ e.id \in Int
  /\ \A a, b, c \in Entry :
       /\ ~ (Before(a, b) /\ Before(b, a))
       /\ Before(a, b) /\ Before(b, c) => Before(a, c)
       /\ a.id # b.id => Before(a, b) \/ Before(b, a)
<1>1. \A e \in Entry : e.at \in Int /\ e.id \in Int
  BY ReadsAssumption DEF Entry, Times
<1>2. QED BY <1>1 DEF Before

\* A finite set of entries with ids of their own has exactly one place for each
\* entry in the order of the keys: InKeyOrder is well defined.
LEMMA InKeyOrderCorrect ==
  ASSUME NEW S \in SUBSET Entry, IsFiniteSet(S), \A a, b \in S : a.id = b.id => a = b
  PROVE  /\ Cardinality(S) \in Nat
         /\ InKeyOrder(S) \in [1..Cardinality(S) -> S]
         /\ \A j, k \in 1..Cardinality(S) : j < k => Before(InKeyOrder(S)[j], InKeyOrder(S)[k])
         /\ \A e \in S : \E k \in 1..Cardinality(S) : InKeyOrder(S)[k] = e
<1> DEFINE n == Cardinality(S)
           Down(e) == {x \in S : ~ Before(e, x)}
           place == [e \in S |-> Cardinality(Down(e))]
<1>1. n \in Nat
  BY FS_CardinalityType
<1>2. IsFiniteSet(1..n) /\ Cardinality(1..n) = n
  BY <1>1, FS_Interval
<1>3. ASSUME NEW e \in S PROVE IsFiniteSet(Down(e)) /\ Cardinality(Down(e)) \in 1..n
  <2>1. IsFiniteSet(Down(e)) /\ Cardinality(Down(e)) <= n
    BY FS_Subset
  <2>2. e \in Down(e)
    BY KeyOrder
  <2>3. Cardinality(Down(e)) \in Nat /\ Cardinality(Down(e)) # 0
    BY <2>1, <2>2, FS_CardinalityType, FS_EmptySet
  <2>4. QED BY <1>1, <2>1, <2>3
<1>4. ASSUME NEW a \in S, NEW b \in S, Before(a, b)
      PROVE  Cardinality(Down(a)) < Cardinality(Down(b))
  <2>1. b \in Down(b) /\ b \notin Down(a)
    BY <1>4, KeyOrder
  <2>2. Down(a) \subseteq Down(b)
    BY <1>4, KeyOrder
  <2>3. Cardinality(Down(a)) <= Cardinality(Down(b)) /\ Cardinality(Down(a)) # Cardinality(Down(b))
    BY <1>3, <2>1, <2>2, FS_Subset
  <2>4. Cardinality(Down(a)) \in 1..n /\ Cardinality(Down(b)) \in 1..n
    BY <1>3
  <2> HIDE DEF Down, n
  <2>5. QED BY <1>1, <2>3, <2>4
<1>5. place \in [S -> 1..n] /\ \A e \in S : place[e] = Cardinality(Down(e))
  BY <1>3
<1> HIDE DEF place, Down, n
<1>6. \A a, b \in S : Before(a, b) => place[a] < place[b]
  BY <1>4, <1>5
<1>7. \A a, b \in S : place[a] = place[b] => a = b
  <2> SUFFICES ASSUME NEW a \in S, NEW b \in S, place[a] = place[b], a # b PROVE FALSE
    OBVIOUS
  <2>1. Before(a, b) \/ Before(b, a)
    BY KeyOrder
  <2>2. place[a] \in Int
    BY <1>1, <1>5
  <2>3. QED BY <1>6, <2>1, <2>2
<1>8. place \in Surjection(S, 1..n)
  <2>1. place \in Injection(S, 1..n)
    BY <1>5, <1>7 DEF Injection, IsInjective
  <2>2. QED BY <1>2, <2>1, FS_Injection DEF n
<1> DEFINE rows == [k \in 1..n |-> CHOOSE e \in S : place[e] = k]
<1>9. \A k \in 1..n : rows[k] \in S /\ place[rows[k]] = k
  BY <1>8 DEF Surjection
<1>10. rows \in [1..n -> S]
  BY <1>9
<1>11. ASSUME NEW j \in 1..n, NEW k \in 1..n, j < k PROVE Before(rows[j], rows[k])
  <2>1. rows[j] \in S /\ rows[k] \in S /\ place[rows[j]] = j /\ place[rows[k]] = k
    BY <1>9
  <2> HIDE DEF rows
  <2>2. rows[j] # rows[k]
    BY <1>11, <2>1
  <2>3. Before(rows[j], rows[k]) \/ Before(rows[k], rows[j])
    BY <2>1, <2>2, KeyOrder
  <2>4. QED BY <1>6, <1>11, <2>1, <2>3
<1> HIDE DEF rows
<1>12. /\ InKeyOrder(S) \in [1..n -> S]
       /\ \A j, k \in 1..n : j < k => Before(InKeyOrder(S)[j], InKeyOrder(S)[k])
  BY <1>10, <1>11, Zenon DEF InKeyOrder, n
<1> DEFINE sorted == InKeyOrder(S)
<1>13. \A e \in S : \E k \in 1..n : sorted[k] = e
  <2> HIDE DEF sorted
  <2>1. \A j, k \in 1..n : sorted[j] = sorted[k] => j = k
    <3> SUFFICES ASSUME NEW j \in 1..n, NEW k \in 1..n, sorted[j] = sorted[k], j < k PROVE FALSE
      BY <1>1
    <3>1. Before(sorted[j], sorted[k]) /\ sorted[j] \in S
      BY <1>12 DEF sorted
    <3>2. QED BY <3>1, KeyOrder
  <2>2. sorted \in Injection(1..n, S)
    BY <1>12, <2>1 DEF Injection, IsInjective, sorted
  <2>3. sorted \in Surjection(1..n, S)
    BY <1>2, <2>2, FS_Injection DEF n
  <2>4. QED BY <2>3 DEF Surjection
<1>14. QED BY <1>1, <1>12, <1>13 DEF n

-----------------------------------------------------------------------------
(* The invariant of the reads.                                             *)

\* The clock orders what the wallet lock orders: a session's created_at is
\* taken under the lock, after everything that is committed by then.
StampsAreOrdered ==
  /\ \A p \in Writers : stamp[p] <= now
  /\ \A k \in DOMAIN entries : entries[k].at <= now
  /\ holder # NoOne => stamp[holder] # 0
  /\ \A p \in Sessions : stamp[p] # 0 => holder = p
  /\ holder \in Sessions => \A k \in DOMAIN entries : entries[k].at <= stamp[holder]

IdsAreUnique == \A j, k \in DOMAIN entries : entries[j].id = entries[k].id => j = k

\* What the pages have shown: entries, in key order, up to the cursor, which is
\* the key of one of them.
PagesAreInOrder ==
  /\ \A k \in DOMAIN listed : listed[k] \in ToSet(entries)
  /\ \A j, k \in DOMAIN listed : j < k => Before(listed[j], listed[k])
  /\ listing.pc = "idle" => listed = <<>> /\ listing.cursor = Start
  /\ listing.pc = "reading" =>
       /\ \A k \in DOMAIN listed : ~ After(listing.cursor, KeyOf(listed[k]))
       /\ \E e \in ToSet(entries) : listing.cursor = KeyOf(e)

\* Why an entry that came while the listing ran may be missed.
MayBeMissed(k) ==
  entries[k].by \in Workers \/ \E j \in 1..(k - 1) : entries[j].at = entries[k].at

\* What the pages have not shown is still to come, or may be missed.
PagesAreComplete ==
  listing.pc = "reading" =>
    \A k \in DOMAIN entries :
      \/ After(listing.cursor, KeyOf(entries[k]))
      \/ entries[k] \in ToSet(listed)
      \/ k > atFirst /\ MayBeMissed(k)

ListingInvariant ==
  /\ StampsAreOrdered /\ IdsAreUnique
  /\ PagesAreInOrder /\ PagesAreComplete
  /\ OldEntriesAreListed /\ OnlyEarlyStampsAreMissed

\* The balance is the sum of the ledger, now and in the snapshot of a check.
BalanceIsSum ==
  /\ balance = SumOf(entries)
  /\ check.pc = "read" => check.stored = SumOf(check.snapshot)
  /\ NoFalseDivergence

-----------------------------------------------------------------------------
(* Rows and pages.                                                         *)

\* What an append does to a sequence that keeps its type.
LEMMA AppendedOne ==
  ASSUME NEW T, NEW s \in Seq(T), NEW e, Append(s, e) \in Seq(T)
  PROVE  /\ e \in T /\ Len(s) \in Nat
         /\ DOMAIN s = 1..Len(s) /\ DOMAIN Append(s, e) = 1..(Len(s) + 1)
         /\ Append(s, e)[Len(s) + 1] = e
         /\ \A k \in 1..Len(s) : Append(s, e)[k] = s[k]
<1>1. /\ Len(s) \in Nat /\ DOMAIN s = 1..Len(s) /\ DOMAIN Append(s, e) = 1..(Len(s) + 1)
      /\ Append(s, e)[Len(s) + 1] = e
      /\ \A k \in 1..Len(s) : Append(s, e)[k] = s[k]
  OBVIOUS
<1>2. Append(s, e)[Len(s) + 1] \in T
  BY <1>1
<1>3. QED BY <1>1, <1>2

\* The committed entries, for a state of the right type.
LEMMA EntriesTyped ==
  ASSUME TypeOK
  PROVE  /\ Len(entries) \in Nat /\ DOMAIN entries = 1..Len(entries)
         /\ \A k \in 1..Len(entries) : entries[k] \in Entry
         /\ ToSet(entries) \subseteq Entry /\ IsFiniteSet(ToSet(entries))
         /\ \A e \in ToSet(entries) : \E k \in DOMAIN entries : e = entries[k]
         /\ \A k \in DOMAIN entries : entries[k] \in ToSet(entries)
<1>1. /\ Len(entries) \in Nat /\ DOMAIN entries = 1..Len(entries)
      /\ \A k \in 1..Len(entries) : entries[k] \in Entry
  BY DEF TypeOK
<1>2. /\ ToSet(entries) \subseteq Entry
      /\ \A e \in ToSet(entries) : \E k \in DOMAIN entries : e = entries[k]
      /\ \A k \in DOMAIN entries : entries[k] \in ToSet(entries)
  BY <1>1 DEF ToSet
<1>3. IsFiniteSet(ToSet(entries))
  <2>1. IsFiniteSet(1..Len(entries))
    BY <1>1, FS_Interval
  <2>2. [k \in 1..Len(entries) |-> entries[k]] \in Surjection(1..Len(entries), ToSet(entries))
    BY <1>1, <1>2 DEF Surjection
  <2>3. QED BY <2>1, <2>2, FS_Surjection
<1>4. QED BY <1>1, <1>2, <1>3

\* The query of a page returns exactly the entries after the cursor, in order.
LEMMA RowsAfterCorrect ==
  ASSUME TypeOK, IdsAreUnique, NEW cursor
  PROVE  /\ RowsAfter(cursor) \in Seq(Entry)
         /\ \A k \in 1..Len(RowsAfter(cursor)) :
              RowsAfter(cursor)[k] \in ToSet(entries) /\ After(cursor, KeyOf(RowsAfter(cursor)[k]))
         /\ \A j, k \in 1..Len(RowsAfter(cursor)) :
              j < k => Before(RowsAfter(cursor)[j], RowsAfter(cursor)[k])
         /\ \A e \in ToSet(entries) :
              After(cursor, KeyOf(e)) => \E k \in 1..Len(RowsAfter(cursor)) : RowsAfter(cursor)[k] = e
<1> DEFINE S == {e \in ToSet(entries) : After(cursor, KeyOf(e))}
           n == Cardinality(S)
           rows == InKeyOrder(S)
<1>1. S \in SUBSET Entry /\ IsFiniteSet(S)
  BY EntriesTyped, FS_Subset
<1>2. \A a, b \in S : a.id = b.id => a = b
  BY EntriesTyped DEF IdsAreUnique
<1> HIDE DEF S
<1>3. /\ n \in Nat /\ rows \in [1..n -> S]
      /\ \A j, k \in 1..n : j < k => Before(rows[j], rows[k])
      /\ \A e \in S : \E k \in 1..n : rows[k] = e
  BY <1>1, <1>2, InKeyOrderCorrect
<1> HIDE DEF n, rows
<1>4. rows \in Seq(Entry) /\ Len(rows) = n
  BY <1>1, <1>3
<1>5. RowsAfter(cursor) = rows
  BY DEF RowsAfter, rows, S
<1>6. \A k \in 1..n : rows[k] \in ToSet(entries) /\ After(cursor, KeyOf(rows[k]))
  BY <1>3 DEF S
<1>7. \A e \in ToSet(entries) : After(cursor, KeyOf(e)) => e \in S
  BY DEF S
<1>8. QED BY <1>3, <1>4, <1>5, <1>6, <1>7

\* What is shown after cursor: entries behind it, in order, with none left out.
IsPage(page, cursor) ==
  /\ page \in Seq(Entry)
  /\ \A k \in 1..Len(page) : page[k] \in ToSet(entries) /\ After(cursor, KeyOf(page[k]))
  /\ \A j, k \in 1..Len(page) : j < k => Before(page[j], page[k])

\* A page, and the cursor it leaves.
LEMMA PageStep ==
  ASSUME TypeOK, IdsAreUnique, NEW limit \in Limits, ReadPage(limit)
  PROVE  \E page :
           /\ IsPage(page, listing.cursor) /\ listed' = listed \o page
           /\ \/ /\ listing'.pc = "ended" /\ listing'.cursor = listing.cursor
                 /\ \A e \in ToSet(entries) :
                      After(listing.cursor, KeyOf(e)) => \E k \in 1..Len(page) : page[k] = e
              \/ /\ listing'.pc = "reading" /\ Len(page) \in Nat \ {0}
                 /\ listing'.cursor = KeyOf(page[Len(page)])
                 /\ \A e \in ToSet(entries) :
                      After(listing.cursor, KeyOf(e)) /\ ~ After(listing'.cursor, KeyOf(e)) =>
                        \E k \in 1..Len(page) : page[k] = e
<1> DEFINE rows == RowsAfter(listing.cursor)
<1>1. /\ rows \in Seq(Entry)
      /\ \A k \in 1..Len(rows) : rows[k] \in ToSet(entries) /\ After(listing.cursor, KeyOf(rows[k]))
      /\ \A j, k \in 1..Len(rows) : j < k => Before(rows[j], rows[k])
      /\ \A e \in ToSet(entries) :
           After(listing.cursor, KeyOf(e)) => \E k \in 1..Len(rows) : rows[k] = e
  BY RowsAfterCorrect
<1>2. Len(rows) \in Nat /\ limit \in Nat \ {0}
  BY <1>1, ReadsAssumption
<1>3. /\ listed' = listed \o (IF Len(rows) > limit THEN SubSeq(rows, 1, limit) ELSE rows)
      /\ listing' = IF Len(rows) > limit
           THEN [pc |-> "reading", cursor |-> KeyOf(rows[limit])]
           ELSE [listing EXCEPT !.pc = "ended"]
  BY DEF ReadPage, CursorOf
<1> HIDE DEF rows
<1>4. CASE Len(rows) > limit
  <2> DEFINE page == SubSeq(rows, 1, limit)
  <2>1. page \in Seq(Entry) /\ Len(page) = limit /\ \A k \in 1..limit : page[k] = rows[k]
    BY <1>1, <1>2, <1>4
  <2> HIDE DEF page
  <2>2. IsPage(page, listing.cursor)
    <3>1. \A k \in 1..Len(page) : k \in 1..Len(rows) /\ page[k] = rows[k]
      BY <1>2, <1>4, <2>1
    <3>2. QED BY <1>1, <2>1, <3>1 DEF IsPage
  <2>3. listing'.pc = "reading" /\ listing'.cursor = KeyOf(page[Len(page)]) /\ Len(page) \in Nat \ {0}
    BY <1>2, <1>3, <1>4, <2>1
  <2>4. ASSUME NEW e \in ToSet(entries),
               After(listing.cursor, KeyOf(e)), ~ After(listing'.cursor, KeyOf(e))
        PROVE  \E k \in 1..Len(page) : page[k] = e
    <3>1. PICK k \in 1..Len(rows) : rows[k] = e
      BY <1>1, <2>4
    <3>2. CASE k > limit
      <4>1. limit \in 1..Len(rows) /\ Before(rows[limit], e)
        BY <1>1, <1>2, <1>4, <3>1, <3>2
      <4>2. After(KeyOf(rows[limit]), KeyOf(e))
        BY <4>1 DEF After, Before, KeyOf
      <4>3. QED BY <1>2, <2>1, <2>3, <2>4, <4>2
    <3>3. QED BY <1>2, <2>1, <3>1, <3>2
  <2>5. listed' = listed \o page
    BY <1>3, <1>4 DEF page
  <2>6. QED BY <2>2, <2>3, <2>4, <2>5
<1>5. CASE ~ (Len(rows) > limit)
  <2>1. listed' = listed \o rows /\ listing'.pc = "ended" /\ listing'.cursor = listing.cursor
    BY <1>3, <1>5 DEF TypeOK
  <2>2. IsPage(rows, listing.cursor)
    BY <1>1 DEF IsPage
  <2>3. QED BY <1>1, <2>1, <2>2
<1>6. QED BY <1>4, <1>5

-----------------------------------------------------------------------------
(* The steps.                                                              *)

\* The initial states have their types.
LEMMA ReadsTypeInit == Init => TypeOK
<1> SUFFICES ASSUME Init PROVE TypeOK
  OBVIOUS
<1> USE MoneyAssumption, ReadsAssumption
<1>1. /\ 0 \in 0..MaxInt /\ 0 \in 0..MaxTime /\ 0 \in 0..MaxEntries /\ 0 \in Words
      /\ "none" \in Errors
  BY DEF Words, MinInt, Errors
<1>2. <<>> \in Seq(Entry) /\ Len(<<>>) = 0
  OBVIOUS
<1>3. NoCheck \in [pc : {"idle", "read", "reported"}, stored : 0..MaxInt, snapshot : Seq(Entry),
                   difference : [error : Errors, minor : Words]]
  BY <1>1, <1>2 DEF NoCheck, Amount
<1>4. listing \in [pc : {"idle", "reading", "ended"}, cursor : Key]
  BY <1>1 DEF Init, Start, Key
<1>5. stamp \in [Writers -> 0..MaxTime]
  BY <1>1 DEF Init
<1>6. QED BY <1>1, <1>2, <1>3, <1>4, <1>5 DEF Init, TypeOK, Times

\* The differences that are reported are amounts or errors.
LEMMA DifferenceType ==
  \A a \in Int, b \in Int :
    Subtract(a, b) \in [error : Errors, minor : Words]
<1> SUFFICES ASSUME NEW a \in Int, NEW b \in Int
             PROVE  Subtract(a, b) \in [error : Errors, minor : Words]
  OBVIOUS
<1>1. Wrap(a - b) \in Words /\ 0 \in Words
  <2>1. MaxInt \in Nat /\ a - b - MinInt \in Int /\ a - b \in Int
    BY MoneyAssumption DEF MinInt
  <2> DEFINE m == 2 * (MaxInt + 1)
  <2>2. m \in Nat \ {0}
    BY <2>1
  <2>3. (a - b - MinInt) % m \in 0..(m - 1)
    BY <2>1, <2>2
  <2>4. QED BY <2>1, <2>3 DEF Wrap, Words, MinInt
<1>2. QED BY <1>1 DEF Subtract, Overflow, Amount, Errors

\* Every entry takes an id of its own: there is always one left for the next.
LEMMA RoomForEntries ==
  ASSUME NEW es \in Seq(Entry), \A j, k \in DOMAIN es : es[j].id = es[k].id => j = k
  PROVE  Len(es) <= MaxEntries
<1> DEFINE n == Len(es)
           ids == [k \in 1..n |-> es[k].id]
<1>1. n \in Nat /\ DOMAIN es = 1..n /\ MaxEntries \in Nat
  BY ReadsAssumption
<1>2. \A k \in 1..n : es[k].id \in 1..MaxEntries
  <2>1. \A e \in Entry : e.id \in 1..MaxEntries
    BY DEF Entry
  <2>2. QED BY <1>1, <2>1
<1>3. ids \in Injection(1..n, 1..MaxEntries)
  BY <1>1, <1>2 DEF Injection, IsInjective
<1> HIDE DEF ids
<1>4. /\ IsFiniteSet(1..MaxEntries) /\ Cardinality(1..MaxEntries) = MaxEntries
      /\ Cardinality(1..n) = n
  <2>1. \A m \in Nat : IsFiniteSet(1..m) /\ Cardinality(1..m) = m
    <3> SUFFICES ASSUME NEW m \in Nat PROVE IsFiniteSet(1..m) /\ Cardinality(1..m) = m
      OBVIOUS
    <3>1. QED BY FS_Interval
  <2>2. QED BY <1>1, <2>1, Zenon
<1>5. Cardinality(1..n) <= Cardinality(1..MaxEntries)
  BY <1>3, <1>4, FS_Injection
<1>6. QED BY <1>4, <1>5

\* No step gives two entries the same id.
LEMMA IdsNext ==
  ASSUME TypeOK, IdsAreUnique, [Next]_vars
  PROVE  IdsAreUnique'
<1>1. CASE UNCHANGED entries
  BY <1>1 DEF IdsAreUnique
<1>2. ASSUME NEW p \in Writers, Post(p) PROVE IdsAreUnique'
  <2>1. PICK delta \in Deltas, id \in 1..MaxEntries \ {entries[k].id : k \in DOMAIN entries} :
          entries' = Append(entries, [at |-> stamp[p], id |-> id, delta |-> delta, by |-> p])
    BY <1>2 DEF Post
  <2> DEFINE e == [at |-> stamp[p], id |-> id, delta |-> delta, by |-> p]
             n == Len(entries)
  <2>2. /\ n \in Nat /\ DOMAIN entries = 1..n /\ DOMAIN entries' = 1..(n + 1)
        /\ entries'[n + 1] = e /\ \A k \in 1..n : entries'[k] = entries[k]
    BY <2>1, EntriesTyped DEF TypeOK
  <2>3. \A k \in 1..n : entries[k].id # id
    BY <2>2
  <2>4. e.id = id
    OBVIOUS
  <2> HIDE DEF e, n
  <2>5. QED BY <2>2, <2>3, <2>4 DEF IdsAreUnique
<1>3. QED
  BY <1>1, <1>2 DEF Next, vars, reads, Tick, TakeStamp, Lock, GiveUp, ReadPage, ReadBalance, ReadLedger

\* Every step keeps the types, given the ids and the stamps of the entries.
LEMMA ReadsTypeNext ==
  ASSUME TypeOK, StampsAreOrdered, IdsAreUnique, [Next]_vars, IdsAreUnique'
  PROVE  TypeOK'
<1> USE MoneyAssumption, ReadsAssumption
<1>1. CASE Tick
  BY <1>1 DEF Tick, TypeOK, Times, reads
<1>2. ASSUME NEW p \in Writers, TakeStamp(p) PROVE TypeOK'
  BY <1>2 DEF TakeStamp, TypeOK, Times, reads
<1>3. ASSUME NEW p \in Writers, Lock(p) PROVE TypeOK'
  <2>1. stamp' \in [Writers -> 0..MaxTime]
    <3>1. stamp' = stamp \/ stamp' = [stamp EXCEPT ![p] = now]
      BY <1>3 DEF Lock
    <3>2. now \in 0..MaxTime /\ stamp \in [Writers -> 0..MaxTime]
      BY DEF TypeOK, Times
    <3>3. QED BY <3>1, <3>2
  <2>2. QED BY <1>3, <2>1 DEF Lock, TypeOK, reads
<1>4. ASSUME NEW p \in Writers, Post(p) PROVE TypeOK'
  <2>1. PICK delta \in Deltas, id \in 1..MaxEntries \ {entries[k].id : k \in DOMAIN entries} :
          /\ Fits(balance + delta) /\ balance' = balance + delta
          /\ entries' = Append(entries, [at |-> stamp[p], id |-> id, delta |-> delta, by |-> p])
    BY <1>4 DEF Post
  <2>2. stamp[p] \in Times /\ delta \in Words
    <3>1. holder = p /\ NoOne \notin Writers
      BY <1>4 DEF Post
    <3>2. stamp[p] \in 0..MaxTime /\ stamp[p] # 0
      BY <3>1 DEF TypeOK, StampsAreOrdered
    <3>3. QED BY <3>2 DEF Times
  <2>3. [at |-> stamp[p], id |-> id, delta |-> delta, by |-> p] \in Entry
    BY <2>2 DEF Entry
  <2>4. entries' \in Seq(Entry) /\ Len(entries') = Len(entries) + 1
    BY <2>1, <2>3 DEF TypeOK
  <2>5. Len(entries') <= MaxEntries
    <3>1. \A es \in Seq(Entry) :
            (\A j, k \in DOMAIN es : es[j].id = es[k].id => j = k) => Len(es) <= MaxEntries
      BY RoomForEntries
    <3>2. QED BY <2>4, <3>1 DEF IdsAreUnique
  <2>6. stamp' \in [Writers -> 0..MaxTime] /\ holder' \in Writers \cup {NoOne}
    BY <1>4 DEF Post, TypeOK
  <2>7. balance' \in 0..MaxInt
    BY <2>1 DEF Fits
  <2>8. atFirst' \in 0..Len(entries') /\ atLast' \in atFirst'..Len(entries')
    <3>1. atFirst' = atFirst /\ atLast' = atLast
      BY <1>4 DEF Post, reads
    <3>2. /\ Len(entries) \in Nat /\ atFirst \in 0..Len(entries)
          /\ atLast \in atFirst..Len(entries)
      BY DEF TypeOK
    <3>3. QED BY <2>4, <3>1, <3>2
  <2>9. QED BY <1>4, <2>4, <2>5, <2>6, <2>7, <2>8 DEF Post, TypeOK, reads
<1>5. ASSUME NEW p \in Writers, GiveUp(p) PROVE TypeOK'
  BY <1>5 DEF GiveUp, TypeOK, reads
<1>6. ASSUME NEW limit \in Limits, ReadPage(limit) PROVE TypeOK'
  <2>1. PICK page :
          /\ IsPage(page, listing.cursor) /\ listed' = listed \o page
          /\ \/ listing'.pc = "ended" /\ listing'.cursor = listing.cursor
             \/ /\ listing'.pc = "reading" /\ Len(page) \in Nat \ {0}
                /\ listing'.cursor = KeyOf(page[Len(page)])
    BY <1>6, PageStep
  <2>2. listed' \in Seq(Entry) /\ page \in Seq(Entry)
    BY <2>1 DEF IsPage, TypeOK
  <2>3. \A e \in Entry : KeyOf(e) \in Key
    BY DEF Entry, KeyOf, Key, Times
  <2>4. listing'.cursor \in Key
    <3>1. CASE Len(page) \in Nat \ {0} /\ listing'.cursor = KeyOf(page[Len(page)])
      <4>1. page[Len(page)] \in Entry
        BY <2>2, <3>1
      <4>2. QED BY <2>3, <3>1, <4>1
    <3>2. CASE listing'.cursor = listing.cursor
      BY <3>2 DEF TypeOK
    <3>3. QED BY <2>1, <3>1, <3>2
  <2>5. listing' \in [pc : {"idle", "reading", "ended"}, cursor : Key]
    <3>1. \/ listing' = [listing EXCEPT !.pc = "ended"]
          \/ listing' = [pc |-> "reading", cursor |-> listing'.cursor]
      BY <1>6 DEF ReadPage
    <3>2. QED BY <2>4, <3>1 DEF TypeOK
  <2>6. atFirst' \in 0..Len(entries') /\ atLast' \in atFirst'..Len(entries')
    BY <1>6 DEF ReadPage, TypeOK
  <2>7. QED BY <1>6, <2>2, <2>5, <2>6 DEF ReadPage, TypeOK
<1>7. CASE ReadBalance
  BY <1>7 DEF ReadBalance, TypeOK
<1>8. CASE ReadLedger
  <2>1. SumOf(check.snapshot) \in Int /\ check.stored \in Int
    BY SumAppend DEF TypeOK
  <2>2. Subtract(check.stored, SumOf(check.snapshot)) \in [error : Errors, minor : Words]
    BY <2>1, DifferenceType
  <2>3. QED BY <1>8, <2>2 DEF ReadLedger, Seen, TypeOK
<1>9. CASE UNCHANGED vars
  BY <1>9 DEF vars, TypeOK
<1>10. QED BY <1>1, <1>2, <1>3, <1>4, <1>5, <1>6, <1>7, <1>8, <1>9 DEF Next

\* Every step keeps the order of the stamps.
LEMMA StampsNext ==
  ASSUME TypeOK, StampsAreOrdered, [Next]_vars
  PROVE  StampsAreOrdered'
<1> USE ReadsAssumption
<1>0. /\ now \in Nat /\ \A p \in Writers : stamp[p] \in Nat
      /\ DOMAIN entries = 1..Len(entries) /\ Len(entries) \in Nat
      /\ \A k \in DOMAIN entries : entries[k].at \in Nat
  <2>1. \A e \in Entry : e.at \in Nat
    BY DEF Entry, Times
  <2>2. QED BY <2>1, EntriesTyped DEF TypeOK, Times
<1>1. CASE Tick
  <2>1. now' = now + 1 /\ UNCHANGED <<entries, stamp, holder>>
    BY <1>1 DEF Tick
  <2>2. \A p \in Writers : stamp'[p] <= now'
    BY <1>0, <2>1 DEF StampsAreOrdered
  <2>3. \A k \in DOMAIN entries' : entries'[k].at <= now'
    BY <1>0, <2>1 DEF StampsAreOrdered
  <2>4. QED BY <2>1, <2>2, <2>3 DEF StampsAreOrdered
<1>2. ASSUME NEW p \in Writers, TakeStamp(p) PROVE StampsAreOrdered'
  <2>1. p \notin Sessions /\ stamp[p] = 0
    BY <1>2 DEF TakeStamp, StampsUnderLock
  <2>2. stamp' = [stamp EXCEPT ![p] = now] /\ UNCHANGED <<now, entries, holder>>
    BY <1>2 DEF TakeStamp
  <2>3. holder # p
    BY <2>1 DEF StampsAreOrdered
  <2>4. \A q \in Writers : stamp'[q] = IF q = p THEN now ELSE stamp[q]
    BY <2>2 DEF TypeOK
  <2>5. QED BY <1>0, <2>1, <2>2, <2>3, <2>4 DEF StampsAreOrdered, Writers, TypeOK
<1>3. ASSUME NEW p \in Writers, Lock(p) PROVE StampsAreOrdered'
  <2>1. holder = NoOne /\ holder' = p /\ UNCHANGED <<now, entries>>
    BY <1>3 DEF Lock
  <2>2. CASE p \in Sessions
    <3>1. stamp' = [stamp EXCEPT ![p] = now]
      BY <1>3, <2>2 DEF Lock, StampsUnderLock
    <3>2. \A q \in Writers : stamp'[q] = IF q = p THEN now ELSE stamp[q]
      BY <3>1 DEF TypeOK
    <3>3. now # 0 /\ NoOne \notin Writers
      BY DEF TypeOK, Times
    <3>4. QED BY <1>0, <2>1, <2>2, <3>2, <3>3 DEF StampsAreOrdered, Writers
  <2>3. CASE p \notin Sessions
    BY <1>0, <1>3, <2>1, <2>3 DEF Lock, StampsUnderLock, StampsAreOrdered, Writers
  <2>4. QED BY <2>2, <2>3
<1>4. ASSUME NEW p \in Writers, Post(p) PROVE StampsAreOrdered'
  <2>1. PICK delta \in Deltas, id \in 1..MaxEntries \ {entries[k].id : k \in DOMAIN entries} :
          entries' = Append(entries, [at |-> stamp[p], id |-> id, delta |-> delta, by |-> p])
    BY <1>4 DEF Post
  <2>2. /\ holder = p /\ holder' = NoOne /\ stamp' = [stamp EXCEPT ![p] = 0] /\ now' = now
        /\ \A q \in Writers : stamp'[q] = IF q = p THEN 0 ELSE stamp[q]
    BY <1>4 DEF Post, TypeOK
  <2>3. \A k \in DOMAIN entries' : entries'[k].at <= now
    <3>1. /\ DOMAIN entries' = 1..(Len(entries) + 1)
          /\ entries'[Len(entries) + 1].at = stamp[p]
          /\ \A k \in 1..Len(entries) : entries'[k] = entries[k]
      BY <2>1, EntriesTyped DEF TypeOK
    <3>2. QED BY <1>0, <3>1 DEF StampsAreOrdered
  <2>4. QED BY <1>0, <2>2, <2>3 DEF StampsAreOrdered, Writers
<1>5. ASSUME NEW p \in Writers, GiveUp(p) PROVE StampsAreOrdered'
  <2>1. /\ stamp' = [stamp EXCEPT ![p] = 0] /\ UNCHANGED <<now, entries>>
        /\ holder' = IF holder = p THEN NoOne ELSE holder
        /\ \A q \in Writers : stamp'[q] = IF q = p THEN 0 ELSE stamp[q]
    BY <1>5 DEF GiveUp, TypeOK
  <2>2. QED BY <1>0, <2>1 DEF StampsAreOrdered, Writers, TypeOK
<1>6. CASE UNCHANGED <<now, entries, stamp, holder>>
  BY <1>6 DEF StampsAreOrdered
<1>7. QED
  BY <1>1, <1>2, <1>3, <1>4, <1>5, <1>6 DEF Next, vars, ReadPage, ReadBalance, ReadLedger

\* A post leaves the pages as they are: its entry is behind the cursor only when
\* its created_at is older than its commit, or that of an entry that was there.
LEMMA PostKeepsListing ==
  ASSUME TypeOK, TypeOK', ListingInvariant, NEW p \in Writers, Post(p)
  PROVE  PagesAreInOrder' /\ PagesAreComplete' /\ OldEntriesAreListed' /\ OnlyEarlyStampsAreMissed'
<1>0. PICK n : n = Len(entries)
  OBVIOUS
<1>1. /\ UNCHANGED <<listing, listed, atFirst, atLast>> /\ holder = p
      /\ n \in Nat /\ DOMAIN entries = 1..n /\ DOMAIN entries' = 1..(n + 1)
      /\ \A k \in 1..n : entries'[k] = entries[k]
      /\ entries'[n + 1].at = stamp[p] /\ entries'[n + 1].by = p
      /\ entries'[n + 1] \in Entry /\ atFirst \in 0..n /\ atLast \in 0..n
  <2>1. PICK delta \in Deltas, id \in 1..MaxEntries \ {entries[k].id : k \in DOMAIN entries} :
          entries' = Append(entries, [at |-> stamp[p], id |-> id, delta |-> delta, by |-> p])
    BY DEF Post
  <2>2. /\ n \in Nat /\ DOMAIN entries = 1..n /\ DOMAIN entries' = 1..(n + 1)
        /\ entries'[n + 1] = [at |-> stamp[p], id |-> id, delta |-> delta, by |-> p]
        /\ \A k \in 1..n : entries'[k] = entries[k]
    <3>1. entries \in Seq(Entry) /\ entries' \in Seq(Entry)
      BY DEF TypeOK
    <3>2. PICK x : x = [at |-> stamp[p], id |-> id, delta |-> delta, by |-> p]
      OBVIOUS
    <3>3. entries' = Append(entries, x)
      BY <2>1, <3>2
    <3>4. QED BY <1>0, <3>1, <3>2, <3>3, AppendedOne
  <2>3. entries'[n + 1] \in Entry
    BY <2>2 DEF TypeOK
  <2>4. atFirst \in 0..n /\ atLast \in 0..n
    BY <1>0, <2>2 DEF TypeOK
  <2>5. QED BY <2>2, <2>3, <2>4 DEF Post, reads
<1>2. \A e \in ToSet(entries) : e \in ToSet(entries')
  BY <1>1, EntriesTyped DEF ToSet
<1>3. PagesAreInOrder'
  BY <1>1, <1>2 DEF PagesAreInOrder, ListingInvariant, After, Before
<1>4. \A k \in 1..n : MayBeMissed(k) => MayBeMissed(k)'
  <2> SUFFICES ASSUME NEW k \in 1..n, MayBeMissed(k) PROVE MayBeMissed(k)'
    OBVIOUS
  <2>1. entries'[k] = entries[k] /\ \A j \in 1..(k - 1) : entries'[j] = entries[j]
    BY <1>1
  <2>2. QED BY <2>1 DEF MayBeMissed
<1>5. ASSUME listing.pc = "reading"
      PROVE  After(listing.cursor, KeyOf(entries'[n + 1])) \/ MayBeMissed(n + 1)'
  <2>1. CASE p \in Workers
    BY <1>1, <2>1 DEF MayBeMissed
  <2>2. CASE p \in Sessions
    <3>1. PICK j \in 1..n : listing.cursor = KeyOf(entries[j])
      BY <1>1, <1>5, EntriesTyped DEF ListingInvariant, PagesAreInOrder
    <3>2. entries[j].at <= stamp[p] /\ entries[j].at \in Int /\ stamp[p] \in Int
      BY <1>1, <2>2, EntriesTyped, KeyOrder DEF ListingInvariant, StampsAreOrdered, TypeOK
    <3>3. CASE entries[j].at = stamp[p]
      <4>1. j \in 1..((n + 1) - 1) /\ entries'[j].at = entries'[n + 1].at
        BY <1>1, <3>3
      <4>2. QED BY <4>1 DEF MayBeMissed
    <3>4. CASE entries[j].at < stamp[p]
      BY <1>1, <3>1, <3>4 DEF After, Before, KeyOf
    <3>5. QED BY <3>2, <3>3, <3>4
  <2>3. QED BY <2>1, <2>2 DEF Writers
<1>6. PagesAreComplete'
  <2> SUFFICES ASSUME listing.pc = "reading", NEW k \in 1..(n + 1)
               PROVE  \/ After(listing.cursor, KeyOf(entries'[k]))
                      \/ entries'[k] \in ToSet(listed)
                      \/ k > atFirst /\ MayBeMissed(k)'
    BY <1>1 DEF PagesAreComplete, MayBeMissed
  <2>1. CASE k \in 1..n
    BY <1>1, <1>4, <2>1 DEF ListingInvariant, PagesAreComplete
  <2>2. CASE k = n + 1
    BY <1>1, <1>5, <2>2
  <2>3. QED BY <1>1, <2>1, <2>2
<1>7. OldEntriesAreListed'
  BY <1>1 DEF ListingInvariant, OldEntriesAreListed
<1>8. OnlyEarlyStampsAreMissed'
  <2>1. \A k \in 1..atLast : k \in 1..n
    BY <1>1
  <2>2. QED BY <1>1, <1>4, <2>1 DEF ListingInvariant, OnlyEarlyStampsAreMissed, MayBeMissed
<1>9. QED BY <1>3, <1>6, <1>7, <1>8

\* A page goes on where the last one ended.
LEMMA PageKeepsListing ==
  ASSUME TypeOK, TypeOK', ListingInvariant, NEW limit \in Limits, ReadPage(limit)
  PROVE  PagesAreInOrder' /\ PagesAreComplete' /\ OldEntriesAreListed' /\ OnlyEarlyStampsAreMissed'
<1>1. PICK page :
        /\ IsPage(page, listing.cursor) /\ listed' = listed \o page
        /\ \/ /\ listing'.pc = "ended" /\ listing'.cursor = listing.cursor
              /\ \A e \in ToSet(entries) :
                   After(listing.cursor, KeyOf(e)) => \E k \in 1..Len(page) : page[k] = e
           \/ /\ listing'.pc = "reading" /\ Len(page) \in Nat \ {0}
              /\ listing'.cursor = KeyOf(page[Len(page)])
              /\ \A e \in ToSet(entries) :
                   After(listing.cursor, KeyOf(e)) /\ ~ After(listing'.cursor, KeyOf(e)) =>
                     \E k \in 1..Len(page) : page[k] = e
  BY PageStep DEF ListingInvariant
<1>2. /\ UNCHANGED entries /\ listing.pc \in {"idle", "reading"}
      /\ atFirst' = (IF listing.pc = "idle" THEN Len(entries) ELSE atFirst)
      /\ atLast' = Len(entries)
  BY DEF ReadPage, TypeOK
<1> DEFINE n == Len(listed)
           m == Len(page)
<1>3. /\ n \in Nat /\ m \in Nat
      /\ DOMAIN listed = 1..n /\ DOMAIN listed' = 1..(n + m)
      /\ \A k \in 1..n : listed'[k] = listed[k] /\ listed[k] \in Entry
      /\ \A k \in 1..m : listed'[n + k] = page[k] /\ page[k] \in Entry
      /\ \A k \in (n + 1)..(n + m) : k - n \in 1..m /\ listed'[k] = page[k - n]
  <2>1. listed \in Seq(Entry) /\ page \in Seq(Entry)
    BY <1>1 DEF TypeOK, IsPage
  <2>2. QED BY <1>1, <2>1
<1> HIDE DEF n, m
<1>4. /\ \A k \in 1..n : listed[k] \in ToSet(listed')
      /\ \A k \in 1..m : page[k] \in ToSet(listed')
      /\ \A e \in ToSet(listed) : e \in ToSet(listed')
  <2>1. \A k \in 1..n : k \in 1..(n + m) /\ \A j \in 1..m : n + j \in 1..(n + m)
    BY <1>3
  <2>2. \A j \in 1..m : n + j \in 1..(n + m)
    BY <1>3
  <2>3. QED BY <1>3, <2>1, <2>2 DEF ToSet
<1>5. ASSUME NEW e \in Entry, NEW k \in 1..n, After(listing.cursor, KeyOf(e))
      PROVE  Before(listed[k], e)
  <2>1. listing.pc = "reading" /\ ~ After(listing.cursor, KeyOf(listed[k])) /\ k \in DOMAIN listed
    BY <1>2, <1>3 DEF ListingInvariant, PagesAreInOrder
  <2>2. listed[k] \in Entry /\ \A f \in Entry : f.at \in Int /\ f.id \in Int
    BY <1>3, KeyOrder
  <2>3. listing.cursor.at \in Int /\ listing.cursor.id \in Int
    <3>1. listing.cursor \in Key
      BY DEF TypeOK
    <3>2. \A c \in Key : c.at \in Int /\ c.id \in Int
      BY ReadsAssumption DEF Key
    <3>3. QED BY <3>1, <3>2
  <2>4. QED BY <1>5, <2>1, <2>2, <2>3 DEF After, Before, KeyOf
<1>6. \A k \in DOMAIN listed' : listed'[k] \in ToSet(entries')
  BY <1>1, <1>2, <1>3 DEF ListingInvariant, PagesAreInOrder, IsPage, m
<1>7. ASSUME NEW j \in DOMAIN listed', NEW k \in DOMAIN listed', j < k
      PROVE  Before(listed'[j], listed'[k])
  <2>1. CASE k \in 1..n
    <3>1. j \in 1..n
      BY <1>3, <1>7, <2>1
    <3>2. QED BY <1>3, <1>7, <2>1, <3>1 DEF ListingInvariant, PagesAreInOrder
  <2>2. CASE j \in 1..n /\ k \in (n + 1)..(n + m)
    <3>1. listed'[k] = page[k - n] /\ k - n \in 1..m /\ listed'[j] = listed[j]
      BY <1>3, <2>2
    <3>2. After(listing.cursor, KeyOf(page[k - n])) /\ page[k - n] \in Entry
      BY <1>1, <1>3, <3>1 DEF IsPage, m
    <3>3. QED BY <1>5, <2>2, <3>1, <3>2
  <2>3. CASE j \in (n + 1)..(n + m) /\ k \in (n + 1)..(n + m)
    <3>1. /\ listed'[j] = page[j - n] /\ listed'[k] = page[k - n]
          /\ j - n \in 1..m /\ k - n \in 1..m /\ j - n < k - n
      BY <1>3, <1>7, <2>3
    <3>2. QED BY <1>1, <3>1 DEF IsPage, m
  <2>4. QED BY <1>3, <1>7, <2>1, <2>2, <2>3
<1>8. ASSUME listing'.pc = "reading"
      PROVE  /\ \A k \in DOMAIN listed' : ~ After(listing'.cursor, KeyOf(listed'[k]))
             /\ \E e \in ToSet(entries') : listing'.cursor = KeyOf(e)
  <2>1. m \in 1..m /\ listing'.cursor = KeyOf(page[m])
    BY <1>1, <1>3, <1>8 DEF m
  <2>2. n + m \in DOMAIN listed' /\ listed'[n + m] = page[m] /\ page[m] \in Entry
    BY <1>3, <2>1
  <2>3. page[m] \in ToSet(entries')
    BY <1>1, <1>2, <2>1 DEF IsPage, m
  <2>4. ASSUME NEW k \in DOMAIN listed', After(listing'.cursor, KeyOf(listed'[k])) PROVE FALSE
    <3>1. listed'[k] \in Entry
      BY <1>3, <2>4
    <3>2. Before(page[m], listed'[k])
      BY <2>1, <2>4 DEF After, Before, KeyOf
    <3>3. k < n + m \/ k = n + m
      BY <1>3
    <3>4. QED BY <1>7, <2>2, <2>4, <3>1, <3>2, <3>3, KeyOrder
  <2>5. QED BY <2>1, <2>3, <2>4
<1>9. PagesAreInOrder'
  <2>1. listing'.pc # "idle"
    BY <1>1
  <2>2. QED BY <1>6, <1>7, <1>8, <2>1 DEF PagesAreInOrder
<1>10. \A k \in 1..Len(entries) : After(listing.cursor, KeyOf(entries[k])) \/
          entries[k] \in ToSet(listed) \/ (k > atFirst' /\ MayBeMissed(k))
  <2> TAKE k \in 1..Len(entries)
  <2>1. CASE listing.pc = "idle"
    <3>1. entries[k] \in Entry /\ \A e \in Entry : e.at \in Nat /\ e.at > 0
      BY EntriesTyped DEF Entry, Times
    <3>2. listing.cursor = Start
      BY <2>1 DEF ListingInvariant, PagesAreInOrder
    <3>3. QED BY <3>1, <3>2 DEF After, Before, KeyOf, Start
  <2>2. CASE listing.pc = "reading"
    BY <1>2, <2>2, EntriesTyped DEF ListingInvariant, PagesAreComplete
  <2>3. QED BY <1>2, <2>1, <2>2
<1>11. ASSUME NEW k \in 1..Len(entries),
              listing'.pc = "ended" \/ ~ After(listing'.cursor, KeyOf(entries[k]))
       PROVE  entries'[k] \in ToSet(listed') \/ (k > atFirst' /\ MayBeMissed(k)')
  <2>1. entries'[k] = entries[k] /\ entries[k] \in ToSet(entries)
    BY <1>2, EntriesTyped
  <2>2. MayBeMissed(k)' <=> MayBeMissed(k)
    BY <1>2 DEF MayBeMissed
  <2>3. CASE After(listing.cursor, KeyOf(entries[k]))
    <3>1. \E j \in 1..Len(page) : page[j] = entries[k]
      BY <1>1, <1>11, <2>1, <2>3
    <3>2. QED BY <1>4, <2>1, <3>1 DEF m
  <2>4. QED BY <1>4, <1>10, <2>1, <2>2, <2>3
<1>12. PagesAreComplete'
  <2> SUFFICES ASSUME listing'.pc = "reading", NEW k \in DOMAIN entries'
               PROVE  \/ After(listing'.cursor, KeyOf(entries'[k]))
                      \/ entries'[k] \in ToSet(listed')
                      \/ k > atFirst' /\ MayBeMissed(k)'
    BY DEF PagesAreComplete, MayBeMissed
  <2>1. k \in 1..Len(entries) /\ entries'[k] = entries[k]
    BY <1>2, EntriesTyped
  <2>2. QED BY <1>11, <2>1
<1>13. OldEntriesAreListed' /\ OnlyEarlyStampsAreMissed'
  <2>1. SUFFICES ASSUME listing'.pc = "ended"
                 PROVE  /\ \A k \in 1..atFirst' : entries'[k] \in ToSet(listed')
                        /\ \A k \in 1..atLast' : entries'[k] \in ToSet(listed') \/ MayBeMissed(k)'
    BY DEF OldEntriesAreListed, OnlyEarlyStampsAreMissed, MayBeMissed
  <2>2. atFirst' \in 0..Len(entries) /\ atLast' = Len(entries) /\ Len(entries) \in Nat
    BY <1>2, EntriesTyped DEF TypeOK
  <2>3. QED BY <1>11, <2>1, <2>2
<1>14. QED BY <1>9, <1>12, <1>13

\* Every step keeps the listing as it should be.
LEMMA ListingNext ==
  ASSUME TypeOK, ListingInvariant, [Next]_vars
  PROVE  TypeOK' /\ ListingInvariant'
<1>1. IdsAreUnique' /\ StampsAreOrdered'
  BY IdsNext, StampsNext DEF ListingInvariant
<1>2. TypeOK'
  BY <1>1, ReadsTypeNext DEF ListingInvariant
<1>3. PagesAreInOrder' /\ PagesAreComplete' /\ OldEntriesAreListed' /\ OnlyEarlyStampsAreMissed'
  <2>1. ASSUME NEW p \in Writers, Post(p)
        PROVE  PagesAreInOrder' /\ PagesAreComplete' /\ OldEntriesAreListed' /\ OnlyEarlyStampsAreMissed'
    BY <1>2, <2>1, PostKeepsListing
  <2>2. ASSUME NEW limit \in Limits, ReadPage(limit)
        PROVE  PagesAreInOrder' /\ PagesAreComplete' /\ OldEntriesAreListed' /\ OnlyEarlyStampsAreMissed'
    BY <1>2, <2>2, PageKeepsListing
  <2>3. CASE UNCHANGED <<entries, listing, listed, atFirst, atLast>>
    BY <2>3 DEF ListingInvariant, PagesAreInOrder, PagesAreComplete, MayBeMissed,
                OldEntriesAreListed, OnlyEarlyStampsAreMissed
  <2>4. QED
    BY <2>1, <2>2, <2>3 DEF Next, vars, reads, Tick, TakeStamp, Lock, GiveUp, ReadBalance, ReadLedger
<1>4. QED BY <1>1, <1>2, <1>3 DEF ListingInvariant

\* Nothing is listed at first.
LEMMA ListingInit == Init => ListingInvariant
<1> SUFFICES ASSUME Init PROVE ListingInvariant
  OBVIOUS
<1>1. DOMAIN entries = {} /\ DOMAIN listed = {} /\ listing.pc = "idle" /\ listing.cursor = Start
  BY DEF Init
<1>2. StampsAreOrdered
  BY <1>1, ReadsAssumption DEF Init, StampsAreOrdered, Writers
<1>3. QED
  BY <1>1, <1>2 DEF Init, ListingInvariant, IdsAreUnique, PagesAreInOrder, PagesAreComplete,
                    OldEntriesAreListed, OnlyEarlyStampsAreMissed

\* Type correctness of the reads, and what the pages of a listing promise
\* together with it.
THEOREM ReadsInvariantCorrect == Spec => [](TypeOK /\ ListingInvariant)
<1>1. Init => TypeOK /\ ListingInvariant
  BY ReadsTypeInit, ListingInit
<1>2. TypeOK /\ ListingInvariant /\ [Next]_vars => (TypeOK /\ ListingInvariant)'
  BY ListingNext
<1>3. QED BY <1>1, <1>2, PTL DEF Spec

\* The reads keep the types of their state.
THEOREM ReadsTypeCorrect == Spec => []TypeOK
BY ReadsInvariantCorrect, PTL

\* The pages of a listing are in key order and show no entry twice.
THEOREM ListingInKeyOrderCorrect == Spec => []ListingInKeyOrder
<1>1. TypeOK /\ ListingInvariant => ListingInKeyOrder
  <2> SUFFICES ASSUME TypeOK, ListingInvariant PROVE ListingInKeyOrder
    OBVIOUS
  <2>1. Len(listed) \in Nat /\ DOMAIN listed = 1..Len(listed)
    BY DEF TypeOK
  <2>2. QED BY <2>1 DEF ListingInvariant, PagesAreInOrder, ListingInKeyOrder
<1>2. QED BY <1>1, ReadsInvariantCorrect, PTL

\* An ended listing has shown what was there when it began.
THEOREM OldEntriesAreListedCorrect == Spec => []OldEntriesAreListed
<1>1. ListingInvariant => OldEntriesAreListed
  BY DEF ListingInvariant
<1>2. QED BY <1>1, ReadsInvariantCorrect, PTL

\* What it missed took its created_at early.
THEOREM OnlyEarlyStampsAreMissedCorrect == Spec => []OnlyEarlyStampsAreMissed
<1>1. ListingInvariant => OnlyEarlyStampsAreMissed
  BY DEF ListingInvariant
<1>2. QED BY <1>1, ReadsInvariantCorrect, PTL

-----------------------------------------------------------------------------
(* The reconciliation.                                                     *)

\* A post moves the balance by the movement of the entry it appends, and both
\* readings of a reconciliation are of one moment: every step keeps the balance
\* the sum of the ledger, in the tables and in what was read of them.
LEMMA BalanceNext ==
  ASSUME TypeOK, TypeOK', BalanceIsSum, [Next]_vars
  PROVE  BalanceIsSum'
<1>1. ASSUME NEW p \in Writers, Post(p) PROVE BalanceIsSum'
  <2>1. PICK delta \in Deltas, id \in 1..MaxEntries \ {entries[k].id : k \in DOMAIN entries} :
          /\ balance' = balance + delta
          /\ entries' = Append(entries, [at |-> stamp[p], id |-> id, delta |-> delta, by |-> p])
    BY <1>1 DEF Post
  <2> DEFINE e == [at |-> stamp[p], id |-> id, delta |-> delta, by |-> p]
  <2>2. e \in Entry /\ e.delta = delta
    <3>1. entries \in Seq(Entry) /\ entries' \in Seq(Entry)
      BY DEF TypeOK
    <3>2. PICK x : x = e
      OBVIOUS
    <3>3. entries' = Append(entries, x)
      BY <2>1, <3>2
    <3>4. x \in Entry
      BY <3>1, <3>3, AppendedOne
    <3>5. QED BY <3>2, <3>4
  <2>3. SumOf(entries') = SumOf(entries) + delta
    BY <2>1, <2>2, SumAppend DEF TypeOK
  <2>4. QED BY <1>1, <2>1, <2>3 DEF BalanceIsSum, NoFalseDivergence, Post, reads
<1>2. CASE ReadBalance
  <2>1. check'.pc = "read" /\ check'.stored = balance /\ check'.snapshot = entries
    BY <1>2 DEF ReadBalance, TypeOK
  <2>2. QED BY <1>2, <2>1 DEF ReadBalance, BalanceIsSum, NoFalseDivergence
<1>3. CASE ReadLedger
  <2>1. /\ check.pc = "read" /\ check'.pc = "reported"
        /\ check'.difference = Subtract(check.stored, SumOf(check.snapshot))
    BY <1>3 DEF ReadLedger, Seen, TypeOK
  <2>2. SumOf(check.snapshot) = check.stored /\ check.stored \in Words /\ check.stored - check.stored = 0
    <3>1. SumOf(check.snapshot) = check.stored
      BY <2>1 DEF BalanceIsSum
    <3>2. check.stored \in 0..MaxInt
      BY DEF TypeOK
    <3>3. \A a \in 0..MaxInt : a \in Words /\ a - a = 0
      BY MoneyAssumption DEF Words, MinInt
    <3>4. QED BY <3>1, <3>2, <3>3
  <2>3. 0 \in Words
    BY MoneyAssumption DEF Words, MinInt
  <2>4. check'.difference = Amount(0)
    BY <2>1, <2>2, <2>3, SubtractIsExact DEF Exact
  <2>5. QED BY <1>3, <2>1, <2>4 DEF ReadLedger, BalanceIsSum, NoFalseDivergence
<1>4. CASE UNCHANGED <<balance, entries, check>>
  BY <1>4 DEF BalanceIsSum, NoFalseDivergence
<1>5. QED
  BY <1>1, <1>2, <1>3, <1>4 DEF Next, vars, reads, Tick, TakeStamp, Lock, GiveUp, ReadPage

\* The balance is the sum of the entries, and a reconciliation of a wallet that
\* moves meanwhile reports no divergence.
THEOREM ReconciliationCorrect == Spec => []BalanceIsSum
<1>1. Init => BalanceIsSum
  BY SumAppend DEF Init, BalanceIsSum, NoFalseDivergence, NoCheck
<1>2. TypeOK /\ TypeOK' /\ BalanceIsSum /\ [Next]_vars => BalanceIsSum'
  BY BalanceNext
<1>3. QED BY <1>1, <1>2, ReadsTypeCorrect, PTL DEF Spec

\* A reconciliation reports no difference, although the wallet moves while it
\* reads the balance and the ledger.
THEOREM NoFalseDivergenceCorrect == Spec => []NoFalseDivergence
<1>1. BalanceIsSum => NoFalseDivergence
  BY DEF BalanceIsSum
<1>2. QED BY <1>1, ReconciliationCorrect, PTL

-----------------------------------------------------------------------------
(* The pure operators, over every input.                                   *)

\* The input of a pure operator is chosen once and for all.
LEMMA InputsStay == MCSpec => [](input \in {NoInput} \cup Inputs)
<1>1. MCInit => input \in {NoInput} \cup Inputs
  BY DEF MCInit
<1>2. input \in {NoInput} \cup Inputs /\ [MCNext]_<<vars, input>> => (input \in {NoInput} \cup Inputs)'
  BY DEF MCNext
<1>3. QED BY <1>1, <1>2, PTL DEF MCSpec

\* Whatever a call of the API carries, a provider is answered with its own.
LEMMA AnswersItsOwnHolds == \A call \in Calls : AnswersItsOwn(call)
<1> SUFFICES ASSUME NEW call \in Calls PROVE AnswersItsOwn(call)
  OBVIOUS
<1> DEFINE reply == Respond(call)
<1>1. /\ call.token \in Tokens /\ call.route \in Routes /\ call.body \in Providers /\ call.path \in Providers
      /\ call.stored \in Transactions \cup {NoTransaction}
  BY DEF Calls
<1>2. \A status : /\ Refusal(status).status = status
                  /\ Refusal(status).transaction = NoTransaction /\ Refusal(status).ranFor = Nobody
  BY DEF Refusal, Reply
<1>3. call.token.role \in {"provider", "internal", "none"}
  BY <1>1 DEF Tokens
<1>4. CASE ~ Authenticated(call.token)
  <2>1. Respond(call) = Refusal(401)
    BY <1>4 DEF Respond
  <2>2. QED BY <1>2, <2>1 DEF AnswersItsOwn
<1>5. CASE Authenticated(call.token) /\ ~ Admitted(call)
  <2>1. Respond(call) = Refusal(403)
    BY <1>5 DEF Respond
  <2>2. QED BY <1>2, <1>5, <2>1 DEF AnswersItsOwn, Authenticated
<1>6. CASE Authenticated(call.token) /\ Admitted(call)
  <2>1. call.token.valid
    BY <1>6 DEF Authenticated
  <2>2. CASE call.route = "create"
    <3>1. call.token.role = "provider" /\ call.token.provider # Nobody
      BY <1>6, <2>2 DEF Admitted
    <3>2. reply = Create(call)
      BY <1>6, <2>2 DEF Respond
    <3>3. CASE reply.transaction = NoTransaction /\ reply.ranFor = Nobody
      BY <2>1, <3>3 DEF AnswersItsOwn
    <3>4. CASE call.body = call.token.provider /\ reply = Created(call)
      <4>1. /\ reply.ranFor = call.body
            /\ reply.transaction = NoTransaction \/ reply.transaction.provider = call.body
        BY <3>4 DEF Created, Reply
      <4>2. QED BY <2>1, <3>1, <3>4, <4>1 DEF AnswersItsOwn
    <3>5. QED BY <1>2, <3>2, <3>3, <3>4 DEF Create
  <2>3. CASE call.route = "by id"
    <3>1. reply = GetByID(call)
      BY <1>6, <2>3 DEF Respond
    <3>2. CASE reply.transaction = NoTransaction /\ reply.ranFor = Nobody
      BY <2>1, <3>2 DEF AnswersItsOwn
    <3>3. CASE MayRead(call.token, call.stored) /\ reply = Reply(200, call.stored, Nobody)
      BY <2>1, <3>3 DEF AnswersItsOwn, MayRead, Reply
    <3>4. QED BY <1>2, <3>1, <3>2, <3>3 DEF GetByID
  <2>4. CASE call.route = "by external id"
    <3>1. reply = GetByExternalID(call)
      BY <1>6, <2>4 DEF Respond
    <3>2. CASE reply.transaction = NoTransaction /\ reply.ranFor = Nobody
      BY <2>1, <3>2 DEF AnswersItsOwn
    <3>3. CASE /\ MayReadOf(call.token, call.path) /\ call.stored.provider = call.path
               /\ reply = Reply(200, call.stored, Nobody)
      BY <2>1, <3>3 DEF AnswersItsOwn, MayReadOf, Reply
    <3>4. QED BY <1>2, <3>1, <3>2, <3>3 DEF GetByExternalID
  <2>5. CASE call.route \notin {"create", "by id", "by external id"}
    <3>1. reply = CallWallets(call)
      BY <1>6, <2>5 DEF Respond
    <3>2. reply.transaction = NoTransaction /\ reply.ranFor = Nobody
      BY <1>2, <3>1 DEF CallWallets, Reply
    <3>3. QED BY <2>1, <3>2 DEF AnswersItsOwn
  <2>6. QED BY <2>2, <2>3, <2>4, <2>5
<1>7. QED BY <1>4, <1>5, <1>6

\* Every call a provider makes speaks of its own transactions.
THEOREM OwnTransactionsOnlyCorrect == MCSpec => []OwnTransactionsOnly
<1>1. input \in {NoInput} \cup Inputs => OwnTransactionsOnly
  <2> SUFFICES ASSUME input \in {NoInput} \cup Inputs, input.of = "call" PROVE AnswersItsOwn(input.call)
    BY DEF OwnTransactionsOnly
  <2>1. input.call \in Calls
    BY DEF Inputs, NoInput
  <2>2. QED BY <2>1, AnswersItsOwnHolds
<1>2. QED BY <1>1, InputsStay, PTL

-----------------------------------------------------------------------------
(* Texts.                                                                 *)

\* Induction where a number may rest on any of the smaller ones.
LEMMA StrongInduction ==
  ASSUME NEW S \in SUBSET Nat,
         \A n \in Nat : (\A k \in 0..(n - 1) : k \in S) => n \in S
  PROVE  \A n \in Nat : n \in S
<1> DEFINE T == {n \in Nat : \A k \in 0..(n - 1) : k \in S}
<1>1. 0 \in T
  OBVIOUS
<1>2. ASSUME NEW n \in T PROVE n + 1 \in T
  <2>1. n \in Nat /\ n \in S
    OBVIOUS
  <2>2. \A k \in 0..((n + 1) - 1) : k \in 0..(n - 1) \/ k = n
    BY <2>1
  <2>3. QED BY <2>1, <2>2
<1>3. \A n \in T : n \in S
  OBVIOUS
<1> HIDE DEF T
<1>4. T \in SUBSET Nat
  BY DEF T
<1>5. QED BY <1>1, <1>2, <1>3, <1>4, Induction

\* Division, and the product of what it gives.
LEMMA Division ==
  ASSUME NEW b \in Nat, b > 1
  PROVE  /\ \A n \in Nat : /\ n \div b \in Nat /\ n % b \in 0..(b - 1)
                          /\ n = (n \div b) * b + (n % b)
         /\ \A n \in Nat : n >= b => n \div b < n /\ n \div b > 0
         /\ \A p, q \in Nat : p * b \in Nat /\ (p < q => p * b + b <= q * b)
<1>1. \A n \in Nat : /\ n \div b \in Nat /\ n % b \in 0..(b - 1)
                     /\ n = (n \div b) * b + (n % b)
  BY Z3
<1>2. \A n \in Nat : n >= b => n \div b > 0
  BY Z3
<1>3. \A n \in Nat : n >= b => n \div b < n
  BY Z3
<1>4. \A p, q \in Nat : p * b \in Nat /\ (p < q => p * b + b <= q * b)
  BY Z3
<1>5. QED BY <1>1, <1>2, <1>3, <1>4, Zenon

\* A quotient and a remainder are those of the number they make.
LEMMA DivisionUnique ==
  ASSUME NEW b \in Nat, b > 1, NEW q \in Nat, NEW d \in Nat, d < b
  PROVE  q * b + d \in Nat /\ (q * b + d) \div b = q /\ (q * b + d) % b = d
<1>1. PICK n : n = q * b + d
  OBVIOUS
<1>2. PICK p : p = n \div b
  OBVIOUS
<1>3. PICK r : r = n % b
  OBVIOUS
<1>4. q * b \in Nat /\ n \in Nat
  <2>1. q * b \in Nat
    BY Division, Zenon
  <2>2. PICK x \in Nat : x = q * b
    BY <2>1
  <2>3. QED BY <1>1, <2>2
<1>5. p \in Nat /\ r \in 0..(b - 1) /\ n = p * b + r
  BY <1>2, <1>3, <1>4, Division, Zenon
<1>6. p * b \in Nat /\ (p < q => p * b + b <= q * b) /\ (q < p => q * b + b <= p * b)
  BY <1>5, Division, Zenon
<1>7. p = q /\ r = d
  <2>1. PICK x \in Nat : x = q * b
    BY <1>4
  <2>2. PICK y \in Nat : y = p * b
    BY <1>6
  <2>3. n = x + d /\ n = y + r /\ (p < q => y + b <= x) /\ (q < p => x + b <= y)
    BY <1>1, <1>5, <1>6, <2>1, <2>2, Zenon
  <2>4. p = q
    BY <1>5, <2>3
  <2>5. x = y
    BY <2>1, <2>2, <2>4
  <2>6. QED BY <1>5, <2>3, <2>4, <2>5
<1>8. QED BY <1>1, <1>2, <1>3, <1>4, <1>7, Zenon

\* The last digit of a number, and what comes before it.
Rest(n) == n \div Base
Low(n) == n % Base

\* A number is its last digit and what comes before it, and only that one.
LEMMA LastDigit ==
  /\ Base \in Nat /\ Base > 1
  /\ \A n \in Nat : Rest(n) \in Nat /\ Low(n) \in Digit /\ n = Rest(n) * Base + Low(n)
  /\ \A n \in Nat : n >= Base => Rest(n) < n /\ Rest(n) > 0
  /\ \A n \in Nat : n < Base => n \in Digit
  /\ \A q \in Nat, d \in Digit :
       q * Base + d \in Nat /\ Rest(q * Base + d) = q /\ Low(q * Base + d) = d
  /\ \A q \in Nat : q * Base \in Nat /\ (q > 0 => q * Base >= Base)
<1>1. Base \in Nat /\ Base > 1 /\ Digit = 0..(Base - 1)
  BY MoneyAssumption DEF Digit
<1>2. \A n \in Nat : Rest(n) \in Nat /\ Low(n) \in Digit /\ n = Rest(n) * Base + Low(n)
  BY <1>1, Division, Zenon DEF Rest, Low
<1>3. \A n \in Nat : n >= Base => Rest(n) < n /\ Rest(n) > 0
  BY <1>1, Division, Zenon DEF Rest, Low
<1>4. \A n \in Nat : n < Base => n \in Digit
  BY <1>1
<1>5. \A d \in Digit : d \in Nat /\ d < Base
  BY <1>1
<1>6. \A q \in Nat, d \in Digit :
       q * Base + d \in Nat /\ Rest(q * Base + d) = q /\ Low(q * Base + d) = d
  BY <1>1, <1>5, DivisionUnique, Zenon DEF Rest, Low
<1>7. ASSUME NEW q \in Nat PROVE q * Base \in Nat /\ (q > 0 => q * Base >= Base)
  <2>1. q * Base \in Nat /\ (0 < q => 0 * Base + Base <= q * Base)
    BY <1>1, Division
  <2>2. PICK x \in Nat : x = q * Base
    BY <2>1
  <2>3. 0 * Base = 0
    BY <1>1
  <2>4. 0 < q => Base <= x
    BY <1>1, <2>1, <2>2, <2>3
  <2>5. q > 0 => x >= Base
    BY <1>1, <2>4
  <2>6. QED BY <2>2, <2>5
<1>8. QED BY <1>1, <1>2, <1>3, <1>4, <1>6, <1>7, Zenon

\* What remains of a number is less.
LEMMA RestIsLess ==
  /\ Base \in Nat /\ Base > 1
  /\ \A n \in Nat : Rest(n) \in Nat /\ Low(n) \in Digit
  /\ \A n \in Nat : n >= Base => Rest(n) < n /\ Rest(n) > 0
  /\ \A n \in Nat : n < Base => n \in Digit
BY LastDigit, Zenon

\* What Digits says of a number, given what it says of a smaller one.
DigitsStep(n, f) == IF n < Base THEN <<n>> ELSE Append(f[Rest(n)], Low(n))
\* The part of Digits up to a number.
DigitsUpTo(n, f) ==
  f \in [0..n -> Seq(Digit)] /\ \A k \in 0..n : f[k] = DigitsStep(k, f)

\* Every part of Digits exists.
LEMMA DigitsExist == \A n \in Nat : \E f : DigitsUpTo(n, f)
<1> DEFINE S == {n \in Nat : \E f : DigitsUpTo(n, f)}
<1>1. 0 \in S
  <2> DEFINE f == [k \in 0..0 |-> <<0>>]
  <2>1. 0 \in Digit /\ 0 < Base
    BY RestIsLess
  <2>2. <<0>> \in Seq(Digit)
    BY <2>1
  <2>3. f \in [0..0 -> Seq(Digit)] /\ f[0] = <<0>> /\ \A k \in 0..0 : k = 0
    BY <2>2
  <2> HIDE DEF f
  <2>4. DigitsUpTo(0, f)
    BY <2>1, <2>3 DEF DigitsUpTo, DigitsStep
  <2>5. QED BY <2>4
<1>2. ASSUME NEW n \in S PROVE n + 1 \in S
  <2>1. n \in Nat /\ n + 1 \in Nat
    OBVIOUS
  <2>2. PICK f : DigitsUpTo(n, f)
    OBVIOUS
  <2> DEFINE g == [k \in 0..(n + 1) |-> IF k = n + 1 THEN DigitsStep(n + 1, f) ELSE f[k]]
  <2>3. \A k \in 0..(n + 1) : k >= Base => Rest(k) \in 0..n
    BY <2>1, RestIsLess
  <2>4. DigitsStep(n + 1, f) \in Seq(Digit)
    <3>1. CASE n + 1 < Base
      <4>1. n + 1 \in Digit
        BY <2>1, <3>1, RestIsLess
      <4>2. <<n + 1>> \in Seq(Digit)
        BY <4>1
      <4>3. QED BY <3>1, <4>2 DEF DigitsStep
    <3>2. CASE n + 1 >= Base
      <4>1. f[Rest(n + 1)] \in Seq(Digit) /\ Low(n + 1) \in Digit
        <5>1. n + 1 \in 0..(n + 1) /\ Rest(n + 1) \in 0..n
          BY <2>1, <2>3, <3>2
        <5>2. Low(n + 1) \in Digit
          BY <2>1, RestIsLess
        <5>3. QED BY <2>2, <5>1, <5>2 DEF DigitsUpTo
      <4>2. Append(f[Rest(n + 1)], Low(n + 1)) \in Seq(Digit)
        BY <4>1
      <4>3. ~ (n + 1 < Base)
        BY <2>1, <3>2, RestIsLess
      <4>4. QED BY <4>2, <4>3 DEF DigitsStep
    <3>3. QED BY <2>1, <3>1, <3>2, RestIsLess
  <2>5. g \in [0..(n + 1) -> Seq(Digit)]
    BY <2>1, <2>2, <2>4 DEF DigitsUpTo
  <2>6. g[n + 1] = DigitsStep(n + 1, f) /\ \A k \in 0..n : g[k] = f[k]
    BY <2>1
  <2> HIDE DEF g
  <2>7. ASSUME NEW k \in 0..(n + 1) PROVE g[k] = DigitsStep(k, g)
    <3>1. g[k] = DigitsStep(k, f)
      BY <2>1, <2>2, <2>6 DEF DigitsUpTo
    <3>2. CASE k < Base
      BY <3>1, <3>2 DEF DigitsStep
    <3>3. CASE k >= Base
      BY <2>3, <2>6, <3>1, <3>3 DEF DigitsStep
    <3>4. QED BY <2>1, <3>2, <3>3, RestIsLess
  <2>8. DigitsUpTo(n + 1, g)
    BY <2>5, <2>7 DEF DigitsUpTo
  <2>9. QED BY <2>1, <2>8
<1> HIDE DEF S
<1>3. S \in SUBSET Nat
  BY DEF S
<1>4. \A n \in Nat : n \in S
  BY <1>1, <1>2, <1>3, Induction
<1>5. QED BY <1>4 DEF S

\* Two parts of Digits agree where both reach.
LEMMA DigitsAgree ==
  \A k \in Nat : \A m, n \in Nat : \A f, h :
    k <= m /\ k <= n /\ DigitsUpTo(m, f) /\ DigitsUpTo(n, h) => f[k] = h[k]
<1> DEFINE Agree(k) == \A m, n \in Nat : \A f, h :
             k <= m /\ k <= n /\ DigitsUpTo(m, f) /\ DigitsUpTo(n, h) => f[k] = h[k]
           S == {k \in Nat : Agree(k)}
<1>1. ASSUME NEW k \in Nat, \A j \in 0..(k - 1) : j \in S PROVE k \in S
  <2> SUFFICES ASSUME NEW m \in Nat, NEW n \in Nat, NEW f, NEW h,
                      k <= m, k <= n, DigitsUpTo(m, f), DigitsUpTo(n, h)
               PROVE  f[k] = h[k]
    OBVIOUS
  <2>1. f[k] = DigitsStep(k, f) /\ h[k] = DigitsStep(k, h)
    BY DEF DigitsUpTo
  <2>2. CASE k < Base
    BY <2>1, <2>2 DEF DigitsStep
  <2>3. CASE k >= Base
    <3>1. Rest(k) \in 0..(k - 1) /\ Rest(k) <= m /\ Rest(k) <= n
      BY <2>3, RestIsLess
    <3>2. f[Rest(k)] = h[Rest(k)]
      BY <1>1, <3>1
    <3>3. QED BY <2>1, <3>2 DEF DigitsStep
  <2>4. QED BY <2>2, <2>3, RestIsLess
<1> HIDE DEF S
<1>2. S \in SUBSET Nat
  BY DEF S
<1>3. \A k \in Nat : k \in S
  BY <1>1, <1>2, StrongInduction
<1>4. QED BY <1>3 DEF S

\* Digits is well defined: it is what its equation says, for every number.
LEMMA DigitsDefined ==
  /\ Digits \in [Nat -> Seq(Digit)]
  /\ \A n \in Nat : Digits[n] = DigitsStep(n, Digits)
<1> DEFINE part(n) == CHOOSE f : DigitsUpTo(n, f)
           g == [n \in Nat |-> part(n)[n]]
<1>1. \A n \in Nat : DigitsUpTo(n, part(n))
  BY DigitsExist, Zenon
<1> HIDE DEF part
<1>2. g \in [Nat -> Seq(Digit)] /\ \A n \in Nat : g[n] = part(n)[n]
  BY <1>1 DEF DigitsUpTo
<1>3. ASSUME NEW n \in Nat PROVE g[n] = DigitsStep(n, g)
  <2>1. g[n] = DigitsStep(n, part(n))
    BY <1>1, <1>2 DEF DigitsUpTo
  <2>2. CASE n < Base
    BY <2>1, <2>2 DEF DigitsStep
  <2>3. CASE n >= Base
    <3>1. Rest(n) \in Nat /\ Rest(n) <= n
      BY <2>3, RestIsLess
    <3>2. part(n)[Rest(n)] = part(Rest(n))[Rest(n)]
      BY <1>1, <3>1, DigitsAgree
    <3>3. g[Rest(n)] = part(n)[Rest(n)]
      BY <1>2, <3>1, <3>2
    <3>4. QED BY <2>1, <3>3 DEF DigitsStep
  <2>4. QED BY <2>2, <2>3, RestIsLess
<1> HIDE DEF g
<1>4. g = [n \in Nat |-> IF n < Base THEN <<n>> ELSE Append(g[Rest(n)], Low(n))]
  <2>1. g = [n \in Nat |-> g[n]]
    BY <1>2
  <2>2. \A n \in Nat : g[n] = IF n < Base THEN <<n>> ELSE Append(g[Rest(n)], Low(n))
    BY <1>3 DEF DigitsStep
  <2>3. QED BY <2>1, <2>2, Zenon
<1>5. Digits = [n \in Nat |-> IF n < Base THEN <<n>> ELSE Append(Digits[Rest(n)], Low(n))]
  BY <1>4, Zenon DEF Digits, Rest, Low
<1>6. \A n \in Nat : Digits[n] = DigitsStep(n, Digits)
  BY <1>5, Zenon DEF DigitsStep
<1>7. \A n \in Nat : n \in {k \in Nat : Digits[k] = g[k]}
  <2> DEFINE S == {k \in Nat : Digits[k] = g[k]}
  <2>1. ASSUME NEW k \in Nat, \A j \in 0..(k - 1) : j \in S PROVE k \in S
    <3>1. Digits[k] = DigitsStep(k, Digits) /\ g[k] = DigitsStep(k, g)
      BY <1>3, <1>6
    <3>2. k >= Base => Rest(k) \in 0..(k - 1)
      BY RestIsLess
    <3>3. CASE k < Base
      BY <3>1, <3>3 DEF DigitsStep
    <3>4. CASE k >= Base
      BY <3>1, <3>2, <3>4, <2>1 DEF DigitsStep
    <3>5. QED BY <3>3, <3>4, RestIsLess
  <2> HIDE DEF S
  <2>2. S \in SUBSET Nat
    BY DEF S
  <2>3. \A k \in Nat : k \in S
    BY <2>1, <2>2, StrongInduction
  <2>4. QED BY <2>3 DEF S
<1>8. Digits \in [Nat -> Seq(Digit)]
  <2>1. \A n \in Nat : Digits[n] \in Seq(Digit)
    BY <1>2, <1>7
  <2> DEFINE rhs(n) == IF n < Base THEN <<n>> ELSE Append(Digits[Rest(n)], Low(n))
  <2>2. Digits = [n \in Nat |-> rhs(n)]
    BY <1>5
  <2> HIDE DEF rhs
  <2>3. \A n \in Nat : rhs(n) \in Seq(Digit)
    BY <2>1, <2>2
  <2>4. QED BY <2>2, <2>3
<1>9. QED BY <1>6, <1>8

\* The units of an amount in canonical form.
CanonicalDigits(us) == us \in Seq(Digit) /\ Len(us) > 0 /\ NoLeadingZero(us)
\* The values of the prefixes of a string of digits.
Values(us, val) ==
  /\ val \in [0..Len(us) -> Nat] /\ val[0] = 0
  /\ \A k \in 1..Len(us) : val[k] = val[k - 1] * Base + us[k]

\* A digit after a number makes a number.
LEMMA DigitAppended ==
  \A v \in Nat, d \in Digit : v * Base + d \in Nat
BY LastDigit, Zenon

\* Every string of digits has its values.
LEMMA ValuesExist == \A us \in Seq(Digit) : \E val : Values(us, val)
<1> SUFFICES ASSUME NEW us \in Seq(Digit) PROVE \E val : Values(us, val)
  OBVIOUS
<1>1. Len(us) \in Nat /\ \A k \in 1..Len(us) : us[k] \in Digit
  OBVIOUS
<1>2. 0 \in Digit
  BY RestIsLess
<1> DEFINE digit == [k \in Nat |-> IF k \in 1..Len(us) THEN us[k] ELSE 0]
           step == [k \in Nat |-> [v \in Nat |-> v * Base + digit[k]]]
<1>3. digit \in [Nat -> Digit] /\ \A k \in 1..Len(us) : digit[k] = us[k]
  BY <1>1, <1>2
<1> HIDE DEF digit
<1>4. step \in [Nat -> [Nat -> Nat]]
  BY <1>3, DigitAppended
<1>5. \A k \in Nat, v \in Nat : step[k][v] = v * Base + digit[k]
  OBVIOUS
<1> HIDE DEF step
<1>6. PICK f : Computes(f, Len(us), Nat, 0, step)
  <2>1. 0 \in Nat
    OBVIOUS
  <2>2. QED BY <1>1, <1>4, <2>1, Computation, Zenon
<1>7. f \in [0..Len(us) -> Nat] /\ f[0] = 0
  BY <1>6 DEF Computes
<1>8. ASSUME NEW k \in 1..Len(us) PROVE f[k] = f[k - 1] * Base + us[k]
  <2>1. f[k - 1] \in Nat /\ k \in Nat
    BY <1>1, <1>7
  <2>2. f[k] = step[k][f[k - 1]]
    BY <1>6 DEF Computes
  <2>3. QED BY <1>3, <1>5, <2>1, <2>2
<1>9. QED BY <1>7, <1>8 DEF Values

\* Canonical units are the digits of their value.
LEMMA UnitsAreDigits ==
  ASSUME NEW us, CanonicalDigits(us), NEW val, Values(us, val)
  PROVE  val[Len(us)] \in Nat /\ Digits[val[Len(us)]] = us
<1> DEFINE n == Len(us)
           Right(k) == /\ Digits[val[k]] = SubSeq(us, 1, k)
                       /\ n > 1 => val[k] > 0
           S == {k \in Nat : k + 1 <= n => Right(k + 1)}
<1>1. us \in Seq(Digit) /\ n \in Nat /\ n > 0 /\ \A k \in 1..n : us[k] \in Digit
  BY DEF CanonicalDigits
<1>2. \A k \in 0..n : val[k] \in Nat
  BY <1>1 DEF Values
<1>3. Digit \subseteq Nat /\ Base \in Nat /\ Base > 1 /\ \A d \in Digit : d < Base
  BY MoneyAssumption DEF Digit
<1>4. 0 \in S
  <2>1. val[1] = val[0] * Base + us[1] /\ val[0] = 0
    BY <1>1 DEF Values
  <2>2. val[1] = us[1]
    <3>1. us[1] \in Digit
      BY <1>1
    <3>2. us[1] \in Nat
      BY <1>3, <3>1
    <3>3. 0 * Base = 0
      BY <1>3
    <3>4. QED BY <2>1, <3>2, <3>3
  <2>3. us[1] \in Nat /\ us[1] < Base
    <3>1. us[1] \in Digit
      BY <1>1
    <3>2. QED BY <1>3, <3>1
  <2>4. Digits[us[1]] = <<us[1]>>
    BY <2>3, DigitsDefined DEF DigitsStep
  <2>5. SubSeq(us, 1, 1) = <<us[1]>>
    <3>1. Len(SubSeq(us, 1, 1)) = 1 /\ SubSeq(us, 1, 1) \in Seq(Digit) /\ SubSeq(us, 1, 1)[1] = us[1]
      BY <1>1
    <3>2. \A s, t \in Seq(Digit) : Len(s) = 1 /\ Len(t) = 1 /\ s[1] = t[1] => s = t
      OBVIOUS
    <3>3. <<us[1]>> \in Seq(Digit) /\ Len(<<us[1]>>) = 1
      BY <1>1
    <3>4. QED BY <3>1, <3>2, <3>3
  <2>6. n > 1 => us[1] > 0
    BY <2>3 DEF CanonicalDigits, NoLeadingZero
  <2>7. QED BY <2>2, <2>4, <2>5, <2>6
<1>5. ASSUME NEW k \in S PROVE k + 1 \in S
  <2> SUFFICES ASSUME (k + 1) + 1 <= n PROVE Right((k + 1) + 1)
    OBVIOUS
  <2> DEFINE j == k + 1
  <2>1. j \in 1..n /\ j + 1 \in 1..n /\ n > 1 /\ j \in Nat
    BY <1>1
  <2>2. Right(j)
    BY <2>1, <1>1
  <2> HIDE DEF j
  <2>3. val[j] \in Nat /\ val[j] > 0 /\ us[j + 1] \in Digit
    BY <1>1, <1>2, <2>1, <2>2
  <2>4. val[j + 1] = val[j] * Base + us[j + 1]
    <3>1. (j + 1) - 1 = j
      BY <2>1
    <3>2. val[j + 1] = val[(j + 1) - 1] * Base + us[j + 1]
      BY <2>1 DEF Values
    <3>3. QED BY <3>1, <3>2
  <2>5. Rest(val[j + 1]) = val[j] /\ Low(val[j + 1]) = us[j + 1]
    <3>1. \A q \in Nat, d \in Digit : Rest(q * Base + d) = q /\ Low(q * Base + d) = d
      BY LastDigit, Zenon
    <3>2. QED BY <2>3, <2>4, <3>1, Zenon
  <2>6. val[j + 1] \in Nat /\ val[j + 1] >= Base
    <3>1. PICK x : x = val[j] * Base
      OBVIOUS
    <3>2. x \in Nat /\ x >= Base
      BY <2>3, <3>1, LastDigit, Zenon
    <3>3. us[j + 1] \in Nat
      BY <1>3, <2>3
    <3>4. val[j + 1] = x + us[j + 1]
      BY <2>4, <3>1
    <3>5. QED BY <1>3, <3>2, <3>3, <3>4
  <2>7. Digits[val[j + 1]] = Append(SubSeq(us, 1, j), us[j + 1])
    <3>1. ~ (val[j + 1] < Base)
      BY <1>3, <2>6
    <3>2. QED BY <2>2, <2>5, <2>6, <3>1, DigitsDefined DEF DigitsStep
  <2>8. Append(SubSeq(us, 1, j), us[j + 1]) = SubSeq(us, 1, j + 1)
    BY <1>1, <2>1
  <2>9. val[j + 1] > 0
    BY <1>3, <2>6
  <2>10. QED BY <2>7, <2>8, <2>9 DEF j
<1>6. \A k \in Nat : k \in S
  <2> HIDE DEF S
  <2>1. S \in SUBSET Nat
    BY DEF S
  <2>2. QED BY <1>4, <1>5, <2>1, Induction
<1>7. Right(n)
  <2>1. n - 1 \in Nat /\ (n - 1) + 1 = n
    BY <1>1
  <2>2. n - 1 \in S
    BY <1>6, <2>1
  <2>3. QED BY <2>1, <2>2, <1>1
<1>8. SubSeq(us, 1, n) = us
  BY <1>1
<1>9. QED BY <1>1, <1>2, <1>7, <1>8

\* The digits of a number are canonical units of that value.
LEMMA DigitsAreCanonical ==
  \A n \in Nat :
    /\ CanonicalDigits(Digits[n])
    /\ n > 0 => Digits[n][1] # 0
    /\ \E val : Values(Digits[n], val) /\ val[Len(Digits[n])] = n
<1> DEFINE Right(n) == /\ CanonicalDigits(Digits[n])
                       /\ n > 0 => Digits[n][1] # 0
                       /\ \E val : Values(Digits[n], val) /\ val[Len(Digits[n])] = n
           S == {n \in Nat : Right(n)}
<1>1. ASSUME NEW n \in Nat, \A k \in 0..(n - 1) : k \in S PROVE n \in S
  <2>1. Digits[n] = DigitsStep(n, Digits)
    BY DigitsDefined
  <2>2. CASE n < Base
    <3>1. Digits[n] = <<n>> /\ n \in Digit
      BY <2>1, <2>2, RestIsLess DEF DigitsStep
    <3>2. CanonicalDigits(<<n>>)
      BY <3>1 DEF CanonicalDigits, NoLeadingZero
    <3> DEFINE val == [k \in 0..1 |-> IF k = 0 THEN 0 ELSE n]
    <3>3. Len(<<n>>) = 1 /\ <<n>>[1] = n
      OBVIOUS
    <3>4. val \in [0..1 -> Nat] /\ val[0] = 0 /\ val[1] = n /\ \A k \in 1..1 : k = 1
      OBVIOUS
    <3>5. n = 0 * Base + n /\ 1 - 1 = 0
      BY RestIsLess
    <3> HIDE DEF val
    <3>6. Values(<<n>>, val)
      BY <3>3, <3>4, <3>5 DEF Values
    <3>7. QED BY <3>1, <3>2, <3>3, <3>4, <3>6
  <2>3. CASE n >= Base
    <3> DEFINE us == Digits[Rest(n)]
               m == Len(us)
               more == Digits[n]
    <3>1. Rest(n) \in Nat /\ Rest(n) \in 0..(n - 1) /\ Rest(n) > 0 /\ Low(n) \in Digit
      BY <2>3, RestIsLess
    <3>2. Right(Rest(n))
      BY <1>1, <3>1
    <3>3. PICK val : Values(us, val) /\ val[m] = Rest(n)
      BY <3>2
    <3>4. us \in Seq(Digit) /\ m \in Nat /\ m > 0 /\ us[1] # 0
      BY <3>1, <3>2 DEF CanonicalDigits
    <3>5. more = Append(us, Low(n))
      <4>1. ~ (n < Base)
        BY <2>3, RestIsLess
      <4>2. QED BY <2>1, <4>1 DEF DigitsStep
    <3> HIDE DEF us
    <3>6. /\ more \in Seq(Digit) /\ Len(more) = m + 1 /\ more[m + 1] = Low(n)
          /\ \A k \in 1..m : more[k] = us[k]
      BY <3>1, <3>4, <3>5
    <3> HIDE DEF m, more
    <3>7. CanonicalDigits(more) /\ more[1] # 0
      BY <3>4, <3>6 DEF CanonicalDigits, NoLeadingZero
    <3> DEFINE grown == [k \in 0..(m + 1) |-> IF k = m + 1 THEN n ELSE val[k]]
    <3>8. val \in [0..m -> Nat] /\ val[0] = 0
      BY <3>3 DEF Values, m
    <3>9. grown \in [0..(m + 1) -> Nat] /\ grown[0] = 0 /\ grown[m + 1] = n
          /\ \A k \in 0..m : grown[k] = val[k]
      BY <3>4, <3>8
    <3> HIDE DEF grown
    <3>10. ASSUME NEW k \in 1..(m + 1) PROVE grown[k] = grown[k - 1] * Base + more[k]
      <4>1. k - 1 \in 0..m /\ grown[k - 1] = val[k - 1]
        BY <3>4, <3>9
      <4>2. CASE k = m + 1
        <5>1. grown[k] = n /\ grown[k - 1] = Rest(n) /\ more[k] = Low(n)
          BY <3>3, <3>4, <3>6, <3>9, <4>1, <4>2
        <5>2. QED BY <5>1, LastDigit, Zenon
      <4>3. CASE k \in 1..m
        <5>1. val[k] = val[k - 1] * Base + us[k]
          BY <3>3, <4>3 DEF Values, m
        <5>2. grown[k] = val[k] /\ more[k] = us[k]
          BY <3>4, <3>6, <3>9, <4>3
        <5>3. QED BY <4>1, <5>1, <5>2, Zenon
      <4>4. QED BY <3>4, <4>2, <4>3
    <3>11. Values(more, grown) /\ grown[Len(more)] = n
      BY <3>6, <3>9, <3>10 DEF Values
    <3>12. QED BY <3>7, <3>11 DEF more
  <2>4. QED BY <2>2, <2>3, RestIsLess
<1> HIDE DEF S
<1>2. S \in SUBSET Nat
  BY DEF S
<1>3. \A n \in Nat : n \in S
  BY <1>1, <1>2, StrongInduction
<1>4. QED BY <1>3 DEF S

\* The amount of a number, or the error when no word holds it.
Within(v) == IF v <= MaxInt THEN Amount(v) ELSE Overflow

\* One step of the parser: a product and a sum, unless an error came before.
ParserStep(result, b, d) ==
  Then(Then(result, LAMBDA m : Multiply(m, b)), LAMBDA m : Add(m, d))

\* A step of the parser is exact, and an overflow stays one.
LEMMA ParserStepIs ==
  ASSUME NEW v \in Nat, NEW b \in Nat \ {0}, NEW d \in 0..MaxInt
  PROVE  ParserStep(Within(v), b, d) = Within(v * b + d)
<1>1. PICK x : x = v * b
  OBVIOUS
<1>2. x \in Nat /\ x >= v
  BY <1>1, Z3
<1>3. MaxInt \in Nat /\ MinInt = -MaxInt - 1 /\ Words = MinInt..MaxInt /\ d \in Nat
  BY MoneyAssumption DEF MinInt, Words
<1>4. CASE v <= MaxInt
  <2>1. v \in Words /\ d \in Words
    BY <1>3, <1>4
  <2>2. Exact(Multiply(v, b), x)
    BY <1>1, <2>1, MultiplyIsExact
  <2>3. Within(v) = Amount(v) /\ Amount(v).error = "none" /\ Amount(v).minor = v
    BY <1>4 DEF Within, Amount
  <2>4. ParserStep(Within(v), b, d) = Then(Multiply(v, b), LAMBDA m : Add(m, d))
    BY <2>3 DEF ParserStep, Then
  <2>5. CASE x <= MaxInt
    <3>1. x \in Words
      BY <1>2, <1>3, <2>5
    <3>2. Multiply(v, b) = Amount(x)
      BY <2>2, <3>1 DEF Exact
    <3>3. ParserStep(Within(v), b, d) = Add(x, d)
      BY <2>4, <3>2 DEF Then, Amount
    <3>4. Exact(Add(x, d), x + d)
      BY <2>1, <3>1, AddIsExact
    <3>5. x + d \in Words <=> x + d <= MaxInt
      BY <1>2, <1>3
    <3>6. QED BY <1>1, <3>3, <3>4, <3>5 DEF Exact, Within
  <2>6. CASE x > MaxInt
    <3>1. x \notin Words /\ ~ (x + d <= MaxInt)
      BY <1>2, <1>3, <2>6
    <3>2. Multiply(v, b) = Overflow
      BY <2>2, <3>1 DEF Exact
    <3>3. ParserStep(Within(v), b, d) = Overflow
      BY <2>4, <3>2 DEF Then, Overflow
    <3>4. QED BY <1>1, <3>1, <3>3 DEF Within
  <2>7. QED BY <1>2, <1>3, <2>5, <2>6
<1>5. CASE ~ (v <= MaxInt)
  <2>1. Within(v) = Overflow
    BY <1>5 DEF Within
  <2>2. ParserStep(Overflow, b, d) = Overflow
    BY DEF ParserStep, Then, Overflow
  <2>3. ~ (x + d <= MaxInt)
    BY <1>2, <1>3, <1>5
  <2>4. QED BY <1>1, <2>1, <2>2, <2>3 DEF Within
<1>6. QED BY <1>4, <1>5

\* Digits are amounts, and so are two decimals.
LEMMA DecimalsFit ==
  /\ \A d \in Digit : d \in 0..MaxInt
  /\ \A d1, d2 \in Digit : d1 * Base + d2 \in 0..MaxInt /\ d1 * Base + d2 < MinorPerUnit
  /\ Base \in Nat \ {0} /\ MinorPerUnit \in Nat /\ MinorPerUnit > 1 /\ MinorPerUnit >= Base
<1>1. Base \in Nat /\ Base > 1 /\ MaxInt \in Nat /\ MaxInt >= MinorPerUnit
  BY MoneyAssumption DEF MinorPerUnit
<1>2. \A b \in Nat : b > 1 => b * b \in Nat /\ b * b > 1 /\ b * b >= b
  BY Z3
<1>3. MinorPerUnit \in Nat /\ MinorPerUnit > 1 /\ MinorPerUnit >= Base
  BY <1>1, <1>2, Zenon DEF MinorPerUnit
<1>4. \A b \in Nat, d1, d2 \in Nat : d1 < b /\ d2 < b => d1 * b + d2 < b * b /\ d1 * b + d2 \in Nat
  BY Z3
<1>5. \A d \in Digit : d \in Nat /\ d < Base
  BY <1>1 DEF Digit
<1>6. \A d1, d2 \in Digit : d1 * Base + d2 \in Nat /\ d1 * Base + d2 < MinorPerUnit
  BY <1>1, <1>4, <1>5, Zenon DEF MinorPerUnit
<1>7. ASSUME NEW d1 \in Digit, NEW d2 \in Digit PROVE d1 * Base + d2 \in 0..MaxInt
  <2>1. PICK x \in Nat : x = d1 * Base + d2 /\ x < MinorPerUnit
    BY <1>6
  <2>2. x \in 0..MaxInt
    BY <1>1, <1>3, <2>1
  <2>3. QED BY <2>1, <2>2
<1>8. \A d \in Digit : d \in 0..MaxInt
  BY <1>1, <1>3, <1>5
<1>9. QED BY <1>1, <1>3, <1>6, <1>7, <1>8

\* The parser computes the value of the digits, or finds that no word holds it.
LEMMA DigitsToMinorUnitsIs ==
  ASSUME NEW us \in Seq(Digit), NEW val, Values(us, val), NEW d1 \in Digit, NEW d2 \in Digit
  PROVE  DigitsToMinorUnits(us, <<d1, d2>>) = Within(val[Len(us)] * MinorPerUnit + (d1 * Base + d2))
<1> DEFINE n == Len(us)
           Prefix[k \in 0..Len(us)] ==
             IF k = 0 THEN Amount(0)
             ELSE Then(Then(Prefix[k - 1], LAMBDA m : Multiply(m, Base)),
                       LAMBDA m : Add(m, us[k]))
           g == [k \in 0..n |-> Within(val[k])]
<1>1. n \in Nat /\ \A k \in 1..n : us[k] \in Digit
  OBVIOUS
<1>2. val \in [0..n -> Nat] /\ val[0] = 0 /\ \A k \in 1..n : val[k] = val[k - 1] * Base + us[k]
  BY DEF Values
<1>3. DigitsToMinorUnits(us, <<d1, d2>>) = ParserStep(Prefix[n], MinorPerUnit, d1 * Base + d2)
  BY DEF DigitsToMinorUnits, ParserStep
<1>4. g[0] = Amount(0) /\ \A k \in 0..n : g[k] = Within(val[k])
  BY <1>1, <1>2, MoneyAssumption DEF Within
<1> HIDE DEF g
<1>5. ASSUME NEW k \in 1..n PROVE g[k] = ParserStep(g[k - 1], Base, us[k])
  <2>1. k - 1 \in 0..n /\ val[k - 1] \in Nat /\ k \in 0..n
    BY <1>1, <1>2
  <2>2. us[k] \in 0..MaxInt /\ Base \in Nat \ {0}
    BY <1>1, DecimalsFit
  <2>3. ParserStep(Within(val[k - 1]), Base, us[k]) = Within(val[k - 1] * Base + us[k])
    BY <2>1, <2>2, ParserStepIs
  <2>4. QED BY <1>2, <1>4, <2>1, <2>3, Zenon
<1>6. g = [k \in 0..n |-> IF k = 0 THEN Amount(0) ELSE ParserStep(g[k - 1], Base, us[k])]
  <2>1. g = [k \in 0..n |-> g[k]]
    BY DEF g
  <2>2. \A k \in 0..n : g[k] = IF k = 0 THEN Amount(0) ELSE ParserStep(g[k - 1], Base, us[k])
    <3>1. \A k \in 0..n : k = 0 \/ k \in 1..n
      BY <1>1
    <3>2. \A k \in 1..n : k # 0
      BY <1>1
    <3>3. QED BY <1>4, <1>5, <3>1, <3>2, Zenon
  <2>3. QED BY <2>1, <2>2, Zenon
<1>7. Prefix = [k \in 0..n |-> IF k = 0 THEN Amount(0) ELSE ParserStep(Prefix[k - 1], Base, us[k])]
  BY <1>6, Zenon DEF Prefix, ParserStep
<1> HIDE DEF Prefix
<1>8. \A k \in Nat : k \in {j \in Nat : j <= n => Prefix[j] = g[j]}
  <2> DEFINE S == {j \in Nat : j <= n => Prefix[j] = g[j]}
  <2>1. 0 \in S
    BY <1>1, <1>4, <1>7
  <2>2. ASSUME NEW j \in S PROVE j + 1 \in S
    <3> SUFFICES ASSUME j + 1 <= n PROVE Prefix[j + 1] = g[j + 1]
      OBVIOUS
    <3>1. j + 1 \in 0..n /\ j + 1 \in 1..n /\ j + 1 # 0 /\ (j + 1) - 1 = j /\ j <= n
      BY <1>1
    <3>2. Prefix[j + 1] = ParserStep(Prefix[(j + 1) - 1], Base, us[j + 1])
      BY <1>7, <3>1, Zenon
    <3>3. g[j + 1] = ParserStep(g[(j + 1) - 1], Base, us[j + 1])
      BY <1>5, <3>1, Zenon
    <3>4. Prefix[j] = g[j]
      BY <3>1
    <3>5. QED BY <3>1, <3>2, <3>3, <3>4, Zenon
  <2> HIDE DEF S
  <2>3. S \in SUBSET Nat
    BY DEF S
  <2>4. \A j \in Nat : j \in S
    BY <2>1, <2>2, <2>3, Induction
  <2>5. QED BY <2>4 DEF S
<1>9. Prefix[n] = Within(val[n]) /\ val[n] \in Nat
  BY <1>1, <1>2, <1>4, <1>8
<1>10. d1 * Base + d2 \in 0..MaxInt /\ MinorPerUnit \in Nat \ {0}
  <2>1. MinorPerUnit \in Nat /\ MinorPerUnit > 1
    BY DecimalsFit
  <2>2. MinorPerUnit # 0
    BY <2>1
  <2>3. QED BY <2>1, <2>2, DecimalsFit, Zenon
<1>11. QED BY <1>3, <1>9, <1>10, ParserStepIs, Zenon

\* The characters of a text.
Chars == Digit \cup {Minus, Dot, Other}

\* What String writes of an amount that is not negative: its units, the point
\* and its two decimals.
Body(us, d1, d2) == us \o <<Dot, d1, d2>>
BodyOf(n) ==
  Body(Digits[n \div MinorPerUnit], Rest(n % MinorPerUnit), Low(n % MinorPerUnit))

\* The characters of such a text.
LEMMA BodyChars ==
  ASSUME NEW us \in Seq(Digit), NEW d1 \in Digit, NEW d2 \in Digit
  PROVE  LET body == Body(us, d1, d2) IN
         /\ body \in Seq(Chars) /\ Len(body) = Len(us) + 3
         /\ \A k \in 1..Len(us) : body[k] = us[k]
         /\ body[Len(us) + 1] = Dot /\ body[Len(us) + 2] = d1 /\ body[Len(us) + 3] = d2
<1>1. us \in Seq(Chars) /\ <<Dot, d1, d2>> \in Seq(Chars) /\ Len(us) \in Nat
  <2>1. \A k \in 1..Len(us) : us[k] \in Digit
    OBVIOUS
  <2>2. Dot \in Chars /\ d1 \in Chars /\ d2 \in Chars
    BY DEF Chars
  <2>3. QED BY <2>1, <2>2 DEF Chars
<1>2. us \o <<Dot, d1, d2>> \in Seq(Chars)
  BY <1>1
<1>3. Len(us \o <<Dot, d1, d2>>) = Len(us) + 3
  BY <1>1
<1>4. \A k \in 1..(Len(us) + 3) :
        (us \o <<Dot, d1, d2>>)[k] = IF k <= Len(us) THEN us[k] ELSE <<Dot, d1, d2>>[k - Len(us)]
  BY <1>1
<1>5. QED BY <1>1, <1>2, <1>3, <1>4 DEF Body

\* Two texts with the same characters are the same.
LEMMA SameText ==
  ASSUME NEW T, NEW s \in Seq(T), NEW t \in Seq(T), Len(s) = Len(t),
         \A k \in 1..Len(s) : s[k] = t[k]
  PROVE  s = t
OBVIOUS

\* Joining texts does not depend on where one starts.
LEMMA ConcatAssociative ==
  ASSUME NEW T, NEW s \in Seq(T), NEW t \in Seq(T), NEW u \in Seq(T)
  PROVE  (s \o t) \o u = s \o (t \o u)
<1>1. s \o t \in Seq(T) /\ t \o u \in Seq(T) /\ Len(s) \in Nat /\ Len(t) \in Nat /\ Len(u) \in Nat
  OBVIOUS
<1>2. Len((s \o t) \o u) = Len(s \o (t \o u)) /\ Len((s \o t) \o u) = Len(s) + Len(t) + Len(u)
  BY <1>1
<1>3. \A k \in 1..(Len(s) + Len(t) + Len(u)) : ((s \o t) \o u)[k] = (s \o (t \o u))[k]
  BY <1>1
<1>4. (s \o t) \o u \in Seq(T) /\ s \o (t \o u) \in Seq(T)
  BY <1>1
<1>5. QED BY <1>2, <1>3, <1>4, SameText

\* Short texts written apart.
LEMMA Pairs ==
  ASSUME NEW T, NEW a \in T, NEW b \in T
  PROVE  /\ <<a, b>> \in Seq(T) /\ <<a>> \o <<b>> = <<a, b>> /\ Append(<<a>>, b) = <<a, b>>
<1>1. <<a>> \in Seq(T) /\ <<b>> \in Seq(T) /\ <<a, b>> \in Seq(T)
  OBVIOUS
<1>2. <<a>> \o <<b>> = <<a, b>>
  <2>1. Len(<<a>> \o <<b>>) = 2 /\ <<a>> \o <<b>> \in Seq(T) /\ Len(<<a, b>>) = 2
    BY <1>1
  <2>2. \A k \in 1..2 : (<<a>> \o <<b>>)[k] = <<a, b>>[k]
    BY <1>1
  <2>3. QED BY <1>1, <2>1, <2>2, SameText
<1>3. Append(<<a>>, b) = <<a, b>>
  <2>1. Len(Append(<<a>>, b)) = 2 /\ Append(<<a>>, b) \in Seq(T) /\ Len(<<a, b>>) = 2
    BY <1>1
  <2>2. \A k \in 1..2 : Append(<<a>>, b)[k] = <<a, b>>[k]
    BY <1>1
  <2>3. QED BY <1>1, <2>1, <2>2, SameText
<1>5. QED BY <1>1, <1>2, <1>3

\* A pair after a character.
LEMMA Triples ==
  ASSUME NEW T, NEW a \in T, NEW b \in T, NEW c \in T
  PROVE  <<a, b>> \in Seq(T) /\ <<c>> \o <<a, b>> = <<c, a, b>>
<1>1. <<c>> \in Seq(T) /\ <<a, b>> \in Seq(T) /\ <<c, a, b>> \in Seq(T)
  OBVIOUS
<1>2. Len(<<c>> \o <<a, b>>) = 3 /\ <<c>> \o <<a, b>> \in Seq(T) /\ Len(<<c, a, b>>) = 3
  BY <1>1
<1>3. \A k \in 1..3 : (<<c>> \o <<a, b>>)[k] = <<c, a, b>>[k]
  BY <1>1
<1>4. QED BY <1>1, <1>2, <1>3, SameText

\* No digit is a minus or a point.
LEMMA DigitsAreDigits ==
  /\ Minus \notin Digit /\ Dot \notin Digit /\ Minus # Dot
  /\ Digit \subseteq Nat /\ \A d \in Digit : d < Base
BY MoneyAssumption DEF Digit, Minus, Dot

\* The two decimals of an amount, written apart.
LEMMA TwoDecimals ==
  ASSUME NEW r \in Nat, r < MinorPerUnit
  PROVE  /\ Rest(r) \in Digit /\ Low(r) \in Digit /\ r = Rest(r) * Base + Low(r)
         /\ (IF r < Base THEN <<0>> ELSE <<>>) \o Digits[r] = <<Rest(r), Low(r)>>
<1>1. Base \in Nat /\ Base > 1
  BY RestIsLess
<1>2. Rest(r) \in Nat /\ Low(r) \in Digit /\ r = Rest(r) * Base + Low(r)
  BY LastDigit, Zenon
<1>3. Rest(r) < Base
  <2>1. PICK q \in Nat : q = Rest(r)
    BY <1>2
  <2>2. PICK b \in Nat : b = Base /\ b > 1
    BY <1>1
  <2>3. PICK d \in Nat : d = Low(r)
    BY <1>2, DigitsAreDigits
  <2>4. r = q * b + d /\ r < b * b
    BY <1>2, <2>1, <2>2, <2>3, Zenon DEF MinorPerUnit
  <2>5. \A x, y, z, w \in Nat : w = x * y + z /\ w < y * y => x < y
    BY Z3
  <2>6. q < b
    BY <2>4, <2>5
  <2>7. QED BY <2>1, <2>2, <2>6
<1>4. Rest(r) \in Digit
  BY <1>2, <1>3, RestIsLess
<1>5. Digits[r] = DigitsStep(r, Digits)
  BY DigitsDefined
<1>6. CASE r < Base
  <2>1. Digits[r] = <<r>> /\ r \in Digit
    BY <1>5, <1>6, RestIsLess DEF DigitsStep
  <2>2. Rest(r) = 0 /\ Low(r) = r
    <3>1. \A q \in Nat, d \in Digit : Rest(q * Base + d) = q /\ Low(q * Base + d) = d
      BY LastDigit, Zenon
    <3>2. 0 * Base + r = r
      BY <1>1
    <3>3. QED BY <2>1, <3>1, <3>2
  <2>3. <<0>> \o <<r>> = <<0, r>>
    <3>1. 0 \in Digit
      BY RestIsLess
    <3>2. QED BY <2>1, <3>1, Pairs
  <2>4. QED BY <1>2, <1>4, <1>6, <2>1, <2>2, <2>3
<1>7. CASE ~ (r < Base)
  <2>1. Digits[r] = Append(Digits[Rest(r)], Low(r))
    BY <1>5, <1>7 DEF DigitsStep
  <2>2. Digits[Rest(r)] = <<Rest(r)>>
    BY <1>2, <1>3, DigitsDefined DEF DigitsStep
  <2>3. Append(<<Rest(r)>>, Low(r)) = <<Rest(r), Low(r)>>
    <3>1. Rest(r) \in Digit /\ Low(r) \in Digit
      BY <1>2, <1>4
    <3>2. QED BY <3>1, Pairs, Zenon
  <2>4. <<>> \o Digits[r] = Digits[r]
    <3>1. Digits[r] \in Seq(Digit)
      BY DigitsDefined
    <3>2. QED BY <3>1
  <2>5. QED BY <1>2, <1>4, <1>7, <2>1, <2>2, <2>3, <2>4
<1>8. QED BY <1>6, <1>7

\* The parts of a number of minor units.
LEMMA Parts ==
  ASSUME NEW n \in Nat
  PROVE  LET q == n \div MinorPerUnit
             r == n % MinorPerUnit IN
         /\ q \in Nat /\ r \in Nat /\ r < MinorPerUnit
         /\ n = q * MinorPerUnit + (Rest(r) * Base + Low(r))
         /\ n - q * MinorPerUnit = r
         /\ CanonicalDigits(Digits[q]) /\ Rest(r) \in Digit /\ Low(r) \in Digit
<1> DEFINE q == n \div MinorPerUnit
           r == n % MinorPerUnit
<1>1. MinorPerUnit \in Nat /\ MinorPerUnit > 1
  BY DecimalsFit
<1>2. q \in Nat /\ r \in 0..(MinorPerUnit - 1) /\ n = q * MinorPerUnit + r
  BY <1>1, Division, Zenon
<1> HIDE DEF q, r
<1>3. r \in Nat /\ r < MinorPerUnit
  BY <1>1, <1>2
<1>4. Rest(r) \in Digit /\ Low(r) \in Digit /\ r = Rest(r) * Base + Low(r)
  BY <1>3, TwoDecimals
<1>5. CanonicalDigits(Digits[q])
  BY <1>2, DigitsAreCanonical
<1>6. n - q * MinorPerUnit = r
  <2>1. q * MinorPerUnit \in Nat
    BY <1>1, <1>2, Division, Zenon
  <2>2. PICK x \in Nat : x = q * MinorPerUnit
    BY <2>1
  <2>3. n = x + r
    BY <1>2, <2>2
  <2>4. QED BY <1>3, <2>2, <2>3
<1>7. QED BY <1>2, <1>3, <1>4, <1>5, <1>6, Zenon DEF q, r

\* What String writes: the text of the magnitude, after a minus when there is
\* one.
LEMMA FormatIs ==
  ASSUME NEW n \in Nat
  PROVE  /\ Format(n) = BodyOf(n)
         /\ n > 0 => Format(-n) = <<Minus>> \o BodyOf(n)
<1> DEFINE q == n \div MinorPerUnit
           r == n % MinorPerUnit
<1>1. /\ q \in Nat /\ r \in Nat /\ r < MinorPerUnit /\ n - q * MinorPerUnit = r
      /\ Digits[q] \in Seq(Digit) /\ Rest(r) \in Digit /\ Low(r) \in Digit
  BY Parts DEF CanonicalDigits
<1>2. (IF r < Base THEN <<0>> ELSE <<>>) \o Digits[r] = <<Rest(r), Low(r)>>
  BY <1>1, TwoDecimals
<1>3. MinorPerUnit \in Nat
  BY DecimalsFit
<1>4. q * MinorPerUnit \in Nat
  <2>1. MinorPerUnit > 1
    BY DecimalsFit
  <2>2. QED BY <1>1, <1>3, <2>1, Division, Zenon
<1> HIDE DEF q, r
<1> DEFINE pad == IF r < Base THEN <<0>> ELSE <<>>
<1>5. ASSUME NEW sign \in Seq(Chars)
      PROVE  sign \o Digits[q] \o <<Dot>> \o pad \o Digits[r] = sign \o BodyOf(n)
  <2>1. pad \in Seq(Chars) /\ Digits[q] \in Seq(Chars) /\ Digits[r] \in Seq(Chars) /\ <<Dot>> \in Seq(Chars)
    <3>1. 0 \in Chars /\ Dot \in Chars /\ Digit \subseteq Chars
      BY RestIsLess DEF Chars
    <3>2. Digits[r] \in Seq(Digit)
      BY <1>1, DigitsDefined
    <3>3. \A t \in Seq(Digit) : t \in Seq(Chars)
      BY <3>1
    <3>4. <<0>> \in Seq(Chars) /\ <<>> \in Seq(Chars) /\ <<Dot>> \in Seq(Chars)
      BY <3>1
    <3>5. QED BY <1>1, <3>2, <3>3, <3>4
  <2>2. \A s, t \in Seq(Chars) : s \o t \in Seq(Chars)
    OBVIOUS
  <2>3. \A s, t, u \in Seq(Chars) : (s \o t) \o u = s \o (t \o u)
    <3> SUFFICES ASSUME NEW s \in Seq(Chars), NEW t \in Seq(Chars), NEW u \in Seq(Chars)
                 PROVE  (s \o t) \o u = s \o (t \o u)
      OBVIOUS
    <3>1. QED BY ConcatAssociative
  <2> DEFINE s == sign \o Digits[q]
  <2>4. s \in Seq(Chars) /\ s \o <<Dot>> \in Seq(Chars)
    BY <2>1, <2>2
  <2> HIDE DEF s, pad
  <2>5. s \o <<Dot>> \o pad \o Digits[r] = (s \o <<Dot>>) \o (pad \o Digits[r])
    <3>1. PICK a \in Seq(Chars) : a = s \o <<Dot>>
      BY <2>4
    <3>2. a \o pad \o Digits[r] = a \o (pad \o Digits[r])
      BY <2>1, <2>3, Zenon
    <3>3. QED BY <3>1, <3>2, Zenon
  <2>6. pad \o Digits[r] = <<Rest(r), Low(r)>>
    BY <1>2 DEF pad
  <2>7. <<Rest(r), Low(r)>> \in Seq(Chars) /\ <<Dot>> \o <<Rest(r), Low(r)>> = <<Dot, Rest(r), Low(r)>>
    <3>1. Rest(r) \in Chars /\ Low(r) \in Chars /\ Dot \in Chars
      BY <1>1 DEF Chars
    <3>2. QED BY <3>1, Triples
  <2>8. (s \o <<Dot>>) \o <<Rest(r), Low(r)>> = s \o <<Dot, Rest(r), Low(r)>>
    <3>1. PICK a \in Seq(Chars), b \in Seq(Chars) : a = <<Dot>> /\ b = <<Rest(r), Low(r)>>
      BY <2>1, <2>7
    <3>2. PICK t \in Seq(Chars) : t = s
      BY <2>4
    <3>3. (t \o a) \o b = t \o (a \o b)
      BY ConcatAssociative
    <3>4. QED BY <2>7, <3>1, <3>2, <3>3, Zenon
  <2>9. <<Dot, Rest(r), Low(r)>> \in Seq(Chars)
    BY <2>1, <2>2, <2>7
  <2>10. s \o <<Dot, Rest(r), Low(r)>> = sign \o (Digits[q] \o <<Dot, Rest(r), Low(r)>>)
    <3>1. PICK a \in Seq(Chars), b \in Seq(Chars) : a = Digits[q] /\ b = <<Dot, Rest(r), Low(r)>>
      BY <2>1, <2>9
    <3>2. (sign \o a) \o b = sign \o (a \o b)
      BY ConcatAssociative
    <3>3. QED BY <3>1, <3>2, Zenon DEF s
  <2>11. BodyOf(n) = Digits[q] \o <<Dot, Rest(r), Low(r)>>
    BY DEF BodyOf, Body, q, r
  <2>12. QED BY <2>5, <2>6, <2>8, <2>10, <2>11, Zenon DEF s
<1> HIDE DEF pad
<1>6. Format(n) = BodyOf(n)
  <2>1. Quotient(n, MinorPerUnit) = q /\ ~ (n < 0)
    BY DEF Quotient, q
  <2>2. 1 * q = q /\ 1 * r = r
    BY <1>1
  <2>3. Format(n) = <<>> \o Digits[1 * q] \o <<Dot>> \o (IF 1 * r < Base THEN <<0>> ELSE <<>>) \o Digits[1 * r]
    BY <1>1, <2>1 DEF Format
  <2>4. <<>> \in Seq(Chars)
    OBVIOUS
  <2>5. Format(n) = <<>> \o BodyOf(n)
    BY <1>5, <2>2, <2>3, <2>4 DEF pad
  <2>6. BodyOf(n) \in Seq(Chars)
    BY <1>1, BodyChars DEF BodyOf, q, r
  <2>7. QED BY <2>5, <2>6
<1>7. ASSUME n > 0 PROVE Format(-n) = <<Minus>> \o BodyOf(n)
  <2>1. -n < 0 /\ -(-n) = n
    BY <1>7
  <2>2. Quotient(-n, MinorPerUnit) = -q
    BY <2>1 DEF Quotient, q
  <2>3. (-1) * (-q) = q /\ (-q) * MinorPerUnit = -(q * MinorPerUnit)
    BY <1>1, <1>3, Z3
  <2>4. (-1) * (-n - (-q) * MinorPerUnit) = r
    <3>1. PICK x \in Nat : x = q * MinorPerUnit
      BY <1>4
    <3>2. n - x = r
      BY <1>1, <3>1
    <3>3. (-1) * (-n - (-x)) = r
      BY <1>1, <3>2
    <3>4. QED BY <2>3, <3>1, <3>3
  <2>5. Format(-n) = <<Minus>> \o Digits[q] \o <<Dot>> \o pad \o Digits[r]
    BY <2>1, <2>2, <2>3, <2>4, Zenon DEF Format, pad
  <2>6. <<Minus>> \in Seq(Chars)
    BY DEF Chars
  <2>7. QED BY <1>5, <2>5, <2>6
<1>8. QED BY <1>6, <1>7

\* A set of naturals has a least one.
LEMMA Least ==
  ASSUME NEW S \in SUBSET Nat, S # {}
  PROVE  \E m \in S : \A j \in S : m <= j
<1> SUFFICES ASSUME ~ \E m \in S : \A j \in S : m <= j PROVE FALSE
  OBVIOUS
<1>1. \A n \in Nat : n \in Nat \ S
  <2>1. ASSUME NEW n \in Nat, \A k \in 0..(n - 1) : k \in Nat \ S PROVE n \in Nat \ S
    BY <2>1
  <2>2. QED BY <2>1, StrongInduction
<1>2. QED BY <1>1

\* A text with units, a point and two decimals is parsed to what they say.
LEMMA ParseBodyIs ==
  ASSUME NEW us, CanonicalDigits(us), NEW val, Values(us, val), NEW d1 \in Digit, NEW d2 \in Digit
  PROVE  ParseBody(Body(us, d1, d2)) = Within(val[Len(us)] * MinorPerUnit + (d1 * Base + d2))
<1> DEFINE body == Body(us, d1, d2)
           n == Len(us)
           dots == {k \in DOMAIN body : body[k] = Dot}
           at == CHOOSE k \in dots : \A j \in dots : k <= j
<1>1. us \in Seq(Digit) /\ n \in Nat /\ n > 0 /\ NoLeadingZero(us) /\ \A k \in 1..n : us[k] \in Digit
  BY DEF CanonicalDigits
<1>2. /\ body \in Seq(Chars) /\ Len(body) = n + 3 /\ \A k \in 1..n : body[k] = us[k]
      /\ body[n + 1] = Dot /\ body[n + 2] = d1 /\ body[n + 3] = d2
  BY <1>1, BodyChars
<1> HIDE DEF body, n
<1>3. dots = {n + 1}
  <2>1. DOMAIN body = 1..(n + 3)
    BY <1>1, <1>2
  <2>2. \A k \in 1..(n + 3) : k \in 1..n \/ k = n + 1 \/ k = n + 2 \/ k = n + 3
    BY <1>1
  <2>3. n + 1 \in 1..(n + 3)
    BY <1>1
  <2>4. \A k \in 1..n : body[k] # Dot
    BY <1>1, <1>2, DigitsAreDigits
  <2>5. body[n + 2] # Dot /\ body[n + 3] # Dot
    BY <1>2, DigitsAreDigits
  <2>6. QED BY <1>2, <2>1, <2>2, <2>3, <2>4, <2>5
<1>4. at = n + 1
  <2>1. n + 1 <= n + 1
    BY <1>1
  <2>2. QED BY <1>3, <2>1
<1> HIDE DEF at, dots
<1>5. SubSeq(body, 1, at - 1) = us
  <2>1. at - 1 = n
    BY <1>1, <1>4
  <2>2. SubSeq(body, 1, n) \in Seq(Chars) /\ Len(SubSeq(body, 1, n)) = n
    BY <1>1, <1>2
  <2>3. \A k \in 1..n : SubSeq(body, 1, n)[k] = us[k]
    BY <1>1, <1>2
  <2>4. us \in Seq(Chars)
    BY <1>1 DEF Chars
  <2>5. QED BY <2>1, <2>2, <2>3, <2>4, SameText DEF n
<1>6. SubSeq(body, at + 1, Len(body)) = <<d1, d2>>
  <2>1. at + 1 = n + 2
    BY <1>1, <1>4
  <2>2. SubSeq(body, n + 2, n + 3) \in Seq(Chars) /\ Len(SubSeq(body, n + 2, n + 3)) = 2
    BY <1>1, <1>2
  <2>3. SubSeq(body, n + 2, n + 3)[1] = d1 /\ SubSeq(body, n + 2, n + 3)[2] = d2
    BY <1>1, <1>2
  <2>4. <<d1, d2>> \in Seq(Chars) /\ Len(<<d1, d2>>) = 2 /\ <<d1, d2>>[1] = d1 /\ <<d1, d2>>[2] = d2
    BY DEF Chars
  <2>5. \A k \in 1..2 : SubSeq(body, n + 2, n + 3)[k] = <<d1, d2>>[k]
    <3>1. \A k \in 1..2 : k = 1 \/ k = 2
      OBVIOUS
    <3>2. QED BY <2>3, <2>4, <3>1
  <2>6. SubSeq(body, n + 2, n + 3) = <<d1, d2>>
    BY <2>2, <2>4, <2>5, SameText
  <2>7. QED BY <1>2, <2>1, <2>6
<1>7. us # <<>> /\ AreDigits(us) /\ AreDigits(<<d1, d2>>) /\ Len(<<d1, d2>>) = 2
  BY <1>1 DEF AreDigits, n
<1>8. ParseBody(body) = DigitsToMinorUnits(us, <<d1, d2>>)
  <2>1. dots # {}
    BY <1>3
  <2>2. ParseBody(body) =
          IF /\ dots # {} /\ Len(SubSeq(body, at + 1, Len(body))) = 2 /\ SubSeq(body, 1, at - 1) # <<>>
             /\ NoLeadingZero(SubSeq(body, 1, at - 1)) /\ AreDigits(SubSeq(body, 1, at - 1))
             /\ AreDigits(SubSeq(body, at + 1, Len(body)))
            THEN DigitsToMinorUnits(SubSeq(body, 1, at - 1), SubSeq(body, at + 1, Len(body)))
            ELSE Invalid
    BY Zenon DEF ParseBody, at, dots
  <2>3. QED BY <1>1, <1>5, <1>6, <1>7, <2>1, <2>2, Zenon
<1>9. QED BY <1>1, <1>8, DigitsToMinorUnitsIs DEF body

\* Only such a text is parsed.
LEMMA OnlyBodiesParse ==
  ASSUME NEW body \in Seq(Chars), ParseBody(body).error = "none"
  PROVE  \E us \in Seq(Digit), d1 \in Digit, d2 \in Digit :
           CanonicalDigits(us) /\ body = Body(us, d1, d2)
<1> DEFINE n == Len(body)
           dots == {k \in DOMAIN body : body[k] = Dot}
           at == CHOOSE k \in dots : \A j \in dots : k <= j
           units == SubSeq(body, 1, at - 1)
           decimals == SubSeq(body, at + 1, n)
<1>1. n \in Nat /\ DOMAIN body = 1..n /\ \A k \in 1..n : body[k] \in Chars
  OBVIOUS
<1>2. ParseBody(body) =
        IF /\ dots # {} /\ Len(decimals) = 2 /\ units # <<>>
           /\ NoLeadingZero(units) /\ AreDigits(units) /\ AreDigits(decimals)
          THEN DigitsToMinorUnits(units, decimals) ELSE Invalid
  BY Zenon DEF ParseBody
<1>3. Invalid.error # "none"
  BY DEF Invalid
<1>4. /\ dots # {} /\ Len(decimals) = 2 /\ units # <<>>
      /\ NoLeadingZero(units) /\ AreDigits(units) /\ AreDigits(decimals)
  <2> HIDE DEF dots, at, units, decimals
  <2>1. QED BY <1>2, <1>3, Zenon
<1>5. at \in 1..n /\ body[at] = Dot
  <2>1. dots \in SUBSET Nat
    BY <1>1
  <2>2. \E k \in dots : \A j \in dots : k <= j
    <3> HIDE DEF dots, at, units, decimals
    <3>1. QED BY <1>4, <2>1, Least
  <2>3. at \in dots
    <3> HIDE DEF dots
    <3>1. QED BY <2>2, Zenon
  <2> HIDE DEF at
  <2>4. QED BY <1>1, <2>3
<1> HIDE DEF at, dots
<1>6. /\ units \in Seq(Chars) /\ Len(units) = at - 1 /\ \A k \in 1..(at - 1) : units[k] = body[k]
  BY <1>1, <1>5
<1>7. at + 2 = n /\ decimals[1] = body[at + 1] /\ decimals[2] = body[at + 2]
  <2>1. Len(decimals) = IF at + 1 <= n THEN n - at ELSE 0
    BY <1>1, <1>5
  <2>2. n = at + 2
    <3>1. Len(decimals) = 2
      BY <1>4
    <3> HIDE DEF decimals
    <3>2. PICK m \in Nat : m = n
      BY <1>1
    <3>3. at \in 1..m
      BY <1>5, <3>2
    <3>4. 2 = IF at + 1 <= m THEN m - at ELSE 0
      BY <2>1, <3>1, <3>2
    <3>5. m = at + 2
      BY <3>3, <3>4
    <3>6. QED BY <3>2, <3>5
  <2>3. QED BY <1>1, <1>5, <2>2
<1>8. decimals[1] \in Digit /\ decimals[2] \in Digit
  <2>1. DOMAIN decimals = 1..2
    <3>1. decimals \in Seq(Chars)
      BY <1>1, <1>5
    <3> HIDE DEF decimals
    <3>2. QED BY <1>4, <3>1
  <2> HIDE DEF decimals
  <2>2. QED BY <1>4, <2>1 DEF AreDigits
<1> HIDE DEF units, decimals
<1>9. units \in Seq(Digit) /\ Len(units) > 0
  <2>1. DOMAIN units = 1..(at - 1) /\ at - 1 \in Nat
    BY <1>5, <1>6
  <2>2. \A k \in 1..(at - 1) : units[k] \in Digit
    BY <1>4, <2>1 DEF AreDigits
  <2>3. units \in Seq(Digit)
    BY <1>6, <2>1, <2>2
  <2>4. QED BY <1>4, <1>6, <2>3
<1>10. CanonicalDigits(units)
  BY <1>4, <1>9 DEF CanonicalDigits
<1>11. body = Body(units, decimals[1], decimals[2])
  <2> DEFINE text == Body(units, decimals[1], decimals[2])
             d1 == decimals[1]
             d2 == decimals[2]
  <2>1. /\ text \in Seq(Chars) /\ Len(text) = Len(units) + 3
        /\ \A k \in 1..Len(units) : text[k] = units[k]
        /\ text[Len(units) + 1] = Dot /\ text[Len(units) + 2] = d1 /\ text[Len(units) + 3] = d2
    BY <1>8, <1>9, BodyChars
  <2> HIDE DEF text, d1, d2
  <2>2. Len(units) + 1 = at /\ Len(text) = n /\ n \in Nat
    <3>1. PICK m : m = Len(units)
      OBVIOUS
    <3>2. PICK l \in Nat : l = n
      BY <1>1
    <3>3. at \in 1..l /\ at + 2 = l
      BY <1>5, <1>7, <3>2
    <3>4. m = at - 1 /\ Len(text) = m + 3
      BY <1>6, <2>1, <3>1
    <3>5. m + 1 = at /\ m + 3 = l
      BY <3>3, <3>4
    <3>6. QED BY <3>1, <3>2, <3>4, <3>5
  <2>3. text[at] = Dot /\ text[at + 1] = d1 /\ text[at + 2] = d2
    <3>1. Len(units) + 2 = at + 1 /\ Len(units) + 3 = at + 2
      BY <1>5, <1>6, <2>2
    <3>2. QED BY <2>1, <2>2, <3>1
  <2>4. \A k \in 1..n : k \in 1..(at - 1) \/ k = at \/ k = at + 1 \/ k = at + 2
    BY <1>1, <1>5, <1>7
  <2>5. \A k \in 1..n : body[k] = text[k]
    BY <1>5, <1>6, <1>7, <2>1, <2>3, <2>4 DEF d1, d2
  <2>6. QED BY <2>1, <2>2, <2>5, SameText DEF text
<1>12. QED BY <1>8, <1>9, <1>10, <1>11

\* A text has one amount, and an amount one text.
LEMMA BodyIsOf ==
  ASSUME NEW us, CanonicalDigits(us), NEW val, Values(us, val), NEW d1 \in Digit, NEW d2 \in Digit,
         NEW v, v = val[Len(us)] * MinorPerUnit + (d1 * Base + d2)
  PROVE  v \in Nat /\ BodyOf(v) = Body(us, d1, d2)
<1>1. PICK q \in Nat : q = val[Len(us)] /\ Digits[q] = us
  BY UnitsAreDigits
<1>2. PICK r \in Nat : r = d1 * Base + d2 /\ r < MinorPerUnit
  <2>1. d1 * Base + d2 \in 0..MaxInt /\ d1 * Base + d2 < MinorPerUnit
    BY DecimalsFit, Zenon
  <2>2. \A x \in 0..MaxInt : x \in Nat
    OBVIOUS
  <2>3. QED BY <2>1, <2>2, Zenon
<1>3. MinorPerUnit \in Nat /\ MinorPerUnit > 1
  BY DecimalsFit
<1>4. v \in Nat /\ v \div MinorPerUnit = q /\ v % MinorPerUnit = r
  BY <1>1, <1>2, <1>3, DivisionUnique, Zenon
<1>5. Rest(r) = d1 /\ Low(r) = d2
  <2>1. \A p \in Nat, d \in Digit : Rest(p * Base + d) = p /\ Low(p * Base + d) = d
    BY LastDigit, Zenon
  <2>2. d1 \in Nat
    BY DigitsAreDigits
  <2>3. QED BY <1>2, <2>1, <2>2, Zenon
<1>6. QED BY <1>1, <1>4, <1>5, Zenon DEF BodyOf

\* A minus before a text, and the text after it.
LEMMA MinusFirst ==
  ASSUME NEW body \in Seq(Chars)
  PROVE  LET text == <<Minus>> \o body IN
         text # <<>> /\ text[1] = Minus /\ Tail(text) = body
<1>1. <<Minus>> \in Seq(Chars) /\ Len(body) \in Nat /\ Len(<<Minus>>) = 1
  BY DEF Chars
<1>2. /\ <<Minus>> \o body \in Seq(Chars) /\ Len(<<Minus>> \o body) = Len(body) + 1
      /\ (<<Minus>> \o body)[1] = Minus
      /\ \A k \in 1..Len(body) : (<<Minus>> \o body)[k + 1] = body[k]
  BY <1>1
<1>3. <<Minus>> \o body # <<>>
  BY <1>1, <1>2
<1>4. /\ Tail(<<Minus>> \o body) \in Seq(Chars) /\ Len(Tail(<<Minus>> \o body)) = Len(body)
      /\ \A k \in 1..Len(body) : Tail(<<Minus>> \o body)[k] = (<<Minus>> \o body)[k + 1]
  BY <1>1, <1>2, <1>3
<1>5. \A k \in 1..Len(body) : Tail(<<Minus>> \o body)[k] = body[k]
  BY <1>2, <1>4
<1>6. Tail(<<Minus>> \o body) = body
  BY <1>4, <1>5, SameText
<1>7. QED BY <1>2, <1>3, <1>6

\* A text that starts with a minus is the minus and the rest.
LEMMA MinusOff ==
  ASSUME NEW text \in Seq(Chars), text # <<>>, text[1] = Minus
  PROVE  Tail(text) \in Seq(Chars) /\ text = <<Minus>> \o Tail(text)
<1> DEFINE body == Tail(text)
           n == Len(body)
<1>1. /\ body \in Seq(Chars) /\ n \in Nat /\ Len(text) = n + 1
      /\ \A k \in 1..n : body[k] = text[k + 1]
  OBVIOUS
<1>2. <<Minus>> \in Seq(Chars) /\ Len(<<Minus>>) = 1 /\ <<Minus>>[1] = Minus
  BY DEF Chars
<1> HIDE DEF body
<1>3. /\ <<Minus>> \o body \in Seq(Chars) /\ Len(<<Minus>> \o body) = n + 1
      /\ (<<Minus>> \o body)[1] = Minus
      /\ \A k \in 1..n : (<<Minus>> \o body)[k + 1] = body[k]
  BY <1>1, <1>2
<1>4. ASSUME NEW k \in 1..(n + 1) PROVE text[k] = (<<Minus>> \o body)[k]
  <2>1. CASE k = 1
    BY <1>3, <2>1
  <2>2. CASE k # 1
    <3>1. k - 1 \in 1..n /\ (k - 1) + 1 = k
      BY <1>1, <2>2
    <3>2. body[k - 1] = text[(k - 1) + 1] /\ (<<Minus>> \o body)[(k - 1) + 1] = body[k - 1]
      BY <1>1, <1>3, <3>1
    <3>3. QED BY <3>1, <3>2
  <2>3. QED BY <2>1, <2>2
<1>5. text = <<Minus>> \o body
  BY <1>1, <1>3, <1>4, SameText
<1>6. QED BY <1>1, <1>5 DEF body

\* What String writes of an amount is parsed back to it.
LEMMA WrittenIsRead ==
  ASSUME NEW a \in Words, a # MinInt
  PROVE  Parse(Format(a)) = Amount(a)
<1> DEFINE n == IF a < 0 THEN -a ELSE a
           q == n \div MinorPerUnit
           r == n % MinorPerUnit
           us == Digits[q]
<1>1. a \in Int /\ n \in Nat /\ n <= MaxInt /\ MaxInt \in Nat /\ (a < 0 => n > 0 /\ a = -n)
  BY MoneyAssumption DEF Words, MinInt
<1> HIDE DEF n
<1>2. /\ q \in Nat /\ CanonicalDigits(us) /\ Rest(r) \in Digit /\ Low(r) \in Digit
      /\ n = q * MinorPerUnit + (Rest(r) * Base + Low(r))
  BY <1>1, Parts
<1>3. PICK val : Values(us, val) /\ val[Len(us)] = q
  BY <1>2, DigitsAreCanonical
<1>4. BodyOf(n) = Body(us, Rest(r), Low(r))
  BY DEF BodyOf
<1> HIDE DEF us, q, r
<1>5. ParseBody(BodyOf(n)) = Amount(n)
  <2>1. ParseBody(BodyOf(n)) = Within(n)
    BY <1>2, <1>3, <1>4, ParseBodyIs
  <2>2. QED BY <1>1, <2>1 DEF Within
<1>6. BodyOf(n) \in Seq(Chars) /\ Len(BodyOf(n)) > 0 /\ BodyOf(n)[1] # Minus
  <2>1. us \in Seq(Digit) /\ Len(us) \in Nat /\ Len(us) > 0
    BY <1>2 DEF CanonicalDigits
  <2>2. /\ BodyOf(n) \in Seq(Chars) /\ Len(BodyOf(n)) = Len(us) + 3
        /\ \A k \in 1..Len(us) : BodyOf(n)[k] = us[k]
    BY <1>2, <1>4, <2>1, BodyChars
  <2>3. 1 \in 1..Len(us) /\ us[1] \in Digit
    BY <2>1
  <2>4. us[1] # Minus /\ BodyOf(n)[1] = us[1]
    BY <2>2, <2>3, DigitsAreDigits
  <2>5. Len(BodyOf(n)) > 0
    BY <2>1, <2>2
  <2>6. QED BY <2>2, <2>4, <2>5
<1>7. CASE ~ (a < 0)
  <2>1. Format(a) = BodyOf(n) /\ a = n
    BY <1>1, <1>7, FormatIs DEF n
  <2>2. BodyOf(n) # <<>>
    BY <1>6
  <2>3. QED BY <1>5, <1>6, <2>1, <2>2 DEF Parse
<1>8. CASE a < 0
  <2>1. Format(a) = <<Minus>> \o BodyOf(n)
    BY <1>1, <1>8, FormatIs
  <2>2. /\ <<Minus>> \o BodyOf(n) # <<>> /\ (<<Minus>> \o BodyOf(n))[1] = Minus
        /\ Tail(<<Minus>> \o BodyOf(n)) = BodyOf(n)
    BY <1>6, MinusFirst
  <2>3. Parse(Format(a)) = Then(Amount(n), LAMBDA m : IF m = 0 THEN Invalid ELSE Amount(Wrap(-m)))
    BY <1>5, <2>1, <2>2, Zenon DEF Parse
  <2>4. n # 0 /\ -n = a
    BY <1>1, <1>8
  <2>5. Wrap(a) = a
    BY WrapInRange
  <2>6. QED BY <2>3, <2>4, <2>5 DEF Then, Amount
<1>9. QED BY <1>7, <1>8

\* A text that is parsed is what String writes of its amount.
LEMMA ReadIsWritten ==
  ASSUME NEW text \in Seq(Chars), Parse(text).error = "none"
  PROVE  Format(Parse(text).minor) = text
<1>1. ASSUME NEW body \in Seq(Chars), ParseBody(body).error = "none"
      PROVE  \E v \in Nat : ParseBody(body) = Amount(v) /\ v <= MaxInt /\ BodyOf(v) = body
  <2>1. PICK us \in Seq(Digit), d1 \in Digit, d2 \in Digit :
          CanonicalDigits(us) /\ body = Body(us, d1, d2)
    BY <1>1, OnlyBodiesParse
  <2>2. PICK val : Values(us, val)
    BY ValuesExist
  <2>3. PICK v : v = val[Len(us)] * MinorPerUnit + (d1 * Base + d2)
    OBVIOUS
  <2>4. v \in Nat /\ BodyOf(v) = body
    BY <2>1, <2>2, <2>3, BodyIsOf
  <2>5. ParseBody(body) = Within(v)
    BY <2>1, <2>2, <2>3, ParseBodyIs
  <2>6. v <= MaxInt /\ ParseBody(body) = Amount(v)
    BY <1>1, <2>5 DEF Within, Overflow
  <2>7. QED BY <2>4, <2>6
<1>2. text # <<>>
  BY DEF Parse, Invalid
<1>3. CASE text[1] # Minus
  <2>1. Parse(text) = ParseBody(text)
    BY <1>2, <1>3 DEF Parse
  <2>2. PICK v \in Nat : ParseBody(text) = Amount(v) /\ BodyOf(v) = text
    BY <1>1, <2>1
  <2>3. Parse(text).minor = v
    BY <2>1, <2>2 DEF Amount
  <2>4. QED BY <2>2, <2>3, FormatIs
<1>4. CASE text[1] = Minus
  <2> DEFINE body == Tail(text)
  <2>1. Parse(text) = Then(ParseBody(body), LAMBDA m : IF m = 0 THEN Invalid ELSE Amount(Wrap(-m)))
    BY <1>2, <1>4 DEF Parse
  <2>2. body \in Seq(Chars) /\ text = <<Minus>> \o body
    BY <1>2, <1>4, MinusOff
  <2> HIDE DEF body
  <2>3. ParseBody(body).error = "none"
    BY <2>1 DEF Then
  <2>4. PICK v \in Nat : ParseBody(body) = Amount(v) /\ v <= MaxInt /\ BodyOf(v) = body
    BY <1>1, <2>2, <2>3
  <2>5. Parse(text) = IF v = 0 THEN Invalid ELSE Amount(Wrap(-v))
    BY <2>1, <2>4 DEF Then, Amount
  <2>6. v # 0 /\ Parse(text) = Amount(Wrap(-v))
    BY <2>5 DEF Invalid
  <2>7. -v \in Words
    BY <2>4, MoneyAssumption DEF Words, MinInt
  <2>8. Parse(text).minor = -v
    BY <2>6, <2>7, WrapInRange DEF Amount
  <2>9. v > 0
    BY <2>6
  <2>10. QED BY <2>2, <2>4, <2>8, <2>9, FormatIs
<1>5. QED BY <1>3, <1>4

\* Every text of the instance is a sequence of characters.
LEMMA TextsAreSequences == \A text \in Texts : text \in Seq(Chars)
BY MCReadsAssumption DEF Texts, Chars

\* Checked arithmetic gives the true result, or an overflow exactly when no word
\* holds it.
THEOREM ArithmeticExactCorrect == MCSpec => []ArithmeticExact
<1>1. input \in {NoInput} \cup Inputs => ArithmeticExact
  <2> SUFFICES ASSUME input \in {NoInput} \cup Inputs, input.of = "words"
               PROVE  ArithmeticIsExactFor(input.a, input.b)
    BY DEF ArithmeticExact
  <2>1. input.a \in Words /\ input.b \in Words
    BY DEF Inputs, NoInput
  <2>2. QED BY <2>1, ArithmeticIsExactHolds DEF ArithmeticIsExact
<1>2. QED BY <1>1, InputsStay, PTL

\* Parse accepts exactly the texts String writes, whatever the word, the base
\* and the length of the text, and gives back the amount.
THEOREM CanonicalFormCorrect == MCSpec => []CanonicalForm
<1>1. input \in {NoInput} \cup Inputs => CanonicalForm
  <2> SUFFICES ASSUME input \in {NoInput} \cup Inputs PROVE CanonicalForm
    OBVIOUS
  <2>1. ASSUME input.of = "words", input.a # MinInt PROVE Parse(Format(input.a)) = Amount(input.a)
    <3>1. input.a \in Words
      BY <2>1 DEF Inputs, NoInput
    <3>2. QED BY <2>1, <3>1, WrittenIsRead
  <2>2. ASSUME input.of = "text", Parse(input.text).error = "none"
        PROVE  Format(Parse(input.text).minor) = input.text
    <3>1. input.text \in Texts
      BY <2>2 DEF Inputs, NoInput
    <3>2. QED BY <2>2, <3>1, TextsAreSequences, ReadIsWritten
  <2>3. QED BY <2>1, <2>2, Zenon DEF CanonicalForm
<1>2. QED BY <1>1, InputsStay, PTL

\* The instance that the runs check is one of the reads: what holds of every
\* behaviour of theirs holds of its.
THEOREM InstanceReads == MCSpec => Spec
<1>1. MCInit => Init
  BY DEF MCInit
<1>2. [MCNext]_<<vars, input>> => [Next]_vars
  BY DEF MCNext, vars
<1>3. QED BY <1>1, <1>2, PTL DEF MCSpec, Spec
=============================================================================
