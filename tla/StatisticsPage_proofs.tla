----------------------- MODULE StatisticsPage_proofs -----------------------
EXTENDS StatisticsPage, FiniteSetTheorems, SequenceTheorems, WellFoundedInduction, TLAPS

(*
 * What the statistics page shows and saves, for every set of accounts, rates,
 * slider positions and numbers of clicks: the types, the sums, the savings,
 * the forecast and what a deposit pays.
 * Total is a recursive function over finite sets. What it returns is shown by
 * least counterexamples (LeastNumber), so that no theorem with an operator as its
 * parameter is needed.
 *)

------------------------------------------------------------------------------
(* Numbers and sums. *)

\* What dividing whole numbers gives.
LEMMA Division ==
  ASSUME NEW a \in Nat, NEW b \in Nat, b # 0
  PROVE  /\ a \div b \in Nat
         /\ b * (a \div b) <= a
         /\ a < b * (a \div b) + b
<1>1. a \div b \in Int
  OBVIOUS
<1>2. b * (a \div b) <= a /\ a < b * (a \div b) + b
  OBVIOUS
<1>3. a \div b >= 0
  BY <1>1, <1>2
<1> QED BY <1>1, <1>2, <1>3

\* Every set of natural numbers that is not empty has a least one.
LEMMA LeastNumber ==
  ASSUME NEW T \in SUBSET Nat, T # {}
  PROVE  \E n \in T : \A m \in T : n <= m
<1> DEFINE Less == {ss \in Nat \X Nat : ss[1] < ss[2]}
<1>1. IsWellFoundedOn(Less, Nat)
  BY NatLessThanWellFounded, Zenon DEF OpToRel
<1> HIDE DEF Less
<1>2. PICK n \in T : \A m \in T : ~(<<m, n>> \in Less)
  BY <1>1, WFMin
<1>3. \A m \in T : ~(m < n)
  BY <1>2 DEF Less
<1> QED BY <1>2, <1>3

\* Induction over the natural numbers, for a set of them.
LEMMA CountingUp ==
  ASSUME NEW T, 0 \in T, \A n \in Nat : n \in T => n + 1 \in T
  PROVE  Nat \subseteq T
<1> SUFFICES ASSUME Nat \ T # {} PROVE FALSE
  OBVIOUS
<1>1. PICK n \in Nat \ T : \A m \in Nat \ T : n <= m
  BY LeastNumber
<1>2. n # 0 /\ n - 1 \in Nat /\ n - 1 \in T
  BY <1>1
<1>3. n - 1 + 1 \in T
  BY <1>2
<1> QED BY <1>1, <1>2, <1>3

\* Taking an element out of a finite set leaves one element fewer.
LEMMA Smaller ==
  ASSUME NEW S, IsFiniteSet(S), NEW s \in SUBSET S
  PROVE  /\ Cardinality(s) \in Nat
         /\ Cardinality(s) <= Cardinality(S)
         /\ Cardinality(s) = 0 <=> s = {}
         /\ \A x \in s : s \ {x} \in SUBSET S /\ Cardinality(s \ {x}) = Cardinality(s) - 1
<1>1. IsFiniteSet(s) /\ Cardinality(s) <= Cardinality(S)
  BY FS_Subset
<1>2. Cardinality(s) \in Nat /\ (Cardinality(s) = 0 <=> s = {})
  BY <1>1, FS_CardinalityType, FS_EmptySet
<1>3. \A x \in s : Cardinality(s \ {x}) = Cardinality(s) - 1
  BY <1>1, FS_RemoveElement
<1> QED BY <1>1, <1>2, <1>3

\* The recursive sum that Total is made of is defined for every subset.
LEMMA SumIsDefined ==
  ASSUME NEW S, IsFiniteSet(S), NEW f
  PROVE  \E g : g = [s \in SUBSET S |->
                       IF s = {} THEN 0
                       ELSE f[CHOOSE x \in s : TRUE] + g[s \ {CHOOSE x \in s : TRUE}]]
<1> DEFINE One(s) == CHOOSE x \in s : TRUE
           Step(g, s) == IF s = {} THEN 0 ELSE f[One(s)] + g[s \ {One(s)}]
           Upto(n) == \E g : \A s \in SUBSET S : Cardinality(s) <= n => g[s] = Step(g, s)
           T == {n \in Nat : Upto(n)}
<1>0. \A s \in SUBSET S : s # {} => /\ s \ {One(s)} \in SUBSET S
                                    /\ Cardinality(s \ {One(s)}) = Cardinality(s) - 1
  <2> SUFFICES ASSUME NEW s \in SUBSET S, s # {}
               PROVE  /\ s \ {One(s)} \in SUBSET S
                      /\ Cardinality(s \ {One(s)}) = Cardinality(s) - 1
    OBVIOUS
  <2>1. One(s) \in s
    OBVIOUS
  <2> HIDE DEF One
  <2> QED BY <2>1, Smaller
<1> HIDE DEF One
<1>1. 0 \in T
  <2> DEFINE g == [s \in SUBSET S |-> 0]
  <2>1. \A s \in SUBSET S : Cardinality(s) <= 0 => s = {}
    BY Smaller
  <2>2. \A s \in SUBSET S : Cardinality(s) <= 0 => g[s] = Step(g, s)
    BY <2>1
  <2> QED BY <2>2
<1>2. ASSUME NEW n \in Nat, n \in T
      PROVE  n + 1 \in T
  <2>1. PICK g : \A s \in SUBSET S : Cardinality(s) <= n => g[s] = Step(g, s)
    BY <1>2
  <2> DEFINE h == [s \in SUBSET S |-> IF Cardinality(s) <= n THEN g[s] ELSE Step(g, s)]
  <2>2. \A s \in SUBSET S : h[s] = Step(g, s)
    BY <2>1
  <2>3. ASSUME NEW s \in SUBSET S, Cardinality(s) <= n + 1
        PROVE  Step(h, s) = Step(g, s)
    <3>1. CASE s = {}
      BY <3>1
    <3>2. CASE s # {}
      <4>1. s \ {One(s)} \in SUBSET S /\ Cardinality(s \ {One(s)}) = Cardinality(s) - 1
        BY <1>0, <3>2
      <4>2. Cardinality(s) \in Nat
        BY Smaller
      <4>3. Cardinality(s \ {One(s)}) <= n
        BY <2>3, <4>1, <4>2
      <4> QED BY <4>1, <4>3
    <3> QED BY <3>1, <3>2
  <2> HIDE DEF h
  <2>4. \A s \in SUBSET S : Cardinality(s) <= n + 1 => h[s] = Step(h, s)
    BY <2>2, <2>3
  <2>5. Upto(n + 1)
    BY <2>4
  <2> HIDE DEF Upto
  <2> QED BY <2>5
<1>3. Cardinality(S) \in T
  <2> HIDE DEF T
  <2>1. Cardinality(S) \in Nat
    BY FS_CardinalityType
  <2> QED BY <1>1, <1>2, <2>1, CountingUp
<1>4. PICK g : \A s \in SUBSET S : g[s] = Step(g, s)
  <2>1. Upto(Cardinality(S))
    BY <1>3
  <2>2. \A s \in SUBSET S : Cardinality(s) <= Cardinality(S)
    BY Smaller
  <2> QED BY <2>1, <2>2
<1> DEFINE h == [s \in SUBSET S |-> g[s]]
<1>5. ASSUME NEW s \in SUBSET S PROVE Step(h, s) = g[s]
  <2>1. s # {} => s \ {One(s)} \in SUBSET S
    BY <1>0
  <2> QED BY <1>4, <2>1
<1>6. h = [s \in SUBSET S |-> Step(h, s)]
  BY <1>5
<1> QED BY <1>6 DEF One

\* A sum of natural numbers over a finite set is a natural number.
LEMMA SumIsNatural ==
  ASSUME NEW S, IsFiniteSet(S), NEW f, \A x \in S : f[x] \in Nat,
         NEW g, g = [s \in SUBSET S |->
                       IF s = {} THEN 0
                       ELSE f[CHOOSE x \in s : TRUE] + g[s \ {CHOOSE x \in s : TRUE}]]
  PROVE  g[S] \in Nat
<1> DEFINE T == {n \in Nat : \A s \in SUBSET S : Cardinality(s) = n => g[s] \in Nat}
<1>1. 0 \in T
  BY Smaller
<1>2. ASSUME NEW n \in Nat, n \in T
      PROVE  n + 1 \in T
  <2> SUFFICES ASSUME NEW s \in SUBSET S, Cardinality(s) = n + 1
               PROVE  g[s] \in Nat
    OBVIOUS
  <2> DEFINE x == CHOOSE x \in s : TRUE
  <2>1. s # {}
    BY Smaller
  <2>2. x \in s
    BY <2>1
  <2>3. g[s] = f[x] + g[s \ {x}]
    BY <2>1
  <2> HIDE DEF x
  <2>4. s \ {x} \in SUBSET S /\ Cardinality(s \ {x}) = n
    BY <2>2, Smaller
  <2>5. f[x] \in Nat /\ g[s \ {x}] \in Nat
    BY <1>2, <2>2, <2>4
  <2> QED BY <2>3, <2>5
<1>3. Cardinality(S) \in Nat
  BY FS_CardinalityType
<1>4. Cardinality(S) \in T
  <2> HIDE DEF T
  <2> QED BY <1>1, <1>2, <1>3, CountingUp
<1> QED BY <1>4

\* Total of natural numbers is a natural number.
LEMMA TotalOfNaturals ==
  ASSUME NEW k, NEW column, NEW to, IsFiniteSet(DOMAIN column),
         \A i \in DOMAIN column : Converted(k, column[i], to) \in Nat
  PROVE  Total(k, column, to) \in Nat
<1> DEFINE S == DOMAIN column
           parts == [i \in S |-> Converted(k, column[i], to)]
           f == [i \in S |-> RoundDiv(parts[i], 1000)]
           Sum(F, g) == g = [s \in SUBSET S |->
                            IF s = {} THEN 0
                            ELSE F[CHOOSE x \in s : TRUE] + g[s \ {CHOOSE x \in s : TRUE}]]
           Iter(g) == g = [s \in SUBSET S |->
                             IF s = {} THEN 0
                             ELSE RoundDiv(parts[CHOOSE x \in s : TRUE], 1000)
                                    + g[s \ {CHOOSE x \in s : TRUE}]]
           iter == CHOOSE g : Iter(g)
<1>1. Broken \notin Range(parts)
  BY DEF Range, Broken
<1>2. Total(k, column, to) = iter[S]
  BY <1>1 DEF Total, MapThenSumSet, MapThenFoldSet
<1>3. \A i \in S : f[i] \in Nat
  <2> SUFFICES ASSUME NEW i \in S PROVE RoundDiv(parts[i], 1000) \in Nat
    OBVIOUS
  <2>1. parts[i] \in Nat
    OBVIOUS
  <2> QED BY <2>1, Division DEF RoundDiv
<1>4. \A g : Sum(f, g) <=> Iter(g)
  <2> SUFFICES ASSUME NEW s \in SUBSET S, s # {}
               PROVE  f[CHOOSE x \in s : TRUE] = RoundDiv(parts[CHOOSE x \in s : TRUE], 1000)
    <3>1. \A s \in SUBSET S : s # {} => f[CHOOSE x \in s : TRUE]
                                            = RoundDiv(parts[CHOOSE x \in s : TRUE], 1000)
      OBVIOUS
    <3> HIDE DEF f, parts, S
    <3> QED BY <3>1
  <2>1. (CHOOSE x \in s : TRUE) \in S
    OBVIOUS
  <2> QED BY <2>1
<1>5. \E g : Sum(f, g)
  <2>1. IsFiniteSet(S)
    OBVIOUS
  <2> HIDE DEF f, S
  <2>2. \A F : \E g : Sum(F, g)
    BY <2>1, SumIsDefined, Zenon
  <2> HIDE DEF Sum
  <2> QED BY <2>2
<1>6. Iter(iter)
  <2> HIDE DEF Iter, Sum
  <2> QED BY <1>4, <1>5
<1>7. Sum(f, iter)
  BY <1>4, <1>6
<1> HIDE DEF iter, f
<1>8. iter[S] \in Nat
  BY <1>3, <1>7, SumIsNatural
<1> QED BY <1>2, <1>8

-----------------------------------------------------------------------------
(* Conversion. *)

\* RoundDiv is the nearest whole number: off by half the divisor at most.
LEMMA Rounding ==
  ASSUME NEW a \in Nat, NEW b \in Nat, b # 0
  PROVE  /\ RoundDiv(a, b) \in Nat
         /\ 2 * Abs(RoundDiv(a, b) * b - a) <= b
<1> DEFINE q == RoundDiv(a, b)
<1>1. q \in Nat /\ (2 * b) * q <= 2 * a + b /\ 2 * a + b < (2 * b) * q + 2 * b
  <2>1. 2 * a + b \in Nat /\ 2 * b \in Nat /\ 2 * b # 0
    OBVIOUS
  <2> QED BY <2>1, Division DEF RoundDiv
<1> HIDE DEF q
<1>2. q * b \in Int /\ (2 * b) * q = 2 * (q * b)
  BY <1>1
<1>3. 2 * (q * b) <= 2 * a + b /\ 2 * a < 2 * (q * b) + b
  BY <1>1, <1>2
<1>4. 2 * Abs(q * b - a) <= b
  BY <1>2, <1>3 DEF Abs
<1> QED BY <1>1, <1>4 DEF q

\* A rate is zero, which is to say not known, only of a foreign currency before the rates arrive.
LEMMA RateFacts ==
  ASSUME NEW k \in BOOLEAN, NEW c \in Currencies
  PROVE  /\ RateWhen(k, c) \in Nat
         /\ RateWhen(k, c) = 0 <=> ~k /\ c # "RUB"
         /\ k => RateWhen(k, c) = RateWhen(TRUE, c)
<1>1. c \in {"EUR", "USD"} => Rates[c] \in Nat /\ Rates[c] # 0
  BY PageAssumption DEF PageAssumption
<1> QED BY <1>1 DEF RateWhen, Currencies

\* A conversion fails exactly when the rate it divides by is not known.
LEMMA ExchangeFacts ==
  ASSUME NEW k \in BOOLEAN, NEW m \in Nat, NEW from \in Currencies, NEW to \in Currencies
  PROVE  /\ RateWhen(k, to) = 0 => Exchange(k, m, from, to) = Broken
         /\ RateWhen(k, to) # 0 =>
              /\ Exchange(k, m, from, to) \in Nat
              /\ Exchange(k, m, from, to) = RoundDiv(m * RateWhen(k, from), RateWhen(k, to))
<1>1. m # Broken
  BY DEF Broken
<1>2. RateWhen(k, to) \in Nat /\ m * RateWhen(k, from) \in Nat
  <2>1. RateWhen(k, to) \in Nat /\ RateWhen(k, from) \in Nat
    BY RateFacts
  <2> QED BY <2>1
<1>3. RateWhen(k, to) # 0 => RoundDiv(m * RateWhen(k, from), RateWhen(k, to)) \in Nat
  BY <1>2, Rounding
<1> QED BY <1>1, <1>3 DEF Exchange

\* An item by the month is a number in any currency whose rate is known.
LEMMA ConvertedFacts ==
  ASSUME NEW k \in BOOLEAN, NEW it \in Items, NEW to \in Currencies
  PROVE  IF RateWhen(k, to) = 0 THEN Converted(k, it, to) = Broken
                                ELSE Converted(k, it, to) \in Nat
<1> DEFINE m == 1000 * it.amount * RateWhen(k, it.currency)
           p == PerMonth(m, it.period)
<1>1. it.amount \in Nat /\ it.currency \in Currencies /\ it.period \in Periods
  BY DEF Items
<1>2. m \in Nat
  <2>1. RateWhen(k, it.currency) \in Nat
    BY <1>1, RateFacts
  <2> QED BY <1>1, <2>1
<1> HIDE DEF m
<1>3. p \in Nat
  <2>1. m * 730 \in Nat /\ m * 365 \in Nat
    BY <1>2
  <2>2. RoundDiv(m * 365, 12) \in Nat /\ RoundDiv(m, 3) \in Nat /\ RoundDiv(m, 12) \in Nat
    BY <1>2, <2>1, Rounding
  <2> QED BY <1>1, <1>2, <2>1, <2>2 DEF PerMonth, Periods
<1> HIDE DEF p
<1>4. Converted(k, it, to) = Exchange(k, p, "RUB", to)
  BY DEF Converted, p, m
<1>5. "RUB" \in Currencies
  BY DEF Currencies
<1> QED BY <1>3, <1>4, <1>5, ExchangeFacts

\* The sum of a column is a number exactly when the rate of its currency is known.
LEMMA TotalFacts ==
  ASSUME NEW a \in Accounts, NEW column \in {a.income, a.expense},
         NEW k \in BOOLEAN, NEW to \in Currencies
  PROVE  IF RateWhen(k, to) = 0 THEN Total(k, column, to) = Broken
                                ELSE Total(k, column, to) \in Nat
<1>1. /\ DOMAIN column # {} /\ IsFiniteSet(DOMAIN column)
      /\ \A i \in DOMAIN column : column[i] \in Items
  BY PageAssumption DEF PageAssumption
<1>2. CASE RateWhen(k, to) = 0
  <2> DEFINE parts == [i \in DOMAIN column |-> Converted(k, column[i], to)]
  <2>1. PICK i \in DOMAIN column : TRUE
    BY <1>1
  <2>2. Converted(k, column[i], to) = Broken
    BY <1>1, <1>2, ConvertedFacts
  <2>3. Broken \in Range(parts)
    BY <2>2 DEF Range
  <2>4. Total(k, column, to) = Broken
    BY <2>3 DEF Total
  <2> QED BY <1>2, <2>4
<1>3. CASE RateWhen(k, to) # 0
  <2>1. \A i \in DOMAIN column : Converted(k, column[i], to) \in Nat
    BY <1>1, <1>3, ConvertedFacts
  <2> QED BY <1>1, <1>3, <2>1, TotalOfNaturals
<1> QED BY <1>2, <1>3

\* The sums are numbers, or both Infinity when a rate is missing.
LEMMA SumsFacts ==
  ASSUME NEW a \in Accounts, NEW k \in BOOLEAN, NEW to \in Currencies
  PROVE  LET s == SumsOf(k, a, to)
         IN  /\ s \in [inc : Nat \cup {Broken}, exp : Nat \cup {Broken}, known : BOOLEAN]
             /\ (s.inc = Broken) = (s.exp = Broken)
             /\ s.inc = Broken <=> RateWhen(k, to) = 0
             /\ s.known = k
<1> DEFINE inc == Total(k, a.income, to)
           exp == Total(k, a.expense, to)
           s == SumsOf(k, a, to)
<1>1. IF RateWhen(k, to) = 0 THEN inc = Broken /\ exp = Broken ELSE inc \in Nat /\ exp \in Nat
  BY TotalFacts
<1> HIDE DEF inc, exp
<1>2. CASE RateWhen(k, to) = 0
  <2>1. s = [inc |-> Broken, exp |-> Broken, known |-> k]
    BY <1>1, <1>2 DEF SumsOf, inc, exp
  <2> QED BY <1>2, <2>1
<1>3. CASE RateWhen(k, to) # 0
  <2> DEFINE start == Snap(inc, 0)
  <2>1. inc \in Nat /\ exp \in Nat /\ inc # Broken /\ exp # Broken
    BY <1>1, <1>3 DEF Broken
  <2>2. start \in Nat
    BY <2>1 DEF Snap
  <2>3. s = [inc |-> inc, exp |-> Snap(inc, start + exp), known |-> k]
    BY <2>1 DEF SumsOf, inc, exp
  <2> HIDE DEF start
  <2>4. Snap(inc, start + exp) \in Nat
    BY <2>1, <2>2 DEF Snap
  <2>5. Snap(inc, start + exp) # Broken
    BY <2>4 DEF Broken
  <2> QED BY <1>3, <2>1, <2>3, <2>4, <2>5
<1> QED BY <1>2, <1>3

-----------------------------------------------------------------------------
(* Slider. *)

\* The slider stays between 0 and 100, whatever its range is.
LEMMA SliderFacts ==
  ASSUME NEW percent \in 0..100, NEW d \in Int
  PROVE  SliderAt(percent, d) \in 0..100
<1>1. CASE d <= 0
  BY <1>1 DEF SliderAt
<1>2. CASE ~(d <= 0)
  <2> DEFINE q == RoundDiv(percent, 5)
             v == RoundDiv(d * 5 * q, 100)
             r == (200 * v + d - 1) \div (2 * d)
  <2>1. q \in 0..20
    <3>1. q = (2 * percent + 5) \div 10
      BY DEF RoundDiv
    <3> QED BY <3>1
  <2> HIDE DEF q
  <2>2. d \in Nat /\ d # 0 /\ d * 5 * q \in Nat /\ d * 5 * q <= 100 * d
    <3>1. d \in Nat /\ d # 0 /\ q \in Nat /\ q <= 20
      BY <1>2, <2>1
    <3>2. d * q \in Nat /\ d * q <= d * 20
      BY <3>1
    <3> QED BY <3>1, <3>2
  <2>3. v \in Nat /\ v <= d
    <3> DEFINE x == d * 5 * q
    <3>1. x \in Nat /\ x <= 100 * d
      BY <2>2
    <3> HIDE DEF x
    <3>2. RoundDiv(x, 100) \in Nat /\ 2 * Abs(RoundDiv(x, 100) * 100 - x) <= 100
      BY <3>1, Rounding
    <3>3. RoundDiv(x, 100) <= d
      BY <2>2, <3>1, <3>2 DEF Abs
    <3> QED BY <3>2, <3>3 DEF x
  <2> HIDE DEF v
  <2>4. 200 * v + d - 1 \in Nat /\ 2 * d \in Nat /\ 2 * d # 0
    BY <2>2, <2>3
  <2>5. r \in Nat /\ (2 * d) * r <= 200 * v + d - 1
    BY <2>4, Division
  <2> HIDE DEF r
  <2>6. r <= 100
    <3>1. SUFFICES ASSUME r >= 101 PROVE FALSE
      BY <2>5
    <3>2. (2 * d) * r >= (2 * d) * 101
      BY <2>2, <2>5, <3>1
    <3> QED BY <2>2, <2>3, <2>5, <3>2
  <2>7. SliderAt(percent, d) = r
    BY <1>2 DEF SliderAt, PercentOf, r, v, q
  <2> QED BY <2>5, <2>6, <2>7
<1> QED BY <1>1, <1>2

-----------------------------------------------------------------------------
(* Types. *)

Money == Nat \cup {Broken}
Trace == [from : Currencies, conversions : Nat, touches : Nat, early : BOOLEAN, skipped : BOOLEAN]

\* ChangeCurrency leaves savings and history well typed.
LEMMA ChangeTypes ==
  ASSUME TypeOK, NEW c \in Currencies, ChangeCurrency(c)
  PROVE  money' \in Money /\ last' \in Currencies /\ trace' \in Trace
<1>1. money \in Money /\ last \in Currencies /\ known \in BOOLEAN /\ trace \in Trace
  BY DEF TypeOK, Money, Trace
<1>2. Exchange(known, money, last, c) \in Money
  <2>1. CASE money = Broken
    BY <2>1 DEF Exchange, Money
  <2>2. CASE money # Broken
    BY <1>1, <2>2, ExchangeFacts DEF Money
  <2> QED BY <2>1, <2>2
<1>3. money' \in Money /\ last' \in Currencies
  BY <1>1, <1>2 DEF ChangeCurrency
<1>4. trace' \in Trace
  <2> DEFINE n == trace.conversions + (IF c # last THEN 1 ELSE 0)
             e == trace.early \/ (c # last /\ ~known)
  <2>1. trace' = [trace EXCEPT !.conversions = n, !.early = e, !.skipped = FALSE]
    BY DEF ChangeCurrency
  <2>2. n \in Nat
    BY <1>1 DEF Trace
  <2>3. e \in BOOLEAN
    OBVIOUS
  <2> HIDE DEF n, e
  <2> QED BY <1>1, <2>1, <2>2, <2>3 DEF Trace
<1> QED BY <1>3, <1>4

\* So does initStatisticPage, whether the debounce drops it or not.
LEMMA InitPageTypes ==
  ASSUME TypeOK, NEW c \in Currencies, InitStatisticPage(c)
  PROVE  /\ money' \in Money /\ last' \in Currencies /\ trace' \in Trace
         /\ label' \in Currencies /\ settling' \in BOOLEAN
<1>1. CASE settling
  <2>1. /\ trace \in Trace /\ trace' = [trace EXCEPT !.skipped = TRUE]
        /\ UNCHANGED <<last, money, label, settling>>
    BY <1>1 DEF TypeOK, InitStatisticPage, Trace
  <2>2. trace' \in Trace
    BY <2>1 DEF Trace
  <2>3. settling' \in BOOLEAN
    BY <2>1 DEF TypeOK
  <2> QED BY <2>1, <2>2, <2>3 DEF TypeOK, Money
<1>2. CASE ~settling
  <2>1. ChangeCurrency(c) /\ label' = c /\ settling' = TRUE
    BY <1>2 DEF InitStatisticPage
  <2>2. settling' \in BOOLEAN
    BY <2>1, Zenon
  <2> QED BY <2>1, <2>2, ChangeTypes
<1> QED BY <1>1, <1>2

\* So does building the slider again.
LEMMA RebuildTypes ==
  ASSUME share \in 0..100, NEW s \in [inc : Money, exp : Money, known : BOOLEAN],
         (s.inc = Broken) = (s.exp = Broken), RebuildSlider(s)
  PROVE  share' \in 0..100
<1>1. CASE s.inc = Broken
  BY <1>1 DEF RebuildSlider, NotNumbers
<1>2. CASE s.inc # Broken
  <2>1. s.inc - s.exp \in Int
    BY <1>2 DEF Money
  <2>2. share' = SliderAt(share, s.inc - s.exp)
    BY <1>2 DEF RebuildSlider, NotNumbers
  <2> QED BY <2>1, <2>2, SliderFacts
<1> QED BY <1>1, <1>2

\* Types but for those of the drawing, which have a lemma of their own.
PageType ==
  /\ known \in BOOLEAN /\ settling \in BOOLEAN
  /\ columns \in Accounts
  /\ {checked, last, label} \subseteq Currencies
  /\ money \in Nat \cup {Broken} /\ field \in Nat
  /\ sums \in [inc : Nat \cup {Broken}, exp : Nat \cup {Broken}, known : BOOLEAN]
  /\ (sums.inc = Broken) = (sums.exp = Broken)
  /\ boxes \in [deposit : BOOLEAN, capitalization : BOOLEAN, enabled : BOOLEAN]
  /\ plan \in [deposit : BOOLEAN, capitalization : BOOLEAN]
  /\ share \in 0..100
  /\ due \subseteq {"launch", "button"}
  /\ page \in {"settings", "statistic"}
  /\ sent.currency \in Currencies
  /\ trace \in Trace
  /\ clicks \in 0..MaxClicks

Writes == Seq([of : Forecasts, time : {200, 700}])

DrawingType ==
  /\ drawn \in Forecasts /\ yearEnd \in Forecasts
  /\ writes \in Writes
  /\ overtook \in BOOLEAN

LEMMA WritesFacts ==
  ASSUME NEW w \in Writes
  PROVE  /\ Len(w) \in Nat /\ DOMAIN w = 1..Len(w)
         /\ \A j \in 1..Len(w) : w[j].of \in Forecasts /\ w[j].time \in {200, 700}
<1> DEFINE S == [of : Forecasts, time : {200, 700}]
<1>1. w \in Seq(S)
  BY DEF Writes
<1>2. \A x \in S : x.of \in Forecasts /\ x.time \in {200, 700}
  OBVIOUS
<1> HIDE DEF S
<1>3. Len(w) \in Nat /\ DOMAIN w = 1..Len(w) /\ \A j \in 1..Len(w) : w[j] \in S
  BY <1>1
<1> QED BY <1>2, <1>3

LEMMA TypeParts == /\ TypeOK <=> PageType /\ DrawingType
                   /\ TypeOK' <=> PageType' /\ DrawingType'
  BY DEF TypeOK, PageType, DrawingType, Trace, Writes

\* What the savings, sums and boxes of any moment give is a forecast.
LEMMA ForecastTypes ==
  ASSUME money \in Nat \cup {Broken}, NEW p \in 0..100,
         sums \in [inc : Nat \cup {Broken}, exp : Nat \cup {Broken}, known : BOOLEAN],
         (sums.inc = Broken) = (sums.exp = Broken),
         plan \in [deposit : BOOLEAN, capitalization : BOOLEAN]
  PROVE  Forecast(p) \in Forecasts
<1>1. (IF money = Broken THEN Broken ELSE money \div 1000) \in Nat \cup {Broken}
  <2>1. CASE money = Broken
    BY <2>1
  <2>2. CASE money # Broken
    <3>1. money \in Nat /\ money \div 1000 \in Nat
      BY <2>2, Division
    <3> QED BY <2>2, <3>1
  <2> QED BY <2>1, <2>2
<1>2. Delta \in Int
  BY DEF Delta, NotNumbers, Broken
<1> QED BY <1>1, <1>2 DEF Forecast, Forecasts

\* A draw appends its timer.
LEMMA DrawTypes ==
  ASSUME TypeOK, NEW p \in 0..100, NEW t \in {200, 700}, InitSavingsCircles(p, t)
  PROVE  DrawingType'
<1>1. drawn' \in Forecasts
  BY ForecastTypes DEF TypeOK, InitSavingsCircles
<1>2. yearEnd' \in Forecasts
  BY DEF TypeOK, InitSavingsCircles
<1>3. overtook' \in BOOLEAN
  BY Zenon DEF InitSavingsCircles
<1>4. writes' \in Writes
  <2>1. [of |-> drawn', time |-> t] \in [of : Forecasts, time : {200, 700}]
    BY <1>1
  <2>2. writes \in Writes
    BY DEF TypeOK, Writes
  <2> QED BY <2>1, <2>2 DEF InitSavingsCircles, Writes
<1> QED BY <1>1, <1>2, <1>3, <1>4 DEF DrawingType

\* What RemoveAt leaves of a sequence.
LEMMA Removed ==
  ASSUME NEW S, NEW s \in Seq(S), NEW k \in 1..Len(s)
  PROVE  /\ RemoveAt(s, k) \in Seq(S) /\ Len(RemoveAt(s, k)) = Len(s) - 1
         /\ \A j \in 1..(Len(s) - 1) : RemoveAt(s, k)[j] = IF j < k THEN s[j] ELSE s[j + 1]
<1> DEFINE a == SubSeq(s, 1, k - 1)
           b == SubSeq(s, k + 1, Len(s))
<1>1. a \in Seq(S) /\ Len(a) = k - 1 /\ \A j \in 1..(k - 1) : a[j] = s[j]
  OBVIOUS
<1>2. b \in Seq(S) /\ Len(b) = Len(s) - k /\ \A j \in 1..(Len(s) - k) : b[j] = s[k + j]
  OBVIOUS
<1>3. RemoveAt(s, k) = a \o b
  BY DEF RemoveAt
<1> HIDE DEF a, b
<1>4. /\ a \o b \in Seq(S) /\ Len(a \o b) = Len(a) + Len(b)
      /\ \A j \in 1..(Len(a) + Len(b)) :
           (a \o b)[j] = IF j <= Len(a) THEN a[j] ELSE b[j - Len(a)]
  BY <1>1, <1>2, ConcatProperties
<1>5. ASSUME NEW j \in 1..(Len(s) - 1)
      PROVE  (a \o b)[j] = IF j < k THEN s[j] ELSE s[j + 1]
  <2>1. /\ Len(a) = k - 1 /\ Len(b) = Len(s) - k /\ Len(s) \in Nat
        /\ j \in 1..(Len(a) + Len(b))
    BY <1>1, <1>2
  <2>2. CASE j < k
    <3>1. j \in 1..(k - 1) /\ j <= Len(a)
      BY <2>1, <2>2
    <3> QED BY <1>1, <1>4, <2>1, <2>2, <3>1
  <2>3. CASE ~(j < k)
    <3> DEFINE i == j - (k - 1)
    <3>1. ~(j <= Len(a)) /\ i = j - Len(a) /\ i \in 1..(Len(s) - k) /\ k + i = j + 1
      BY <2>1, <2>3
    <3> HIDE DEF i
    <3>2. (a \o b)[j] = b[i]
      BY <1>4, <2>1, <3>1
    <3> QED BY <1>2, <2>3, <3>1, <3>2
  <2> QED BY <2>2, <2>3
<1>6. Len(a \o b) = Len(s) - 1
  BY <1>1, <1>2, <1>4
<1> QED BY <1>3, <1>4, <1>5, <1>6

\* Only draws and their timers touch the forecast on display.
LEMMA DrawingStep ==
  ASSUME [Next]_vars
  PROVE  \/ UNCHANGED drawing
         \/ \E timer \in {"launch", "button"} : Draw(timer)
         \/ \E k \in DOMAIN writes : SetPreciseValue(k)
         \/ \E percent \in Stops : Slide(percent)
  BY DEF Next, vars, RatesArrive, Settle, EditItems, ClickSign, TouchField, ToggleDeposit,
         ToggleCapitalization, Launch, ClickCurrency, Back

LEMMA SlideTypes ==
  ASSUME TypeOK, NEW percent \in Stops, Slide(percent)
  PROVE  share' \in 0..100
<1>1. percent \in 0..100
  BY PageAssumption
<1>2. Delta \in Int
  BY DEF TypeOK, Delta, NotNumbers, Broken
<1> QED BY <1>1, <1>2, SliderFacts DEF TypeOK, Slide

LEMMA DrawingInit == Init => DrawingType
<1> SUFFICES ASSUME Init PROVE DrawingType
  OBVIOUS
<1>1. money \in Nat \cup {Broken}
  BY PageAssumption DEF Init
<1>2. /\ sums \in [inc : Nat \cup {Broken}, exp : Nat \cup {Broken}, known : BOOLEAN]
      /\ (sums.inc = Broken) = (sums.exp = Broken)
  BY SumsFacts DEF Init
<1>3. plan \in [deposit : BOOLEAN, capitalization : BOOLEAN]
  BY DEF Init
<1>4. Forecast(100) \in Forecasts
  BY <1>1, <1>2, <1>3, ForecastTypes
<1>5. writes \in Writes
  BY DEF Init, Writes
<1>6. overtook \in BOOLEAN
  BY Zenon DEF Init
<1> QED BY <1>4, <1>5, <1>6 DEF Init, DrawingType

LEMMA DrawingTypes == TypeOK /\ [Next]_vars => DrawingType'
<1> SUFFICES ASSUME TypeOK, [Next]_vars PROVE DrawingType'
  OBVIOUS
<1>0. DrawingType
  BY TypeParts
<1>1. CASE UNCHANGED drawing
  BY <1>0, <1>1 DEF DrawingType, drawing
<1>2. ASSUME NEW timer \in {"launch", "button"}, Draw(timer)
      PROVE  DrawingType'
  <2>1. (IF timer = "launch" THEN 100 ELSE share) \in 0..100
    BY DEF TypeOK
  <2> QED BY <1>2, <2>1, DrawTypes DEF Draw
<1>3. ASSUME NEW k \in DOMAIN writes, SetPreciseValue(k)
      PROVE  DrawingType'
  <2>1. writes \in Writes /\ k \in 1..Len(writes)
    BY <1>0, WritesFacts DEF DrawingType
  <2>2. writes' \in Writes
    BY <1>3, <2>1, Removed DEF SetPreciseValue, Writes
  <2>3. writes[k].of \in Forecasts
    BY <2>1, WritesFacts
  <2> QED BY <1>0, <1>3, <2>2, <2>3 DEF DrawingType, SetPreciseValue
<1>4. ASSUME NEW percent \in Stops, Slide(percent)
      PROVE  DrawingType'
  <2>3. share' \in 0..100
    BY <1>4, SlideTypes
  <2>4. AnimateTime \in {200, 700}
    BY DEF AnimateTime
  <2>5. InitSavingsCircles(share', AnimateTime)
    BY <1>4 DEF Slide
  <2> QED BY <2>3, <2>4, <2>5, DrawTypes
<1> QED BY <1>1, <1>2, <1>3, <1>4, DrawingStep

\* Every reachable state is well typed, whatever accounts, rates and stops there
\* are: sums are numbers or Infinity, percentages stay between 0 and 100.
THEOREM PageTypeCorrect == Spec => []TypeOK
<1>1. Init => TypeOK
  <2> SUFFICES ASSUME Init PROVE TypeOK
    OBVIOUS
  <2>1. /\ known \in BOOLEAN /\ columns \in Accounts /\ checked \in Currencies
        /\ last = checked /\ label = checked /\ sums = SumsOf(known, columns, checked)
    BY DEF Init
  <2>2. /\ sums \in [inc : Nat \cup {Broken}, exp : Nat \cup {Broken}, known : BOOLEAN]
        /\ (sums.inc = Broken) = (sums.exp = Broken)
    BY <2>1, SumsFacts
  <2>3. money \in Nat \cup {Broken} /\ field \in Nat /\ clicks \in 0..MaxClicks
    BY PageAssumption DEF PageAssumption, Init
  <2>4. DrawingType
    BY DrawingInit
  <2>5. sent.currency \in Currencies
    BY DEF Init, Nothing, Currencies
  <2>6. trace \in Trace
    BY DEF Init, Trace
  <2>7. /\ share \in 0..100 /\ due \subseteq {"launch", "button"}
        /\ page \in {"settings", "statistic"}
    BY DEF Init
  <2>9. settling \in BOOLEAN
    BY Zenon DEF Init
  <2>8. /\ boxes \in [deposit : BOOLEAN, capitalization : BOOLEAN, enabled : BOOLEAN]
        /\ plan \in [deposit : BOOLEAN, capitalization : BOOLEAN]
    BY DEF Init
  <2>10. PageType
    BY <2>1, <2>2, <2>3, <2>5, <2>6, <2>7, <2>8, <2>9 DEF PageType, Trace
  <2> QED BY <2>4, <2>10, TypeParts
<1>2. TypeOK /\ [Next]_vars => PageType'
  <2> SUFFICES ASSUME TypeOK, [Next]_vars PROVE PageType'
    OBVIOUS
  <2>p. PageType
    BY TypeParts
  <2>0. Click => clicks' \in 0..MaxClicks
    BY PageAssumption DEF PageAssumption, TypeOK, Click
  <2>1. CASE RatesArrive
    BY <2>p, <2>1 DEF PageType, RatesArrive, controls, saving
  <2>2. CASE Settle
    <3>1. settling' \in BOOLEAN
      BY <2>2, Zenon DEF Settle
    <3> QED BY <2>p, <2>2, <3>1 DEF PageType, Settle, controls, saving
  <2>3. ASSUME NEW timer \in {"launch", "button"}, Draw(timer)
        PROVE  PageType'
    BY <2>p, <2>3 DEF PageType, Draw, controls, saving
  <2>14. ASSUME NEW k \in DOMAIN writes, SetPreciseValue(k)
         PROVE  PageType'
    BY <2>p, <2>14 DEF PageType, SetPreciseValue, controls, saving
  <2>4. CASE EditItems
    <3>1. /\ columns' \in Accounts /\ sums' = SumsOf(known, columns', checked)
          /\ checked \in Currencies /\ known \in BOOLEAN
      BY <2>p, <2>4 DEF PageType, EditItems
    <3>2. /\ sums' \in [inc : Nat \cup {Broken}, exp : Nat \cup {Broken}, known : BOOLEAN]
          /\ (sums'.inc = Broken) = (sums'.exp = Broken)
      BY <3>1, SumsFacts
    <3>3. sent'.currency \in Currencies
      BY <2>p, <2>4 DEF PageType, EditItems, Put
    <3> QED BY <2>p, <2>4, <2>0, <3>1, <3>2, <3>3 DEF PageType, EditItems, controls, saving
  <2>5. CASE ClickSign
    <3> DEFINE next == CASE checked = "RUB" -> "EUR" [] checked = "EUR" -> "USD"
                         [] checked = "USD" -> "RUB"
    <3>1. next \in Currencies
      BY <2>p DEF PageType, Currencies
    <3> HIDE DEF next
    <3>2. checked' = next /\ ChangeCurrency(next)
      BY <2>5 DEF ClickSign, next
    <3>3. money' \in Money /\ last' \in Currencies /\ trace' \in Trace
      BY <3>1, <3>2, ChangeTypes
    <3>4. field' \in Nat
      <4>1. field' = IF money' = Broken THEN field ELSE RoundDiv(money', 1000)
        BY <2>5 DEF ClickSign
      <4> QED BY <2>p, <4>1, <3>3, Rounding DEF PageType, Money
    <3>5. /\ sums' \in [inc : Nat \cup {Broken}, exp : Nat \cup {Broken}, known : BOOLEAN]
          /\ (sums'.inc = Broken) = (sums'.exp = Broken)
          /\ share' \in 0..100
      <4>1. CASE NotNumbers(sums)
        BY <2>p, <2>5, <4>1 DEF PageType, ClickSign
      <4>2. CASE ~NotNumbers(sums)
        <5>1. sums' = SumsOf(known, columns, next)
          BY <2>5, <4>2 DEF ClickSign, next
        <5>2. share' = IF Delta < 0 THEN 100 ELSE SliderAt(share, Delta)
          BY <2>5, <4>2 DEF ClickSign
        <5>3. Delta \in Int
          BY <2>p, <4>2 DEF PageType, Delta, NotNumbers
        <5>4. SliderAt(share, Delta) \in 0..100
          BY <2>p, <5>3, SliderFacts DEF PageType
        <5>5. share' \in 0..100
          BY <5>2, <5>4
        <5>6. known \in BOOLEAN /\ columns \in Accounts
          BY <2>p DEF PageType
        <5> QED BY <3>1, <5>1, <5>5, <5>6, SumsFacts
      <4> QED BY <4>1, <4>2
    <3>6. /\ UNCHANGED <<known, columns, label, boxes, plan, drawing, due, settling, page, sent>>
          /\ clicks' \in 0..MaxClicks
      BY <2>5, <2>0 DEF ClickSign
    <3> QED BY <2>p, <3>1, <3>2, <3>3, <3>4, <3>5, <3>6 DEF PageType, Money, Trace
  <2>6. CASE TouchField
    <3>1. trace' \in Trace
      BY <2>p, <2>6 DEF PageType, TouchField, Trace
    <3>2. money' \in Nat \cup {Broken}
      BY <2>p, <2>6 DEF PageType, TouchField
    <3>3. /\ UNCHANGED <<known, columns, controls, last, field, sums, label, drawing, due, settling,
                         sent>>
          /\ clicks' \in 0..MaxClicks
      BY <2>6, <2>0 DEF TouchField
    <3> QED BY <2>p, <3>1, <3>2, <3>3 DEF PageType, controls, Trace
  <2>7. CASE ToggleDeposit
    <3>1. boxes' \in [deposit : BOOLEAN, capitalization : BOOLEAN, enabled : BOOLEAN]
      <4>1. boxes' = IF boxes.deposit
                       THEN [deposit |-> FALSE, capitalization |-> FALSE, enabled |-> FALSE]
                       ELSE [boxes EXCEPT !.deposit = TRUE, !.enabled = TRUE]
        BY <2>7 DEF ToggleDeposit
      <4> QED BY <2>p, <4>1 DEF PageType
    <3>2. /\ UNCHANGED <<known, columns, checked, plan, share, page, saving, sums, label, drawing, due,
                         settling, sent>>
          /\ clicks' \in 0..MaxClicks
      BY <2>7, <2>0 DEF ToggleDeposit
    <3> QED BY <2>p, <3>1, <3>2 DEF PageType, saving
  <2>8. CASE ToggleCapitalization
    <3> DEFINE b == ~boxes.capitalization
    <3>1. boxes' = [boxes EXCEPT !.capitalization = b]
      BY <2>8 DEF ToggleCapitalization
    <3>2. b \in BOOLEAN
      OBVIOUS
    <3> HIDE DEF b
    <3>3. boxes' \in [deposit : BOOLEAN, capitalization : BOOLEAN, enabled : BOOLEAN]
      BY <2>p, <3>1, <3>2 DEF PageType
    <3> QED BY <2>p, <2>8, <2>0, <3>3 DEF PageType, ToggleCapitalization, saving
  <2>9. CASE Launch
    <3>1. InitStatisticPage(checked) /\ RebuildSlider(sums) /\ checked \in Currencies
      BY <2>p, <2>9 DEF PageType, Launch
    <3>2. /\ money' \in Money /\ last' \in Currencies /\ trace' \in Trace
          /\ label' \in Currencies /\ settling' \in BOOLEAN
      BY <3>1, InitPageTypes
    <3>3. share' \in 0..100
      BY <2>p, <3>1, RebuildTypes DEF PageType, Money
    <3>4. sent'.currency \in Currencies
      BY <2>p, <2>9 DEF PageType, Launch, Put
    <3>5. /\ UNCHANGED <<known, columns, checked, boxes, field, sums, drawing>>
          /\ page' = "statistic" /\ due' \subseteq {"launch", "button"}
          /\ plan' \in [deposit : BOOLEAN, capitalization : BOOLEAN]
          /\ clicks' \in 0..MaxClicks
      BY <2>p, <2>9, <2>0 DEF PageType, Launch
    <3> QED BY <2>p, <3>2, <3>3, <3>4, <3>5 DEF PageType, Money, Trace
  <2>10. ASSUME NEW c \in Currencies, ClickCurrency(c)
         PROVE  PageType'
    <3>1. InitStatisticPage(c) /\ RebuildSlider(sums') /\ sums' = SumsOf(known, columns, c)
      BY <2>10 DEF ClickCurrency
    <3>2. /\ money' \in Money /\ last' \in Currencies /\ trace' \in Trace
          /\ label' \in Currencies /\ settling' \in BOOLEAN
      BY <3>1, InitPageTypes
    <3>3. /\ sums' \in [inc : Nat \cup {Broken}, exp : Nat \cup {Broken}, known : BOOLEAN]
          /\ (sums'.inc = Broken) = (sums'.exp = Broken)
      BY <2>p, <3>1, SumsFacts DEF PageType
    <3>4. share' \in 0..100
      BY <2>p, <3>1, <3>3, RebuildTypes DEF PageType, Money
    <3>5. /\ UNCHANGED <<known, columns, boxes, plan, field, drawing, page, sent>>
          /\ checked' = c /\ due' \subseteq {"launch", "button"}
          /\ clicks' \in 0..MaxClicks
      BY <2>p, <2>10, <2>0 DEF PageType, ClickCurrency
    <3> QED BY <2>p, <3>2, <3>3, <3>4, <3>5 DEF PageType, Money, Trace
  <2>11. ASSUME NEW percent \in Stops, Slide(percent)
         PROVE  PageType'
    <3>1. percent \in 0..100
      BY PageAssumption DEF PageAssumption
    <3>2. Delta \in Int
      BY <2>p DEF PageType, Delta, NotNumbers, Broken
    <3>3. share' \in 0..100
      BY <2>11, <3>1, <3>2, SliderFacts DEF TypeOK, Slide
    <3> QED BY <2>p, <2>11, <2>0, <3>3 DEF PageType, Slide, saving
  <2>12. CASE Back
    <3>1. field' \in Nat
      BY <2>p, <2>12, Rounding DEF PageType, Back
    <3> QED BY <2>p, <2>12, <2>0, <3>1 DEF PageType, Back
  <2>13. CASE UNCHANGED vars
    BY <2>p, <2>13 DEF PageType, vars, controls, saving
  <2> QED BY <2>1, <2>2, <2>3, <2>4, <2>5, <2>6, <2>7, <2>8, <2>9, <2>10, <2>11, <2>12, <2>13,
             <2>14 DEF Next
<1>3. TypeOK /\ [Next]_vars => TypeOK'
  BY <1>2, DrawingTypes, TypeParts
<1> QED BY <1>1, <1>3, PTL DEF Spec

-----------------------------------------------------------------------------
(* Forecast. *)

\* Whatever changes sums, savings or deposit leaves a timer that draws again.
MonthsInv ==
  page = "statistic" /\ due = {} => drawn \in {Forecast(share), Forecast(100)}

\* The last of the timers that set the year-end number is that of the last draw, and
\* the longer ones are gone when it fires, unless the draw overtook one.
YearEndInv ==
  overtook \/ /\ writes = <<>> => yearEnd = drawn
              /\ writes # <<>> => writes[Len(writes)].of = drawn
              /\ \A j \in 1..Len(writes) : writes[j].time <= writes[Len(writes)].time

LEMMA MonthsNext == MonthsInv /\ [Next]_vars => MonthsInv'
<1> SUFFICES ASSUME MonthsInv, [Next]_vars, page' = "statistic", due' = {}
             PROVE  drawn' \in {Forecast(share)', Forecast(100)'}
  BY DEF MonthsInv
<1> USE DEF MonthsInv, Forecast, Delta, NotNumbers
<1>1. CASE RatesArrive
  BY <1>1 DEF RatesArrive, controls, saving, drawing
<1>2. CASE Settle
  BY <1>2 DEF Settle, controls, saving, drawing
<1>3. ASSUME NEW timer \in {"launch", "button"}, Draw(timer)
      PROVE  drawn' \in {Forecast(share)', Forecast(100)'}
  BY <1>3 DEF Draw, InitSavingsCircles, controls, saving
<1>4. ASSUME NEW k \in DOMAIN writes, SetPreciseValue(k)
      PROVE  drawn' \in {Forecast(share)', Forecast(100)'}
  BY <1>4 DEF SetPreciseValue, controls, saving
<1>5. CASE EditItems
  BY <1>5 DEF EditItems, controls
<1>6. CASE ClickSign
  BY <1>6 DEF ClickSign
<1>7. CASE TouchField
  BY <1>7 DEF TouchField, controls
<1>8. CASE ToggleDeposit
  BY <1>8 DEF ToggleDeposit
<1>9. CASE ToggleCapitalization
  BY <1>9 DEF ToggleCapitalization
<1>10. CASE Launch
  BY <1>10 DEF Launch
<1>11. ASSUME NEW c \in Currencies, ClickCurrency(c)
       PROVE  FALSE
  BY <1>11 DEF ClickCurrency
<1>12. ASSUME NEW percent \in Stops, Slide(percent)
       PROVE  drawn' \in {Forecast(share)', Forecast(100)'}
  BY <1>12 DEF Slide, InitSavingsCircles, saving
<1>13. CASE Back
  BY <1>13 DEF Back, drawing
<1>14. CASE UNCHANGED vars
  BY <1>14 DEF vars, controls, saving, drawing
<1> QED BY <1>1, <1>2, <1>3, <1>4, <1>5, <1>6, <1>7, <1>8, <1>9, <1>10, <1>11, <1>12, <1>13,
           <1>14 DEF Next

\* A draw that overtakes no timer has the longest and the last of them.
LEMMA DrawKeepsYearEnd ==
  ASSUME TypeOK, YearEndInv, NEW p \in 0..100, NEW t \in {200, 700},
         InitSavingsCircles(p, t)
  PROVE  YearEndInv'
<1> SUFFICES ASSUME ~overtook'
             PROVE  /\ writes' # <<>> /\ writes'[Len(writes')].of = drawn'
                    /\ \A j \in 1..Len(writes') : writes'[j].time <= writes'[Len(writes')].time
  BY DEF YearEndInv
<1> DEFINE w == [of |-> drawn', time |-> t]
           n == Len(writes)
<1>1. writes \in Writes /\ n \in Nat
  BY DEF TypeOK, Writes
<1>2. /\ writes' = Append(writes, w) /\ w.of = drawn' /\ w.time = t
      /\ \A j \in 1..n : ~(writes[j].time > t)
  BY <1>1 DEF InitSavingsCircles, Writes
<1> HIDE DEF w
<1>3. /\ Len(writes') = n + 1 /\ writes'[n + 1] = w /\ writes' # <<>>
      /\ \A j \in 1..n : writes'[j] = writes[j]
  BY <1>1, <1>2 DEF Writes
<1>4. \A j \in 1..n : writes[j].time \in {200, 700}
  BY <1>1, WritesFacts
<1> HIDE DEF n
<1>5. ASSUME NEW j \in 1..(n + 1)
      PROVE  writes'[j].time <= t
  <2>1. CASE j = n + 1
    BY <1>2, <1>3, <2>1
  <2>2. CASE j # n + 1
    <3>1. j \in 1..n /\ writes'[j] = writes[j]
      BY <1>1, <1>3, <2>2
    <3> QED BY <1>2, <1>4, <3>1
  <2> QED BY <2>1, <2>2
<1> QED BY <1>2, <1>3, <1>5

\* The last timer of a draw that overtook none fires when no other is left.
LEMMA TimerKeepsYearEnd ==
  ASSUME TypeOK, YearEndInv, NEW k \in DOMAIN writes, SetPreciseValue(k)
  PROVE  YearEndInv'
<1> SUFFICES ASSUME ~overtook
             PROVE  /\ writes' = <<>> => yearEnd' = drawn
                    /\ writes' # <<>> => writes'[Len(writes')].of = drawn
                    /\ \A j \in 1..Len(writes') : writes'[j].time <= writes'[Len(writes')].time
  BY DEF YearEndInv, SetPreciseValue
<1> DEFINE n == Len(writes)
<1>1. /\ writes \in Writes /\ n \in Nat /\ k \in 1..n /\ writes # <<>>
      /\ \A j \in 1..n : writes[j].time \in {200, 700}
  <2>1. writes \in Writes
    BY DEF TypeOK, Writes
  <2>2. k \in 1..n /\ n \in Nat
    BY <2>1, WritesFacts
  <2>3. writes # <<>>
    BY <2>2, EmptySeq
  <2> QED BY <2>1, <2>2, <2>3, WritesFacts
<1>2. /\ writes[n].of = drawn
      /\ \A j \in 1..n : writes[j].time <= writes[n].time
  BY <1>1 DEF YearEndInv
<1>3. /\ \A j \in 1..(k - 1) : writes[j].time > writes[k].time
      /\ yearEnd' = writes[k].of /\ writes' = RemoveAt(writes, k)
  BY DEF SetPreciseValue
<1>4. /\ writes' \in Writes /\ Len(writes') = n - 1
      /\ \A j \in 1..(n - 1) : writes'[j] = IF j < k THEN writes[j] ELSE writes[j + 1]
  <2> DEFINE S == [of : Forecasts, time : {200, 700}]
  <2>1. writes \in Seq(S) /\ k \in 1..Len(writes)
    BY <1>1 DEF Writes
  <2> HIDE DEF S
  <2>2. /\ RemoveAt(writes, k) \in Seq(S) /\ Len(RemoveAt(writes, k)) = n - 1
        /\ \A j \in 1..(n - 1) :
             RemoveAt(writes, k)[j] = IF j < k THEN writes[j] ELSE writes[j + 1]
    BY <2>1, Removed
  <2> QED BY <1>3, <2>2 DEF S, Writes
<1> HIDE DEF n
<1>5. CASE k = n
  <2>1. n = 1
    <3> SUFFICES ASSUME n # 1 PROVE FALSE
      OBVIOUS
    <3>1. 1 \in 1..(k - 1) /\ 1 \in 1..n
      BY <1>1, <1>5
    <3> QED BY <1>1, <1>2, <1>3, <1>5, <3>1
  <2>2. writes' = <<>>
    BY <1>4, <2>1 DEF Writes
  <2>3. Len(writes') = 0
    BY <1>4, <2>1
  <2> QED BY <1>2, <1>3, <1>5, <2>2, <2>3
<1>6. CASE k # n
  <2>1. n - 1 \in 1..(n - 1) /\ writes'[n - 1] = writes[n]
    BY <1>1, <1>4, <1>6
  <2>2. writes' # <<>>
    BY <1>4, <2>1 DEF Writes
  <2>3. ASSUME NEW j \in 1..(n - 1) PROVE writes'[j].time <= writes[n].time
    <3>1. j \in 1..n /\ j + 1 \in 1..n
      BY <1>1
    <3>2. writes'[j] = writes[j] \/ writes'[j] = writes[j + 1]
      BY <1>4
    <3> QED BY <1>2, <3>1, <3>2
  <2> QED BY <1>2, <1>4, <2>1, <2>2, <2>3
<1> QED BY <1>5, <1>6

\* Once all timers have fired the months of the forecast are of what the page shows,
\* and so is the number of the end of the year, unless the last draw overtook a longer
\* one.
THEOREM ForecastsAreCurrent == Spec => []ForecastIsCurrent
<1>1. Init => MonthsInv /\ YearEndInv
  <2> SUFFICES ASSUME Init PROVE MonthsInv /\ YearEndInv
    OBVIOUS
  <2>1. writes = <<>> /\ yearEnd = drawn
    BY DEF Init
  <2>2. Len(writes) = 0
    BY <2>1
  <2>3. YearEndInv
    BY <2>1, <2>2 DEF YearEndInv
  <2> QED BY <2>3 DEF Init, MonthsInv
<1>2. TypeOK /\ YearEndInv /\ [Next]_vars => YearEndInv'
  <2> SUFFICES ASSUME TypeOK, YearEndInv, [Next]_vars PROVE YearEndInv'
    OBVIOUS
  <2>1. CASE UNCHANGED drawing
    BY <2>1 DEF YearEndInv, drawing
  <2>2. ASSUME NEW timer \in {"launch", "button"}, Draw(timer)
        PROVE  YearEndInv'
    <3>1. (IF timer = "launch" THEN 100 ELSE share) \in 0..100
      BY DEF TypeOK
    <3> QED BY <2>2, <3>1, DrawKeepsYearEnd DEF Draw
  <2>3. ASSUME NEW percent \in Stops, Slide(percent)
        PROVE  YearEndInv'
    <3>1. AnimateTime \in {200, 700} /\ InitSavingsCircles(share', AnimateTime)
      BY <2>3 DEF AnimateTime, Slide
    <3>2. share' \in 0..100
      BY <2>3, SlideTypes
    <3> QED BY <3>1, <3>2, DrawKeepsYearEnd
  <2> QED BY <2>1, <2>2, <2>3, DrawingStep, TimerKeepsYearEnd
<1>3. MonthsInv /\ YearEndInv => ForecastIsCurrent
  BY DEF MonthsInv, YearEndInv, ForecastIsCurrent
<1>4. Spec => [](MonthsInv /\ YearEndInv)
  BY <1>1, <1>2, MonthsNext, PageTypeCorrect, PTL DEF Spec
<1> QED BY <1>3, <1>4, PTL

-----------------------------------------------------------------------------
(* Sums and label. *)

\* Sums computed with rates are those of the items shown, in the currency that
\* is selected: a failing slider keeps the sums only if they were no numbers.
SumsKept == sums.known => sums = SumsOf(TRUE, columns, checked)
LabelKept == page = "statistic" => (label = checked \/ trace.skipped)

\* Sums that are computed with the known rates are those SumsKept asks for.
LEMMA SumsComputed ==
  ASSUME NEW a \in Accounts, NEW k \in BOOLEAN, NEW c \in Currencies,
         NEW s, s = SumsOf(k, a, c), s.known
  PROVE  s = SumsOf(TRUE, a, c)
<1>1. k = TRUE
  BY SumsFacts
<1> QED BY <1>1

\* The sums of getConverted are the true ones but for its snap at small incomes.
LEMMA SumsAreTrue ==
  ASSUME NEW a \in Accounts, NEW c \in Currencies
  PROVE  LET s   == SumsOf(TRUE, a, c)
             inc == Total(TRUE, a.income, c)
             exp == Total(TRUE, a.expense, c)
         IN  \/ s = [inc |-> inc, exp |-> IF Abs(inc - exp) < 10 THEN inc ELSE exp, known |-> TRUE]
             \/ s.inc \in 1..9
<1> DEFINE s   == SumsOf(TRUE, a, c)
           inc == Total(TRUE, a.income, c)
           exp == Total(TRUE, a.expense, c)
           start == Snap(inc, 0)
<1>1. inc \in Nat /\ exp \in Nat
  <2>1. RateWhen(TRUE, c) # 0
    BY RateFacts
  <2> QED BY <2>1, TotalFacts
<1> HIDE DEF inc, exp
<1>2. inc # Broken /\ exp # Broken
  BY <1>1, SMT DEF Broken
<1>3. s = [inc |-> inc, exp |-> Snap(inc, start + exp), known |-> TRUE]
  BY <1>1, <1>2 DEF SumsOf, inc, exp
<1>4. inc \in 1..9 \/ start = 0
  BY <1>1 DEF Snap, Abs
<1> HIDE DEF start, s
<1>5. inc \in 1..9 => s.inc \in 1..9
  BY <1>3
<1>6. start = 0 => s = [inc |-> inc, exp |-> IF Abs(inc - exp) < 10 THEN inc ELSE exp,
                        known |-> TRUE]
  BY <1>1, <1>3 DEF Snap
<1> QED BY <1>4, <1>5, <1>6 DEF s, inc, exp

\* Page 4 shows the sums of the items in the currency it names, in every reachable
\* state: PageFourAgrees, with the two cases it excepts.
THEOREM SumsAreShown == Spec => []PageFourAgrees
<1>1. Init => SumsKept /\ LabelKept
  <2> SUFFICES ASSUME Init PROVE SumsKept /\ LabelKept
    OBVIOUS
  <2>1. columns \in Accounts /\ known \in BOOLEAN /\ checked \in Currencies
    BY DEF Init
  <2>2. sums = SumsOf(known, columns, checked)
    BY DEF Init
  <2>3. SumsKept
    BY <2>1, <2>2, SumsComputed DEF SumsKept
  <2> QED BY <2>3 DEF Init, LabelKept
<1>2. TypeOK /\ SumsKept /\ LabelKept /\ [Next]_vars => SumsKept' /\ LabelKept'
  <2> SUFFICES ASSUME TypeOK, SumsKept, LabelKept, [Next]_vars
               PROVE  SumsKept' /\ LabelKept'
    OBVIOUS
  <2>0. columns \in Accounts /\ known \in BOOLEAN /\ checked \in Currencies
    BY DEF TypeOK
  <2>1. CASE RatesArrive
    BY <2>1 DEF RatesArrive, controls, saving, SumsKept, LabelKept
  <2>2. CASE Settle
    BY <2>2 DEF Settle, controls, saving, SumsKept, LabelKept
  <2>3. ASSUME NEW timer \in {"launch", "button"}, Draw(timer)
        PROVE  SumsKept' /\ LabelKept'
    BY <2>3 DEF Draw, controls, saving, SumsKept, LabelKept
  <2>14. ASSUME NEW k \in DOMAIN writes, SetPreciseValue(k)
         PROVE  SumsKept' /\ LabelKept'
    BY <2>14 DEF SetPreciseValue, controls, saving, SumsKept, LabelKept
  <2>4. CASE EditItems
    <3>1. /\ columns' \in Accounts /\ sums' = SumsOf(known, columns', checked)
          /\ checked' = checked /\ page = "settings" /\ page' = page
      BY <2>4 DEF EditItems, controls
    <3>2. SumsKept'
      BY <2>0, <3>1, SumsComputed DEF SumsKept
    <3> QED BY <3>1, <3>2 DEF LabelKept
  <2>5. CASE ClickSign
    <3>1. /\ page = "settings" /\ page' = page /\ columns' = columns
          /\ IF NotNumbers(sums) THEN sums' = sums ELSE sums' = SumsOf(known, columns, checked')
      BY <2>5 DEF ClickSign
    <3>2. checked' \in Currencies
      BY <2>0, <2>5 DEF ClickSign, Currencies
    <3>3. CASE NotNumbers(sums)
      <4>1. ~sums.known
        <5>1. SumsOf(TRUE, columns, checked).inc # Broken
          BY <2>0, SumsFacts, RateFacts
        <5> QED BY <3>3, <5>1 DEF SumsKept, NotNumbers
      <4> QED BY <3>1, <3>3, <4>1 DEF SumsKept, LabelKept
    <3>4. CASE ~NotNumbers(sums)
      BY <2>0, <3>1, <3>2, <3>4, SumsComputed DEF SumsKept, LabelKept
    <3> QED BY <3>3, <3>4
  <2>6. CASE TouchField
    BY <2>6 DEF TouchField, controls, SumsKept, LabelKept
  <2>7. CASE ToggleDeposit
    BY <2>7 DEF ToggleDeposit, saving, SumsKept, LabelKept
  <2>8. CASE ToggleCapitalization
    BY <2>8 DEF ToggleCapitalization, saving, SumsKept, LabelKept
  <2>9. CASE Launch
    <3>1. sums' = sums /\ columns' = columns /\ checked' = checked /\ InitStatisticPage(checked)
      BY <2>9 DEF Launch
    <3>2. label' = checked \/ trace'.skipped
      BY <3>1 DEF InitStatisticPage, TypeOK
    <3> QED BY <3>1, <3>2 DEF SumsKept, LabelKept
  <2>10. ASSUME NEW c \in Currencies, ClickCurrency(c)
         PROVE  SumsKept' /\ LabelKept'
    <3>1. /\ sums' = SumsOf(known, columns, c) /\ columns' = columns /\ checked' = c
          /\ InitStatisticPage(c)
      BY <2>10 DEF ClickCurrency
    <3>2. label' = c \/ trace'.skipped
      BY <3>1 DEF InitStatisticPage, TypeOK
    <3>3. SumsKept'
      BY <2>0, <3>1, SumsComputed DEF SumsKept
    <3> QED BY <3>1, <3>2, <3>3 DEF LabelKept
  <2>11. ASSUME NEW percent \in Stops, Slide(percent)
         PROVE  SumsKept' /\ LabelKept'
    BY <2>11 DEF Slide, saving, SumsKept, LabelKept
  <2>12. CASE Back
    BY <2>12 DEF Back, SumsKept, LabelKept
  <2>13. CASE UNCHANGED vars
    BY <2>13 DEF vars, controls, saving, SumsKept, LabelKept
  <2> QED BY <2>1, <2>2, <2>3, <2>4, <2>5, <2>6, <2>7, <2>8, <2>9, <2>10, <2>11, <2>12, <2>13,
             <2>14
          DEF Next
<1>3. TypeOK /\ SumsKept /\ LabelKept => PageFourAgrees
  <2> SUFFICES ASSUME TypeOK, SumsKept, sums.known PROVE sums = TrueSums \/ sums.inc \in 1..9
    BY DEF PageFourAgrees, LabelKept
  <2>1. columns \in Accounts /\ checked \in Currencies /\ sums = SumsOf(TRUE, columns, checked)
    BY DEF TypeOK, SumsKept
  <2> QED BY <2>1, SumsAreTrue DEF TrueSums
<1> QED BY <1>1, <1>2, <1>3, PageTypeCorrect, PTL DEF Spec

-----------------------------------------------------------------------------
(* What is saved. *)

\* The savings are in the selected currency unless a call was dropped, and they
\* are a number unless they were converted before the rates were known.
SavingsInv ==
  /\ checked = last \/ trace.skipped
  /\ money = Broken => trace.early

\* A conversion leaves the savings in the currency it names; only an early one breaks them.
LEMMA ChangeKeeps ==
  ASSUME TypeOK, money = Broken => trace.early, NEW c \in Currencies, ChangeCurrency(c)
  PROVE  /\ last' = c /\ ~trace'.skipped
         /\ money' = Broken => trace'.early
<1>1. trace \in Trace /\ known \in BOOLEAN /\ last \in Currencies
  BY DEF TypeOK, Trace
<1>2. /\ last' = c /\ trace'.skipped = FALSE
      /\ trace'.early = (trace.early \/ (c # last /\ ~known))
  BY <1>1 DEF ChangeCurrency, Trace
<1>3. ASSUME money' = Broken, ~trace.early
      PROVE  c # last /\ ~known
  <2>1. money \in Nat
    BY <1>3 DEF TypeOK
  <2>2. c # last /\ Exchange(known, money, last, c) = Broken
    BY <1>3 DEF ChangeCurrency
  <2>3. ~(Exchange(known, money, last, c) \in Nat)
    BY <2>2 DEF Broken
  <2>4. RateWhen(known, c) = 0
    BY <1>1, <2>1, <2>3, ExchangeFacts
  <2> QED BY <1>1, <2>2, <2>4, RateFacts
<1> QED BY <1>2, <1>3

\* So does initStatisticPage, also when the debounce drops the conversion.
LEMMA InitPageKeeps ==
  ASSUME TypeOK, money = Broken => trace.early, NEW c \in Currencies, InitStatisticPage(c)
  PROVE  /\ last' = c \/ trace'.skipped
         /\ money' = Broken => trace'.early
<1>1. CASE settling
  BY <1>1 DEF TypeOK, InitStatisticPage
<1>2. CASE ~settling
  BY <1>2, ChangeKeeps DEF InitStatisticPage
<1> QED BY <1>1, <1>2

\* A PUT sends a number unless the savings are none.
LEMMA AmountFacts ==
  ASSUME NEW m \in Money, m # Broken
  PROVE  (m + 999) \div 1000 # Broken
<1>1. m \in Nat
  BY DEF Money
<1>2. m + 999 \in Nat
  BY <1>1
<1>3. (m + 999) \div 1000 \in Nat
  BY <1>2, Division
<1> QED BY <1>3, SMT DEF Broken

\* A PUT by a page that keeps SavingsInv is labelled as it should be.
LEMMA PutFacts ==
  ASSUME money' \in Money, NEW c, Put(c)
  PROVE  /\ sent'.currency = c /\ sent'.unit = last' /\ sent'.skipped = trace'.skipped
         /\ sent'.amount = Broken => money' = Broken
<1>0. PICK m \in Money : m = money'
  OBVIOUS
<1> DEFINE amount == IF m = Broken THEN Broken ELSE (m + 999) \div 1000
<1>1. amount = Broken => m = Broken
  BY AmountFacts
<1>2. sent' = [amount |-> amount, currency |-> c, unit |-> last', skipped |-> trace'.skipped]
  BY <1>0 DEF Put
<1> HIDE DEF amount
<1> QED BY <1>0, <1>1, <1>2

\* Every save names the currency of its amount and holds a number, but for the
\* two cases the property names: for all rates, accounts and numbers of clicks.
THEOREM SavesAreLabelled == Spec => []SavedMoneyIsLabelled
<1>1. Init => SavingsInv /\ SavedMoneyIsLabelled
  <2> SUFFICES ASSUME Init PROVE SavingsInv /\ SavedMoneyIsLabelled
    OBVIOUS
  <2>1. money \in Nat
    BY PageAssumption DEF PageAssumption, Init
  <2>2. money # Broken /\ 0 # Broken
    BY <2>1, SMT DEF Broken
  <2> QED BY <2>2 DEF Init, Nothing, SavingsInv, SavedMoneyIsLabelled
<1>2. TypeOK /\ SavingsInv /\ SavedMoneyIsLabelled /\ [Next]_vars
        => SavingsInv' /\ SavedMoneyIsLabelled'
  <2> SUFFICES ASSUME TypeOK, SavingsInv, SavedMoneyIsLabelled, [Next]_vars
               PROVE  SavingsInv' /\ SavedMoneyIsLabelled'
    OBVIOUS
  <2>0. /\ trace \in Trace /\ money \in Money /\ last \in Currencies /\ checked \in Currencies
        /\ money = Broken => trace.early
    BY DEF TypeOK, SavingsInv, Trace, Money
  <2>q. ASSUME UNCHANGED <<checked, last, money, trace, sent>>
        PROVE  SavingsInv' /\ SavedMoneyIsLabelled'
    BY <2>q DEF SavingsInv, SavedMoneyIsLabelled
  <2>1. CASE RatesArrive
    BY <2>1, <2>q DEF RatesArrive, controls, saving
  <2>2. CASE Settle
    BY <2>2, <2>q DEF Settle, controls, saving
  <2>3. ASSUME NEW timer \in {"launch", "button"}, Draw(timer)
        PROVE  SavingsInv' /\ SavedMoneyIsLabelled'
    BY <2>3, <2>q DEF Draw, controls, saving
  <2>14. ASSUME NEW k \in DOMAIN writes, SetPreciseValue(k)
         PROVE  SavingsInv' /\ SavedMoneyIsLabelled'
    BY <2>14, <2>q DEF SetPreciseValue, controls, saving
  <2>4. CASE EditItems
    <3>1. UNCHANGED <<checked, last, money, trace>> /\ Put(checked)
      BY <2>4 DEF EditItems, controls, saving
    <3> QED BY <2>0, <3>1, PutFacts DEF SavingsInv, SavedMoneyIsLabelled
  <2>5. CASE ClickSign
    <3>1. checked' \in Currencies /\ ChangeCurrency(checked') /\ sent' = sent
      BY <2>0, <2>5 DEF ClickSign, Currencies
    <3>2. last' = checked' /\ (money' = Broken => trace'.early)
      BY <2>0, <3>1, ChangeKeeps
    <3>3. trace.early => trace'.early
      BY <2>0, <3>1 DEF ChangeCurrency, Trace
    <3> QED BY <3>1, <3>2, <3>3 DEF SavingsInv, SavedMoneyIsLabelled
  <2>6. CASE TouchField
    <3>1. /\ UNCHANGED <<checked, last, sent>> /\ money' = 1000 * field /\ field \in Nat
          /\ trace' = [trace EXCEPT !.touches = @ + 1]
      BY <2>6 DEF TouchField, controls, TypeOK
    <3>2. money' # Broken
      <4>1. 1000 * field \in Nat
        BY <3>1
      <4> QED BY <3>1, <4>1, SMT DEF Broken
    <3>3. trace'.skipped = trace.skipped /\ trace'.early = trace.early
      BY <2>0, <3>1 DEF Trace
    <3> QED BY <3>1, <3>2, <3>3 DEF SavingsInv, SavedMoneyIsLabelled
  <2>7. CASE ToggleDeposit
    BY <2>7, <2>q DEF ToggleDeposit, saving
  <2>8. CASE ToggleCapitalization
    BY <2>8, <2>q DEF ToggleCapitalization, saving
  <2>9. CASE Launch
    <3>1. /\ checked' = checked /\ InitStatisticPage(checked)
          /\ IF NotNumbers(sums) THEN sent' = sent ELSE Put(checked)
      BY <2>9 DEF Launch
    <3>2. (last' = checked \/ trace'.skipped) /\ (money' = Broken => trace'.early)
      BY <2>0, <3>1, InitPageKeeps
    <3>3. trace.early => trace'.early
      BY <2>0, <3>1 DEF InitStatisticPage, ChangeCurrency, Trace
    <3>4. money' \in Money
      BY <2>0, <3>1, InitPageTypes
    <3>5. CASE NotNumbers(sums)
      BY <3>1, <3>2, <3>3, <3>5 DEF SavingsInv, SavedMoneyIsLabelled
    <3>6. CASE ~NotNumbers(sums)
      BY <3>1, <3>2, <3>4, <3>6, PutFacts DEF SavingsInv, SavedMoneyIsLabelled
    <3> QED BY <3>5, <3>6
  <2>10. ASSUME NEW c \in Currencies, ClickCurrency(c)
         PROVE  SavingsInv' /\ SavedMoneyIsLabelled'
    <3>1. checked' = c /\ InitStatisticPage(c) /\ sent' = sent
      BY <2>10 DEF ClickCurrency
    <3>2. (last' = c \/ trace'.skipped) /\ (money' = Broken => trace'.early)
      BY <2>0, <3>1, InitPageKeeps
    <3>3. trace.early => trace'.early
      BY <2>0, <3>1 DEF InitStatisticPage, ChangeCurrency, Trace
    <3> QED BY <3>1, <3>2, <3>3 DEF SavingsInv, SavedMoneyIsLabelled
  <2>11. ASSUME NEW percent \in Stops, Slide(percent)
         PROVE  SavingsInv' /\ SavedMoneyIsLabelled'
    BY <2>11, <2>q DEF Slide, saving
  <2>12. CASE Back
    BY <2>12, <2>q DEF Back
  <2>13. CASE UNCHANGED vars
    BY <2>13, <2>q DEF vars, controls, saving
  <2> QED BY <2>1, <2>2, <2>3, <2>4, <2>5, <2>6, <2>7, <2>8, <2>9, <2>10, <2>11, <2>12, <2>13,
             <2>14
          DEF Next
<1> QED BY <1>1, <1>2, PageTypeCorrect, PTL DEF Spec

-----------------------------------------------------------------------------
(* Money. *)

Largest == Max({1, Rates["EUR"], Rates["USD"]})
Roubles(m, c) == m * RateWhen(TRUE, c)

\* Savings m in currency l are what the account came with, but for roundings.
Kept(m, l, t) ==
  /\ m # Broken
  /\ Abs(Roubles(m, l) - Roubles(1000 * FreeMoney, t.from))
       <= Largest * (t.conversions + 500 * t.touches)

\* What the field of the settings page shows is the savings to the nearest unit.
FieldInv == page = "settings" /\ money # Broken => Abs(1000 * field - money) <= 500

\* No known rate is above Largest.
LEMMA LargestFacts ==
  /\ Largest \in Nat
  /\ \A c \in Currencies : RateWhen(TRUE, c) \in Nat /\ RateWhen(TRUE, c) <= Largest
<1> DEFINE S == {1, Rates["EUR"], Rates["USD"]}
<1>1. Rates["EUR"] \in Nat /\ Rates["USD"] \in Nat
  BY PageAssumption DEF PageAssumption
<1>2. \E m \in S : \A x \in S : m >= x
  <2>1. \E m \in {1, Rates["EUR"]} : \A x \in {1, Rates["EUR"]} : m >= x
    BY <1>1
  <2> QED BY <1>1, <2>1
<1>3. Largest \in S /\ \A x \in S : Largest >= x
  BY <1>2, Zenon DEF Largest, Max
<1>4. \A c \in Currencies : RateWhen(TRUE, c) \in S
  BY DEF RateWhen, Currencies
<1>5. Largest \in Nat
  BY <1>1, <1>3
<1>6. \A x \in S : x \in Nat /\ x <= Largest
  BY <1>1, <1>3, <1>5
<1> HIDE DEF S
<1> QED BY <1>4, <1>5, <1>6

\* A conversion with known rates is off by at most the rate of its target.
LEMMA ConversionDrift ==
  ASSUME NEW m \in Nat, NEW from \in Currencies, NEW to \in Currencies, NEW k \in BOOLEAN, k
  PROVE  /\ Exchange(k, m, from, to) \in Nat
         /\ Abs(Roubles(Exchange(k, m, from, to), to) - Roubles(m, from)) <= Largest
<1> DEFINE r == RateWhen(TRUE, to)
           a == m * RateWhen(TRUE, from)
<1>1. r \in Nat /\ r # 0 /\ r <= Largest /\ Largest \in Nat
  BY RateFacts, LargestFacts
<1>2. a \in Nat
  <2>1. RateWhen(TRUE, from) \in Nat
    BY RateFacts
  <2>2. \A x, y \in Nat : x * y \in Nat
    OBVIOUS
  <2> QED BY <2>1, <2>2
<1>3. Exchange(k, m, from, to) = RoundDiv(a, r) /\ Exchange(k, m, from, to) \in Nat
  <2>1. RateWhen(k, to) = r /\ RateWhen(k, from) = RateWhen(TRUE, from)
    BY RateFacts
  <2> QED BY <1>1, <2>1, ExchangeFacts
<1> HIDE DEF a, r
<1>4. RoundDiv(a, r) \in Nat /\ 2 * Abs(RoundDiv(a, r) * r - a) <= r
  BY <1>1, <1>2, Rounding
<1>5. Abs(RoundDiv(a, r) * r - a) <= Largest
  <2> DEFINE x == RoundDiv(a, r) * r - a
  <2>1. x \in Int
    BY <1>1, <1>2, <1>4
  <2> HIDE DEF x
  <2>2. Abs(x) \in Nat
    BY <2>1 DEF Abs
  <2>3. 2 * Abs(x) <= r
    BY <1>4 DEF x
  <2>4. Abs(x) <= Largest
    BY <1>1, <2>2, <2>3
  <2> QED BY <2>4 DEF x
<1> QED BY <1>3, <1>5 DEF Roubles, a, r

\* Drifts add up.
LEMMA DriftsAdd ==
  ASSUME NEW a \in Int, NEW b \in Int, NEW c \in Int, NEW p \in Int, NEW q \in Int,
         Abs(a - b) <= p, Abs(b - c) <= q
  PROVE  Abs(a - c) <= q + p
BY DEF Abs

\* The allowances for k and for x add up to that for both.
LEMMA Allowances ==
  ASSUME NEW k \in Nat, NEW x \in Nat
  PROVE  /\ Largest * k \in Int /\ Largest * x \in Int
         /\ Largest * (k + x) = Largest * k + Largest * x
<1>1. \A y \in Nat : /\ y * k \in Int /\ y * x \in Int
                     /\ y * (k + x) = y * k + y * x
  OBVIOUS
<1> QED BY <1>1, LargestFacts

\* Savings in roubles are a whole number of thousandths.
LEMMA RoublesType ==
  ASSUME NEW m \in Nat, NEW c \in Currencies
  PROVE  Roubles(m, c) \in Int
<1>1. RateWhen(TRUE, c) \in Nat
  BY RateFacts
<1>2. \A x, y \in Nat : x * y \in Int
  OBVIOUS
<1> QED BY <1>1, <1>2 DEF Roubles

\* MoneySurvivesSwitching in the form the steps below keep.
LEMMA MoneyForm == MoneySurvivesSwitching <=> trace.early \/ Kept(money, last, trace)
BY DEF MoneySurvivesSwitching, Kept, Roubles, Largest

\* A conversion of the savings keeps them within the allowance.
LEMMA ChangeDrifts ==
  ASSUME NEW m \in Money, NEW l \in Currencies, NEW t \in Trace, NEW k \in BOOLEAN,
         NEW c \in Currencies, c # l, k, Kept(m, l, t),
         NEW u \in Trace, u.from = t.from, u.conversions = t.conversions + 1, u.touches = t.touches
  PROVE  Kept(Exchange(k, m, l, c), c, u)
<1>1. m \in Nat
  BY DEF Kept, Money
<1> DEFINE e == Exchange(k, m, l, c)
<1>2. e \in Nat /\ Abs(Roubles(e, c) - Roubles(m, l)) <= Largest
  BY <1>1, ConversionDrift
<1> HIDE DEF e
<1>3. /\ Roubles(e, c) \in Int /\ Roubles(m, l) \in Int
      /\ Roubles(1000 * FreeMoney, t.from) \in Int
  <2>1. 1000 * FreeMoney \in Nat /\ t.from \in Currencies
    BY PageAssumption DEF PageAssumption, Trace
  <2> QED BY <1>1, <1>2, <2>1, RoublesType
<1> DEFINE n == t.conversions + 500 * t.touches
<1>4. n \in Nat /\ u.conversions + 500 * u.touches = n + 1
  BY DEF Trace
<1>5. Abs(Roubles(m, l) - Roubles(1000 * FreeMoney, t.from)) <= Largest * n
  BY DEF Kept
<1> HIDE DEF n
<1>6. Abs(Roubles(e, c) - Roubles(m, l)) <= Largest * 1
  BY <1>2, LargestFacts
<1>7. Abs(Roubles(e, c) - Roubles(1000 * FreeMoney, t.from)) <= Largest * (n + 1)
  <2> DEFINE x == Roubles(e, c)
             y == Roubles(m, l)
             z == Roubles(1000 * FreeMoney, t.from)
  <2>1. x \in Int /\ y \in Int /\ z \in Int
    BY <1>3
  <2>2. Abs(x - y) <= Largest * 1 /\ Abs(y - z) <= Largest * n
    BY <1>5, <1>6
  <2>3. /\ Largest * 1 \in Int /\ Largest * n \in Int
        /\ Largest * (n + 1) = Largest * n + Largest * 1
    BY <1>4, Allowances
  <2> HIDE DEF x, y, z
  <2>4. Abs(x - z) <= Largest * n + Largest * 1
    BY <2>1, <2>2, <2>3, DriftsAdd
  <2> QED BY <2>3, <2>4 DEF x, z
<1>8. e # Broken
  BY <1>2, SMT DEF Broken
<1>9. Kept(e, c, u)
  BY <1>4, <1>7, <1>8 DEF Kept
<1> QED BY <1>9 DEF e

\* Taking the whole units the field shows is off by half a unit.
LEMMA TouchDrifts ==
  ASSUME NEW m \in Money, NEW l \in Currencies, NEW t \in Trace, Kept(m, l, t),
         NEW f \in Nat, Abs(1000 * f - m) <= 500,
         NEW u \in Trace, u.from = t.from, u.conversions = t.conversions, u.touches = t.touches + 1
  PROVE  Kept(1000 * f, l, u)
<1>1. m \in Nat
  BY DEF Kept, Money
<1> DEFINE e == 1000 * f
           r == RateWhen(TRUE, l)
           d == e - m
<1>2. e \in Nat
  OBVIOUS
<1>3. r \in Nat /\ r <= Largest /\ Largest \in Nat
  BY LargestFacts
<1>h. PICK half \in Nat : half = 500
  OBVIOUS
<1>4. d \in Int /\ -half <= d /\ d <= half
  BY <1>1, <1>h DEF Abs
<1>5. Roubles(e, l) - Roubles(m, l) = d * r
  <2> HIDE DEF r
  <2>1. \A a, b, c \in Int : a * c - b * c = (a - b) * c
    OBVIOUS
  <2>2. e * r - m * r = (e - m) * r
    <3>1. e \in Int /\ m \in Int /\ r \in Int
      BY <1>1, <1>2, <1>3
    <3> HIDE DEF e
    <3> QED BY <2>1, <3>1
  <2>3. Roubles(e, l) = e * r /\ Roubles(m, l) = m * r
    <3> HIDE DEF e
    <3> QED BY Zenon DEF Roubles, r
  <2> HIDE DEF e
  <2> QED BY <2>2, <2>3 DEF d
<1> DEFINE n == t.conversions + 500 * t.touches
           x == Roubles(e, l)
           y == Roubles(m, l)
           z == Roubles(1000 * FreeMoney, t.from)
<1>6. x \in Int /\ y \in Int /\ z \in Int
  <2>1. 1000 * FreeMoney \in Nat /\ t.from \in Currencies
    BY PageAssumption DEF PageAssumption, Trace
  <2> QED BY <1>1, <1>2, <2>1, RoublesType
<1>7. n \in Nat /\ u.conversions + 500 * u.touches = n + half
  BY <1>h DEF Trace
<1>8. Abs(y - z) <= Largest * n
  BY DEF Kept
<1> HIDE DEF e, r, d, n, x, y, z
<1>9. Abs(x - y) <= Largest * half
  <2>1. x - y = d * r
    BY <1>5 DEF x, y
  <2>2. d * r <= half * r /\ -(half * r) <= d * r /\ d * r \in Int
    BY <1>3, <1>4, <1>h
  <2>3. half * r <= Largest * half
    BY <1>3, <1>h
  <2>4. half * r \in Int /\ Largest * half \in Int
    BY <1>3, <1>h
  <2>5. Abs(d * r) <= Largest * half
    BY <2>2, <2>3, <2>4 DEF Abs
  <2> QED BY <2>1, <2>5
<1>10. /\ Largest * half \in Int /\ Largest * n \in Int
       /\ Largest * (n + half) = Largest * n + Largest * half
  <2>1. n \in Nat
    BY <1>7
  <2> QED BY <2>1, Allowances
<1>11. Abs(x - z) <= Largest * (n + half)
  <2> DEFINE p == Largest * half
             q == Largest * n
  <2>1. p \in Int /\ q \in Int /\ Abs(x - y) <= p /\ Abs(y - z) <= q
    BY <1>8, <1>9, <1>10
  <2> HIDE DEF p, q
  <2>2. Abs(x - z) <= q + p
    BY <1>6, <2>1, DriftsAdd
  <2> QED BY <1>10, <2>2 DEF p, q
<1>12. e # Broken
  BY <1>2, SMT DEF Broken
<1>13. Kept(e, l, u)
  BY <1>7, <1>11, <1>12 DEF Kept, x, z
<1> QED BY <1>13 DEF e

\* So ChangeCurrency keeps the savings but for an early conversion.
LEMMA ChangeKeepsMoney ==
  ASSUME TypeOK, MoneySurvivesSwitching, NEW c \in Currencies, ChangeCurrency(c)
  PROVE  trace'.early \/ Kept(money', last', trace')
<1>1. /\ trace \in Trace /\ known \in BOOLEAN /\ last \in Currencies /\ money \in Money
      /\ trace.early \/ Kept(money, last, trace)
  BY MoneyForm DEF TypeOK, Trace, Money
<1>2. trace' \in Trace /\ last' = c
  BY ChangeTypes DEF ChangeCurrency
<1>3. /\ trace'.from = trace.from /\ trace'.touches = trace.touches
      /\ trace'.conversions = trace.conversions + (IF c # last THEN 1 ELSE 0)
      /\ trace'.early = (trace.early \/ (c # last /\ ~known))
  BY <1>1 DEF ChangeCurrency, Trace
<1>4. CASE trace'.early
  BY <1>4
<1>5. CASE ~trace'.early /\ c = last
  <2>1. money' = money /\ last' = last /\ Kept(money, last, trace)
    BY <1>1, <1>3, <1>5 DEF ChangeCurrency
  <2>2. trace'.conversions = trace.conversions
    BY <1>1, <1>3, <1>5 DEF Trace
  <2> QED BY <1>3, <2>1, <2>2 DEF Kept
<1>6. CASE ~trace'.early /\ c # last
  <2>1. known /\ Kept(money, last, trace) /\ money' = Exchange(known, money, last, c)
    BY <1>1, <1>3, <1>6 DEF ChangeCurrency
  <2>2. trace'.conversions = trace.conversions + 1
    BY <1>3, <1>6
  <2>3. Kept(Exchange(known, money, last, c), c, trace')
    BY <1>1, <1>2, <1>3, <1>6, <2>1, <2>2, ChangeDrifts
  <2> QED BY <1>2, <2>1, <2>3
<1> QED BY <1>4, <1>5, <1>6

\* So does initStatisticPage, also when the debounce drops the conversion.
LEMMA InitPageKeepsMoney ==
  ASSUME TypeOK, MoneySurvivesSwitching, NEW c \in Currencies, InitStatisticPage(c)
  PROVE  trace'.early \/ Kept(money', last', trace')
<1>1. CASE settling
  <2>1. /\ trace \in Trace /\ trace' = [trace EXCEPT !.skipped = TRUE]
        /\ money' = money /\ last' = last
        /\ trace.early \/ Kept(money, last, trace)
    BY <1>1, MoneyForm DEF TypeOK, InitStatisticPage, Trace
  <2>2. /\ trace'.from = trace.from /\ trace'.touches = trace.touches
        /\ trace'.conversions = trace.conversions /\ trace'.early = trace.early
    BY <2>1 DEF Trace
  <2> QED BY <2>1, <2>2 DEF Kept
<1>2. CASE ~settling
  BY <1>2, ChangeKeepsMoney DEF InitStatisticPage
<1> QED BY <1>1, <1>2

\* Rounded to whole units, savings are shown to within half a unit.
LEMMA ShownToHalf ==
  ASSUME NEW m \in Money, m # Broken
  PROVE  Abs(1000 * RoundDiv(m, 1000) - m) <= 500
<1>1. m \in Nat
  BY DEF Money
<1>2. RoundDiv(m, 1000) \in Nat /\ 2 * Abs(RoundDiv(m, 1000) * 1000 - m) <= 1000
  BY <1>1, Rounding
<1> QED BY <1>1, <1>2 DEF Abs

\* No sequence of currency buttons, signs, launches and touches of the field loses
\* more than roundings, whatever the rates and the savings are.
THEOREM SwitchingKeepsMoney == Spec => []MoneySurvivesSwitching
<1>1. Init => MoneySurvivesSwitching /\ FieldInv
  <2> SUFFICES ASSUME Init PROVE MoneySurvivesSwitching /\ FieldInv
    OBVIOUS
  <2>1. /\ 1000 * FreeMoney \in Nat /\ money = 1000 * FreeMoney /\ field = FreeMoney
        /\ last \in Currencies /\ trace.from = last
        /\ trace.conversions = 0 /\ trace.touches = 0
    BY PageAssumption DEF PageAssumption, Init
  <2>2. money # Broken
    BY <2>1, SMT DEF Broken
  <2>3. Roubles(1000 * FreeMoney, last) \in Int
    BY <2>1, RoublesType
  <2>4. Abs(Roubles(money, last) - Roubles(1000 * FreeMoney, trace.from)) = 0
    BY <2>1, <2>3 DEF Abs
  <2>5. Largest * (trace.conversions + 500 * trace.touches) = 0
    BY <2>1, LargestFacts
  <2>6. Kept(money, last, trace)
    BY <2>2, <2>4, <2>5 DEF Kept
  <2>7. FieldInv
    BY PageAssumption, <2>1 DEF PageAssumption, FieldInv, Abs
  <2> QED BY <2>6, <2>7, MoneyForm
<1>2. TypeOK /\ MoneySurvivesSwitching /\ FieldInv /\ [Next]_vars
        => MoneySurvivesSwitching' /\ FieldInv'
  <2> SUFFICES ASSUME TypeOK, MoneySurvivesSwitching, FieldInv, [Next]_vars
               PROVE  (trace'.early \/ Kept(money', last', trace')) /\ FieldInv'
    BY DEF MoneySurvivesSwitching, Kept, Roubles, Largest
  <2>0. /\ trace \in Trace /\ money \in Money /\ last \in Currencies /\ field \in Nat
        /\ checked \in Currencies
        /\ trace.early \/ Kept(money, last, trace)
    BY MoneyForm DEF TypeOK, Trace, Money
  <2>q. ASSUME UNCHANGED <<last, money, trace>>
        PROVE  trace'.early \/ Kept(money', last', trace')
    BY <2>0, <2>q
  <2>1. CASE RatesArrive
    BY <2>1, <2>q DEF RatesArrive, controls, saving, FieldInv
  <2>2. CASE Settle
    BY <2>2, <2>q DEF Settle, controls, saving, FieldInv
  <2>3. ASSUME NEW timer \in {"launch", "button"}, Draw(timer)
        PROVE  (trace'.early \/ Kept(money', last', trace')) /\ FieldInv'
    BY <2>3, <2>q DEF Draw, controls, saving, FieldInv
  <2>14. ASSUME NEW k \in DOMAIN writes, SetPreciseValue(k)
         PROVE  (trace'.early \/ Kept(money', last', trace')) /\ FieldInv'
    BY <2>14, <2>q DEF SetPreciseValue, controls, saving, FieldInv
  <2>4. CASE EditItems
    BY <2>4, <2>q DEF EditItems, controls, saving, FieldInv
  <2>5. CASE ClickSign
    <3>1. checked' \in Currencies /\ ChangeCurrency(checked')
      BY <2>0, <2>5 DEF ClickSign, Currencies
    <3>2. trace'.early \/ Kept(money', last', trace')
      BY <3>1, ChangeKeepsMoney
    <3>3. field' = IF money' = Broken THEN field ELSE RoundDiv(money', 1000)
      BY <2>5 DEF ClickSign
    <3>4. money' \in Money
      BY <3>1, ChangeTypes
    <3>5. FieldInv'
      BY <3>3, <3>4, ShownToHalf DEF FieldInv
    <3> QED BY <3>2, <3>5
  <2>6. CASE TouchField
    <3>1. /\ page = "settings" /\ page' = page /\ money' = 1000 * field
          /\ field' = field /\ last' = last /\ trace' = [trace EXCEPT !.touches = @ + 1]
      BY <2>6 DEF TouchField, controls
    <3>2. /\ trace' \in Trace /\ trace'.early = trace.early /\ trace'.from = trace.from
          /\ trace'.conversions = trace.conversions /\ trace'.touches = trace.touches + 1
      BY <2>0, <3>1 DEF Trace
    <3>3. Kept(money, last, trace) => Kept(1000 * field, last, trace')
      <4>1. Kept(money, last, trace) => Abs(1000 * field - money) <= 500
        BY <3>1 DEF Kept, FieldInv
      <4> QED BY <2>0, <3>2, <4>1, TouchDrifts
    <3>4. FieldInv'
      BY <2>0, <3>1 DEF FieldInv, Abs
    <3> QED BY <2>0, <3>1, <3>2, <3>3, <3>4
  <2>7. CASE ToggleDeposit
    BY <2>7, <2>q DEF ToggleDeposit, saving, FieldInv
  <2>8. CASE ToggleCapitalization
    BY <2>8, <2>q DEF ToggleCapitalization, saving, FieldInv
  <2>9. CASE Launch
    <3>1. InitStatisticPage(checked) /\ page' = "statistic"
      BY <2>9 DEF Launch
    <3>2. trace'.early \/ Kept(money', last', trace')
      BY <2>0, <3>1, InitPageKeepsMoney
    <3> QED BY <3>1, <3>2 DEF FieldInv
  <2>10. ASSUME NEW c \in Currencies, ClickCurrency(c)
         PROVE  (trace'.early \/ Kept(money', last', trace')) /\ FieldInv'
    <3>1. InitStatisticPage(c) /\ page' = "statistic"
      BY <2>10 DEF ClickCurrency
    <3>2. trace'.early \/ Kept(money', last', trace')
      BY <3>1, InitPageKeepsMoney
    <3> QED BY <3>1, <3>2 DEF FieldInv
  <2>11. ASSUME NEW percent \in Stops, Slide(percent)
         PROVE  (trace'.early \/ Kept(money', last', trace')) /\ FieldInv'
    BY <2>11, <2>q DEF Slide, saving, FieldInv
  <2>12. CASE Back
    <3>1. /\ UNCHANGED <<last, money, trace>>
          /\ field' = IF money = Broken THEN field ELSE RoundDiv(money, 1000)
      BY <2>12 DEF Back
    <3>2. FieldInv'
      BY <2>0, <3>1, ShownToHalf DEF FieldInv
    <3> QED BY <2>q, <3>1, <3>2
  <2>13. CASE UNCHANGED vars
    BY <2>13, <2>q DEF vars, controls, saving, FieldInv
  <2> QED BY <2>1, <2>2, <2>3, <2>4, <2>5, <2>6, <2>7, <2>8, <2>9, <2>10, <2>11, <2>12, <2>13,
             <2>14
          DEF Next
<1> QED BY <1>1, <1>2, PageTypeCorrect, PTL DEF Spec

------------------------------------------------------------------------------
(* What a deposit pays. *)

\* How a month is computed from the month before.
MonthSteps == [1..12 -> [Nat -> Nat]]

\* The months of a forecast, each computed from the month before, exist.
LEMMA MonthsExist ==
  ASSUME NEW a \in Nat, NEW F \in MonthSteps
  PROVE  \E g \in [0..12 -> Nat] :
           /\ g[0] = a
           /\ \A k \in 1..12 : g[k] = F[k][g[k - 1]]
           /\ g = [k \in 0..12 |-> IF k = 0 THEN a ELSE F[k][g[k - 1]]]
<1> DEFINE Upto(n) == \E g \in [0..12 -> Nat] :
                        g[0] = a /\ \A k \in 1..n : g[k] = F[k][g[k - 1]]
           T == {n \in Nat : n <= 12 => Upto(n)}
<1>0. \A k \in 1..12 : \A x \in Nat : F[k][x] \in Nat
  BY DEF MonthSteps
<1>1. 0 \in T
  <2> DEFINE g == [k \in 0..12 |-> a]
  <2>1. g \in [0..12 -> Nat] /\ g[0] = a /\ \A k \in 1..0 : g[k] = F[k][g[k - 1]]
    OBVIOUS
  <2> QED BY <2>1
<1>2. ASSUME NEW n \in Nat, n \in T
      PROVE  n + 1 \in T
  <2> SUFFICES ASSUME n + 1 <= 12 PROVE Upto(n + 1)
    OBVIOUS
  <2>1. PICK g \in [0..12 -> Nat] : g[0] = a /\ \A k \in 1..n : g[k] = F[k][g[k - 1]]
    BY <1>2
  <2> DEFINE y == F[n + 1][g[n]]
             h == [g EXCEPT ![n + 1] = y]
  <2>2. n \in 0..12 /\ n + 1 \in 1..12
    <3> HIDE DEF T
    <3> QED OBVIOUS
  <2>3. y \in Nat
    BY <1>0, <2>1, <2>2
  <2>4. h \in [0..12 -> Nat] /\ h[n + 1] = y /\ \A k \in 0..n : h[k] = g[k]
    BY <2>1, <2>2, <2>3
  <2> HIDE DEF h
  <2>5. h[0] = a
    BY <2>1, <2>4
  <2>6. \A k \in 1..n : h[k] = F[k][h[k - 1]]
    BY <2>1, <2>4
  <2>7. h[n + 1] = F[n + 1][h[n]]
    BY <2>4
  <2> HIDE DEF y
  <2>8. \A k \in 1..(n + 1) : h[k] = F[k][h[k - 1]]
    <3> SUFFICES ASSUME NEW k \in 1..(n + 1) PROVE h[k] = F[k][h[k - 1]]
      OBVIOUS
    <3>1. CASE k \in 1..n
      BY <2>6, <3>1
    <3>2. CASE k = n + 1
      <4>1. k - 1 = n
        BY <3>2
      <4> QED BY <2>7, <3>2, <4>1
    <3>3. k \in 1..n \/ k = n + 1
      <4> HIDE DEF T
      <4> QED OBVIOUS
    <3> QED BY <3>1, <3>2, <3>3
  <2> QED BY <2>4, <2>5, <2>8
<1>3. 12 \in T
  <2> HIDE DEF T
  <2> QED BY <1>1, <1>2, CountingUp
<1>4. PICK g \in [0..12 -> Nat] : g[0] = a /\ \A k \in 1..12 : g[k] = F[k][g[k - 1]]
  <2>1. Upto(12)
    <3> HIDE DEF Upto
    <3> QED BY <1>3
  <2> QED BY <2>1
<1>5. g = [k \in 0..12 |-> g[k]]
  OBVIOUS
<1>6. g = [k \in 0..12 |-> IF k = 0 THEN a ELSE F[k][g[k - 1]]]
  BY <1>4, <1>5
<1> QED BY <1>4, <1>6

\* Cutting off what is less than a unit.
LEMMA WholeFacts ==
  ASSUME NEW x \in Nat
  PROVE  /\ Whole(x) \in Nat
         /\ Whole(x) = 1200 * (x \div 1200) /\ Whole(x) \div 1200 = x \div 1200
         /\ x - 1199 <= Whole(x) /\ Whole(x) <= x
         /\ \A n \in Nat : x = 1200 * n => Whole(x) = x
<1> DEFINE q == x \div 1200
<1>1. q \in Nat /\ 1200 * q <= x /\ x < 1200 * q + 1200
  BY Division
<1>2. Whole(x) = q * 1200
  BY DEF Whole
<1>3. (q * 1200) \div 1200 = q
  BY <1>1
<1> HIDE DEF q
<1>4. ASSUME NEW n \in Nat, x = 1200 * n PROVE q = n
  BY <1>1, <1>4
<1>5. Whole(x) \div 1200 = x \div 1200
  BY <1>2, <1>3 DEF q
<1>6. Whole(x) = 1200 * (x \div 1200)
  BY <1>1, <1>2 DEF q
<1> QED BY <1>1, <1>2, <1>4, <1>5, <1>6

\* Without a deposit the forecast is the money at home.
LEMMA PlainIsHome ==
  ASSUME NEW f, f.money \in Nat, f.delta \in Nat
  PROVE  \A k \in 0..12 : PlainYear(f)[k] = (f.money + k * f.delta) * 1200
<1> DEFINE Eq(m) == m = [k \in 0..12 |-> IF k = 0 THEN f.money * 1200
                                         ELSE Whole(m[k - 1]) + f.delta * 1200]
           F == [k \in 1..12 |-> [x \in Nat |-> Whole(x) + f.delta * 1200]]
           a == f.money * 1200
<1>1. F \in MonthSteps
  <2>1. \A k \in 1..12 : \A x \in Nat : Whole(x) + f.delta * 1200 \in Nat
    BY WholeFacts
  <2> QED BY <2>1 DEF MonthSteps
<1>2. a \in Nat
  OBVIOUS
<1>3. PICK g \in [0..12 -> Nat] : g = [k \in 0..12 |-> IF k = 0 THEN a ELSE F[k][g[k - 1]]]
  <2> HIDE DEF F, a
  <2>1. \E g \in [0..12 -> Nat] :
           /\ g[0] = a
           /\ \A k \in 1..12 : g[k] = F[k][g[k - 1]]
           /\ g = [k \in 0..12 |-> IF k = 0 THEN a ELSE F[k][g[k - 1]]]
    BY <1>1, <1>2, MonthsExist
  <2> QED BY <2>1
<1>4. Eq(g)
  <2>1. \A k \in 1..12 : F[k][g[k - 1]] = Whole(g[k - 1]) + f.delta * 1200
    OBVIOUS
  <2> HIDE DEF F
  <2>2. \A k \in 0..12 : k # 0 => k \in 1..12
    OBVIOUS
  <2> QED BY <1>3, <2>1, <2>2
<1> DEFINE m == CHOOSE m : Eq(m)
<1>5. PlainYear(f) = m
  BY DEF PlainYear
<1>6. Eq(m)
  <2> HIDE DEF Eq
  <2> QED BY <1>4
<1> HIDE DEF m
<1> DEFINE T == {n \in Nat : n <= 12 => m[n] = (f.money + n * f.delta) * 1200}
<1>7. 0 \in T
  BY <1>6
<1>8. ASSUME NEW n \in Nat, n \in T
      PROVE  n + 1 \in T
  <2> SUFFICES ASSUME n + 1 <= 12 PROVE m[n + 1] = (f.money + (n + 1) * f.delta) * 1200
    OBVIOUS
  <2> DEFINE w == f.money + n * f.delta
  <2>1. m[n + 1] = Whole(m[n]) + f.delta * 1200
    BY <1>6
  <2>2. n * f.delta \in Nat /\ (n + 1) * f.delta = n * f.delta + f.delta
    OBVIOUS
  <2>3. w \in Nat /\ m[n] = 1200 * w
    BY <1>8, <2>2
  <2> HIDE DEF w
  <2>4. Whole(m[n]) = 1200 * w
    BY <2>3, WholeFacts
  <2> QED BY <2>1, <2>2, <2>4 DEF w
<1> HIDE DEF T
<1>9. Nat \subseteq T
  BY <1>7, <1>8, CountingUp
<1> QED BY <1>5, <1>9 DEF T

\* The months of a deposit with capitalization: the deposit is d, the rest is
\* beside it.
LEMMA CapitalMonths ==
  ASSUME NEW f, f.money \in Nat, f.delta \in Nat, f.share \in 0..100
  PROVE  \E d \in [0..12 -> Nat] :
           /\ d[0] = f.money * 1200
           /\ \A k \in 1..12 : d[k] = 12 * f.delta * f.share + Whole(d[k - 1])
                                        + (Whole(d[k - 1]) \div 1200) * Percent
           /\ \A k \in 0..12 :
                CapitalizedYear(f)[k] = d[k] + k * (12 * f.delta * (100 - f.share))
<1> DEFINE dep == 12 * f.delta * f.share
           rest == 12 * f.delta * (100 - f.share)
           Grown(x) == dep + Whole(x) + (Whole(x) \div 1200) * Percent
           Eq(d) == d = [k \in 0..12 |-> IF k = 0 THEN f.money * 1200
                                         ELSE LET before == Whole(d[k - 1])
                                              IN  dep + before + (before \div 1200) * Percent]
           F == [k \in 1..12 |-> [x \in Nat |-> Grown(x)]]
           a == f.money * 1200
<1>1. \A x \in Nat : Grown(x) \in Nat
  <2> SUFFICES ASSUME NEW x \in Nat PROVE Grown(x) \in Nat
    OBVIOUS
  <2>1. dep \in Nat
    OBVIOUS
  <2>2. Whole(x) \in Nat
    BY WholeFacts
  <2>3. Whole(x) \div 1200 \in Nat
    BY <2>2, Division
  <2>4. (Whole(x) \div 1200) * Percent \in Nat
    BY <2>3, PageAssumption
  <2> HIDE DEF dep
  <2> QED BY <2>1, <2>2, <2>4
<1> HIDE DEF Grown
<1>2. F \in MonthSteps /\ a \in Nat
  BY <1>1 DEF MonthSteps
<1>3. PICK g \in [0..12 -> Nat] : g = [k \in 0..12 |-> IF k = 0 THEN a ELSE F[k][g[k - 1]]]
  <2> HIDE DEF F, a
  <2>1. \E g \in [0..12 -> Nat] :
           /\ g[0] = a
           /\ \A k \in 1..12 : g[k] = F[k][g[k - 1]]
           /\ g = [k \in 0..12 |-> IF k = 0 THEN a ELSE F[k][g[k - 1]]]
    BY <1>2, MonthsExist
  <2> QED BY <2>1
<1>4. Eq(g)
  <2>1. \A k \in 1..12 : F[k][g[k - 1]] = Grown(g[k - 1])
    OBVIOUS
  <2> HIDE DEF F
  <2>2. \A k \in 0..12 : k # 0 => k \in 1..12
    OBVIOUS
  <2>3. g = [k \in 0..12 |-> IF k = 0 THEN a ELSE Grown(g[k - 1])]
    BY <1>3, <2>1, <2>2
  <2> QED BY <2>3 DEF Grown
<1> DEFINE d == CHOOSE d : Eq(d)
<1>5. CapitalizedYear(f) = [k \in 0..12 |-> d[k] + k * rest]
  BY DEF CapitalizedYear
<1>6. Eq(d)
  <2> HIDE DEF Eq
  <2> QED BY <1>4
<1> HIDE DEF d
<1>7. \A k \in 1..12 : d[k] = Grown(d[k - 1])
  BY <1>6 DEF Grown
<1>8. d \in [0..12 -> Nat] /\ d[0] = a
  <2> DEFINE T == {n \in Nat : n <= 12 => d[n] \in Nat}
  <2>1. 0 \in T /\ d[0] = a
    BY <1>6
  <2>2. ASSUME NEW n \in Nat, n \in T PROVE n + 1 \in T
    BY <1>1, <1>7, <2>2
  <2> HIDE DEF T
  <2>3. Nat \subseteq T
    BY <2>1, <2>2, CountingUp
  <2>4. \A k \in 0..12 : d[k] \in Nat
    BY <2>3 DEF T
  <2>5. d = [k \in 0..12 |-> d[k]]
    BY <1>6
  <2> QED BY <2>1, <2>4, <2>5
<1> HIDE DEF Eq
<1> QED BY <1>5, <1>7, <1>8 DEF Grown

\* The months of a deposit without capitalization.
LEMMA SimpleMonths ==
  ASSUME NEW f, f.money \in Nat, f.delta \in Nat, f.share \in 0..100
  PROVE  /\ SimpleYear(f)[0] = f.money * 1200
         /\ \A k \in 1..11 :
              SimpleYear(f)[k] = Whole(SimpleYear(f)[k - 1]) + 12 * f.delta * f.share
         /\ SimpleYear(f)[12] = f.money * (1200 + 12 * Percent) + 12 * (12 * f.delta * f.share)
                                  + 12 * (12 * f.delta * (100 - f.share))
                                  + (f.delta * f.share * Percent * 66) \div 100
<1> DEFINE dep == 12 * f.delta * f.share
           rest == 12 * f.delta * (100 - f.share)
           a == f.money * 1200
           z == f.money * (1200 + 12 * Percent) + 12 * dep + 12 * rest
                  + (f.delta * f.share * Percent * 66) \div 100
           Eq(m) == m = [k \in 0..12 |-> IF k = 0 THEN f.money * 1200
                                         ELSE IF k < 12 THEN Whole(m[k - 1]) + dep
                                         ELSE f.money * (1200 + 12 * Percent) + 12 * dep + 12 * rest
                                                + (f.delta * f.share * Percent * 66) \div 100]
           Next12(k, x) == IF k < 12 THEN Whole(x) + dep ELSE z
           F == [k \in 1..12 |-> [x \in Nat |-> Next12(k, x)]]
<1>1. dep \in Nat /\ rest \in Nat /\ a \in Nat
  OBVIOUS
<1>2. z \in Nat
  <2>1. f.delta * f.share * Percent * 66 \in Nat
    BY PageAssumption
  <2>2. (f.delta * f.share * Percent * 66) \div 100 \in Nat
    BY <2>1, Division
  <2>3. f.money * (1200 + 12 * Percent) \in Nat
    BY PageAssumption
  <2> HIDE DEF dep, rest
  <2> QED BY <1>1, <2>2, <2>3
<1>3. \A k \in 1..12 : \A x \in Nat : Next12(k, x) \in Nat
  <2> HIDE DEF z, dep
  <2> QED BY <1>1, <1>2, WholeFacts
<1> HIDE DEF Next12
<1>4. F \in MonthSteps
  BY <1>3 DEF MonthSteps
<1>5. PICK g \in [0..12 -> Nat] : g = [k \in 0..12 |-> IF k = 0 THEN a ELSE F[k][g[k - 1]]]
  <2> HIDE DEF F, a
  <2>1. \E g \in [0..12 -> Nat] :
           /\ g[0] = a
           /\ \A k \in 1..12 : g[k] = F[k][g[k - 1]]
           /\ g = [k \in 0..12 |-> IF k = 0 THEN a ELSE F[k][g[k - 1]]]
    BY <1>1, <1>4, MonthsExist
  <2> QED BY <2>1
<1>6. Eq(g)
  <2>1. \A k \in 1..12 : F[k][g[k - 1]] = Next12(k, g[k - 1])
    OBVIOUS
  <2> HIDE DEF F
  <2>2. \A k \in 0..12 : k # 0 => k \in 1..12
    OBVIOUS
  <2>3. g = [k \in 0..12 |-> IF k = 0 THEN a ELSE Next12(k, g[k - 1])]
    BY <1>5, <2>1, <2>2
  <2> QED BY <2>3 DEF Next12
<1> DEFINE m == CHOOSE m : Eq(m)
<1>7. SimpleYear(f) = m
  BY DEF SimpleYear
<1>8. Eq(m)
  <2> HIDE DEF Eq
  <2> QED BY <1>6
<1> HIDE DEF m
<1>9. m[0] = a /\ m[12] = z /\ \A k \in 1..11 : m[k] = Whole(m[k - 1]) + dep
  <2> HIDE DEF dep, rest
  <2> QED BY <1>8
<1> HIDE DEF Eq
<1> QED BY <1>7, <1>9

\* What k months bring of money M and a monthly deposit D, in 2400ths of 1200ths:
\* the interest of the money and of the deposits before, less what cutting off can lose.
Brings(M, D, k) ==
  2400 * (1200 * M) + 2400 * (k * D) + 2400 * (k * (Percent * M)) + (k * (k - 1)) * (Percent * D)
    - 2400 * (1199 * (k - 1)) - 1199 * ((k * (k - 1)) * Percent)

\* The deposit after k months is at least what was paid in, and what Brings says.
Enough(M, D, k, x) == x >= 1200 * M + k * D - 1199 * (k - 1) /\ 2400 * x >= Brings(M, D, k)

\* One month more brings what Brings says.
LEMMA OneMonthMore ==
  ASSUME NEW M \in Nat, NEW D \in Nat, NEW k \in Nat, k >= 1,
         NEW x \in Nat, Enough(M, D, k, x)
  PROVE  Enough(M, D, k + 1, D + Whole(x) + (Whole(x) \div 1200) * Percent)
<1>0. x >= 1200 * M + k * D - 1199 * (k - 1) /\ 2400 * x >= Brings(M, D, k)
  BY DEF Enough
<1> DEFINE y == D + Whole(x) + (Whole(x) \div 1200) * Percent
<1> DEFINE w == x \div 1200
<1>1. w \in Nat /\ 1200 * w >= x - 1199 /\ Whole(x) = 1200 * w /\ Whole(x) \div 1200 = w
  BY WholeFacts, Division
<1> HIDE DEF w
<1>2. y = D + 1200 * w + w * Percent
  BY <1>1
<1>3. Percent \in Nat
  BY PageAssumption
<1> DEFINE c == 1200 * M + k * D - 1199 * k
           wP == w * Percent
           kD == k * D
           kM == k * (Percent * M)
           PD == Percent * D
           PM == Percent * M
           q == k * (k - 1)
           qD == q * (Percent * D)
           qP == q * Percent
           kP == k * Percent
           kPD == k * (Percent * D)
<1>4. /\ kD \in Nat /\ kM \in Nat /\ PD \in Nat /\ PM \in Nat /\ kP \in Nat /\ wP \in Nat
      /\ kPD \in Nat /\ q \in Nat
  BY <1>1, <1>3
<1>5. qD \in Nat /\ qP \in Nat
  <2> HIDE DEF q
  <2> QED BY <1>3, <1>4
<1>6. 1200 * w >= c
  <2> HIDE DEF kD
  <2> QED BY <1>0, <1>1, <1>4 DEF kD
<1>7. 1200 * wP >= 1200 * PM + kPD - 1199 * kP
  <2>1. c \in Int
    BY <1>4
  <2> HIDE DEF c
  <2>2. (1200 * w) * Percent >= c * Percent
    BY <1>1, <1>3, <1>6, <2>1
  <2>3. (1200 * w) * Percent = 1200 * wP
    BY <1>1, <1>3
  <2>4. c * Percent = 1200 * PM + kPD - 1199 * kP
    BY <1>3 DEF c
  <2> QED BY <2>2, <2>3, <2>4
<1>8. (k + 1) * D = kD + D
  OBVIOUS
<1>9. (k + 1) * PM = kM + PM /\ (k + 1) * ((k + 1) - 1) = q + 2 * k
  BY <1>3
<1>10. (q + 2 * k) * PD = qD + 2 * kPD /\ (q + 2 * k) * Percent = qP + 2 * kP
  BY <1>3, <1>4
<1>11. Brings(M, D, k) = 2400 * (1200 * M) + 2400 * kD + 2400 * kM + qD - 2400 * (1199 * (k - 1))
                           - 1199 * qP
  BY DEF Brings
<1>12. Brings(M, D, k + 1) = 2400 * (1200 * M) + 2400 * (kD + D) + 2400 * (kM + PM)
                               + (qD + 2 * kPD) - 2400 * (1199 * k) - 1199 * (qP + 2 * kP)
  <2>1. Brings(M, D, k + 1) = 2400 * (1200 * M) + 2400 * ((k + 1) * D) + 2400 * ((k + 1) * PM)
                                + ((k + 1) * ((k + 1) - 1)) * PD - 2400 * (1199 * ((k + 1) - 1))
                                - 1199 * (((k + 1) * ((k + 1) - 1)) * Percent)
    BY DEF Brings
  <2>2. (k + 1) - 1 = k
    OBVIOUS
  <2> HIDE DEF q, PD, PM, kD, kM, qD, qP, kP, kPD
  <2> QED BY <2>1, <2>2, <1>8, <1>9, <1>10
<1> HIDE DEF y, q, PD, PM, qD, qP, kP, kPD, kM, wP
<1>13. y = D + 1200 * w + wP
  BY <1>2 DEF wP
<1>14. y >= 1200 * M + (k + 1) * D - 1199 * k
  <2> HIDE DEF kD
  <2>1. c = 1200 * M + kD - 1199 * k
    BY DEF kD
  <2> QED BY <1>4, <1>6, <1>8, <1>13, <1>1, <2>1
<1>15. 2400 * y >= Brings(M, D, k + 1)
  <2>1. 2400 * y = 2400 * D + 2400 * (1200 * w) + 2 * (1200 * wP)
    BY <1>1, <1>4, <1>13
  <2>2. 2400 * (1200 * w) >= 2400 * x - 2400 * 1199
    BY <1>1
  <2> HIDE DEF kD
  <2> QED BY <1>0, <1>1, <1>4, <1>5, <1>7, <1>11, <1>12, <2>1, <2>2
<1>16. (k + 1) - 1 = k
  OBVIOUS
<1>17. Enough(M, D, k + 1, y)
  BY <1>14, <1>15, <1>16 DEF Enough
<1> QED BY <1>17 DEF y

\* After k months a deposit with capitalization holds at least what was paid in,
\* less what cutting off can lose, and after the first at least what Brings says.
LEMMA CapitalGrows ==
  ASSUME NEW f, f.money \in Nat, f.delta \in Nat, f.share \in 0..100,
         NEW d \in [0..12 -> Nat], d[0] = f.money * 1200,
         \A k \in 1..12 : d[k] = 12 * f.delta * f.share + Whole(d[k - 1])
                                   + (Whole(d[k - 1]) \div 1200) * Percent
  PROVE  \A k \in 1..12 : Enough(f.money, 12 * f.delta * f.share, k, d[k])
<1> DEFINE M == f.money
           D == 12 * f.delta * f.share
           Good(k) == Enough(M, D, k, d[k])
           T == {n \in Nat : n + 1 <= 12 => Good(n + 1)}
<1>1. M \in Nat /\ D \in Nat /\ Percent \in Nat
  BY PageAssumption
<1>2. d[0] = 1200 * M /\ \A k \in 1..12 : d[k] = D + Whole(d[k - 1])
                                                 + (Whole(d[k - 1]) \div 1200) * Percent
  OBVIOUS
<1> HIDE DEF D, M
<1>3. Good(1)
  <2>1. Whole(d[0]) = 1200 * M
    <3> DEFINE x == 1200 * M
    <3>1. x \in Nat /\ x = 1200 * M /\ d[0] = x
      BY <1>1, <1>2
    <3> HIDE DEF x
    <3>2. Whole(x) = x
      BY <1>1, <3>1, WholeFacts
    <3> QED BY <3>1, <3>2
  <2>2. (1200 * M) \div 1200 = M
    BY <1>1
  <2>3. d[1] = D + Whole(d[0]) + (Whole(d[0]) \div 1200) * Percent
    BY <1>2
  <2>4. d[1] = D + 1200 * M + M * Percent
    BY <2>1, <2>2, <2>3
  <2>5. M * Percent \in Nat /\ M * Percent = Percent * M /\ Percent * D \in Nat
    BY <1>1
  <2>6. Brings(M, D, 1) = 2400 * (1200 * M) + 2400 * D + 2400 * (Percent * M)
    <3>1. 1 * D = D /\ 1 * (Percent * M) = Percent * M /\ 1 * (1 - 1) = 0
          /\ 0 * (Percent * D) = 0 /\ 0 * Percent = 0 /\ 1199 * (1 - 1) = 0
      BY <1>1, <2>5
    <3> QED BY <1>1, <2>5, <3>1 DEF Brings
  <2> QED BY <1>1, <2>4, <2>5, <2>6 DEF Enough
<1> HIDE DEF Good
<1>4. 0 \in T
  BY <1>3
<1>5. ASSUME NEW n \in Nat, n \in T PROVE n + 1 \in T
  <2> SUFFICES ASSUME (n + 1) + 1 <= 12 PROVE Good((n + 1) + 1)
    OBVIOUS
  <2> DEFINE k == n + 1
  <2>1. k \in Nat /\ k >= 1 /\ k \in 0..12 /\ k + 1 \in 1..12 /\ (k + 1) - 1 = k
    OBVIOUS
  <2>2. Good(k)
    BY <1>5
  <2> HIDE DEF k, T
  <2>3. d[k] \in Nat
    BY <2>1
  <2>4. d[k + 1] = D + Whole(d[k]) + (Whole(d[k]) \div 1200) * Percent
    BY <1>2, <2>1
  <2>5. Enough(M, D, k + 1, d[k + 1])
    <3> DEFINE x == d[k]
    <3>1. x \in Nat /\ Enough(M, D, k, x)
      BY <2>2, <2>3 DEF Good
    <3> HIDE DEF x
    <3>2. Enough(M, D, k + 1, D + Whole(x) + (Whole(x) \div 1200) * Percent)
      BY <1>1, <2>1, <3>1, OneMonthMore
    <3> QED BY <2>4, <3>2 DEF x
  <2>6. Good(k + 1)
    BY <2>5 DEF Good
  <2> QED BY <2>6 DEF k
<1> HIDE DEF T
<1>6. Nat \subseteq T
  BY <1>4, <1>5, CountingUp
<1>7. ASSUME NEW k \in 1..12 PROVE Good(k)
  <2>1. k - 1 \in Nat /\ (k - 1) + 1 = k /\ k <= 12
    OBVIOUS
  <2>2. k - 1 \in T
    BY <1>6, <2>1
  <2>3. (k - 1) + 1 <= 12 => Good((k - 1) + 1)
    BY <2>2 DEF T
  <2> QED BY <2>1, <2>3
<1> QED BY <1>7 DEF Good, D, M

\* In every month the money at home is not more than the savings of the forecast,
\* and capitalization pays over the year what the interest at its end pays: but for
\* a unit a month and the interest on those units.
LEMMA DepositsBeatHome ==
  ASSUME NEW f, f.money \in Nat, f.delta \in Nat, f.share \in 0..100
  PROVE  /\ \A k \in 0..12 :
              CapitalizedYear(f)[k] >= (f.money + k * f.delta) * 1200 - k * 1200
         /\ \A k \in 0..12 : SimpleYear(f)[k] >= (f.money + k * f.delta) * 1200 - k * 1200
                               \/ (f.share < 100 /\ k \in 1..11)
         /\ CapitalizedYear(f)[12] >= SimpleYear(f)[12] - 12 * 1200 - 66 * Percent
<1> DEFINE M == f.money
           D == 12 * f.delta * f.share
           R == 12 * f.delta * (100 - f.share)
           e == f.delta
           X == (f.delta * f.share * Percent * 66) \div 100
<1>1. M \in Nat /\ D \in Nat /\ R \in Nat /\ e \in Nat /\ D + R = 1200 * e
  OBVIOUS
<1>2. Percent \in Nat /\ Percent * M \in Nat /\ Percent * D \in Nat
  <2>1. Percent \in Nat
    BY PageAssumption
  <2> HIDE DEF D, M
  <2> QED BY <1>1, <2>1
<1>3. X \in Nat /\ 2400 * X <= 132 * (Percent * D)
  <2> DEFINE b == f.delta * f.share * Percent * 66
  <2>1. b \in Nat
    BY <1>2
  <2>2. 12 * b = 66 * (Percent * D)
    BY <1>2
  <2>3. X = b \div 100
    OBVIOUS
  <2> HIDE DEF X, b
  <2>4. X \in Nat /\ 100 * X <= b
    BY <2>1, <2>3, Division
  <2> HIDE DEF D
  <2> QED BY <1>1, <1>2, <2>1, <2>2, <2>4
<1>4. PICK d \in [0..12 -> Nat] :
           /\ d[0] = f.money * 1200
           /\ \A k \in 1..12 : d[k] = 12 * f.delta * f.share + Whole(d[k - 1])
                                        + (Whole(d[k - 1]) \div 1200) * Percent
           /\ \A k \in 0..12 :
                CapitalizedYear(f)[k] = d[k] + k * (12 * f.delta * (100 - f.share))
  BY CapitalMonths
<1>5. \A k \in 1..12 : Enough(M, D, k, d[k])
  BY <1>4, CapitalGrows
<1>6. \A k \in 0..12 : CapitalizedYear(f)[k] = d[k] + k * R
  BY <1>4
<1>7. d[0] = 1200 * M
  BY <1>4
<1>8. /\ SimpleYear(f)[0] = 1200 * M
      /\ \A k \in 1..11 : SimpleYear(f)[k] = Whole(SimpleYear(f)[k - 1]) + D
      /\ SimpleYear(f)[12] = M * (1200 + 12 * Percent) + 12 * D + 12 * R + X
  BY SimpleMonths
<1> HIDE DEF M, D, R, X, e
<1>9. ASSUME NEW k \in 0..12
      PROVE  CapitalizedYear(f)[k] >= (M + k * e) * 1200 - k * 1200
  <2>1. (M + k * e) * 1200 = 1200 * M + k * (1200 * e)
    BY <1>1
  <2>2. k * (1200 * e) = k * D + k * R
    BY <1>1
  <2>3. k * D \in Nat /\ k * R \in Nat /\ k * e \in Nat
    BY <1>1
  <2>4. CASE k = 0
    <3>1. 0 * R = 0 /\ 0 * e = 0
      BY <1>1
    <3> QED BY <1>1, <1>6, <1>7, <2>4, <3>1
  <2>5. CASE k # 0
    <3>1. k \in 1..12
      BY <2>5
    <3>2. d[k] >= 1200 * M + k * D - 1199 * (k - 1) /\ d[k] \in Nat
      BY <1>5, <3>1 DEF Enough
    <3> DEFINE x == d[k]
    <3>3. CapitalizedYear(f)[k] = x + k * R
      BY <1>6
    <3> HIDE DEF x
    <3>4. x >= 1200 * M + k * D - 1199 * (k - 1) /\ x \in Nat
      BY <3>2 DEF x
    <3> QED BY <1>1, <2>1, <2>2, <2>3, <3>3, <3>4
  <2> QED BY <2>4, <2>5
<1>10. ASSUME NEW k \in 0..12
       PROVE  SimpleYear(f)[k] >= (M + k * e) * 1200 - k * 1200 \/ (f.share < 100 /\ k \in 1..11)
  <2>1. CASE k = 0
    <3>1. 0 * e = 0
      BY <1>1
    <3> QED BY <1>1, <1>8, <2>1, <3>1
  <2>2. CASE k = 12
    <3>1. M * (1200 + 12 * Percent) = 1200 * M + 12 * (Percent * M)
      BY <1>1, <1>2
    <3> QED BY <1>1, <1>2, <1>3, <1>8, <2>2, <3>1
  <2>3. CASE k \in 1..11
    <3> SUFFICES ASSUME f.share = 100
                 PROVE  SimpleYear(f)[k] >= (M + k * e) * 1200 - k * 1200
      BY <2>3
    <3>1. R = 0
      BY DEF R
    <3>2. D = 1200 * e
      BY <1>1, <3>1
    <3> DEFINE T == {n \in Nat : n <= 11 => SimpleYear(f)[n] = 1200 * (M + n * e)}
    <3>3. 0 \in T
      <4>1. M + 0 * e = M
        BY <1>1
      <4> QED BY <1>8, <4>1
    <3>4. ASSUME NEW n \in Nat, n \in T PROVE n + 1 \in T
      <4> SUFFICES ASSUME n + 1 <= 11 PROVE SimpleYear(f)[n + 1] = 1200 * (M + (n + 1) * e)
        OBVIOUS
      <4> DEFINE w == M + n * e
      <4>1. SimpleYear(f)[n] = 1200 * w
        BY <3>4
      <4> HIDE DEF T
      <4>2. w \in Nat /\ M + (n + 1) * e = w + e
        BY <1>1
      <4>3. SimpleYear(f)[n + 1] = Whole(SimpleYear(f)[n]) + D
        <5>1. n + 1 \in 1..11 /\ (n + 1) - 1 = n
          OBVIOUS
        <5> QED BY <1>8, <5>1
      <4> HIDE DEF w
      <4> DEFINE x == 1200 * w
      <4>4. x \in Nat
        BY <4>2
      <4> HIDE DEF x
      <4>5. \A p \in Nat : x = 1200 * p => Whole(x) = x
        BY <4>4, WholeFacts
      <4>6. Whole(1200 * w) = 1200 * w
        BY <4>2, <4>5 DEF x
      <4>7. 1200 * (w + e) = 1200 * w + 1200 * e
        BY <1>1, <4>2
      <4>8. SimpleYear(f)[n + 1] = 1200 * w + 1200 * e
        BY <3>2, <4>1, <4>3, <4>6
      <4> QED BY <4>2, <4>7, <4>8
    <3> HIDE DEF T
    <3>5. k \in T
      BY <3>3, <3>4, CountingUp
    <3>6. SimpleYear(f)[k] = 1200 * (M + k * e)
      BY <2>3, <3>5 DEF T
    <3>7. k * e \in Nat
      BY <1>1
    <3> QED BY <1>1, <3>6, <3>7
  <2>4. k = 0 \/ k = 12 \/ k \in 1..11
    OBVIOUS
  <2> QED BY <2>1, <2>2, <2>3, <2>4
<1>11. CapitalizedYear(f)[12] >= SimpleYear(f)[12] - 12 * 1200 - 66 * Percent
  <2> DEFINE x == d[12]
  <2>1. x \in Nat /\ 2400 * x >= Brings(M, D, 12)
    BY <1>5 DEF Enough
  <2>2. CapitalizedYear(f)[12] = x + 12 * R
    BY <1>6
  <2> HIDE DEF x
  <2>3. M * (1200 + 12 * Percent) = 1200 * M + 12 * (Percent * M)
    BY <1>1, <1>2
  <2>4. Brings(M, D, 12) = 2400 * (1200 * M) + 2400 * (12 * D) + 2400 * (12 * (Percent * M))
                             + 132 * (Percent * D) - 31653600 - 158268 * Percent
    BY <1>1, <1>2 DEF Brings
  <2> QED BY <1>1, <1>2, <1>3, <1>8, <2>1, <2>2, <2>3, <2>4
<1> QED BY <1>9, <1>10, <1>11 DEF M, e

\* No forecast the page draws promises less of a deposit than of the money at home,
\* nor less of capitalization than of interest at the end of the year: but for the
\* cut-off units DepositPays names and their interest.
THEOREM DepositsPay == Spec => []DepositPays
<1>1. TypeOK => DepositPays
  <2> SUFFICES ASSUME TypeOK, drawn.money # Broken, drawn.delta # Broken,
                      drawn.delta >= 0
               PROVE  /\ \A k \in 0..12 :
                           \/ Year(drawn)[k] >= [i \in 0..12 |->
                                (drawn.money + i * drawn.delta) * 1200][k] - k * 1200
                           \/ /\ drawn.plan.deposit /\ ~drawn.plan.capitalization
                              /\ drawn.share < 100 /\ k \in 1..11
                      /\ CapitalizedYear(drawn)[12]
                           >= SimpleYear(drawn)[12] - 12 * 1200 - 66 * Percent
    BY DEF DepositPays
  <2>1. drawn.money \in Nat /\ drawn.delta \in Nat /\ drawn.share \in 0..100
    BY DEF TypeOK, Forecasts
  <2>2. /\ \A k \in 0..12 :
              CapitalizedYear(drawn)[k] >= (drawn.money + k * drawn.delta) * 1200 - k * 1200
        /\ \A k \in 0..12 :
             SimpleYear(drawn)[k] >= (drawn.money + k * drawn.delta) * 1200 - k * 1200
               \/ (drawn.share < 100 /\ k \in 1..11)
        /\ CapitalizedYear(drawn)[12]
             >= SimpleYear(drawn)[12] - 12 * 1200 - 66 * Percent
    BY <2>1, DepositsBeatHome
  <2>3. \A k \in 0..12 : PlainYear(drawn)[k] = (drawn.money + k * drawn.delta) * 1200
    BY <2>1, PlainIsHome
  <2>4. ASSUME NEW k \in 0..12
        PROVE  \/ Year(drawn)[k] >= (drawn.money + k * drawn.delta) * 1200 - k * 1200
               \/ /\ drawn.plan.deposit /\ ~drawn.plan.capitalization
                  /\ drawn.share < 100 /\ k \in 1..11
    <3> DEFINE h == (drawn.money + k * drawn.delta) * 1200
    <3>1. h \in Int
      BY <2>1
    <3>2. CASE ~drawn.plan.deposit
      <4>1. Year(drawn) = PlainYear(drawn)
        BY <3>2 DEF Year
      <4>2. Year(drawn)[k] = h
        BY <2>3, <4>1
      <4> HIDE DEF h
      <4>3. h >= h - k * 1200
        BY <3>1
      <4> QED BY <4>2, <4>3 DEF h
    <3>3. CASE drawn.plan.deposit /\ drawn.plan.capitalization
      <4>1. Year(drawn) = CapitalizedYear(drawn)
        BY <2>1, <3>3 DEF Year
      <4> QED BY <2>2, <4>1
    <3>4. CASE drawn.plan.deposit /\ ~drawn.plan.capitalization
      <4>1. Year(drawn) = SimpleYear(drawn)
        BY <2>1, <3>4 DEF Year
      <4> QED BY <2>2, <3>4, <4>1
    <3> QED BY <3>2, <3>3, <3>4
  <2> QED BY <2>2, <2>4
<1> QED BY <1>1, PageTypeCorrect, PTL

=============================================================================
